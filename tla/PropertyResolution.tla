------------------------- MODULE PropertyResolution -------------------------
(***************************************************************************)
(* The data of compare_dependencies.py and the two property resolvers it   *)
(* applies to a declared version: get_property_value (Maven) and           *)
(* get_gradle_project_property plus the version lookup of                  *)
(* normalize_gradle_dependencies (Gradle).                                 *)
(*                                                                         *)
(* A version or property value is a piece of text.  The parsers produce    *)
(* two shapes of text: "${s}" (parse_pom keeps the XML text, parse_gradle  *)
(* writes project.ext["s"] references as "${s}") and any other text s.     *)
(* Both are records over the set Names of strings that may serve as        *)
(* property keys; a literal whose text equals a key is Lit(key).  A        *)
(* property map is a Python dict from keys to values: a key is Absent, or  *)
(* holds text, or holds Null (an empty XML element <k/>, whose .text is    *)
(* None).  dict.get returns None for Absent and Null alike.                *)
(***************************************************************************)
EXTENDS Naturals, Sequences, FiniteSets

CONSTANTS
    Names,      \* strings usable as property keys and literal versions
    None,       \* Python's None
    Absent,     \* a key missing from a dict
    Null        \* a key present in a dict with the value None

ASSUME NamesAssumption == IsFiniteSet(Names) /\ Names # {}

Lit(s) == [kind |-> "lit", s |-> s]
Ph(s)  == [kind |-> "ph", s |-> s]

Text == [kind : {"lit", "ph"}, s : Names]

ASSUME SentinelAssumption ==
    /\ None \notin Text /\ Absent \notin Text /\ Null \notin Text
    /\ None # Absent /\ None # Null /\ Absent # Null

PropMap == [Names -> Text \cup {Absent, Null}]

EmptyMap == [k \in Names |-> Absent]

\* value.startswith('${') and value.endswith('}')
IsPlaceholder(t) == t \in Text /\ t.kind = "ph"

\* properties_map.get(key)
Get(M, k) == IF M[k] \in Text THEN M[k] ELSE None

\* The truth value of a dict: it is non-empty.
NonEmpty(M) == \E k \in Names : M[k] # Absent

\* {**lo, **hi}: the keys of hi override those of lo, a None value included.
Merge(lo, hi) == [k \in Names |-> IF hi[k] = Absent THEN lo[k] ELSE hi[k]]

(***************************************************************************)
(* get_property_value(prop_name, properties_map, all_pom_properties).      *)
(* One activation looks the key up in properties_map and, failing that,    *)
(* in all_pom_properties; a placeholder found there is resolved by a       *)
(* recursive call.  A call is a record: the reference, whether the map it  *)
(* searches is all_pom_properties (inA), and whether all_pom_properties    *)
(* was passed (hasA).  The recursion from a local hit passes both maps on  *)
(* unchanged, the one from a global hit passes (all_pom, None).            *)
(*                                                                         *)
(* The recursion is deterministic over the finitely many CallStates:      *)
(* resume maps a pending call to the next one or to its result, and a      *)
(* chain that has not returned after CallBound calls repeats a call and    *)
(* never returns: CPython then raises RecursionError, which no caller      *)
(* catches.                                                                *)
(***************************************************************************)
RecursionError == [error |-> "RecursionError"]

Call(ref, inA, hasA) == [tag |-> "call", ref |-> ref, inA |-> inA, hasA |-> hasA]
Ret(v) == [tag |-> "ret", val |-> v]
RetStates == [tag : {"ret"}, val : Text]
CallStates == [tag : {"call"}, ref : Text, inA : BOOLEAN, hasA : BOOLEAN]

CallBound == 3 * Cardinality(Text) + 1

\* One activation of get_property_value (lines 24-49); prop_key is prop_name
\* without "${" "}" for a placeholder and prop_name itself otherwise.
PropertyStep(c, M, A) ==
    LET map  == IF c.inA THEN A ELSE M
        key  == c.ref.s
        val  == Get(map, key)
        gval == Get(A, key)
    IN  IF val # None
        THEN IF IsPlaceholder(val) THEN Call(val, c.inA, c.hasA) ELSE Ret(val)
        ELSE IF c.hasA /\ NonEmpty(A) /\ gval # None
             THEN IF IsPlaceholder(gval) THEN Call(gval, TRUE, FALSE)
                                         ELSE Ret(gval)
             ELSE Ret(c.ref)

\* hasA is FALSE when the caller passes all_pom_properties = None; A is then
\* never read.
GetPropertyValue(ref, M, A, hasA) ==
    IF ref = None THEN None
    ELSE LET resume == [x \in CallStates \cup RetStates |->
                           IF x.tag = "ret" THEN x ELSE PropertyStep(x, M, A)]
             chain[i \in 0..CallBound] ==
                 IF i = 0 THEN Call(ref, FALSE, hasA) ELSE resume[chain[i - 1]]
             last == chain[CallBound]
         IN  IF last \in RetStates THEN last.val ELSE RecursionError

(***************************************************************************)
(* get_gradle_project_property(prop_name, properties_map, root).  Only a   *)
(* project.ext["k"] reference is stripped to its key; a placeholder "${k}" *)
(* is looked up under the key "${k}" itself, which no map holds, so it     *)
(* falls through and is returned unchanged.  For the same reason the       *)
(* recursive call the code makes on a placeholder value returns that value *)
(* unchanged, and the function returns what the map holds.  The parsers    *)
(* never produce a project.ext["k"] text, so that form is not modelled.    *)
(***************************************************************************)
GradleKeyHit(M, ref) == ref.kind = "lit" /\ Get(M, ref.s) # None

GetGradleProjectProperty(ref, L, R) ==
    IF ref = None THEN None
    ELSE IF GradleKeyHit(L, ref) THEN Get(L, ref.s)
    ELSE IF NonEmpty(R) /\ GradleKeyHit(R, ref) THEN Get(R, ref.s)
    ELSE ref

\* The version resolution of normalize_gradle_dependencies (lines 152-158):
\* a placeholder goes to get_gradle_project_property, a text that is a key
\* of the local or the root map is replaced by its value (no recursion).
GradleResolveVersion(v, L, R) ==
    IF v = None THEN None
    ELSE IF IsPlaceholder(v) THEN GetGradleProjectProperty(v, L, R)
    ELSE IF Get(L, v.s) # None THEN Get(L, v.s)
    ELSE IF Get(R, v.s) # None THEN Get(R, v.s)
    ELSE v
=============================================================================
