-------------------------- MODULE GradleProperties --------------------------
(***************************************************************************)
(* The three property passes of parse_gradle_kts (parse_gradle.py 57-79).  *)
(*                                                                         *)
(* A build script is the sequence of the statements the three property     *)
(* patterns can match, in file order.  A statement is                      *)
(*   "set"     set("k", "v")                                               *)
(*   "setRef"  set("k", project.ext["v"])                                  *)
(*   "val"     val k = "v"                                                 *)
(*   "valRef"  val k = project.ext["v"]                                    *)
(*   "assign"  k = "v"                                                     *)
(* with its block: 0 outside every ext { } block, b inside the b-th one.   *)
(* The first pass visits the matches of ext_property_pattern (every set),  *)
(* the second those of val_property_pattern (every val), the third those   *)
(* of ext_block_item_pattern inside the first ext block only (.search      *)
(* finds one block): its set("k", "v"), and its k = "v", which also        *)
(* matches the tail of a val k = "v".  A project.ext reference is stored   *)
(* as "${v}".  Values are non-empty strings without quotes or braces, so   *)
(* every pattern that reaches a statement matches it whole.                *)
(***************************************************************************)
EXTENDS PropertyResolution, SequencesExt

CONSTANTS
    Scripts     \* the build scripts to parse

StmtKinds == {"set", "setRef", "val", "valRef", "assign"}

Stmt == [kind : StmtKinds, key : Names, v : Names, block : Nat]

ASSUME ScriptsAssumption == Scripts \subseteq Seq(Stmt)

VARIABLES
    script,  \* the content of the file
    props,   \* the properties dict
    pass,    \* "set", "val", "block" (the three loops) or "done"
    idx      \* the position in the script where the current pass goes on

vars == <<script, props, pass, idx>>

\* Mutant: a project.ext reference stored as the bare key v, not "${v}".
StoredLit(s) == Lit(s.v)

\* The value stored for a statement (lines 60, 63, 67, 69, 76, 78).
Stored(s) == IF s.kind \in {"setRef", "valRef"} THEN Ph(s.v) ELSE Lit(s.v)

\* The first ext block exists (line 71).
HasExtBlock == \E i \in 1..Len(script) : script[i].block = 1

\* Mutant: the set(...) alternative of ext_block_item_pattern left out.
BlockItemNoSet(s) == s.block = 1 /\ s.kind \in {"val", "assign"}

\* A match of ext_block_item_pattern in the first ext block (73-74).
BlockItem(s) == s.block = 1 /\ s.kind \in {"set", "val", "assign"}

\* The statements the pattern of each pass matches (lines 57, 62, 71-74).
InPass(p, s) ==
    IF p = "set" THEN s.kind \in {"set", "setRef"}
    ELSE IF p = "val" THEN s.kind \in {"val", "valRef"}
    ELSE HasExtBlock /\ BlockItem(s)

\* The position of the next match of finditer at or after position i, or
\* one past the end when there is none: the loops visit the matches of
\* their pattern in file order.
NextMatch(p, i) ==
    LET J == {j \in i..Len(script) : InPass(p, script[j])}
    IN  IF J # {} THEN Min(J) ELSE Len(script) + 1

\* The pass that follows each one.
NextPass == [set |-> "val", val |-> "block", block |-> "done"]

-----------------------------------------------------------------------------
Init ==
    /\ script \in Scripts
    /\ props = EmptyMap
    /\ pass = "set" /\ idx = 1

\* One iteration of a loop: properties[key] = value for the next match.
ApplyMatch ==
    /\ pass # "done" /\ NextMatch(pass, idx) <= Len(script)
    /\ LET j == NextMatch(pass, idx)
           s == script[j]
       IN  /\ props' = [props EXCEPT ![s.key] = Stored(s)]
           /\ idx' = j + 1
    /\ UNCHANGED <<script, pass>>

\* A loop has visited its last match; the next one starts.
EndPass ==
    /\ pass # "done" /\ NextMatch(pass, idx) > Len(script)
    /\ pass' = NextPass[pass] /\ idx' = 1
    /\ UNCHANGED <<script, props>>

\* parse_gradle_kts has returned its properties.
Returned ==
    /\ pass = "done"
    /\ UNCHANGED vars

Next == ApplyMatch \/ EndPass \/ Returned

Spec == Init /\ [][Next]_vars

-----------------------------------------------------------------------------
(* Properties *)

TypeOK ==
    /\ script \in Scripts /\ props \in PropMap
    /\ pass \in {"set", "val", "block", "done"} /\ idx \in Nat \ {0}

\* The raw value a statement defines, as the resolution rule reads it
\* (spec section 3): a literal as itself, a reference to the extension
\* property v as an indirection to v, to be resolved later.
Defined(s) ==
    IF s.kind \in {"setRef", "valRef"} THEN Ph(s.v) ELSE Lit(s.v)

\* The last statement of a sequence that satisfies a test, or 0.
LastWhere(q, Test(_)) == SelectLastInSeq(q, Test)

\* The value of key k given by the last statement of q that satisfies Test.
LastValue(q, k, Test(_)) ==
    LET i == LastWhere(q, LAMBDA s : s.key = k /\ Test(s))
    IN  IF i = 0 THEN Absent ELSE Defined(q[i])

\* The dict parse_gradle_kts returns is fixed by the form of each
\* definition, not by where it stands: an item of the first ext block
\* beats every val, a val beats every set, and among statements of one
\* rank the last in file order wins (the three loops of lines 57-78);
\* the winning value is the one it defines, a project.ext reference kept
\* as an indirection for the resolver (lines 63 and 69).
RankedPrecedence ==
    pass = "done" =>
        \A k \in Names :
            LET inBlock == LastValue(script, k,
                               LAMBDA s : s.block = 1 /\ s.kind \in {"set", "val", "assign"})
                byVal   == LastValue(script, k, LAMBDA s : s.kind \in {"val", "valRef"})
                bySet   == LastValue(script, k, LAMBDA s : s.kind \in {"set", "setRef"})
            IN  props[k] = IF inBlock # Absent THEN inBlock
                           ELSE IF byVal # Absent THEN byVal
                           ELSE bySet

\* Each property the scraper recognises takes the value of its last
\* definition in the file, as a script that sets a property twice means
\* (spec section 3: a scope maps each name to its raw value); the
\* definitions are every set and val and every k = "v" inside an ext block.
LastDefinitionWins ==
    pass = "done" =>
        \A k \in Names :
            props[k] = LastValue(script, k,
                           LAMBDA s : s.kind # "assign" \/ s.block # 0)
=============================================================================
