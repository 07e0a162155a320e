---------------------------- MODULE Classification ----------------------------
(***************************************************************************)
(* What the comparison of one pair promises (spec section 4.4), without    *)
(* the loops that compute it: once both sides are resolved into dicts, the *)
(* three reports are fixed in one step as sets over the two dicts, up to   *)
(* the choice of which group:artifact partner a fallback match takes       *)
(* (first in iteration order, which the spec leaves unspecified).  An      *)
(* exception while the sides are resolved ends the comparison.             *)
(*                                                                         *)
(* A key is the sequence of its colon-separated parts; a dict is a         *)
(* sequence of entries with distinct keys.                                 *)
(***************************************************************************)
EXTENDS Naturals, Sequences, FiniteSets

CONSTANTS
    ProjectGroup,  \* the group of a project-module reference
    ToolGroups,    \* the Kotlin / Gradle build-tool group prefixes
    NoVersion      \* what a key without a version part reports as version

VARIABLES
    phase,       \* "resolving", "resolved", "classified" or "crashed"
    mavenDeps,   \* the resolved Maven dict: entries [key, scope]
    gradleDeps,  \* the normalised Gradle dict: entries [key, config]
    missing,     \* keys missing in Gradle
    mismatch,    \* version mismatches [key, maven, gradle]
    only         \* keys only in Gradle

avars == <<phase, mavenDeps, gradleDeps, missing, mismatch, only>>

\* Scopes and configurations the spec leaves out of the comparison.
NotComparedScopes  == {"test", "provided"}
NotComparedConfigs == {"testImplementation", "compileOnly", "antlr"}

KeysOf(d) == {d[i].key : i \in 1..Len(d)}
Entries(d) == {d[i] : i \in 1..Len(d)}
IsDict(d) == \A i, j \in 1..Len(d) : d[i].key = d[j].key => i = j

SameGA(k1, k2) == k1[1] = k2[1] /\ k1[2] = k2[2]
Version(k) == IF Len(k) > 2 THEN k[3] ELSE NoVersion
Partners(d, k) == {x \in KeysOf(d) : SameGA(x, k)}

\* Pass 1: comparable Maven entries that Gradle lacks by key.
Unmatched1 ==
    {e \in Entries(mavenDeps) :
        e.scope \notin NotComparedScopes /\ e.key \notin KeysOf(gradleDeps)}

\* Pass 2: Gradle entries that are compared and Maven lacks by key.
Unmatched2 ==
    {e \in Entries(gradleDeps) :
        /\ e.key[1] # ProjectGroup /\ e.config \notin NotComparedConfigs
        /\ e.key \notin KeysOf(mavenDeps)}

Fallback1 == {e \in Unmatched1 : Partners(gradleDeps, e.key) # {}}
Fallback2 == {e \in Unmatched2 : Partners(mavenDeps, e.key) # {}}

MissingSet == {e.key : e \in Unmatched1 \ Fallback1}

OnlySet == {e.key : e \in {x \in Unmatched2 \ Fallback2 : x.key[1] \notin ToolGroups}}

\* The mismatch reports for one choice of partners: pass 1 records each of
\* its fallbacks; pass 2 records a fallback whose versions differ unless its
\* Maven partner was recorded by pass 1.
MismatchFor(p1, p2) ==
    {[key |-> e.key, maven |-> Version(e.key), gradle |-> Version(p1[e])] :
        e \in Fallback1}
    \cup {[key |-> e.key, maven |-> Version(p2[e]), gradle |-> Version(e.key)] :
        e \in {x \in Fallback2 :
                  /\ p2[x] \notin {y.key : y \in Fallback1}
                  /\ Version(p2[x]) # Version(x.key)}}

MismatchSets ==
    {MismatchFor(p1, p2) :
        p1 \in {f \in [Fallback1 -> KeysOf(gradleDeps)] :
                   \A e \in Fallback1 : SameGA(f[e], e.key)},
        p2 \in {f \in [Fallback2 -> KeysOf(mavenDeps)] :
                   \A e \in Fallback2 : SameGA(f[e], e.key)}}

-----------------------------------------------------------------------------
Init ==
    /\ phase = "resolving"
    /\ mavenDeps = <<>> /\ gradleDeps = <<>>
    /\ missing = {} /\ mismatch = {} /\ only = {}

\* Both sides are resolved into dicts.
Resolve ==
    /\ phase = "resolving" /\ phase' = "resolved"
    /\ IsDict(mavenDeps') /\ IsDict(gradleDeps')
    /\ UNCHANGED <<missing, mismatch, only>>

\* The three reports are computed from the two dicts.
Classify ==
    /\ phase = "resolved" /\ phase' = "classified"
    /\ missing' = MissingSet /\ only' = OnlySet /\ mismatch' \in MismatchSets
    /\ UNCHANGED <<mavenDeps, gradleDeps>>

\* Resolution raises; nothing is reported.
Fail ==
    /\ phase = "resolving" /\ phase' = "crashed"
    /\ UNCHANGED <<mavenDeps, gradleDeps, missing, mismatch, only>>

Next == Resolve \/ Classify \/ Fail

Spec == Init /\ [][Next]_avars
=============================================================================
