------------------------- MODULE ClassificationProofs -------------------------
(***************************************************************************)
(* Proofs that the two classification passes of compare_dependencies.py   *)
(* (lines 328-400) compute, for every value of the constants, the reports  *)
(* the comparison rules give: MavenSideClassified, GradleSideClassified,   *)
(* and the refinement of the abstract Classification spec.                *)
(*                                                                         *)
(* The passes build their reports one dict entry at a time; what holds of *)
(* them is stated for the prefix of the dict a pass has processed (P1 for *)
(* pass 1, P2 for pass 2), which is the whole dict once the pass is over.  *)
(***************************************************************************)
EXTENDS ComparePairProofs

-----------------------------------------------------------------------------
(* The inductive invariant *)

\* Every key of a dict is the key of one entry (d[key] = value never
\* appends a key the dict holds).
DistinctKeys(d) == \A i, j \in 1..Len(d) : d[i].key = d[j].key => i = j

\* The number of Maven and Gradle entries the two passes have processed.
P1 == IF pc = "pass1" THEN idx - 1
      ELSE IF pc \in {"pass2", "done"} THEN Len(maven) ELSE 0
P2 == IF pc = "pass2" THEN idx - 1
      ELSE IF pc = "done" THEN Len(gradle) ELSE 0

\* A Maven entry pass 1 reports: its scope is compared and Gradle lacks its
\* key.
Reported1(e) == e.scope \notin ExcludedScopes /\ e.key \notin Keys(gradle)

\* A Gradle entry pass 2 looks at: not a project, a compared configuration,
\* and Maven lacks its key.
Reported2(e) == /\ e.key[1] # ProjectGroup /\ e.config \notin SkippedConfigs
                /\ e.key \notin Keys(maven)

Partner1(i) == gradle[FirstGA(gradle, maven[i].key)].key
Partner2(i) == maven[FirstGA(maven, gradle[i].key)].key

Missing1(n)  == {i \in 1..n : Reported1(maven[i]) /\ FirstGA(gradle, maven[i].key) = 0}
Fallback1(n) == {i \in 1..n : Reported1(maven[i]) /\ FirstGA(gradle, maven[i].key) # 0}

\* The Maven keys pass 1 records as mismatches.
Fallback1Keys == {maven[i].key : i \in Fallback1(Len(maven))}

Only2(n) == {i \in 1..n : /\ Reported2(gradle[i])
                          /\ FirstGA(maven, gradle[i].key) = 0
                          /\ OnlyGradleAllowed(gradle[i].key)}
Fallback2(n) == {i \in 1..n : /\ Reported2(gradle[i])
                              /\ FirstGA(maven, gradle[i].key) # 0
                              /\ Partner2(i) \notin Fallback1Keys
                              /\ Part3(Partner2(i)) # Part3(gradle[i].key)}

Record2(i) == [key |-> gradle[i].key, maven |-> Part3(Partner2(i)),
               gradle |-> Part3(gradle[i].key)]

\* The reports hold exactly what the passes have recorded for the processed
\* prefixes, and the loop indices stay within one past the dict.
ClassInv ==
    /\ TypeOK
    /\ DistinctKeys(maven) /\ DistinctKeys(gradle)
    /\ pc = "pass1" => idx <= Len(maven) + 1
    /\ pc = "pass2" => idx <= Len(gradle) + 1
    /\ missing = {maven[i].key : i \in Missing1(P1)}
    /\ mismatch = {Pass1Mismatch(maven[i].key, Partner1(i)) : i \in Fallback1(P1)}
                  \cup {Record2(i) : i \in Fallback2(P2)}
    /\ only = {gradle[i].key : i \in Only2(P2)}

-----------------------------------------------------------------------------
(* Lemmas on the dict operators *)

\* The group:artifact search returns 0 exactly when no entry of the dict
\* has the group:artifact.
LEMMA FirstGAZero ==
    ASSUME NEW S, NEW d \in Seq(S), NEW k
    PROVE  FirstGA(d, k) = 0 <=> ~ HasGAPartner(d, k)
<1> DEFINE I == {i \in 1..Len(d) : GA(d[i].key) = GA(k)}
<1>1. FirstGA(d, k) = IF I # {} THEN Min(I) ELSE 0
  BY DEF FirstGA, SelectInSeq
<1>2. I # {} => Min(I) \in I
  BY MinNat
<1>. QED  BY <1>1, <1>2 DEF HasGAPartner

\* d[e.key] = e keeps the keys of a dict distinct and adds e's key.
LEMMA PutEntryDistinct ==
    ASSUME NEW S, NEW d \in Seq(S), NEW e, DistinctKeys(d)
    PROVE  /\ DistinctKeys(PutEntry(d, e))
           /\ Keys(PutEntry(d, e)) = Keys(d) \cup {e.key}
<1>1. CASE e.key \in Keys(d)
  <2> DEFINE n == [i \in 1..Len(d) |-> IF d[i].key = e.key THEN e ELSE d[i]]
  <2>1. PutEntry(d, e) = n
    BY <1>1 DEF PutEntry
  <2>2. \A i \in 1..Len(d) : n[i].key = IF d[i].key = e.key THEN e.key ELSE d[i].key
    OBVIOUS
  <2>3. DistinctKeys(n)
    BY <2>2 DEF DistinctKeys
  <2>4. Keys(n) = Keys(d) \cup {e.key}
    <3>1. Len(n) = Len(d)
      OBVIOUS
    <3>2. Keys(n) \subseteq Keys(d) \cup {e.key}
      <4>1. Keys(n) = {n[j].key : j \in 1..Len(d)}
        BY <3>1 DEF Keys
      <4>2. \A j \in 1..Len(d) : n[j].key \in Keys(d) \cup {e.key}
        BY <2>2 DEF Keys
      <4>. QED  BY <4>1, <4>2
    <3>3. PICK i \in 1..Len(d) : d[i].key = e.key
      BY <1>1 DEF Keys
    <3>4. n[i].key = e.key
      BY <2>2, <3>3
    <3>5. e.key \in Keys(n)
      BY <3>1, <3>4 DEF Keys
    <3>6. Keys(d) \subseteq Keys(n) \cup {e.key}
      BY <2>2, <3>1 DEF Keys
    <3>. QED  BY <3>2, <3>5, <3>6
  <2>. QED  BY <2>1, <2>3, <2>4
<1>2. CASE e.key \notin Keys(d)
  <2>1. PutEntry(d, e) = Append(d, e)
    BY <1>2 DEF PutEntry
  <2>2. /\ Len(Append(d, e)) = Len(d) + 1
        /\ \A i \in 1..Len(d) : Append(d, e)[i] = d[i]
        /\ Append(d, e)[Len(d) + 1] = e
    OBVIOUS
  <2>3. DistinctKeys(Append(d, e))
    BY <1>2, <2>2 DEF DistinctKeys, Keys
  <2>4. Keys(Append(d, e)) = Keys(d) \cup {e.key}
    BY <2>2 DEF Keys
  <2>. QED  BY <2>1, <2>3, <2>4
<1>. QED  BY <1>1, <1>2


\* The reports of the processed prefixes depend on the two dicts alone: a
\* step that leaves both dicts alone leaves them alone.
LEMMA DictsUnchanged ==
    ASSUME maven' = maven, gradle' = gradle
    PROVE  /\ \A n : Missing1(n)' = Missing1(n)
           /\ \A n : Fallback1(n)' = Fallback1(n)
           /\ \A n : Fallback2(n)' = Fallback2(n)
           /\ \A n : Only2(n)' = Only2(n)
           /\ \A i : Partner1(i)' = Partner1(i)
           /\ \A i : Record2(i)' = Record2(i)
           /\ DistinctKeys(maven)' = DistinctKeys(maven)
           /\ DistinctKeys(gradle)' = DistinctKeys(gradle)
<1>1. \A x : Reported1(x)' = Reported1(x) /\ Reported2(x)' = Reported2(x)
  BY DEF Reported1, Reported2
<1>2. \A i : Partner1(i)' = Partner1(i) /\ Partner2(i)' = Partner2(i)
  BY DEF Partner1, Partner2
<1>3. Fallback1Keys' = Fallback1Keys
  BY <1>1 DEF Fallback1Keys, Fallback1
<1>. QED  BY <1>1, <1>2, <1>3 DEF Missing1, Fallback1, Fallback2, Only2, Record2


\* In a dict with distinct keys, the key of entry i is among the keys of a
\* set of entries exactly when i is in the set.
LEMMA KeyOfIndexSet ==
    ASSUME NEW T, NEW d \in Seq(T), DistinctKeys(d),
           NEW i \in 1..Len(d), NEW I \in SUBSET (1..Len(d))
    PROVE  d[i].key \in {d[k].key : k \in I} <=> i \in I
BY DEF DistinctKeys

\* Once pass 1 is over, the keys of the mismatch records are the Maven keys
\* pass 1 recorded and the Gradle keys pass 2 has recorded.
LEMMA MismatchKeysSplit ==
    ASSUME ClassInv, pc \in {"pass2", "done"}
    PROVE  MismatchKeys = Fallback1Keys \cup {gradle[i].key : i \in Fallback2(P2)}
<1> DEFINE A == {Pass1Mismatch(maven[i].key, Partner1(i)) : i \in Fallback1(Len(maven))}
           B == {Record2(i) : i \in Fallback2(P2)}
<1>1. mismatch = A \cup B
  BY DEF ClassInv, P1
<1>2. {r.key : r \in A} = Fallback1Keys
  <2>1. \A i \in Fallback1(Len(maven)) :
          Pass1Mismatch(maven[i].key, Partner1(i)).key = maven[i].key
    BY DEF Pass1Mismatch
  <2>. QED  BY <2>1, Zenon DEF Fallback1Keys
<1>3. {r.key : r \in B} = {gradle[i].key : i \in Fallback2(P2)}
  <2>1. \A i \in Fallback2(P2) : Record2(i).key = gradle[i].key
    BY DEF Record2
  <2>. QED  BY <2>1, Zenon
<1>4. {r.key : r \in A \cup B} = {r.key : r \in A} \cup {r.key : r \in B}
  OBVIOUS
<1>. QED  BY <1>1, <1>2, <1>3, <1>4 DEF MismatchKeys

-----------------------------------------------------------------------------
(* ClassInv is an invariant *)

LEMMA InitClassInv == Init => ClassInv
<1> SUFFICES ASSUME Init PROVE ClassInv
  OBVIOUS
<1>1. TypeOK
  BY InitTypeOK
<1>2. pc = "managed" /\ maven = <<>> /\ gradle = <<>>
      /\ missing = {} /\ mismatch = {} /\ only = {}
  BY DEF Init, PairInit
<1>3. P1 = 0 /\ P2 = 0
  BY <1>2 DEF P1, P2
<1>. QED  BY <1>1, <1>2, <1>3 DEF ClassInv, DistinctKeys, Missing1, Fallback1, Fallback2, Only2


\* Before the first pass nothing has been processed and nothing reported.
LEMMA EmptyPrefixes ==
    /\ Missing1(0) = {} /\ Fallback1(0) = {}
    /\ Fallback2(0) = {} /\ Only2(0) = {}
BY DEF Missing1, Fallback1, Fallback2, Only2

\* The steps that resolve the dicts, and the crashes they may end in,
\* keep the keys of both dicts distinct and report nothing.
LEMMA ResolutionStep ==
    ASSUME ClassInv, TypeOK',
           NormalizeManaged \/ ResolveDirect \/ NormalizeGradle
    PROVE  ClassInv'
<1>1. pc \in {"managed", "direct", "gradle"}
  BY DEF NormalizeManaged, ResolveDirect, NormalizeGradle
<1>2. missing = {} /\ mismatch = {} /\ only = {}
  <2>1. P1 = 0 /\ P2 = 0
    BY <1>1 DEF P1, P2
  <2>. QED  BY <2>1, EmptyPrefixes DEF ClassInv
<1>3. /\ pc' \in {"managed", "direct", "gradle", "crashed"}
      /\ missing' = missing /\ mismatch' = mismatch /\ only' = only
  BY <1>1 DEF NormalizeManaged, ResolveDirect, NormalizeGradle, Crash
<1>4. maven \in Seq([key : MavenKey, scope : Scopes])
      /\ gradle \in Seq([key : GradleKey, config : Configs])
      /\ DistinctKeys(maven) /\ DistinctKeys(gradle)
  BY DEF ClassInv, TypeOK
<1>5. \/ maven' = maven
      \/ \E x : maven' = PutEntry(maven, x)
  BY DEF NormalizeManaged, ResolveDirect, NormalizeGradle, Crash
<1>6. \/ gradle' = gradle
      \/ \E x : gradle' = PutEntry(gradle, x)
  BY DEF NormalizeManaged, ResolveDirect, NormalizeGradle, Crash
<1>7. DistinctKeys(maven') /\ DistinctKeys(gradle')
  BY <1>4, <1>5, <1>6, PutEntryDistinct
<1>8. P1' = 0 /\ P2' = 0
  BY <1>3 DEF P1, P2
<1>9. /\ Missing1(0)' = {} /\ Fallback1(0)' = {}
      /\ Fallback2(0)' = {} /\ Only2(0)' = {}
  BY DEF Missing1, Fallback1, Fallback2, Only2
<1>. QED  BY <1>2, <1>3, <1>7, <1>8, <1>9 DEF ClassInv


\* A loop that ends hands over to the next with the same processed
\* prefixes: pass 1 ends after the last Maven entry, pass 2 after the last
\* Gradle entry.
LEMMA PhaseStep ==
    ASSUME ClassInv, TypeOK', NextPhase
    PROVE  ClassInv'
<1>1. /\ maven' = maven /\ gradle' = gradle
      /\ missing' = missing /\ mismatch' = mismatch /\ only' = only
  BY DEF NextPhase
<1>2. idx \in Nat /\ idx' = 1 /\ pc' = PhaseAfter[pc]
      /\ pc \in DOMAIN PhaseAfter /\ idx > PhaseLength[pc]
  BY DEF NextPhase, ClassInv, TypeOK
<1>3. P1' = P1 /\ P2' = P2
  <2>1. CASE pc \in {"managed", "direct", "gradle"}
    BY <1>2, <2>1 DEF P1, P2, PhaseAfter
  <2>2. CASE pc = "pass1"
    <3>1. idx = Len(maven) + 1
      BY <1>2, <2>2 DEF ClassInv, PhaseLength, TypeOK
    <3>. QED  BY <1>1, <1>2, <2>2, <3>1 DEF P1, P2, PhaseAfter
  <2>3. CASE pc = "pass2"
    <3>1. idx = Len(gradle) + 1
      BY <1>2, <2>3 DEF ClassInv, PhaseLength, TypeOK
    <3>. QED  BY <1>1, <1>2, <2>3, <3>1 DEF P1, P2, PhaseAfter
  <2>. QED  BY <1>2, <2>1, <2>2, <2>3 DEF PhaseAfter
<1>4. pc' = "pass1" => idx' <= Len(maven') + 1
  BY <1>2
<1>5. pc' = "pass2" => idx' <= Len(gradle') + 1
  BY <1>2
<1>. QED  BY <1>1, <1>3, <1>4, <1>5, DictsUnchanged DEF ClassInv


\* One iteration of pass 1 reports the entry it visits as the rules say,
\* and records a mismatch for it at most once: no earlier entry has its key.
LEMMA Pass1Step ==
    ASSUME ClassInv, TypeOK', Pass1
    PROVE  ClassInv'
<1> DEFINE e == maven[idx]
           j == FirstGA(gradle, e.key)
<1>1. /\ idx \in 1..Len(maven) /\ pc = "pass1" /\ pc' = "pass1" /\ idx' = idx + 1
      /\ maven' = maven /\ gradle' = gradle /\ only' = only
  BY DEF Pass1, ClassInv, TypeOK
<1>2. P1 = idx - 1 /\ P1' = idx /\ P2 = 0 /\ P2' = 0
  BY <1>1 DEF P1, P2
<1>3. Missing1(idx) = Missing1(idx - 1) \cup (IF Reported1(e) /\ j = 0 THEN {idx} ELSE {})
  BY <1>1 DEF Missing1
<1>4. Fallback1(idx) = Fallback1(idx - 1) \cup (IF Reported1(e) /\ j # 0 THEN {idx} ELSE {})
  BY <1>1 DEF Fallback1
<1>5. /\ missing = {maven[i].key : i \in Missing1(idx - 1)}
      /\ mismatch = {Pass1Mismatch(maven[i].key, Partner1(i)) : i \in Fallback1(idx - 1)}
      /\ only = {}
  BY <1>2, EmptyPrefixes DEF ClassInv
<1>6. e.key \notin MismatchKeys
  <2>1. \A i \in Fallback1(idx - 1) : maven[i].key # e.key
    BY <1>1 DEF ClassInv, DistinctKeys, Fallback1
  <2>. QED  BY <1>5, <2>1 DEF MismatchKeys, Pass1Mismatch
<1>7. /\ missing' = {maven[i].key : i \in Missing1(idx)}
      /\ mismatch' = {Pass1Mismatch(maven[i].key, Partner1(i)) : i \in Fallback1(idx)}
  <2>1. CASE ~ Reported1(e)
    <3>1. missing' = missing /\ mismatch' = mismatch
      BY <2>1 DEF Pass1, Reported1
    <3>. QED  BY <1>3, <1>4, <1>5, <2>1, <3>1
  <2>2. CASE Reported1(e) /\ j # 0
    <3>1. missing' = missing
          /\ mismatch' = mismatch \cup {Pass1Mismatch(e.key, Partner1(idx))}
      BY <1>6, <2>2 DEF Pass1, Reported1, Pass1GradleMatch, Partner1
    <3>. QED  BY <1>3, <1>4, <1>5, <2>2, <3>1
  <2>3. CASE Reported1(e) /\ j = 0
    <3>1. missing' = missing \cup {e.key} /\ mismatch' = mismatch
      BY <2>3 DEF Pass1, Reported1, Pass1GradleMatch
    <3>. QED  BY <1>3, <1>4, <1>5, <2>3, <3>1
  <2>. QED  BY <2>1, <2>2, <2>3
<1>. QED  BY <1>1, <1>2, <1>5, <1>7, EmptyPrefixes, DictsUnchanged DEF ClassInv


\* One iteration of pass 2.  Its checks against the mismatches recorded so
\* far come down to the rules: the key it visits is in no earlier record,
\* and its Maven partner is in one exactly when pass 1 recorded it.
LEMMA Pass2Step ==
    ASSUME ClassInv, TypeOK', Pass2
    PROVE  ClassInv'
<1> DEFINE e == gradle[idx]
           j == FirstGA(maven, e.key)
<1>1. /\ idx \in 1..Len(gradle) /\ pc = "pass2" /\ pc' = "pass2" /\ idx' = idx + 1
      /\ maven' = maven /\ gradle' = gradle /\ missing' = missing
  BY DEF Pass2, ClassInv, TypeOK
<1>2. P1 = Len(maven) /\ P1' = Len(maven) /\ P2 = idx - 1 /\ P2' = idx
  BY <1>1 DEF P1, P2
<1>3. Only2(idx) = Only2(idx - 1)
        \cup (IF Reported2(e) /\ j = 0 /\ OnlyGradleAllowed(e.key) THEN {idx} ELSE {})
  BY <1>1 DEF Only2
<1>4. Fallback2(idx) = Fallback2(idx - 1)
        \cup (IF /\ Reported2(e) /\ j # 0
                 /\ Partner2(idx) \notin Fallback1Keys
                 /\ Part3(Partner2(idx)) # Part3(e.key)
              THEN {idx} ELSE {})
  BY <1>1 DEF Fallback2
<1>5. /\ mismatch = {Pass1Mismatch(maven[i].key, Partner1(i)) : i \in Fallback1(Len(maven))}
                    \cup {Record2(i) : i \in Fallback2(idx - 1)}
      /\ only = {gradle[i].key : i \in Only2(idx - 1)}
  BY <1>2 DEF ClassInv
<1>6. MismatchKeys = Fallback1Keys \cup {gradle[i].key : i \in Fallback2(idx - 1)}
  BY <1>1, <1>2, MismatchKeysSplit
<1>7. CASE ~ Reported2(e)
  <2>1. mismatch' = mismatch /\ only' = only
    BY <1>7 DEF Pass2, Reported2
  <2>. QED  BY <1>1, <1>2, <1>3, <1>4, <1>5, <1>7, <2>1, DictsUnchanged DEF ClassInv
<1>8. CASE Reported2(e) /\ j = 0
  <2>1. mismatch' = mismatch
        /\ only' = IF OnlyGradleAllowed(e.key) THEN only \cup {e.key} ELSE only
    BY <1>8 DEF Pass2, Reported2
  <2>. QED  BY <1>1, <1>2, <1>3, <1>4, <1>5, <1>8, <2>1, DictsUnchanged DEF ClassInv
<1>9. CASE Reported2(e) /\ j # 0
  <2>1. j \in 1..Len(maven)
    <3>1. maven \in Seq([key : MavenKey, scope : Scopes])
      BY <1>1 DEF ClassInv, TypeOK
    <3>2. j \in 0..Len(maven)
      BY <3>1, FirstGAType, Zenon
    <3>. QED  BY <1>9, <3>2
  <2>2. Partner2(idx) = maven[j].key /\ maven[j].key \in Keys(maven)
    BY <2>1 DEF Partner2, Keys
  <2>3. e.key \notin MismatchKeys
    <3>1. e.key \notin Fallback1Keys
      BY <1>9 DEF Reported2, Fallback1Keys, Fallback1, Keys
    <3>2. \A i \in Fallback2(idx - 1) : gradle[i].key # e.key
      BY <1>1 DEF ClassInv, DistinctKeys, Fallback2
    <3>. QED  BY <1>6, <3>1, <3>2
  <2>4. maven[j].key \in MismatchKeys <=> Partner2(idx) \in Fallback1Keys
    <3>1. \A i \in Fallback2(idx - 1) : gradle[i].key \notin Keys(maven)
      BY DEF Fallback2, Reported2
    <3>. QED  BY <1>6, <2>2, <3>1
  <2>5. /\ mismatch' = IF /\ Partner2(idx) \notin Fallback1Keys
                          /\ Part3(Partner2(idx)) # Part3(e.key)
                       THEN mismatch \cup {Record2(idx)} ELSE mismatch
        /\ only' = only
    BY <1>9, <2>2, <2>3, <2>4 DEF Pass2, Reported2, Record2
  <2>. QED  BY <1>1, <1>2, <1>3, <1>4, <1>5, <1>9, <2>5, DictsUnchanged DEF ClassInv
<1>. QED  BY <1>7, <1>8, <1>9


\* Every step keeps ClassInv: one lemma per kind of step, and the stopped
\* states and stuttering steps change nothing.
LEMMA NextClassInv == ClassInv /\ [Next]_vars => ClassInv'
<1> SUFFICES ASSUME ClassInv, [Next]_vars PROVE ClassInv'
  OBVIOUS
<1>1. TypeOK'
  BY NextTypeOK DEF ClassInv
<1>2. CASE NormalizeManaged \/ ResolveDirect \/ NormalizeGradle
  BY <1>1, <1>2, ResolutionStep
<1>3. CASE Pass1
  BY <1>1, <1>3, Pass1Step
<1>4. CASE Pass2
  BY <1>1, <1>4, Pass2Step
<1>5. CASE NextPhase
  BY <1>1, <1>5, PhaseStep
<1>6. CASE Terminated \/ UNCHANGED vars
  <2>1. UNCHANGED vars
    BY <1>6 DEF Terminated
  <2>2. P1' = P1 /\ P2' = P2
    BY <2>1 DEF vars, P1, P2
  <2>. QED  BY <1>1, <2>1, <2>2, DictsUnchanged DEF vars, ClassInv
<1>. QED  BY <1>2, <1>3, <1>4, <1>5, <1>6 DEF Next

\* The reports of the passes always hold exactly what the rules give for
\* the entries processed so far (lines 328-400).
THEOREM ClassInvariant == Spec => []ClassInv
BY InitClassInv, NextClassInv, PTL DEF Spec


-----------------------------------------------------------------------------
(* The classification properties *)

\* Once the pair is compared, pass 1 has classified every Maven dependency
\* of a compared scope exactly once: a mismatch when Gradle has its
\* group:artifact under another key, missing when Gradle has neither.
LEMMA ClassInvMavenSide == ClassInv => MavenSideClassified
<1> SUFFICES ASSUME ClassInv, pc = "done"
             PROVE  MavenSideClassified
  BY DEF MavenSideClassified
<1> DEFINE G == {gradle[i].key : i \in Fallback2(Len(gradle))}
<1>1. P1 = Len(maven) /\ P2 = Len(gradle)
  BY DEF P1, P2
<1>2. maven \in Seq([key : MavenKey, scope : Scopes]) /\ gradle \in Seq([key : GradleKey, config : Configs])
      /\ DistinctKeys(maven)
  BY DEF ClassInv, TypeOK
<1>3. missing = {maven[i].key : i \in Missing1(Len(maven))}
  BY <1>1 DEF ClassInv
<1>4. MismatchKeys = Fallback1Keys \cup G
  BY <1>1, MismatchKeysSplit
<1>5. G \cap Keys(maven) = {}
  BY DEF Fallback2, Reported2
<1>6. missing \subseteq Keys(maven)
  BY <1>3 DEF Missing1, Keys
<1>7. ASSUME NEW i \in 1..Len(maven)
      PROVE  LET e == maven[i] IN
             IF e.scope \in ExcludedScopes \/ e.key \in Keys(gradle)
             THEN e.key \notin missing \cup MismatchKeys
             ELSE IF HasGAPartner(gradle, e.key)
             THEN e.key \in MismatchKeys /\ e.key \notin missing
             ELSE e.key \in missing /\ e.key \notin MismatchKeys
  <2>1. maven[i].key \in missing <=> i \in Missing1(Len(maven))
    <3>1. Missing1(Len(maven)) \in SUBSET (1..Len(maven))
      BY DEF Missing1
    <3>. QED  BY <1>2, <1>3, <3>1, KeyOfIndexSet
  <2>2. maven[i].key \in MismatchKeys <=> i \in Fallback1(Len(maven))
    <3>1. Fallback1(Len(maven)) \in SUBSET (1..Len(maven))
      BY DEF Fallback1
    <3>2. maven[i].key \in Fallback1Keys <=> i \in Fallback1(Len(maven))
      BY <1>2, <3>1, KeyOfIndexSet DEF Fallback1Keys
    <3>3. maven[i].key \notin G
      BY <1>5 DEF Keys
    <3>. QED  BY <1>4, <3>2, <3>3
  <2>3. FirstGA(gradle, maven[i].key) = 0 <=> ~ HasGAPartner(gradle, maven[i].key)
    BY <1>2, FirstGAZero
  <2>. QED  BY <2>1, <2>2, <2>3 DEF Missing1, Fallback1, Reported1
<1>. QED  BY <1>6, <1>7 DEF MavenSideClassified

\* Pass 1 (lines 328-355) classifies every Maven dependency of a compared
\* scope exactly once, for every input: reconciled, a version mismatch, or
\* missing in Gradle; test and provided dependencies in neither report.
THEOREM MavenSideCorrect == Spec => []MavenSideClassified
BY ClassInvariant, ClassInvMavenSide, PTL

\* Once the pair is compared, a Gradle dependency is reported as present
\* only in Gradle exactly when pass 2's rules say so.
LEMMA ClassInvGradleSide == ClassInv => GradleSideClassified
<1> SUFFICES ASSUME ClassInv, pc = "done"
             PROVE  GradleSideClassified
  BY DEF GradleSideClassified
<1>1. only = {gradle[i].key : i \in Only2(Len(gradle))}
  BY DEF ClassInv, P2
<1>2. maven \in Seq([key : MavenKey, scope : Scopes]) /\ gradle \in Seq([key : GradleKey, config : Configs])
      /\ DistinctKeys(gradle)
  BY DEF ClassInv, TypeOK
<1>3. Only2(Len(gradle)) \in SUBSET (1..Len(gradle))
  BY DEF Only2
<1>4. only \subseteq Keys(gradle)
  BY <1>1, <1>3 DEF Keys
<1>5. ASSUME NEW i \in 1..Len(gradle)
      PROVE  LET e == gradle[i] IN
             e.key \in only <=>
                 /\ e.key[1] \notin ToolGroups \cup {ProjectGroup}
                 /\ e.config \notin SkippedConfigs
                 /\ e.key \notin Keys(maven)
                 /\ ~ HasGAPartner(maven, e.key)
  <2>1. gradle[i].key \in only <=> i \in Only2(Len(gradle))
    BY <1>1, <1>2, <1>3, KeyOfIndexSet
  <2>2. FirstGA(maven, gradle[i].key) = 0 <=> ~ HasGAPartner(maven, gradle[i].key)
    BY <1>2, FirstGAZero
  <2>. QED  BY <2>1, <2>2 DEF Only2, Reported2, OnlyGradleAllowed
<1>. QED  BY <1>4, <1>5 DEF GradleSideClassified

\* Pass 2 (lines 359-400) reports a Gradle dependency as present only in
\* Gradle exactly when it is not a project dependency, its configuration is
\* compared, Maven has neither its key nor its group:artifact, and its group
\* is not a build-tool group, for every input.
THEOREM GradleSideCorrect == Spec => []GradleSideClassified
BY ClassInvariant, ClassInvGradleSide, PTL


-----------------------------------------------------------------------------
(* Refinement of the abstract classification *)

\* The pass-1 group:artifact fallbacks and the pass-2 entries that have a
\* Maven partner, over the whole dicts.
Partnered2 == {i \in 1..Len(gradle) : Reported2(gradle[i]) /\ FirstGA(maven, gradle[i].key) # 0}

\* The partner functions of the two passes: the first entry, in dict order,
\* with the group:artifact (next() over the dict, lines 340 and 377).
FirstPartner1 == [e \in Abstract!Fallback1 |-> gradle[FirstGA(gradle, e.key)].key]
FirstPartner2 == [e \in Abstract!Fallback2 |-> maven[FirstGA(maven, e.key)].key]

\* The sets of the abstract spec, evaluated on the resolved dicts, are the
\* ones the passes compute entry by entry.
LEMMA AbstractSets ==
    ASSUME TypeOK, DistinctKeys(maven), DistinctKeys(gradle),
           pc \in {"pass1", "pass2", "done"}
    PROVE  /\ Abstract!Fallback1 = {maven[i] : i \in Fallback1(Len(maven))}
           /\ Abstract!Unmatched1 \ Abstract!Fallback1 = {maven[i] : i \in Missing1(Len(maven))}
           /\ Abstract!Fallback2 = {gradle[i] : i \in Partnered2}
           /\ {x \in Abstract!Unmatched2 \ Abstract!Fallback2 : x.key[1] \notin ToolGroups}
                = {gradle[i] : i \in Only2(Len(gradle))}
<1>1. AbsResolved
  BY DEF AbsResolved, AbsPhase
<1>2. maven \in Seq([key : MavenKey, scope : Scopes]) /\ gradle \in Seq([key : GradleKey, config : Configs])
  BY DEF TypeOK
<1>3. /\ \A k : Abstract!Partners(gradle, k) # {} <=> FirstGA(gradle, k) # 0
      /\ \A k : Abstract!Partners(maven, k) # {} <=> FirstGA(maven, k) # 0
  <2>1. \A k : Abstract!Partners(gradle, k) # {} <=> HasGAPartner(gradle, k)
    BY DEF Abstract!Partners, Abstract!KeysOf, Abstract!SameGA, HasGAPartner, GA
  <2>2. \A k : Abstract!Partners(maven, k) # {} <=> HasGAPartner(maven, k)
    BY DEF Abstract!Partners, Abstract!KeysOf, Abstract!SameGA, HasGAPartner, GA
  <2>. QED  BY <1>2, <2>1, <2>2, FirstGAZero
<1>4. Abstract!Unmatched1 = {maven[i] : i \in {j \in 1..Len(maven) : Reported1(maven[j])}}
  BY <1>1 DEF Abstract!Unmatched1, Abstract!Entries, Abstract!KeysOf, Abstract!NotComparedScopes,
             Reported1, ExcludedScopes, Keys
<1>5. Abstract!Unmatched2 = {gradle[i] : i \in {j \in 1..Len(gradle) : Reported2(gradle[j])}}
  BY <1>1 DEF Abstract!Unmatched2, Abstract!Entries, Abstract!KeysOf, Abstract!NotComparedConfigs,
             Reported2, SkippedConfigs, Keys
<1>6. Abstract!Fallback1 = {maven[i] : i \in Fallback1(Len(maven))}
  BY <1>1, <1>3, <1>4 DEF Abstract!Fallback1, Fallback1
<1>7. Abstract!Unmatched1 \ Abstract!Fallback1 = {maven[i] : i \in Missing1(Len(maven))}
  BY <1>1, <1>3, <1>4, <1>6 DEF Abstract!Fallback1, Missing1, Fallback1
<1>8. Abstract!Fallback2 = {gradle[i] : i \in Partnered2}
  BY <1>1, <1>3, <1>5 DEF Abstract!Fallback2, Partnered2
<1>9. {x \in Abstract!Unmatched2 \ Abstract!Fallback2 : x.key[1] \notin ToolGroups}
        = {gradle[i] : i \in Only2(Len(gradle))}
  BY <1>1, <1>3, <1>5, <1>8 DEF Abstract!Fallback2, Partnered2, Only2, OnlyGradleAllowed
<1>. QED  BY <1>6, <1>7, <1>8, <1>9


\* The partners the passes take are a choice the abstract spec allows, and
\* with them its mismatch reports are the ones the passes record.
LEMMA AbstractMismatch ==
    ASSUME TypeOK, DistinctKeys(maven), DistinctKeys(gradle),
           pc \in {"pass1", "pass2", "done"}
    PROVE  /\ Abstract!MismatchFor(FirstPartner1, FirstPartner2) \in Abstract!MismatchSets
           /\ Abstract!MismatchFor(FirstPartner1, FirstPartner2)
                = {Pass1Mismatch(maven[i].key, Partner1(i)) : i \in Fallback1(Len(maven))}
                  \cup {Record2(i) : i \in Fallback2(Len(gradle))}
<1> DEFINE F1 == Fallback1(Len(maven))
           AF1 == Abstract!Fallback1
           AF2 == Abstract!Fallback2
<1>1. AbsResolved
  BY DEF AbsResolved, AbsPhase
<1>2. maven \in Seq([key : MavenKey, scope : Scopes]) /\ gradle \in Seq([key : GradleKey, config : Configs])
  BY DEF TypeOK
<1>3. AF1 = {maven[i] : i \in F1} /\ AF2 = {gradle[i] : i \in Partnered2}
  BY AbstractSets
<1>4. \A k : Abstract!Version(k) = Part3(k)
  BY DEF Abstract!Version, Part3
<1>5. \A i \in F1 : FirstPartner1[maven[i]] = Partner1(i)
  BY <1>3 DEF FirstPartner1, Partner1
<1>6. \A i \in Partnered2 : FirstPartner2[gradle[i]] = Partner2(i)
  BY <1>3 DEF FirstPartner2, Partner2
<1>7. /\ FirstPartner1 \in [AF1 -> Keys(gradle)]
      /\ \A e \in AF1 : Abstract!SameGA(FirstPartner1[e], e.key)
  <2>1. \A i \in F1 : FirstGA(gradle, maven[i].key) \in 1..Len(gradle)
                      /\ GA(gradle[FirstGA(gradle, maven[i].key)].key) = GA(maven[i].key)
    BY <1>2, FirstGAType DEF Fallback1
  <2>. QED  BY <1>3, <2>1 DEF FirstPartner1, Keys, Abstract!SameGA, GA
<1>8. /\ FirstPartner2 \in [AF2 -> Keys(maven)]
      /\ \A e \in AF2 : Abstract!SameGA(FirstPartner2[e], e.key)
  <2>1. \A i \in Partnered2 : FirstGA(maven, gradle[i].key) \in 1..Len(maven)
                              /\ GA(maven[FirstGA(maven, gradle[i].key)].key) = GA(gradle[i].key)
    BY <1>2, FirstGAType DEF Partnered2
  <2>. QED  BY <1>3, <2>1 DEF FirstPartner2, Keys, Abstract!SameGA, GA
<1>9. Abstract!MismatchFor(FirstPartner1, FirstPartner2) \in Abstract!MismatchSets
  <2> DEFINE P1s == {f \in [AF1 -> Keys(gradle)] : \A e \in AF1 : Abstract!SameGA(f[e], e.key)}
             P2s == {f \in [AF2 -> Keys(maven)] : \A e \in AF2 : Abstract!SameGA(f[e], e.key)}
  <2>1. Abstract!MismatchSets = {Abstract!MismatchFor(p1, p2) : p1 \in P1s, p2 \in P2s}
    <3>1. /\ (IF AbsResolved THEN gradle ELSE <<>>) = gradle
          /\ (IF AbsResolved THEN maven ELSE <<>>) = maven
      BY <1>1
    <3>. QED  BY <3>1 DEF Abstract!MismatchSets, Abstract!KeysOf, Keys
  <2>2. FirstPartner1 \in P1s /\ FirstPartner2 \in P2s
    BY <1>7, <1>8
  <2>3. \E p1 \in P1s, p2 \in P2s :
          Abstract!MismatchFor(FirstPartner1, FirstPartner2) = Abstract!MismatchFor(p1, p2)
    BY <2>2
  <2>. QED  BY <2>1, <2>3
<1>10. {y.key : y \in AF1} = Fallback1Keys
  BY <1>3, Zenon DEF Fallback1Keys
<1>11. {[key |-> e.key, maven |-> Abstract!Version(e.key),
         gradle |-> Abstract!Version(FirstPartner1[e])] : e \in AF1}
         = {Pass1Mismatch(maven[i].key, Partner1(i)) : i \in F1}
  <2>1. \A i \in F1 : [key |-> maven[i].key, maven |-> Abstract!Version(maven[i].key),
                       gradle |-> Abstract!Version(FirstPartner1[maven[i]])]
                      = Pass1Mismatch(maven[i].key, Partner1(i))
    BY <1>4, <1>5 DEF Pass1Mismatch
  <2>. QED  BY <1>3, <2>1, Zenon
<1>12. {x \in AF2 : /\ FirstPartner2[x] \notin {y.key : y \in AF1}
                    /\ Abstract!Version(FirstPartner2[x]) # Abstract!Version(x.key)}
         = {gradle[i] : i \in Fallback2(Len(gradle))}
  <2>1. Fallback2(Len(gradle))
          = {i \in Partnered2 : /\ Partner2(i) \notin Fallback1Keys
                                /\ Part3(Partner2(i)) # Part3(gradle[i].key)}
    BY DEF Fallback2, Partnered2
  <2>. QED  BY <1>3, <1>4, <1>6, <1>10, <2>1
<1>13. {[key |-> e.key, maven |-> Abstract!Version(FirstPartner2[e]),
         gradle |-> Abstract!Version(e.key)] : e \in {gradle[i] : i \in Fallback2(Len(gradle))}}
         = {Record2(i) : i \in Fallback2(Len(gradle))}
  <2>1. \A i \in Fallback2(Len(gradle)) :
          [key |-> gradle[i].key, maven |-> Abstract!Version(FirstPartner2[gradle[i]]),
           gradle |-> Abstract!Version(gradle[i].key)] = Record2(i)
    <3>1. Fallback2(Len(gradle)) \subseteq Partnered2
      BY DEF Fallback2, Partnered2
    <3>. QED  BY <1>4, <1>6, <3>1 DEF Record2
  <2>. QED  BY <2>1, Zenon
<1>. QED  BY <1>9, <1>11, <1>12, <1>13 DEF Abstract!MismatchFor


\* The comparison starts with nothing resolved and nothing reported.
LEMMA RefineInit == Init => Abstract!Init
BY DEF Init, PairInit, Abstract!Init, AbsPhase, AbsResolved

\* A step that changes neither the phase the abstract spec sees nor the
\* dicts once resolved, nor the reports once done, is an abstract stutter.
LEMMA RefineStutter ==
    ASSUME AbsPhase' = AbsPhase, maven' = maven, gradle' = gradle,
           pc = "done" => UNCHANGED <<pc, missing, mismatch, only>>,
           pc' = "done" => pc = "done"
    PROVE  UNCHANGED Abstract!avars
BY DEF Abstract!avars, AbsResolved

\* A crash while the sides are resolved is the abstract Fail.
LEMMA RefineCrash ==
    ASSUME pc \in {"managed", "direct", "gradle"}, pc' = "crashed"
    PROVE  Abstract!Fail
BY DEF Abstract!Fail, AbsPhase, AbsResolved

\* The end of normalize_gradle_dependencies, with both dicts built, is the
\* abstract Resolve.
LEMMA RefineResolve ==
    ASSUME ClassInv', pc = "gradle", pc' = "pass1",
           UNCHANGED <<missing, mismatch, only>>
    PROVE  Abstract!Resolve
BY DEF Abstract!Resolve, Abstract!IsDict, ClassInv, DistinctKeys, AbsPhase, AbsResolved

\* The end of pass 2 is the abstract Classify: the reports are the sets
\* the spec gives, with the first group:artifact partners.
LEMMA RefineClassify ==
    ASSUME ClassInv, ClassInv', pc = "pass2", pc' = "done",
           UNCHANGED <<maven, gradle, missing, mismatch, only>>
    PROVE  Abstract!Classify
<1>1. TypeOK /\ DistinctKeys(maven) /\ DistinctKeys(gradle)
  BY DEF ClassInv
<1>2. P1' = Len(maven) /\ P2' = Len(gradle)
  BY DEF P1, P2
<1>3. /\ missing' = {maven[i].key : i \in Missing1(Len(maven))}
      /\ mismatch' = {Pass1Mismatch(maven[i].key, Partner1(i)) : i \in Fallback1(Len(maven))}
                     \cup {Record2(i) : i \in Fallback2(Len(gradle))}
      /\ only' = {gradle[i].key : i \in Only2(Len(gradle))}
  BY <1>2, DictsUnchanged DEF ClassInv
<1>4. missing' = Abstract!MissingSet
  <2>1. Abstract!Unmatched1 \ Abstract!Fallback1 = {maven[i] : i \in Missing1(Len(maven))}
    BY <1>1, AbstractSets
  <2>. QED  BY <1>3, <2>1, Zenon DEF Abstract!MissingSet
<1>5. only' = Abstract!OnlySet
  <2>1. {x \in Abstract!Unmatched2 \ Abstract!Fallback2 : x.key[1] \notin ToolGroups}
          = {gradle[i] : i \in Only2(Len(gradle))}
    BY <1>1, AbstractSets
  <2>2. {e.key : e \in {gradle[i] : i \in Only2(Len(gradle))}}
          = {gradle[i].key : i \in Only2(Len(gradle))}
    OBVIOUS
  <2>. QED  BY <1>3, <2>1, <2>2 DEF Abstract!OnlySet
<1>6. mismatch' \in Abstract!MismatchSets
  <2> DEFINE M == Abstract!MismatchFor(FirstPartner1, FirstPartner2)
  <2>1. M \in Abstract!MismatchSets
        /\ M = {Pass1Mismatch(maven[i].key, Partner1(i)) : i \in Fallback1(Len(maven))}
               \cup {Record2(i) : i \in Fallback2(Len(gradle))}
    BY <1>1, AbstractMismatch
  <2>. QED  BY <1>3, <2>1, Zenon
<1>. QED  BY <1>4, <1>5, <1>6 DEF Abstract!Classify, AbsPhase, AbsResolved


\* Every step of the loops is an abstract step or a stutter: the first
\* three loops are stutters until they crash, a loop that ends moves the
\* abstract phase at the two points where the dicts and the reports are
\* complete, and the iterations of the passes are stutters.
LEMMA RefineNext ==
    ClassInv /\ ClassInv' /\ [Next]_vars => [Abstract!Next]_Abstract!avars
<1> SUFFICES ASSUME ClassInv, ClassInv', [Next]_vars
             PROVE  [Abstract!Next]_Abstract!avars
  OBVIOUS
<1>1. CASE NormalizeManaged \/ ResolveDirect \/ NormalizeGradle
  <2>1. pc \in {"managed", "direct", "gradle"} /\ pc' \in {pc, "crashed"}
        /\ UNCHANGED <<missing, mismatch, only>>
    BY <1>1 DEF NormalizeManaged, ResolveDirect, NormalizeGradle, Crash
  <2>2. CASE pc' = "crashed"
    BY <2>1, <2>2, RefineCrash DEF Abstract!Next
  <2>3. CASE pc' = pc
    BY <2>1, <2>3, RefineStutter DEF AbsPhase, AbsResolved, Abstract!avars
  <2>. QED  BY <2>1, <2>2, <2>3
<1>2. CASE Pass1 \/ Pass2
  <2>1. pc \in {"pass1", "pass2"} /\ pc' = pc /\ maven' = maven /\ gradle' = gradle
    BY <1>2 DEF Pass1, Pass2
  <2>. QED  BY <2>1, RefineStutter DEF AbsPhase
<1>3. CASE NextPhase
  <2>1. UNCHANGED <<maven, gradle, missing, mismatch, only>>
        /\ pc \in DOMAIN PhaseAfter /\ pc' = PhaseAfter[pc]
    BY <1>3 DEF NextPhase
  <2>2. CASE pc \in {"managed", "direct", "pass1"}
    <3>1. AbsPhase' = AbsPhase /\ pc' # "done"
      BY <2>1, <2>2 DEF PhaseAfter, AbsPhase
    <3>. QED  BY <2>1, <2>2, <3>1, RefineStutter
  <2>3. CASE pc = "gradle"
    <3>1. pc' = "pass1"
      BY <2>1, <2>3 DEF PhaseAfter
    <3>. QED  BY <2>1, <2>3, <3>1, RefineResolve DEF Abstract!Next
  <2>4. CASE pc = "pass2"
    <3>1. pc' = "done"
      BY <2>1, <2>4 DEF PhaseAfter
    <3>. QED  BY <2>1, <2>4, <3>1, RefineClassify DEF Abstract!Next
  <2>. QED  BY <2>1, <2>2, <2>3, <2>4 DEF PhaseAfter
<1>4. CASE Terminated \/ UNCHANGED vars
  <2>1. UNCHANGED vars
    BY <1>4 DEF Terminated
  <2>. QED  BY <2>1, RefineStutter DEF vars, AbsPhase
<1>. QED  BY <1>1, <1>2, <1>3, <1>4 DEF Next

\* The two passes, entry by entry in dict order (lines 328-400), compute for
\* every input the reports that the set-level classification of spec
\* section 4.4 allows for the dicts the first three loops built.
THEOREM ClassificationRefinement == Spec => ClassificationRefined
<1>1. []ClassInv /\ [][Next]_vars => [][Abstract!Next]_Abstract!avars
  BY RefineNext, PTL
<1>. QED  BY RefineInit, InitClassInv, NextClassInv, <1>1, PTL
          DEF Spec, ClassificationRefined, Abstract!Spec

=============================================================================
