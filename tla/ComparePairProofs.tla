-------------------------- MODULE ComparePairProofs --------------------------
(***************************************************************************)
(* Proofs about ComparePair for every value of its constants: the          *)
(* dictionaries of the comparison of one pom / build.gradle.kts pair only  *)
(* ever hold keys of the shapes the joins of compare_dependencies.py       *)
(* build, and the loops only ever index existing entries.                  *)
(***************************************************************************)
EXTENDS ComparePair, WellFoundedInduction, SequenceTheorems, TLAPS

-----------------------------------------------------------------------------
(* Lemmas on the operators the model is built from *)

\* A non-empty set of naturals has a least element, which Min picks.  This
\* is what makes the first-match searches (SelectInSeq) return a match.
LEMMA MinNat ==
    ASSUME NEW S, S \subseteq Nat, S # {}
    PROVE  Min(S) \in S /\ \A y \in S : Min(S) <= y
<1>1. \E x \in S : \A y \in S : ~ (<<y, x>> \in OpToRel(<, Nat))
  BY NatLessThanWellFounded, WFMin
<1>2. \A x, y \in Nat : <<y, x>> \in OpToRel(<, Nat) <=> y < x
  BY DEF OpToRel
<1>3. \E x \in S : \A y \in S : ~ (y < x)
  BY <1>1, <1>2, Zenon
<1>4. \E x \in S : \A y \in S : x <= y
  BY <1>3
<1>. QED  BY <1>4 DEF Min

\* Opt(x) is the empty or the one-element sequence.
LEMMA OptShape ==
    ASSUME NEW x
    PROVE  /\ x = None => Opt(x) = <<>>
           /\ x # None => Opt(x) = <<x>>
BY DEF Opt

\* The four keys ":".join([g, a] + [v if v] + [c if c]) can be.
LEMMA DepKeyShape ==
    ASSUME NEW g, NEW a, NEW v, NEW c
    PROVE  /\ v = None /\ c = None => DepKey(g, a, v, c) = <<g, a>>
           /\ v = None /\ c # None => DepKey(g, a, v, c) = <<g, a, c>>
           /\ v # None /\ c = None => DepKey(g, a, v, c) = <<g, a, v>>
           /\ v # None /\ c # None => DepKey(g, a, v, c) = <<g, a, v, c>>
<1> DEFINE S == {g, a, v, c}
<1>1. ASSUME v = None, c = None PROVE DepKey(g, a, v, c) = <<g, a>>
  BY <1>1 DEF DepKey, Opt
<1>2. ASSUME v = None, c # None PROVE DepKey(g, a, v, c) = <<g, a, c>>
  <2>1. DepKey(g, a, v, c) = <<g, a>> \o <<c>>
    BY <1>2 DEF DepKey, Opt
  <2>2. /\ <<g, a>> \o <<c>> \in Seq(S) /\ Len(<<g, a>> \o <<c>>) = 3
        /\ <<g, a, c>> \in Seq(S) /\ Len(<<g, a, c>>) = 3
        /\ \A i \in 1..3 : (<<g, a>> \o <<c>>)[i] = <<g, a, c>>[i]
    OBVIOUS
  <2>. QED  BY <2>1, <2>2, SeqEqual
<1>3. ASSUME v # None, c = None PROVE DepKey(g, a, v, c) = <<g, a, v>>
  <2>1. DepKey(g, a, v, c) = <<g, a>> \o <<v>>
    BY <1>3 DEF DepKey, Opt
  <2>2. /\ <<g, a>> \o <<v>> \in Seq(S) /\ Len(<<g, a>> \o <<v>>) = 3
        /\ <<g, a, v>> \in Seq(S) /\ Len(<<g, a, v>>) = 3
        /\ \A i \in 1..3 : (<<g, a>> \o <<v>>)[i] = <<g, a, v>>[i]
    OBVIOUS
  <2>. QED  BY <2>1, <2>2, SeqEqual
<1>4. ASSUME v # None, c # None PROVE DepKey(g, a, v, c) = <<g, a, v, c>>
  <2>1. DepKey(g, a, v, c) = <<g, a>> \o <<v>> \o <<c>>
    BY <1>4 DEF DepKey, Opt
  <2>2. /\ <<g, a>> \o <<v>> \o <<c>> \in Seq(S)
        /\ Len(<<g, a>> \o <<v>> \o <<c>>) = 4
        /\ <<g, a, v, c>> \in Seq(S) /\ Len(<<g, a, v, c>>) = 4
        /\ \A i \in 1..4 : (<<g, a>> \o <<v>> \o <<c>>)[i] = <<g, a, v, c>>[i]
    OBVIOUS
  <2>. QED  BY <2>1, <2>2, SeqEqual
<1>. QED  BY <1>1, <1>2, <1>3, <1>4

\* The key normalize_dependencies builds for a text or no version.
LEMMA DepKeyManaged ==
    ASSUME NEW g \in Groups, NEW a \in Artifacts,
           NEW v \in Text \cup {None}, NEW c \in Classifiers \cup {None}
    PROVE  DepKey(g, a, v, c) \in ManagedKey
BY DepKeyShape DEF ManagedKey

\* The key of a resolved direct dependency: it always has a version part.
LEMMA DepKeyMaven ==
    ASSUME NEW g \in Groups, NEW a \in Artifacts,
           NEW v \in VersionToken, NEW c \in Classifiers \cup {None}
    PROVE  DepKey(g, a, v, c) \in MavenKey
<1>. None \notin VersionToken
  BY SentinelAssumption, ConstantsAssumption DEF VersionToken
<1>. QED  BY DepKeyShape DEF MavenKey

\* The key normalize_gradle_dependencies builds: no classifier part.
LEMMA DepKeyGradle ==
    ASSUME NEW g \in Groups \cup {ProjectGroup}, NEW a \in Artifacts,
           NEW v \in Text \cup {None}
    PROVE  DepKey(g, a, v, None) \in GradleKey
BY DepKeyShape DEF GradleKey

\* d[key] = value keeps a dict of entries of one type.
LEMMA PutEntryType ==
    ASSUME NEW S, NEW d \in Seq(S), NEW e \in S
    PROVE  PutEntry(d, e) \in Seq(S)
BY DEF PutEntry

\* Adding a key to the keys of a dict keeps their type.
LEMMA PutKeyType ==
    ASSUME NEW S, NEW s \in Seq(S), NEW k \in S
    PROVE  PutKey(s, k) \in Seq(S)
BY DEF PutKey

\* The group:artifact search of both passes returns an index of the dict or
\* 0.
LEMMA FirstGAType ==
    ASSUME NEW S, NEW d \in Seq(S), NEW k
    PROVE  /\ FirstGA(d, k) \in 0..Len(d)
           /\ FirstGA(d, k) # 0 => GA(d[FirstGA(d, k)].key) = GA(k)
<1> DEFINE I == {i \in 1..Len(d) : GA(d[i].key) = GA(k)}
<1>1. FirstGA(d, k) = IF I # {} THEN Min(I) ELSE 0
  BY DEF FirstGA, SelectInSeq
<1>2. I \subseteq Nat
  OBVIOUS
<1>3. I # {} => Min(I) \in I
  BY <1>2, MinNat
<1>. QED  BY <1>1, <1>3

\* The classifier search of the managed-version lookup returns 0 or the
\* index of a managed key with at least three parts.
LEMMA ManagedWithClassifierType ==
    ASSUME managed \in Seq(ManagedKey), NEW g, NEW a, NEW c
    PROVE  LET j == ManagedWithClassifier(g, a, c)
           IN  j \in 0..Len(managed) /\ (j # 0 => Len(managed[j]) >= 3)
<1> DEFINE I == {i \in 1..Len(managed) :
                    /\ Len(managed[i]) >= 3 /\ managed[i][1] = g
                    /\ managed[i][2] = a /\ managed[i][Len(managed[i])] = c}
<1>1. ManagedWithClassifier(g, a, c) = IF I # {} THEN Min(I) ELSE 0
  BY DEF ManagedWithClassifier, SelectInSeq
<1>2. I \subseteq Nat
  OBVIOUS
<1>3. I # {} => Min(I) \in I
  BY <1>2, MinNat
<1>. QED  BY <1>1, <1>3

\* The search without classifier returns an index of the managed keys or 0.
LEMMA ManagedSameClassifierType ==
    ASSUME managed \in Seq(ManagedKey), NEW g, NEW a, NEW c
    PROVE  ManagedSameClassifier(g, a, c) \in 0..Len(managed)
<1> DEFINE I == {i \in 1..Len(managed) :
                    /\ managed[i][1] = g /\ managed[i][2] = a
                    /\ KeyClassifier(managed[i]) = c}
<1>1. ManagedSameClassifier(g, a, c) = IF I # {} THEN Min(I) ELSE 0
  BY DEF ManagedSameClassifier, SelectInSeq
<1>2. I \subseteq Nat
  OBVIOUS
<1>3. I # {} => Min(I) \in I
  BY <1>2, MinNat
<1>. QED  BY <1>1, <1>3

\* m_key.split(':')[2] of a managed key with a third part is its version or,
\* for a key "g:a:classifier" of an entry without version, its classifier.
LEMMA ManagedKeyPart3 ==
    ASSUME NEW k \in ManagedKey, Len(k) >= 3
    PROVE  k[3] \in Text \cup Classifiers
BY DEF ManagedKey

\* managed_version is a text, a classifier, None or the IndexError of
\* line 292.
LEMMA ManagedVersionType ==
    ASSUME managed \in Seq(ManagedKey), NEW g, NEW a, NEW c
    PROVE  ManagedVersion(g, a, c)
             \in Text \cup Classifiers \cup {None, ManagedIndexError}
<1> DEFINE j1 == IF c # None THEN ManagedWithClassifier(g, a, c) ELSE 0
           j2 == ManagedSameClassifier(g, a, c)
<1>1. j1 # 0 => managed[j1][3] \in Text \cup Classifiers
  BY ManagedWithClassifierType, ManagedKeyPart3
<1>2. j2 # 0 /\ ~ (Len(managed[j2]) < 3) => managed[j2][3] \in Text \cup Classifiers
  BY ManagedSameClassifierType, ManagedKeyPart3
<1>. QED  BY <1>1, <1>2 DEF ManagedVersion

\* dict.get on a property map returns a text or None.
LEMMA GetType ==
    ASSUME NEW M \in PropMap, NEW k \in Names
    PROVE  Get(M, k) \in Text \cup {None}
BY DEF Get

\* get_property_value returns None for None, and otherwise a text or, on a
\* cycle, raises RecursionError.
LEMMA GetPropertyValueType ==
    ASSUME NEW ref \in Text \cup {None}, NEW M, NEW A, NEW hasA
    PROVE  /\ GetPropertyValue(ref, M, A, hasA) \in Text \cup {None, RecursionError}
           /\ ref \in Text => GetPropertyValue(ref, M, A, hasA) \in Text \cup {RecursionError}
BY DEF GetPropertyValue, RetStates

\* The Gradle version resolution returns None or a text.
LEMMA GradleResolveVersionType ==
    ASSUME NEW v \in Text \cup {None}, NEW L \in PropMap, NEW R \in PropMap
    PROVE  GradleResolveVersion(v, L, R) \in Text \cup {None}
<1>1. v \in Text => Get(L, v.s) \in Text \cup {None} /\ Get(R, v.s) \in Text \cup {None}
  BY GetType DEF Text
<1>2. GetGradleProjectProperty(v, L, R) \in Text \cup {None}
  BY <1>1 DEF GetGradleProjectProperty, GradleKeyHit, IsPlaceholder
<1>. QED  BY <1>1, <1>2 DEF GradleResolveVersion, IsPlaceholder

\* final_version of a direct dependency is a version token or raises.
LEMMA FinalVersionType ==
    ASSUME NEW v \in Text \cup {None}, NEW mv \in Text \cup Classifiers \cup {None}
    PROVE  FinalVersion(v, mv) \in VersionToken \cup {RecursionError}
<1>1. IsPlaceholder(v) => v \in Text
  BY DEF IsPlaceholder
<1>. QED  BY <1>1, GetPropertyValueType DEF FinalVersion, VersionToken

\* The third part of a Maven key is its version; of a Gradle key, its
\* version or "N/A".
LEMMA Part3Type ==
    /\ \A k \in MavenKey : Part3(k) \in VersionToken
    /\ \A k \in GradleKey : Part3(k) \in Text \cup {NAVersion}
<1>1. \A k \in MavenKey : Len(k) > 2 /\ k[3] \in VersionToken
  BY DEF MavenKey
<1>2. \A k \in GradleKey : Len(k) > 2 => k[3] \in Text
  BY DEF GradleKey
<1>. QED  BY <1>1, <1>2 DEF Part3

-----------------------------------------------------------------------------
(* Type correctness *)

\* The initial state of a pair has the types of TypeOK.
LEMMA InitTypeOK == Init => TypeOK
BY ConstantsAssumption DEF Init, PairInit, TypeOK, Phases, Crashes

\* Every iteration of the five loops of the comparison of a pair, and every
\* move to the next loop, keeps the dictionaries to the key shapes of the
\* joins and the reports to the values of the key parts.
LEMMA NextTypeOK == TypeOK /\ [Next]_vars => TypeOK'
<1> SUFFICES ASSUME TypeOK, [Next]_vars PROVE TypeOK'
  OBVIOUS
<1>. USE DEF TypeOK
<1>1. CASE NormalizeManaged
  <2> DEFINE d  == inp.managedIn[idx]
             rv == GetPropertyValue(d.v, CombinedProps, inp.pomRoot, TRUE)
  <2>1. d \in ManagedDep
    BY <1>1 DEF NormalizeManaged, Input
  <2>2. rv \in Text \cup {None, RecursionError}
    BY <2>1, GetPropertyValueType DEF ManagedDep
  <2>3. CASE rv = RecursionError
    BY <1>1, <2>3 DEF NormalizeManaged, Crash, Phases, Crashes
  <2>4. CASE rv # RecursionError
    <3>1. DepKey(d.g, d.a, rv, d.c) \in ManagedKey
      BY <2>1, <2>2, <2>4, DepKeyManaged DEF ManagedDep
    <3>2. /\ managed' = PutKey(managed, DepKey(d.g, d.a, rv, d.c))
          /\ idx' = idx + 1
          /\ UNCHANGED <<inp, pc, maven, gradle, missing, mismatch, only, crash>>
      BY <1>1, <2>4 DEF NormalizeManaged
    <3>3. managed' \in Seq(ManagedKey)
      BY <3>1, <3>2, PutKeyType
    <3>4. idx' \in Nat \ {0}
      BY <3>2
    <3>. QED  BY <3>2, <3>3, <3>4, Zenon
  <2>. QED  BY <2>3, <2>4
<1>2. CASE ResolveDirect
  <2> DEFINE d  == inp.directIn[idx]
             mv == ManagedVersion(d.g, d.a, d.c)
             fv == FinalVersion(d.v, mv)
  <2>1. d \in MavenDep
    BY <1>2 DEF ResolveDirect, Input
  <2>2. mv \in Text \cup Classifiers \cup {None, ManagedIndexError}
    BY ManagedVersionType
  <2>3. CASE mv = ManagedIndexError
    BY <1>2, <2>3 DEF ResolveDirect, Crash, Phases, Crashes
  <2>4. CASE mv # ManagedIndexError /\ fv = RecursionError
    BY <1>2, <2>4 DEF ResolveDirect, Crash, Phases, Crashes
  <2>5. CASE mv # ManagedIndexError /\ fv # RecursionError
    <3>1. fv \in VersionToken
      BY <2>1, <2>2, <2>5, FinalVersionType DEF MavenDep
    <3>2. [key |-> DepKey(d.g, d.a, fv, d.c), scope |-> d.scope]
            \in [key : MavenKey, scope : Scopes]
      BY <2>1, <3>1, DepKeyMaven DEF MavenDep
    <3>3. /\ maven' = PutEntry(maven, [key |-> DepKey(d.g, d.a, fv, d.c),
                                       scope |-> d.scope])
          /\ idx' = idx + 1
          /\ UNCHANGED <<inp, pc, managed, gradle, missing, mismatch, only, crash>>
      BY <1>2, <2>5 DEF ResolveDirect
    <3>4. maven' \in Seq([key : MavenKey, scope : Scopes])
      BY <3>2, <3>3, PutEntryType
    <3>. QED  BY <3>3, <3>4
  <2>. QED  BY <2>3, <2>4, <2>5
<1>3. CASE NormalizeGradle
  <2> DEFINE d  == inp.gradleIn[idx]
             rv == GradleResolveVersion(d.v, inp.gradleLocal, inp.gradleRoot)
  <2>1. d \in GradleDep
    BY <1>3 DEF NormalizeGradle, Input
  <2>0. Artifacts \cap PlatformNames = {}
    BY ConstantsAssumption
  <2>2. rv \in Text \cup {None}
    BY <2>1, GradleResolveVersionType DEF GradleDep, Input
  <2>3. CASE d.g = None
    BY <1>3, <2>3 DEF NormalizeGradle
  <2>4. CASE d.g # None /\ d.name \in PlatformNames
    <3>1. Crash(PlatformIndexError)
      BY <1>3, <2>0, <2>4 DEF NormalizeGradle
    <3>. QED  BY <3>1 DEF Crash, Phases, Crashes
  <2>5. CASE d.g # None /\ d.name \in Artifacts
    <3>1. [key |-> DepKey(d.g, d.name, rv, None), config |-> d.config]
            \in [key : GradleKey, config : Configs]
      BY <2>1, <2>2, <2>5, DepKeyGradle DEF GradleDep
    <3>2. /\ gradle' = PutEntry(gradle, [key |-> DepKey(d.g, d.name, rv, None),
                                         config |-> d.config])
          /\ idx' = idx + 1
          /\ UNCHANGED <<inp, pc, managed, maven, missing, mismatch, only, crash>>
      BY <1>3, <2>0, <2>5 DEF NormalizeGradle
    <3>3. gradle' \in Seq([key : GradleKey, config : Configs])
      BY <3>1, <3>2, PutEntryType
    <3>4. idx' \in Nat \ {0}
      BY <3>2
    <3>. QED  BY <3>2, <3>3, <3>4, Zenon
  <2>. QED  BY <2>1, <2>3, <2>4, <2>5 DEF GradleDep
<1>4. CASE Pass1
  <2> DEFINE e == maven[idx]
             j == Pass1GradleMatch(e.key)
  <2>0. idx \in 1..Len(maven)
    BY <1>4 DEF Pass1
  <2>1. e \in [key : MavenKey, scope : Scopes]
    BY <2>0, ElementOfSeq, Zenon
  <2>2. j # 0 => gradle[j] \in [key : GradleKey, config : Configs]
    <3>1. j \in 0..Len(gradle)
      BY FirstGAType, Zenon DEF Pass1GradleMatch
    <3>2. j # 0 => j \in 1..Len(gradle)
      BY <3>1
    <3>. QED  BY <3>2, ElementOfSeq, Zenon
  <2>3. j # 0 => Pass1Mismatch(e.key, gradle[j].key)
                   \in [key : MavenKey \cup GradleKey,
                        maven : VersionToken \cup {NAVersion},
                        gradle : VersionToken \cup {NAVersion}]
    <3>1. Part3(e.key) \in VersionToken
      BY <2>1, Part3Type
    <3>2. j # 0 => Part3(gradle[j].key) \in Text \cup {NAVersion}
      BY <2>2, Part3Type
    <3>. QED  BY <2>1, <3>1, <3>2 DEF Pass1Mismatch, VersionToken
  <2>. QED  BY <1>4, <2>1, <2>3 DEF Pass1
<1>5. CASE Pass2
  <2> DEFINE e == gradle[idx]
             j == FirstGA(maven, e.key)
  <2>0. idx \in 1..Len(gradle)
    BY <1>5 DEF Pass2
  <2>1. e \in [key : GradleKey, config : Configs]
    BY <2>0, ElementOfSeq, Zenon
  <2>2. j # 0 => maven[j] \in [key : MavenKey, scope : Scopes]
    <3>1. j \in 0..Len(maven)
      BY FirstGAType, Zenon
    <3>2. j # 0 => j \in 1..Len(maven)
      BY <3>1
    <3>. QED  BY <3>2, ElementOfSeq, Zenon
  <2>3. j # 0 => [key |-> e.key, maven |-> Part3(maven[j].key),
                  gradle |-> Part3(e.key)]
                   \in [key : MavenKey \cup GradleKey,
                        maven : VersionToken \cup {NAVersion},
                        gradle : VersionToken \cup {NAVersion}]
    <3>1. Part3(e.key) \in Text \cup {NAVersion}
      BY <2>1, Part3Type
    <3>2. j # 0 => Part3(maven[j].key) \in VersionToken
      BY <2>2, Part3Type
    <3>. QED  BY <2>1, <3>1, <3>2 DEF VersionToken
  <2>. QED  BY <1>5, <2>1, <2>3 DEF Pass2
<1>6. CASE NextPhase
  BY <1>6 DEF NextPhase, PhaseAfter, Phases
<1>7. CASE Terminated
  BY <1>7 DEF Terminated, vars
<1>8. CASE UNCHANGED vars
  BY <1>8 DEF vars
<1>. QED  BY <1>1, <1>2, <1>3, <1>4, <1>5, <1>6, <1>7, <1>8 DEF Next

\* TypeOK holds in every state of every comparison of a pair.
THEOREM TypeCorrect == Spec => []TypeOK
BY InitTypeOK, NextTypeOK, PTL DEF Spec
-----------------------------------------------------------------------------
(* Reported mismatches differ *)

\* parse_pom writes no classifier for a direct dependency (parse_pom.py
\* lines 40-45), so dep_info.get('classifier') is None for all of them.
NoDirectClassifier == \A i \in 1..Len(inp.directIn) : inp.directIn[i].c = None

\* A resolved Maven key is then "g:a:v": the version part is always set.
ThreePartEntry == {x \in [key : MavenKey, scope : Scopes] : Len(x.key) = 3}

MismatchInv ==
    /\ TypeOK
    /\ NoDirectClassifier => maven \in Seq(ThreePartEntry) /\ MismatchDiffers

\* "N/A" is not a version a key can hold.
LEMMA NAVersionNotToken == NAVersion \notin VersionToken
BY ConstantsAssumption DEF VersionToken, Text, NAVersion, NAManaged

\* Pass 1 records a mismatch for a Maven key "g:a:v" and a different Gradle
\* key of the same group:artifact; their version parts then differ.
LEMMA DistinctKeysDistinctVersions ==
    ASSUME NEW mk \in MavenKey, Len(mk) = 3, NEW gk \in GradleKey,
           GA(gk) = GA(mk), gk # mk
    PROVE  Part3(mk) # Part3(gk)
<1>1. PICK g \in Groups, a \in Artifacts, v \in VersionToken : mk = <<g, a, v>>
  BY DEF MavenKey
<1>2. CASE Len(gk) = 2
  BY <1>1, <1>2, NAVersionNotToken DEF Part3
<1>3. CASE Len(gk) # 2
  <2>1. PICK w \in Text : gk = <<g, a, w>>
    BY <1>1, <1>3 DEF GradleKey, GA
  <2>. QED  BY <1>1, <2>1 DEF Part3
<1>. QED  BY <1>2, <1>3
\* The comparison of a pair starts with no resolved key and no report.
LEMMA InitMismatchInv == Init => MismatchInv
BY InitTypeOK DEF Init, PairInit, MismatchInv, MismatchDiffers

\* No step changes the parsed input of the pair.
LEMMA InputConstant == [Next]_vars => inp' = inp
BY DEF Next, vars, NormalizeManaged, ResolveDirect, NormalizeGradle, Pass1, Pass2,
       NextPhase, Terminated, Crash

\* Resolving a direct dependency keeps every Maven key at three parts, the
\* classification passes only add mismatches whose sides differ, and no
\* other step touches either.
LEMMA NextMismatchInv == MismatchInv /\ [Next]_vars => MismatchInv'
<1> SUFFICES ASSUME MismatchInv, [Next]_vars PROVE MismatchInv'
  OBVIOUS
<1>1. TypeOK /\ TypeOK'
  BY NextTypeOK DEF MismatchInv
<1>2. inp' = inp
  BY InputConstant
<1> SUFFICES ASSUME NoDirectClassifier
             PROVE  maven' \in Seq(ThreePartEntry) /\ MismatchDiffers'
  BY <1>1, <1>2 DEF MismatchInv, NoDirectClassifier
<1>3. maven \in Seq(ThreePartEntry) /\ MismatchDiffers
  BY DEF MismatchInv
<1>4. CASE ResolveDirect
  <2> DEFINE d  == inp.directIn[idx]
             mv == ManagedVersion(d.g, d.a, d.c)
             fv == FinalVersion(d.v, mv)
  <2>1. CASE mv = ManagedIndexError \/ fv = RecursionError
    <3>1. maven' = maven /\ mismatch' = mismatch
      BY <1>4, <2>1 DEF ResolveDirect, Crash
    <3>. QED  BY <1>3, <3>1 DEF MismatchDiffers
  <2>2. CASE mv # ManagedIndexError /\ fv # RecursionError
    <3>1. idx \in 1..Len(inp.directIn)
      BY <1>1, <1>4 DEF ResolveDirect, TypeOK
    <3>2. d.c = None
      BY <3>1 DEF NoDirectClassifier
    <3>3. d \in MavenDep
      BY <1>1, <3>1, ConstantsAssumption, ElementOfSeq DEF TypeOK, Input
    <3>4. fv \in VersionToken
      BY <1>1, <2>2, <3>3, ManagedVersionType, FinalVersionType DEF TypeOK, MavenDep
    <3>5. DepKey(d.g, d.a, fv, d.c) = <<d.g, d.a, fv>>
      BY <3>2, <3>4, NAVersionNotToken, DepKeyShape, ConstantsAssumption, SentinelAssumption
         DEF VersionToken
    <3>6. [key |-> DepKey(d.g, d.a, fv, d.c), scope |-> d.scope] \in ThreePartEntry
      BY <3>3, <3>4, <3>5, DepKeyMaven DEF MavenDep, ThreePartEntry
    <3>7. maven' = PutEntry(maven, [key |-> DepKey(d.g, d.a, fv, d.c), scope |-> d.scope])
          /\ mismatch' = mismatch
      BY <1>4, <2>2 DEF ResolveDirect
    <3>. QED  BY <1>3, <3>6, <3>7, PutEntryType DEF MismatchDiffers
  <2>. QED  BY <2>1, <2>2
<1>5. CASE Pass1
  <2> DEFINE e  == maven[idx]
             j  == Pass1GradleMatch(e.key)
             gk == gradle[j].key
  <2>1. maven' = maven
    BY <1>5 DEF Pass1
  <2>2. CASE e.key \notin Keys(gradle) /\ j # 0
    <3>1. idx \in 1..Len(maven)
      BY <1>1, <1>5 DEF Pass1, TypeOK
    <3>2. e \in ThreePartEntry
      BY <1>3, <3>1, ElementOfSeq
    <3>3. j \in 1..Len(gradle) /\ GA(gk) = GA(e.key)
      <4>1. gradle \in Seq([key : GradleKey, config : Configs])
        BY <1>1 DEF TypeOK
      <4>2. /\ j \in 0..Len(gradle)
            /\ j # 0 => GA(gradle[j].key) = GA(e.key)
        BY <4>1, FirstGAType, Zenon DEF Pass1GradleMatch
      <4>. QED  BY <2>2, <4>2
    <3>4. gradle[j] \in [key : GradleKey, config : Configs]
      BY <1>1, <3>3, ElementOfSeq DEF TypeOK
    <3>8. gk \in Keys(gradle)
      BY <3>3 DEF Keys
    <3>5. Part3(e.key) # Part3(gk)
      BY <2>2, <3>2, <3>3, <3>4, <3>8, DistinctKeysDistinctVersions DEF ThreePartEntry
    <3>6. mismatch' \subseteq mismatch \cup {Pass1Mismatch(e.key, gk)}
      BY <1>5, <2>2 DEF Pass1
    <3>. QED  BY <1>3, <2>1, <3>5, <3>6 DEF MismatchDiffers, Pass1Mismatch
  <2>3. CASE ~ (e.key \notin Keys(gradle) /\ j # 0)
    <3>1. mismatch' = mismatch
      BY <1>5, <2>3 DEF Pass1
    <3>. QED  BY <1>3, <2>1, <3>1 DEF MismatchDiffers
  <2>. QED  BY <2>2, <2>3
<1>6. CASE Pass2
  <2>1. maven' = maven
    BY <1>6 DEF Pass2
  <2>2. \A r \in mismatch' \ mismatch : r.maven # r.gradle
    BY <1>6 DEF Pass2
  <2>. QED  BY <1>3, <2>1, <2>2 DEF MismatchDiffers
<1>7. CASE NormalizeManaged \/ NormalizeGradle \/ NextPhase \/ Terminated
      \/ UNCHANGED vars
  <2>1. maven' = maven /\ mismatch' = mismatch
    BY <1>7 DEF NormalizeManaged, NormalizeGradle, NextPhase, Terminated, Crash, vars
  <2>. QED  BY <1>3, <2>1 DEF MismatchDiffers
<1>. QED  BY <1>4, <1>5, <1>6, <1>7 DEF Next

\* Whenever the direct dependencies carry no classifier, as parse_pom
\* writes them, no version mismatch of the report has the same version on
\* both sides: pass 1 records one without comparing versions, and it is
\* the three-part shape of the Maven keys that makes the versions differ.
THEOREM MismatchesDiffer == Spec => [](NoDirectClassifier => MismatchDiffers)
<1>1. MismatchInv => (NoDirectClassifier => MismatchDiffers)
  BY DEF MismatchInv
<1>. QED  BY InitMismatchInv, NextMismatchInv, <1>1, PTL DEF Spec
=============================================================================
