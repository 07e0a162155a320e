-------------------------- MODULE CompareMainProofs --------------------------
(***************************************************************************)
(* Proofs about main() of compare_dependencies.py (CompareMain) for every  *)
(* value of the constants: the loop over pom_data keeps every variable to  *)
(* its type, and each pair it compares is classified as the rules say,     *)
(* because every comparison starts from the empty state of one pair and   *)
(* runs only the steps of ComparePair.                                     *)
(***************************************************************************)
EXTENDS CompareMain, ClassificationProofs

-----------------------------------------------------------------------------
(* The inductive invariant *)

\* The types of main() and of the pair, the pom index of a running
\* comparison within pom_data, and ClassInv of the pair being compared.
MainInv ==
    /\ MainTypeOK
    /\ mpc = "pair" => pi \in 1..Len(poms)
    /\ ClassInv

-----------------------------------------------------------------------------
(* Lemmas on the lookups of main() *)

\* The search for a file in pom_data or gradle_data returns an index of
\* the list or 0.
LEMMA FileIndexType ==
    ASSUME NEW S, NEW data \in Seq(S), NEW f
    PROVE  /\ FileIndex(data, f) \in 0..Len(data)
           /\ FileIndex(data, f) # 0 => data[FileIndex(data, f)].file = f
           /\ FileIndex(data, f) = 0 => \A i \in 1..Len(data) : data[i].file # f
<1> DEFINE I == {i \in 1..Len(data) : data[i].file = f}
<1>1. FileIndex(data, f) = IF I # {} THEN Min(I) ELSE 0
  BY DEF FileIndex, SelectInSeq
<1>2. I \subseteq Nat
  OBVIOUS
<1>3. I # {} => Min(I) \in I
  BY <1>2, MinNat
<1>4. I # {} => Min(I) # 0
  BY <1>3
<1>. QED  BY <1>1, <1>3, <1>4

\* The properties looked up for a file are a properties dict.
LEMMA PropsOfType ==
    ASSUME NEW S, NEW data \in Seq(S), NEW f, \A r \in S : r.props \in PropMap
    PROVE  PropsOf(data, f) \in PropMap
BY FileIndexType, ElementOfSeq DEF PropsOf, EmptyMap, PropMap

\* parent_pom_props is the properties of a pom, the root properties, or
\* empty.
LEMMA ParentPropsType ==
    ASSUME poms \in Seq(PomInfo), rootProps \in PropMap, NEW i \in 1..Len(poms)
    PROVE  ParentProps(i) \in PropMap
<1> DEFINE p   == poms[i]
           j   == FileIndex(poms, NormPath(JoinPath(DirName(p.file), p.parent.rel)))
<1>1. j \in 0..Len(poms)
  BY FileIndexType
<1>2. j # 0 => poms[j].props \in PropMap
  <2>1. j # 0 => poms[j] \in PomInfo
    BY <1>1, ElementOfSeq
  <2>. QED  BY <2>1 DEF PomInfo
<1>3. EmptyMap \in PropMap
  BY DEF EmptyMap, PropMap
<1>. QED  BY <1>2, <1>3 DEF ParentProps

\* The data main() hands to the comparison of a pair is an input of
\* ComparePair.
LEMMA PairDataType ==
    ASSUME poms \in Seq(PomInfo), gradles \in Seq(GradleInfo),
           rootProps \in PropMap, rootGradle \in PropMap,
           NEW i \in 1..Len(poms), NEW j \in 1..Len(gradles)
    PROVE  PairData(i, j) \in Input
<1>1. ParentProps(i) \in PropMap
  BY ParentPropsType
<1>2. poms[i] \in PomInfo /\ gradles[j] \in GradleInfo
  BY ElementOfSeq
<1>. QED  BY <1>1, <1>2 DEF PairData, Input, PomInfo, GradleInfo

\* A comparison that starts from the empty state of a pair is in the types
\* of ComparePair and satisfies ClassInv.
LEMMA PairStartInv ==
    ASSUME NEW x \in Input, PairStart(x)
    PROVE  TypeOK' /\ ClassInv'
<1>1. TypeOK'
  BY ConstantsAssumption DEF PairStart, TypeOK, Phases, Crashes
<1>2. P1' = 0 /\ P2' = 0
  BY DEF PairStart, P1, P2
<1>3. /\ Missing1(0)' = {} /\ Fallback1(0)' = {}
      /\ Fallback2(0)' = {} /\ Only2(0)' = {}
  BY DEF Missing1, Fallback1, Fallback2, Only2
<1>. QED  BY <1>1, <1>2, <1>3 DEF PairStart, ClassInv, DistinctKeys

-----------------------------------------------------------------------------
(* MainInv is an invariant *)

LEMMA MainInitInv == MainInit => MainInv
<1> SUFFICES ASSUME MainInit PROVE MainInv
  OBVIOUS
<1>1. IdleData \in Input
  BY DEF IdleData, Input, EmptyMap, PropMap
<1>2. TypeOK /\ ClassInv
  <2>1. PairInit(IdleData)
    BY DEF MainInit
  <2>2. TypeOK
    BY <1>1, <2>1, ConstantsAssumption DEF PairInit, TypeOK, Phases, Crashes
  <2>3. P1 = 0 /\ P2 = 0
    BY <2>1 DEF PairInit, P1, P2
  <2>. QED  BY <2>1, <2>2, <2>3, EmptyPrefixes DEF PairInit, ClassInv, DistinctKeys
<1>3. poms \in Seq(PomInfo) /\ gradles \in Seq(GradleInfo)
  BY MainAssumption DEF MainInit
<1>4. EmptyMap \in PropMap
  BY DEF EmptyMap, PropMap
<1>. QED  BY <1>2, <1>3, <1>4 DEF MainInit, MainInv, MainTypeOK

\* The steps of main() that leave the pair alone keep ClassInv and the
\* types of the pair.
LEMMA PairUnchanged ==
    ASSUME ClassInv, UNCHANGED pairVars
    PROVE  TypeOK' /\ ClassInv'
BY NextTypeOK, NextClassInv DEF ClassInv, pairVars

\* Every step of main() keeps MainInv: a pair starts from its empty state
\* with data of the input types, its steps are those of ComparePair, and
\* the other steps leave it alone.
LEMMA MainNextInv == MainInv /\ [MainNext]_allVars => MainInv'
<1> SUFFICES ASSUME MainInv, [MainNext]_allVars PROVE MainInv'
  OBVIOUS
<1>0. /\ poms \in Seq(PomInfo) /\ gradles \in Seq(GradleInfo)
      /\ rootProps \in PropMap /\ rootGradle \in PropMap
      /\ pi \in 1..(Len(poms) + 1)
      /\ pair \in [pom : Seq(Seq(Chunk)), gradle : Seq(Seq(Chunk))]
      /\ results \in Seq(ResultEntry)
      /\ mpc \in {"start", "loop", "pair"} \cup Ended
      /\ TypeOK /\ ClassInv
  BY DEF MainInv, MainTypeOK
<1>1. CASE EmptyInput \/ WriteReport \/ PairCrashed \/ MainFinished \/ UNCHANGED allVars
  <2>1. UNCHANGED <<poms, gradles, pi, rootProps, rootGradle, pair, results>>
        /\ UNCHANGED pairVars
        /\ mpc' \in {"start", "loop", "pair"} \cup Ended
        /\ (mpc' = "pair" => mpc = "pair")
    BY <1>0, <1>1 DEF EmptyInput, WriteReport, PairCrashed, MainFinished, allVars, mainVars, Ended
  <2>. QED  BY <1>0, <2>1, PairUnchanged DEF MainInv, MainTypeOK
<1>2. CASE LoadRoots
  <2>1. UNCHANGED <<poms, gradles, pi, pair, results>> /\ UNCHANGED pairVars
        /\ mpc' = "loop"
    BY <1>2 DEF LoadRoots
  <2>2. rootProps' \in PropMap
    <3>1. \A r \in PomInfo : r.props \in PropMap
      BY DEF PomInfo
    <3>. QED  BY <1>0, <1>2, <3>1, PropsOfType DEF LoadRoots
  <2>3. rootGradle' \in PropMap
    <3>1. \A r \in GradleInfo : r.props \in PropMap
      BY DEF GradleInfo
    <3>. QED  BY <1>0, <1>2, <3>1, PropsOfType DEF LoadRoots
  <2>. QED  BY <1>0, <2>1, <2>2, <2>3, PairUnchanged DEF MainInv, MainTypeOK
<1>3. CASE SkipPom
  <2>1. UNCHANGED <<poms, gradles, mpc, rootProps, rootGradle, pair, results>>
        /\ UNCHANGED pairVars /\ mpc = "loop" /\ pi <= Len(poms) /\ pi' = pi + 1
    BY <1>3 DEF SkipPom
  <2>. QED  BY <1>0, <2>1, PairUnchanged DEF MainInv, MainTypeOK
<1>4. CASE StartPair
  <2> DEFINE j == GradleIndex(pi)
  <2>1. /\ UNCHANGED <<poms, gradles, pi, rootProps, rootGradle, results>>
        /\ mpc' = "pair" /\ pi \in 1..Len(poms) /\ j # 0
        /\ pair' = [pom |-> poms[pi].file, gradle |-> gradles[j].file]
        /\ PairStart(PairData(pi, j))
    BY <1>0, <1>4 DEF StartPair
  <2>2. j \in 1..Len(gradles)
    BY <1>0, <2>1, FileIndexType DEF GradleIndex
  <2>3. PairData(pi, j) \in Input
    BY <1>0, <2>1, <2>2, PairDataType
  <2>4. TypeOK' /\ ClassInv'
    BY <2>1, <2>3, PairStartInv
  <2>5. pair' \in [pom : Seq(Seq(Chunk)), gradle : Seq(Seq(Chunk))]
    <3>1. poms[pi] \in PomInfo /\ gradles[j] \in GradleInfo
      BY <1>0, <2>1, <2>2, ElementOfSeq
    <3>. QED  BY <2>1, <3>1 DEF PomInfo, GradleInfo
  <2>. QED  BY <1>0, <2>1, <2>4, <2>5 DEF MainInv, MainTypeOK
<1>5. CASE PairStep
  <2>1. UNCHANGED mainVars /\ mpc = "pair" /\ Next
    BY <1>5 DEF PairStep, Next
  <2>2. TypeOK' /\ ClassInv'
    BY <1>0, <2>1, NextTypeOK, NextClassInv
  <2>. QED  BY <1>0, <2>1, <2>2 DEF mainVars, MainInv, MainTypeOK
<1>6. CASE PairDone
  <2>1. /\ UNCHANGED <<poms, gradles, rootProps, rootGradle, pair>> /\ UNCHANGED pairVars
        /\ mpc = "pair" /\ mpc' = "loop" /\ pi' = pi + 1
        /\ results' = Append(results, [pom |-> pair.pom, gradle |-> pair.gradle,
                                       missing |-> missing, mismatch |-> mismatch,
                                       only |-> only])
    BY <1>6 DEF PairDone
  <2>2. pi \in 1..Len(poms)
    BY <2>1 DEF MainInv
  <2>3. [pom |-> pair.pom, gradle |-> pair.gradle, missing |-> missing,
         mismatch |-> mismatch, only |-> only] \in ResultEntry
    BY <1>0 DEF TypeOK, ResultEntry
  <2>. QED  BY <1>0, <2>1, <2>2, <2>3, PairUnchanged DEF MainInv, MainTypeOK
<1>. QED  BY <1>1, <1>2, <1>3, <1>4, <1>5, <1>6 DEF MainNext

\* main() keeps every variable of the loop over pom_data and of the pair
\* it compares to its type, whatever the parsed files hold.
THEOREM MainTypeCorrect == MainSpec => []MainTypeOK
<1>1. MainInv => MainTypeOK
  BY DEF MainInv
<1>. QED  BY MainInitInv, MainNextInv, <1>1, PTL DEF MainSpec

\* Every pair main() compares is classified as the rules of the two passes
\* say (MavenSideClassified, GradleSideClassified) once its comparison is
\* done, so each report appended to comparison_results is that of its pair.
THEOREM MainPairsClassified ==
    MainSpec => [](MavenSideClassified /\ GradleSideClassified)
<1>1. MainInv => MavenSideClassified /\ GradleSideClassified
  BY ClassInvMavenSide, ClassInvGradleSide DEF MainInv
<1>. QED  BY MainInitInv, MainNextInv, <1>1, PTL DEF MainSpec


-----------------------------------------------------------------------------
(* main() implements MainLoop *)

\* While a pair is compared, its pom is paired and pair names the pom and
\* the Gradle file found for it: what PairDone appends is the report of
\* the pom at pi.
PairInv ==
    mpc = "pair" =>
        /\ GradleIndex(pi) # 0
        /\ pair = [pom |-> poms[pi].file, gradle |-> gradles[GradleIndex(pi)].file]

LoopInv == MainInv /\ PairInv

\* The Gradle file main() finds for a pom is one that MainLoop pairs it
\* with, and it finds none exactly when MainLoop has none.
LEMMA GradleIndexPaired ==
    ASSUME gradles \in Seq(GradleInfo), poms \in Seq(PomInfo), NEW i \in 1..Len(poms)
    PROVE  /\ GradleIndex(i) # 0 <=> Loop!Paired(i)
           /\ GradleIndex(i) # 0 =>
                  /\ GradleIndex(i) \in 1..Len(gradles)
                  /\ gradles[GradleIndex(i)].file = ReplacePom(poms[i].file)
<1>1. /\ GradleIndex(i) \in 0..Len(gradles)
      /\ GradleIndex(i) # 0 => gradles[GradleIndex(i)].file = ReplacePom(poms[i].file)
      /\ GradleIndex(i) = 0 =>
             \A j \in 1..Len(gradles) : gradles[j].file # ReplacePom(poms[i].file)
  BY FileIndexType DEF GradleIndex
<1>. QED  BY <1>1 DEF Loop!Paired

LEMMA LoopInitInv == MainInit => LoopInv
BY MainInitInv DEF LoopInv, PairInv, MainInit

LEMMA LoopNextInv == LoopInv /\ [MainNext]_allVars => LoopInv'
<1> SUFFICES ASSUME LoopInv, [MainNext]_allVars PROVE LoopInv'
  OBVIOUS
<1>1. MainInv'
  BY MainNextInv DEF LoopInv
<1>2. CASE StartPair
  <2>1. pi \in 1..Len(poms) /\ GradleIndex(pi) # 0
        /\ pair' = [pom |-> poms[pi].file, gradle |-> gradles[GradleIndex(pi)].file]
        /\ UNCHANGED <<poms, gradles, pi>>
    BY <1>2 DEF StartPair, LoopInv, MainInv, MainTypeOK
  <2>. QED  BY <1>1, <2>1 DEF LoopInv, PairInv, GradleIndex
<1>3. CASE PairStep
  <2>1. UNCHANGED mainVars
    BY <1>3 DEF PairStep
  <2>. QED  BY <1>1, <2>1 DEF LoopInv, PairInv, GradleIndex, mainVars
<1>4. CASE EmptyInput \/ LoadRoots \/ SkipPom \/ PairDone \/ PairCrashed
           \/ WriteReport
  <2>1. mpc' # "pair"
    BY <1>4 DEF EmptyInput, LoadRoots, SkipPom, PairDone, PairCrashed, WriteReport
  <2>. QED  BY <1>1, <2>1 DEF LoopInv, PairInv
<1>5. CASE MainFinished \/ UNCHANGED allVars
  <2>1. UNCHANGED mainVars
    BY <1>5 DEF MainFinished, allVars
  <2>. QED  BY <1>1, <2>1 DEF LoopInv, PairInv, GradleIndex, mainVars
<1>. QED  BY <1>2, <1>3, <1>4, <1>5 DEF MainNext


\* The initial state of main() is the initial state of MainLoop.
LEMMA RefineMainInit == MainInit => Loop!Init
<1> SUFFICES ASSUME MainInit PROVE Loop!Init
  OBVIOUS
<1>1. [k \in 1..Len(results) |-> [pom |-> results[k].pom,
                                  gradle |-> results[k].gradle]] = <<>>
  BY DEF MainInit
<1>. QED  BY <1>1 DEF MainInit, Loop!Init

\* Every step of main() is a step of MainLoop or leaves its variables
\* alone: the start of a pair and its steps are stutters, PairDone is
\* Compare and PairCrashed is Fail.
LEMMA RefineMainNext == LoopInv /\ [MainNext]_allVars => [Loop!Next]_Loop!lvars
<1> SUFFICES ASSUME LoopInv, [MainNext]_allVars PROVE [Loop!Next]_Loop!lvars
  OBVIOUS
<1> DEFINE Proj(q) == [k \in 1..Len(q) |-> [pom |-> q[k].pom, gradle |-> q[k].gradle]]
<1>0. /\ poms \in Seq(PomInfo) /\ gradles \in Seq(GradleInfo)
      /\ pi \in 1..(Len(poms) + 1) /\ results \in Seq(ResultEntry)
      /\ mpc \in {"start", "loop", "pair"} \cup Ended
      /\ PairInv
  BY DEF LoopInv, MainInv, MainTypeOK
<1>1. CASE EmptyInput
  BY <1>1 DEF EmptyInput, Loop!Next, Loop!Quit
<1>2. CASE LoadRoots
  BY <1>2 DEF LoadRoots, Loop!Next, Loop!Begin
<1>3. CASE SkipPom
  <2>1. pi \in 1..Len(poms) /\ GradleIndex(pi) = 0
    BY <1>0, <1>3 DEF SkipPom
  <2>2. ~Loop!Paired(pi)
    BY <1>0, <2>1, GradleIndexPaired
  <2>. QED  BY <1>3, <2>2 DEF SkipPom, Loop!Next, Loop!Skip, Loop!Paired
<1>4. CASE StartPair
  BY <1>4 DEF StartPair, Loop!lvars
<1>5. CASE PairStep
  BY <1>5 DEF PairStep, mainVars, Loop!lvars
<1>6. CASE PairDone
  <2> DEFINE r == [pom |-> pair.pom, gradle |-> pair.gradle, missing |-> missing,
                   mismatch |-> mismatch, only |-> only]
  <2>1. /\ mpc = "pair" /\ mpc' = "loop" /\ pi' = pi + 1
        /\ results' = Append(results, r)
        /\ UNCHANGED <<poms, gradles>>
    BY <1>6 DEF PairDone
  <2>2. pi \in 1..Len(poms)
    BY <2>1 DEF LoopInv, MainInv
  <2>3. Loop!Paired(pi) /\ pair.gradle = ReplacePom(poms[pi].file)
        /\ pair.pom = poms[pi].file
    BY <1>0, <2>1, <2>2, GradleIndexPaired DEF PairInv
  <2>4. Proj(results') = Append(Proj(results), Loop!Report(pi))
    BY <1>0, <2>1, <2>3 DEF Loop!Report
  <2>. QED  BY <2>1, <2>2, <2>3, <2>4 DEF Loop!Next, Loop!Compare
<1>7. CASE PairCrashed
  <2>1. /\ mpc = "pair" /\ mpc' = "crashed"
        /\ UNCHANGED <<poms, gradles, pi, results>>
    BY <1>7 DEF PairCrashed
  <2>2. pi \in 1..Len(poms)
    BY <2>1 DEF LoopInv, MainInv
  <2>3. Loop!Paired(pi)
    BY <1>0, <2>1, <2>2, GradleIndexPaired DEF PairInv
  <2>. QED  BY <2>1, <2>2, <2>3 DEF Loop!Next, Loop!Fail
<1>8. CASE WriteReport
  BY <1>8 DEF WriteReport, Loop!Next, Loop!Write
<1>9. CASE MainFinished \/ UNCHANGED allVars
  BY <1>9 DEF MainFinished, allVars, mainVars, Loop!lvars
<1>. QED  BY <1>1, <1>2, <1>3, <1>4, <1>5, <1>6, <1>7, <1>8, <1>9 DEF MainNext

\* main() implements MainLoop (MainLoopRefined): every pom of pom_data is
\* visited once and in order, each paired pom gets exactly one report, for
\* the Gradle file str.replace names, and the report list is written only
\* after the last pom, whatever the parsed files hold.
THEOREM MainRefinesLoop == MainSpec => MainLoopRefined
<1>1. MainSpec => []LoopInv
  BY LoopInitInv, LoopNextInv, PTL DEF MainSpec
<1>. QED  BY <1>1, RefineMainInit, RefineMainNext, PTL
          DEF MainSpec, MainLoopRefined, Loop!Spec

=============================================================================
