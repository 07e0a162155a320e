----------------------------- MODULE CompareMain -----------------------------
(***************************************************************************)
(* main() of compare_dependencies.py around the comparison of one pair:    *)
(* the early return on empty input, the search for the root pom and root   *)
(* Gradle properties, and the loop over pom_data that finds each pom's     *)
(* Gradle file and parent properties, runs the comparison of ComparePair   *)
(* on the pair and appends its three reports to comparison_results.  The   *)
(* report file is written only after the loop (lines 429-431), so an       *)
(* exception raised in any pair ends the program with nothing written.     *)
(*                                                                         *)
(* A path string is the sequence of its "/"-separated segments (the empty  *)
(* string is the empty sequence).  A segment is a sequence of chunks: the  *)
(* tokens "pom.xml", "build.gradle.kts" and "." and the names of           *)
(* PathNames, none of which contains "/", ".", "pom.xml" or               *)
(* "build.gradle.kts"; so "." is <<".">>, ".." is <<".", ".">> and         *)
(* str.replace acts on the "pom.xml" chunks.  Paths are relative.          *)
(***************************************************************************)
EXTENDS ComparePair

CONSTANTS
    PathNames,     \* directory names
    FeDir,         \* the directory name "fe"
    RootGroup,     \* "com.starrocks"
    RootArtifact,  \* "starrocks-fe"
    PomDataSet,    \* the possible contents of pom_dependencies.json
    GradleDataSet  \* the possible contents of gradle_dependencies.json

PomChunk    == "pom.xml"
GradleChunk == "build.gradle.kts"
Dot         == "."

Chunk   == PathNames \cup {PomChunk, GradleChunk, Dot}
CurDir  == <<Dot>>
ParDir  == <<Dot, Dot>>

\* 'fe/pom.xml' and 'fe/build.gradle.kts'
RootPomFile    == <<<<FeDir>>, <<PomChunk>>>>
RootGradleFile == <<<<FeDir>>, <<GradleChunk>>>>

\* The parent element of a pom (parse_pom lines 75-87), or {} without one.
NoParent   == [parent |-> "none"]
ParentInfo == [g : Groups \cup {None}, a : Artifacts \cup {None},
               rel : Seq(Seq(Chunk)) \cup {None}]

PomInfo    == [file : Seq(Seq(Chunk)), parent : ParentInfo \cup {NoParent},
               props : PropMap, direct : Seq(MavenDep), managedIn : Seq(ManagedDep)]
GradleInfo == [file : Seq(Seq(Chunk)), props : PropMap, deps : Seq(GradleDep)]

ASSUME MainAssumption ==
    /\ FeDir \in PathNames
    /\ PathNames \cap {PomChunk, GradleChunk, Dot} = {}
    /\ RootGroup \in Groups /\ RootArtifact \in Artifacts
    /\ PomDataSet \subseteq Seq(PomInfo)
    /\ GradleDataSet \subseteq Seq(GradleInfo)

-----------------------------------------------------------------------------
(* Path operations of os.path and str *)

\* pom_file_path.replace('pom.xml', 'build.gradle.kts'): every occurrence.
ReplacePom(p) ==
    [i \in 1..Len(p) |->
        [j \in 1..Len(p[i]) |-> IF p[i][j] = PomChunk THEN GradleChunk ELSE p[i][j]]]

\* Mutant: the pom's own path taken as its directory.
DirNameKeep(p) == p

\* os.path.dirname: the text before the last "/", trailing "/"s stripped.
DirName(p) ==
    LET head == Front(p)
    IN  SubSeq(head, 1, SelectLastInSeq(head, LAMBDA s : s # <<>>))

\* os.path.join(a, b) for a relative b.
JoinPath(a, b) ==
    IF a = <<>> THEN b
    ELSE IF Last(a) = <<>> THEN Front(a) \o b
    ELSE a \o b

\* One component of the loop of os.path.normpath on a relative path.
NormStep(new, comp) ==
    IF comp \in {<<>>, CurDir} THEN new
    ELSE IF comp # ParDir \/ new = <<>> \/ Last(new) = ParDir THEN Append(new, comp)
    ELSE Front(new)

\* os.path.normpath: "" and "." dropped, ".." cancelling the component
\* before it; the empty result is ".".
NormPath(p) ==
    LET new == FoldLeft(NormStep, <<>>, p)
    IN  IF new = <<>> THEN <<CurDir>> ELSE new

-----------------------------------------------------------------------------
VARIABLES
    poms,        \* pom_data
    gradles,     \* gradle_data
    mpc,         \* "start", "loop", "pair", "done" (report written), "exit",
                 \* "crashed"
    pi,          \* the index of the current pom_info
    rootProps,   \* root_pom_properties
    rootGradle,  \* root_gradle_properties
    pair,        \* the pom and Gradle file of the pair being compared
    results      \* comparison_results

mainVars == <<poms, gradles, mpc, pi, rootProps, rootGradle, pair, results>>
pairVars == vars
allVars  == <<mainVars, pairVars>>

\* The data of a file list whose 'file' is f: the first, or 0.
FileIndex(data, f) == SelectInSeq(data, LAMBDA r : r.file = f)

\* Mutant: the whole pom_info taken instead of its 'properties'.
PropsOfRecord(data, f) == IF FileIndex(data, f) = 0 THEN EmptyMap
                          ELSE data[FileIndex(data, f)]

PropsOf(data, f) == IF FileIndex(data, f) = 0 THEN EmptyMap
                    ELSE data[FileIndex(data, f)].props

\* The Gradle file of the pom at index i (lines 220-222), or 0.
GradleIndex(i) == FileIndex(gradles, ReplacePom(poms[i].file))

\* parent_pom_props (lines 229-239).
ParentProps(i) ==
    LET p   == poms[i]
        par == p.parent
        j   == FileIndex(poms, NormPath(JoinPath(DirName(p.file), par.rel)))
    IN  IF par = NoParent \/ par.rel = None THEN EmptyMap
        ELSE IF j # 0 THEN poms[j].props
        ELSE IF par.a = RootArtifact /\ par.g = RootGroup THEN rootProps
        ELSE EmptyMap

\* The parsed data of the pair of pom i and Gradle file j as ComparePair
\* takes it.
PairData(i, j) ==
    [pomLocal |-> poms[i].props, pomParent |-> ParentProps(i), pomRoot |-> rootProps,
     managedIn |-> poms[i].managedIn, directIn |-> poms[i].direct,
     gradleLocal |-> gradles[j].props, gradleRoot |-> rootGradle,
     gradleIn |-> gradles[j].deps]

IdleData ==
    [pomLocal |-> EmptyMap, pomParent |-> EmptyMap, pomRoot |-> EmptyMap,
     managedIn |-> <<>>, directIn |-> <<>>, gradleLocal |-> EmptyMap,
     gradleRoot |-> EmptyMap, gradleIn |-> <<>>]

-----------------------------------------------------------------------------
MainInit ==
    /\ poms \in PomDataSet /\ gradles \in GradleDataSet
    /\ mpc = "start" /\ pi = 1
    /\ rootProps = EmptyMap /\ rootGradle = EmptyMap
    /\ pair = [pom |-> <<>>, gradle |-> <<>>]
    /\ results = <<>>
    /\ PairInit(IdleData)

\* if not pom_data or not gradle_data: return (lines 196-198)
EmptyInput ==
    /\ mpc = "start" /\ (poms = <<>> \/ gradles = <<>>)
    /\ mpc' = "exit"
    /\ UNCHANGED <<poms, gradles, pi, rootProps, rootGradle, pair, results>>
    /\ UNCHANGED pairVars

\* The two searches for fe/pom.xml and fe/build.gradle.kts (lines 200-210).
LoadRoots ==
    /\ mpc = "start" /\ poms # <<>> /\ gradles # <<>>
    /\ rootProps' = PropsOf(poms, RootPomFile)
    /\ rootGradle' = PropsOf(gradles, RootGradleFile)
    /\ mpc' = "loop"
    /\ UNCHANGED <<poms, gradles, pi, pair, results>>
    /\ UNCHANGED pairVars

\* A pom without a Gradle file in gradle_data is skipped (lines 224-226).
SkipPom ==
    /\ mpc = "loop" /\ pi <= Len(poms) /\ GradleIndex(pi) = 0
    /\ pi' = pi + 1
    /\ UNCHANGED <<poms, gradles, mpc, rootProps, rootGradle, pair, results>>
    /\ UNCHANGED pairVars

\* The pair is found and its parent properties computed (lines 214-239);
\* its comparison starts.
StartPair ==
    /\ mpc = "loop" /\ pi <= Len(poms) /\ GradleIndex(pi) # 0
    /\ mpc' = "pair"
    /\ UNCHANGED <<poms, gradles, pi, rootProps, rootGradle, results>>
    /\ LET j == GradleIndex(pi)
       IN  /\ pair' = [pom |-> poms[pi].file, gradle |-> gradles[j].file]
           /\ PairStart(PairData(pi, j))

\* One step of the comparison of the pair (lines 244-400).
PairStep ==
    /\ mpc = "pair"
    /\ \/ NormalizeManaged \/ ResolveDirect \/ NormalizeGradle
       \/ Pass1 \/ Pass2 \/ NextPhase
    /\ UNCHANGED mainVars

\* comparison_results.append(...) (lines 421-427); the loop goes on.
PairDone ==
    /\ mpc = "pair" /\ pc = "done"
    /\ results' = Append(results, [pom |-> pair.pom, gradle |-> pair.gradle,
                                   missing |-> missing, mismatch |-> mismatch,
                                   only |-> only])
    /\ pi' = pi + 1 /\ mpc' = "loop"
    /\ UNCHANGED <<poms, gradles, rootProps, rootGradle, pair>>
    /\ UNCHANGED pairVars

\* Mutant: an exception of the comparison caught, the loop going on.
PairCrashedContinue ==
    /\ mpc = "pair" /\ pc = "crashed"
    /\ pi' = pi + 1 /\ mpc' = "loop"
    /\ UNCHANGED <<poms, gradles, rootProps, rootGradle, pair, results>>
    /\ UNCHANGED pairVars

\* An exception of the comparison propagates out of main().
PairCrashed ==
    /\ mpc = "pair" /\ pc = "crashed"
    /\ mpc' = "crashed"
    /\ UNCHANGED <<poms, gradles, pi, rootProps, rootGradle, pair, results>>
    /\ UNCHANGED pairVars

\* json.dump(comparison_results, ...) after the loop (lines 429-431).
WriteReport ==
    /\ mpc = "loop" /\ pi > Len(poms)
    /\ mpc' = "done"
    /\ UNCHANGED <<poms, gradles, pi, rootProps, rootGradle, pair, results>>
    /\ UNCHANGED pairVars

Ended == {"done", "exit", "crashed"}

MainFinished ==
    /\ mpc \in Ended
    /\ UNCHANGED allVars

MainNext ==
    \/ EmptyInput \/ LoadRoots \/ SkipPom \/ StartPair \/ PairStep
    \/ PairDone \/ PairCrashed \/ WriteReport \/ MainFinished

\* The program is one thread that runs until it returns or raises.
MainFairness == WF_allVars(MainNext)

MainSpec == MainInit /\ [][MainNext]_allVars /\ MainFairness
-----------------------------------------------------------------------------
(* Types *)

ResultEntry == [pom : Seq(Seq(Chunk)), gradle : Seq(Seq(Chunk)),
                missing : SUBSET MavenKey,
                mismatch : SUBSET [key : MavenKey \cup GradleKey,
                                   maven : VersionToken \cup {NAVersion},
                                   gradle : VersionToken \cup {NAVersion}],
                only : SUBSET GradleKey]

MainTypeOK ==
    /\ poms \in Seq(PomInfo) /\ gradles \in Seq(GradleInfo)
    /\ mpc \in {"start", "loop", "pair"} \cup Ended
    /\ pi \in 1..(Len(poms) + 1)
    /\ rootProps \in PropMap /\ rootGradle \in PropMap
    /\ pair \in [pom : Seq(Seq(Chunk)), gradle : Seq(Seq(Chunk))]
    /\ results \in Seq(ResultEntry)
    /\ TypeOK

-----------------------------------------------------------------------------
(* Reference definitions of files and directories *)

\* The place a relative path names, walked from a directory place: "" and
\* "." stay, ".." goes up, a name goes down.  Places start below a base
\* deep enough that ".." never climbs out of it.
Base == [k \in 1..3 |-> <<"/">>]

WalkStep(loc, seg) ==
    IF seg \in {<<>>, CurDir} THEN loc
    ELSE IF seg = ParDir THEN Front(loc)
    ELSE Append(loc, seg)

WalkFrom(loc, p) == FoldLeft(WalkStep, loc, p)

Place(p) == WalkFrom(Base, p)

\* The spec's pairing (section 6): the Gradle file in the pom's directory.
SpecGradleFile(f) == Front(f) \o <<<<GradleChunk>>>>

HasSpecGradle(f) == \E j \in 1..Len(gradles) : gradles[j].file = SpecGradleFile(f)

PairedPoms == SelectSeq([i \in 1..Len(poms) |-> poms[i].file], HasSpecGradle)

\* The first loaded pom at the place pl, or 0.
PomAt(pl) == SelectInSeq(poms, LAMBDA q : Place(q.file) = pl)

-----------------------------------------------------------------------------
(* Properties *)

\* main() as MainLoop sees it: the steps of a pair are stutters but for
\* the last, which appends its report or raises; the rule that names the
\* Gradle file is str.replace.
Loop == INSTANCE MainLoop WITH
    GradleFileOf <- ReplacePom,
    status  <- IF mpc = "pair" THEN "loop" ELSE mpc,
    next    <- pi,
    reports <- [k \in 1..Len(results) |-> [pom |-> results[k].pom,
                                            gradle |-> results[k].gradle]]

\* main() implements MainLoop: it visits the poms of pom_data once each
\* and in order, appends exactly one report for each pom whose Gradle
\* file is loaded, for that file, skips the others, and writes the list
\* only after the last pom (the loop of lines 214-427 and the dump of
\* lines 429-431); an exception in a pair ends it with nothing written.
MainLoopRefined == Loop!Spec

\* Every pom that has a build.gradle.kts in its own directory is compared
\* with that file, once per entry of pom_data and in its order, and every
\* other pom is skipped (the pairing of lines 214-226, spec section 6).
PairsCompared ==
    mpc = "done" =>
        /\ [k \in 1..Len(results) |-> results[k].pom] = PairedPoms
        /\ \A k \in 1..Len(results) :
               results[k].gradle = SpecGradleFile(results[k].pom)

\* A pom whose parent element has a relativePath naming a loaded pom file
\* is compared with that pom's properties as its parent scope (the
\* dirname / join / normpath lookup of lines 230-236).
ParentScopeByPath ==
    mpc = "pair" =>
        LET p  == poms[pi]
            pl == WalkFrom(Front(Place(p.file)), p.parent.rel)
        IN  (p.parent # NoParent /\ p.parent.rel # None /\ PomAt(pl) # 0)
                => inp.pomParent = poms[PomAt(pl)].props

\* Maven's rule for the parent file: relativePath, ../pom.xml when it is
\* not given, with pom.xml appended when it names a directory.
MavenParentPath(par) ==
    LET r == IF par.rel = None THEN <<ParDir, <<PomChunk>>>> ELSE par.rel
    IN  IF r # <<>> /\ Last(r) = <<PomChunk>> THEN r ELSE r \o <<<<PomChunk>>>>

\* The parent scope of a pom is the properties of its parent pom whenever
\* that pom is one of the loaded files (spec sections 3 and 6: parent
\* scopes are inherited; only parents outside the loaded files are out of
\* scope), whatever form the parent's relativePath takes.
ParentScopeInherited ==
    mpc = "pair" =>
        LET p  == poms[pi]
            pl == WalkFrom(Front(Place(p.file)), MavenParentPath(p.parent))
        IN  (p.parent # NoParent /\ PomAt(pl) # 0)
                => inp.pomParent = poms[PomAt(pl)].props

\* The top-level pom, whose directory holds every loaded pom, is the root
\* scope of every pair (spec section 3: the root build description), where
\* ever the files were listed from.
TopPom ==
    SelectInSeq(poms, LAMBDA q : \A k \in 1..Len(poms) :
        IsPrefix(Front(Place(q.file)), Front(Place(poms[k].file))))

RootScopeIsTopPom ==
    mpc = "pair" /\ TopPom # 0 => rootProps = poms[TopPom].props

\* A run on non-empty input writes the report of every pair: one bad pair
\* never aborts the batch (spec section 7).
ReportWritten ==
    (poms # <<>> /\ gradles # <<>>) => <>(mpc = "done")
=============================================================================
