---------------------------- MODULE MC_CompareMain ----------------------------
(***************************************************************************)
(* Small instances of CompareMain for TLC: the poms fe/pom.xml,            *)
(* fe/core/pom.xml and fe/core/sub/pom.xml and their build.gradle.kts     *)
(* files.  The root defines n1 = v1 and core n1 = v2; every pom declares   *)
(* g1:a1:${n1}, every Gradle file g1:a1:v1, so the version a pom's key     *)
(* gets shows which parent scope it was given.  sr:srfe are the            *)
(* coordinates com.starrocks:starrocks-fe.                                 *)
(***************************************************************************)
EXTENDS CompareMain, TLC

CONSTANTS n1, v1, v2, g1, sr, a1, srfe, c1, fe, core, sub, tools

MCNames       == {n1, v1, v2}
MCGroups      == {g1, sr}
MCArtifacts   == {a1, srfe}
MCClassifiers == {c1}
MCScopes      == {"compile", None}
MCConfigs     == {"implementation"}
MCToolGroups  == {}
MCInputs      == {IdleData}
MCPathNames   == {fe, core, sub, tools}

Props(x) == [k \in MCNames |-> IF k = n1 THEN x ELSE Absent]

\* Paths: a directory name d is the segment <<d>>.
Seg(d)    == <<d>>
PomSeg    == <<PomChunk>>
GradleSeg == <<GradleChunk>>

Pom(dirs, par, x, direct, mIn) ==
    [file |-> [k \in 1..Len(dirs) |-> Seg(dirs[k])] \o <<PomSeg>>,
     parent |-> par, props |-> Props(x), direct |-> direct, managedIn |-> mIn]

GradleFile(dirs, deps) ==
    [file |-> [k \in 1..Len(dirs) |-> Seg(dirs[k])] \o <<GradleSeg>>,
     props |-> Props(Absent), deps |-> deps]

Par(g, a, rel) == [g |-> g, a |-> a, rel |-> rel]

DirectN1  == <<[g |-> g1, a |-> a1, v |-> Ph(n1), scope |-> "compile", c |-> None]>>
GradleV1  == <<[g |-> g1, name |-> a1, v |-> Lit(v1), config |-> "implementation"]>>

\* relativePath values: ../pom.xml, .., ./../pom.xml, ../../pom.xml,
\* ../../core/pom.xml
UpPom     == <<ParDir, PomSeg>>
Up        == <<ParDir>>
DotUpPom  == <<CurDir, ParDir, PomSeg>>
UpUpPom   == <<ParDir, ParDir, PomSeg>>
UpUpCore  == <<ParDir, ParDir, Seg(core), PomSeg>>

RootPom == Pom(<<fe>>, NoParent, Lit(v1), DirectN1, <<>>)

CoreParents == {NoParent, Par(sr, srfe, None), Par(sr, srfe, UpPom),
                Par(sr, srfe, Up), Par(g1, a1, UpPom), Par(g1, a1, Up)}
SubParents  == {Par(g1, a1, None), Par(g1, a1, UpPom), Par(g1, a1, DotUpPom),
                Par(g1, a1, UpUpPom), Par(g1, a1, UpUpCore), Par(sr, srfe, UpUpCore)}

CorePoms == {Pom(<<fe, core>>, par, Lit(v2), DirectN1, <<>>) : par \in CoreParents}
SubPoms  == {Pom(<<fe, core, sub>>, par, Absent, DirectN1, <<>>) : par \in SubParents}

AllGradle == <<GradleFile(<<fe>>, GradleV1), GradleFile(<<fe, core>>, GradleV1),
               GradleFile(<<fe, core, sub>>, GradleV1)>>

(***************************************************************************)
(* Orchestration: pom_data in two orders, with every parent element of     *)
(* core and sub, against all Gradle files, only core's, or none.           *)
(***************************************************************************)
PomsMain ==
    {<<RootPom, c, s>> : c \in CorePoms, s \in SubPoms}
    \cup {<<s, c, RootPom>> : c \in CorePoms, s \in SubPoms}
    \cup {<<>>}

GradlesMain ==
    {AllGradle, <<GradleFile(<<fe, core>>, GradleV1)>>, <<>>}

(***************************************************************************)
(* A directory named "pom.xml-tools", whose pom has a build.gradle.kts     *)
(* beside it.                                                              *)
(***************************************************************************)
ToolsSeg == <<PomChunk, tools>>

PomsToolsDir ==
    {<<RootPom, [Pom(<<fe>>, NoParent, Absent, DirectN1, <<>>) EXCEPT
                   !.file = <<Seg(fe), ToolsSeg, PomSeg>>]>>}

GradlesToolsDir ==
    {<<GradleFile(<<fe>>, GradleV1),
       [GradleFile(<<fe>>, GradleV1) EXCEPT !.file = <<Seg(fe), ToolsSeg, GradleSeg>>]>>}

(***************************************************************************)
(* The files listed from inside fe/: pom.xml and core/pom.xml.             *)
(***************************************************************************)
PomsFromFe ==
    {<<Pom(<<>>, NoParent, Lit(v1), DirectN1, <<>>),
       Pom(<<core>>, Par(sr, srfe, UpPom), Lit(v2), DirectN1, <<>>)>>}

GradlesFromFe ==
    {<<GradleFile(<<>>, GradleV1), GradleFile(<<core>>, GradleV1)>>}

(***************************************************************************)
(* A core pom whose dependency management has a versionless entry for the  *)
(* versionless direct dependency g1:a1, listed before or after sub.        *)
(***************************************************************************)
CrashingCore ==
    Pom(<<fe, core>>, Par(sr, srfe, UpPom), Lit(v2),
        <<[g |-> g1, a |-> a1, v |-> None, scope |-> "compile", c |-> None]>>,
        <<[g |-> g1, a |-> a1, v |-> None, c |-> None]>>)

PomsCrash ==
    {<<RootPom, CrashingCore, s>> : s \in SubPoms}
    \cup {<<RootPom, s, CrashingCore>> : s \in SubPoms}

PomsMainAll == PomsMain \cup PomsCrash
=============================================================================
