---------------------------- MODULE MC_ComparePair ----------------------------
(***************************************************************************)
(* Small instances of ComparePair for TLC.  Keys n1, n2 name properties,   *)
(* v1, v2 are literal version strings; g1 is an ordinary group and kt a    *)
(* Kotlin build-tool group; a1 is the one artifact, c1 the one classifier. *)
(* Each set of inputs below is the question of one run.                    *)
(***************************************************************************)
EXTENDS ComparePair, TLC

CONSTANTS n1, n2, v1, v2, g1, kt, a1, c1

MCNames       == {n1, n2, v1, v2}
MCGroups      == {g1, kt}
MCToolGroups  == {kt}
MCArtifacts   == {a1}
MCClassifiers == {c1}
MCScopes      == {"compile", "test", None}
MCConfigs     == {"implementation", "testImplementation"}

\* A property map over the keys n1, n2; the version strings are never keys.
Props(x1, x2) == [k \in MCNames |-> IF k = n1 THEN x1 ELSE IF k = n2 THEN x2
                                    ELSE Absent]
AllProps(vals) == {Props(x1, x2) : x1, x2 \in vals}

Managed(g, a, v, c) == [g |-> g, a |-> a, v |-> v, c |-> c]
Direct(g, a, v, s)  == [g |-> g, a |-> a, v |-> v, scope |-> s, c |-> None]
GDep(g, n, v, cfg)  == [g |-> g, name |-> n, v |-> v, config |-> cfg]

NoProps == Props(Absent, Absent)

PairInput(loc, par, root, mIn, dIn, gLoc, gRoot, gIn) ==
    [pomLocal |-> loc, pomParent |-> par, pomRoot |-> root,
     managedIn |-> mIn, directIn |-> dIn,
     gradleLocal |-> gLoc, gradleRoot |-> gRoot, gradleIn |-> gIn]

(***************************************************************************)
(* Classification: literal versions only, up to two direct Maven and two   *)
(* Gradle dependencies of one group:artifact, in every order, against a    *)
(* management section that is empty, versioned or versionless.             *)
(***************************************************************************)
ClassifyDirect ==
    {Direct(g1, a1, v, s) : v \in {None, Lit(v1), Lit(v2)}, s \in {"compile", "test"}}

ClassifyGradle ==
    {GDep(g, a1, v, cfg) : g \in {g1, kt, ProjectGroup},
                           v \in {None, Lit(v1), Lit(v2)}, cfg \in MCConfigs}
    \cup {GDep(g1, PlatformName(a1), Lit(v1), "implementation"),
          GDep(None, a1, None, "implementation")}

ClassifyManaged ==
    {<<>>, <<Managed(g1, a1, Lit(v1), None)>>, <<Managed(g1, a1, None, None)>>}

InputsClassify ==
    {PairInput(NoProps, NoProps, NoProps, m, d, NoProps, NoProps, g) :
        m \in ClassifyManaged, d \in BoundedSeq(ClassifyDirect, 2),
        g \in BoundedSeq(ClassifyGradle, 2)}

(***************************************************************************)
(* Resolution: every local, parent and root property map over n1, n2 with  *)
(* values absent, empty, v1, v2, ${n1} or ${n2}, for one direct dependency *)
(* ${n1} with and without a managed entry ${n1}.                           *)
(***************************************************************************)
ResolveValues == {Absent, Null, Lit(v1), Lit(v2), Ph(n1), Ph(n2)}

InputsResolve ==
    {PairInput(loc, par, root, m, <<Direct(g1, a1, Ph(n1), "compile")>>,
               NoProps, NoProps, <<>>) :
        loc \in AllProps(ResolveValues), par \in AllProps(ResolveValues),
        root \in AllProps(ResolveValues),
        m \in {<<>>, <<Managed(g1, a1, Ph(n2), None)>>}}

(***************************************************************************)
(* Management: one versionless direct dependency against every management  *)
(* section of up to two entries for its group:artifact, with and without a *)
(* version and a classifier.                                               *)
(***************************************************************************)
ManagedEntries ==
    {Managed(g1, a1, v, c) : v \in {None, Lit(v1), Lit(v2)}, c \in {None, c1}}

InputsManaged ==
    {PairInput(NoProps, NoProps, NoProps, m, <<Direct(g1, a1, None, "compile")>>,
               NoProps, NoProps, <<>>) : m \in BoundedSeq(ManagedEntries, 2)}

(***************************************************************************)
(* Literal versions: a managed entry whose literal version is the name n1, *)
(* against local properties that may define n1.                            *)
(***************************************************************************)
InputsLiteral ==
    {PairInput(loc, NoProps, NoProps, <<Managed(g1, a1, Lit(n1), None)>>, <<>>,
               NoProps, NoProps, <<>>) : loc \in AllProps({Absent, Lit(v1)})}

(***************************************************************************)
(* Gradle properties: one Gradle dependency "${n1}", "n1" or v1 against    *)
(* every local and root extra-property map with values absent or v1/v2.   *)
(***************************************************************************)
InputsGradleProps ==
    {PairInput(NoProps, NoProps, NoProps, <<>>, <<>>, loc, root,
               <<GDep(g1, a1, v, "implementation")>>) :
        loc \in AllProps({Absent, Lit(v1)}), root \in AllProps({Absent, Lit(v2)}),
        v \in {Ph(n1), Lit(n1), Lit(v1)}}
=============================================================================
