----------------------------- MODULE ComparePair -----------------------------
(***************************************************************************)
(* The body of the loop of main() in compare_dependencies.py for one pom / *)
(* build.gradle.kts pair, once the pair and the parent properties are      *)
(* known (lines 244-400): normalise the dependency-management section,     *)
(* resolve every direct Maven dependency against it, normalise the Gradle  *)
(* dependencies, then the two classification passes.  Each iteration of    *)
(* one of these five loops is one step; a step that raises (RecursionError *)
(* or IndexError, caught nowhere in the program) ends the run in           *)
(* "crashed".                                                              *)
(*                                                                         *)
(* A dependency key is the colon-joined string of its parts; parts never   *)
(* contain ':', so a key is modelled as the sequence of its parts and      *)
(* key.split(':') is that sequence.  Python dicts are modelled as          *)
(* sequences of entries in insertion order, which is their iteration order.*)
(***************************************************************************)
EXTENDS PropertyResolution, SequencesExt

CONSTANTS
    Groups,       \* groupId / group values
    Artifacts,    \* artifactId / name values (Gradle module paths included)
    Classifiers,  \* classifier values
    ToolGroups,   \* groups starting with "org.jetbrains.kotlin" or "org.gradle"
    Scopes,       \* Maven scopes, None included
    Configs,      \* Gradle configuration names
    Inputs        \* the pairs of parsed files to compare

ProjectGroup == [project |-> "group"]   \* the group "project" of parse_gradle
NAManaged    == [na |-> "managed"]      \* "N/A (managed by BOM or parent ...)"
NAVersion    == [na |-> "N/A"]          \* "N/A" of a key with no version part
ManagedIndexError  == [error |-> "IndexError", line |-> 292]
PlatformIndexError == [error |-> "IndexError", line |-> 169]
NoCrash            == [error |-> "none"]

\* parse_gradle writes a platform("g:a:v") dependency with the name
\* "platform(a)": the text inside the parentheses is the artifact alone.
PlatformName(a) == [platform |-> a]
PlatformNames == [platform : Artifacts]

MavenDep   == [g : Groups, a : Artifacts, v : Text \cup {None},
               scope : Scopes, c : Classifiers \cup {None}]
ManagedDep == [g : Groups, a : Artifacts, v : Text \cup {None},
               c : Classifiers \cup {None}]
GradleDep  == [g : Groups \cup {ProjectGroup, None},
               name : Artifacts \cup PlatformNames,
               v : Text \cup {None}, config : Configs]

Input == [pomLocal : PropMap, pomParent : PropMap, pomRoot : PropMap,
          managedIn : Seq(ManagedDep), directIn : Seq(MavenDep),
          gradleLocal : PropMap, gradleRoot : PropMap,
          gradleIn : Seq(GradleDep)]

ASSUME ConstantsAssumption ==
    /\ ToolGroups \subseteq Groups
    /\ ProjectGroup \notin Groups /\ None \notin Groups
    /\ None \notin {ProjectGroup, NAManaged, NAVersion}
    /\ {NAManaged, NAVersion} \cap Classifiers = {}
    /\ Artifacts \cap PlatformNames = {}
    /\ None \notin Classifiers /\ Classifiers \cap Text = {}
    /\ None \in Scopes
    /\ Inputs \subseteq Input

VARIABLES
    inp,       \* the parsed pom / gradle data of the pair (never changes)
    pc,        \* which loop runs: "managed", "direct", "gradle", "pass1", "pass2"
    idx,       \* the index of the loop's current element
    managed,   \* keys of maven_managed_deps
    maven,     \* resolved_maven_deps: entries [key, scope]
    gradle,    \* gradle_deps: entries [key, config]
    missing,   \* keys of missing_in_gradle
    mismatch,  \* version_mismatch: entries [key, maven, gradle]
    only,      \* keys of present_in_gradle_not_in_maven
    crash      \* the uncaught exception that ended the run, or NoCrash

vars == <<inp, pc, idx, managed, maven, gradle, missing, mismatch, only, crash>>

-----------------------------------------------------------------------------
(* Keys and dicts *)

Opt(x) == IF x = None THEN <<>> ELSE <<x>>

\* ":".join([g, a] + [v if v] + [classifier if classifier])
DepKey(g, a, v, c) == <<g, a>> \o Opt(v) \o Opt(c)

GA(k) == <<k[1], k[2]>>

\* k.split(':')[2] if len > 2 else "N/A"
Part3(k) == IF Len(k) > 2 THEN k[3] ELSE NAVersion

Keys(d) == {d[i].key : i \in 1..Len(d)}

\* d[e.key] = value: a new key goes last, an existing one keeps its place.
PutEntry(d, e) ==
    IF e.key \in Keys(d)
    THEN [i \in 1..Len(d) |-> IF d[i].key = e.key THEN e ELSE d[i]]
    ELSE Append(d, e)

PutKey(s, k) == IF k \in Range(s) THEN s ELSE Append(s, k)

\* The first entry of d whose key has the group:artifact of k, or 0.
FirstGA(d, k) == SelectInSeq(d, LAMBDA e : GA(e.key) = GA(k))

MismatchKeys == {r.key : r \in mismatch}

-----------------------------------------------------------------------------
(* Property scopes of the pair *)

\* normalize_dependencies: {**parent, **local}, under {**root, ...} when the
\* root dict is non-empty.
CombinedProps ==
    LET c == Merge(inp.pomParent, inp.pomLocal)
    IN  IF NonEmpty(inp.pomRoot) THEN Merge(inp.pomRoot, c) ELSE c

\* Mutant: the merge written in the opposite order, root overriding local.
DirectPropsRootWins == Merge(Merge(inp.pomLocal, inp.pomParent), inp.pomRoot)

\* {**root_pom_properties, **parent_pom_props, **pom_info['properties']}
DirectProps == Merge(Merge(inp.pomRoot, inp.pomParent), inp.pomLocal)

-----------------------------------------------------------------------------
(* Managed-version lookup of a direct dependency (lines 270-293) *)

\* m_key.startswith(f"{g}:{a}:") and m_key.endswith(f":{classifier}")
ManagedWithClassifier(g, a, c) ==
    SelectInSeq(managed, LAMBDA k : Len(k) >= 3 /\ k[1] = g /\ k[2] = a
                                   /\ k[Len(k)] = c)

\* m_parts[3] if len(m_parts) == 4 else None
KeyClassifier(k) == IF Len(k) = 4 THEN k[4] ELSE None

ManagedSameClassifier(g, a, c) ==
    SelectInSeq(managed, LAMBDA k : k[1] = g /\ k[2] = a
                                   /\ KeyClassifier(k) = c)

\* The managed version, None, or the IndexError of m_parts[2] on a key
\* "g:a" of a managed entry without a version.
ManagedVersion(g, a, c) ==
    LET j1 == IF c # None THEN ManagedWithClassifier(g, a, c) ELSE 0
        j2 == ManagedSameClassifier(g, a, c)
    IN  IF j1 # 0 THEN managed[j1][3]
        ELSE IF j2 = 0 THEN None
        ELSE IF Len(managed[j2]) < 3 THEN ManagedIndexError
        ELSE managed[j2][3]

\* Mutant: a dependency with neither a version nor a managed one keeps None.
FinalVersionKeepNull(v, mv) ==
    IF v = None /\ mv # None THEN mv
    ELSE IF IsPlaceholder(v) THEN GetPropertyValue(v, DirectProps, EmptyMap, FALSE)
    ELSE v

\* final_version (lines 296-304)
FinalVersion(v, mv) ==
    IF v = None /\ mv # None THEN mv
    ELSE IF IsPlaceholder(v) THEN GetPropertyValue(v, DirectProps, EmptyMap, FALSE)
    ELSE IF v = None THEN NAManaged
    ELSE v

-----------------------------------------------------------------------------
(* Classification helpers *)

ExcludedScopes == {"test", "provided"}

\* Mutant: the test configurations are compared.
SkippedConfigsNoTest == {"compileOnly", "antlr"}

\* config.lower() ends with "testimplementation", or is "compileonly" or
\* "antlr"
SkippedConfigs == {"testImplementation", "compileOnly", "antlr"}

\* Mutant: the fallback search compares whole keys, not group:artifact.
Pass1GradleMatchExact(k) == SelectInSeq(gradle, LAMBDA e : e.key = k)

Pass1GradleMatch(k) == FirstGA(gradle, k)

\* Mutant: the Gradle version is read from the Maven key's parts.
Pass1MismatchSameSide(mk, gk) ==
    [key |-> mk, maven |-> Part3(mk), gradle |-> Part3(mk)]

Pass1Mismatch(mk, gk) == [key |-> mk, maven |-> Part3(mk), gradle |-> Part3(gk)]

\* Mutant: no build-tool exclusion.
OnlyGradleAllowedAll(k) == TRUE

\* not g_key.startswith("org.jetbrains.kotlin") and not ...("org.gradle")
OnlyGradleAllowed(k) == k[1] \notin ToolGroups

-----------------------------------------------------------------------------
\* The state in which the comparison of the pair with parsed data i starts.
PairInit(i) ==
    /\ inp = i
    /\ pc = "managed"
    /\ idx = 1
    /\ managed = <<>> /\ maven = <<>> /\ gradle = <<>>
    /\ missing = {} /\ mismatch = {} /\ only = {}
    /\ crash = NoCrash

Init == \E i \in Inputs : PairInit(i)

\* The step into PairInit(i): the comparison of a new pair starts.
PairStart(i) ==
    /\ inp' = i /\ pc' = "managed" /\ idx' = 1
    /\ managed' = <<>> /\ maven' = <<>> /\ gradle' = <<>>
    /\ missing' = {} /\ mismatch' = {} /\ only' = {}
    /\ crash' = NoCrash

Crash(e) ==
    /\ pc' = "crashed" /\ crash' = e
    /\ UNCHANGED <<inp, idx, managed, maven, gradle, missing, mismatch, only>>

\* One iteration of normalize_dependencies over dependency_management.
NormalizeManaged ==
    /\ pc = "managed" /\ idx <= Len(inp.managedIn)
    /\ LET d  == inp.managedIn[idx]
           rv == GetPropertyValue(d.v, CombinedProps, inp.pomRoot, TRUE)
       IN  \/ /\ rv = RecursionError
              /\ Crash(RecursionError)
           \/ /\ rv # RecursionError
              /\ managed' = PutKey(managed, DepKey(d.g, d.a, rv, d.c))
              /\ idx' = idx + 1
              /\ UNCHANGED <<inp, pc, maven, gradle, missing, mismatch, only, crash>>

\* One iteration of the loop over maven_direct_deps_list.
ResolveDirect ==
    /\ pc = "direct" /\ idx <= Len(inp.directIn)
    /\ LET d  == inp.directIn[idx]
           mv == ManagedVersion(d.g, d.a, d.c)
           fv == FinalVersion(d.v, mv)
       IN  \/ /\ mv = ManagedIndexError
              /\ Crash(ManagedIndexError)
           \/ /\ mv # ManagedIndexError /\ fv = RecursionError
              /\ Crash(RecursionError)
           \/ /\ mv # ManagedIndexError /\ fv # RecursionError
              /\ maven' = PutEntry(maven, [key |-> DepKey(d.g, d.a, fv, d.c),
                                           scope |-> d.scope])
              /\ idx' = idx + 1
              /\ UNCHANGED <<inp, pc, managed, gradle, missing, mismatch, only, crash>>

\* One iteration of normalize_gradle_dependencies.  A platform name
\* "platform(a)" splits into the single part a, and platform_parts[1]
\* raises IndexError.
NormalizeGradle ==
    /\ pc = "gradle" /\ idx <= Len(inp.gradleIn)
    /\ LET d  == inp.gradleIn[idx]
           rv == GradleResolveVersion(d.v, inp.gradleLocal, inp.gradleRoot)
       IN  \/ /\ d.g = None
              /\ idx' = idx + 1
              /\ UNCHANGED <<inp, pc, managed, maven, gradle, missing, mismatch, only, crash>>
           \/ /\ d.g # None /\ d.name \in PlatformNames
              /\ Crash(PlatformIndexError)
           \/ /\ d.g # None /\ d.name \in Artifacts
              /\ gradle' = PutEntry(gradle, [key |-> DepKey(d.g, d.name, rv, None),
                                             config |-> d.config])
              /\ idx' = idx + 1
              /\ UNCHANGED <<inp, pc, managed, maven, missing, mismatch, only, crash>>

\* One iteration of the Maven -> Gradle pass.
Pass1 ==
    /\ pc = "pass1" /\ idx <= Len(maven)
    /\ idx' = idx + 1
    /\ UNCHANGED <<inp, pc, managed, maven, gradle, only, crash>>
    /\ LET e == maven[idx]
           j == Pass1GradleMatch(e.key)
       IN  \/ /\ e.scope \in ExcludedScopes \/ e.key \in Keys(gradle)
              /\ UNCHANGED <<missing, mismatch>>
           \/ /\ e.scope \notin ExcludedScopes /\ e.key \notin Keys(gradle)
              /\ j # 0
              /\ mismatch' = IF e.key \in MismatchKeys THEN mismatch
                             ELSE mismatch \cup {Pass1Mismatch(e.key, gradle[j].key)}
              /\ UNCHANGED missing
           \/ /\ e.scope \notin ExcludedScopes /\ e.key \notin Keys(gradle)
              /\ j = 0
              /\ missing' = missing \cup {e.key}
              /\ UNCHANGED mismatch

\* One iteration of the Gradle -> Maven pass.
Pass2 ==
    /\ pc = "pass2" /\ idx <= Len(gradle)
    /\ idx' = idx + 1
    /\ UNCHANGED <<inp, pc, managed, maven, gradle, missing, crash>>
    /\ LET e == gradle[idx]
           j == FirstGA(maven, e.key)
       IN  \/ /\ \/ e.key[1] = ProjectGroup
                 \/ e.config \in SkippedConfigs
                 \/ e.key \in Keys(maven)
              /\ UNCHANGED <<mismatch, only>>
           \/ /\ e.key[1] # ProjectGroup /\ e.config \notin SkippedConfigs
              /\ e.key \notin Keys(maven)
              /\ j # 0
              /\ mismatch' =
                   IF /\ e.key \notin MismatchKeys
                      /\ maven[j].key \notin MismatchKeys
                      /\ Part3(maven[j].key) # Part3(e.key)
                   THEN mismatch \cup {[key |-> e.key, maven |-> Part3(maven[j].key),
                                        gradle |-> Part3(e.key)]}
                   ELSE mismatch
              /\ UNCHANGED only
           \/ /\ e.key[1] # ProjectGroup /\ e.config \notin SkippedConfigs
              /\ e.key \notin Keys(maven)
              /\ j = 0
              /\ only' = IF OnlyGradleAllowed(e.key) THEN only \cup {e.key} ELSE only
              /\ UNCHANGED mismatch

PhaseAfter == [managed |-> "direct", direct |-> "gradle", gradle |-> "pass1",
               pass1 |-> "pass2", pass2 |-> "done"]

PhaseLength ==
    [managed |-> Len(inp.managedIn), direct |-> Len(inp.directIn),
     gradle |-> Len(inp.gradleIn), pass1 |-> Len(maven), pass2 |-> Len(gradle)]

\* A loop has run out of elements: the next statement of main() starts.
NextPhase ==
    /\ pc \in DOMAIN PhaseAfter
    /\ idx > PhaseLength[pc]
    /\ pc' = PhaseAfter[pc]
    /\ idx' = 1
    /\ UNCHANGED <<inp, managed, maven, gradle, missing, mismatch, only, crash>>

\* The pair is compared (its result appended) or the program has died.
Terminated ==
    /\ pc \in {"done", "crashed"}
    /\ UNCHANGED vars

Next ==
    \/ NormalizeManaged
    \/ ResolveDirect
    \/ NormalizeGradle
    \/ Pass1
    \/ Pass2
    \/ NextPhase
    \/ Terminated

Spec == Init /\ [][Next]_vars

-----------------------------------------------------------------------------
(* Types *)

\* A managed entry taken without a version supplies its classifier as the
\* version of a direct dependency (m_parts[2] of "g:a:classifier").
VersionToken == Text \cup Classifiers \cup {NAManaged}

\* The keys DepKey can build: a version part when the version is set, a
\* classifier part when the classifier is set.
ManagedKey ==
    {<<g, a>> : g \in Groups, a \in Artifacts}
    \cup {<<g, a, x>> : g \in Groups, a \in Artifacts, x \in Text \cup Classifiers}
    \cup {<<g, a, v, c>> : g \in Groups, a \in Artifacts, v \in Text, c \in Classifiers}
MavenKey ==
    {<<g, a, v>> : g \in Groups, a \in Artifacts, v \in VersionToken}
    \cup {<<g, a, v, c>> : g \in Groups, a \in Artifacts, v \in VersionToken,
                           c \in Classifiers}
GradleKey ==
    {<<g, a>> : g \in Groups \cup {ProjectGroup}, a \in Artifacts}
    \cup {<<g, a, v>> : g \in Groups \cup {ProjectGroup}, a \in Artifacts, v \in Text}

Phases == {"managed", "direct", "gradle", "pass1", "pass2", "done", "crashed"}
Crashes == {NoCrash, RecursionError, ManagedIndexError, PlatformIndexError}

TypeOK ==
    /\ inp \in Input
    /\ pc \in Phases
    /\ idx \in Nat \ {0}
    /\ managed \in Seq(ManagedKey)
    /\ maven \in Seq([key : MavenKey, scope : Scopes])
    /\ gradle \in Seq([key : GradleKey, config : Configs])
    /\ missing \subseteq MavenKey
    /\ mismatch \subseteq [key : MavenKey \cup GradleKey,
                           maven : VersionToken \cup {NAVersion},
                           gradle : VersionToken \cup {NAVersion}]
    /\ only \subseteq GradleKey
    /\ crash \in Crashes

-----------------------------------------------------------------------------
(* Properties *)

HasGAPartner(d, k) == \E i \in 1..Len(d) : GA(d[i].key) = GA(k)

AfterDirect == {"gradle", "pass1", "pass2", "done"}

\* Pass 1 (lines 328-355) classifies every Maven dependency of a comparable
\* scope exactly once: reconciled when Gradle has its key, a version
\* mismatch when Gradle has its group:artifact under another key, missing
\* otherwise; test and provided dependencies are reported in neither map.
MavenSideClassified ==
    pc = "done" =>
        /\ missing \subseteq Keys(maven)
        /\ \A i \in 1..Len(maven) :
             LET e == maven[i] IN
             IF e.scope \in ExcludedScopes \/ e.key \in Keys(gradle)
             THEN e.key \notin missing \cup MismatchKeys
             ELSE IF HasGAPartner(gradle, e.key)
             THEN e.key \in MismatchKeys /\ e.key \notin missing
             ELSE e.key \in missing /\ e.key \notin MismatchKeys

\* Pass 2 (lines 359-400) reports a Gradle dependency as present only in
\* Gradle exactly when it is not a project dependency, its configuration is
\* compared, Maven has neither its key nor its group:artifact, and its group
\* is not a Kotlin or Gradle build-tool group (spec section 8, scenario D).
GradleSideClassified ==
    pc = "done" =>
        /\ only \subseteq Keys(gradle)
        /\ \A i \in 1..Len(gradle) :
             LET e == gradle[i] IN
             e.key \in only <=>
                 /\ e.key[1] \notin ToolGroups \cup {ProjectGroup}
                 /\ e.config \notin SkippedConfigs
                 /\ e.key \notin Keys(maven)
                 /\ ~ HasGAPartner(maven, e.key)

\* A reported version mismatch never records the same version on both sides,
\* although pass 1 records one without comparing the versions.
MismatchDiffers == \A r \in mismatch : r.maven # r.gradle

\* The spec's layered lookup (section 4.1): the nearest scope that declares
\* the key, local before parent before root, chased through placeholders.
LayeredValue(k) ==
    IF inp.pomLocal[k] # Absent THEN inp.pomLocal[k]
    ELSE IF inp.pomParent[k] # Absent THEN inp.pomParent[k]
    ELSE inp.pomRoot[k]

LayeredResolve(ref) ==
    LET chase[i \in 0..Cardinality(Names)] ==
            IF i = 0 THEN ref
            ELSE LET prev == chase[i - 1]
                 IN  IF IsPlaceholder(prev) /\ LayeredValue(prev.s) \in Text
                     THEN LayeredValue(prev.s) ELSE prev
    IN  chase[Cardinality(Names)]

\* A direct dependency whose version is a placeholder is keyed by the value
\* the layered lookup gives (spec section 8, layering precedence), once the
\* direct dependencies are all resolved (lines 299-300).
DirectVersionLayered ==
    pc \in AfterDirect =>
        \A i \in 1..Len(inp.directIn) :
            LET d == inp.directIn[i] IN
            IsPlaceholder(d.v) =>
                DepKey(d.g, d.a, LayeredResolve(d.v), d.c) \in Keys(maven)

\* No property chain makes get_property_value recurse without end (spec
\* sections 4.1, 7 and 9: resolution is bounded and never fatal).
NoRecursionError == crash # RecursionError

\* A managed entry without a version never makes the direct-dependency
\* lookup index past the end of its key (line 292).
NoManagedIndexError == crash # ManagedIndexError

\* A platform(...) Gradle dependency is normalised without an exception
\* (lines 163-171 reading what parse_gradle.py lines 90-98 write).
NoPlatformIndexError == crash # PlatformIndexError

\* A direct dependency without a version takes the version of the managed
\* entry with its group:artifact and no classifier (spec sections 4.2 and 8,
\* managed-version fallback and classifier isolation).
ManagedVersionApplied ==
    pc \in AfterDirect =>
        \A i \in 1..Len(inp.directIn) :
            LET d == inp.directIn[i]
                Pins == {m \in Range(inp.managedIn) :
                            m.g = d.g /\ m.a = d.a /\ m.c = None /\ m.v \in Text}
            IN  d.v = None /\ d.c = None /\ Pins # {} =>
                    \E m \in Pins :
                        DepKey(d.g, d.a,
                               GetPropertyValue(m.v, CombinedProps, inp.pomRoot, TRUE),
                               None) \in Keys(maven)

\* A managed entry whose version is a placeholder is keyed by the same
\* layered lookup as a direct dependency's placeholder (spec section 4.1):
\* normalize_dependencies merges root under parent and local and passes root
\* once more as all_pom_properties (lines 62-66, 81-82), and the two
\* resolutions of one ${k} in one pom must agree.
ManagedVersionLayered ==
    pc \in {"direct"} \cup AfterDirect =>
        \A i \in 1..Len(inp.managedIn) :
            LET m == inp.managedIn[i] IN
            IsPlaceholder(m.v) =>
                DepKey(m.g, m.a, LayeredResolve(m.v), m.c) \in Range(managed)

\* A literal version is never resolved as a property name (spec section 8,
\* idempotence of resolution), here for the managed entries that
\* normalize_dependencies resolves (line 82).
LiteralVersionKept ==
    pc \notin {"managed", "crashed"} =>
        \A m \in Range(inp.managedIn) :
            m.v \in Text /\ m.v.kind = "lit" =>
                DepKey(m.g, m.a, m.v, m.c) \in Range(managed)

\* A Gradle version "${k}" is resolved through the local, then the root
\* extra properties (spec section 4.1, Gradle variant).
GradleLayered(k) ==
    IF inp.gradleLocal[k] \in Text THEN inp.gradleLocal[k] ELSE inp.gradleRoot[k]

GradlePlaceholderResolved ==
    pc \in {"pass1", "pass2", "done"} =>
        \A i \in 1..Len(inp.gradleIn) :
            LET d == inp.gradleIn[i] IN
            /\ d.g # None /\ d.name \in Artifacts /\ IsPlaceholder(d.v)
            /\ GradleLayered(d.v.s) \in Text
            => DepKey(d.g, d.name, GradleLayered(d.v.s), None) \in Keys(gradle)

\* A group:artifact is reported as a version mismatch at most once: the spec
\* keys version mismatches by group:artifact and has pass 2 skip a pair that
\* pass 1 recorded, while the code keys them by the full Maven/Gradle key.
MismatchGAUnique ==
    \A r1, r2 \in mismatch : GA(r1.key) = GA(r2.key) => r1 = r2

\* Every direct Maven dependency of a comparable scope that Gradle does not
\* declare under the same key is reported, as missing or as a mismatch
\* (spec section 8, three-way classification completeness).
ComparableDepsReported ==
    pc = "done" =>
        \A i \in 1..Len(inp.directIn) :
            LET d == inp.directIn[i]
                k == DepKey(d.g, d.a, FinalVersion(d.v, ManagedVersion(d.g, d.a, d.c)),
                            d.c)
            IN  d.scope \notin ExcludedScopes =>
                    k \in Keys(gradle) \cup missing \cup MismatchKeys
-----------------------------------------------------------------------------
(* Refinement of the abstract classification *)

\* The abstract phase: the sides are being resolved while one of the first
\* three loops runs, resolved while the passes run, classified at the end.
AbsPhase ==
    IF pc \in {"managed", "direct", "gradle"} THEN "resolving"
    ELSE IF pc \in {"pass1", "pass2"} THEN "resolved"
    ELSE IF pc = "done" THEN "classified"
    ELSE "crashed"

AbsResolved == AbsPhase \in {"resolved", "classified"}

Abstract == INSTANCE Classification WITH
    phase      <- AbsPhase,
    mavenDeps  <- IF AbsResolved THEN maven ELSE <<>>,
    gradleDeps <- IF AbsResolved THEN gradle ELSE <<>>,
    missing    <- IF pc = "done" THEN missing ELSE {},
    mismatch   <- IF pc = "done" THEN mismatch ELSE {},
    only       <- IF pc = "done" THEN only ELSE {},
    NoVersion  <- NAVersion

\* The two passes, entry by entry in dict order (lines 328-400), compute the
\* reports that the set-level classification of spec section 4.4 allows
\* for the dicts the first three loops built.
ClassificationRefined == Abstract!Spec
=============================================================================
