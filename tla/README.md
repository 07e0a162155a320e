# TLA+ models of the Maven/Gradle dependency comparison

This directory holds a formal model of `src/compare_dependencies.py`, together with the shapes of the data that `src/parse_pom.py` and `src/parse_gradle.py` produce for it and the property loops of `parse_gradle.py`. It contains:

- modules for the comparison of one file pair, the `main()` loop over all files, and the Gradle property scraper;
- abstract specifications of what the comparison of a pair and the loop of `main()` promise, with the step-by-step models shown to implement them;
- TLC configurations that model-check the model on small instances;
- TLAPS proofs, valid for every value of the constants, of type correctness, of the classification invariants of both passes, of the refinement of both abstract specifications, of type correctness and classification in `main()`, and of type correctness and the ranked precedence of the Gradle property loops.

## The system

The program is a sequential batch script with three parts.

1. **Parsers.**
   - `parse_pom.py` turns each `pom.xml` into a record of properties, direct dependencies, dependency-management entries and parent coordinates.
   - `parse_gradle.py` turns each `build.gradle.kts` into a record of extra properties and dependencies. It writes a `project.ext["k"]` reference as `${k}`, a `project(":m")` dependency with group `project`, and a `platform("g:a:v")` dependency with the name `platform(a)`.
   - Both parsers emit JSON.
2. **Resolvers.**
   - `get_property_value` resolves a Maven `${k}` through a local map, then a global map. It recurses on a placeholder value.
   - `get_gradle_project_property` and the version lookup of `normalize_gradle_dependencies` do the same for Gradle.
3. **Comparator.** `main()` handles each `pom.xml` that has a `build.gradle.kts` in the same directory. For each pair it runs five loops in order:
   - normalise the dependency-management section into `g:a[:v][:c]` keys;
   - resolve every direct dependency, against those keys or the merged properties;
   - normalise the Gradle dependencies;
   - **pass 1**: each Maven key is reconciled, a version mismatch or missing in Gradle;
   - **pass 2**: each Gradle key is reconciled, a mismatch or only in Gradle.

   The pair's three reports are then appended to the results, and the results are written to a JSON file.

Nothing runs concurrently, and nothing is persisted between runs. The hard parts are elsewhere:

- the order of dict merges and dict iteration;
- the string shape of keys, split again on `:`;
- recursion through property maps;
- the way the two passes coordinate through the shared `version_mismatch` dict.

## Modules

| Module | Models | Source |
|---|---|---|
| `PropertyResolution` | Text values, property maps, `dict.get`, `{**lo, **hi}`, `get_property_value`, `get_gradle_project_property`, the Gradle version lookup | `compare_dependencies.py` 16-49, 52-66, 103-135, 151-158 |
| `ComparePair` | The comparison of one pair: the five loops as actions | `compare_dependencies.py` 244-400, 421-427 |
| `Classification` | The abstract promise of one pair: the three reports as sets over the two resolved dicts | spec §4.4 |
| `CompareMain` | `main()`: empty input, root properties, the loop over `pom_data`, Gradle pairing, parent lookup, the report; each pair's comparison is `ComparePair` | `compare_dependencies.py` 192-243, 421-432; `parse_pom.py` 74-96 |
| `MainLoop` | The abstract promise of `main()`: each pom visited once in order, one report per paired pom, the list written after the last | spec §6, §7 |
| `GradleProperties` | The three property loops of `parse_gradle_kts` | `parse_gradle.py` 16-17, 37-79 |
| `MC_ComparePair`, `MC_CompareMain`, `MC_GradleProperties` | TLC instances: small constant sets and the input sets of each run | — |
| `ComparePairProofs` | TLAPS proofs of type correctness and of `MismatchDiffers` | — |
| `ClassificationProofs` | TLAPS proofs of `ClassInv`, `MavenSideClassified`, `GradleSideClassified` and the refinement `ClassificationRefined` | — |
| `CompareMainProofs` | TLAPS proofs of `MainTypeOK`, of the classification of every pair `main()` compares, and of the refinement `MainLoopRefined` | — |
| `GradlePropertiesProofs` | TLAPS proof of `RankedPrecedence` | — |

### PropertyResolution

- **Values.**
  - A version or property value is a *text*: `Lit(s)` for plain text or `Ph(s)` for `${s}`, over a finite set `Names`. Texts are records.
  - `None`, `Absent` (a missing key) and `Null` are model values. `Null` is a key whose XML element is empty, so its `.text` is `None`.
  - `Get` is `dict.get`, which returns `None` for both `Absent` and `Null`. `Merge(lo, hi)` is `{**lo, **hi}`.
- **`GetPropertyValue`.**
  - The recursion is a function `chain` over `0..CallBound`. Each entry is a pending call (reference, which map is searched, whether `all_pom_properties` was passed) or a returned value. `PropertyStep` is one activation of lines 24-49.
  - The calls are deterministic, and there are at most `3 * |Text|` distinct pending calls. A chain that has not returned after `CallBound = 3*|Text|+1` steps therefore repeats a call and never returns. CPython turns that into `RecursionError`.
  - This is a recursive *function*, not a `RECURSIVE` operator, so the module stays usable by TLAPS.
  - Each entry is `resume[chain[i-1]]`. `resume` is a function over the finite set of calls and returns, so the chain costs linear time even where TLC does not cache `LET` values, as when it evaluates a liveness property.
- **`GetGradleProjectProperty`.**
  - Only `project.ext["k"]` texts are stripped to `k`. Neither parser ever outputs that form, so a `${k}` reference is looked up under `${k}` itself, which is never a key, and falls through.
  - This makes the code's recursive call on a placeholder value return that value unchanged, so the model returns the map's value.

### ComparePair

**State.**

| Variable | Holds |
|---|---|
| `inp` | The pair's parsed data, constant during a run: the local, parent and root pom properties, the management and direct dependencies, the local and root Gradle properties, the Gradle dependencies |
| `pc` | Which loop runs, or `done` / `crashed` |
| `idx` | The loop index |
| `managed` | The keys of `maven_managed_deps` |
| `maven` | `resolved_maven_deps`, as entries of key and scope |
| `gradle` | `gradle_deps`, as entries of key and config |
| `missing`, `mismatch`, `only` | The three reports |
| `crash` | The uncaught exception, if any |

**Data conventions.**

- A key is the sequence of its parts. `DepKey` is the `":".join`, and indexing the sequence is `split(':')[i]`.
- A Python dict is a sequence of entries in insertion order. `PutEntry` is `d[k] = v`: an existing key keeps its place and takes the new value.
- `SelectInSeq` (SequencesExt) is the loop with `break`: the first entry in dict order that matches.

**Actions.** One per loop iteration, each the whole loop body:

| Action | Source |
|---|---|
| `NormalizeManaged` | lines 68-101 |
| `ResolveDirect` | lines 257-313, including `ManagedVersion` (264-293) and `FinalVersion` (296-304) |
| `NormalizeGradle` | lines 142-188 |
| `Pass1` | lines 328-355 |
| `Pass2` | lines 358-400 |

- `NextPhase` is the end of a loop, and `Terminated` is the end of the pair.
- An iteration that raises goes to `crashed`: a `RecursionError`, or an `IndexError` at line 292 or line 169. Nothing in the program catches these.
- The `if`/`elif` chains of the code are `IF ... ELSE IF` chains, in the code's order.

### Classification and the refinement

`Classification` has the two dicts and the three reports as its variables and three actions:

- `Resolve` yields any two dicts;
- `Classify` fixes the reports in one step: `MissingSet`, `OnlySet`, and one of `MismatchSets`, one for each choice of group:artifact partner, since the spec leaves the first-match order open;
- `Fail` is an exception while resolving.

It names its own exclusion sets (`NotComparedScopes`, `NotComparedConfigs`), so a change to the code's sets is caught. At the end of `ComparePair`, the refinement mapping (`AbsPhase`, `AbsResolved`) shows the following:

- the loops map to `resolving`;
- the two passes map to `resolved`, with the dicts now visible;
- `done` maps to `classified`, with the reports visible;
- `crashed` maps to `crashed`.

`ClassificationRefined == Abstract!Spec` is checked as a temporal property. Every step of the passes is then a stutter of the abstract spec, and the step to `done` is `Classify`.

### CompareMain

It extends `ComparePair`: the pair's variables are a part of its state.

| Variable | Holds |
|---|---|
| `poms`, `gradles` | `pom_data`, `gradle_data`: sequences of file records (`PomInfo`, `GradleInfo`) |
| `mpc` | `start`, `loop`, `pair`, `exit`, `crashed`, `done` |
| `pi` | The index of the current `pom_info` |
| `rootProps`, `rootGradle` | `root_pom_properties`, `root_gradle_properties` |
| `pair`, `results` | The current pair's file names; `comparison_results` |

**Paths.**

- A path string is a sequence of `/`-separated segments, and a segment is a sequence of chunks: names, `pom.xml`, `build.gradle.kts` and `.`. So `..` is the segment `<<".", ".">>`, and `pom.xml-tools` is `<<"pom.xml", tools>>`.
- `ReplacePom` is `str.replace('pom.xml', 'build.gradle.kts')`, applied to every chunk, the directories' included.
- `DirName`, `JoinPath` and `NormPath` (a `FoldLeft` of `NormStep`) are `os.path.dirname`, `join` and `normpath` on relative paths.
- The properties compare these with an independent reference, a walk of places (`WalkFrom`) from a fixed base directory.

**Actions.**

| Action | Source |
|---|---|
| `MainInit` | The loaded lists. An empty list is also what `load_json_file` returns on error |
| `EmptyInput` | 196-198 |
| `LoadRoots` | 200-211 |
| `SkipPom` | 215-226 |
| `StartPair` | 215-241, with `ParentProps` (230-241); it starts `ComparePair` on `PairData` |
| `PairStep` | One `ComparePair` step |
| `PairDone` | The append (421-427) |
| `PairCrashed` | An uncaught exception leaving `main()` |
| `WriteReport` | `json.dump` (430-432) |

**`MainLoop` and the refinement.** `MainLoop` has the variables `poms`, `gradles`, `status`, `next` and `reports`, and the actions `Quit`, `Begin`, `Compare` (a paired pom's report appended in one step), `Skip`, `Fail` (the comparison of a paired pom raises) and `Write`. A pom is paired when a loaded Gradle file has the name `GradleFileOf` gives. `CompareMain` instantiates it as `Loop` with `GradleFileOf <- ReplacePom`, `status` the `mpc` with `pair` seen as `loop`, `next <- pi`, and `reports` the pom and Gradle file of each result. `StartPair` and every step of a pair are stutters; `PairDone` is `Compare` and `PairCrashed` is `Fail`. `MainLoopRefined == Loop!Spec` is checked in the `main` run; its mutant `PairCrashedContinue` catches the exception of a pair and goes on, which drops a paired pom from the reports.

### GradleProperties

A script is abstracted to the sequence of its property statements: `set("k","v")`, `set("k", project.ext["v"])`, `val k = "v"`, `val k = project.ext["v"]` and `k = "v"`, each tagged with the `ext { }` block it is in, or 0 for none.

- `InPass(pass, s)` says that the pattern of a pass matches statement `s`. The third pass matches only items of the first block, because `.search` finds one (`HasExtBlock`, `BlockItem`).
- `idx` is the position in the script where the current `finditer` goes on. `NextMatch(pass, idx)` is the position of its next match, the least one at or after `idx`, or one past the end.
- `ApplyMatch` is one loop body: `properties[key] = value` for that match, where `${v}` stands for a reference, and the scan goes on after it.
- `EndPass` moves to the next loop.

Values are plain names without quotes or braces, so every pattern that reaches a statement matches it whole.

## Properties and runs

Runs in `MC_ComparePair`: The constants are:

- names `n1, n2` (property keys) and `v1, v2` (version texts);
- an ordinary group `g1`, a build-tool group `kt`, the artifact `a1` and the classifier `c1`;
- scopes `compile`, `test` and none, and configs `implementation` and `testImplementation`.

Each run chooses its set of inputs `Inputs`.

| Run | Inputs | Checks | Result |
|---|---|---|---|
| `classify` | Up to 2 direct Maven deps (version none/v1/v2, scope compile/test) × up to 2 Gradle deps (group g1/kt/project, none/v1/v2, both configs, plus a platform and a group-less one) × management empty/versioned/versionless | `TypeOK`, `MavenSideClassified`, `GradleSideClassified`, `MismatchDiffers`, `ClassificationRefined` | pass, 539,036 states |
| `resolve` | All local × parent × root maps over `n1, n2` with values absent/empty/v1/v2/`${n1}`/`${n2}`; a direct dep `${n1}`; management empty or `${n2}` | `DirectVersionLayered` | pass, 594,446 states |
| `recursion` | as `resolve` | `NoRecursionError` | violated |
| `managed_index` | as `classify` | `NoManagedIndexError` | violated |
| `platform_index` | as `classify` | `NoPlatformIndexError` | violated |
| `managed_classifier` | Management of up to 2 entries with or without version and classifier, one versionless direct dep | `ManagedVersionApplied` | violated |
| `literal_version` | A managed literal version `n1` against local maps that may define `n1` | `LiteralVersionKept` | violated (extra cfg) |
| `gradle_placeholder` | A Gradle dep `${n1}` / `n1` / `v1` against local and root extra properties | `GradlePlaceholderResolved` | violated |
| `mismatch_twice` | as `classify` | `MismatchGAUnique` | violated (extra cfg) |
| `hidden_dep` | as `classify` | `ComparableDepsReported` | violated (extra cfg) |
| `managed_layered` | as `resolve` | `ManagedVersionLayered` | violated (extra cfg) |

Runs in `MC_CompareMain`. The poms are `fe/pom.xml`, `fe/core/pom.xml` and `fe/core/sub/pom.xml`, each declaring `g1:a1:${n1}`:

- the root defines `n1 = v1` and core `n1 = v2`, so the version a key gets shows which parent scope its pom was given;
- `sr:srfe` stands for `com.starrocks:starrocks-fe`.

| Run | Inputs | Checks | Result |
|---|---|---|---|
| `main` | The three poms in both orders; each parent element core and sub can have (none, root or core coordinates, relativePath absent, `../pom.xml`, `..`, `./../pom.xml`, `../../pom.xml`, `../../core/pom.xml`); all, one or no Gradle files; also poms whose comparison raises | `MainTypeOK`, `ParentScopeByPath`, `MainLoopRefined` | pass, 4,302 states |
| `gradle_dir` | A pom under `fe/pom.xml-tools/` | `PairsCompared` | violated (extra cfg) |
| `parent_default` | as `main`, without the raising poms | `ParentScopeInherited` | violated |
| `root_location` | The files listed from inside `fe/` | `RootScopeIsTopPom` | violated (extra cfg) |
| `batch_abort` | A core pom that raises `IndexError`, before or after sub | `ReportWritten` | violated |

The rows marked *extra cfg* are further counterexamples, outside the twelve runs of `PROJECT.json`. Each has a configuration of its own in this directory, and its hazard in `PROJECT.json` names it. Their properties are not checked by `main`: every input of `main` lists the files from the repository root, and no directory name in it contains `pom.xml`. On those inputs `PairsCompared` would only repeat `MainLoopRefined`, and `RootScopeIsTopPom` would only restate the root-properties assignment. The other rows are the runs, with their findings.

Runs in `MC_GradleProperties`: every script of up to three statements about the key `k1`, with value `x1` or `k1`, outside any ext block or in the first or second one (89,606 states).

| Run | Checks | Result |
|---|---|---|
| `props` | `RankedPrecedence` | pass |
| `property_order` | `LastDefinitionWins` | violated |

### What the passing properties say

- **`MavenSideClassified`.** At the end of the pair, every Maven entry is in exactly the report its scope and the Gradle keys give it:
  - test and provided entries, and exact key matches, are in neither report;
  - an entry whose group:artifact Gradle has under another key is a mismatch only;
  - every other entry is missing only.
- **`GradleSideClassified`.** An entry is reported only in Gradle exactly when all of these hold:
  - it is not a project dependency;
  - its config is compared;
  - Maven has neither its key nor its group:artifact;
  - its group is not a build-tool group.
- **`MismatchDiffers`.** No mismatch has the same version on both sides. Pass 1 records a mismatch without comparing versions, so this rests on the shapes of the keys.
- **`DirectVersionLayered`.** A direct dependency `${k}` is keyed by the spec's layered lookup: the nearest scope that declares `k`, local before parent before root, chased through placeholders. It covers empty (`Null`) properties, which hide outer scopes in both the code and the lookup.
- **`ClassificationRefined`.** The comparison implements the abstract spec. The reports are exactly these sets:
  - `missing`: the comparable Maven keys with no Gradle partner;
  - `only`: the compared Gradle keys with no Maven partner, outside the build-tool groups;
  - `mismatch`: one of the abstract spec's mismatch sets for some choice of first partners.
- **`ParentScopeByPath`.** When a parent's `relativePath`, walked from the pom's directory, reaches a loaded pom, that pom's properties are the parent scope.
- **`MainLoopRefined`.** `main()` implements `MainLoop`: every pom of `pom_data` is visited once and in order; each pom whose `str.replace`d name is a loaded Gradle file gets exactly one report, for that file, and the others none; the list is written only after the last pom; an exception in a pair ends the program with nothing written.
- **`ReportWritten`** (violated in `batch_abort`). The stronger claim of spec §7, that the report is always written.
- **`RankedPrecedence`.** The property dict of a script is fixed by the form of each definition:
  - an item of the first ext block beats any `val`;
  - a `val` beats any `set`;
  - the last one wins within a rank;
  - the value is the one the statement defines, as the resolution rule of spec §3 reads it: a `project.ext["v"]` reference is kept as the indirection `${v}`. Its second mutant stores the bare `v`, and the resolver would then take it as a literal.

`GradleProperties` keeps its `TypeOK`, which the proofs use, but no run checks it. Any value the loops could store, `v` or `${v}`, is text, so it would not tell a right dict from a wrong one.
- **`TypeOK`.** Every key has one of the shapes the joins build, and every report holds values of the key parts. Its mutant shows it is not vacuous: a versionless, unmanaged dependency that keeps `None` produces a two-part Maven key.

### What the violations show

Each violation run checks one statement of `spec.md`, or of the code's own comments, that the code does not satisfy. They are listed under `findings` in `PROJECT.json`:

- a property cycle ends the program with `RecursionError`;
- a versionless managed entry makes the lookup of a versionless direct dependency index past the end of the key (line 292);
- every `platform(...)` Gradle dependency raises `IndexError` (line 169 against parse_gradle.py:98);
- a versionless managed entry with a classifier gives a direct dependency its classifier as version (line 290);
- a literal version that equals a property name is replaced (line 31);
- Gradle `${k}` versions are never resolved (line 117);
- one group:artifact is reported twice as a mismatch (lines 343 and 381);
- a compile dependency is hidden by a test declaration of the same key (line 313);
- a managed `${k}` falls through an empty `<k/>` to the root value through `all_pom_properties`, while a direct `${k}` stays unresolved (lines 65 and 82);
- a pom under a directory whose name contains `pom.xml` is never compared (line 220);
- a parent element without `relativePath`, Maven's default `../pom.xml`, or with a directory `..`, gives no parent scope (lines 232-236);
- with the files listed from inside `fe/`, no pair gets root properties (line 203);
- an exception in one pair loses the report of every pair (lines 215 and 430), where spec §7 says a bad pair never aborts the batch;
- parse_gradle gives a property redefined later in the script an earlier value, and ignores every ext block after the first (parse_gradle.py 57-78).

### Bounds

Two values per side and two keys are enough for every branch:

- each dict has a collision, a group:artifact twin and a distinct entry;
- the property maps have a self-cycle, a two-step chain, an empty value and a shadowing value in each scope.

Every action and every disjunct fires in the passing runs. With one artifact, every pair of entries shares a group:artifact, which is the case pass 1 and pass 2 have to coordinate on. The versions a key can hold stay separate: `v1`, `v2`, `N/A (managed…)` and classifiers.

`MC_CompareMain` has three poms, so a pom can have a grandparent, and `..` and `../../` are both in play. The parent elements cover:

- each `relativePath` form;
- the root-coordinates fallback;
- a parent outside the loaded files.

The Gradle lists include a missing file, so `SkipPom` fires, and the poms come in both orders. The scripts of `MC_GradleProperties` have three statements, the fewest that can place a definition before, inside and after an ext block.

### Fairness

`ComparePair` and `GradleProperties` assume none, and check only safety. Each of their loops runs over a finite sequence, and the deadlock check stays on: `Terminated` and `Returned` stutter only at the end.

`CompareMain`'s `MainSpec` has `WF_allVars(MainNext)`. The program is one thread that keeps running until `main()` returns or raises, so as long as a step is possible one is taken. No process, lock or input can hold it back.

Weak fairness of the whole next-state relation is exactly that. It adds nothing the code does not guarantee: `MainFinished` is a stutter, so fairness cannot be met by looping at the end.

## Proofs

Four modules hold the proofs. Each is checked by `tlapm <module>.tla`, and every obligation is proved:

| Module | Obligations | Theorems |
|---|---|---|
| `ComparePairProofs` | 434 | `TypeCorrect`, `MismatchesDiffer` |
| `ClassificationProofs` | 586 | `ClassInvariant`, `MavenSideCorrect`, `GradleSideCorrect`, `ClassificationRefinement` |
| `CompareMainProofs` | 284 | `MainTypeCorrect`, `MainPairsClassified`, `MainRefinesLoop` |
| `GradlePropertiesProofs` | 230 | `RankedPrecedenceHolds` |

Every invariant proof has the same layout: a lemma `Init => Inv`, a lemma `Inv /\ [Next]_vars => Inv'` with one step (or one lemma) per action, and a `PTL` step that combines them.

### `TypeCorrect: Spec => []TypeOK`

`TypeOK` is inductive as it stands. `InitTypeOK` and `NextTypeOK` have one step per action, and they rest on these lemmas:

| Lemma | Shows |
|---|---|
| `MinNat` | A non-empty set of naturals has its `Min` as an element (from `WFMin` and `NatLessThanWellFounded`) |
| `FirstGAType`, `ManagedWithClassifierType`, `ManagedSameClassifierType` | The first-match searches return an index of the dict that satisfies the test, or 0 |
| `DepKeyShape` | The four tuples `":".join` can build, via `SeqEqual` |
| `DepKeyManaged`, `DepKeyMaven`, `DepKeyGradle` | The key types |
| `ManagedVersionType`, `FinalVersionType`, `GetPropertyValueType`, `GradleResolveVersionType` | What the resolvers return |
| `PutEntryType`, `PutKeyType` | Dict updates keep their type |

### `MismatchesDiffer: Spec => [](NoDirectClassifier => MismatchDiffers)`

`parse_pom` never writes a classifier for a direct dependency (parse_pom.py 40-45); `NoDirectClassifier` states that. `MismatchDiffers` is not inductive by itself: pass 1 adds a mismatch without comparing versions.

The strengthening `MismatchInv` adds that every resolved Maven key has exactly three parts (`maven \in Seq(ThreePartEntry)`). With it, the pass 1 step goes as follows:

- The Maven key is `g:a:v`. The Gradle key it is paired with has the same group:artifact but is a different key.
- By `DistinctKeysDistinctVersions`, the Gradle key is either `g:a`, whose third part is `N/A`, which is not a version token, or `g:a:w` with `w # v`.
- Pass 2 compares the versions explicitly.

The strengthening was checked first with TLC as an invariant of the `classify` instance: 539,036 states, no violation.

### `ClassInvariant: Spec => []ClassInv`

`MavenSideClassified` and `GradleSideClassified` speak of the state once `pc = "done"`. Neither is inductive: until then the reports hold only part of the answer. `ClassInv` states what they hold at every moment.

- `P1` and `P2` are the numbers of Maven and Gradle entries that pass 1 and pass 2 have processed: `idx - 1` during the pass, the whole dict after it, 0 before it.
- `missing` is the set of keys of the first `P1` Maven entries that are reported (`Reported1`: a compared scope, key not in Gradle) and have no group:artifact partner in Gradle (`Missing1`).
- `mismatch` is a pass-1 record for each reported Maven entry with a partner (`Fallback1`). It also holds a pass-2 record (`Record2`) for each of the first `P2` Gradle entries that is reported, has a partner that pass 1 did not record, and has a different version (`Fallback2`). The partner is always the first match, as `next()` over the dict takes it.
- `only` is the set of keys of the first `P2` reported Gradle entries without a partner, outside the build-tool groups (`Only2`).
- Both dicts have distinct keys (`DistinctKeys`), because `PutEntry` replaces a key in place; and `idx` stays within one past the dict during a pass.

Distinct keys are what make the code's `not in version_mismatch` checks come out as the rules say:

- A Maven key that pass 1 visits is in no earlier record.
- A Gradle key that pass 2 visits is in no earlier record either.
- Its Maven partner is in a record exactly when pass 1 recorded that partner, because the keys of pass-2 records are not Maven keys (`MismatchKeysSplit`).

The step proof has one lemma per kind of step:

| Lemma | Step |
|---|---|
| `ResolutionStep` | The first three loops and their crashes: nothing processed or reported, and the keys stay distinct (`PutEntryDistinct`) |
| `Pass1Step` | `Missing1(idx)` and `Fallback1(idx)` add index `idx` to the `idx - 1` sets exactly in the branch of the code that reports it |
| `Pass2Step` | The same for `Only2` and `Fallback2` |
| `PhaseStep` | A loop that ends leaves `P1` and `P2` unchanged, because `idx` is one past the dict |

They rest on:

- `FirstGAZero`: the group:artifact search returns 0 exactly when there is no partner;
- `DictsUnchanged`: the prefix sets depend only on the two dicts;
- `KeyOfIndexSet`: with distinct keys, a key is among the keys of a set of entries exactly when its index is in the set.

TLC checked `ClassInv` first, as an invariant of the `classify` instance (539,036 states) and of the `resolve` instance (594,446 states), with no violation.

`MavenSideCorrect` and `GradleSideCorrect` follow from `ClassInv` at `pc = "done"` (`ClassInvMavenSide`, `ClassInvGradleSide`).

### `ClassificationRefinement: Spec => ClassificationRefined`

The proof is made of these steps:

- **Init.** The initial state maps to `Abstract!Init` (`RefineInit`).
- **Steps.** `RefineNext` shows that every step maps to an abstract step or to a stutter, given `ClassInv` before and after the step:
  - the iterations of the loops, and the moves between loops other than the two below, are stutters (`RefineStutter`);
  - a crash in the first three loops is `Fail` (`RefineCrash`);
  - the end of `normalize_gradle_dependencies` is `Resolve`, where `IsDict` is `DistinctKeys` (`RefineResolve`);
  - the end of pass 2 is `Classify` (`RefineClassify`).
- **Classify.** Two lemmas carry this step:
  - `AbstractSets` shows that the abstract sets over the two dicts are the images of the index sets of `ClassInv`.
  - `AbstractMismatch` shows that the first-match partners `FirstPartner1` and `FirstPartner2` are a choice that `MismatchSets` allows, and that with them `MismatchFor` is exactly the `mismatch` of `ClassInv`.
- **Combination.** The theorem combines these facts with `ClassInvariant` by `PTL`.

### `MainTypeCorrect` and `MainPairsClassified` (`CompareMainProofs`)

`MainInv` is `MainTypeOK`, plus `ClassInv` of the current pair, plus the strengthening that `pi` indexes `pom_data` while a comparison runs (`PairDone` then moves it at most one past the end). The steps of `main()` keep it as follows:

- `StartPair` starts a comparison from the empty state of a pair. `PairDataType` shows that the data it hands over is an `Input`: the parent properties are those of a loaded pom, the root properties, or empty (`ParentPropsType`, `FileIndexType`).
- `PairStep` is a step of `ComparePair`, so `NextTypeOK` and `NextClassInv` apply.
- Every other step leaves the pair alone.

TLC checked `MainInv` first on the `main` instance (4,302 states, no violation). `MainPairsClassified` states that both classification properties hold throughout `MainSpec`. So the reports `PairDone` appends are those the rules give for each pair.

### `MainRefinesLoop: MainSpec => MainLoopRefined`

The invariant is `LoopInv`: `MainInv` and `PairInv`. `PairInv` says that while a pair is compared, the pom at `pi` has a Gradle file (`GradleIndex(pi) # 0`) and `pair` holds the pom's file and that Gradle file's. Without it, `PairDone` could append a report for some other file, and `PairCrashed` could not be shown to be `Fail`, whose guard is that the pom is paired. TLC checked `PairInv` first on the `main` instance (4,302 states, no violation).

- `GradleIndexPaired`: the search of `gradle_data` finds a file exactly when `MainLoop` pairs the pom, and the file it finds has the `ReplacePom` name. It rests on `FileIndexType`, which now also says that the search returns 0 only when no entry has the file.
- `RefineMainInit`: the initial state is `Loop!Init`.
- `RefineMainNext`: one step per action of `main()`. `EmptyInput`, `LoadRoots`, `SkipPom`, `PairDone`, `PairCrashed` and `WriteReport` are `Quit`, `Begin`, `Skip`, `Compare`, `Fail` and `Write`. The others are stutters. For `PairDone`, the projection of `Append(results, r)` is the `Append` of the projection and `Loop!Report(pi)`.

The abstract specification has no fairness. The one liveness property of `main()`, `ReportWritten` (spec §7), is violated in `batch_abort`.

### `RankedPrecedenceHolds` (`GradlePropertiesProofs`)

The loops used to be modelled over `SelectSeq` lists of the matches, which the provers cannot reason about. They are now a scan, `NextMatch`, that goes from one match of the pattern to the next. Both forms visit the same matches in the same order, and the `props` run reaches the same 89,606 states with either.

`GInv` is the prefix invariant. During pass `p` at position `idx`, every key `k` holds `PassValue(script, p, idx - 1, k)`: the value of its last match of `p` in `1..idx-1` (`ValAt`, through `LastAt`, the `Max` of the matching positions), over what the passes before `p` left for the whole script (`Over`). After the last pass, every key holds `PassValue(script, "block", Len(script), k)`.

- `NextMatchFacts`: the next match is a match, and nothing between the position and it is one (from `MinNat`).
- `LastAtJump` and `PassValueJump`: a match at `j` sets its key and leaves the others (from `MaxBounded`).
- `LastAtEnd` and `PassValueEnd`: a pass without a match after `n` leaves the dict it had at `n`.
- `PassValueStart`: the next pass starts from the dict the last one left.
- `ValAtLastValue`: `ValAt` over the whole script is the `LastValue` of each rank in `RankedPrecedence`. The value the loops store (`Stored`) and the value the property expects (`Defined`, from spec §3) are shown equal here, statement by statement.

`Match` is `InPass` with the script as an argument (`InPassMatch`), so that a prime on it stays on its arguments. TLC checked `GInv` first on the `props` instance (89,606 states, no violation).

### The assumptions these rest on

`NamesAssumption`, `SentinelAssumption` and `ConstantsAssumption` say:

- the sentinels differ from every text and from each other;
- build-tool groups are groups;
- artifacts are not platform names;
- `N/A` and `N/A (managed…)` are not classifiers.

TLC evaluates these assumptions on every run.

### Left to TLC

- **Liveness.** `ReportWritten` needs fairness and `ENABLED`, which the provers do not reach. It is a counterexample anyway.
- **Paths.** `ParentScopeByPath` relates two `FoldLeft`s (`NormPath` and `WalkFrom`) over every path. That needs induction over the path.
- **What the recursion computes.** A statement about what `chain` returns for every input, such as `DirectVersionLayered`, needs induction over the chain with an operator parameter, which the installed provers cannot instantiate.
- **The violated properties.** These are counterexamples.

## Not modelled

- **The branch after line 169** of `normalize_gradle_dependencies`, which `parse_gradle`'s output can never reach.
- **The `project.ext["k"]` form of Gradle references**, which no parser output contains.
- **XML and regex parsing.** Only the shapes of the parsers' output are modelled: `MavenDep`, `ManagedDep`, `GradleDep`, `PropMap`, `ParentInfo` and `PomInfo`.
  - The property loops of `parse_gradle` are modelled over statements, not characters.
  - The dependency regex is not modelled. Nor are quoting, braces inside values, or a property statement split by a comment.
- **JSON loading, printing and the report file.** These are I/O. `load_json_file`'s `[]` on error is among the inputs `EmptyInput` handles, and `json.dump` is the step `WriteReport`.
- **Output metadata.** Scope, config and original version in the reports, and the `is_gradle=True` branch of `normalize_dependencies`, which nothing calls.
- **Composition of the parsers with `main()`.** `MC_CompareMain` writes the records directly. `GradleProperties` is checked on its own, because its script space multiplied by `main()`'s inputs is too large for TLC.

## Plan for further work

1. `DirectVersionLayered` as a theorem. This needs a closed form of the `chain` of `GetPropertyValue` that a prefix invariant over the chain index can carry, as `GInv` does for the Gradle loops.
2. Larger instances of `MC_CompareMain`: two Gradle-side properties, and managed dependencies inherited through the parent.
