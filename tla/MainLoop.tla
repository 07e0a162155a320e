------------------------------- MODULE MainLoop -------------------------------
(***************************************************************************)
(* What main() of compare_dependencies.py promises about its reports       *)
(* (spec section 6), without the comparison that fills them: after the    *)
(* early return on empty input, the poms of pom_data are visited once      *)
(* each and in order; a pom whose Gradle file is among the loaded ones     *)
(* gets one report, for that file, appended in one step; any other pom is  *)
(* skipped; the report list is written only once every pom is visited.    *)
(* The comparison of a pair may raise, which ends the program with nothing *)
(* written.  GradleFileOf is the rule that names a pom's Gradle file.      *)
(***************************************************************************)
EXTENDS Naturals, Sequences

CONSTANTS
    PomDataSet,      \* the possible contents of pom_dependencies.json
    GradleDataSet,   \* the possible contents of gradle_dependencies.json
    GradleFileOf(_)  \* the Gradle file that goes with a pom file

VARIABLES
    poms,     \* pom_data
    gradles,  \* gradle_data
    status,   \* "start", "loop", "done" (written), "exit" or "crashed"
    next,     \* the index of the next pom to visit
    reports   \* the reports so far: the pom and Gradle file of each pair

lvars == <<poms, gradles, status, next, reports>>

\* The pom at index i has its Gradle file among the loaded ones.
Paired(i) == \E j \in 1..Len(gradles) : gradles[j].file = GradleFileOf(poms[i].file)

Report(i) == [pom |-> poms[i].file, gradle |-> GradleFileOf(poms[i].file)]

Init ==
    /\ poms \in PomDataSet /\ gradles \in GradleDataSet
    /\ status = "start" /\ next = 1 /\ reports = <<>>

\* Nothing to compare: the program returns without a report.
Quit ==
    /\ status = "start" /\ (poms = <<>> \/ gradles = <<>>)
    /\ status' = "exit"
    /\ UNCHANGED <<poms, gradles, next, reports>>

Begin ==
    /\ status = "start" /\ poms # <<>> /\ gradles # <<>>
    /\ status' = "loop"
    /\ UNCHANGED <<poms, gradles, next, reports>>

\* The next pom is paired: its report is appended.
Compare ==
    /\ status = "loop" /\ next <= Len(poms) /\ Paired(next)
    /\ reports' = Append(reports, Report(next))
    /\ next' = next + 1
    /\ UNCHANGED <<poms, gradles, status>>

\* The next pom has no Gradle file: no report.
Skip ==
    /\ status = "loop" /\ next <= Len(poms) /\ ~Paired(next)
    /\ next' = next + 1
    /\ UNCHANGED <<poms, gradles, status, reports>>

\* The comparison of the next, paired, pom raises.
Fail ==
    /\ status = "loop" /\ next <= Len(poms) /\ Paired(next)
    /\ status' = "crashed"
    /\ UNCHANGED <<poms, gradles, next, reports>>

\* Every pom visited: the reports are written.
Write ==
    /\ status = "loop" /\ next > Len(poms)
    /\ status' = "done"
    /\ UNCHANGED <<poms, gradles, next, reports>>

Next == Quit \/ Begin \/ Compare \/ Skip \/ Fail \/ Write

Spec == Init /\ [][Next]_lvars
=============================================================================
