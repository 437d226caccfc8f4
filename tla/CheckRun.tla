------------------------------ MODULE CheckRun ------------------------------
(***************************************************************************)
(* The driver of `stiles check`: crates/stiles/src/commands/check.rs with  *)
(* its check_outcome, error_recovery, failure_threshold and closing_text.  *)
(* One run, step by step from its flags to its exit.                       *)
(*                                                                         *)
(* What a file, a plugin or a project may do to the run is chosen when the *)
(* run meets it.  The presenter, which prints what the run reports, is     *)
(* another task and may stop listening at any time.  Files are numbered in *)
(* the order discovery sorts them into; the diagnostics of one file are a  *)
(* set here, and their order is the walk's.                                *)
(***************************************************************************)
EXTENDS Naturals, FiniteSets

CONSTANTS MaxFile,    \* how many files there may be
          Rule,       \* the rules the loaded lints declare
          Admitted,   \* the rules among them that the project's [rules] admits
          Grammar,    \* the grammars
          GrammarOf,  \* the grammar of each file
          Gap,        \* the reasons a provider may have for not covering a file
          Severity,   \* the severities diagnostics carry, as numbers
          MaxFound    \* how many diagnostics one file may have

Help == 1
Info == 2
Warn == 3
Error == 4

File == 1..MaxFile

ASSUME FileAssumption == MaxFile \in Nat /\ GrammarOf \in [File -> Grammar]
ASSUME RuleAssumption == Admitted \subseteq Rule
ASSUME SeverityAssumption == Severity \subseteq Help..Error

VARIABLES
    pc,             \* the stage of the run
    keep_going,     \* --keep-going
    deny_warnings,  \* --deny-warnings
    presenter,      \* whether the presenter still listens
    files,          \* what discovery found
    errors,         \* whether discovery met errors it went on from
    todo,           \* the files the walk has not reached
    pipelines,      \* the grammars a pipeline was built for
    diagnostics,    \* all_diagnostics
    failures,       \* the files recorded as failed
    remedies,       \* the distinct remedies collected
    closing,        \* what the closing text mentions
    outcome,        \* the `CheckOutcome` so far
    unsent,         \* the promoted diagnostics still to report
    sent,           \* the findings the presenter was given
    exit,           \* the exit code
    checked         \* history: the files the pipeline finished with

settings == <<keep_going, deny_warnings>>
walking == <<todo, pipelines, diagnostics, failures, remedies, checked>>
reporting == <<unsent, sent>>
vars == <<pc, settings, presenter, files, errors, walking, closing, outcome, reporting, exit>>

-----------------------------------------------------------------------------
Diagnostic == [file : File, rule : Rule, severity : Help..Error]

\* FailureThreshold
MinimumFailingSeverity == IF deny_warnings THEN Warn ELSE Error
IsMetBy(severity) == severity >= MinimumFailingSeverity
\* Mistake: a diagnostic that fails keeps its severity.
LeavesSeverity(d) == d
Promote(d) == IF IsMetBy(d.severity) THEN [d EXCEPT !.severity = Error] ELSE d

\* CheckOutcome
FromDiagnostics(ds) == IF \E d \in ds : IsMetBy(d.severity) THEN "Failure" ELSE "Success"
Combine(a, b) == IF a = "Failure" \/ b = "Failure" THEN "Failure" ELSE "Success"

Admits(rule) == rule \in Admitted

\* The file the walk is at.
Current(f) == f \in todo /\ \A g \in todo : f <= g

Goto(l) == pc' = l

\* What a line of the closing text is about: a notice of the lint loading, a
\* part of the tree discovery could not walk, a file, the error of the run.
Notice == <<"notice", 0>>
Unwalked == <<"unwalked", 0>>
FileFailure(f) == <<"file", f>>
TheError == <<"error", 0>>

\* `?`: the error goes back to the command, which puts it after the rest.
Fatal ==
    /\ Goto("exited")
    /\ closing' = closing \cup {TheError}
    /\ exit' = "failure"

Listening == presenter = "listening"

-----------------------------------------------------------------------------
Init ==
    /\ pc = "config"
    /\ keep_going \in BOOLEAN /\ deny_warnings \in BOOLEAN
    /\ presenter = "listening"
    /\ files = {} /\ errors = FALSE
    /\ todo = {} /\ pipelines = {} /\ diagnostics = {} /\ failures = {} /\ remedies = {}
    /\ checked = {}
    /\ closing = {} /\ outcome = "Success"
    /\ unsent = {} /\ sent = {}
    /\ exit = "none"

\* The path exists and its configuration can be read.
LoadConfig ==
    /\ pc = "config"
    /\ Goto("lints")
    /\ UNCHANGED <<settings, presenter, files, errors, walking, closing, outcome, reporting, exit>>

\* The notices of the lookup are kept whether or not the load succeeds, and
\* the names in [rules] and [rules.options] have to be declared ones.
LoadLints ==
    /\ pc = "lints"
    /\ \E notices \in {{}, {Notice}} :
         \/ closing' = closing \cup notices /\ Goto("discover") /\ UNCHANGED exit
         \/ closing' = closing \cup notices \cup {TheError} /\ Goto("exited") /\ exit' = "failure"
    /\ UNCHANGED <<settings, presenter, files, errors, walking, outcome, reporting>>

\* A walk error ends the run, or with --keep-going is reported and makes it
\* fail.  A run that found no file at all is an error.
Discover ==
    /\ pc = "discover"
    /\ files' \in SUBSET File
    /\ errors' \in IF keep_going THEN BOOLEAN ELSE {FALSE}
    /\ todo' = files'
    /\ LET reported == closing \cup (IF errors' THEN {Unwalked} ELSE {})
       IN  IF files' # {}
             THEN Goto("providers") /\ closing' = reported /\ UNCHANGED exit
             ELSE Goto("exited") /\ closing' = reported \cup {TheError} /\ exit' = "failure"
    /\ outcome' = IF errors' THEN "Failure" ELSE outcome
    /\ UNCHANGED <<settings, presenter, pipelines, diagnostics, failures, remedies, checked, reporting>>

LoadProviders ==
    /\ pc = "providers"
    /\ Goto("walk")
    /\ UNCHANGED <<settings, presenter, files, errors, walking, closing, outcome, reporting, exit>>

\* Before the walk: the path, the configuration, the discovery under Fail or
\* the project of a provider ends the run.
CannotStart ==
    /\ pc \in {"config", "discover", "providers"}
    /\ Fatal
    /\ UNCHANGED <<settings, presenter, files, errors, walking, outcome, reporting>>

(* The walk.  A failure of one file is recorded, and ends the walk unless  *)
(* the run keeps going.                                                    *)

\* Mistake: the failure is reported and not recorded.
ForgetsFailure(f) ==
    /\ todo' = todo \ {f}
    /\ Goto(IF keep_going THEN "walk" ELSE "walked")
    /\ UNCHANGED failures

\* Mistake: the walk goes on after the first failure in either mode.
NeverStops(f) ==
    /\ failures' = failures \cup {f}
    /\ todo' = todo \ {f}
    /\ Goto("walk")

Record(f) ==
    /\ failures' = failures \cup {f}
    /\ todo' = todo \ {f}
    /\ Goto(IF keep_going THEN "walk" ELSE "walked")

At(f) == pc = "walk" /\ Current(f)

\* The file cannot be read, or no grammar is known for it.
ReadFails(f) ==
    /\ At(f) /\ Listening
    /\ Record(f)
    /\ UNCHANGED <<settings, presenter, files, errors, pipelines, diagnostics, remedies, checked,
                   closing, outcome, reporting, exit>>

\* The presenter is gone, and the progress of the walk cannot be reported.
ProgressFatal(f) ==
    /\ At(f) /\ ~Listening
    /\ Fatal
    /\ UNCHANGED <<settings, presenter, files, errors, walking, outcome, reporting>>

\* A pass panics while it is constructed or configured.
PassesFatal(f) ==
    /\ At(f) /\ Listening
    /\ Fatal
    /\ UNCHANGED <<settings, presenter, files, errors, walking, outcome, reporting>>

\* The parser refuses a grammar that no earlier file needed.
PipelineFatal(f) ==
    /\ At(f) /\ Listening /\ GrammarOf[f] \notin pipelines
    /\ Fatal
    /\ UNCHANGED <<settings, presenter, files, errors, walking, outcome, reporting>>

\* The diagnostics of rules the project turned off are dropped.
Kept(found) == {d \in found : Admits(d.rule)}

\* The pipeline returns what the lints found.
FileChecked(f) ==
    /\ At(f) /\ Listening
    /\ pipelines' = pipelines \cup {GrammarOf[f]}
    /\ \E found \in SUBSET [file : {f}, rule : Rule, severity : Severity] :
         /\ Cardinality(found) <= MaxFound
         /\ diagnostics' = diagnostics \cup Kept(found)
    /\ checked' = checked \cup {f}
    /\ todo' = todo \ {f}
    /\ UNCHANGED <<pc, settings, presenter, files, errors, failures, remedies, closing, outcome,
                   reporting, exit>>

\* The pipeline returns an error; that of an uncovered file names its gaps.
FileFails(f) ==
    /\ At(f) /\ Listening
    /\ pipelines' = pipelines \cup {GrammarOf[f]}
    /\ \E gaps \in SUBSET Gap : remedies' = remedies \cup gaps
    /\ Record(f)
    /\ UNCHANGED <<settings, presenter, files, errors, diagnostics, checked, closing, outcome,
                   reporting, exit>>

\* After the last file, and after the one that stopped the walk.
EndWalk ==
    /\ pc = "walked" \/ (pc = "walk" /\ todo = {})
    /\ closing' = closing \cup {FileFailure(f) : f \in failures}
    /\ outcome' = IF failures # {} THEN "Failure" ELSE outcome
    /\ Goto("remedies")
    /\ UNCHANGED <<settings, presenter, files, errors, walking, reporting, exit>>

\* The remedies are reported, and the diagnostics that fail become errors.
ReportRemedies ==
    /\ pc = "remedies"
    /\ remedies # {} => Listening
    /\ unsent' = {Promote(d) : d \in diagnostics}
    /\ Goto("report")
    /\ UNCHANGED <<settings, presenter, files, errors, walking, closing, outcome, sent, exit>>

\* Findings go out in the order the walk collected them.
ReportFinding ==
    /\ pc = "report"
    /\ Listening
    /\ \E d \in unsent : /\ \A e \in unsent : d.file <= e.file
                         /\ unsent' = unsent \ {d}
                         /\ sent' = sent \cup {d}
    /\ UNCHANGED <<pc, settings, presenter, files, errors, walking, closing, outcome, exit>>

\* The presenter is gone, or a finding cannot be rendered.
ReportFatal ==
    /\ \/ pc = "remedies" /\ remedies # {} /\ ~Listening
       \/ pc = "report" /\ unsent # {}
    /\ Fatal
    /\ UNCHANGED <<settings, presenter, files, errors, walking, outcome, reporting>>

\* Mistake: the outcome of the walk is overwritten by that of the diagnostics.
ForgetsOutcome ==
    /\ pc = "report" /\ unsent = {}
    /\ exit' = IF FromDiagnostics(sent) = "Failure" THEN "failure" ELSE "success"
    /\ Goto("exited")
    /\ UNCHANGED <<settings, presenter, files, errors, walking, closing, outcome, reporting>>

Finish ==
    /\ pc = "report" /\ unsent = {}
    /\ exit' = IF Combine(outcome, FromDiagnostics(sent)) = "Failure" THEN "failure" ELSE "success"
    /\ Goto("exited")
    /\ UNCHANGED <<settings, presenter, files, errors, walking, closing, outcome, reporting>>

\* The reader of the standard output goes away.
PresenterStops ==
    /\ Listening
    /\ presenter' = "gone"
    /\ UNCHANGED <<pc, settings, files, errors, walking, closing, outcome, reporting, exit>>

-----------------------------------------------------------------------------
Run ==
    \/ LoadConfig \/ LoadLints \/ Discover \/ LoadProviders \/ CannotStart
    \/ \E f \in File : \/ ReadFails(f) \/ ProgressFatal(f) \/ PassesFatal(f) \/ PipelineFatal(f)
                    \/ FileChecked(f) \/ FileFails(f)
    \/ EndWalk \/ ReportRemedies \/ ReportFinding \/ ReportFatal \/ Finish

Exited == pc = "exited" /\ UNCHANGED vars

Next == Run \/ PresenterStops \/ Exited

Spec == Init /\ [][Next]_vars

-----------------------------------------------------------------------------
TypeOK ==
    /\ pc \in {"config", "lints", "discover", "providers", "walk", "walked", "remedies", "report",
               "exited"}
    /\ keep_going \in BOOLEAN /\ deny_warnings \in BOOLEAN
    /\ presenter \in {"listening", "gone"}
    /\ files \subseteq File /\ todo \subseteq File /\ checked \subseteq File
    /\ failures \subseteq File
    /\ errors \in BOOLEAN
    /\ pipelines \subseteq Grammar
    /\ diagnostics \subseteq Diagnostic /\ unsent \subseteq Diagnostic /\ sent \subseteq Diagnostic
    /\ remedies \subseteq Gap
    /\ closing \subseteq {Notice, Unwalked, TheError} \cup {FileFailure(f) : f \in File}
    /\ outcome \in {"Success", "Failure"}
    /\ exit \in {"none", "success", "failure"}

(* Success is earned: every file discovery found came through every lint,  *)
(* discovery left nothing out, no finding fails under the threshold of the *)
(* flags, and the presenter was given every diagnostic of an admitted rule.*)
SuccessIsEarned ==
    exit = "success" =>
        /\ files # {} /\ checked = files /\ failures = {} /\ ~errors
        /\ \A d \in diagnostics : ~IsMetBy(d.severity) /\ d \in sent

(* What the run printed agrees with its exit code: when nothing but the    *)
(* diagnostics decided it, the run failed exactly if it showed an error.   *)
ReportMatchesExit ==
    exit # "none" /\ closing \subseteq {Notice} =>
        (exit = "failure" <=> \E d \in sent : d.severity = Error)

(* Without --keep-going the first failing file is the last one visited;    *)
(* with it the walk that ends has visited every file.                      *)
WalkStopsWhereItShould ==
    /\ ~keep_going => \A f \in failures : \A g \in checked \cup failures : g <= f
    /\ keep_going /\ pc \in {"remedies", "report"} => checked \cup failures = files

\* The files that came through without a diagnostic that fails.
Cleared == {f \in checked : \A d \in diagnostics : d.file = f => ~IsMetBy(d.severity)}

(* The run keeps the promise of its exit code: it implements Audit.        *)
Promise == INSTANCE Audit WITH
    scope <- files,
    flawed <- errors,
    clear <- Cleared,
    verdict <- exit
KeepsPromise == Promise!Spec
=============================================================================
