--------------------------- MODULE CheckRunProofs ---------------------------
(***************************************************************************)
(* Theorems about CheckRun, for any number of files, rules and gaps, any   *)
(* bound on the diagnostics of one file, and either setting of each flag.  *)
(***************************************************************************)
EXTENDS CheckRun, TLAPS

USE FileAssumption, RuleAssumption, SeverityAssumption

LEMMA PromoteType ==
    ASSUME NEW d \in Diagnostic PROVE Promote(d) \in Diagnostic
  BY DEF Diagnostic, Promote, Help, Error

(* The variables of the run keep their types from its flags to its exit.   *)
THEOREM TypeCorrect == Spec => []TypeOK
<1>1. Init => TypeOK
  BY DEF Init, TypeOK
<1>2. TypeOK /\ [Next]_vars => TypeOK'
  <2> SUFFICES ASSUME TypeOK, [Next]_vars PROVE TypeOK'
    OBVIOUS
  <2> USE DEF TypeOK, Goto, Fatal, settings, walking, reporting
  <2>1. CASE UNCHANGED vars
    BY <2>1 DEF vars
  <2>2. CASE LoadConfig \/ LoadProviders \/ CannotStart \/ PresenterStops
    BY <2>2 DEF LoadConfig, LoadProviders, CannotStart, PresenterStops
  <2>3. CASE LoadLints
    BY <2>3 DEF LoadLints
  <2>4. CASE Discover
    <3>1. errors' \in BOOLEAN
      BY <2>4, Zenon DEF Discover
    <3>2. outcome' \in {"Success", "Failure"} /\ exit' \in {"none", "success", "failure"}
      BY <2>4 DEF Discover
    <3>3. closing' \subseteq {Notice, Unwalked, TheError} \cup {FileFailure(f) : f \in File}
      BY <2>4 DEF Discover
    <3>4. QED
      BY <2>4, <3>1, <3>2, <3>3 DEF Discover
  <2>5. ASSUME NEW f \in File, ReadFails(f) PROVE TypeOK'
    BY <2>5 DEF ReadFails, Record, At, Current
  <2>6. ASSUME NEW f \in File, ProgressFatal(f) \/ PassesFatal(f) \/ PipelineFatal(f) PROVE TypeOK'
    BY <2>6 DEF ProgressFatal, PassesFatal, PipelineFatal
  <2>7. ASSUME NEW f \in File, FileChecked(f) PROVE TypeOK'
    <3>1. [file : {f}, rule : Rule, severity : Severity] \subseteq Diagnostic
      BY DEF Diagnostic
    <3>2. diagnostics' \subseteq Diagnostic
      BY <2>7, <3>1 DEF FileChecked, Kept
    <3>3. QED
      BY <2>7, <3>2 DEF FileChecked, At, Current
  <2>8. ASSUME NEW f \in File, FileFails(f) PROVE TypeOK'
    BY <2>8 DEF FileFails, Record, At, Current
  <2>9. CASE EndWalk
    BY <2>9 DEF EndWalk
  <2>10. CASE ReportRemedies
    BY <2>10, PromoteType DEF ReportRemedies
  <2>11. CASE ReportFinding
    BY <2>11 DEF ReportFinding
  <2>12. CASE ReportFatal
    BY <2>12 DEF ReportFatal
  <2>13. CASE Finish
    BY <2>13 DEF Finish
  <2>14. QED
    BY <2>1, <2>2, <2>3, <2>4, <2>5, <2>6, <2>7, <2>8, <2>9, <2>10, <2>11, <2>12, <2>13
       DEF Next, Run, Exited
<1>3. QED
  BY <1>1, <1>2, PTL DEF Spec

-----------------------------------------------------------------------------
Starting == pc \in {"config", "lints", "discover"}
Reporting == pc \in {"remedies", "report"}

(* Every file found is still to come, was checked, or is recorded as       *)
(* failed; the walk ends early only with a failure; the outcome remembers  *)
(* what went wrong; and nothing is lost between the walk and the report.   *)
RunInv ==
    /\ exit = "none" <=> pc # "exited"
    /\ Starting => /\ files = {} /\ todo = {} /\ checked = {} /\ failures = {}
                   /\ diagnostics = {} /\ errors = FALSE
    /\ todo \cap checked = {}
    /\ exit = "none" /\ ~Starting => /\ files # {} /\ files = todo \cup checked \cup failures
                                     /\ errors => outcome = "Failure"
    /\ pc = "walked" => failures # {}
    /\ Reporting => /\ failures = {} => todo = {}
                    /\ failures # {} => outcome = "Failure"
    /\ pc = "report" => {Promote(d) : d \in diagnostics} = unsent \cup sent
    /\ exit = "none" /\ pc # "report" => sent = {}

Inv == TypeOK /\ RunInv /\ SuccessIsEarned

(* The invariant of the run, which carries the reason for its exit code    *)
(* from the walk through the report to the end.                            *)
THEOREM RunInvariant == Spec => []Inv
<1>1. Init => RunInv /\ SuccessIsEarned
  BY DEF Init, RunInv, SuccessIsEarned, Starting, Reporting
<1>2. Inv /\ TypeOK' /\ [Next]_vars => Inv'
  <2> SUFFICES ASSUME Inv, TypeOK', [Next]_vars PROVE RunInv' /\ SuccessIsEarned'
    BY DEF Inv
  <2> USE DEF Inv, TypeOK, RunInv, SuccessIsEarned, Starting, Reporting, Goto, Fatal, settings,
              walking, reporting
  <2>1. CASE UNCHANGED vars
    BY <2>1 DEF vars, Promote, IsMetBy, MinimumFailingSeverity
  <2>2. CASE LoadConfig \/ LoadProviders \/ CannotStart
    BY <2>2 DEF LoadConfig, LoadProviders, CannotStart
  <2>3. CASE LoadLints
    BY <2>3 DEF LoadLints
  <2>4. CASE Discover
    BY <2>4 DEF Discover
  <2>5. ASSUME NEW f \in File, ReadFails(f) PROVE RunInv' /\ SuccessIsEarned'
    BY <2>5 DEF ReadFails, Record, At, Current
  <2>6. ASSUME NEW f \in File, ProgressFatal(f) \/ PassesFatal(f) \/ PipelineFatal(f)
        PROVE  RunInv' /\ SuccessIsEarned'
    BY <2>6 DEF ProgressFatal, PassesFatal, PipelineFatal
  <2>7. ASSUME NEW f \in File, FileChecked(f) PROVE RunInv' /\ SuccessIsEarned'
    BY <2>7 DEF FileChecked, At, Current
  <2>8. ASSUME NEW f \in File, FileFails(f) PROVE RunInv' /\ SuccessIsEarned'
    BY <2>8 DEF FileFails, Record, At, Current
  <2>9. CASE EndWalk
    BY <2>9 DEF EndWalk
  <2>10. CASE ReportRemedies
    BY <2>10 DEF ReportRemedies, Promote, IsMetBy, MinimumFailingSeverity
  <2>11. CASE ReportFinding
    BY <2>11 DEF ReportFinding, Promote, IsMetBy, MinimumFailingSeverity
  <2>12. CASE ReportFatal
    BY <2>12 DEF ReportFatal
  <2>13. CASE Finish
    <3>1. RunInv'
      BY <2>13 DEF Finish
    <3>2. SuccessIsEarned'
      <4> SUFFICES ASSUME exit' = "success" PROVE SuccessIsEarned'
        OBVIOUS
      <4>1. outcome = "Success" /\ \A d \in sent : ~IsMetBy(d.severity)
        BY <2>13 DEF Finish, Combine, FromDiagnostics
      <4>2. \A d \in diagnostics : Promote(d) \in sent
        BY <2>13 DEF Finish
      <4>3. ASSUME NEW d \in diagnostics PROVE ~IsMetBy(d.severity) /\ d \in sent
        <5>1. ~IsMetBy(d.severity)
          <6> SUFFICES ASSUME IsMetBy(d.severity) PROVE FALSE
            OBVIOUS
          <6>1. Promote(d) \in sent /\ Promote(d).severity = Error
            BY <4>2 DEF Promote, Diagnostic
          <6>2. IsMetBy(Error)
            BY DEF IsMetBy, MinimumFailingSeverity, Warn, Error
          <6>3. QED
            BY <4>1, <6>1, <6>2
        <5>2. QED
          BY <4>2, <5>1 DEF Promote
      <4>4. files # {} /\ checked = files /\ failures = {} /\ ~errors
        BY <2>13, <4>1 DEF Finish
      <4>5. QED
        BY <2>13, <4>3, <4>4 DEF Finish, IsMetBy, MinimumFailingSeverity
    <3>3. QED
      BY <3>1, <3>2
  <2>14. CASE PresenterStops
    BY <2>14 DEF PresenterStops, Promote, IsMetBy, MinimumFailingSeverity
  <2>15. QED
    BY <2>1, <2>2, <2>3, <2>4, <2>5, <2>6, <2>7, <2>8, <2>9, <2>10, <2>11, <2>12, <2>13, <2>14
       DEF Next, Run, Exited
<1>3. QED
  BY <1>1, <1>2, TypeCorrect, PTL DEF Spec, Inv

(* An exit code of success is earned: no file was skipped, none failed,    *)
(* and no diagnostic of an admitted rule was lost or meets the threshold.  *)
THEOREM SuccessEarned == Spec => []SuccessIsEarned
<1>1. Inv => SuccessIsEarned
  BY DEF Inv
<1>2. QED
  BY <1>1, RunInvariant, PTL

-----------------------------------------------------------------------------
(* Files are walked in their order, and a run that does not keep going     *)
(* leaves the walk with its first failure.                                 *)
WalkInv ==
    /\ \A g \in checked \cup failures, t \in todo : g < t
    /\ ~keep_going /\ pc \in {"providers", "walk"} => failures = {}
    /\ keep_going => pc # "walked"
    /\ keep_going /\ Reporting => todo = {}
    /\ WalkStopsWhereItShould

(* The walk stops where the flags say: at the first failing file, or after *)
(* the last file (the loop of `run`, which breaks unless it keeps going).   *)
THEOREM WalkStops == Spec => []WalkStopsWhereItShould
<1>1. Init => WalkInv
  BY DEF Init, WalkInv, WalkStopsWhereItShould, Reporting
<1>2. Inv /\ WalkInv /\ [Next]_vars => WalkInv'
  <2> SUFFICES ASSUME Inv, WalkInv, [Next]_vars PROVE WalkInv'
    OBVIOUS
  <2> USE DEF Inv, TypeOK, RunInv, WalkInv, WalkStopsWhereItShould, Starting, Reporting, Goto,
              Fatal, settings, walking, reporting, File
  <2>1. CASE UNCHANGED vars
    BY <2>1 DEF vars
  <2>2. CASE LoadConfig \/ LoadProviders \/ CannotStart \/ LoadLints \/ PresenterStops
    <3>1. UNCHANGED <<keep_going, checked, failures, todo, files>>
      BY <2>2 DEF LoadConfig, LoadProviders, CannotStart, LoadLints, PresenterStops
    <3>2. pc' = pc \/ (pc' \notin {"walk", "walked", "remedies", "report"})
               \/ (pc = "providers" /\ pc' = "walk")
      BY <2>2 DEF LoadConfig, LoadProviders, CannotStart, LoadLints, PresenterStops
    <3>3. pc' = "providers" => pc = "providers"
      BY <2>2 DEF LoadConfig, LoadProviders, CannotStart, LoadLints, PresenterStops
    <3> QED
      BY <3>1, <3>2, <3>3
  <2>3. CASE Discover
    BY <2>3 DEF Discover
  <2>4. ASSUME NEW f \in File, ReadFails(f) PROVE WalkInv'
    BY <2>4 DEF ReadFails, Record, At, Current
  <2>5. ASSUME NEW f \in File, ProgressFatal(f) \/ PassesFatal(f) \/ PipelineFatal(f)
        PROVE  WalkInv'
    BY <2>5 DEF ProgressFatal, PassesFatal, PipelineFatal
  <2>6. ASSUME NEW f \in File, FileChecked(f) PROVE WalkInv'
    BY <2>6 DEF FileChecked, At, Current
  <2>7. ASSUME NEW f \in File, FileFails(f) PROVE WalkInv'
    BY <2>7 DEF FileFails, Record, At, Current
  <2>8. CASE EndWalk
    <3>1. UNCHANGED <<keep_going, checked, failures, todo, files>> /\ pc' = "remedies"
      BY <2>8 DEF EndWalk
    <3>2. files = todo \cup checked \cup failures
      BY <2>8 DEF EndWalk
    <3>3. keep_going => todo = {}
      BY <2>8 DEF EndWalk
    <3>4. WalkStopsWhereItShould'
      BY <3>1, <3>2, <3>3
    <3> QED
      BY <3>1, <3>3, <3>4
  <2>9. CASE ReportRemedies \/ ReportFinding \/ ReportFatal \/ Finish
    <3>1. UNCHANGED <<keep_going, checked, failures, todo, files>>
      BY <2>9 DEF ReportRemedies, ReportFinding, ReportFatal, Finish
    <3>2. pc \in {"remedies", "report"} /\ pc' \in {"report", "exited"}
      BY <2>9 DEF ReportRemedies, ReportFinding, ReportFatal, Finish
    <3>3. WalkStopsWhereItShould'
      BY <3>1, <3>2
    <3> QED
      BY <3>1, <3>2, <3>3
  <2>10. QED
    BY <2>1, <2>2, <2>3, <2>4, <2>5, <2>6, <2>7, <2>8, <2>9 DEF Next, Run, Exited
<1>3. WalkInv => WalkStopsWhereItShould
  BY DEF WalkInv
<1>4. QED
  BY <1>1, <1>2, <1>3, RunInvariant, PTL DEF Spec

(* Whatever makes a run fail besides its diagnostics is in its closing     *)
(* text, and what it shows is promoted.                                    *)
ReportInv ==
    /\ outcome = "Failure" => ~(closing \subseteq {Notice})
    /\ exit = "none" => \A d \in unsent \cup sent : IsMetBy(d.severity) => d.severity = Error
    /\ pc \in {"config", "lints", "discover", "providers", "walk", "walked", "remedies"} => unsent = {}
    /\ ReportMatchesExit

(* The exit code and the report agree: a run whose closing text has at     *)
(* most notices fails exactly if it showed an error.                       *)
THEOREM ReportAgrees == Spec => []ReportMatchesExit
<1>1. Init => ReportInv
  BY DEF Init, ReportInv, ReportMatchesExit
<1>2. Inv /\ ReportInv /\ [Next]_vars => ReportInv'
  <2> SUFFICES ASSUME Inv, ReportInv, [Next]_vars PROVE ReportInv'
    OBVIOUS
  <2> USE DEF Inv, TypeOK, RunInv, ReportInv, ReportMatchesExit, Starting, Reporting, Goto, Fatal,
              settings, walking, reporting
  <2>a. \A f : FileFailure(f) # Notice
    BY DEF Notice, FileFailure
  <2>b. TheError # Notice /\ Unwalked # Notice
    BY DEF Notice, TheError, Unwalked
  <2>c. ASSUME UNCHANGED <<unsent, sent, deny_warnings>>, exit' = "none" => exit = "none"
        PROVE  exit' = "none" =>
                   (\A d \in unsent \cup sent : IsMetBy(d.severity) => d.severity = Error)'
    BY <2>c DEF IsMetBy, MinimumFailingSeverity
  <2>d. exit \in {"none", "success", "failure"} /\ (pc # "exited" <=> exit = "none")
    OBVIOUS
  <2>e. ASSUME Fatal, outcome' = outcome, UNCHANGED reporting PROVE ReportInv'
    <3>1. ~(closing' \subseteq {Notice})
      BY <2>b, <2>e
    <3> QED
      BY <3>1, <2>e
  <2>1. CASE UNCHANGED vars
    BY <2>1, <2>c DEF vars
  <2>2. CASE LoadConfig \/ LoadProviders \/ PresenterStops
    <3>1. UNCHANGED <<closing, exit, outcome, unsent, sent, deny_warnings>>
      BY <2>2 DEF LoadConfig, LoadProviders, PresenterStops
    <3>2. pc \in {"config", "lints", "discover", "providers", "walk", "walked", "remedies"}
            \/ pc' = pc
      BY <2>2 DEF LoadConfig, LoadProviders, PresenterStops
    <3> QED
      BY <2>c, <3>1, <3>2
  <2>3. CASE LoadLints
    BY <2>3, <2>b, <2>c DEF LoadLints
  <2>4. CASE Discover
    <3>1. UNCHANGED <<unsent, sent, deny_warnings>>
      BY <2>4 DEF Discover
    <3>2. unsent = {} /\ exit = "none"
      BY <2>4 DEF Discover
    <3>3. outcome' = "Failure" => ~(closing' \subseteq {Notice})
      BY <2>4, <2>b DEF Discover
    <3>4. exit' # "none" => TheError \in closing'
      BY <2>4, <3>2 DEF Discover
    <3> QED
      BY <2>b, <2>c, <3>1, <3>2, <3>3, <3>4
  <2>5. ASSUME NEW f \in File, ReadFails(f) \/ FileFails(f) \/ FileChecked(f) PROVE ReportInv'
    <3>1. UNCHANGED <<closing, exit, outcome, unsent, sent, deny_warnings>> /\ pc = "walk"
      BY <2>5 DEF ReadFails, FileFails, FileChecked, At
    <3> QED
      BY <2>c, <2>d, <3>1
  <2>6. ASSUME NEW f \in File, ProgressFatal(f) \/ PassesFatal(f) \/ PipelineFatal(f)
        PROVE  ReportInv'
    BY <2>6, <2>e DEF ProgressFatal, PassesFatal, PipelineFatal
  <2>7. CASE EndWalk
    <3>1. UNCHANGED <<exit, unsent, sent, deny_warnings>> /\ exit = "none" /\ unsent = {}
      BY <2>7 DEF EndWalk
    <3>2. outcome' = "Failure" => ~(closing' \subseteq {Notice})
      BY <2>7, <2>a DEF EndWalk
    <3> QED
      BY <2>c, <3>1, <3>2
  <2>8. CASE ReportRemedies
    <3>1. \A d \in unsent' : IsMetBy(d.severity) => d.severity = Error
      BY <2>8 DEF ReportRemedies, Promote, Diagnostic
    <3>2. QED
      BY <2>8, <3>1 DEF ReportRemedies, IsMetBy, MinimumFailingSeverity
  <2>9. CASE ReportFinding
    BY <2>9 DEF ReportFinding, IsMetBy, MinimumFailingSeverity
  <2>10. CASE ReportFatal \/ CannotStart
    BY <2>10, <2>e DEF ReportFatal, CannotStart
  <2>11. CASE Finish
    <3>1. \A d \in sent : IsMetBy(d.severity) <=> d.severity = Error
      BY <2>11 DEF Finish, IsMetBy, MinimumFailingSeverity, Warn, Error
    <3>2. QED
      BY <2>11, <3>1 DEF Finish, Combine, FromDiagnostics
  <2>12. QED
    BY <2>1, <2>2, <2>3, <2>4, <2>5, <2>6, <2>7, <2>8, <2>9, <2>10, <2>11 DEF Next, Run, Exited
<1>3. ReportInv => ReportMatchesExit
  BY DEF ReportInv
<1>4. QED
  BY <1>1, <1>2, <1>3, RunInvariant, PTL DEF Spec

-----------------------------------------------------------------------------
abstract == <<files, errors, Cleared, exit>>

(* The driver implements Audit: its success is the audit's, and until then *)
(* every step of it settles the scope, clears a file or changes nothing.   *)
THEOREM Refinement == Spec => KeepsPromise
<1>1. Init => Promise!Init
  BY DEF Init, Promise!Init, Cleared
<1>2. Inv /\ Inv' /\ [Next]_vars => [Promise!Next]_(Promise!vars)
  <2> SUFFICES ASSUME Inv, Inv', [Next]_vars PROVE Promise!Next \/ UNCHANGED abstract
    BY DEF Promise!vars, abstract
  <2> USE DEF Inv, TypeOK, RunInv, Starting, Goto, Fatal, settings, walking, reporting, abstract
  <2>1. ASSUME UNCHANGED <<checked, diagnostics, deny_warnings>> PROVE UNCHANGED Cleared
    BY <2>1 DEF Cleared, IsMetBy, MinimumFailingSeverity
  <2>2. CASE UNCHANGED vars
    BY <2>1, <2>2 DEF vars
  <2>3. CASE LoadConfig \/ LoadProviders \/ EndWalk \/ ReportRemedies \/ ReportFinding
             \/ PresenterStops
    BY <2>1, <2>3 DEF LoadConfig, LoadProviders, EndWalk, ReportRemedies, ReportFinding,
                      PresenterStops
  <2>4. CASE CannotStart \/ LoadLints \/ ReportFatal
    BY <2>1, <2>4 DEF CannotStart, LoadLints, ReportFatal, Promise!Next, Promise!Fail
  <2>5. CASE Discover
    <3>1. UNCHANGED Cleared
      BY <2>1, <2>5 DEF Discover
    <3>2. exit' = exit \/ exit' = "failure"
      BY <2>5 DEF Discover
    <3>3. exit = "none" /\ files = {}
      BY <2>5 DEF Discover
    <3>4. files' \in SUBSET File /\ errors' \in BOOLEAN
      OBVIOUS
    <3>5. QED
      BY <3>1, <3>2, <3>3, <3>4 DEF Promise!Next, Promise!Fail, Promise!Settle
  <2>6. ASSUME NEW f \in File,
               ReadFails(f) \/ FileFails(f) \/ ProgressFatal(f) \/ PassesFatal(f) \/ PipelineFatal(f)
        PROVE  Promise!Next \/ UNCHANGED abstract
    BY <2>1, <2>6 DEF ReadFails, FileFails, Record, ProgressFatal, PassesFatal, PipelineFatal, At,
                      Promise!Next, Promise!Fail
  <2>7. ASSUME NEW f \in File, FileChecked(f) PROVE Promise!Next \/ UNCHANGED abstract
    <3>1. f \in files /\ f \notin checked /\ checked' = checked \cup {f} /\ exit = "none"
      BY <2>7 DEF FileChecked, At, Current
    <3>2. UNCHANGED <<files, errors, exit, deny_warnings>>
      BY <2>7 DEF FileChecked
    <3>3. diagnostics \subseteq diagnostics' /\ \A d \in diagnostics' \ diagnostics : d.file = f
      BY <2>7 DEF FileChecked, Kept
    <3>4. Cleared' = Cleared \/ Cleared' = Cleared \cup {f}
      BY <3>1, <3>2, <3>3 DEF Cleared, IsMetBy, MinimumFailingSeverity
    <3>5. QED
      BY <3>1, <3>2, <3>4 DEF Promise!Next, Promise!Clear
  <2>8. CASE Finish
    <3>1. UNCHANGED <<files, errors, Cleared>> /\ exit = "none"
      BY <2>1, <2>8 DEF Finish
    <3>2. CASE exit' = "success"
      <4>1. Cleared' = files
        BY <3>2, <2>8 DEF SuccessIsEarned, Cleared, Finish
      <4>2. files # {} /\ ~errors
        BY <3>1, <3>2 DEF SuccessIsEarned
      <4>3. QED
        BY <3>1, <3>2, <4>1, <4>2 DEF Promise!Next, Promise!Pass
    <3>3. CASE exit' = "failure"
      BY <3>1, <3>3 DEF Promise!Next, Promise!Fail
    <3>4. QED
      BY <2>8, <3>2, <3>3 DEF Finish
  <2>9. QED
    BY <2>2, <2>3, <2>4, <2>5, <2>6, <2>7, <2>8 DEF Next, Run, Exited
<1>3. QED
  BY <1>1, <1>2, RunInvariant, PTL DEF Spec, KeepsPromise, Promise!Spec
=============================================================================
