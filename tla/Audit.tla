------------------------------- MODULE Audit -------------------------------
(***************************************************************************)
(* What an exit code of `stiles check` promises: success means that the    *)
(* run found files, that nothing was left out of what it found, and that   *)
(* each file came through every lint without a diagnostic that fails.      *)
(* Failure promises nothing, and a run may fail at any point.              *)
(***************************************************************************)
CONSTANT File

VARIABLES scope,    \* the files the run is to answer for
          flawed,   \* part of the tree could not be looked at
          clear,    \* the files that passed
          verdict   \* "none" until the run ends

vars == <<scope, flawed, clear, verdict>>

Init == scope = {} /\ flawed = FALSE /\ clear = {} /\ verdict = "none"

Settle == /\ verdict = "none" /\ scope = {}
          /\ scope' \in SUBSET File
          /\ flawed' \in BOOLEAN
          /\ UNCHANGED <<clear, verdict>>

Clear == /\ verdict = "none"
         /\ \E f \in scope : clear' = clear \cup {f}
         /\ UNCHANGED <<scope, flawed, verdict>>

Pass == /\ verdict = "none"
        /\ scope # {} /\ ~flawed /\ clear = scope
        /\ verdict' = "success"
        /\ UNCHANGED <<scope, flawed, clear>>

Fail == /\ verdict = "none"
        /\ verdict' = "failure"
        /\ UNCHANGED clear
        /\ scope' \in SUBSET File /\ flawed' \in BOOLEAN

Next == Settle \/ Clear \/ Pass \/ Fail

Spec == Init /\ [][Next]_vars
=============================================================================
