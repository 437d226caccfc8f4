--------------------------- MODULE CheckerThreads ---------------------------
(***************************************************************************)
(* The threads that the TypeScript checkers of a program run on:           *)
(* crates/stiles-tsrs/tsrs_compiler/src/checkerpool.rs, `run_work_group`,  *)
(* `run_checker_job` and `checker_thread`.                                 *)
(*                                                                         *)
(* A work group hands one job per checker to a thread each and waits for   *)
(* all of them.  The jobs borrow from its stack under a lifetime that the  *)
(* compiler was told to ignore.  A thread that is done puts itself on a    *)
(* list that all groups share, reports, and waits a second for its next    *)
(* job.  Taking a thread off the list and sending it a job are two steps,  *)
(* and the second may end between them.                                    *)
(***************************************************************************)
EXTENDS Naturals, Sequences

CONSTANTS
    Group,       \* the work groups, each with a thread that runs it
    Count,       \* how many jobs each has
    MaxThreads   \* bound: the checker threads that are ever spawned

ASSUME CountAssumption == Count \in [Group -> Nat]
ASSUME ThreadAssumption == MaxThreads \in Nat

Thread == 1 .. MaxThreads
Job == [group : Group, index : Nat]
NoJob == [group |-> "none", index |-> 0]
NoThread == 0

VARIABLES
    idle,        \* IDLE_CHECKER_THREADS
    channel,     \* the jobs sent to each thread and not received
    spawned,     \* how many threads were spawned; they are numbered
    tpc,         \* the step each thread is about to take
    job,         \* the job each thread holds
    result,      \* how its run ended
    gpc,         \* the step each group is about to take
    dispatched,  \* how many of its jobs each group has dispatched
    taken,       \* the thread it took off the list for the next one
    reports,     \* the outcomes in its `done` channel
    received,    \* how many outcomes it has received
    failed,      \* whether it has a `spawn_error` or the payload of a panic
    runs         \* history: how often each job was run

threads == <<tpc, job, result>>
groups == <<gpc, dispatched, taken, received, failed>>
vars == <<idle, channel, spawned, threads, groups, reports, runs>>

-----------------------------------------------------------------------------
JobsOf(g) == {[group |-> g, index |-> i] : i \in 1 .. Count[g]}
AllJobs == UNION {JobsOf(g) : g \in Group}
NextJob(g) == [group |-> g, index |-> dispatched[g] + 1]

Ended == {"returned", "panicked"}
Outcome == {"ok", "panic"}

\* The jobs whose closure, and `done` sender, some thread still has.
Held == {job[t] : t \in {u \in Thread : tpc[u] \in {"run", "push", "report"}}}
Sent == UNION {{channel[t][i] : i \in DOMAIN channel[t]} : t \in Thread}
\* The jobs whose closure may yet use what it borrows.
Unfinished == Sent \cup {job[t] : t \in {u \in Thread : tpc[u] = "run"}}

Init ==
    /\ idle = <<>>
    /\ channel = [t \in Thread |-> <<>>]
    /\ spawned = 0
    /\ tpc = [t \in Thread |-> "unborn"]
    /\ job = [t \in Thread |-> NoJob]
    /\ result = [t \in Thread |-> "ok"]
    /\ gpc = [g \in Group |-> "start"]
    /\ dispatched = [g \in Group |-> 0]
    /\ taken = [g \in Group |-> NoThread]
    /\ reports = [g \in Group |-> <<>>]
    /\ received = [g \in Group |-> 0]
    /\ failed = [g \in Group |-> FALSE]
    /\ runs = [j \in AllJobs |-> 0]

GoGroup(g, l) == gpc' = [gpc EXCEPT ![g] = l]
GoThread(t, l) == tpc' = [tpc EXCEPT ![t] = l]

\* One more job is on its way; after the last, the group drops its own sender.
Dispatched(g) ==
    /\ dispatched' = [dispatched EXCEPT ![g] = @ + 1]
    /\ GoGroup(g, IF dispatched[g] + 1 = Count[g] THEN "collect" ELSE "dispatch")

(* run_work_group *)

\* Single-threaded, or with one job at most, the calling thread runs the jobs
\* in order, and unwinds from the first that panics.
RunInline(g) ==
    \E singleThreaded \in BOOLEAN, ran \in 0 .. Count[g], r \in Outcome :
        /\ gpc[g] = "start"
        /\ singleThreaded \/ Count[g] <= 1
        /\ IF r = "panic" THEN ran > 0 ELSE ran = Count[g]
        /\ runs' = [j \in AllJobs |-> IF j.group = g /\ j.index <= ran THEN 1 ELSE runs[j]]
        /\ GoGroup(g, IF r = "panic" THEN "panicked" ELSE "returned")
        /\ UNCHANGED <<idle, channel, spawned, threads, dispatched, taken, received, failed, reports>>

(* run_checker_job, for the next job of the group *)

\* The list is locked and its last thread taken.
PopIdle(g) ==
    /\ gpc[g] \in {"start", "dispatch"}
    /\ Count[g] > 1
    /\ IF idle # <<>>
         THEN /\ taken' = [taken EXCEPT ![g] = idle[Len(idle)]]
              /\ idle' = SubSeq(idle, 1, Len(idle) - 1)
              /\ GoGroup(g, "send")
         ELSE /\ GoGroup(g, "spawn")
              /\ UNCHANGED <<taken, idle>>
    /\ UNCHANGED <<channel, spawned, threads, dispatched, received, failed, reports, runs>>

\* A thread that is gone gives the job back, for the next one to be tried.
Send(g) ==
    /\ gpc[g] = "send"
    /\ IF tpc[taken[g]] = "dead"
         THEN GoGroup(g, "dispatch") /\ UNCHANGED <<channel, dispatched>>
         ELSE /\ channel' = [channel EXCEPT ![taken[g]] = Append(@, NextJob(g))]
              /\ Dispatched(g)
    /\ taken' = [taken EXCEPT ![g] = NoThread]
    /\ UNCHANGED <<idle, spawned, threads, received, failed, reports, runs>>

Spawn(g) ==
    /\ gpc[g] = "spawn"
    /\ spawned < MaxThreads
    /\ spawned' = spawned + 1
    /\ GoThread(spawned + 1, "run")
    /\ job' = [job EXCEPT ![spawned + 1] = NextJob(g)]
    /\ Dispatched(g)
    /\ UNCHANGED <<idle, channel, result, taken, received, failed, reports, runs>>

\* Mistake: an error of the spawn leaves the group at once.
AbandonGroup(g) ==
    /\ gpc[g] = "spawn"
    /\ GoGroup(g, "panicked")
    /\ UNCHANGED <<idle, channel, spawned, threads, dispatched, taken, received, failed, reports, runs>>

\* The system has no thread to give; the group stops dispatching.
SpawnFails(g) ==
    /\ gpc[g] = "spawn"
    /\ failed' = [failed EXCEPT ![g] = TRUE]
    /\ GoGroup(g, "collect")
    /\ UNCHANGED <<idle, channel, spawned, threads, dispatched, taken, received, reports, runs>>

\* Mistake: the group waits for jobs it never dispatched.
WaitsForAll(g) == Count[g]

Awaited(g) == dispatched[g]

\* The next outcome is received.  `recv` fails, and the group panics over it,
\* when the channel is empty and no job has a sender left.
Receive(g) ==
    /\ gpc[g] = "collect"
    /\ received[g] < Awaited(g)
    /\ reports[g] # <<>> \/ (Sent \cup Held) \cap JobsOf(g) = {}
    /\ IF reports[g] # <<>>
         THEN /\ reports' = [reports EXCEPT ![g] = Tail(@)]
              /\ received' = [received EXCEPT ![g] = @ + 1]
              /\ failed' = [failed EXCEPT ![g] = @ \/ Head(reports[g]) = "panic"]
              /\ UNCHANGED gpc
         ELSE /\ GoGroup(g, "ended without reporting")
              /\ UNCHANGED <<reports, received, failed>>
    /\ UNCHANGED <<idle, channel, spawned, threads, dispatched, taken, runs>>

\* Mistake: the error of a spawn, or a panic, is dropped.
ReturnAnyhow(g) ==
    /\ gpc[g] = "collect"
    /\ received[g] = Awaited(g)
    /\ GoGroup(g, "returned")
    /\ UNCHANGED <<idle, channel, spawned, threads, dispatched, taken, received, failed, reports, runs>>

Return(g) ==
    /\ gpc[g] = "collect"
    /\ received[g] = Awaited(g)
    /\ GoGroup(g, IF failed[g] THEN "panicked" ELSE "returned")
    /\ UNCHANGED <<idle, channel, spawned, threads, dispatched, taken, received, failed, reports, runs>>

(* checker_thread *)

\* The task runs, or unwinds.
Run(t) ==
    /\ tpc[t] = "run"
    /\ runs' = [runs EXCEPT ![job[t]] = @ + 1]
    /\ \E r \in Outcome :
         /\ result' = [result EXCEPT ![t] = r]
         /\ GoThread(t, IF r = "ok" THEN "push" ELSE "report")
    /\ UNCHANGED <<idle, channel, spawned, job, groups, reports>>

\* A thread whose task returned is idle before it reports.
PushIdle(t) ==
    /\ tpc[t] = "push"
    /\ idle' = Append(idle, t)
    /\ GoThread(t, "report")
    /\ UNCHANGED <<channel, spawned, job, result, groups, reports, runs>>

Report(t) ==
    /\ tpc[t] = "report"
    /\ reports' = [reports EXCEPT ![job[t].group] = Append(@, result[t])]
    /\ GoThread(t, IF result[t] = "ok" THEN "wait" ELSE "dead")
    /\ job' = [job EXCEPT ![t] = NoJob]
    /\ result' = [result EXCEPT ![t] = "ok"]
    /\ UNCHANGED <<idle, channel, spawned, groups, runs>>

\* Mistake: a thread is on the list again while it holds a job.
TakeAndOffer(t) ==
    /\ tpc[t] \in {"wait", "recv"}
    /\ channel[t] # <<>>
    /\ job' = [job EXCEPT ![t] = Head(channel[t])]
    /\ channel' = [channel EXCEPT ![t] = Tail(@)]
    /\ idle' = Append(idle, t)
    /\ GoThread(t, "run")
    /\ UNCHANGED <<spawned, result, groups, reports, runs>>

\* `recv_timeout` before the second is over, or `recv` after it.
TakeJob(t) ==
    /\ tpc[t] \in {"wait", "recv"}
    /\ channel[t] # <<>>
    /\ job' = [job EXCEPT ![t] = Head(channel[t])]
    /\ channel' = [channel EXCEPT ![t] = Tail(@)]
    /\ GoThread(t, "run")
    /\ UNCHANGED <<idle, spawned, result, groups, reports, runs>>

TimeOut(t) ==
    /\ tpc[t] = "wait"
    /\ channel[t] = <<>>
    /\ GoThread(t, "leave")
    /\ UNCHANGED <<idle, channel, spawned, job, result, groups, reports, runs>>

\* `swap_remove`: the last element takes the place.
SwapRemove(s, i) ==
    [k \in 1 .. Len(s) - 1 |-> IF k = i THEN s[Len(s)] ELSE s[k]]

Position(t) == CHOOSE i \in DOMAIN idle : idle[i] = t

\* Mistakes: a thread that times out is gone, or stays, whatever the list says.
LeaveForGood(t) ==
    /\ tpc[t] = "leave"
    /\ idle' = SelectSeq(idle, LAMBDA u : u # t)
    /\ GoThread(t, "dead")
    /\ UNCHANGED <<channel, spawned, job, result, groups, reports, runs>>
LeaveNever(t) ==
    /\ tpc[t] = "leave"
    /\ GoThread(t, "recv")
    /\ UNCHANGED <<idle, channel, spawned, job, result, groups, reports, runs>>

\* The list is locked.  A thread that is not on it was taken by a group, and
\* its job is on the way.
Leave(t) ==
    /\ tpc[t] = "leave"
    /\ IF \E i \in DOMAIN idle : idle[i] = t
         THEN idle' = SwapRemove(idle, Position(t)) /\ GoThread(t, "dead")
         ELSE GoThread(t, "recv") /\ UNCHANGED idle
    /\ UNCHANGED <<channel, spawned, job, result, groups, reports, runs>>

\* The groups are over; the process may end, or go on without any.
Done ==
    /\ \A g \in Group : gpc[g] \in Ended \cup {"ended without reporting"}
    /\ UNCHANGED vars

GroupStep(g) ==
    \/ RunInline(g) \/ PopIdle(g) \/ Send(g) \/ Spawn(g) \/ SpawnFails(g)
    \/ Receive(g) \/ Return(g)
ThreadStep(t) ==
    \/ Run(t) \/ PushIdle(t) \/ Report(t) \/ TakeJob(t) \/ TimeOut(t) \/ Leave(t)

Next ==
    \/ \E g \in Group : GroupStep(g)
    \/ \E t \in Thread : ThreadStep(t)
    \/ Done

(* The operating system runs every thread that can go on, a task that      *)
(* creates or asks a checker ends, and the timeout of an idle thread is a  *)
(* second.                                                                 *)
Fairness ==
    /\ \A g \in Group : WF_vars(GroupStep(g))
    /\ \A t \in Thread : WF_vars(ThreadStep(t))

Spec == Init /\ [][Next]_vars /\ Fairness

-----------------------------------------------------------------------------
\* The state of the threads and of the groups.
TypeOK ==
    /\ idle \in Seq(Thread)
    /\ channel \in [Thread -> Seq(AllJobs)]
    /\ spawned \in 0 .. MaxThreads
    /\ tpc \in [Thread -> {"unborn", "run", "push", "report", "wait", "leave", "recv", "dead"}]
    /\ job \in [Thread -> AllJobs \cup {NoJob}]
    /\ result \in [Thread -> Outcome]
    /\ gpc \in [Group -> {"start", "dispatch", "send", "spawn", "collect",
                          "ended without reporting"} \cup Ended]
    /\ dispatched \in [Group -> Nat]
    /\ taken \in [Group -> Thread \cup {NoThread}]
    /\ reports \in [Group -> Seq(Outcome)]
    /\ received \in [Group -> Nat]
    /\ failed \in [Group -> BOOLEAN]
    /\ runs \in [AllJobs -> Nat]

\* What `run_work_group` tells the compiler: no job of a group that returned,
\* or unwound, can still touch what it borrowed from it.
TaskOutlivesJobs ==
    \A j \in Unfinished : gpc[j.group] \notin Ended

\* A group that returned ran each of its jobs once, and no job runs twice
\* however a dispatch, a timeout and a refused send interleave.
EachJobOnce ==
    /\ \A j \in AllJobs : runs[j] <= 1
    /\ \A g \in Group : gpc[g] = "returned" => \A j \in JobsOf(g) : runs[j] = 1

\* "Every job of a group has a thread of its own": no job waits behind another
\* on one thread, so that jobs that wait for each other would not wait for ever.
OwnThread ==
    \A t \in Thread :
        Len(channel[t]) + (IF tpc[t] \in {"run", "push"} THEN 1 ELSE 0) <= 1

\* A thread that a group took off the list is still there to be sent a job.
TakenIsAlive ==
    \A g \in Group : gpc[g] = "send" => tpc[taken[g]] \notin {"unborn", "dead"}

\* Every group returns, or unwinds with the panic of a job or of a spawn, and
\* never over a job that ended without reporting.
GroupsEnd == \A g \in Group : <>(gpc[g] \in Ended)

\* When the groups are over, the threads give their memory back.
ThreadsEnd == <>[](\A t \in Thread : tpc[t] \in {"unborn", "dead"})
=============================================================================
