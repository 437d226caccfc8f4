----------------------- MODULE CheckerThreadsProofs ------------------------
(***************************************************************************)
(* For any number of work groups, jobs and threads: what `run_work_group`  *)
(* tells the compiler about the lifetime of its task is so.  No job that   *)
(* was dispatched is left when it returns or unwinds, no thread ends while *)
(* a group has taken it, and no job ends without reporting.                *)
(***************************************************************************)
EXTENDS CheckerThreads, FiniteSetTheorems, SequenceTheorems, TLAPS

Idle(t) == \E i \in DOMAIN idle : idle[i] = t
Busy(t) == tpc[t] \in {"run", "push", "report"}
\* A thread that receives the next job it is sent.
Ready(t) == tpc[t] \in {"wait", "leave", "recv"} \/ (tpc[t] = "report" /\ result[t] = "ok")
Full(t) == channel[t] # <<>>

\* A thread on the list, or taken off it, or sent a job, is in one of the three
\* cases and is there to receive.
ThreadInv ==
    /\ \A i, k \in DOMAIN idle : idle[i] = idle[k] => i = k
    /\ \A t \in Thread : Idle(t) => Ready(t) /\ ~Full(t)
    /\ \A t \in Thread : Full(t) => Ready(t) /\ Len(channel[t]) = 1
    /\ \A t \in Thread : tpc[t] = "push" => result[t] = "ok"
    /\ \A t \in Thread : tpc[t] = "unborn" <=> t > spawned
TakenInv ==
    /\ \A g \in Group : gpc[g] = "send" =>
         taken[g] \in Thread /\ Ready(taken[g]) /\ ~Full(taken[g]) /\ ~Idle(taken[g])
    /\ \A g, h \in Group : gpc[g] = "send" /\ gpc[h] = "send" /\ taken[g] = taken[h] => g = h

\* A job is with one thread only, and was dispatched.
JobInv ==
    /\ \A t \in Thread : Busy(t) => job[t] \in AllJobs
    /\ \A t, u \in Thread : Busy(t) /\ Busy(u) /\ job[t] = job[u] => t = u
    /\ \A t, u \in Thread : Full(t) /\ Full(u) /\ channel[t][1] = channel[u][1] => t = u
    /\ \A t, u \in Thread : Busy(t) /\ Full(u) => job[t] # channel[u][1]
    /\ \A t \in Thread : Busy(t) => job[t].index <= dispatched[job[t].group]
    /\ \A t \in Thread : Full(t) => channel[t][1].index <= dispatched[channel[t][1].group]

\* The jobs of a group that some thread has, or will receive.
IsOut(j) == \/ \E t \in Thread : Busy(t) /\ job[t] = j
            \/ \E t \in Thread : Full(t) /\ channel[t][1] = j
Out(g) == {j \in JobsOf(g) : IsOut(j)}

\* Every job dispatched is out, has reported, or was received.
CountInv ==
    \A g \in Group : Cardinality(Out(g)) + Len(reports[g]) + received[g] = dispatched[g]

GroupInv ==
    \A g \in Group :
        /\ gpc[g] = "start" => dispatched[g] = 0
        /\ gpc[g] \in {"dispatch", "send", "spawn"} => dispatched[g] < Count[g]
        /\ gpc[g] \in Ended => Out(g) = {}
        /\ gpc[g] # "ended without reporting"

Inv == TypeOK /\ ThreadInv /\ TakenInv /\ JobInv /\ CountInv /\ GroupInv

-----------------------------------------------------------------------------
LEMMA JobFields ==
    ASSUME NEW j \in AllJobs
    PROVE  j.group \in Group /\ j.index \in 1 .. Count[j.group] /\ j \in JobsOf(j.group)
BY DEF AllJobs, JobsOf

LEMMA JobMade ==
    ASSUME NEW g \in Group, NEW j \in JobsOf(g)
    PROVE  j \in AllJobs /\ j.group = g
BY DEF AllJobs, JobsOf

LEMMA NextJobMade ==
    ASSUME TypeOK, NEW g \in Group, dispatched[g] < Count[g]
    PROVE  /\ NextJob(g) \in JobsOf(g) /\ NextJob(g) \in AllJobs
           /\ NextJob(g).group = g /\ NextJob(g).index = dispatched[g] + 1
<1>1. dispatched[g] \in Nat /\ Count[g] \in Nat
  BY CountAssumption DEF TypeOK
<1>2. dispatched[g] + 1 \in 1 .. Count[g]
  BY <1>1
<1> QED
  BY <1>2 DEF NextJob, JobsOf, AllJobs

LEMMA GroupTypes ==
    ASSUME TypeOK, NEW g \in Group
    PROVE  /\ dispatched[g] \in Nat /\ received[g] \in Nat
           /\ reports[g] \in Seq(Outcome) /\ Len(reports[g]) \in Nat
<1>1. reports[g] \in Seq(Outcome)
  BY DEF TypeOK
<1>2. dispatched[g] \in Nat /\ received[g] \in Nat
  BY DEF TypeOK
<1> QED
  BY <1>1, <1>2

LEMMA FirstSent ==
    ASSUME TypeOK, NEW t \in Thread, Len(channel[t]) = 1
    PROVE  1 \in DOMAIN channel[t] /\ channel[t][1] \in AllJobs
<1>1. channel[t] \in Seq(AllJobs)
  BY DEF TypeOK
<1> QED
  BY <1>1

LEMMA FiniteJobs ==
    ASSUME NEW g \in Group
    PROVE  IsFiniteSet(JobsOf(g))
<1> DEFINE f == [i \in 1 .. Count[g] |-> [group |-> g, index |-> i]]
<1>1. IsFiniteSet(1 .. Count[g])
  BY FS_Interval, CountAssumption
<1>2. f \in Surjection(1 .. Count[g], JobsOf(g))
  BY DEF Surjection, JobsOf
<1> QED
  BY <1>1, <1>2, FS_Surjection

LEMMA FiniteOut ==
    ASSUME NEW g \in Group
    PROVE  IsFiniteSet(Out(g)) /\ Cardinality(Out(g)) \in Nat
<1>1. Out(g) \subseteq JobsOf(g)
  BY DEF Out
<1> QED
  BY <1>1, FiniteJobs, FS_Subset, FS_CardinalityType

\* No job is out for a group that has dispatched none.
LEMMA NothingOut ==
    ASSUME TypeOK, JobInv, NEW g \in Group, dispatched[g] = 0
    PROVE  Out(g) = {}
<1> SUFFICES ASSUME NEW j \in Out(g) PROVE FALSE
  OBVIOUS
<1>1. j.group = g /\ j.index \in Nat /\ j.index > 0
  BY JobFields, JobMade, CountAssumption DEF Out
<1>2. j.index <= dispatched[g]
  BY <1>1 DEF Out, IsOut, JobInv
<1> QED
  BY <1>1, <1>2

-----------------------------------------------------------------------------
(* A step of a group that sends nothing. *)

LEMMA SameThreads ==
    ASSUME ThreadInv, JobInv, UNCHANGED <<idle, channel, spawned, threads, dispatched>>
    PROVE  ThreadInv' /\ JobInv' /\ \A g \in Group : Out(g)' = Out(g)
<1>1. \A t \in Thread : /\ Idle(t)' <=> Idle(t)
                        /\ Busy(t)' <=> Busy(t)
                        /\ Ready(t)' <=> Ready(t)
                        /\ Full(t)' <=> Full(t)
  BY DEF threads, Idle, Busy, Ready, Full
<1>2. ThreadInv'
  BY <1>1 DEF ThreadInv, threads
<1>3. JobInv'
  BY <1>1 DEF JobInv, threads
<1> QED
  BY <1>1, <1>2, <1>3 DEF Out, IsOut, threads

LEMMA SameTaken ==
    ASSUME TypeOK, TakenInv, UNCHANGED <<idle, channel, threads, taken>>, NEW g \in Group,
           NEW l, l # "send", GoGroup(g, l)
    PROVE  TakenInv'
<1>1. \A h \in Group : gpc'[h] = "send" => gpc[h] = "send"
  BY DEF GoGroup, TypeOK
<1>2. \A t \in Thread : /\ Idle(t)' <=> Idle(t)
                        /\ Ready(t)' <=> Ready(t)
                        /\ Full(t)' <=> Full(t)
  BY DEF threads, Idle, Ready, Full
<1> QED
  BY <1>1, <1>2 DEF TakenInv

LEMMA InlineInv ==
    ASSUME Inv, NEW g \in Group, RunInline(g)
    PROVE  Inv'
<1>0. PICK ran \in 0 .. Count[g], r \in Outcome :
        /\ runs' = [j \in AllJobs |-> IF j.group = g /\ j.index <= ran THEN 1 ELSE runs[j]]
        /\ GoGroup(g, IF r = "panic" THEN "panicked" ELSE "returned")
  BY DEF RunInline
<1>1. /\ gpc[g] = "start"
      /\ UNCHANGED <<idle, channel, spawned, threads, dispatched, taken, received, failed, reports>>
  BY DEF RunInline
<1>2. PICK l \in Ended : GoGroup(g, l)
  BY <1>0 DEF Ended
<1>3. TypeOK'
  <2>1. runs' \in [AllJobs -> Nat]
    BY <1>0 DEF Inv, TypeOK
  <2> QED
    BY <1>1, <1>2, <2>1 DEF Inv, TypeOK, GoGroup, threads, Ended
<1>4. ThreadInv' /\ JobInv' /\ \A h \in Group : Out(h)' = Out(h)
  BY <1>1, SameThreads DEF Inv
<1>5. TakenInv'
  BY <1>1, <1>2, SameTaken DEF Inv, Ended
<1>6. CountInv'
  BY <1>1, <1>4 DEF Inv, CountInv
<1>7. Out(g) = {}
  BY <1>1, NothingOut DEF Inv, GroupInv
<1>8. GroupInv'
  BY <1>1, <1>2, <1>4, <1>7 DEF Inv, GroupInv, GoGroup, TypeOK, Ended
<1> QED
  BY <1>3, <1>4, <1>5, <1>6, <1>8 DEF Inv

\* A group finds no idle thread, cannot spawn one, or returns.
LEMMA QuietGroup ==
    ASSUME Inv, NEW g \in Group, NEW l \in {"spawn", "collect", "panicked", "returned"},
           GoGroup(g, l), failed' \in [Group -> BOOLEAN],
           l = "spawn" => dispatched[g] < Count[g],
           l \in Ended => Out(g) = {},
           UNCHANGED <<idle, channel, spawned, threads, dispatched, taken, received, reports, runs>>
    PROVE  Inv'
<1>1. TypeOK'
  BY DEF Inv, TypeOK, GoGroup, threads, Ended
<1>2. ThreadInv' /\ JobInv' /\ \A h \in Group : Out(h)' = Out(h)
  BY SameThreads DEF Inv
<1>3. TakenInv'
  BY SameTaken DEF Inv
<1>4. CountInv'
  BY <1>2 DEF Inv, CountInv
<1>5. GroupInv'
  BY <1>2 DEF Inv, GroupInv, GoGroup, TypeOK
<1> QED
  BY <1>1, <1>2, <1>3, <1>4, <1>5 DEF Inv

LEMMA SpawnFailsInv ==
    ASSUME Inv, NEW g \in Group, SpawnFails(g)
    PROVE  Inv'
<1>1. failed' \in [Group -> BOOLEAN]
  BY DEF Inv, TypeOK, SpawnFails
<1> QED
  BY <1>1, QuietGroup DEF SpawnFails, Ended

LEMMA ReturnInv ==
    ASSUME Inv, NEW g \in Group, Return(g)
    PROVE  Inv'
<1>1. received[g] = dispatched[g]
  BY DEF Return, Awaited
<1>2. /\ Cardinality(Out(g)) \in Nat /\ Len(reports[g]) \in Nat /\ received[g] \in Nat
      /\ Cardinality(Out(g)) + Len(reports[g]) + received[g] = received[g]
  BY <1>1, FiniteOut, GroupTypes DEF Inv, CountInv
<1>3. Cardinality(Out(g)) = 0
  BY <1>2
<1>4. Out(g) = {}
  BY <1>3, FiniteOut, FS_EmptySet
<1>5. failed' \in [Group -> BOOLEAN]
  BY DEF Return, Inv, TypeOK
<1>6. PICK l \in Ended : GoGroup(g, l)
  BY DEF Return, Ended
<1> QED
  BY <1>4, <1>5, <1>6, QuietGroup DEF Return, Ended

\* The outcome is there: a group that still waits for one has a job out or an
\* outcome in the channel.
LEMMA ReceiveInv ==
    ASSUME Inv, NEW g \in Group, Receive(g)
    PROVE  Inv'
<1>0. /\ Cardinality(Out(g)) \in Nat /\ received[g] \in Nat /\ dispatched[g] \in Nat
      /\ reports[g] \in Seq(Outcome) /\ Len(reports[g]) \in Nat
      /\ Cardinality(Out(g)) + Len(reports[g]) + received[g] = dispatched[g]
      /\ received[g] < dispatched[g]
  BY FiniteOut, GroupTypes DEF Inv, CountInv, Receive, Awaited
<1>1. reports[g] # <<>>
  <2> SUFFICES ASSUME reports[g] = <<>> PROVE FALSE
    OBVIOUS
  <2>1. Len(reports[g]) = 0
    OBVIOUS
  <2>2. Cardinality(Out(g)) # 0
    <3> DEFINE c == Cardinality(Out(g))
               l == Len(reports[g])
    <3>1. c \in Nat /\ l = 0 /\ c + l + received[g] = dispatched[g]
      BY <1>0, <2>1
    <3> HIDE DEF c, l
    <3>2. c # 0
      BY <1>0, <3>1
    <3> QED
      BY <3>2 DEF c
  <2>3. Out(g) # {}
    BY <2>2, FS_EmptySet
  <2>4. PICK j \in JobsOf(g) : \/ \E t \in Thread : Busy(t) /\ job[t] = j
                               \/ \E t \in Thread : Full(t) /\ channel[t][1] = j
    BY <2>3 DEF Out, IsOut
  <2>5. CASE \E t \in Thread : Busy(t) /\ job[t] = j
    BY <2>5 DEF Busy, Held, Receive
  <2>6. CASE \E t \in Thread : Full(t) /\ channel[t][1] = j
    <3>1. PICK t \in Thread : Full(t) /\ channel[t][1] = j
      BY <2>6
    <3>2. 1 \in DOMAIN channel[t]
      BY <3>1, FirstSent DEF Inv, ThreadInv
    <3>3. j \in Sent
      BY <3>1, <3>2 DEF Sent
    <3> QED
      BY <3>3 DEF Receive
  <2> QED
    BY <2>4, <2>5, <2>6
<1>2. /\ gpc[g] = "collect"
      /\ reports' = [reports EXCEPT ![g] = Tail(@)]
      /\ received' = [received EXCEPT ![g] = @ + 1]
      /\ failed' = [failed EXCEPT ![g] = @ \/ Head(reports[g]) = "panic"]
      /\ UNCHANGED <<gpc, idle, channel, spawned, threads, dispatched, taken, runs>>
  BY <1>1 DEF Receive
<1>3. Tail(reports[g]) \in Seq(Outcome) /\ Len(Tail(reports[g])) = Len(reports[g]) - 1
  BY <1>0, <1>1
<1>4. TypeOK'
  <2>1. failed' \in [Group -> BOOLEAN]
    BY <1>2 DEF Inv, TypeOK
  <2>2. received' \in [Group -> Nat] /\ reports' \in [Group -> Seq(Outcome)]
    <3>1. received \in [Group -> Nat] /\ reports \in [Group -> Seq(Outcome)]
      BY DEF Inv, TypeOK
    <3> QED
      BY <1>0, <1>2, <1>3, <3>1
  <2> QED
    BY <1>2, <2>1, <2>2 DEF Inv, TypeOK, threads
<1>5. ThreadInv' /\ JobInv' /\ \A h \in Group : Out(h)' = Out(h)
  BY <1>2, SameThreads DEF Inv
<1>6. TakenInv'
  BY <1>2 DEF Inv, TakenInv, threads, Ready, Full, Idle
<1>7. CountInv'
  <2> SUFFICES ASSUME NEW h \in Group
               PROVE  Cardinality(Out(h)') + Len(reports'[h]) + received'[h] = dispatched[h]
    BY <1>2 DEF CountInv
  <2>1. CASE h = g
    <3>1. reports'[g] = Tail(reports[g]) /\ received'[g] = received[g] + 1
      BY <1>2 DEF Inv, TypeOK
    <3> DEFINE c == Cardinality(Out(g))
               l == Len(reports[g])
    <3>2. c \in Nat /\ l \in Nat /\ c + l + received[g] = dispatched[g]
      BY <1>0
    <3>3. Cardinality(Out(g)') = c /\ Len(reports'[g]) = l - 1
      BY <1>3, <1>5, <3>1
    <3> HIDE DEF c, l
    <3>4. c + (l - 1) + (received[g] + 1) = dispatched[g]
      BY <1>0, <3>2
    <3> QED
      BY <2>1, <3>1, <3>3, <3>4
  <2>2. CASE h # g
    <3>1. reports'[h] = reports[h] /\ received'[h] = received[h]
      BY <1>2, <2>2 DEF Inv, TypeOK
    <3> QED
      BY <1>5, <3>1 DEF Inv, CountInv
  <2> QED
    BY <2>1, <2>2
<1>8. GroupInv'
  BY <1>2, <1>5 DEF Inv, GroupInv
<1> QED
  BY <1>4, <1>5, <1>6, <1>7, <1>8 DEF Inv

-----------------------------------------------------------------------------
(* Taking a thread, and dispatching a job. *)

LEMMA PopIdleInv ==
    ASSUME Inv, NEW g \in Group, PopIdle(g)
    PROVE  Inv'
<1>0. Count[g] \in Nat /\ Count[g] > 1 /\ gpc[g] \in {"start", "dispatch"}
  BY CountAssumption DEF PopIdle
<1>1. dispatched[g] < Count[g]
  <2>1. dispatched[g] = 0 \/ dispatched[g] < Count[g]
    BY <1>0 DEF Inv, GroupInv
  <2> QED
    BY <1>0, <2>1
<1>2. CASE idle = <<>>
  <2>1. failed' \in [Group -> BOOLEAN]
    BY DEF PopIdle, Inv, TypeOK
  <2> QED
    BY <1>1, <1>2, <2>1, QuietGroup DEF PopIdle, Ended
<1>3. CASE idle # <<>>
  <2> DEFINE n == Len(idle)
  <2>0. idle \in Seq(Thread)
    BY DEF Inv, TypeOK
  <2>1. idle \in Seq(Thread) /\ n \in Nat /\ n > 0
    BY <1>3, <2>0
  <2>2. PICK t \in Thread : t = idle[n]
    BY <2>1
  <2>3. /\ taken' = [taken EXCEPT ![g] = t]
        /\ idle' = SubSeq(idle, 1, n - 1)
        /\ GoGroup(g, "send")
        /\ gpc[g] \in {"start", "dispatch"}
        /\ UNCHANGED <<channel, spawned, threads, dispatched, received, failed, reports, runs>>
    BY <1>3, <2>2 DEF PopIdle
  <2>4. /\ idle' \in Seq(Thread) /\ DOMAIN idle' = 1 .. n - 1 /\ DOMAIN idle = 1 .. n
        /\ \A i \in 1 .. n - 1 : idle'[i] = idle[i]
    BY <2>1, <2>3
  <2>5. \A u \in Thread : Idle(u)' => Idle(u)
    BY <2>1, <2>4 DEF Idle
  <2>6. Idle(t) /\ ~Idle(t)'
    BY <2>1, <2>2, <2>4 DEF Idle, Inv, ThreadInv
  <2>7. \A u \in Thread : (Ready(u)' <=> Ready(u)) /\ (Full(u)' <=> Full(u)) /\ (Busy(u)' <=> Busy(u))
    BY <2>3 DEF Ready, Full, Busy, threads
  <2>8. TypeOK'
    BY <2>3, <2>4 DEF Inv, TypeOK, GoGroup, threads
  <2>9. ThreadInv'
    <3>1. \A i, k \in DOMAIN idle' : idle'[i] = idle'[k] => i = k
      BY <2>1, <2>4 DEF Inv, ThreadInv
    <3> QED
      BY <2>3, <2>5, <2>7, <3>1 DEF Inv, ThreadInv, threads
  <2>10. /\ gpc'[g] = "send" /\ taken'[g] = t
         /\ \A h \in Group : h # g => gpc'[h] = gpc[h] /\ taken'[h] = taken[h]
    BY <2>3 DEF GoGroup, Inv, TypeOK
  <2>11. TakenInv'
    <3>1. Ready(t) /\ ~Full(t)
      BY <2>6 DEF Inv, ThreadInv
    <3>2. \A h \in Group : h # g /\ gpc[h] = "send" =>
            taken[h] \in Thread /\ Ready(taken[h]) /\ ~Full(taken[h]) /\ ~Idle(taken[h]) /\ taken[h] # t
      BY <2>6 DEF Inv, TakenInv
    <3>3. \A h \in Group : gpc'[h] = "send" =>
            \E u \in Thread : u = taken'[h] /\ Ready(u)' /\ ~Full(u)' /\ ~Idle(u)'
      BY <2>5, <2>6, <2>7, <2>10, <3>1, <3>2
    <3>4. \A h, k \in Group : gpc'[h] = "send" /\ gpc'[k] = "send" /\ taken'[h] = taken'[k] => h = k
      BY <2>10, <3>2 DEF Inv, TakenInv
    <3> QED
      BY <3>3, <3>4 DEF TakenInv
  <2>12. JobInv' /\ \A h \in Group : Out(h)' = Out(h)
    BY <2>3, <2>7 DEF Inv, JobInv, Out, IsOut, threads
  <2>13. CountInv'
    BY <2>3, <2>12 DEF Inv, CountInv
  <2>14. GroupInv'
    BY <1>1, <2>3, <2>10, <2>12 DEF Inv, GroupInv, Ended
  <2> QED
    BY <2>8, <2>9, <2>11, <2>12, <2>13, <2>14 DEF Inv
<1> QED
  BY <1>2, <1>3

\* The next job of a group is with no thread.
LEMMA NextIsNew ==
    ASSUME Inv, NEW g \in Group, dispatched[g] < Count[g]
    PROVE  /\ \A t \in Thread : Busy(t) => job[t] # NextJob(g)
           /\ \A t \in Thread : Full(t) => channel[t][1] # NextJob(g)
           /\ NextJob(g) \notin Out(g)
<1>1. NextJob(g).group = g /\ NextJob(g).index = dispatched[g] + 1 /\ dispatched[g] \in Nat
  BY NextJobMade, GroupTypes DEF Inv
<1>2. \A t \in Thread : Busy(t) => job[t] # NextJob(g)
  BY <1>1 DEF Inv, JobInv
<1>3. \A t \in Thread : Full(t) => channel[t][1] # NextJob(g)
  BY <1>1 DEF Inv, JobInv
<1> QED
  BY <1>2, <1>3 DEF Out, IsOut

LEMMA DispatchedFacts ==
    ASSUME TypeOK, NEW g \in Group, Dispatched(g)
    PROVE  /\ dispatched' \in [Group -> Nat]
           /\ dispatched'[g] = dispatched[g] + 1
           /\ gpc' \in [Group -> {"start", "dispatch", "send", "spawn", "collect",
                                  "ended without reporting"} \cup Ended]
           /\ gpc'[g] # "send"
           /\ \A h \in Group : h # g => dispatched'[h] = dispatched[h] /\ gpc'[h] = gpc[h]
           /\ \A h \in Group : \A i \in Nat : i <= dispatched[h] => i <= dispatched'[h]
<1>1. dispatched \in [Group -> Nat] /\ dispatched' = [dispatched EXCEPT ![g] = @ + 1]
  BY DEF TypeOK, Dispatched
<1>2. PICK l \in {"collect", "dispatch"} : gpc' = [gpc EXCEPT ![g] = l]
  BY DEF Dispatched, GoGroup
<1>3. \A h \in Group : h # g => dispatched'[h] = dispatched[h]
  BY <1>1
<1>4. dispatched'[g] = dispatched[g] + 1 /\ dispatched[g] \in Nat
  BY <1>1
<1>5. \A h \in Group : dispatched[h] \in Nat
  BY <1>1
<1>6. \A h \in Group : \A i \in Nat : i <= dispatched[h] => i <= dispatched'[h]
  BY <1>3, <1>4, <1>5
<1>7. /\ gpc' \in [Group -> {"start", "dispatch", "send", "spawn", "collect",
                             "ended without reporting"} \cup Ended]
      /\ gpc'[g] # "send"
      /\ \A h \in Group : h # g => gpc'[h] = gpc[h]
  BY <1>2 DEF TypeOK
<1>8. dispatched' \in [Group -> Nat]
  BY <1>1
<1> QED
  BY <1>3, <1>4, <1>6, <1>7, <1>8

LEMMA OutGrows ==
    ASSUME NEW g \in Group, NEW n \in JobsOf(g), \A j : IsOut(j)' <=> j = n \/ IsOut(j)
    PROVE  /\ Out(g)' = Out(g) \cup {n}
           /\ \A h \in Group : h # g => Out(h)' = Out(h)
<1>1. \A h \in Group : h # g => n \notin JobsOf(h)
  BY JobMade
<1>2. Out(g)' = Out(g) \cup {n}
  BY DEF Out
<1>3. \A h \in Group : h # g => Out(h)' = Out(h)
  BY <1>1 DEF Out
<1> QED
  BY <1>2, <1>3

LEMMA DispatchInv ==
    ASSUME Inv, NEW g \in Group, gpc[g] \in {"send", "spawn"}, Dispatched(g),
           NEW n, n = NextJob(g), Out(g)' = Out(g) \cup {n},
           \A h \in Group : h # g => Out(h)' = Out(h),
           UNCHANGED <<reports, received>>
    PROVE  CountInv' /\ GroupInv'
<1>1. dispatched[g] < Count[g] /\ dispatched[g] \in Nat /\ Count[g] \in Nat
  BY GroupTypes, CountAssumption DEF Inv, GroupInv
<1>2. /\ dispatched'[g] = dispatched[g] + 1
      /\ \A h \in Group : h # g => dispatched'[h] = dispatched[h] /\ gpc'[h] = gpc[h]
      /\ gpc'[g] = IF dispatched[g] + 1 = Count[g] THEN "collect" ELSE "dispatch"
  BY DEF Dispatched, GoGroup, Inv, TypeOK
<1>3. CountInv'
  <2> SUFFICES ASSUME NEW h \in Group
               PROVE  Cardinality(Out(h)') + Len(reports[h]) + received[h] = dispatched'[h]
    BY DEF CountInv
  <2>1. CASE h = g
    <3> DEFINE c == Cardinality(Out(g))
               l == Len(reports[g])
               r == received[g]
    <3>1. Cardinality(Out(g)') = c + 1
      BY <1>1, NextIsNew, FiniteOut, FS_AddElement
    <3>2. c \in Nat /\ l \in Nat /\ r \in Nat /\ c + l + r = dispatched[g]
      BY FiniteOut, GroupTypes DEF Inv, CountInv
    <3> HIDE DEF c, l, r
    <3>3. c + 1 + l + r = dispatched[g] + 1
      BY <1>1, <3>2
    <3> QED
      BY <1>2, <2>1, <3>1, <3>3 DEF l, r
  <2>2. CASE h # g
    BY <1>2, <2>2 DEF Inv, CountInv
  <2> QED
    BY <2>1, <2>2
<1>4. GroupInv'
  <2> SUFFICES ASSUME NEW h \in Group
               PROVE  /\ gpc'[h] = "start" => dispatched'[h] = 0
                      /\ gpc'[h] \in {"dispatch", "send", "spawn"} => dispatched'[h] < Count[h]
                      /\ gpc'[h] \in Ended => Out(h)' = {}
                      /\ gpc'[h] # "ended without reporting"
    BY DEF GroupInv
  <2>1. CASE h = g
    <3>1. CASE dispatched[g] + 1 = Count[g]
      <4>1. gpc'[g] = "collect"
        BY <1>2, <3>1
      <4> QED
        BY <2>1, <4>1 DEF Ended
    <3>2. CASE dispatched[g] + 1 # Count[g]
      <4>1. gpc'[g] = "dispatch"
        BY <1>2, <3>2
      <4>2. dispatched'[g] < Count[g]
        BY <1>1, <1>2, <3>2
      <4> QED
        BY <2>1, <4>1, <4>2 DEF Ended
    <3> QED
      BY <3>1, <3>2
  <2>2. CASE h # g
    BY <1>2, <2>2 DEF Inv, GroupInv
  <2> QED
    BY <2>1, <2>2
<1> QED
  BY <1>3, <1>4

LEMMA SendInv ==
    ASSUME Inv, NEW g \in Group, Send(g)
    PROVE  Inv'
<1>0. dispatched[g] < Count[g] /\ gpc[g] = "send"
  BY DEF Send, Inv, GroupInv
<1>1. PICK t \in Thread : t = taken[g] /\ Ready(t) /\ ~Full(t) /\ ~Idle(t)
  BY <1>0 DEF Inv, TakenInv
<1>2. PICK n \in AllJobs : n = NextJob(g)
  BY <1>0, NextJobMade DEF Inv
<1>3. /\ n \in JobsOf(g) /\ n.group = g /\ n.index = dispatched[g] + 1 /\ dispatched[g] \in Nat
  BY <1>0, <1>2, NextJobMade, GroupTypes DEF Inv
<1>4. tpc[t] # "dead"
  BY <1>1 DEF Ready
<1>5. /\ channel' = [channel EXCEPT ![t] = Append(@, n)]
      /\ Dispatched(g)
      /\ taken' = [taken EXCEPT ![g] = NoThread]
      /\ UNCHANGED <<idle, spawned, threads, received, failed, reports, runs>>
  BY <1>1, <1>2, <1>4 DEF Send
<1>6. /\ channel' \in [Thread -> Seq(AllJobs)]
      /\ channel'[t] = <<n>>
      /\ \A u \in Thread : u # t => channel'[u] = channel[u]
  <2>1. channel \in [Thread -> Seq(AllJobs)] /\ channel[t] = <<>>
    BY <1>1 DEF Inv, TypeOK, Full
  <2>2. Append(<<>>, n) = <<n>> /\ <<n>> \in Seq(AllJobs)
    OBVIOUS
  <2> QED
    BY <1>5, <2>1, <2>2
<1>7. Full(t)' /\ channel'[t][1] = n /\ Len(channel'[t]) = 1
  BY <1>6 DEF Full
<1>8. /\ \A u \in Thread : u # t => (Full(u)' <=> Full(u))
      /\ \A u \in Thread : (Ready(u)' <=> Ready(u)) /\ (Busy(u)' <=> Busy(u)) /\ (Idle(u)' <=> Idle(u))
  BY <1>5, <1>6 DEF Full, Ready, Busy, Idle, threads
<1>9. /\ dispatched' \in [Group -> Nat]
      /\ dispatched'[g] = dispatched[g] + 1
      /\ gpc' \in [Group -> {"start", "dispatch", "send", "spawn", "collect",
                             "ended without reporting"} \cup Ended]
      /\ gpc'[g] # "send"
      /\ \A h \in Group : h # g => dispatched'[h] = dispatched[h] /\ gpc'[h] = gpc[h]
      /\ \A h \in Group : \A i \in Nat : i <= dispatched[h] => i <= dispatched'[h]
  BY <1>5, DispatchedFacts DEF Inv
<1>17. \A h \in Group : h # g => taken'[h] = taken[h]
  BY <1>5 DEF Inv, TypeOK
<1>10. TypeOK'
  <2>1. taken' \in [Group -> Thread \cup {NoThread}]
    BY <1>5 DEF Inv, TypeOK
  <2> QED
    BY <1>5, <1>6, <1>9, <2>1 DEF Inv, TypeOK, threads
<1>11. ThreadInv'
  <2>1. \A u \in Thread : Idle(u)' => Ready(u)' /\ ~Full(u)'
    BY <1>1, <1>8 DEF Inv, ThreadInv
  <2>2. \A u \in Thread : Full(u)' => Ready(u)' /\ Len(channel'[u]) = 1
    BY <1>1, <1>6, <1>7, <1>8 DEF Inv, ThreadInv
  <2> QED
    BY <1>5, <2>1, <2>2 DEF Inv, ThreadInv, threads
<1>12. TakenInv'
  <2>1. \A h \in Group : gpc'[h] = "send" =>
          /\ h # g /\ gpc[h] = "send" /\ taken'[h] = taken[h] /\ taken[h] # t
          /\ taken[h] \in Thread /\ Ready(taken[h]) /\ ~Full(taken[h]) /\ ~Idle(taken[h])
    BY <1>0, <1>1, <1>9, <1>17 DEF Inv, TakenInv
  <2>2. \A h \in Group : gpc'[h] = "send" =>
          \E u \in Thread : u = taken'[h] /\ Ready(u)' /\ ~Full(u)' /\ ~Idle(u)'
    BY <1>8, <2>1
  <2>3. \A h, k \in Group : gpc'[h] = "send" /\ gpc'[k] = "send" /\ taken'[h] = taken'[k] => h = k
    BY <2>1 DEF Inv, TakenInv
  <2> QED
    BY <2>2, <2>3 DEF TakenInv
<1>13. /\ \A u \in Thread : Busy(u) => job[u] # n
       /\ \A u \in Thread : Full(u) => channel[u][1] # n
  BY <1>0, <1>2, NextIsNew
<1>14. JobInv'
  <2>1. \A u, w \in Thread : Full(u)' /\ Full(w)' /\ channel'[u][1] = channel'[w][1] => u = w
    BY <1>6, <1>7, <1>8, <1>13 DEF Inv, JobInv
  <2>2. \A u, w \in Thread : Busy(u)' /\ Full(w)' => job'[u] # channel'[w][1]
    BY <1>5, <1>6, <1>7, <1>8, <1>13 DEF Inv, JobInv, threads
  <2>3. \A u \in Thread : Busy(u)' => job'[u] \in AllJobs /\ job'[u].index <= dispatched'[job'[u].group]
    <3> SUFFICES ASSUME NEW u \in Thread, Busy(u)
                 PROVE  job[u] \in AllJobs /\ job[u].index <= dispatched'[job[u].group]
      BY <1>5, <1>8 DEF threads
    <3>1. job[u] \in AllJobs /\ job[u].index <= dispatched[job[u].group]
      BY DEF Inv, JobInv
    <3>2. job[u].group \in Group /\ job[u].index \in Nat
      BY <3>1, JobFields, CountAssumption
    <3> QED
      BY <1>9, <3>1, <3>2
  <2>4. \A u \in Thread : Full(u)' => channel'[u][1].index <= dispatched'[channel'[u][1].group]
    <3> SUFFICES ASSUME NEW u \in Thread, Full(u)'
                 PROVE  channel'[u][1].index <= dispatched'[channel'[u][1].group]
      OBVIOUS
    <3>1. CASE u = t
      <4>1. dispatched'[g] \in Nat
        BY <1>9
      <4>4. dispatched'[g] <= dispatched'[g]
        BY <4>1
      <4>5. n.index = dispatched'[g] /\ n.group = g
        BY <1>3, <1>9, Zenon
      <4>2. n.index <= dispatched'[n.group]
        BY <4>4, <4>5, Zenon
      <4>3. channel'[u][1] = n
        BY <1>7, <3>1
      <4> QED
        BY <4>2, <4>3, Zenon
    <3>2. CASE u # t
      <4>1. channel'[u][1] = channel[u][1] /\ Full(u)
        BY <1>6, <1>8, <3>2
      <4>2. channel[u][1].index <= dispatched[channel[u][1].group] /\ channel[u][1] \in AllJobs
        BY <4>1, FirstSent DEF Inv, JobInv, ThreadInv
      <4>3. channel[u][1].group \in Group /\ channel[u][1].index \in Nat
        BY <4>2, JobFields, CountAssumption
      <4> QED
        BY <1>9, <4>1, <4>2, <4>3
    <3> QED
      BY <3>1, <3>2
  <2>5. \A u, w \in Thread : Busy(u)' /\ Busy(w)' /\ job'[u] = job'[w] => u = w
    BY <1>5, <1>8 DEF Inv, JobInv, threads
  <2> QED
    BY <2>1, <2>2, <2>3, <2>4, <2>5 DEF JobInv
<1>15. /\ Out(g)' = Out(g) \cup {n}
       /\ \A h \in Group : h # g => Out(h)' = Out(h)
  <2>1. \A j : (\E u \in Thread : Full(u)' /\ channel'[u][1] = j) <=>
               j = n \/ (\E u \in Thread : Full(u) /\ channel[u][1] = j)
    BY <1>1, <1>6, <1>7, <1>8
  <2>2. \A j : (\E u \in Thread : Busy(u)' /\ job'[u] = j) <=> (\E u \in Thread : Busy(u) /\ job[u] = j)
    BY <1>5, <1>8 DEF threads
  <2>3. \A j : IsOut(j)' <=> j = n \/ IsOut(j)
    BY <2>1, <2>2 DEF IsOut
  <2> QED
    BY <1>3, <2>3, OutGrows
<1>16. CountInv' /\ GroupInv'
  BY <1>0, <1>2, <1>5, <1>15, DispatchInv
<1> QED
  BY <1>10, <1>11, <1>12, <1>14, <1>16 DEF Inv

LEMMA SpawnInv ==
    ASSUME Inv, NEW g \in Group, Spawn(g)
    PROVE  Inv'
<1>0. dispatched[g] < Count[g] /\ gpc[g] = "spawn"
  BY DEF Spawn, Inv, GroupInv
<1>17. spawned \in Nat /\ spawned < MaxThreads
  <2>1. spawned \in 0 .. MaxThreads
    BY DEF Inv, TypeOK
  <2>2. spawned < MaxThreads
    BY DEF Spawn
  <2> QED
    BY <2>1, <2>2
<1>1. PICK t \in Thread : t = spawned + 1
  BY <1>17, ThreadAssumption DEF Thread
<1>2. PICK n \in AllJobs : n = NextJob(g)
  BY <1>0, NextJobMade DEF Inv
<1>3. /\ n \in JobsOf(g) /\ n.group = g /\ n.index = dispatched[g] + 1 /\ dispatched[g] \in Nat
  BY <1>0, <1>2, NextJobMade, GroupTypes DEF Inv
<1>4. spawned \in Nat /\ tpc[t] = "unborn"
  <2>1. t > spawned
    BY <1>1, <1>17
  <2> QED
    BY <1>17, <2>1 DEF Inv, ThreadInv
<1>5. /\ spawned' = spawned + 1
      /\ tpc' = [tpc EXCEPT ![t] = "run"]
      /\ job' = [job EXCEPT ![t] = n]
      /\ Dispatched(g)
      /\ UNCHANGED <<idle, channel, result, taken, received, failed, reports, runs>>
  BY <1>1, <1>2 DEF Spawn, GoThread
<1>6. /\ tpc'[t] = "run" /\ job'[t] = n
      /\ \A u \in Thread : u # t => tpc'[u] = tpc[u] /\ job'[u] = job[u]
      /\ tpc' \in [Thread -> {"unborn", "run", "push", "report", "wait", "leave", "recv", "dead"}]
      /\ job' \in [Thread -> AllJobs \cup {NoJob}]
  BY <1>5 DEF Inv, TypeOK
<1>7. ~Ready(t) /\ ~Busy(t) /\ Busy(t)' /\ ~Idle(t) /\ ~Full(t)
  <2>1. ~Ready(t) /\ ~Busy(t) /\ Busy(t)'
    BY <1>4, <1>6 DEF Ready, Busy
  <2> QED
    BY <2>1 DEF Inv, ThreadInv
<1>8. /\ \A u \in Thread : u # t => (Ready(u)' <=> Ready(u)) /\ (Busy(u)' <=> Busy(u))
      /\ \A u \in Thread : (Idle(u)' <=> Idle(u)) /\ (Full(u)' <=> Full(u))
  BY <1>5, <1>6 DEF Ready, Busy, Idle, Full
<1>9. /\ dispatched' \in [Group -> Nat]
      /\ dispatched'[g] = dispatched[g] + 1
      /\ gpc' \in [Group -> {"start", "dispatch", "send", "spawn", "collect",
                             "ended without reporting"} \cup Ended]
      /\ gpc'[g] # "send"
      /\ \A h \in Group : h # g => dispatched'[h] = dispatched[h] /\ gpc'[h] = gpc[h]
      /\ \A h \in Group : \A i \in Nat : i <= dispatched[h] => i <= dispatched'[h]
  BY <1>5, DispatchedFacts DEF Inv
<1>10. TypeOK'
  <2>1. spawned' \in 0 .. MaxThreads
    BY <1>5, <1>17, ThreadAssumption
  <2> QED
    BY <1>5, <1>6, <1>9, <2>1 DEF Inv, TypeOK
<1>11. ThreadInv'
  <2>1. \A u \in Thread : Idle(u)' => Ready(u)' /\ ~Full(u)'
    BY <1>7, <1>8 DEF Inv, ThreadInv
  <2>2. \A u \in Thread : Full(u)' => Ready(u)' /\ Len(channel'[u]) = 1
    BY <1>5, <1>7, <1>8 DEF Inv, ThreadInv
  <2>3. \A u \in Thread : tpc'[u] = "unborn" <=> u > spawned'
    <3> SUFFICES ASSUME NEW u \in Thread PROVE tpc'[u] = "unborn" <=> u > spawned'
      OBVIOUS
    <3>1. CASE u = t
      BY <1>1, <1>4, <1>5, <1>6, <3>1
    <3>2. CASE u # t
      <4>1. tpc'[u] = "unborn" <=> u > spawned
        BY <1>6, <3>2 DEF Inv, ThreadInv
      <4>2. u > spawned <=> u > spawned + 1
        BY <1>1, <1>4, <3>2 DEF Thread
      <4> QED
        BY <1>5, <4>1, <4>2
    <3> QED
      BY <3>1, <3>2
  <2>4. \A u \in Thread : tpc'[u] = "push" => result'[u] = "ok"
    BY <1>5, <1>6 DEF Inv, ThreadInv
  <2> QED
    BY <1>5, <2>1, <2>2, <2>3, <2>4 DEF Inv, ThreadInv
<1>12. TakenInv'
  <2>1. \A h \in Group : gpc'[h] = "send" =>
          /\ gpc[h] = "send" /\ taken'[h] = taken[h] /\ taken[h] # t
          /\ taken[h] \in Thread /\ Ready(taken[h]) /\ ~Full(taken[h]) /\ ~Idle(taken[h])
    BY <1>5, <1>7, <1>9 DEF Inv, TakenInv
  <2>2. \A h \in Group : gpc'[h] = "send" =>
          \E u \in Thread : u = taken'[h] /\ Ready(u)' /\ ~Full(u)' /\ ~Idle(u)'
    BY <1>8, <2>1
  <2>3. \A h, k \in Group : gpc'[h] = "send" /\ gpc'[k] = "send" /\ taken'[h] = taken'[k] => h = k
    BY <2>1 DEF Inv, TakenInv
  <2> QED
    BY <2>2, <2>3 DEF TakenInv
<1>13. /\ \A u \in Thread : Busy(u) => job[u] # n
       /\ \A u \in Thread : Full(u) => channel[u][1] # n
  BY <1>0, <1>2, NextIsNew
<1>14. JobInv'
  <2>1. \A u, w \in Thread : Busy(u)' /\ Busy(w)' /\ job'[u] = job'[w] => u = w
    BY <1>6, <1>8, <1>13 DEF Inv, JobInv
  <2>2. \A u, w \in Thread : Busy(u)' /\ Full(w)' => job'[u] # channel'[w][1]
    BY <1>5, <1>6, <1>8, <1>13 DEF Inv, JobInv
  <2>3. \A u \in Thread : Busy(u)' => job'[u] \in AllJobs /\ job'[u].index <= dispatched'[job'[u].group]
    <3> SUFFICES ASSUME NEW u \in Thread, Busy(u)'
                 PROVE  job'[u] \in AllJobs /\ job'[u].index <= dispatched'[job'[u].group]
      OBVIOUS
    <3>1. CASE u = t
      <4>1. dispatched'[g] \in Nat
        BY <1>9
      <4>4. dispatched'[g] <= dispatched'[g]
        BY <4>1
      <4>5. n.index = dispatched'[g] /\ n.group = g
        BY <1>3, <1>9, Zenon
      <4>2. n.index <= dispatched'[n.group]
        BY <4>4, <4>5, Zenon
      <4>3. job'[u] = n
        BY <1>6, <3>1
      <4> QED
        BY <4>2, <4>3, Zenon
    <3>2. CASE u # t
      <4>1. job'[u] = job[u] /\ Busy(u)
        BY <1>6, <1>8, <3>2
      <4>2. job[u] \in AllJobs /\ job[u].index <= dispatched[job[u].group]
        BY <4>1 DEF Inv, JobInv
      <4>3. job[u].group \in Group /\ job[u].index \in Nat
        BY <4>2, JobFields, CountAssumption
      <4> QED
        BY <1>9, <4>1, <4>2, <4>3
    <3> QED
      BY <3>1, <3>2
  <2>4. \A u \in Thread : Full(u)' => channel'[u][1].index <= dispatched'[channel'[u][1].group]
    <3> SUFFICES ASSUME NEW u \in Thread, Full(u)
                 PROVE  channel[u][1].index <= dispatched'[channel[u][1].group]
      BY <1>5, <1>8
    <3>1. channel[u][1].index <= dispatched[channel[u][1].group] /\ channel[u][1] \in AllJobs
      BY FirstSent DEF Inv, JobInv, ThreadInv
    <3>2. channel[u][1].group \in Group /\ channel[u][1].index \in Nat
      BY <3>1, JobFields, CountAssumption
    <3> QED
      BY <1>9, <3>1, <3>2
  <2>5. \A u, w \in Thread : Full(u)' /\ Full(w)' /\ channel'[u][1] = channel'[w][1] => u = w
    BY <1>5, <1>8 DEF Inv, JobInv
  <2> QED
    BY <2>1, <2>2, <2>3, <2>4, <2>5 DEF JobInv
<1>15. \A j : IsOut(j)' <=> j = n \/ IsOut(j)
  <2>1. \A j : (\E u \in Thread : Busy(u)' /\ job'[u] = j) <=>
               j = n \/ (\E u \in Thread : Busy(u) /\ job[u] = j)
    BY <1>6, <1>7, <1>8
  <2>2. \A j : (\E u \in Thread : Full(u)' /\ channel'[u][1] = j) <=>
               (\E u \in Thread : Full(u) /\ channel[u][1] = j)
    BY <1>5, <1>8
  <2> QED
    BY <2>1, <2>2 DEF IsOut
<1>16. CountInv' /\ GroupInv'
  <2>1. Out(g)' = Out(g) \cup {n} /\ \A h \in Group : h # g => Out(h)' = Out(h)
    BY <1>3, <1>15, OutGrows
  <2> QED
    BY <1>0, <1>2, <1>5, <2>1, DispatchInv
<1> QED
  BY <1>10, <1>11, <1>12, <1>14, <1>16 DEF Inv

-----------------------------------------------------------------------------
(* The steps of a thread. *)

\* A step of thread t that leaves its job, the list and the channels alone.
LEMMA QuietThread ==
    ASSUME Inv, NEW t \in Thread, NEW l \in {"push", "report", "leave", "recv"}, GoThread(t, l),
           UNCHANGED <<idle, channel, spawned, job, groups, reports>>,
           runs' \in [AllJobs -> Nat], result' \in [Thread -> Outcome],
           \A u \in Thread : u # t => result'[u] = result[u],
           tpc[t] # "unborn", Busy(t)' <=> Busy(t), Ready(t) => Ready(t)',
           l = "push" => result'[t] = "ok"
    PROVE  Inv'
<1>1. /\ tpc'[t] = l
      /\ \A u \in Thread : u # t => tpc'[u] = tpc[u]
      /\ tpc' \in [Thread -> {"unborn", "run", "push", "report", "wait", "leave", "recv", "dead"}]
  BY DEF GoThread, Inv, TypeOK
<1>2. /\ \A u \in Thread : u # t => (Ready(u)' <=> Ready(u))
      /\ \A u \in Thread : (Busy(u)' <=> Busy(u)) /\ (Idle(u)' <=> Idle(u)) /\ (Full(u)' <=> Full(u))
  BY <1>1 DEF Ready, Busy, Idle, Full
<1>3. TypeOK'
  BY <1>1 DEF Inv, TypeOK, groups
<1>4. ThreadInv'
  <2>1. \A u \in Thread : Idle(u)' => Ready(u)' /\ ~Full(u)'
    BY <1>2 DEF Inv, ThreadInv
  <2>2. \A u \in Thread : Full(u)' => Ready(u)' /\ Len(channel'[u]) = 1
    BY <1>2 DEF Inv, ThreadInv
  <2>3. \A u \in Thread : tpc'[u] = "unborn" <=> u > spawned'
    BY <1>1 DEF Inv, ThreadInv
  <2>4. \A u \in Thread : tpc'[u] = "push" => result'[u] = "ok"
    BY <1>1 DEF Inv, ThreadInv
  <2> QED
    BY <2>1, <2>2, <2>3, <2>4 DEF Inv, ThreadInv
<1>5. TakenInv'
  <2>1. gpc' = gpc /\ taken' = taken
    BY DEF groups
  <2>2. \A u \in Thread : Ready(u) => Ready(u)'
    BY <1>2
  <2> QED
    BY <1>2, <2>1, <2>2 DEF Inv, TakenInv
<1>6. JobInv'
  BY <1>2 DEF Inv, JobInv, groups
<1>7. \A g \in Group : Out(g)' = Out(g)
  BY <1>2 DEF Out, IsOut
<1>8. CountInv' /\ GroupInv'
  BY <1>7 DEF Inv, CountInv, GroupInv, groups
<1> QED
  BY <1>3, <1>4, <1>5, <1>6, <1>8 DEF Inv

LEMMA RunInv ==
    ASSUME Inv, NEW t \in Thread, Run(t)
    PROVE  Inv'
<1>1. PICK r \in Outcome : /\ result' = [result EXCEPT ![t] = r]
                           /\ GoThread(t, IF r = "ok" THEN "push" ELSE "report")
  BY DEF Run
<1>2. result' \in [Thread -> Outcome] /\ result'[t] = r /\ \A u \in Thread : u # t => result'[u] = result[u]
  BY <1>1 DEF Inv, TypeOK
<1>3. PICK l \in {"push", "report"} : GoThread(t, l) /\ (l = "push" => r = "ok")
  BY <1>1
<1>4. tpc[t] = "run" /\ tpc'[t] = l
  BY <1>3 DEF Run, GoThread, Inv, TypeOK
<1>5. Busy(t)' /\ Busy(t) /\ ~Ready(t)
  BY <1>4 DEF Busy, Ready
<1>6. runs' \in [AllJobs -> Nat]
  <2>1. job[t] \in AllJobs
    BY <1>5 DEF Inv, JobInv
  <2>2. runs \in [AllJobs -> Nat]
    BY DEF Inv, TypeOK
  <2>3. runs' = [runs EXCEPT ![job[t]] = @ + 1]
    BY DEF Run
  <2> QED
    BY <2>1, <2>2, <2>3
<1> QED
  BY <1>2, <1>3, <1>4, <1>5, <1>6, QuietThread DEF Run

LEMMA TimeOutInv ==
    ASSUME Inv, NEW t \in Thread, TimeOut(t)
    PROVE  Inv'
<1>1. tpc[t] = "wait" /\ tpc'[t] = "leave" /\ GoThread(t, "leave")
  BY DEF TimeOut, GoThread, Inv, TypeOK
<1>2. ~Busy(t)' /\ ~Busy(t) /\ Ready(t)'
  BY <1>1 DEF Busy, Ready
<1>3. runs' \in [AllJobs -> Nat] /\ result' \in [Thread -> Outcome] /\ result' = result
  BY DEF TimeOut, Inv, TypeOK
<1> QED
  BY <1>1, <1>2, <1>3, QuietThread DEF TimeOut

LEMMA PushIdleInv ==
    ASSUME Inv, NEW t \in Thread, PushIdle(t)
    PROVE  Inv'
<1> DEFINE n == Len(idle)
<1>0. idle \in Seq(Thread) /\ n \in Nat
  <2>1. idle \in Seq(Thread)
    BY DEF Inv, TypeOK
  <2> QED
    BY <2>1
<1>1. /\ tpc[t] = "push" /\ tpc'[t] = "report"
      /\ \A u \in Thread : u # t => tpc'[u] = tpc[u]
      /\ tpc' \in [Thread -> {"unborn", "run", "push", "report", "wait", "leave", "recv", "dead"}]
      /\ result[t] = "ok"
      /\ idle' = Append(idle, t)
      /\ UNCHANGED <<channel, spawned, job, result, groups, reports, runs>>
  BY DEF PushIdle, GoThread, Inv, TypeOK, ThreadInv
<1>2. /\ idle' \in Seq(Thread) /\ DOMAIN idle' = 1 .. n + 1 /\ DOMAIN idle = 1 .. n
      /\ idle'[n + 1] = t /\ \A i \in 1 .. n : idle'[i] = idle[i]
  BY <1>0, <1>1
<1>3. ~Ready(t) /\ Busy(t) /\ Ready(t)' /\ Busy(t)'
  BY <1>1 DEF Ready, Busy
<1>4. ~Idle(t) /\ ~Full(t)
  BY <1>3 DEF Inv, ThreadInv
<1>5. \A u \in Thread : u # t => (Idle(u)' <=> Idle(u))
  BY <1>0, <1>2 DEF Idle
<1>6. /\ \A u \in Thread : u # t => (Ready(u)' <=> Ready(u))
      /\ \A u \in Thread : (Busy(u)' <=> Busy(u)) /\ (Full(u)' <=> Full(u))
  BY <1>1, <1>3 DEF Ready, Busy, Full
<1>7. TypeOK'
  BY <1>1, <1>2 DEF Inv, TypeOK, groups
<1>8. ThreadInv'
  <2>1. \A u \in Thread : Idle(u)' => Ready(u)' /\ ~Full(u)'
    BY <1>3, <1>4, <1>5, <1>6 DEF Inv, ThreadInv
  <2>2. \A u \in Thread : Full(u)' => Ready(u)' /\ Len(channel'[u]) = 1
    BY <1>1, <1>4, <1>6 DEF Inv, ThreadInv
  <2>3. \A u \in Thread : tpc'[u] = "unborn" <=> u > spawned'
    BY <1>1 DEF Inv, ThreadInv
  <2>4. \A u \in Thread : tpc'[u] = "push" => result'[u] = "ok"
    BY <1>1 DEF Inv, ThreadInv
  <2>5. \A i, k \in DOMAIN idle' : idle'[i] = idle'[k] => i = k
    <3>1. \A i \in 1 .. n : idle[i] # t
      BY <1>2, <1>4 DEF Idle
    <3>2. \A i, k \in 1 .. n : idle[i] = idle[k] => i = k
      BY <1>2 DEF Inv, ThreadInv
    <3> QED
      BY <1>0, <1>2, <3>1, <3>2
  <2> QED
    BY <2>1, <2>2, <2>3, <2>4, <2>5 DEF ThreadInv
<1>9. TakenInv'
  <2>1. \A g \in Group : gpc[g] = "send" => taken[g] # t
    BY <1>3 DEF Inv, TakenInv
  <2>2. gpc' = gpc /\ taken' = taken
    BY <1>1 DEF groups
  <2> QED
    BY <1>5, <1>6, <2>1, <2>2 DEF Inv, TakenInv
<1>10. JobInv'
  BY <1>1, <1>6 DEF Inv, JobInv, groups
<1>11. \A g \in Group : Out(g)' = Out(g)
  BY <1>1, <1>6 DEF Out, IsOut
<1>12. CountInv' /\ GroupInv'
  BY <1>1, <1>11 DEF Inv, CountInv, GroupInv, groups
<1> QED
  BY <1>7, <1>8, <1>9, <1>10, <1>12 DEF Inv

LEMMA ReportInv ==
    ASSUME Inv, NEW t \in Thread, Report(t)
    PROVE  Inv'
<1>0. tpc[t] = "report" /\ Busy(t)
  BY DEF Report, Busy
<1>1. PICK o \in AllJobs : o = job[t]
  BY <1>0 DEF Inv, JobInv
<1>2. PICK g \in Group : g = o.group /\ o \in JobsOf(g)
  BY JobFields
<1>3. /\ reports' = [reports EXCEPT ![g] = Append(@, result[t])]
      /\ job' = [job EXCEPT ![t] = NoJob]
      /\ result' = [result EXCEPT ![t] = "ok"]
      /\ UNCHANGED <<idle, channel, spawned, groups, runs>>
  BY <1>1, <1>2 DEF Report
<1>4. /\ tpc'[t] = (IF result[t] = "ok" THEN "wait" ELSE "dead")
      /\ \A u \in Thread : u # t => tpc'[u] = tpc[u] /\ result'[u] = result[u] /\ job'[u] = job[u]
      /\ tpc' \in [Thread -> {"unborn", "run", "push", "report", "wait", "leave", "recv", "dead"}]
      /\ result' \in [Thread -> Outcome]
      /\ job' \in [Thread -> AllJobs \cup {NoJob}]
  BY <1>3 DEF Report, GoThread, Inv, TypeOK, Outcome
<1>5. /\ reports' \in [Group -> Seq(Outcome)]
      /\ Len(reports'[g]) = Len(reports[g]) + 1
      /\ \A h \in Group : h # g => reports'[h] = reports[h]
  <2>1. reports \in [Group -> Seq(Outcome)] /\ result[t] \in Outcome
    BY DEF Inv, TypeOK
  <2>2. reports[g] \in Seq(Outcome)
    BY <2>1
  <2>3. Append(reports[g], result[t]) \in Seq(Outcome) /\ Len(Append(reports[g], result[t])) = Len(reports[g]) + 1
    BY <2>1, <2>2
  <2> QED
    BY <1>3, <2>1, <2>3
<1>6. ~Busy(t)' /\ (Ready(t)' <=> Ready(t))
  BY <1>0, <1>4 DEF Busy, Ready
<1>7. /\ \A u \in Thread : u # t => (Busy(u)' <=> Busy(u))
      /\ \A u \in Thread : (Ready(u)' <=> Ready(u)) /\ (Idle(u)' <=> Idle(u)) /\ (Full(u)' <=> Full(u))
  BY <1>3, <1>4, <1>6 DEF Ready, Busy, Idle, Full
<1>8. TypeOK'
  BY <1>3, <1>4, <1>5 DEF Inv, TypeOK, groups
<1>9. ThreadInv'
  <2>1. \A u \in Thread : (Idle(u)' => Ready(u)' /\ ~Full(u)') /\ (Full(u)' => Ready(u)' /\ Len(channel'[u]) = 1)
    BY <1>3, <1>7 DEF Inv, ThreadInv
  <2>2. \A u \in Thread : tpc'[u] = "unborn" <=> u > spawned'
    BY <1>0, <1>3, <1>4 DEF Inv, ThreadInv
  <2>3. \A u \in Thread : tpc'[u] = "push" => result'[u] = "ok"
    BY <1>4 DEF Inv, ThreadInv
  <2> QED
    BY <1>3, <2>1, <2>2, <2>3 DEF Inv, ThreadInv
<1>10. TakenInv'
  <2>1. gpc' = gpc /\ taken' = taken
    BY <1>3 DEF groups
  <2> QED
    BY <1>7, <2>1 DEF Inv, TakenInv
<1>11. JobInv'
  <2>1. \A u \in Thread : Busy(u)' => u # t /\ Busy(u) /\ job'[u] = job[u]
    BY <1>4, <1>6, <1>7
  <2>2. dispatched' = dispatched /\ channel' = channel
    BY <1>3 DEF groups
  <2> QED
    BY <1>7, <2>1, <2>2 DEF Inv, JobInv
<1>12. \A j : IsOut(j)' <=> IsOut(j) /\ j # o
  <2>1. \A j : (\E u \in Thread : Busy(u)' /\ job'[u] = j) <=>
               (\E u \in Thread : Busy(u) /\ job[u] = j) /\ j # o
    BY <1>0, <1>1, <1>4, <1>6, <1>7 DEF Inv, JobInv
  <2>2. \A j : (\E u \in Thread : Full(u)' /\ channel'[u][1] = j) <=>
               (\E u \in Thread : Full(u) /\ channel[u][1] = j) /\ j # o
    BY <1>0, <1>1, <1>3, <1>7 DEF Inv, JobInv
  <2> QED
    BY <2>1, <2>2 DEF IsOut
<1>13. o \in Out(g) /\ Out(g)' = Out(g) \ {o} /\ \A h \in Group : h # g => Out(h)' = Out(h)
  <2>1. IsOut(o)
    BY <1>0, <1>1 DEF IsOut
  <2>2. o \in Out(g) /\ Out(g)' = Out(g) \ {o}
    BY <1>2, <1>12, <2>1 DEF Out
  <2>3. \A h \in Group : h # g => o \notin JobsOf(h)
    BY <1>2, JobMade
  <2>4. \A h \in Group : h # g => Out(h)' = Out(h)
    BY <1>12, <2>3 DEF Out
  <2> QED
    BY <2>2, <2>4
<1>14. CountInv'
  <2> SUFFICES ASSUME NEW h \in Group
               PROVE  Cardinality(Out(h)') + Len(reports'[h]) + received[h] = dispatched[h]
    BY <1>3 DEF CountInv, groups
  <2>1. CASE h = g
    <3> DEFINE c == Cardinality(Out(g))
               l == Len(reports[g])
               r == received[g]
    <3>1. Cardinality(Out(g)') = c - 1
      BY <1>13, FiniteOut, FS_RemoveElement
    <3>2. c \in Nat /\ l \in Nat /\ r \in Nat /\ c + l + r = dispatched[g]
      BY FiniteOut, GroupTypes DEF Inv, CountInv
    <3>3. Len(reports'[g]) = l + 1
      BY <1>5
    <3> HIDE DEF c, l, r
    <3>4. c - 1 + (l + 1) + r = dispatched[g]
      BY <3>2
    <3> QED
      BY <2>1, <3>1, <3>3, <3>4 DEF r
  <2>2. CASE h # g
    BY <1>5, <1>13, <2>2 DEF Inv, CountInv
  <2> QED
    BY <2>1, <2>2
<1>15. GroupInv'
  <2>1. \A h \in Group : Out(h) = {} => Out(h)' = {}
    BY <1>13
  <2> QED
    BY <1>3, <2>1 DEF Inv, GroupInv, groups
<1> QED
  BY <1>8, <1>9, <1>10, <1>11, <1>14, <1>15 DEF Inv

LEMMA TakeJobInv ==
    ASSUME Inv, NEW t \in Thread, TakeJob(t)
    PROVE  Inv'
<1>0. tpc[t] \in {"wait", "recv"} /\ Full(t) /\ ~Busy(t) /\ ~Idle(t)
  BY DEF TakeJob, Full, Busy, Inv, ThreadInv
<1>1. PICK o \in AllJobs : o = channel[t][1]
  BY <1>0, FirstSent DEF Inv, ThreadInv
<1>2. /\ channel[t] \in Seq(AllJobs) /\ Len(channel[t]) = 1
      /\ Head(channel[t]) = o /\ Tail(channel[t]) = <<>>
  <2>1. channel[t] \in Seq(AllJobs)
    BY DEF Inv, TypeOK
  <2>2. Len(channel[t]) = 1
    BY <1>0 DEF Inv, ThreadInv
  <2>3. channel[t] # <<>>
    BY <1>0 DEF Full
  <2>4. Head(channel[t]) = channel[t][1]
    BY <2>1, <2>2, <2>3
  <2>5. Tail(channel[t]) \in Seq(AllJobs) /\ Len(Tail(channel[t])) = 0
    BY <2>1, <2>2, <2>3
  <2>6. Tail(channel[t]) = <<>>
    BY <2>5, EmptySeq, Zenon
  <2> QED
    BY <1>1, <2>1, <2>2, <2>4, <2>6, Zenon
<1>3. /\ job' = [job EXCEPT ![t] = o]
      /\ channel' = [channel EXCEPT ![t] = <<>>]
      /\ tpc' = [tpc EXCEPT ![t] = "run"]
      /\ UNCHANGED <<idle, spawned, result, groups, reports, runs>>
  BY <1>2 DEF TakeJob, GoThread
<1>4. /\ tpc'[t] = "run" /\ job'[t] = o /\ channel'[t] = <<>>
      /\ \A u \in Thread : u # t => tpc'[u] = tpc[u] /\ job'[u] = job[u] /\ channel'[u] = channel[u]
      /\ tpc' \in [Thread -> {"unborn", "run", "push", "report", "wait", "leave", "recv", "dead"}]
      /\ job' \in [Thread -> AllJobs \cup {NoJob}]
  BY <1>3 DEF Inv, TypeOK
<1>5. channel' \in [Thread -> Seq(AllJobs)]
  <2>1. channel \in [Thread -> Seq(AllJobs)]
    BY DEF Inv, TypeOK
  <2>2. <<>> \in Seq(AllJobs)
    OBVIOUS
  <2> QED
    BY <1>3, <2>1, <2>2
<1>6. Busy(t)' /\ ~Full(t)'
  BY <1>4 DEF Busy, Full
<1>7. /\ \A u \in Thread : u # t => (Busy(u)' <=> Busy(u)) /\ (Ready(u)' <=> Ready(u)) /\ (Full(u)' <=> Full(u))
      /\ \A u \in Thread : Idle(u)' <=> Idle(u)
  BY <1>3, <1>4 DEF Ready, Busy, Idle, Full
<1>8. TypeOK'
  BY <1>3, <1>4, <1>5 DEF Inv, TypeOK, groups
<1>9. ThreadInv'
  <2>1. \A u \in Thread : Idle(u)' => Ready(u)' /\ ~Full(u)'
    BY <1>0, <1>7 DEF Inv, ThreadInv
  <2>2. \A u \in Thread : Full(u)' => Ready(u)' /\ Len(channel'[u]) = 1
    BY <1>4, <1>6, <1>7 DEF Inv, ThreadInv
  <2>3. \A u \in Thread : tpc'[u] = "unborn" <=> u > spawned'
    BY <1>0, <1>3, <1>4 DEF Inv, ThreadInv
  <2>4. \A u \in Thread : tpc'[u] = "push" => result'[u] = "ok"
    BY <1>3, <1>4 DEF Inv, ThreadInv
  <2> QED
    BY <1>3, <2>1, <2>2, <2>3, <2>4 DEF Inv, ThreadInv
<1>10. TakenInv'
  <2>1. gpc' = gpc /\ taken' = taken
    BY <1>3 DEF groups
  <2>2. \A g \in Group : gpc[g] = "send" => taken[g] # t
    BY <1>0 DEF Inv, TakenInv
  <2> QED
    BY <1>7, <2>1, <2>2 DEF Inv, TakenInv
<1>11. JobInv'
  <2>1. dispatched' = dispatched
    BY <1>3 DEF groups
  <2>2. \A u \in Thread : Busy(u)' => job'[u] \in AllJobs
    BY <1>4, <1>7 DEF Inv, JobInv
  <2>3. \A u, w \in Thread : Busy(u)' /\ Busy(w)' /\ job'[u] = job'[w] => u = w
    BY <1>0, <1>1, <1>4, <1>7 DEF Inv, JobInv
  <2>4. \A u, w \in Thread : Full(u)' /\ Full(w)' /\ channel'[u][1] = channel'[w][1] => u = w
    BY <1>4, <1>6, <1>7 DEF Inv, JobInv
  <2>5. \A u, w \in Thread : Busy(u)' /\ Full(w)' => job'[u] # channel'[w][1]
    BY <1>0, <1>1, <1>4, <1>6, <1>7 DEF Inv, JobInv
  <2>6. \A u \in Thread : Busy(u)' => job'[u].index <= dispatched'[job'[u].group]
    BY <1>0, <1>1, <1>4, <1>7, <2>1 DEF Inv, JobInv
  <2>7. \A u \in Thread : Full(u)' => channel'[u][1].index <= dispatched'[channel'[u][1].group]
    BY <1>4, <1>6, <1>7, <2>1 DEF Inv, JobInv
  <2> QED
    BY <2>2, <2>3, <2>4, <2>5, <2>6, <2>7 DEF JobInv
<1>12. \A j : IsOut(j)' <=> IsOut(j)
  <2>1. \A j : (\E u \in Thread : Busy(u)' /\ job'[u] = j) <=>
               (\E u \in Thread : Busy(u) /\ job[u] = j) \/ j = o
    BY <1>0, <1>4, <1>6, <1>7
  <2>2. \A j : (\E u \in Thread : Full(u)' /\ channel'[u][1] = j) \/ j = o <=>
               (\E u \in Thread : Full(u) /\ channel[u][1] = j)
    BY <1>0, <1>1, <1>4, <1>6, <1>7
  <2> QED
    BY <2>1, <2>2 DEF IsOut
<1>13. \A g \in Group : Out(g)' = Out(g)
  BY <1>12 DEF Out
<1>14. CountInv' /\ GroupInv'
  BY <1>3, <1>13 DEF Inv, CountInv, GroupInv, groups
<1> QED
  BY <1>8, <1>9, <1>10, <1>11, <1>14 DEF Inv

\* A thread off the list goes on; one on it goes, and nobody has taken it.
LEMMA LeaveInv ==
    ASSUME Inv, NEW t \in Thread, Leave(t)
    PROVE  Inv'
<1>0. tpc[t] = "leave"
  BY DEF Leave
<1>1. CASE ~Idle(t)
  <2>1. GoThread(t, "recv") /\ UNCHANGED idle
    BY <1>1 DEF Leave, Idle
  <2>2. tpc'[t] = "recv"
    BY <2>1 DEF GoThread, Inv, TypeOK
  <2>3. ~Busy(t)' /\ ~Busy(t) /\ Ready(t)'
    BY <1>0, <2>2 DEF Busy, Ready
  <2>4. runs' \in [AllJobs -> Nat] /\ result' \in [Thread -> Outcome] /\ result' = result
    BY DEF Leave, Inv, TypeOK
  <2> QED
    BY <1>0, <2>1, <2>3, <2>4, QuietThread DEF Leave
<1>2. CASE Idle(t)
  <2> DEFINE n == Len(idle)
  <2>0. idle \in Seq(Thread) /\ n \in Nat /\ DOMAIN idle = 1 .. n
    <3>1. idle \in Seq(Thread)
      BY DEF Inv, TypeOK
    <3> QED
      BY <3>1
  <2>1. PICK p \in 1 .. n : p = Position(t) /\ idle[p] = t
    BY <1>2, <2>0 DEF Idle, Position
  <2>2. /\ idle' = [k \in 1 .. n - 1 |-> IF k = p THEN idle[n] ELSE idle[k]]
        /\ tpc' = [tpc EXCEPT ![t] = "dead"]
        /\ UNCHANGED <<channel, spawned, job, result, groups, reports, runs>>
    BY <1>2, <2>1 DEF Leave, Idle, SwapRemove, GoThread
  <2>3. \A i, k \in 1 .. n : idle[i] = idle[k] => i = k
    BY <2>0 DEF Inv, ThreadInv
  <2>4. \A i \in 1 .. n : idle[i] \in Thread
    BY <2>0
  <2>5. DOMAIN idle' = 1 .. n - 1 /\ \A k \in 1 .. n - 1 : idle'[k] = IF k = p THEN idle[n] ELSE idle[k]
    BY <2>2
  <2>6. n \in 1 .. n /\ 1 .. n - 1 \subseteq 1 .. n /\ n - 1 \in Nat /\ n \notin 1 .. n - 1
    BY <2>0, <2>1
  <2>7. idle' \in Seq(Thread)
    <3>1. \A k \in 1 .. n - 1 : (IF k = p THEN idle[n] ELSE idle[k]) \in Thread
      BY <2>4, <2>6
    <3> QED
      BY <2>2, <2>6, <3>1
  <2>8. \A i, k \in DOMAIN idle' : idle'[i] = idle'[k] => i = k
    BY <2>3, <2>5, <2>6
  <2>9. ~Idle(t)'
    BY <2>1, <2>3, <2>5, <2>6 DEF Idle
  <2>10. \A u \in Thread : Idle(u)' => Idle(u)
    BY <2>0, <2>5, <2>6 DEF Idle
  <2>11. /\ tpc'[t] = "dead" /\ \A u \in Thread : u # t => tpc'[u] = tpc[u]
         /\ tpc' \in [Thread -> {"unborn", "run", "push", "report", "wait", "leave", "recv", "dead"}]
    BY <2>2 DEF Inv, TypeOK
  <2>12. ~Full(t) /\ ~Busy(t) /\ ~Busy(t)'
    BY <1>0, <1>2, <2>11 DEF Inv, ThreadInv, Busy
  <2>13. /\ \A u \in Thread : u # t => (Ready(u)' <=> Ready(u))
         /\ \A u \in Thread : (Busy(u)' <=> Busy(u)) /\ (Full(u)' <=> Full(u))
    BY <2>2, <2>11, <2>12 DEF Ready, Busy, Full
  <2>14. TypeOK'
    BY <2>2, <2>7, <2>11 DEF Inv, TypeOK, groups
  <2>15. ThreadInv'
    <3>1. \A u \in Thread : Idle(u)' => Ready(u)' /\ ~Full(u)'
      BY <2>9, <2>10, <2>13 DEF Inv, ThreadInv
    <3>2. \A u \in Thread : Full(u)' => Ready(u)' /\ Len(channel'[u]) = 1
      BY <2>2, <2>12, <2>13 DEF Inv, ThreadInv
    <3>3. \A u \in Thread : tpc'[u] = "unborn" <=> u > spawned'
      BY <1>0, <2>2, <2>11 DEF Inv, ThreadInv
    <3>4. \A u \in Thread : tpc'[u] = "push" => result'[u] = "ok"
      BY <2>2, <2>11 DEF Inv, ThreadInv
    <3> QED
      BY <2>8, <3>1, <3>2, <3>3, <3>4 DEF ThreadInv
  <2>16. TakenInv'
    <3>1. gpc' = gpc /\ taken' = taken
      BY <2>2 DEF groups
    <3>2. \A g \in Group : gpc[g] = "send" => taken[g] # t
      BY <1>2 DEF Inv, TakenInv
    <3> QED
      BY <2>10, <2>13, <3>1, <3>2 DEF Inv, TakenInv
  <2>17. JobInv' /\ \A g \in Group : Out(g)' = Out(g)
    BY <2>2, <2>13 DEF Inv, JobInv, Out, IsOut, groups
  <2>18. CountInv' /\ GroupInv'
    BY <2>2, <2>17 DEF Inv, CountInv, GroupInv, groups
  <2> QED
    BY <2>14, <2>15, <2>16, <2>17, <2>18 DEF Inv
<1> QED
  BY <1>1, <1>2

-----------------------------------------------------------------------------
LEMMA StutterInv == Inv /\ UNCHANGED vars => Inv'
<1> SUFFICES ASSUME Inv, UNCHANGED vars PROVE Inv'
  OBVIOUS
<1>1. UNCHANGED <<idle, channel, spawned, threads, dispatched, gpc, taken, received, failed, reports, runs>>
  BY DEF vars, groups
<1>2. ThreadInv' /\ JobInv' /\ \A g \in Group : Out(g)' = Out(g)
  BY <1>1, SameThreads DEF Inv
<1>3. TypeOK'
  BY <1>1 DEF Inv, TypeOK, threads
<1>4. TakenInv'
  BY <1>1 DEF Inv, TakenInv, threads, Ready, Full, Idle
<1>5. CountInv' /\ GroupInv'
  BY <1>1, <1>2 DEF Inv, CountInv, GroupInv
<1> QED
  BY <1>2, <1>3, <1>4, <1>5 DEF Inv

LEMMA InitInv == Init => Inv
<1> SUFFICES ASSUME Init PROVE Inv
  OBVIOUS
<1>1. TypeOK
  <2>1. <<>> \in Seq(Thread) /\ <<>> \in Seq(AllJobs) /\ <<>> \in Seq(Outcome)
    OBVIOUS
  <2>2. 0 \in 0 .. MaxThreads
    BY ThreadAssumption
  <2> QED
    BY <2>1, <2>2 DEF Init, TypeOK, Outcome
<1>2. /\ \A t \in Thread : ~Idle(t) /\ ~Busy(t) /\ ~Full(t) /\ tpc[t] = "unborn"
      /\ DOMAIN idle = {}
  BY DEF Init, Idle, Busy, Full
<1>3. ThreadInv
  <2>1. \A t \in Thread : t > spawned
    BY ThreadAssumption DEF Init, Thread
  <2> QED
    BY <1>2, <2>1 DEF ThreadInv
<1>4. TakenInv /\ JobInv
  BY <1>2 DEF TakenInv, JobInv, Init
<1>5. \A g \in Group : Out(g) = {}
  BY <1>2 DEF Out, IsOut
<1>6. GroupInv
  BY <1>5 DEF GroupInv, Init, Ended
<1>7. CountInv
  <2>1. Cardinality({}) = 0 /\ Len(<<>>) = 0
    BY FS_EmptySet
  <2>2. \A g \in Group : reports[g] = <<>> /\ received[g] = 0 /\ dispatched[g] = 0
    BY DEF Init
  <2>3. \A g \in Group : Cardinality(Out(g)) = 0 /\ Len(reports[g]) = 0
    BY <1>5, <2>1, <2>2, Zenon
  <2>4. 0 + 0 + 0 = 0
    OBVIOUS
  <2> QED
    BY <2>2, <2>3, <2>4, Zenon DEF CountInv
<1> QED
  BY <1>1, <1>3, <1>4, <1>6, <1>7 DEF Inv

\* The state of the threads and of the groups, for any of either: every thread
\* on the list or taken off it is there to receive, every job dispatched is
\* with one thread or accounted for.
THEOREM ThreadsInvariant == Spec => []Inv
<1>1. Init => Inv
  BY InitInv
<1>2. Inv /\ [Next]_vars => Inv'
  <2> SUFFICES ASSUME Inv, [Next]_vars PROVE Inv'
    OBVIOUS
  <2>1. ASSUME NEW g \in Group, GroupStep(g) PROVE Inv'
    BY <2>1, InlineInv, PopIdleInv, SendInv, SpawnInv, SpawnFailsInv, ReceiveInv, ReturnInv
    DEF GroupStep
  <2>2. ASSUME NEW t \in Thread, ThreadStep(t) PROVE Inv'
    BY <2>2, RunInv, PushIdleInv, ReportInv, TakeJobInv, TimeOutInv, LeaveInv DEF ThreadStep
  <2>3. CASE UNCHANGED vars
    BY <2>3, StutterInv
  <2> QED
    BY <2>1, <2>2, <2>3 DEF Next, Done
<1> QED
  BY <1>1, <1>2, PTL DEF Spec

\* The state of the threads and of the groups keeps its types, for any of either.
THEOREM TypeCorrect == Spec => []TypeOK
<1>1. Inv => TypeOK
  BY DEF Inv
<1> QED
  BY <1>1, ThreadsInvariant, PTL

\* What the `SAFETY` comment of `run_work_group` says: no job uses the task
\* after the group has returned or unwound.
THEOREM TaskIsSafe == Spec => []TaskOutlivesJobs
<1>1. Inv => TaskOutlivesJobs
  <2> SUFFICES ASSUME Inv, NEW j \in Unfinished, gpc[j.group] \in Ended PROVE FALSE
    BY DEF TaskOutlivesJobs
  <2>1. j \in AllJobs /\ IsOut(j)
    <3>1. CASE \E t \in Thread : tpc[t] = "run" /\ job[t] = j
      BY <3>1 DEF Inv, JobInv, Busy, IsOut
    <3>2. CASE \E t \in Thread : \E i \in DOMAIN channel[t] : channel[t][i] = j
      <4>0. PICK t \in Thread : \E i \in DOMAIN channel[t] : channel[t][i] = j
        BY <3>2
      <4>1. PICK i \in DOMAIN channel[t] : channel[t][i] = j
        BY <4>0
      <4>2. channel[t] \in Seq(AllJobs)
        BY DEF Inv, TypeOK
      <4>3. DOMAIN channel[t] = 1 .. Len(channel[t])
        BY <4>2
      <4>4. Full(t)
        BY <4>1 DEF Full
      <4>5. Len(channel[t]) = 1
        BY <4>4 DEF Inv, ThreadInv
      <4>6. i = 1
        BY <4>3, <4>5
      <4> QED
        BY <4>1, <4>4, <4>5, <4>6, FirstSent DEF Inv, IsOut
    <3> QED
      BY <3>1, <3>2 DEF Unfinished, Sent
  <2>2. j.group \in Group /\ j \in Out(j.group)
    BY <2>1, JobFields DEF Out
  <2> QED
    BY <2>2 DEF Inv, GroupInv
<1> QED
  BY <1>1, ThreadsInvariant, PTL

\* Every job has a thread of its own, though a thread may be sent a job before
\* it has reported the last.
THEOREM JobsDoNotQueue == Spec => []OwnThread
<1>1. Inv => OwnThread
  <2> SUFFICES ASSUME Inv, NEW t \in Thread
               PROVE  Len(channel[t]) + (IF tpc[t] \in {"run", "push"} THEN 1 ELSE 0) <= 1
    BY DEF OwnThread
  <2>1. CASE Full(t)
    <3>1. tpc[t] \notin {"run", "push"} /\ Len(channel[t]) = 1
      BY <2>1 DEF Inv, ThreadInv, Ready
    <3> QED
      BY <3>1
  <2>2. CASE ~Full(t)
    <3>1. channel[t] = <<>>
      BY <2>2 DEF Full
    <3>2. Len(channel[t]) = 0
      BY <3>1
    <3>3. \A n : n = 0 => n + 1 <= 1 /\ n + 0 <= 1
      OBVIOUS
    <3> QED
      BY <3>2, <3>3, Zenon
  <2> QED
    BY <2>1, <2>2
<1> QED
  BY <1>1, ThreadsInvariant, PTL

\* A group never finds gone the thread it took: a thread that times out is off
\* the list before it ends, or stays.
THEOREM TakenThreadsLive == Spec => []TakenIsAlive
<1>1. Inv => TakenIsAlive
  BY DEF Inv, TakenInv, Ready, TakenIsAlive
<1> QED
  BY <1>1, ThreadsInvariant, PTL
-----------------------------------------------------------------------------
(* Each job runs once *)

\* A job that some thread will run.
Pending(j) == \/ \E t \in Thread : Full(t) /\ channel[t][1] = j
              \/ \E t \in Thread : tpc[t] = "run" /\ job[t] = j
Undone(j) == Pending(j) \/ j.index > dispatched[j.group]

\* A job has run, once, unless it is pending or was not dispatched; a group
\* that collects with no failure dispatched them all.
RunsInv ==
    /\ \A j \in AllJobs : runs[j] \in {0, 1}
    /\ \A j \in AllJobs : gpc[j.group] \notin Ended => (runs[j] = 0 <=> Undone(j))
    /\ \A g \in Group : gpc[g] = "collect" /\ ~failed[g] => dispatched[g] = Count[g]
    /\ \A g \in Group : gpc[g] = "returned" => \A j \in JobsOf(g) : runs[j] = 1

\* What the invariant needs of a step that runs no job.
LEMMA NothingRuns ==
    ASSUME RunsInv, runs' = runs,
           \A j \in AllJobs : Undone(j)' <=> Undone(j),
           \A g \in Group : gpc'[g] \notin Ended => gpc[g] \notin Ended,
           \A g \in Group : gpc'[g] = "collect" /\ ~failed'[g] => dispatched'[g] = Count[g],
           \A g \in Group : gpc'[g] = "returned" => \A j \in JobsOf(g) : runs[j] = 1
    PROVE  RunsInv'
<1>1. \A j \in AllJobs : runs'[j] \in {0, 1}
  BY DEF RunsInv
<1>2. ASSUME NEW j \in AllJobs, gpc'[j.group] \notin Ended PROVE runs'[j] = 0 <=> Undone(j)'
  <2>1. gpc[j.group] \notin Ended
    BY <1>2, JobFields
  <2>2. runs[j] = 0 <=> Undone(j)
    BY <2>1 DEF RunsInv
  <2> QED
    BY <2>2
<1>3. \A g \in Group : gpc'[g] = "returned" => \A j \in JobsOf(g) : runs'[j] = 1
  OBVIOUS
<1> QED
  BY <1>1, <1>2, <1>3 DEF RunsInv

\* A step of group g that leaves the threads alone and dispatches nothing.
LEMMA GroupRuns ==
    ASSUME Inv, RunsInv, NEW g \in Group, NEW l, GoGroup(g, l),
           UNCHANGED <<channel, threads, dispatched, runs>>,
           gpc[g] \notin Ended,
           \A h \in Group : h # g => failed'[h] = failed[h],
           l = "collect" /\ ~failed'[g] => dispatched[g] = Count[g],
           l = "returned" => \A j \in JobsOf(g) : runs[j] = 1
    PROVE  RunsInv'
<1>1. gpc'[g] = l /\ \A h \in Group : h # g => gpc'[h] = gpc[h]
  BY DEF GoGroup, Inv, TypeOK
<1>2. \A j \in AllJobs : Undone(j)' <=> Undone(j)
  BY DEF Undone, Pending, Full, threads
<1>3. \A h \in Group : gpc'[h] \notin Ended => gpc[h] \notin Ended
  BY <1>1
<1>4. ASSUME NEW h \in Group, gpc'[h] = "collect", ~failed'[h] PROVE dispatched'[h] = Count[h]
  <2>1. CASE h = g
    BY <1>1, <1>4, <2>1
  <2>2. CASE h # g
    BY <1>1, <1>4, <2>2 DEF RunsInv
  <2> QED
    BY <2>1, <2>2
<1>5. \A h \in Group : gpc'[h] = "returned" => \A j \in JobsOf(h) : runs[j] = 1
  BY <1>1 DEF RunsInv
<1> QED
  BY <1>2, <1>3, <1>4, <1>5, NothingRuns

LEMMA PopIdleRuns ==
    ASSUME Inv, RunsInv, NEW g \in Group, PopIdle(g)
    PROVE  RunsInv'
<1>1. PICK l \in {"send", "spawn"} : GoGroup(g, l)
  BY DEF PopIdle
<1>2. /\ gpc[g] \notin Ended /\ failed' = failed
      /\ UNCHANGED <<channel, threads, dispatched, runs>>
  BY DEF PopIdle, Ended
<1> QED
  BY <1>1, <1>2, GroupRuns

LEMMA SpawnFailsRuns ==
    ASSUME Inv, RunsInv, NEW g \in Group, SpawnFails(g)
    PROVE  RunsInv'
<1>1. /\ gpc[g] \notin Ended /\ GoGroup(g, "collect")
      /\ UNCHANGED <<channel, threads, dispatched, runs>>
  BY DEF SpawnFails, Ended
<1>2. failed'[g] /\ \A h \in Group : h # g => failed'[h] = failed[h]
  BY DEF SpawnFails, Inv, TypeOK
<1> QED
  BY <1>1, <1>2, GroupRuns

LEMMA ReturnRuns ==
    ASSUME Inv, RunsInv, NEW g \in Group, Return(g)
    PROVE  RunsInv'
<1>1. /\ gpc[g] = "collect" /\ gpc[g] \notin Ended /\ failed' = failed
      /\ UNCHANGED <<channel, threads, dispatched, runs>>
  BY DEF Return, Ended
<1>2. PICK l \in Ended : GoGroup(g, l) /\ (l = "returned" => ~failed[g])
  BY DEF Return, Ended
<1>3. Out(g) = {}
  <2>1. Inv' /\ gpc'[g] = l
    BY <1>2, ReturnInv DEF GoGroup, Inv, TypeOK
  <2>2. Out(g)' = {}
    BY <2>1 DEF Inv, GroupInv
  <2> QED
    BY <1>1, <2>2, SameThreads DEF Inv, Return
<1>4. ASSUME l = "returned", NEW j \in JobsOf(g) PROVE runs[j] = 1
  <2>1. j \in AllJobs /\ j.group = g /\ j.index \in 1 .. Count[g] /\ Count[g] \in Nat
    BY JobMade, JobFields, CountAssumption
  <2>2. dispatched[g] = Count[g]
    BY <1>1, <1>2, <1>4 DEF RunsInv
  <2>3. ~Pending(j)
    BY <1>3 DEF Pending, Out, IsOut, Busy
  <2>4. ~(j.index > dispatched[g])
    BY <2>1, <2>2
  <2>5. ~Undone(j)
    BY <2>1, <2>3, <2>4 DEF Undone
  <2> QED
    BY <1>1, <2>1, <2>5 DEF RunsInv
<1> QED
  BY <1>1, <1>2, <1>4, GroupRuns DEF Ended

LEMMA ReceiveRuns ==
    ASSUME Inv, RunsInv, NEW g \in Group, Receive(g)
    PROVE  RunsInv'
<1>1. Inv'
  BY ReceiveInv
<1>2. gpc[g] = "collect" /\ UNCHANGED <<channel, threads, dispatched, runs>>
  BY DEF Receive
<1>3. CASE reports[g] = <<>>
  <2>1. gpc'[g] = "ended without reporting"
    BY <1>3 DEF Receive, GoGroup, Inv, TypeOK
  <2> QED
    BY <1>1, <2>1 DEF Inv, GroupInv
<1>4. CASE reports[g] # <<>>
  <2>1. gpc' = gpc /\ failed' = [failed EXCEPT ![g] = @ \/ Head(reports[g]) = "panic"]
    BY <1>4 DEF Receive
  <2>2. failed \in [Group -> BOOLEAN]
    BY DEF Inv, TypeOK
  <2>3. \A h \in Group : failed[h] => failed'[h]
    BY <2>1, <2>2
  <2>4. \A j \in AllJobs : Undone(j)' <=> Undone(j)
    BY <1>2 DEF Undone, Pending, Full, threads
  <2>5. \A h \in Group : gpc'[h] = "collect" /\ ~failed'[h] => dispatched'[h] = Count[h]
    BY <1>2, <2>1, <2>3 DEF RunsInv
  <2>6. \A h \in Group : gpc'[h] = "returned" => \A j \in JobsOf(h) : runs[j] = 1
    BY <2>1 DEF RunsInv
  <2> QED
    BY <1>2, <2>1, <2>4, <2>5, <2>6, NothingRuns
<1> QED
  BY <1>3, <1>4

\* A job that is dispatched is pending, and was not run before.
LEMMA DispatchRuns ==
    ASSUME Inv, RunsInv, NEW g \in Group, gpc[g] \in {"send", "spawn"}, Dispatched(g),
           UNCHANGED <<runs, failed>>,
           \A j \in AllJobs : Pending(j)' <=> Pending(j) \/ j = NextJob(g)
    PROVE  RunsInv'
<1>1. dispatched[g] < Count[g] /\ dispatched[g] \in Nat /\ Count[g] \in Nat
  BY CountAssumption, GroupTypes DEF Inv, GroupInv
<1>2. NextJob(g) \in AllJobs /\ NextJob(g).group = g /\ NextJob(g).index = dispatched[g] + 1
  BY <1>1, NextJobMade DEF Inv
<1>3. /\ dispatched'[g] = dispatched[g] + 1
      /\ \A h \in Group : h # g => dispatched'[h] = dispatched[h] /\ gpc'[h] = gpc[h]
  BY DispatchedFacts DEF Inv
<1>4. gpc'[g] = IF dispatched[g] + 1 = Count[g] THEN "collect" ELSE "dispatch"
  BY DEF Dispatched, GoGroup, Inv, TypeOK
<1>5. ASSUME NEW j \in AllJobs PROVE Undone(j)' <=> Undone(j)
  <2>1. j.group \in Group /\ j.index \in Nat
    BY JobFields, CountAssumption
  <2>2. CASE j = NextJob(g)
    <3>1. j.index > dispatched[j.group]
      BY <1>1, <1>2, <2>2
    <3> QED
      BY <2>2, <3>1 DEF Undone
  <2>3. CASE j # NextJob(g) /\ j.group = g
    <3>1. j.index # dispatched[g] + 1
      <4>1. PICK i \in 1 .. Count[g] : j = [group |-> g, index |-> i]
        BY <2>3, JobFields DEF JobsOf
      <4> QED
        BY <2>3, <4>1 DEF NextJob
    <3>2. j.index > dispatched[g] + 1 <=> j.index > dispatched[g]
      BY <1>1, <2>1, <3>1
    <3> QED
      BY <1>3, <2>3, <3>2 DEF Undone
  <2>4. CASE j.group # g
    <3>1. j # NextJob(g) /\ dispatched'[j.group] = dispatched[j.group]
      BY <1>2, <1>3, <2>1, <2>4
    <3> QED
      BY <3>1 DEF Undone
  <2> QED
    BY <2>2, <2>3, <2>4
<1>6. \A h \in Group : gpc'[h] \notin Ended => gpc[h] \notin Ended
  BY <1>3 DEF Ended
<1>7. ASSUME NEW h \in Group, gpc'[h] = "collect", ~failed'[h] PROVE dispatched'[h] = Count[h]
  <2>1. CASE h = g
    BY <1>3, <1>4, <1>7, <2>1
  <2>2. CASE h # g
    BY <1>3, <1>7, <2>2 DEF RunsInv
  <2> QED
    BY <2>1, <2>2
<1>8. ASSUME NEW h \in Group, gpc'[h] = "returned" PROVE \A j \in JobsOf(h) : runs[j] = 1
  <2>1. h # g
    BY <1>4, <1>8
  <2> QED
    BY <1>3, <1>8, <2>1 DEF RunsInv
<1> QED
  BY <1>5, <1>6, <1>7, <1>8, NothingRuns

LEMMA SendRuns ==
    ASSUME Inv, RunsInv, NEW g \in Group, Send(g)
    PROVE  RunsInv'
<1>1. PICK t \in Thread : t = taken[g] /\ Ready(t) /\ ~Full(t)
  BY DEF Send, Inv, TakenInv
<1>2. gpc[g] = "send" /\ tpc[t] # "dead"
  BY <1>1 DEF Send, Ready
<1>3. /\ channel' = [channel EXCEPT ![t] = Append(@, NextJob(g))]
      /\ Dispatched(g)
      /\ UNCHANGED <<threads, failed, runs>>
  BY <1>1, <1>2 DEF Send
<1>4. channel'[t] = <<NextJob(g)>> /\ \A u \in Thread : u # t => channel'[u] = channel[u]
  <2>1. channel \in [Thread -> Seq(AllJobs)] /\ channel[t] = <<>>
    BY <1>1 DEF Inv, TypeOK, Full
  <2>2. Append(<<>>, NextJob(g)) = <<NextJob(g)>>
    OBVIOUS
  <2> QED
    BY <1>3, <2>1, <2>2
<1>5. Full(t)' /\ channel'[t][1] = NextJob(g) /\ \A u \in Thread : u # t => (Full(u)' <=> Full(u))
  BY <1>4 DEF Full
<1>6. \A j : (\E u \in Thread : Full(u)' /\ channel'[u][1] = j) <=>
             j = NextJob(g) \/ (\E u \in Thread : Full(u) /\ channel[u][1] = j)
  BY <1>1, <1>4, <1>5
<1>7. \A j \in AllJobs : Pending(j)' <=> Pending(j) \/ j = NextJob(g)
  BY <1>3, <1>6 DEF Pending, threads
<1> QED
  BY <1>2, <1>3, <1>7, DispatchRuns

LEMMA SpawnRuns ==
    ASSUME Inv, RunsInv, NEW g \in Group, Spawn(g)
    PROVE  RunsInv'
<1>0. spawned \in Nat /\ spawned < MaxThreads
  <2>1. spawned \in 0 .. MaxThreads
    BY DEF Inv, TypeOK
  <2> QED
    BY <2>1 DEF Spawn
<1>1. PICK t \in Thread : t = spawned + 1
  BY <1>0, ThreadAssumption DEF Thread
<1>2. tpc[t] = "unborn"
  BY <1>0, <1>1 DEF Inv, ThreadInv
<1>3. /\ gpc[g] = "spawn"
      /\ tpc' = [tpc EXCEPT ![t] = "run"]
      /\ job' = [job EXCEPT ![t] = NextJob(g)]
      /\ Dispatched(g)
      /\ UNCHANGED <<channel, failed, runs>>
  BY <1>1 DEF Spawn, GoThread
<1>4. /\ tpc'[t] = "run" /\ job'[t] = NextJob(g)
      /\ \A u \in Thread : u # t => tpc'[u] = tpc[u] /\ job'[u] = job[u]
  BY <1>3 DEF Inv, TypeOK
<1>5. \A j : (\E u \in Thread : tpc'[u] = "run" /\ job'[u] = j) <=>
             j = NextJob(g) \/ (\E u \in Thread : tpc[u] = "run" /\ job[u] = j)
  BY <1>2, <1>4
<1>6. \A j \in AllJobs : Pending(j)' <=> Pending(j) \/ j = NextJob(g)
  BY <1>3, <1>5 DEF Pending, Full
<1> QED
  BY <1>3, <1>6, DispatchRuns

\* The calling thread runs its jobs itself: no thread has any of them.
LEMMA InlineRuns ==
    ASSUME Inv, RunsInv, NEW g \in Group, RunInline(g)
    PROVE  RunsInv'
<1>1. PICK ran \in 0 .. Count[g], r \in Outcome :
        /\ r = "panic" \/ ran = Count[g]
        /\ runs' = [j \in AllJobs |-> IF j.group = g /\ j.index <= ran THEN 1 ELSE runs[j]]
        /\ GoGroup(g, IF r = "panic" THEN "panicked" ELSE "returned")
  BY DEF RunInline
<1>2. UNCHANGED <<channel, threads, dispatched, failed>>
  BY DEF RunInline
<1>3. PICK l \in Ended : GoGroup(g, l) /\ (l = "returned" => ran = Count[g])
  BY <1>1 DEF Ended
<1>4. gpc'[g] = l /\ \A h \in Group : h # g => gpc'[h] = gpc[h]
  BY <1>3 DEF GoGroup, Inv, TypeOK
<1>5. \A j \in AllJobs : runs'[j] \in {0, 1} /\ (j.group # g => runs'[j] = runs[j])
  BY <1>1 DEF RunsInv
<1>6. ASSUME NEW j \in AllJobs, gpc'[j.group] \notin Ended PROVE runs'[j] = 0 <=> Undone(j)'
  <2>1. j.group # g /\ gpc[j.group] \notin Ended
    BY <1>4, <1>6, JobFields
  <2>2. runs[j] = 0 <=> Undone(j)
    BY <2>1 DEF RunsInv
  <2>3. Undone(j)' <=> Undone(j)
    BY <1>2 DEF Undone, Pending, Full, threads
  <2> QED
    BY <1>5, <2>1, <2>2, <2>3
<1>7. ASSUME NEW h \in Group, gpc'[h] = "collect", ~failed'[h] PROVE dispatched'[h] = Count[h]
  <2>1. gpc[h] = "collect"
    BY <1>4, <1>7 DEF Ended
  <2> QED
    BY <1>2, <1>7, <2>1 DEF RunsInv
<1>8. ASSUME NEW h \in Group, gpc'[h] = "returned", NEW j \in JobsOf(h) PROVE runs'[j] = 1
  <2>1. j \in AllJobs /\ j.group = h
    BY JobMade
  <2>2. CASE h = g
    <3>1. ran = Count[g] /\ j.index \in 1 .. Count[g] /\ Count[g] \in Nat
      BY <1>3, <1>4, <1>8, <2>1, <2>2, JobFields, CountAssumption
    <3>2. j.index <= ran
      BY <3>1
    <3> QED
      BY <1>1, <2>1, <2>2, <3>2
  <2>3. CASE h # g
    BY <1>4, <1>5, <1>8, <2>1, <2>3 DEF RunsInv
  <2> QED
    BY <2>2, <2>3
<1> QED
  BY <1>5, <1>6, <1>7, <1>8 DEF RunsInv

\* A step of a thread that neither runs a job nor takes one.
LEMMA ThreadRuns ==
    ASSUME Inv, RunsInv, NEW t \in Thread, NEW l, l # "run", GoThread(t, l), tpc[t] # "run",
           UNCHANGED <<channel, groups, runs>>,
           \A u \in Thread : u # t => job'[u] = job[u]
    PROVE  RunsInv'
<1>1. tpc'[t] = l /\ \A u \in Thread : u # t => tpc'[u] = tpc[u]
  BY DEF GoThread, Inv, TypeOK
<1>2. \A j : (\E u \in Thread : tpc'[u] = "run" /\ job'[u] = j) <=>
             (\E u \in Thread : tpc[u] = "run" /\ job[u] = j)
  BY <1>1
<1>3. \A j \in AllJobs : Undone(j)' <=> Undone(j)
  BY <1>2 DEF Undone, Pending, Full, groups
<1>4. gpc' = gpc /\ failed' = failed /\ dispatched' = dispatched
  BY DEF groups
<1>5. \A g \in Group : gpc'[g] = "collect" /\ ~failed'[g] => dispatched'[g] = Count[g]
  BY <1>4 DEF RunsInv
<1>6. \A g \in Group : gpc'[g] = "returned" => \A j \in JobsOf(g) : runs[j] = 1
  BY <1>4 DEF RunsInv
<1> QED
  BY <1>3, <1>4, <1>5, <1>6, NothingRuns

LEMMA QuietThreadsRuns ==
    ASSUME Inv, RunsInv, NEW t \in Thread, PushIdle(t) \/ Report(t) \/ TimeOut(t) \/ Leave(t)
    PROVE  RunsInv'
<1>1. PICK l \in {"report", "wait", "dead", "leave", "recv"} : GoThread(t, l)
  BY DEF PushIdle, Report, TimeOut, Leave
<1>2. tpc[t] # "run" /\ UNCHANGED <<channel, groups, runs>>
  BY DEF PushIdle, Report, TimeOut, Leave
<1>3. \A u \in Thread : u # t => job'[u] = job[u]
  BY DEF PushIdle, Report, TimeOut, Leave, Inv, TypeOK
<1> QED
  BY <1>1, <1>2, <1>3, ThreadRuns

\* The job is the same one, in the channel or in hand.
LEMMA TakeJobRuns ==
    ASSUME Inv, RunsInv, NEW t \in Thread, TakeJob(t)
    PROVE  RunsInv'
<1>0. tpc[t] # "run" /\ Full(t)
  BY DEF TakeJob, Full
<1>1. Head(channel[t]) = channel[t][1] /\ Tail(channel[t]) = <<>>
  <2>1. channel[t] \in Seq(AllJobs)
    BY DEF Inv, TypeOK
  <2>2. Len(channel[t]) = 1 /\ channel[t] # <<>>
    BY <1>0 DEF Inv, ThreadInv, Full
  <2>3. Head(channel[t]) = channel[t][1]
    BY <2>1, <2>2
  <2>4. Tail(channel[t]) \in Seq(AllJobs) /\ Len(Tail(channel[t])) = 0
    BY <2>1, <2>2
  <2> QED
    BY <2>3, <2>4, EmptySeq, Zenon
<1>2. /\ tpc'[t] = "run" /\ job'[t] = channel[t][1] /\ channel'[t] = <<>>
      /\ \A u \in Thread : u # t => tpc'[u] = tpc[u] /\ job'[u] = job[u] /\ channel'[u] = channel[u]
  BY <1>1 DEF TakeJob, GoThread, Inv, TypeOK
<1>3. ~Full(t)' /\ \A u \in Thread : u # t => (Full(u)' <=> Full(u))
  BY <1>2 DEF Full
<1>4. UNCHANGED <<groups, runs>>
  BY DEF TakeJob
<1>5. \A j \in AllJobs : Pending(j)' <=> Pending(j)
  BY <1>0, <1>2, <1>3 DEF Pending
<1>6. \A j \in AllJobs : Undone(j)' <=> Undone(j)
  BY <1>4, <1>5 DEF Undone, groups
<1>7. gpc' = gpc /\ failed' = failed /\ dispatched' = dispatched
  BY <1>4 DEF groups
<1>8. \A g \in Group : gpc'[g] = "collect" /\ ~failed'[g] => dispatched'[g] = Count[g]
  BY <1>7 DEF RunsInv
<1>9. \A g \in Group : gpc'[g] = "returned" => \A j \in JobsOf(g) : runs[j] = 1
  BY <1>7 DEF RunsInv
<1> QED
  BY <1>4, <1>6, <1>7, <1>8, <1>9, NothingRuns

LEMMA RunRuns ==
    ASSUME Inv, RunsInv, NEW t \in Thread, Run(t)
    PROVE  RunsInv'
<1>1. PICK o \in AllJobs : o = job[t] /\ tpc[t] = "run"
  BY DEF Run, Inv, JobInv, Busy
<1>2. tpc'[t] # "run" /\ \A u \in Thread : u # t => tpc'[u] = tpc[u]
  <2>1. PICK l \in {"push", "report"} : GoThread(t, l)
    BY DEF Run
  <2> QED
    BY <2>1 DEF GoThread, Inv, TypeOK
<1>3. /\ UNCHANGED <<channel, job, groups>>
      /\ runs' = [runs EXCEPT ![o] = @ + 1]
  BY <1>1 DEF Run
<1>4. gpc' = gpc /\ failed' = failed /\ dispatched' = dispatched
  BY <1>3 DEF groups
<1>5. Pending(o) /\ gpc[o.group] \notin Ended
  <2>1. o \in Out(o.group) /\ o.group \in Group
    BY <1>1, JobFields DEF Out, IsOut, Busy
  <2> QED
    BY <1>1, <2>1 DEF Pending, Inv, GroupInv
<1>6. runs[o] = 0
  BY <1>5 DEF RunsInv, Undone
<1>7. runs'[o] = 1 /\ \A j \in AllJobs : j # o => runs'[j] = runs[j]
  <2>1. runs \in [AllJobs -> Nat]
    BY DEF Inv, TypeOK
  <2> QED
    BY <1>3, <1>6, <2>1
<1>8. ~Pending(o)'
  <2>1. \A u \in Thread : tpc[u] = "run" /\ job[u] = o => u = t
    BY <1>1 DEF Inv, JobInv, Busy
  <2>2. \A u \in Thread : Full(u) => channel[u][1] # o
    BY <1>1 DEF Inv, JobInv, Busy
  <2> QED
    BY <1>2, <1>3, <2>1, <2>2 DEF Pending, Full
<1>9. \A j \in AllJobs : j # o => (Pending(j)' <=> Pending(j))
  BY <1>1, <1>2, <1>3 DEF Pending, Full
<1>10. ASSUME NEW j \in AllJobs, gpc'[j.group] \notin Ended PROVE runs'[j] = 0 <=> Undone(j)'
  <2>1. CASE j = o
    <3>1. ~(o.index > dispatched[o.group])
      <4>1. o.index <= dispatched[o.group]
        BY <1>1 DEF Inv, JobInv, Busy
      <4>2. o.index \in Nat /\ dispatched[o.group] \in Nat
        BY JobFields, CountAssumption, GroupTypes DEF Inv
      <4> QED
        BY <4>1, <4>2
    <3>2. ~Undone(o)'
      BY <1>4, <1>8, <3>1 DEF Undone
    <3> QED
      BY <1>7, <2>1, <3>2
  <2>2. CASE j # o
    <3>1. runs[j] = 0 <=> Undone(j)
      BY <1>4, <1>10 DEF RunsInv
    <3>2. Undone(j)' <=> Undone(j)
      BY <1>4, <1>9, <2>2 DEF Undone
    <3> QED
      BY <1>7, <2>2, <3>1, <3>2
  <2> QED
    BY <2>1, <2>2
<1>11. \A j \in AllJobs : runs'[j] \in {0, 1}
  BY <1>7 DEF RunsInv
<1>12. \A g \in Group : gpc'[g] = "collect" /\ ~failed'[g] => dispatched'[g] = Count[g]
  BY <1>4 DEF RunsInv
<1>13. ASSUME NEW g \in Group, gpc'[g] = "returned", NEW j \in JobsOf(g) PROVE runs'[j] = 1
  <2>1. j \in AllJobs /\ j.group = g /\ j # o
    BY <1>4, <1>5, <1>13, JobMade DEF Ended
  <2> QED
    BY <1>4, <1>7, <1>13, <2>1 DEF RunsInv
<1> QED
  BY <1>10, <1>11, <1>12, <1>13 DEF RunsInv

(* No job runs twice, and a group that returned ran each of its jobs, in    *)
(* whatever order a dispatch, a timeout, a refused send and a panic come    *)
(* (`run_work_group`, which counts the outcomes, and `checker_thread`).     *)
THEOREM JobsRunOnce == Spec => []EachJobOnce
<1>1. Init => RunsInv
  <2> SUFFICES ASSUME Init PROVE RunsInv
    OBVIOUS
  <2>1. /\ \A j \in AllJobs : runs[j] = 0
        /\ \A g \in Group : gpc[g] = "start" /\ dispatched[g] = 0
    BY DEF Init
  <2>2. \A j \in AllJobs : Undone(j)
    <3> SUFFICES ASSUME NEW j \in AllJobs PROVE j.index > dispatched[j.group]
      BY DEF Undone
    <3>1. dispatched[j.group] = 0 /\ j.index \in 1 .. Count[j.group]
      BY <2>1, JobFields
    <3>2. \A i \in 1 .. Count[j.group] : i > 0
      BY JobFields, CountAssumption
    <3> QED
      BY <3>1, <3>2
  <2> QED
    BY <2>1, <2>2 DEF RunsInv
<1>2. Inv /\ RunsInv /\ [Next]_vars => RunsInv'
  <2> SUFFICES ASSUME Inv, RunsInv, [Next]_vars PROVE RunsInv'
    OBVIOUS
  <2>1. ASSUME NEW g \in Group, GroupStep(g) PROVE RunsInv'
    BY <2>1, InlineRuns, PopIdleRuns, SendRuns, SpawnRuns, SpawnFailsRuns, ReceiveRuns, ReturnRuns
    DEF GroupStep
  <2>2. ASSUME NEW t \in Thread, ThreadStep(t) PROVE RunsInv'
    BY <2>2, RunRuns, QuietThreadsRuns, TakeJobRuns DEF ThreadStep
  <2>3. CASE UNCHANGED vars
    <3>1. gpc' = gpc /\ failed' = failed /\ dispatched' = dispatched /\ runs' = runs
          /\ channel' = channel /\ tpc' = tpc /\ job' = job
      BY <2>3 DEF vars, groups, threads
    <3>2. \A j \in AllJobs : Undone(j)' <=> Undone(j)
      BY <3>1 DEF Undone, Pending, Full
    <3>3. \A g \in Group : gpc'[g] = "collect" /\ ~failed'[g] => dispatched'[g] = Count[g]
      BY <3>1 DEF RunsInv
    <3>4. \A g \in Group : gpc'[g] = "returned" => \A j \in JobsOf(g) : runs[j] = 1
      BY <3>1 DEF RunsInv
    <3> QED
      BY <3>1, <3>2, <3>3, <3>4, NothingRuns
  <2> QED
    BY <2>1, <2>2, <2>3 DEF Next, Done
<1>3. RunsInv => EachJobOnce
  <2>1. \A n \in {0, 1} : n <= 1
    OBVIOUS
  <2> QED
    BY <2>1 DEF RunsInv, EachJobOnce
<1> QED
  BY <1>1, <1>2, <1>3, ThreadsInvariant, PTL DEF Spec

=============================================================================
