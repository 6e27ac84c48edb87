---------------------------- MODULE SchedulerProofs ----------------------------
(***************************************************************************)
(* Theorems about Scheduler, for any Agents, Workers, Clients, jobs,       *)
(* capacity and policy.                                                    *)
(***************************************************************************)
EXTENDS Scheduler, Inductions, SequenceTheorems, FiniteSetTheorems, TLAPS

(* What RemoveAt returns, the operation by which take and blockEntryLocked *)
(* delete an entry of s.queue.                                             *)
LEMMA RemoveAtProperties ==
  ASSUME NEW S, NEW s \in Seq(S), NEW i \in DOMAIN s
  PROVE  /\ RemoveAt(s, i) \in Seq(S)
         /\ Len(RemoveAt(s, i)) = Len(s) - 1
         /\ \A j \in 1 .. Len(s) - 1 :
              RemoveAt(s, i)[j] = IF j < i THEN s[j] ELSE s[j + 1]
<1> DEFINE front == SubSeq(s, 1, i - 1)
           back == SubSeq(s, i + 1, Len(s))
<1>1. i \in 1 .. Len(s) /\ Len(s) \in Nat
  BY LenProperties
<1>2. front \in Seq(S) /\ Len(front) = i - 1 /\ \A j \in 1 .. i - 1 : front[j] = s[j]
  <2>1. \A k \in 1 .. i - 1 : s[k] \in S
    BY <1>1, ElementOfSeq
  <2> QED
    BY <1>1, <2>1, SubSeqProperties, Z3
<1>3. /\ back \in Seq(S) /\ Len(back) = Len(s) - i
      /\ \A j \in 1 .. Len(s) - i : back[j] = s[i + j]
  BY <1>1, SubSeqProperties, Z3
<1>4. RemoveAt(s, i) = front \o back
  BY DEF RemoveAt
<1> HIDE DEF front, back
<1> QED
  BY <1>1, <1>2, <1>3, <1>4, ConcatProperties, Z3T(30)

-----------------------------------------------------------------------------
(* Types *)

\* A client between the two halves of Submit has a job in hand, and a worker that executes
\* has an Agent.
WorkInHand ==
  /\ \A c \in Clients : client[c] = "submit" => submission[c] \in Jobs
  /\ \A w \in Workers : pc[w] = "executing" => job[w] \in Agents

Typing == TypeOK /\ WorkInHand

LEMMA InitTyping == Init => Typing
<1> SUFFICES ASSUME Init PROVE Typing
  OBVIOUS
<1>1. queue \in Seq(Agents)
  BY EmptySeq DEF Init
<1>2. WorkInHand
  BY DEF Init, WorkInHand
<1>3. /\ phase \in [Agents -> Phases] /\ output \in [Agents -> Outputs]
      /\ pc \in [Workers -> WorkerStates]
      /\ client \in [Clients -> {"idle", "submit", "wait", "stop"}]
  BY DEF Init, Phases, Outputs, WorkerStates
<1>4. /\ dependsOn \in [Agents -> SUBSET Agents]
      /\ contexts \in [Agents -> SUBSET Contexts]
      /\ acbContexts \in [Agents -> SUBSET Contexts]
      /\ loaded \in [Agents -> SUBSET SUBSET Contexts]
      /\ warm \in SUBSET Contexts
  <2>1. {} \in SUBSET Agents /\ {} \in SUBSET Contexts /\ {} \in SUBSET SUBSET Contexts
    OBVIOUS
  <2> QED
    BY <2>1, Zenon DEF Init
<1>5. /\ job \in [Workers -> Agents \cup {NoAgent}]
      /\ submission \in [Clients -> Jobs \cup {NoJob}]
  BY DEF Init
<1>6. sequence \in Nat /\ pending \in Int
  BY DEF Init
<1>7. seqOf \in [Agents -> Nat]
  BY DEF Init
<1>8. started \in BOOLEAN /\ stopped \in BOOLEAN /\ mu \in Workers \cup {NoWorker}
  BY Zenon DEF Init
<1> QED
  BY <1>1, <1>2, <1>3, <1>4, <1>5, <1>6, <1>7, <1>8 DEF Typing, TypeOK

\* A job in hand is an Agent with a set of dependencies and a set of contexts.
LEMMA JobFields ==
  ASSUME NEW j \in Jobs
  PROVE  j.agent \in Agents /\ j.deps \in SUBSET Agents /\ j.ctxs \in SUBSET Contexts
BY JobShape

LEMMA BlockEntryTyping ==
  ASSUME Typing, NEW i \in DOMAIN queue, BlockEntry(i)
  PROVE  Typing'
<1>1. queue' \in Seq(Agents)
  BY RemoveAtProperties DEF BlockEntry, Typing, TypeOK
<1>2. phase' \in [Agents -> Phases] /\ pending' \in Int
  BY DEF BlockEntry, Typing, TypeOK, Phases
<1>3. pc' \in [Workers -> WorkerStates]
  BY DEF BlockEntry, Woken, Typing, TypeOK, WorkerStates
<1>4. \A w \in Workers : pc'[w] = "executing" => pc[w] = "executing"
  BY DEF BlockEntry, Woken, Typing, TypeOK
<1>5. WorkInHand'
  BY <1>4 DEF BlockEntry, Typing, WorkInHand
<1> QED
  BY <1>1, <1>2, <1>3, <1>5 DEF BlockEntry, Typing, TypeOK

LEMMA WorkerStepTyping ==
  ASSUME Typing, NEW w \in Workers, WorkerStep(w)
  PROVE  Typing'
<1>1. CASE TakeLock(w)
  BY <1>1 DEF TakeLock, Typing, TypeOK, WorkInHand, WorkerStates
<1>2. CASE BlockUnrunnable(w)
  BY <1>2, BlockEntryTyping DEF BlockUnrunnable
<1>3. CASE Exit(w)
  BY <1>3 DEF Exit, Typing, TypeOK, WorkInHand, WorkerStates
<1>4. CASE Park(w)
  BY <1>4 DEF Park, Typing, TypeOK, WorkInHand, WorkerStates
<1>5. CASE BlockUndeliverable(w)
  BY <1>5, BlockEntryTyping DEF BlockUndeliverable
<1>6. CASE Dispatch(w)
  <2>1. PICK i \in DOMAIN queue :
          /\ queue' = RemoveAt(queue, i)
          /\ phase' = [phase EXCEPT ![queue[i]] = "RUNNING"]
          /\ job' = [job EXCEPT ![w] = queue[i]]
    BY <1>6 DEF Dispatch
  <2>2. queue' \in Seq(Agents) /\ queue[i] \in Agents
    BY <2>1, RemoveAtProperties, ElementOfSeq, LenProperties DEF Typing, TypeOK
  <2> QED
    BY <1>6, <2>1, <2>2 DEF Dispatch, Typing, TypeOK, WorkInHand, WorkerStates, Phases
<1>7. CASE Finish(w)
  <2>1. PICK runErr \in BOOLEAN, committed \in BOOLEAN, verdict \in Verdicts :
          /\ output' = [output EXCEPT ![job[w]] = OutputAfter(runErr, committed, verdict)]
          /\ warm' = WarmAfter(job[w], Failed(runErr, committed, verdict))
          /\ phase' = [phase EXCEPT ![job[w]] =
                         IF Failed(runErr, committed, verdict) THEN "FAILED" ELSE "SUCCEEDED"]
    BY <1>7 DEF Finish
  <2>2. output' \in [Agents -> Outputs]
    <3>1. OutputAfter(runErr, committed, verdict) \in Outputs
      BY DEF OutputAfter, Outputs, Verdicts, Failed
    <3> QED
      BY <2>1, <3>1 DEF Typing, TypeOK
  <2>3. phase' \in [Agents -> Phases]
    BY <2>1 DEF Typing, TypeOK, Phases
  <2>4. pc' \in [Workers -> WorkerStates]
    BY <1>7 DEF Finish, Woken, Typing, TypeOK, WorkerStates
  <2>5. contexts[job[w]] \in SUBSET Contexts
    BY <1>7 DEF Finish, Typing, TypeOK, WorkInHand
  <2>6. warm' \in SUBSET Contexts
    BY <2>1, <2>5 DEF WarmAfter, Typing, TypeOK
  <2>7. \A v \in Workers : pc'[v] = "executing" => pc[v] = "executing" /\ v # w
    BY <1>7 DEF Finish, Woken, Typing, TypeOK
  <2>8. WorkInHand' /\ job' \in [Workers -> Agents \cup {NoAgent}]
    BY <1>7, <2>7 DEF Finish, Typing, TypeOK, WorkInHand
  <2> QED
    BY <1>7, <2>2, <2>3, <2>4, <2>6, <2>8 DEF Finish, Typing, TypeOK
<1>8. CASE PendingDone(w)
  BY <1>8 DEF PendingDone, Typing, TypeOK, WorkInHand, WorkerStates
<1>9. CASE Load(w)
  <2>1. job[w] \in Agents
    BY <1>9 DEF Load, Typing, WorkInHand
  <2>2. acbContexts[job[w]] \in SUBSET Contexts
    BY <2>1 DEF Typing, TypeOK
  <2>3. loaded' \in [Agents -> SUBSET SUBSET Contexts]
    BY <1>9, <2>2 DEF Load, Typing, TypeOK
  <2> QED
    BY <1>9, <2>3 DEF Load, Typing, TypeOK, WorkInHand
<1> QED
  BY <1>1, <1>2, <1>3, <1>4, <1>5, <1>6, <1>7, <1>8, <1>9 DEF WorkerStep

LEMMA ClientStepTyping ==
  ASSUME Typing, NEW c \in Clients, ClientStep(c)
  PROVE  Typing'
<1>1. CASE Start(c)
  BY <1>1 DEF Start, Typing, TypeOK, WorkInHand, WorkerStates
<1>2. CASE SubmitUnlocked(c)
  <2>1. PICK j \in Jobs :
          /\ acbContexts' = [acbContexts EXCEPT ![j.agent] = j.ctxs]
          /\ IF j.agent \in j.deps
               THEN UNCHANGED <<client, submission>>
               ELSE /\ client' = [client EXCEPT ![c] = "submit"]
                    /\ submission' = [submission EXCEPT ![c] = j]
    BY <1>2 DEF SubmitUnlocked
  <2>2. acbContexts' \in [Agents -> SUBSET Contexts]
    BY <2>1, JobFields DEF Typing, TypeOK
  <2>3. /\ client' \in [Clients -> {"idle", "submit", "wait", "stop"}]
        /\ submission' \in [Clients -> Jobs \cup {NoJob}]
        /\ \A d \in Clients : client'[d] = "submit" => submission'[d] \in Jobs
    BY <2>1 DEF Typing, TypeOK, WorkInHand
  <2>4. WorkInHand'
    BY <1>2, <2>3 DEF SubmitUnlocked, Typing, WorkInHand
  <2> QED
    BY <1>2, <2>2, <2>3, <2>4 DEF SubmitUnlocked, Typing, TypeOK
<1>3. CASE SubmitRefused(c)
  BY <1>3 DEF SubmitRefused, Typing, TypeOK, WorkInHand
<1>4. CASE SubmitAccepted(c)
  <2>1. PICK j \in Jobs : j = submission[c]
    BY <1>4 DEF SubmitAccepted, Typing, WorkInHand
  <2>2. queue' \in Seq(Agents)
    BY <1>4, <2>1, JobFields, AppendProperties DEF SubmitAccepted, Typing, TypeOK
  <2>3. pc' \in [Workers -> WorkerStates]
    BY <1>4 DEF SubmitAccepted, Signal, Parked, Typing, TypeOK, WorkerStates
  <2>4. /\ phase' \in [Agents -> Phases]
        /\ seqOf' \in [Agents -> Nat] /\ sequence' \in Nat
        /\ dependsOn' \in [Agents -> SUBSET Agents]
        /\ contexts' \in [Agents -> SUBSET Contexts]
    BY <1>4, <2>1, JobFields DEF SubmitAccepted, Typing, TypeOK, Phases
  <2>5. \A w \in Workers : pc'[w] = "executing" => pc[w] = "executing"
    BY <1>4 DEF SubmitAccepted, Signal, Parked, Typing, TypeOK
  <2>6. WorkInHand'
    BY <1>4, <2>5 DEF SubmitAccepted, Typing, TypeOK, WorkInHand
  <2> QED
    BY <1>4, <2>2, <2>3, <2>4, <2>6 DEF SubmitAccepted, Typing, TypeOK
<1>5. CASE WaitCall(c)
  BY <1>5 DEF WaitCall, Typing, TypeOK, WorkInHand
<1>6. CASE WaitReturn(c)
  BY <1>6 DEF WaitReturn, Typing, TypeOK, WorkInHand
<1>7. CASE Stop(c)
  BY <1>7 DEF Stop, Woken, Typing, TypeOK, WorkInHand, WorkerStates
<1>8. CASE StopReturn(c)
  BY <1>8 DEF StopReturn, Typing, TypeOK, WorkInHand
<1> QED
  BY <1>1, <1>2, <1>3, <1>4, <1>5, <1>6, <1>7, <1>8 DEF ClientStep

LEMMA StutterTyping == Typing /\ UNCHANGED vars => Typing'
BY DEF Typing, TypeOK, WorkInHand, vars

LEMMA NextTyping == Typing /\ [Next]_vars => Typing'
BY WorkerStepTyping, ClientStepTyping, StutterTyping DEF Next

\* No step of a worker or a client takes a variable out of its type.
THEOREM SchedulerTypes == Spec => []TypeOK
<1>1. Typing => TypeOK
  BY DEF Typing
<1> QED
  BY <1>1, InitTyping, NextTyping, PTL DEF Spec

-----------------------------------------------------------------------------
(* The inductive invariant                                                 *)
(*                                                                         *)
(* The gate and the reasons for blocking speak of records only, but are    *)
(* kept only because the queue, the sequence numbers, the lock and the     *)
(* workers agree with the records: a worker that finished an Agent twice,  *)
(* or an Agent dispatched from a stale queue entry, would break them.      *)

QueueSound ==
  /\ \A i \in DOMAIN queue : phase[queue[i]] = "QUEUED"
  /\ \A a \in Agents : phase[a] = "QUEUED" => \E i \in DOMAIN queue : queue[i] = a
  /\ \A i, j \in DOMAIN queue : i < j => seqOf[queue[i]] < seqOf[queue[j]]
  /\ Len(queue) <= QueueCapacity

SequenceSound ==
  /\ \A a \in Agents : seqOf[a] <= sequence
  /\ \A a \in Agents : phase[a] = "ABSENT" <=> seqOf[a] = 0
  /\ \A a \in Agents : \A d \in dependsOn[a] : 0 < seqOf[d] /\ seqOf[d] < seqOf[a]

ExecutionSound ==
  /\ \A w \in Workers : pc[w] = "executing" => job[w] \in Agents /\ phase[job[w]] = "RUNNING"
  /\ \A v, w \in Workers :
       pc[v] = "executing" /\ pc[w] = "executing" /\ job[v] = job[w] => v = w
  /\ \A a \in Agents :
       phase[a] = "RUNNING" => \E w \in Workers : pc[w] = "executing" /\ job[w] = a

LockSound == \A w \in Workers : pc[w] = "locked" <=> mu = w

LifecycleSound ==
  /\ \A w \in Workers : started <=> pc[w] # "off"
  /\ \A w \in Workers : pc[w] = "exited" => stopped

RecordsSound == QueueSound /\ SequenceSound /\ ExecutionSound /\ DependencyGate
                /\ BlockedForAReason

SafetyInv == Typing /\ LockSound /\ LifecycleSound /\ RecordsSound

LEMMA InitSafety == Init => SafetyInv
<1> SUFFICES ASSUME Init PROVE SafetyInv
  OBVIOUS
<1>1. Typing
  BY InitTyping
<1>2. LockSound /\ LifecycleSound
  BY Sentinels DEF Init, LockSound, LifecycleSound
<1>3. QueueSound
  BY CapacityIsPositive DEF Init, QueueSound
<1>4. SequenceSound /\ ExecutionSound
  BY DEF Init, SequenceSound, ExecutionSound
<1>5. DependencyGate /\ BlockedForAReason
  BY DEF Init, DependencyGate, BlockedForAReason, InPhase
<1> QED
  BY <1>1, <1>2, <1>3, <1>4, <1>5 DEF SafetyInv, RecordsSound

\* A step that touches no record, no queue entry and no execution.
Quiet ==
  /\ UNCHANGED <<queue, sequence, seqOf, phase, dependsOn, output, job>>
  /\ \A w \in Workers : pc'[w] = "executing" <=> pc[w] = "executing"

LEMMA QuietKeepsRecords == RecordsSound /\ Quiet => RecordsSound'
BY DEF RecordsSound, Quiet, QueueSound, SequenceSound, ExecutionSound, DependencyGate,
       BlockedForAReason, Satisfied, InPhase

-----------------------------------------------------------------------------
(* Leaving the queue *)

\* Sequence numbers tell the entries of the queue apart.
LEMMA EntriesAreDistinct ==
  ASSUME Typing, QueueSound, NEW i \in DOMAIN queue, NEW j \in DOMAIN queue, i # j
  PROVE  queue[i] # queue[j]
<1>1. i \in Nat /\ j \in Nat
  BY LenProperties DEF Typing, TypeOK
<1>2. queue[i] \in Agents /\ queue[j] \in Agents
  BY ElementOfSeq, LenProperties DEF Typing, TypeOK
<1>3. seqOf[queue[i]] \in Nat /\ seqOf[queue[j]] \in Nat
  BY <1>2 DEF Typing, TypeOK
<1>4. seqOf[queue[i]] # seqOf[queue[j]]
  BY <1>1, <1>3 DEF QueueSound
<1> QED
  BY <1>4

\* An entry that leaves the queue as its Agent leaves QUEUED.
LEMMA RemovalKeepsQueue ==
  ASSUME Typing, QueueSound,
         NEW i \in DOMAIN queue, NEW p \in {"RUNNING", "BLOCKED"},
         queue' = RemoveAt(queue, i),
         phase' = [phase EXCEPT ![queue[i]] = p],
         seqOf' = seqOf
  PROVE  QueueSound'
<1> DEFINE Old(j) == IF j < i THEN j ELSE j + 1
<1>1. /\ queue \in Seq(Agents) /\ Len(queue) \in Nat
      /\ DOMAIN queue = 1 .. Len(queue) /\ i \in 1 .. Len(queue)
      /\ QueueCapacity \in Nat
  BY LenProperties, CapacityIsPositive DEF Typing, TypeOK
<1>2. /\ Len(queue') = Len(queue) - 1
      /\ DOMAIN queue' = 1 .. Len(queue) - 1
      /\ \A j \in 1 .. Len(queue) - 1 : queue'[j] = IF j < i THEN queue[j] ELSE queue[j + 1]
  <2>1. queue' \in Seq(Agents) /\ Len(queue') = Len(queue) - 1
    BY <1>1, RemoveAtProperties
  <2>2. DOMAIN queue' = 1 .. Len(queue')
    BY <2>1, LenProperties
  <2> QED
    BY <1>1, <2>1, <2>2, RemoveAtProperties
<1>3. \A j \in DOMAIN queue' :
        Old(j) \in DOMAIN queue /\ Old(j) # i /\ queue'[j] = queue[Old(j)]
  BY <1>1, <1>2
<1>4. \A j \in DOMAIN queue' : queue'[j] \in Agents /\ queue'[j] # queue[i]
  BY <1>1, <1>3, EntriesAreDistinct, ElementOfSeq
<1>5. \A j \in DOMAIN queue' : phase'[queue'[j]] = "QUEUED"
  <2>1. \A j \in DOMAIN queue' : phase[queue'[j]] = "QUEUED"
    BY <1>3 DEF QueueSound
  <2>2. \A b \in Agents : b # queue[i] => phase'[b] = phase[b]
    BY DEF Typing, TypeOK
  <2> QED
    BY <1>4, <2>1, <2>2
<1>6. ASSUME NEW a \in Agents, phase'[a] = "QUEUED"
      PROVE  \E j \in DOMAIN queue' : queue'[j] = a
  <2>1. phase[a] = "QUEUED" /\ a # queue[i]
    BY <1>1, <1>6, ElementOfSeq DEF Typing, TypeOK
  <2>2. PICK k \in DOMAIN queue : queue[k] = a
    BY <2>1 DEF QueueSound
  <2>3. k # i
    BY <2>1, <2>2
  <2>4. CASE k < i
    BY <1>1, <1>2, <2>2, <2>4
  <2>5. CASE k > i
    <3>1. k - 1 \in DOMAIN queue' /\ queue'[k - 1] = queue[k]
      BY <1>1, <1>2, <2>2, <2>5
    <3> QED
      BY <2>2, <3>1
  <2> QED
    BY <1>1, <2>2, <2>3, <2>4, <2>5
<1>7. \A j, k \in DOMAIN queue' : j < k => seqOf'[queue'[j]] < seqOf'[queue'[k]]
  <2>1. \A j, k \in DOMAIN queue' : j < k => Old(j) < Old(k)
    BY <1>1, <1>2
  <2> QED
    BY <1>3, <2>1 DEF QueueSound
<1>8. Len(queue') <= QueueCapacity
  BY <1>1, <1>2 DEF QueueSound
<1> QED
  BY <1>5, <1>6, <1>7, <1>8 DEF QueueSound

\* An Agent that leaves QUEUED was satisfied by nobody's reckoning before, so no
\* dependent changes its standing.
LEMMA BlockEntryKeepsRecords ==
  ASSUME SafetyInv, NEW i \in DOMAIN queue, BlockEntry(i),
         \E d \in dependsOn[queue[i]] :
           phase[d] \in Terminal /\ (~Satisfied(d) \/ output[d] = "UNENCODABLE")
  PROVE  RecordsSound'
<1> DEFINE a == queue[i]
<1>1. a \in Agents /\ phase[a] = "QUEUED"
  BY ElementOfSeq, LenProperties
     DEF SafetyInv, RecordsSound, QueueSound, Typing, TypeOK
<1>2. /\ phase' = [phase EXCEPT ![a] = "BLOCKED"]
      /\ UNCHANGED <<sequence, seqOf, dependsOn, output, job>>
      /\ \A w \in Workers : pc'[w] = "executing" <=> pc[w] = "executing"
  BY DEF BlockEntry, Woken
<1>3. phase \in [Agents -> Phases] /\ dependsOn \in [Agents -> SUBSET Agents]
  BY DEF SafetyInv, Typing, TypeOK
<1>4. QueueSound'
  <2>1. queue' = RemoveAt(queue, i) /\ phase' = [phase EXCEPT ![queue[i]] = "BLOCKED"]
        /\ seqOf' = seqOf
    BY DEF BlockEntry
  <2> QED
    BY <2>1, RemovalKeepsQueue DEF SafetyInv, RecordsSound
<1>5. \A d \in Agents : Satisfied(d)' <=> Satisfied(d)
  BY <1>1, <1>2, <1>3 DEF Satisfied
<1>6. \A d \in Agents : phase[d] \in Terminal => phase'[d] = phase[d]
  BY <1>1, <1>2, <1>3 DEF Terminal
<1> HIDE DEF a
<1>7. SequenceSound'
  BY <1>1, <1>2, <1>3 DEF SafetyInv, RecordsSound, SequenceSound
<1>8. ExecutionSound'
  BY <1>1, <1>2, <1>3 DEF SafetyInv, RecordsSound, ExecutionSound
<1>9. DependencyGate'
  BY <1>1, <1>2, <1>3, <1>5 DEF SafetyInv, RecordsSound, DependencyGate
<1>10. BlockedForAReason'
  <2>1. ASSUME NEW b \in Agents, phase'[b] = "BLOCKED"
        PROVE  \E d \in dependsOn'[b] :
                 phase'[d] \in Terminal /\ (~Satisfied(d)' \/ output'[d] = "UNENCODABLE")
    <3>1. PICK d \in dependsOn[b] :
            phase[d] \in Terminal /\ (~Satisfied(d) \/ output[d] = "UNENCODABLE")
      BY <1>1, <1>2, <1>3, <2>1
         DEF a, SafetyInv, RecordsSound, BlockedForAReason, InPhase
    <3>2. d \in Agents
      BY <1>3
    <3> QED
      BY <1>2, <1>5, <1>6, <3>1, <3>2
  <2> QED
    BY <2>1 DEF BlockedForAReason, InPhase
<1> QED
  BY <1>4, <1>7, <1>8, <1>9, <1>10 DEF RecordsSound

\* dependencyStatusLocked gives a reason only for a dependency that has ended: no
\* record of a known Agent is ever missing.
LEMMA UnrunnableHasReason ==
  ASSUME SafetyInv, NEW a \in Agents, Unrunnable(a)
  PROVE  \E d \in dependsOn[a] : phase[d] \in Terminal /\ ~Satisfied(d)
<1>1. PICK d \in dependsOn[a] : ~Satisfied(d) /\ phase[d] \notin Unfinished
  BY DEF Unrunnable, Unmet
<1>2. d \in Agents /\ phase[d] \in Phases /\ seqOf[d] \in Nat
  BY DEF SafetyInv, Typing, TypeOK
<1>3. phase[d] # "ABSENT"
  BY <1>2 DEF SafetyInv, RecordsSound, SequenceSound
<1> QED
  BY <1>1, <1>2, <1>3 DEF Phases, Unfinished, Terminal

LEMMA DispatchKeepsRecords ==
  ASSUME SafetyInv, NEW w \in Workers, Dispatch(w)
  PROVE  RecordsSound'
<1>1. PICK i \in DOMAIN queue :
        /\ Selectable(i) /\ ~Unencodable(queue[i])
        /\ queue' = RemoveAt(queue, i)
        /\ phase' = [phase EXCEPT ![queue[i]] = "RUNNING"]
        /\ job' = [job EXCEPT ![w] = queue[i]]
  BY DEF Dispatch
<1> DEFINE a == queue[i]
<1>2. a \in Agents /\ phase[a] = "QUEUED"
  BY ElementOfSeq, LenProperties DEF SafetyInv, RecordsSound, QueueSound, Typing, TypeOK
<1>3. /\ pc' = [pc EXCEPT ![w] = "executing"]
      /\ UNCHANGED <<sequence, seqOf, dependsOn, output>>
  BY DEF Dispatch
<1>4. /\ phase \in [Agents -> Phases] /\ dependsOn \in [Agents -> SUBSET Agents]
      /\ pc \in [Workers -> WorkerStates] /\ job \in [Workers -> Agents \cup {NoAgent}]
  BY DEF SafetyInv, Typing, TypeOK
<1>5. QueueSound'
  BY <1>1, <1>3, RemovalKeepsQueue DEF SafetyInv, RecordsSound
<1>6. \A d \in dependsOn[a] : Satisfied(d)
  BY <1>1 DEF Selectable, Runnable, Ready, Unmet
<1>7. phase' = [phase EXCEPT ![a] = "RUNNING"] /\ job' = [job EXCEPT ![w] = a]
  BY <1>1
<1> HIDE DEF a
<1>8. \A d \in Agents : Satisfied(d)' <=> Satisfied(d)
  BY <1>2, <1>3, <1>4, <1>7 DEF Satisfied
<1>9. SequenceSound'
  BY <1>2, <1>3, <1>4, <1>7 DEF SafetyInv, RecordsSound, SequenceSound
<1>10. ExecutionSound'
  <2>1. pc[w] = "locked"
    BY DEF Dispatch, Propagated, SafetyInv, LockSound
  <2>2. \A v \in Workers : pc[v] = "executing" => v # w /\ job[v] # a
    BY <1>2, <2>1 DEF SafetyInv, RecordsSound, ExecutionSound
  <2> QED
    BY <1>2, <1>3, <1>4, <1>7, <2>2 DEF SafetyInv, RecordsSound, ExecutionSound
<1>11. DependencyGate'
  BY <1>2, <1>3, <1>4, <1>6, <1>7, <1>8 DEF SafetyInv, RecordsSound, DependencyGate
<1>12. BlockedForAReason'
  <2>1. \A d \in Agents : phase[d] \in Terminal => phase'[d] = phase[d]
    BY <1>2, <1>4, <1>7 DEF Terminal
  <2>2. \A b \in Agents : phase'[b] = "BLOCKED" => phase[b] = "BLOCKED"
    BY <1>2, <1>4, <1>7
  <2> QED
    BY <1>3, <1>4, <1>8, <2>1, <2>2 DEF SafetyInv, RecordsSound, BlockedForAReason, InPhase
<1> QED
  BY <1>5, <1>9, <1>10, <1>11, <1>12 DEF RecordsSound

\* The Agent that ends was RUNNING: it satisfied nobody, so the gate was closed to its
\* dependents and none of them has been dispatched or blocked because of it.
LEMMA FinishKeepsRecords ==
  ASSUME SafetyInv, NEW w \in Workers, Finish(w)
  PROVE  RecordsSound'
<1> DEFINE a == job[w]
<1>1. PICK p \in {"SUCCEEDED", "FAILED"}, o \in Outputs :
        phase' = [phase EXCEPT ![a] = p] /\ output' = [output EXCEPT ![a] = o]
  <2>1. PICK runErr \in BOOLEAN, committed \in BOOLEAN, verdict \in Verdicts :
          /\ output' = [output EXCEPT ![a] = OutputAfter(runErr, committed, verdict)]
          /\ phase' = [phase EXCEPT ![a] =
                         IF Failed(runErr, committed, verdict) THEN "FAILED" ELSE "SUCCEEDED"]
    BY DEF Finish
  <2>2. OutputAfter(runErr, committed, verdict) \in Outputs
    BY DEF OutputAfter, Outputs, Verdicts, Failed
  <2>3. \E p \in {"SUCCEEDED", "FAILED"} : phase' = [phase EXCEPT ![a] = p]
    BY <2>1
  <2> QED
    BY <2>1, <2>2, <2>3
<1>2. /\ pc[w] = "executing"
      /\ UNCHANGED <<queue, sequence, seqOf, dependsOn>>
      /\ job' = [job EXCEPT ![w] = NoAgent]
      /\ \A v \in Workers : pc'[v] = "executing" <=> pc[v] = "executing" /\ v # w
  BY DEF Finish, Woken, SafetyInv, Typing, TypeOK
<1>3. a \in Agents /\ phase[a] = "RUNNING"
  BY <1>2 DEF SafetyInv, RecordsSound, ExecutionSound
<1>4. /\ phase \in [Agents -> Phases] /\ dependsOn \in [Agents -> SUBSET Agents]
      /\ job \in [Workers -> Agents \cup {NoAgent}] /\ output \in [Agents -> Outputs]
  BY DEF SafetyInv, Typing, TypeOK
<1>5. \A v \in Workers : pc[v] = "executing" /\ v # w => job[v] # a
  BY <1>2 DEF SafetyInv, RecordsSound, ExecutionSound
<1>6. \A i \in DOMAIN queue : queue[i] \in Agents
  BY ElementOfSeq, LenProperties DEF SafetyInv, Typing, TypeOK
<1> HIDE DEF a
<1>7. QueueSound'
  BY <1>1, <1>2, <1>3, <1>4, <1>6 DEF SafetyInv, RecordsSound, QueueSound
<1>8. SequenceSound'
  BY <1>1, <1>2, <1>3, <1>4 DEF SafetyInv, RecordsSound, SequenceSound
<1>9. ExecutionSound'
  <2>1. \A v \in Workers : v # w => job'[v] = job[v]
    BY <1>2, <1>4
  <2>2. \A b \in Agents : b # a => phase'[b] = phase[b]
    BY <1>1, <1>4
  <2>3. phase'[a] # "RUNNING"
    BY <1>1, <1>3, <1>4
  <2>4. ASSUME NEW b \in Agents, phase'[b] = "RUNNING"
        PROVE  \E v \in Workers : pc'[v] = "executing" /\ job'[v] = b
    <3>1. b # a /\ phase[b] = "RUNNING"
      BY <2>2, <2>3, <2>4
    <3>2. PICK v \in Workers : pc[v] = "executing" /\ job[v] = b
      BY <3>1 DEF SafetyInv, RecordsSound, ExecutionSound
    <3>3. v # w
      BY <3>1, <3>2 DEF a
    <3> QED
      BY <1>2, <2>1, <3>2, <3>3
  <2> QED
    BY <1>2, <1>5, <2>1, <2>2, <2>4 DEF SafetyInv, RecordsSound, ExecutionSound
<1>10. \A d \in Agents : d # a => (Satisfied(d)' <=> Satisfied(d)) /\ phase'[d] = phase[d]
                                  /\ output'[d] = output[d]
  BY <1>1, <1>4 DEF Satisfied
<1>11. ~Satisfied(a)
  BY <1>3 DEF Satisfied
<1>12. DependencyGate'
  <2>1. ASSUME NEW b \in Agents, phase'[b] \in {"RUNNING", "SUCCEEDED", "FAILED"},
               NEW d \in dependsOn[b]
        PROVE  Satisfied(d)'
    <3>1. phase[b] \in {"RUNNING", "SUCCEEDED", "FAILED"}
      BY <1>3, <1>10, <2>1
    <3>2. d \in Agents /\ Satisfied(d)
      BY <1>4, <2>1, <3>1 DEF SafetyInv, RecordsSound, DependencyGate
    <3> QED
      BY <1>10, <1>11, <3>2
  <2> QED
    BY <1>2, <2>1 DEF DependencyGate
<1>13. BlockedForAReason'
  <2>1. ASSUME NEW b \in Agents, phase'[b] = "BLOCKED"
        PROVE  \E d \in dependsOn[b] :
                 phase'[d] \in Terminal /\ (~Satisfied(d)' \/ output'[d] = "UNENCODABLE")
    <3>1. phase[b] = "BLOCKED"
      BY <1>1, <1>3, <1>4, <1>10, <2>1
    <3>2. PICK d \in dependsOn[b] :
            phase[d] \in Terminal /\ (~Satisfied(d) \/ output[d] = "UNENCODABLE")
      BY <3>1 DEF SafetyInv, RecordsSound, BlockedForAReason, InPhase
    <3>3. d \in Agents /\ d # a
      BY <1>3, <1>4, <3>2 DEF Terminal
    <3> QED
      BY <1>10, <3>2, <3>3
  <2> QED
    BY <1>2, <2>1 DEF BlockedForAReason, InPhase
<1> QED
  BY <1>7, <1>8, <1>9, <1>12, <1>13 DEF RecordsSound

-----------------------------------------------------------------------------
(* Entering the queue *)

LEMMA SubmitKeepsRecords ==
  ASSUME SafetyInv, NEW c \in Clients, SubmitAccepted(c)
  PROVE  RecordsSound'
<1> DEFINE a == submission[c].agent
           deps == submission[c].deps
<1>1. a \in Agents /\ deps \in SUBSET Agents
  BY JobFields DEF SubmitAccepted, SafetyInv, Typing, WorkInHand
<1>2. /\ phase[a] = "ABSENT" /\ Len(queue) < QueueCapacity
      /\ \A d \in deps : phase[d] # "ABSENT"
  BY LenProperties, CapacityIsPositive DEF SubmitAccepted, Refused, SafetyInv, Typing, TypeOK
<1>3. /\ queue' = Append(queue, a)
      /\ sequence' = sequence + 1
      /\ seqOf' = [seqOf EXCEPT ![a] = sequence + 1]
      /\ phase' = [phase EXCEPT ![a] = "QUEUED"]
      /\ dependsOn' = [dependsOn EXCEPT ![a] = deps]
      /\ UNCHANGED <<output, job>>
  BY DEF SubmitAccepted
<1>4. \A w \in Workers : pc'[w] = "executing" <=> pc[w] = "executing"
  BY DEF SubmitAccepted, Signal, Parked, SafetyInv, Typing, TypeOK
<1> HIDE DEF a, deps
<1>5. /\ phase \in [Agents -> Phases] /\ dependsOn \in [Agents -> SUBSET Agents]
      /\ seqOf \in [Agents -> Nat] /\ sequence \in Nat
      /\ queue \in Seq(Agents) /\ Len(queue) \in Nat /\ DOMAIN queue = 1 .. Len(queue)
      /\ QueueCapacity \in Nat
  BY LenProperties, CapacityIsPositive DEF SafetyInv, Typing, TypeOK
<1>6. /\ Len(queue') = Len(queue) + 1
      /\ DOMAIN queue' = 1 .. Len(queue) + 1
      /\ \A i \in 1 .. Len(queue) : queue'[i] = queue[i] /\ queue[i] \in Agents
      /\ queue'[Len(queue) + 1] = a
  <2>1. queue' \in Seq(Agents) /\ Len(queue') = Len(queue) + 1
    BY <1>1, <1>3, <1>5, AppendProperties
  <2> QED
    BY <1>1, <1>3, <1>5, <2>1, AppendProperties, LenProperties, ElementOfSeq
<1>7. \A i \in 1 .. Len(queue) : queue[i] # a
  BY <1>2, <1>5 DEF SafetyInv, RecordsSound, QueueSound
<1>8. QueueSound'
  <2>1. \A i \in DOMAIN queue' : phase'[queue'[i]] = "QUEUED"
    BY <1>1, <1>3, <1>5, <1>6 DEF SafetyInv, RecordsSound, QueueSound
  <2>2. ASSUME NEW b \in Agents, phase'[b] = "QUEUED"
        PROVE  \E i \in DOMAIN queue' : queue'[i] = b
    <3>1. CASE b = a
      BY <1>5, <1>6, <3>1
    <3>2. CASE b # a
      <4>1. PICK i \in DOMAIN queue : queue[i] = b
        BY <1>3, <1>5, <2>2, <3>2 DEF SafetyInv, RecordsSound, QueueSound
      <4> QED
        BY <1>5, <1>6, <4>1
    <3> QED
      BY <3>1, <3>2
  <2>3. \A i, j \in DOMAIN queue' : i < j => seqOf'[queue'[i]] < seqOf'[queue'[j]]
    <3>1. \A i \in 1 .. Len(queue) : seqOf'[queue'[i]] = seqOf[queue[i]]
      BY <1>3, <1>5, <1>6, <1>7
    <3>2. \A i \in 1 .. Len(queue) : seqOf[queue[i]] < sequence + 1
      BY <1>5, <1>6 DEF SafetyInv, RecordsSound, SequenceSound
    <3>3. seqOf'[queue'[Len(queue) + 1]] = sequence + 1
      BY <1>1, <1>3, <1>5, <1>6
    <3>4. \A i, j \in 1 .. Len(queue) : i < j => seqOf[queue[i]] < seqOf[queue[j]]
      BY <1>5 DEF SafetyInv, RecordsSound, QueueSound
    <3>5. ASSUME NEW i \in 1 .. Len(queue), NEW j \in 1 .. Len(queue) + 1, i < j
          PROVE  seqOf'[queue'[i]] < seqOf'[queue'[j]]
      <4>1. CASE j = Len(queue) + 1
        BY <3>1, <3>2, <3>3, <4>1
      <4>2. CASE j \in 1 .. Len(queue)
        BY <3>1, <3>4, <3>5, <4>2
      <4>3. Len(queue) \in Nat
        BY <1>5
      <4>4. j = Len(queue) + 1 \/ j \in 1 .. Len(queue)
        BY <4>3
      <4> QED
        BY <4>1, <4>2, <4>4
    <3>6. \A i, j \in 1 .. Len(queue) + 1 : i < j => i \in 1 .. Len(queue)
      BY <1>5
    <3> QED
      BY ZenonT(30), <1>6, <3>5, <3>6
  <2>4. Len(queue') <= QueueCapacity
    BY <1>2, <1>5, <1>6
  <2> QED
    BY <2>1, <2>2, <2>3, <2>4 DEF QueueSound
<1>9. SequenceSound'
  <2>1. \A b \in Agents : seqOf'[b] <= sequence'
    BY <1>1, <1>3, <1>5 DEF SafetyInv, RecordsSound, SequenceSound
  <2>2. \A b \in Agents : phase'[b] = "ABSENT" <=> seqOf'[b] = 0
    BY <1>1, <1>3, <1>5 DEF SafetyInv, RecordsSound, SequenceSound
  <2>3. ASSUME NEW b \in Agents, NEW d \in dependsOn'[b]
        PROVE  0 < seqOf'[d] /\ seqOf'[d] < seqOf'[b]
    <3>1. seqOf[a] = 0
      BY <1>1, <1>2 DEF SafetyInv, RecordsSound, SequenceSound
    <3>2. CASE b = a
      <4>1. d \in deps /\ d \in Agents
        BY <1>1, <1>3, <1>5, <2>3, <3>2
      <4>2. d # a /\ 0 < seqOf[d] /\ seqOf[d] <= sequence
        BY <1>2, <1>5, <4>1 DEF SafetyInv, RecordsSound, SequenceSound
      <4> QED
        BY <1>1, <1>3, <1>5, <3>2, <4>1, <4>2
    <3>3. CASE b # a
      <4>1. d \in dependsOn[b] /\ d \in Agents
        BY <1>3, <1>5, <2>3, <3>3
      <4>2. 0 < seqOf[d] /\ seqOf[d] < seqOf[b]
        BY <4>1 DEF SafetyInv, RecordsSound, SequenceSound
      <4> QED
        BY <1>3, <1>5, <3>1, <3>3, <4>1, <4>2
    <3> QED
      BY <3>2, <3>3
  <2> QED
    BY <2>1, <2>2, <2>3 DEF SequenceSound
<1>10. ExecutionSound'
  BY <1>2, <1>3, <1>4, <1>5 DEF SafetyInv, RecordsSound, ExecutionSound
<1>11. \A d \in Agents : (Satisfied(d)' <=> Satisfied(d))
                         /\ (phase[d] # "ABSENT" => phase'[d] = phase[d])
  BY <1>2, <1>3, <1>5 DEF Satisfied
<1>12. \A b \in Agents : b # a => dependsOn'[b] = dependsOn[b] /\ phase'[b] = phase[b]
  BY <1>3, <1>5
<1>13. phase'[a] = "QUEUED"
  BY <1>1, <1>3, <1>5
<1>14. DependencyGate'
  <2>1. ASSUME NEW b \in Agents, phase'[b] \in {"RUNNING", "SUCCEEDED", "FAILED"},
               NEW d \in dependsOn'[b]
        PROVE  Satisfied(d)'
    <3>1. b # a /\ d \in dependsOn[b] /\ d \in Agents
      BY <1>5, <1>12, <1>13, <2>1
    <3> QED
      BY <1>11, <1>12, <2>1, <3>1 DEF SafetyInv, RecordsSound, DependencyGate
  <2> QED
    BY <2>1 DEF DependencyGate
<1>15. BlockedForAReason'
  <2>1. ASSUME NEW b \in Agents, phase'[b] = "BLOCKED"
        PROVE  \E d \in dependsOn'[b] :
                 phase'[d] \in Terminal /\ (~Satisfied(d)' \/ output'[d] = "UNENCODABLE")
    <3>1. b # a /\ phase[b] = "BLOCKED"
      BY <1>12, <1>13, <2>1
    <3>2. PICK d \in dependsOn[b] :
            phase[d] \in Terminal /\ (~Satisfied(d) \/ output[d] = "UNENCODABLE")
      BY <3>1 DEF SafetyInv, RecordsSound, BlockedForAReason, InPhase
    <3>3. d \in Agents /\ phase'[d] = phase[d]
      BY <1>5, <1>11, <3>2 DEF Terminal
    <3> QED
      BY <1>3, <1>11, <1>12, <3>1, <3>2, <3>3
  <2> QED
    BY <2>1 DEF BlockedForAReason, InPhase
<1> QED
  BY <1>8, <1>9, <1>10, <1>14, <1>15 DEF RecordsSound

-----------------------------------------------------------------------------
(* Every step *)

LEMMA WorkerStepLocks ==
  ASSUME SafetyInv, NEW w \in Workers, WorkerStep(w)
  PROVE  LockSound' /\ LifecycleSound'
<1> USE Sentinels DEF SafetyInv, LockSound, LifecycleSound, Typing, TypeOK
<1>1. CASE TakeLock(w)
  BY <1>1 DEF TakeLock
<1>2. CASE BlockUnrunnable(w)
  BY <1>2 DEF BlockUnrunnable, BlockEntry, Woken
<1>3. CASE Exit(w)
  BY <1>3 DEF Exit, Propagated
<1>4. CASE Park(w)
  BY <1>4 DEF Park, Propagated
<1>5. CASE BlockUndeliverable(w)
  BY <1>5 DEF BlockUndeliverable, BlockEntry, Woken
<1>6. CASE Dispatch(w)
  BY <1>6 DEF Dispatch, Propagated
<1>7. CASE Finish(w)
  BY <1>7 DEF Finish, Woken
<1>8. CASE PendingDone(w)
  BY <1>8 DEF PendingDone
<1>9. CASE Load(w)
  BY <1>9 DEF Load
<1> QED
  BY <1>1, <1>2, <1>3, <1>4, <1>5, <1>6, <1>7, <1>8, <1>9 DEF WorkerStep

LEMMA ClientStepLocks ==
  ASSUME SafetyInv, NEW c \in Clients, ClientStep(c)
  PROVE  LockSound' /\ LifecycleSound'
<1> USE Sentinels DEF SafetyInv, LockSound, LifecycleSound, Typing, TypeOK
<1>1. CASE Start(c)
  BY <1>1 DEF Start
<1>2. CASE SubmitUnlocked(c)
  BY <1>2 DEF SubmitUnlocked
<1>3. CASE SubmitRefused(c)
  BY <1>3 DEF SubmitRefused
<1>4. CASE SubmitAccepted(c)
  BY <1>4 DEF SubmitAccepted, Signal, Parked
<1>5. CASE WaitCall(c)
  BY <1>5 DEF WaitCall
<1>6. CASE WaitReturn(c)
  BY <1>6 DEF WaitReturn
<1>7. CASE Stop(c)
  BY <1>7 DEF Stop, Woken
<1>8. CASE StopReturn(c)
  BY <1>8 DEF StopReturn
<1> QED
  BY <1>1, <1>2, <1>3, <1>4, <1>5, <1>6, <1>7, <1>8 DEF ClientStep

LEMMA WorkerStepRecords ==
  ASSUME SafetyInv, NEW w \in Workers, WorkerStep(w)
  PROVE  RecordsSound'
<1>1. CASE TakeLock(w) \/ Exit(w) \/ Park(w) \/ Load(w) \/ PendingDone(w)
  <2>1. Quiet
    BY <1>1 DEF TakeLock, Exit, Park, Load, PendingDone, Propagated, Quiet, SafetyInv,
                LockSound, Typing, TypeOK
  <2> QED
    BY <2>1, QuietKeepsRecords DEF SafetyInv
<1>2. CASE BlockUnrunnable(w)
  <2>1. PICK i \in DOMAIN queue : Unrunnable(queue[i]) /\ BlockEntry(i)
    BY <1>2 DEF BlockUnrunnable
  <2>2. queue[i] \in Agents
    BY ElementOfSeq, LenProperties DEF SafetyInv, Typing, TypeOK
  <2> QED
    BY <2>1, <2>2, UnrunnableHasReason, BlockEntryKeepsRecords
<1>3. CASE BlockUndeliverable(w)
  <2>1. PICK i \in DOMAIN queue : Selectable(i) /\ Unencodable(queue[i]) /\ BlockEntry(i)
    BY <1>3 DEF BlockUndeliverable
  <2>2. PICK d \in dependsOn[queue[i]] : output[d] = "UNENCODABLE"
    BY <2>1 DEF Unencodable
  <2>3. Satisfied(d)
    BY <2>1, <2>2 DEF Selectable, Runnable, Ready, Unmet
  <2> QED
    BY <2>1, <2>2, <2>3, BlockEntryKeepsRecords DEF Satisfied, Terminal
<1>4. CASE Dispatch(w)
  BY <1>4, DispatchKeepsRecords
<1>5. CASE Finish(w)
  BY <1>5, FinishKeepsRecords
<1> QED
  BY <1>1, <1>2, <1>3, <1>4, <1>5 DEF WorkerStep

LEMMA ClientStepRecords ==
  ASSUME SafetyInv, NEW c \in Clients, ClientStep(c)
  PROVE  RecordsSound'
<1>1. CASE SubmitAccepted(c)
  BY <1>1, SubmitKeepsRecords
<1>2. CASE ~SubmitAccepted(c)
  <2>1. UNCHANGED <<queue, sequence, seqOf, phase, dependsOn, output, job>>
    BY <1>2 DEF ClientStep, Start, SubmitUnlocked, SubmitRefused, WaitCall, WaitReturn, Stop,
                StopReturn
  <2>2. \A w \in Workers : pc'[w] = "executing" <=> pc[w] = "executing"
    BY <1>2 DEF ClientStep, Start, SubmitUnlocked, SubmitRefused, WaitCall, WaitReturn, Stop,
                StopReturn, Woken, SafetyInv, LifecycleSound, Typing, TypeOK
  <2> QED
    BY <2>1, <2>2, QuietKeepsRecords DEF Quiet, SafetyInv
<1> QED
  BY <1>1, <1>2

LEMMA NextSafety == SafetyInv /\ [Next]_vars => SafetyInv'
<1> SUFFICES ASSUME SafetyInv, [Next]_vars PROVE SafetyInv'
  OBVIOUS
<1>1. Typing'
  BY NextTyping DEF SafetyInv
<1>2. CASE \E w \in Workers : WorkerStep(w)
  BY <1>1, <1>2, WorkerStepLocks, WorkerStepRecords DEF SafetyInv
<1>3. CASE \E c \in Clients : ClientStep(c)
  BY <1>1, <1>3, ClientStepLocks, ClientStepRecords DEF SafetyInv
<1>4. CASE UNCHANGED vars
  <2>1. LockSound' /\ LifecycleSound'
    BY <1>4 DEF vars, SafetyInv, LockSound, LifecycleSound
  <2>2. Quiet
    BY <1>4 DEF vars, Quiet
  <2> QED
    BY <1>1, <2>1, <2>2, QuietKeepsRecords DEF SafetyInv
<1> QED
  BY <1>2, <1>3, <1>4 DEF Next

THEOREM SchedulerSafety == Spec => []SafetyInv
BY InitSafety, NextSafety, PTL DEF Spec

\* The gate of dependencyStatusLocked holds in every state, whatever the interleaving
\* of workers and clients: what was dispatched has all its inputs, and keeps them.
THEOREM DependencyGateHolds == Spec => []DependencyGate
<1>1. SafetyInv => DependencyGate
  BY DEF SafetyInv, RecordsSound
<1> QED
  BY <1>1, SchedulerSafety, PTL

\* Nothing is blocked without a dependency that can never deliver.
THEOREM BlockedForAReasonHolds == Spec => []BlockedForAReason
<1>1. SafetyInv => BlockedForAReason
  BY DEF SafetyInv, RecordsSound
<1> QED
  BY <1>1, SchedulerSafety, PTL

\* The queue and the records never disagree, and the graph never gains a cycle.
THEOREM QueueMatchesRecordsHolds == Spec => []QueueMatchesRecords
<1>1. SafetyInv => QueueMatchesRecords
  <2> SUFFICES ASSUME SafetyInv PROVE QueueMatchesRecords
    OBVIOUS
  <2>1. \A i \in DOMAIN queue : queue[i] \in Agents
    BY ElementOfSeq, LenProperties DEF SafetyInv, Typing, TypeOK
  <2>2. ToSet(queue) = InPhase("QUEUED")
    BY <2>1 DEF ToSet, InPhase, SafetyInv, RecordsSound, QueueSound
  <2> QED
    BY <2>2 DEF QueueMatchesRecords, SafetyInv, RecordsSound, QueueSound, SequenceSound
<1> QED
  BY <1>1, SchedulerSafety, PTL

\* Two workers never execute the same Agent, and no RUNNING Agent is without its worker:
\* not when a client submits its ID again, nor when a stale entry were in the queue.
THEOREM OneWorkerPerAgentHolds == Spec => []OneWorkerPerAgent
<1>1. SafetyInv => OneWorkerPerAgent
  <2> SUFFICES ASSUME SafetyInv PROVE OneWorkerPerAgent
    OBVIOUS
  <2>1. ExecutionSound
    BY DEF SafetyInv, RecordsSound
  <2>2. ASSUME NEW a \in InPhase("RUNNING")
        PROVE  Cardinality({w \in Workers : pc[w] = "executing" /\ job[w] = a}) = 1
    <3>1. PICK w \in Workers : pc[w] = "executing" /\ job[w] = a
      BY <2>1, <2>2 DEF ExecutionSound, InPhase
    <3>2. {v \in Workers : pc[v] = "executing" /\ job[v] = a} = {w}
      BY <2>1, <3>1 DEF ExecutionSound
    <3> QED
      BY <3>2, FS_Singleton
  <2> QED
    BY <2>1, <2>2 DEF OneWorkerPerAgent, ExecutionSound
<1> QED
  BY <1>1, SchedulerSafety, PTL

-----------------------------------------------------------------------------
(* What a step does to one Agent *)

\* Every step by what it does to the records and to s.pending: six kinds change
\* them, the others leave them and the workers in "finished" alone.
LEMMA StepKinds ==
  ASSUME SafetyInv, [Next]_vars
  PROVE  \/ \E i \in DOMAIN queue : BlockEntry(i)
         \/ \E w \in Workers : Dispatch(w) \/ Finish(w) \/ PendingDone(w)
         \/ \E c \in Clients : SubmitAccepted(c)
         \/ /\ UNCHANGED <<queue, seqOf, phase, dependsOn, contexts, output, warm, pending>>
            /\ \A w \in Workers : pc'[w] = "finished" <=> pc[w] = "finished"
<1>1. ASSUME NEW w \in Workers, WorkerStep(w)
      PROVE  \/ \E i \in DOMAIN queue : BlockEntry(i)
             \/ Dispatch(w) \/ Finish(w) \/ PendingDone(w)
             \/ /\ UNCHANGED <<queue, seqOf, phase, dependsOn, contexts, output, warm, pending>>
                /\ \A v \in Workers : pc'[v] = "finished" <=> pc[v] = "finished"
  <2>1. CASE BlockUnrunnable(w) \/ BlockUndeliverable(w)
    BY <2>1 DEF BlockUnrunnable, BlockUndeliverable
  <2>2. CASE TakeLock(w) \/ Exit(w) \/ Park(w) \/ Load(w)
    BY <2>2 DEF TakeLock, Exit, Park, Load, Propagated, SafetyInv, LockSound, Typing, TypeOK
  <2> QED
    BY <1>1, <2>1, <2>2 DEF WorkerStep
<1>2. ASSUME NEW c \in Clients, ClientStep(c), ~SubmitAccepted(c)
      PROVE  /\ UNCHANGED <<queue, seqOf, phase, dependsOn, contexts, output, warm, pending>>
             /\ \A v \in Workers : pc'[v] = "finished" <=> pc[v] = "finished"
  BY <1>2 DEF ClientStep, Start, SubmitUnlocked, SubmitRefused, WaitCall, WaitReturn, Stop,
              StopReturn, Woken, SafetyInv, LifecycleSound, Typing, TypeOK
<1>3. CASE UNCHANGED vars
  BY <1>3 DEF vars
<1> QED
  BY <1>1, <1>2, <1>3 DEF Next

\* blockEntryLocked takes one QUEUED Agent out, with its pending.Done.
LEMMA BlockEntryPhase ==
  ASSUME SafetyInv, NEW i \in DOMAIN queue, BlockEntry(i)
  PROVE  \E a \in InPhase("QUEUED") :
           /\ phase' = [phase EXCEPT ![a] = "BLOCKED"]
           /\ pending' = pending - 1
           /\ UNCHANGED <<seqOf, dependsOn, contexts, output, warm>>
           /\ \A w \in Workers : pc'[w] = "finished" <=> pc[w] = "finished"
<1>1. queue[i] \in InPhase("QUEUED")
  BY ElementOfSeq, LenProperties
  DEF SafetyInv, RecordsSound, QueueSound, Typing, TypeOK, InPhase
<1> QED
  BY <1>1 DEF BlockEntry, Woken, SafetyInv, Typing, TypeOK

\* take moves one ready Agent to RUNNING, under FIFO the oldest of the ready ones,
\* and its worker from the lock to the execution.
LEMMA DispatchPhase ==
  ASSUME SafetyInv, NEW w \in Workers, Dispatch(w)
  PROVE  \E a \in InPhase("QUEUED") :
           /\ Ready(a)
           /\ FifoPolicy => \A b \in InPhase("QUEUED") : Ready(b) => seqOf[a] <= seqOf[b]
           /\ phase' = [phase EXCEPT ![a] = "RUNNING"]
           /\ pc[w] = "locked"
           /\ pc' = [pc EXCEPT ![w] = "executing"]
           /\ \A i \in DOMAIN queue : ~Unrunnable(queue[i])
           /\ UNCHANGED <<seqOf, dependsOn, contexts, output, warm, pending>>
<1>1. PICK i \in DOMAIN queue :
        Selectable(i) /\ phase' = [phase EXCEPT ![queue[i]] = "RUNNING"]
  BY DEF Dispatch
<1>2. queue[i] \in InPhase("QUEUED")
  BY ElementOfSeq, LenProperties
  DEF SafetyInv, RecordsSound, QueueSound, Typing, TypeOK, InPhase
<1>3. ASSUME FifoPolicy, NEW b \in InPhase("QUEUED"), Ready(b)
      PROVE  seqOf[queue[i]] <= seqOf[b]
  <2>1. PICK j \in DOMAIN queue : queue[j] = b
    BY DEF SafetyInv, RecordsSound, QueueSound, InPhase
  <2> QED
    BY <1>1, <1>3, <2>1 DEF Selectable, Runnable
<1>4. pc[w] = "locked"
  BY DEF Dispatch, Propagated, SafetyInv, LockSound
<1> QED
  BY <1>1, <1>2, <1>3, <1>4 DEF Dispatch, Propagated, Selectable, Runnable

\* The end of an execution moves one RUNNING Agent to its outcome; its contexts
\* become warm if it succeeded.
LEMMA FinishPhase ==
  ASSUME SafetyInv, NEW w \in Workers, Finish(w)
  PROVE  \E a \in InPhase("RUNNING"), p \in {"SUCCEEDED", "FAILED"} :
           /\ phase' = [phase EXCEPT ![a] = p]
           /\ warm' = IF p = "SUCCEEDED" THEN warm \cup contexts[a] ELSE warm
           /\ pc[w] = "executing"
           /\ pc' = [Woken EXCEPT ![w] = "finished"]
           /\ loaded[a] # {}
           /\ UNCHANGED <<seqOf, dependsOn, contexts, acbContexts, loaded, pending, client,
                          submission>>
<1>1. job[w] \in InPhase("RUNNING") /\ pc[w] = "executing"
  BY DEF Finish, SafetyInv, RecordsSound, ExecutionSound, InPhase
<1>2. PICK failed \in BOOLEAN :
        /\ warm' = WarmAfter(job[w], failed)
        /\ phase' = [phase EXCEPT ![job[w]] = IF failed THEN "FAILED" ELSE "SUCCEEDED"]
  <2>1. PICK runErr \in BOOLEAN, committed \in BOOLEAN, verdict \in Verdicts :
          /\ warm' = WarmAfter(job[w], Failed(runErr, committed, verdict))
          /\ phase' = [phase EXCEPT ![job[w]] =
                         IF Failed(runErr, committed, verdict) THEN "FAILED" ELSE "SUCCEEDED"]
    BY DEF Finish
  <2>2. Failed(runErr, committed, verdict) \in BOOLEAN
    BY DEF Failed
  <2> QED
    BY <2>1, <2>2
<1>3. CASE failed
  BY <1>1, <1>2, <1>3 DEF Finish, WarmAfter
<1>4. CASE ~failed
  BY <1>1, <1>2, <1>4 DEF Finish, WarmAfter
<1> QED
  BY <1>2, <1>3, <1>4

\* An accepted Submit makes one new Agent QUEUED, with the next sequence number.
LEMMA SubmitPhase ==
  ASSUME SafetyInv, NEW c \in Clients, SubmitAccepted(c)
  PROVE  \E a \in InPhase("ABSENT"), deps \in SUBSET Agents, ctxs \in SUBSET Contexts :
           /\ phase' = [phase EXCEPT ![a] = "QUEUED"]
           /\ seqOf' = [seqOf EXCEPT ![a] = sequence + 1]
           /\ dependsOn' = [dependsOn EXCEPT ![a] = deps]
           /\ contexts' = [contexts EXCEPT ![a] = ctxs]
           /\ pending' = pending + 1
           /\ ~stopped /\ Signal
           /\ UNCHANGED <<started, stopped, output, warm>>
           /\ \A w \in Workers : pc'[w] = "finished" <=> pc[w] = "finished"
<1> DEFINE j == submission[c]
<1>1. j \in Jobs /\ phase[j.agent] = "ABSENT" /\ ~stopped
  BY DEF SubmitAccepted, Refused, SafetyInv, Typing, WorkInHand
<1>2. j.agent \in InPhase("ABSENT") /\ j.deps \in SUBSET Agents /\ j.ctxs \in SUBSET Contexts
  BY <1>1, JobFields DEF InPhase
<1>3. \A w \in Workers : pc'[w] = "finished" <=> pc[w] = "finished"
  BY DEF SubmitAccepted, Signal, Parked, SafetyInv, Typing, TypeOK
<1> QED
  BY <1>1, <1>2, <1>3 DEF SubmitAccepted

\* The sets that are counted are finite.
LEMMA PhasesAreFinite ==
  \A p : IsFiniteSet(InPhase(p)) /\ Cardinality(InPhase(p)) \in Nat
BY FiniteConstants, FS_Subset, FS_CardinalityType DEF InPhase

Finished == {w \in Workers : pc[w] = "finished"}

\* So are the workers on their way to pending.Done.
LEMMA FinishedIsFinite == IsFiniteSet(Finished) /\ Cardinality(Finished) \in Nat
BY FiniteConstants, FS_Subset, FS_CardinalityType DEF Finished

\* An Agent that changes its phase changes two of the counts by one.
LEMMA PhaseMoves ==
  ASSUME SafetyInv, NEW p \in Phases, NEW a \in InPhase(p), NEW q \in Phases, p # q,
         phase' = [phase EXCEPT ![a] = q]
  PROVE  /\ Cardinality(InPhase(p)') = Cardinality(InPhase(p)) - 1
         /\ Cardinality(InPhase(q)') = Cardinality(InPhase(q)) + 1
         /\ \A r \in Phases \ {p, q} : Cardinality(InPhase(r)') = Cardinality(InPhase(r))
<1>0. phase \in [Agents -> Phases]
  BY DEF SafetyInv, Typing, TypeOK
<1>1. InPhase(p)' = InPhase(p) \ {a} /\ a \in InPhase(p)
  BY <1>0 DEF InPhase
<1>2. InPhase(q)' = InPhase(q) \cup {a} /\ a \notin InPhase(q)
  BY <1>0 DEF InPhase
<1>3. \A r \in Phases \ {p, q} : InPhase(r)' = InPhase(r)
  BY <1>0 DEF InPhase
<1>4. Cardinality(InPhase(p)') = Cardinality(InPhase(p)) - 1
  <2>1. IsFiniteSet(InPhase(p))
    BY PhasesAreFinite
  <2>2. Cardinality(InPhase(p) \ {a}) = Cardinality(InPhase(p)) - 1
    BY <1>1, <2>1, FS_RemoveElement
  <2> QED
    BY <1>1, <2>2
<1>5. Cardinality(InPhase(q)') = Cardinality(InPhase(q)) + 1
  <2>1. IsFiniteSet(InPhase(q))
    BY PhasesAreFinite
  <2>2. Cardinality(InPhase(q) \cup {a}) = Cardinality(InPhase(q)) + 1
    BY <1>2, <2>1, FS_AddElement
  <2> QED
    BY <1>2, <2>2
<1> QED
  BY <1>3, <1>4, <1>5

-----------------------------------------------------------------------------
(* The counter of Wait *)

\* No step makes s.pending differ from what it counts.
LEMMA NextPending ==
  ASSUME SafetyInv, PendingCountsUnfinished, [Next]_vars
  PROVE  PendingCountsUnfinished'
<1> USE PhasesAreFinite, FinishedIsFinite DEF PendingCountsUnfinished
<1>0. pending \in Int
  BY DEF SafetyInv, Typing, TypeOK
<1>1. ASSUME NEW i \in DOMAIN queue, BlockEntry(i) PROVE PendingCountsUnfinished'
  <2>1. PICK a \in InPhase("QUEUED") :
          /\ phase' = [phase EXCEPT ![a] = "BLOCKED"]
          /\ pending' = pending - 1
          /\ \A w \in Workers : pc'[w] = "finished" <=> pc[w] = "finished"
    BY <1>1, BlockEntryPhase
  <2>2. Cardinality(Finished') = Cardinality(Finished)
    <3>1. Finished' = Finished
      BY <2>1 DEF Finished
    <3> QED
      BY <3>1
  <2>3. /\ Cardinality(InPhase("QUEUED")') = Cardinality(InPhase("QUEUED")) - 1
        /\ Cardinality(InPhase("RUNNING")') = Cardinality(InPhase("RUNNING"))
    BY ZenonT(30), <2>1, PhaseMoves DEF Phases
  <2> QED
    BY <1>0, <2>1, <2>2, <2>3 DEF Finished
<1>2. ASSUME NEW w \in Workers, Dispatch(w) PROVE PendingCountsUnfinished'
  <2>1. PICK a \in InPhase("QUEUED") :
          /\ phase' = [phase EXCEPT ![a] = "RUNNING"]
          /\ pc[w] = "locked"
          /\ pc' = [pc EXCEPT ![w] = "executing"]
          /\ pending' = pending
    BY <1>2, DispatchPhase
  <2>2. Cardinality(Finished') = Cardinality(Finished)
    <3>1. Finished' = Finished
      BY <2>1 DEF Finished, SafetyInv, Typing, TypeOK
    <3> QED
      BY <3>1
  <2>3. /\ Cardinality(InPhase("QUEUED")') = Cardinality(InPhase("QUEUED")) - 1
        /\ Cardinality(InPhase("RUNNING")') = Cardinality(InPhase("RUNNING")) + 1
    BY <2>1, PhaseMoves DEF Phases
  <2> QED
    BY <1>0, <2>1, <2>2, <2>3 DEF Finished
<1>3. ASSUME NEW w \in Workers, Finish(w) PROVE PendingCountsUnfinished'
  <2>1. PICK a \in InPhase("RUNNING"), p \in {"SUCCEEDED", "FAILED"} :
          /\ phase' = [phase EXCEPT ![a] = p]
          /\ pc[w] = "executing"
          /\ pc' = [Woken EXCEPT ![w] = "finished"]
          /\ pending' = pending
    BY <1>3, FinishPhase
  <2>2. Finished' = Finished \cup {w} /\ w \notin Finished
    BY <2>1 DEF Finished, Woken
  <2>3. Cardinality(Finished') = Cardinality(Finished) + 1
    BY <2>2, FS_AddElement
  <2>4. /\ Cardinality(InPhase("RUNNING")') = Cardinality(InPhase("RUNNING")) - 1
        /\ Cardinality(InPhase("QUEUED")') = Cardinality(InPhase("QUEUED"))
    BY <2>1, PhaseMoves DEF Phases
  <2> QED
    BY <1>0, <2>1, <2>3, <2>4 DEF Finished
<1>4. ASSUME NEW w \in Workers, PendingDone(w) PROVE PendingCountsUnfinished'
  <2>1. Finished' = Finished \ {w} /\ w \in Finished
    BY <1>4 DEF PendingDone, Finished, SafetyInv, Typing, TypeOK
  <2>2. Cardinality(Finished') = Cardinality(Finished) - 1
    BY <2>1, FS_RemoveElement
  <2>3. \A p : InPhase(p)' = InPhase(p)
    BY <1>4 DEF PendingDone, InPhase
  <2> QED
    BY <1>0, <1>4, <2>2, <2>3 DEF PendingDone, Finished
<1>5. ASSUME NEW c \in Clients, SubmitAccepted(c) PROVE PendingCountsUnfinished'
  <2>1. PICK a \in InPhase("ABSENT") :
          /\ phase' = [phase EXCEPT ![a] = "QUEUED"]
          /\ pending' = pending + 1
          /\ \A w \in Workers : pc'[w] = "finished" <=> pc[w] = "finished"
    BY <1>5, SubmitPhase
  <2>2. Cardinality(Finished') = Cardinality(Finished)
    <3>1. Finished' = Finished
      BY <2>1 DEF Finished
    <3> QED
      BY <3>1
  <2>3. /\ Cardinality(InPhase("QUEUED")') = Cardinality(InPhase("QUEUED")) + 1
        /\ Cardinality(InPhase("RUNNING")') = Cardinality(InPhase("RUNNING"))
    BY ZenonT(30), <2>1, PhaseMoves DEF Phases
  <2> QED
    BY <1>0, <2>1, <2>2, <2>3 DEF Finished
<1>6. ASSUME UNCHANGED <<phase, pending>>,
             \A w \in Workers : pc'[w] = "finished" <=> pc[w] = "finished"
      PROVE  PendingCountsUnfinished'
  BY <1>6 DEF InPhase
<1> QED
  BY <1>1, <1>2, <1>3, <1>4, <1>5, <1>6, StepKinds

\* In the initial state nothing is counted.
LEMMA InitPending == Init => PendingCountsUnfinished
<1> SUFFICES ASSUME Init PROVE PendingCountsUnfinished
  OBVIOUS
<1>1. /\ InPhase("QUEUED") = {} /\ InPhase("RUNNING") = {}
      /\ {w \in Workers : pc[w] = "finished"} = {}
  BY DEF Init, InPhase
<1>2. /\ Cardinality(InPhase("QUEUED")) = 0 /\ Cardinality(InPhase("RUNNING")) = 0
      /\ Cardinality({w \in Workers : pc[w] = "finished"}) = 0
  BY <1>1, FS_EmptySet
<1>3. pending = 0
  BY DEF Init
<1> QED
  BY <1>2, <1>3 DEF PendingCountsUnfinished

\* Wait returns when everything that was accepted has ended, and not before: the
\* counter of s.pending is exactly what remains, whoever blocks, finishes or submits.
THEOREM PendingCountsUnfinishedHolds == Spec => []PendingCountsUnfinished
BY SchedulerSafety, InitPending, NextPending, PTL DEF Spec

-----------------------------------------------------------------------------
(* The registry of warm contexts *)

\* The registry holds what the records of the Agents that succeeded ask for.
WarmMatchesRecords == warm = UNION {contexts[a] : a \in InPhase("SUCCEEDED")}

\* A step that makes a context warm ends an Agent that has it.
LEMMA NextWarm ==
  ASSUME SafetyInv, WarmMatchesRecords, [Next]_vars
  PROVE  WarmMatchesRecords'
<1> USE DEF WarmMatchesRecords, InPhase, SafetyInv, Typing, TypeOK
<1> HIDE DEF InPhase
<1>1. ASSUME UNCHANGED <<warm, contexts>>, InPhase("SUCCEEDED")' = InPhase("SUCCEEDED")
      PROVE  WarmMatchesRecords'
  BY <1>1
<1>2. ASSUME NEW i \in DOMAIN queue, BlockEntry(i) PROVE WarmMatchesRecords'
  BY <1>1, <1>2, BlockEntryPhase DEF InPhase
<1>3. ASSUME NEW w \in Workers, Dispatch(w) PROVE WarmMatchesRecords'
  BY <1>1, <1>3, DispatchPhase DEF InPhase
<1>4. ASSUME NEW w \in Workers, Finish(w) PROVE WarmMatchesRecords'
  <2>1. PICK a \in InPhase("RUNNING"), p \in {"SUCCEEDED", "FAILED"} :
          /\ phase' = [phase EXCEPT ![a] = p]
          /\ warm' = IF p = "SUCCEEDED" THEN warm \cup contexts[a] ELSE warm
          /\ contexts' = contexts
    BY <1>4, FinishPhase
  <2>2. CASE p = "FAILED"
    <3>1. InPhase("SUCCEEDED")' = InPhase("SUCCEEDED")
      BY <2>1, <2>2 DEF InPhase
    <3> QED
      BY <1>1, <2>1, <2>2, <3>1
  <2>3. CASE p = "SUCCEEDED"
    <3>1. InPhase("SUCCEEDED")' = InPhase("SUCCEEDED") \cup {a}
      BY <2>1, <2>3 DEF InPhase
    <3> QED
      BY <2>1, <2>3, <3>1
  <2> QED
    BY <2>1, <2>2, <2>3
<1>5. ASSUME NEW c \in Clients, SubmitAccepted(c) PROVE WarmMatchesRecords'
  <2>1. PICK a \in InPhase("ABSENT"), ctxs \in SUBSET Contexts :
          /\ phase' = [phase EXCEPT ![a] = "QUEUED"]
          /\ contexts' = [contexts EXCEPT ![a] = ctxs]
          /\ warm' = warm
    BY <1>5, SubmitPhase
  <2>2. InPhase("SUCCEEDED")' = InPhase("SUCCEEDED") /\ a \notin InPhase("SUCCEEDED")
    BY <2>1 DEF InPhase
  <2>3. \A b \in InPhase("SUCCEEDED") : contexts'[b] = contexts[b]
    BY <2>1, <2>2 DEF InPhase
  <2> QED
    BY <2>1, <2>2, <2>3
<1>6. ASSUME UNCHANGED <<warm, contexts, phase>> PROVE WarmMatchesRecords'
  BY <1>1, <1>6 DEF InPhase
<1>7. ASSUME NEW w \in Workers, PendingDone(w) PROVE WarmMatchesRecords'
  BY <1>6, <1>7 DEF PendingDone
<1> QED
  BY <1>2, <1>3, <1>4, <1>5, <1>6, <1>7, StepKinds

\* Before anything is submitted nothing is warm.
LEMMA InitWarm == Init => WarmMatchesRecords
<1> SUFFICES ASSUME Init PROVE WarmMatchesRecords
  OBVIOUS
<1>1. InPhase("SUCCEEDED") = {}
  BY DEF Init, InPhase
<1> QED
  BY <1>1 DEF Init, WarmMatchesRecords

\* What the executors read, when no two jobs disagree about an Agent: the control block says
\* what the record says from the acceptance on, and what a Submit in progress will say.
LoadedSound ==
  /\ \A c \in Clients :
       client[c] = "submit" => acbContexts[submission[c].agent] = submission[c].ctxs
  /\ \A a \in Agents : phase[a] # "ABSENT" =>
       acbContexts[a] = contexts[a] /\ \E j \in Jobs : j.agent = a /\ j.ctxs = contexts[a]
  /\ \A a \in Agents : loaded[a] # {} =>
       phase[a] \notin {"ABSENT", "QUEUED"} /\ loaded[a] = {contexts[a]}
  /\ \A a \in Agents : phase[a] = "SUCCEEDED" => loaded[a] # {}

\* A step of a worker changes no control block; what is loaded by one is what it says.
LEMMA WorkerStepLoaded ==
  ASSUME SafetyInv, LoadedSound, NEW w \in Workers, WorkerStep(w)
  PROVE  LoadedSound'
<1>0. /\ phase \in [Agents -> Phases] /\ loaded \in [Agents -> SUBSET SUBSET Contexts]
  BY DEF SafetyInv, Typing, TypeOK
<1>1. CASE Load(w)
  <2>1. job[w] \in Agents /\ phase[job[w]] = "RUNNING"
    BY <1>1 DEF Load, SafetyInv, RecordsSound, ExecutionSound
  <2>2. /\ loaded' = [loaded EXCEPT ![job[w]] = {acbContexts[job[w]]}]
        /\ UNCHANGED <<phase, contexts, acbContexts, client, submission>>
    BY <1>1 DEF Load
  <2> QED
    BY <1>0, <2>1, <2>2 DEF LoadedSound
<1>2. ASSUME NEW a \in Agents, NEW p \in {"RUNNING", "BLOCKED", "FAILED", "SUCCEEDED"},
             phase[a] # "ABSENT", phase' = [phase EXCEPT ![a] = p],
             p = "SUCCEEDED" => loaded[a] # {},
             UNCHANGED <<contexts, acbContexts, loaded, client, submission>>
      PROVE  LoadedSound'
  BY <1>0, <1>2 DEF LoadedSound
<1>3. CASE BlockUnrunnable(w) \/ BlockUndeliverable(w)
  <2>1. PICK i \in DOMAIN queue : BlockEntry(i)
    BY <1>3 DEF BlockUnrunnable, BlockUndeliverable
  <2>2. PICK a \in InPhase("QUEUED") : phase' = [phase EXCEPT ![a] = "BLOCKED"]
    BY <2>1, BlockEntryPhase
  <2> QED
    BY <1>2, <2>1, <2>2 DEF BlockEntry, InPhase
<1>4. CASE Dispatch(w)
  <2>1. PICK a \in InPhase("QUEUED") : phase' = [phase EXCEPT ![a] = "RUNNING"]
    BY <1>4, DispatchPhase
  <2> QED
    BY <1>2, <1>4, <2>1 DEF Dispatch, InPhase
<1>5. CASE Finish(w)
  <2>1. PICK a \in InPhase("RUNNING"), p \in {"SUCCEEDED", "FAILED"} :
          /\ phase' = [phase EXCEPT ![a] = p]
          /\ loaded[a] # {}
          /\ UNCHANGED <<contexts, acbContexts, loaded, client, submission>>
    BY <1>5, FinishPhase
  <2> QED
    BY <1>2, <2>1 DEF InPhase
<1>6. CASE TakeLock(w) \/ Exit(w) \/ Park(w) \/ PendingDone(w)
  BY <1>6 DEF TakeLock, Exit, Park, PendingDone, LoadedSound
<1> QED
  BY <1>1, <1>3, <1>4, <1>5, <1>6 DEF WorkerStep

\* A Submit writes to a control block what it says already, and an accepted one makes a
\* record of it.
LEMMA ClientStepLoaded ==
  ASSUME RequestsAgree, SafetyInv, LoadedSound, NEW c \in Clients, ClientStep(c)
  PROVE  LoadedSound'
<1>0. /\ phase \in [Agents -> Phases] /\ contexts \in [Agents -> SUBSET Contexts]
      /\ acbContexts \in [Agents -> SUBSET Contexts]
      /\ client \in [Clients -> {"idle", "submit", "wait", "stop"}]
      /\ submission \in [Clients -> Jobs \cup {NoJob}]
      /\ \A d \in Clients : client[d] = "submit" => submission[d] \in Jobs
  BY DEF SafetyInv, Typing, TypeOK, WorkInHand
<1>1. CASE SubmitUnlocked(c)
  <2>1. PICK j \in Jobs :
          /\ acbContexts' = [acbContexts EXCEPT ![j.agent] = j.ctxs]
          /\ \/ UNCHANGED <<client, submission>>
             \/ /\ client' = [client EXCEPT ![c] = "submit"]
                /\ submission' = [submission EXCEPT ![c] = j]
    BY <1>1 DEF SubmitUnlocked
  <2>2. UNCHANGED <<phase, contexts, loaded>>
    BY <1>1 DEF SubmitUnlocked
  <2>3. j.agent \in Agents
    BY JobFields
  <2>4. \A d \in Clients : client[d] = "submit" =>
          acbContexts'[submission[d].agent] = submission[d].ctxs
    <3> TAKE d \in Clients
    <3> HAVE client[d] = "submit"
    <3>1. submission[d] \in Jobs /\ submission[d].agent \in Agents
      BY <1>0, JobFields
    <3>2. acbContexts[submission[d].agent] = submission[d].ctxs
      BY DEF LoadedSound
    <3>3. submission[d].agent = j.agent => submission[d].ctxs = j.ctxs
      BY <3>1 DEF RequestsAgree
    <3> QED
      BY <1>0, <2>1, <3>1, <3>2, <3>3
  <2>5. \A d \in Clients : client'[d] = "submit" =>
          acbContexts'[submission'[d].agent] = submission'[d].ctxs
    BY <1>0, <2>1, <2>3, <2>4
  <2>6. \A a \in Agents : phase[a] # "ABSENT" => acbContexts'[a] = contexts[a]
    BY <1>0, <2>1 DEF LoadedSound, RequestsAgree
  <2> QED
    BY <2>2, <2>5, <2>6 DEF LoadedSound
<1>2. CASE SubmitAccepted(c)
  <2> DEFINE j == submission[c]
  <2>1. j \in Jobs /\ j.agent \in Agents /\ acbContexts[j.agent] = j.ctxs
    BY <1>0, <1>2, JobFields DEF SubmitAccepted, LoadedSound
  <2>2. /\ phase[j.agent] = "ABSENT"
        /\ phase' = [phase EXCEPT ![j.agent] = "QUEUED"]
        /\ contexts' = [contexts EXCEPT ![j.agent] = j.ctxs]
        /\ client' = [client EXCEPT ![c] = "idle"]
        /\ submission' = [submission EXCEPT ![c] = NoJob]
        /\ UNCHANGED <<acbContexts, loaded>>
    BY <1>2 DEF SubmitAccepted, Refused
  <2> HIDE DEF j
  <2>3. \A d \in Clients :
          client'[d] = "submit" => client[d] = "submit" /\ submission'[d] = submission[d]
    BY <1>0, <2>2
  <2>4. \A a \in Agents : phase'[a] # "ABSENT" =>
          acbContexts[a] = contexts'[a] /\ \E k \in Jobs : k.agent = a /\ k.ctxs = contexts'[a]
    <3>1. ASSUME NEW a \in Agents, a = j.agent
          PROVE  /\ acbContexts[a] = contexts'[a]
                 /\ \E k \in Jobs : k.agent = a /\ k.ctxs = contexts'[a]
      BY <1>0, <2>1, <2>2, <3>1
    <3>2. ASSUME NEW a \in Agents, a # j.agent
          PROVE  phase'[a] = phase[a] /\ contexts'[a] = contexts[a]
      BY <1>0, <2>2, <3>2
    <3> QED
      BY <3>1, <3>2 DEF LoadedSound
  <2>5. \A a \in Agents : loaded[a] # {} =>
          phase'[a] \notin {"ABSENT", "QUEUED"} /\ loaded[a] = {contexts'[a]}
    BY <1>0, <2>1, <2>2 DEF LoadedSound
  <2>6. \A a \in Agents : phase'[a] = "SUCCEEDED" => loaded[a] # {}
    BY <1>0, <2>2 DEF LoadedSound
  <2> QED
    BY <2>2, <2>3, <2>4, <2>5, <2>6 DEF LoadedSound
<1>3. CASE ~SubmitUnlocked(c) /\ ~SubmitAccepted(c)
  <2>1. /\ UNCHANGED <<phase, contexts, acbContexts, loaded>>
        /\ \A d \in Clients :
             client'[d] = "submit" => client[d] = "submit" /\ submission'[d] = submission[d]
    BY <1>0, <1>3 DEF ClientStep, Start, SubmitRefused, WaitCall, WaitReturn, Stop, StopReturn
  <2> QED
    BY <2>1 DEF LoadedSound
<1> QED
  BY <1>1, <1>2, <1>3

LEMMA NextLoaded ==
  ASSUME RequestsAgree
  PROVE  SafetyInv /\ LoadedSound /\ [Next]_vars => LoadedSound'
<1>1. LoadedSound /\ UNCHANGED vars => LoadedSound'
  BY DEF LoadedSound, vars
<1> QED
  BY <1>1, WorkerStepLoaded, ClientStepLoaded DEF Next

\* Before anything is submitted nothing is loaded.
LEMMA InitLoaded == Init => LoadedSound
BY DEF Init, LoadedSound

\* What was recorded and read is one and the same.
LEMMA WarmIsLoaded == LoadedSound /\ WarmMatchesRecords => WarmContextsWereLoaded
<1> SUFFICES ASSUME LoadedSound, WarmMatchesRecords PROVE WarmContextsWereLoaded
  OBVIOUS
<1>1. \A a \in InPhase("SUCCEEDED") : UNION loaded[a] = contexts[a]
  <2>1. \A a \in InPhase("SUCCEEDED") : loaded[a] = {contexts[a]}
    BY DEF LoadedSound, InPhase
  <2>2. \A S : UNION {S} = S
    OBVIOUS
  <2> QED
    BY <2>1, <2>2
<1>2. {UNION loaded[a] : a \in InPhase("SUCCEEDED")} = {contexts[a] : a \in InPhase("SUCCEEDED")}
  BY <1>1
<1> QED
  BY <1>2 DEF WarmMatchesRecords, WarmContextsWereLoaded

\* When the jobs agree about the contexts of each Agent, the control block, which execute
\* hands to the executor and every Submit writes to without the lock, still says what the
\* record says: no interleaving of Submits, refused or not, comes between.
THEOREM AgreedContextsAreAuthoritative ==
  ASSUME RequestsAgree
  PROVE  Spec => []ContextsAreAuthoritative
<1>1. LoadedSound => ContextsAreAuthoritative
  BY DEF LoadedSound, ContextsAreAuthoritative
<1> QED
  BY <1>1, SchedulerSafety, InitLoaded, NextLoaded, PTL DEF Spec

\* Under the same condition the registry holds exactly what the executors of the Agents
\* that succeeded have read, although contexts.Add is given the contexts of the record.
THEOREM WarmContextsWereLoadedHolds ==
  ASSUME RequestsAgree
  PROVE  Spec => []WarmContextsWereLoaded
<1>1. Spec => []LoadedSound
  BY SchedulerSafety, InitLoaded, NextLoaded, PTL DEF Spec
<1>2. Spec => []WarmMatchesRecords
  BY SchedulerSafety, InitWarm, NextWarm, PTL DEF Spec
<1> QED
  BY <1>1, <1>2, WarmIsLoaded, PTL

-----------------------------------------------------------------------------
(* FIFO *)

\* No step overtakes an Agent that waits for nothing.
LEMMA NextFifo ==
  ASSUME SafetyInv, FifoIsFair, [Next]_vars
  PROVE  FifoIsFair'
<1> USE DEF FifoIsFair, InPhase
<1>0. /\ phase \in [Agents -> Phases] /\ seqOf \in [Agents -> Nat] /\ sequence \in Nat
      /\ dependsOn \in [Agents -> SUBSET Agents]
  BY DEF SafetyInv, Typing, TypeOK
<1>1. ASSUME NEW i \in DOMAIN queue, BlockEntry(i) PROVE FifoIsFair'
  <2>1. PICK x \in InPhase("QUEUED") :
          /\ phase' = [phase EXCEPT ![x] = "BLOCKED"]
          /\ UNCHANGED <<seqOf, dependsOn>>
    BY <1>1, BlockEntryPhase
  <2> QED
    BY <1>0, <2>1
<1>2. ASSUME NEW w \in Workers, Dispatch(w) PROVE FifoIsFair'
  <2>1. PICK x \in InPhase("QUEUED") :
          /\ FifoPolicy => \A b \in InPhase("QUEUED") : Ready(b) => seqOf[x] <= seqOf[b]
          /\ phase' = [phase EXCEPT ![x] = "RUNNING"]
          /\ UNCHANGED <<seqOf, dependsOn>>
    BY <1>2, DispatchPhase
  <2>2. SUFFICES ASSUME FifoPolicy, NEW a \in Agents, phase'[a] = "QUEUED", NEW b \in Agents,
                        dependsOn[a] = {}, seqOf[a] < seqOf[b]
                 PROVE  phase'[b] \in {"QUEUED", "BLOCKED"}
    BY <2>1
  <2>3. phase[a] = "QUEUED" /\ Ready(a)
    BY <1>0, <2>1, <2>2 DEF Ready, Unmet
  <2>4. b # x
    BY <1>0, <2>1, <2>2, <2>3
  <2> QED
    BY <1>0, <2>1, <2>2, <2>3, <2>4
<1>3. ASSUME NEW w \in Workers, Finish(w) PROVE FifoIsFair'
  <2>1. PICK x \in InPhase("RUNNING"), p \in {"SUCCEEDED", "FAILED"} :
          /\ phase' = [phase EXCEPT ![x] = p]
          /\ UNCHANGED <<seqOf, dependsOn>>
    BY <1>3, FinishPhase
  <2> QED
    BY <1>0, <2>1
<1>4. ASSUME NEW c \in Clients, SubmitAccepted(c) PROVE FifoIsFair'
  <2>1. PICK x \in InPhase("ABSENT"), deps \in SUBSET Agents :
          /\ phase' = [phase EXCEPT ![x] = "QUEUED"]
          /\ seqOf' = [seqOf EXCEPT ![x] = sequence + 1]
          /\ dependsOn' = [dependsOn EXCEPT ![x] = deps]
    BY <1>4, SubmitPhase
  <2>2. \A a \in Agents : seqOf[a] < sequence + 1
    BY <1>0 DEF SafetyInv, RecordsSound, SequenceSound
  <2>3. \A b \in Agents : phase[b] \notin {"QUEUED", "BLOCKED"} /\ b # x /\ FifoPolicy
          => \A a \in Agents : phase[a] = "QUEUED" /\ dependsOn[a] = {} => ~(seqOf[a] < seqOf[b])
    OBVIOUS
  <2>4. SUFFICES ASSUME FifoPolicy, NEW a \in Agents, phase'[a] = "QUEUED", NEW b \in Agents,
                        dependsOn'[a] = {}, seqOf'[a] < seqOf'[b]
                 PROVE  phase'[b] \in {"QUEUED", "BLOCKED"}
    OBVIOUS
  <2>5. CASE b = x
    BY <1>0, <2>1, <2>5
  <2>6. CASE b # x /\ a = x
    BY <1>0, <2>1, <2>2, <2>4, <2>6
  <2>7. CASE b # x /\ a # x
    BY <1>0, <2>1, <2>3, <2>4, <2>7
  <2> QED
    BY <2>5, <2>6, <2>7
<1>5. ASSUME UNCHANGED <<phase, seqOf, dependsOn>> PROVE FifoIsFair'
  BY <1>5
<1>6. ASSUME NEW w \in Workers, PendingDone(w) PROVE FifoIsFair'
  BY <1>5, <1>6 DEF PendingDone
<1> QED
  BY <1>1, <1>2, <1>3, <1>4, <1>5, <1>6, StepKinds

\* Before anything is submitted nobody is overtaken.
LEMMA InitFifo == Init => FifoIsFair
BY DEF Init, FifoIsFair, InPhase

\* Under FIFO nothing that was submitted after an Agent without dependencies leaves
\* the queue for a worker before it, in any interleaving of workers and clients.
THEOREM FifoIsFairHolds == Spec => []FifoIsFair
BY SchedulerSafety, InitFifo, NextFifo, PTL DEF Spec

-----------------------------------------------------------------------------
(* Wake-ups *)
(*                                                                         *)
(* LookingSound is NoLostWakeup about Agents and not about places in the   *)
(* queue: a removal shifts the places, and not the Agents.                 *)

ReadyQueued == {a \in InPhase("QUEUED") : Ready(a)}
LookingSound ==
  Parked # {} =>
    /\ Cardinality(ReadyQueued) <= Cardinality(Looking)
    /\ (\E a \in InPhase("QUEUED") : Unrunnable(a)) => Looking # {}

\* Each ready Agent is at one place of the queue.
LEMMA RunnableAreReady ==
  ASSUME SafetyInv
  PROVE  Cardinality(Runnable) = Cardinality(ReadyQueued)
<1> DEFINE f == [i \in Runnable |-> queue[i]]
<1>1. /\ DOMAIN queue = 1 .. Len(queue) /\ Len(queue) \in Nat
      /\ \A i \in DOMAIN queue : queue[i] \in InPhase("QUEUED")
  BY ElementOfSeq, LenProperties
  DEF SafetyInv, RecordsSound, QueueSound, Typing, TypeOK, InPhase
<1>2. IsFiniteSet(Runnable)
  <2>1. IsFiniteSet(1 .. Len(queue)) /\ Runnable \in SUBSET (1 .. Len(queue))
    BY <1>1, FS_Interval DEF Runnable
  <2> QED
    BY <2>1, FS_Subset
<1>3. f \in [Runnable -> ReadyQueued]
  BY <1>1 DEF Runnable, ReadyQueued
<1>4. \A i, j \in Runnable : f[i] = f[j] => i = j
  BY EntriesAreDistinct DEF Runnable, SafetyInv, RecordsSound
<1>5. \A a \in ReadyQueued : \E i \in Runnable : f[i] = a
  BY DEF ReadyQueued, Runnable, SafetyInv, RecordsSound, QueueSound, InPhase
<1>6. f \in Bijection(Runnable, ReadyQueued)
  BY <1>3, <1>4, <1>5 DEF Bijection, Injection, IsInjective, Surjection
<1> QED
  BY <1>2, <1>6, FS_Bijection DEF ExistsBijection

\* The two forms say the same of a state in which queue and records agree.
LEMMA WakeupsInQueue == SafetyInv => (NoLostWakeup <=> LookingSound)
<1> SUFFICES ASSUME SafetyInv PROVE NoLostWakeup <=> LookingSound
  OBVIOUS
<1>1. \A i \in DOMAIN queue : queue[i] \in InPhase("QUEUED")
  BY ElementOfSeq, LenProperties
  DEF SafetyInv, RecordsSound, QueueSound, Typing, TypeOK, InPhase
<1>2. \A a \in InPhase("QUEUED") : \E i \in DOMAIN queue : queue[i] = a
  BY DEF SafetyInv, RecordsSound, QueueSound, InPhase
<1>3. (\E i \in DOMAIN queue : Unrunnable(queue[i])) <=> (\E a \in InPhase("QUEUED") : Unrunnable(a))
  BY <1>1, <1>2
<1> QED
  BY <1>3, RunnableAreReady DEF NoLostWakeup, LookingSound

\* Both sets are finite.
LEMMA LookingIsFinite ==
  /\ IsFiniteSet(Looking) /\ Cardinality(Looking) \in Nat
  /\ IsFiniteSet(ReadyQueued) /\ Cardinality(ReadyQueued) \in Nat
BY FiniteConstants, FS_Subset, FS_CardinalityType, PhasesAreFinite DEF Looking, ReadyQueued

\* The standing of an Agent depends only on its dependencies.
LEMMA SameStanding ==
  ASSUME NEW a, dependsOn'[a] = dependsOn[a],
         \A d \in dependsOn[a] :
           (Satisfied(d)' <=> Satisfied(d)) /\ (phase'[d] \in Unfinished <=> phase[d] \in Unfinished)
  PROVE  (Ready(a)' <=> Ready(a)) /\ (Unrunnable(a)' <=> Unrunnable(a))
<1>1. Unmet(a)' = Unmet(a)
  BY DEF Unmet
<1>2. Unmet(a) \subseteq dependsOn[a]
  BY DEF Unmet
<1>3. Ready(a)' <=> Ready(a)
  BY <1>1 DEF Ready
<1>4. Unrunnable(a)' <=> Unrunnable(a)
  BY <1>1, <1>2 DEF Unrunnable
<1> QED
  BY <1>3, <1>4

\* A dispatch takes one ready Agent out, and one worker from those that look.
LEMMA DispatchWakeups ==
  ASSUME SafetyInv, LookingSound, NEW w \in Workers, Dispatch(w)
  PROVE  LookingSound'
<1>0. /\ phase \in [Agents -> Phases] /\ dependsOn \in [Agents -> SUBSET Agents]
      /\ pc \in [Workers -> WorkerStates]
  BY DEF SafetyInv, Typing, TypeOK
<1>1. PICK x \in InPhase("QUEUED") :
        /\ Ready(x)
        /\ phase' = [phase EXCEPT ![x] = "RUNNING"]
        /\ pc[w] = "locked"
        /\ pc' = [pc EXCEPT ![w] = "executing"]
        /\ \A i \in DOMAIN queue : ~Unrunnable(queue[i])
        /\ UNCHANGED <<dependsOn, output>>
  BY DispatchPhase
<1>2. \A d \in Agents : (Satisfied(d)' <=> Satisfied(d))
                        /\ (phase'[d] \in Unfinished <=> phase[d] \in Unfinished)
  BY <1>0, <1>1 DEF Satisfied, Unfinished, InPhase
<1>3. \A a \in Agents : (Ready(a)' <=> Ready(a)) /\ (Unrunnable(a)' <=> Unrunnable(a))
  BY <1>0, <1>1, <1>2, SameStanding
<1>4. InPhase("QUEUED")' = InPhase("QUEUED") \ {x} /\ InPhase("QUEUED") \subseteq Agents
  BY <1>0, <1>1 DEF InPhase
<1>5. ReadyQueued' = ReadyQueued \ {x} /\ x \in ReadyQueued
  BY <1>1, <1>3, <1>4 DEF ReadyQueued
<1>6. Cardinality(ReadyQueued') = Cardinality(ReadyQueued) - 1
  BY <1>5, LookingIsFinite, FS_RemoveElement
<1>7. Looking' = Looking \ {w} /\ w \in Looking /\ Parked' = Parked
  BY <1>0, <1>1 DEF Looking, Parked
<1>8. Cardinality(Looking') = Cardinality(Looking) - 1
  BY <1>7, LookingIsFinite, FS_RemoveElement
<1>9. \A a \in InPhase("QUEUED") : ~Unrunnable(a)
  BY <1>1 DEF SafetyInv, RecordsSound, QueueSound, InPhase
<1>10. ~(\E a \in InPhase("QUEUED")' : Unrunnable(a)')
  BY <1>3, <1>4, <1>9
<1> QED
  BY <1>6, <1>7, <1>8, <1>10, LookingIsFinite DEF LookingSound

\* A Submit adds at most one ready Agent, makes no queued Agent ready or blocked, and
\* wakes one parked worker if there is one: cond.Signal is enough.
LEMMA SubmitWakeups ==
  ASSUME SafetyInv, LookingSound, NEW c \in Clients, SubmitAccepted(c)
  PROVE  LookingSound'
<1>0. /\ phase \in [Agents -> Phases] /\ dependsOn \in [Agents -> SUBSET Agents]
      /\ pc \in [Workers -> WorkerStates] /\ seqOf \in [Agents -> Nat]
  BY DEF SafetyInv, Typing, TypeOK
<1>1. PICK x \in InPhase("ABSENT"), deps \in SUBSET Agents :
        /\ phase' = [phase EXCEPT ![x] = "QUEUED"]
        /\ dependsOn' = [dependsOn EXCEPT ![x] = deps]
        /\ output' = output
        /\ Signal
  BY SubmitPhase
<1>2. \A d \in Agents \ {x} : (Satisfied(d)' <=> Satisfied(d)) /\ phase'[d] = phase[d]
  BY <1>0, <1>1 DEF Satisfied, InPhase
<1>3. \A a \in Agents : x \notin dependsOn[a]
  BY <1>0, <1>1 DEF SafetyInv, RecordsSound, SequenceSound, InPhase
<1>4. \A a \in InPhase("QUEUED") : a # x
  BY <1>1 DEF InPhase
<1>5. \A a \in InPhase("QUEUED") : (Ready(a)' <=> Ready(a)) /\ (Unrunnable(a)' <=> Unrunnable(a))
  <2> TAKE a \in InPhase("QUEUED")
  <2>1. a \in Agents /\ dependsOn'[a] = dependsOn[a]
    BY <1>0, <1>1, <1>4 DEF InPhase
  <2>2. \A d \in dependsOn[a] : d \in Agents \ {x}
    BY <1>0, <1>3, <2>1
  <2> QED
    BY <1>2, <2>1, <2>2, SameStanding
<1>6. InPhase("QUEUED")' = InPhase("QUEUED") \cup {x}
  BY <1>0, <1>1 DEF InPhase
<1>7. ReadyQueued' \subseteq ReadyQueued \cup {x}
  BY <1>5, <1>6 DEF ReadyQueued
<1>8. Cardinality(ReadyQueued') <= Cardinality(ReadyQueued) + 1
  <2>1. /\ IsFiniteSet(ReadyQueued \cup {x})
        /\ Cardinality(ReadyQueued \cup {x}) <= Cardinality(ReadyQueued) + 1
    <3>1. /\ IsFiniteSet(ReadyQueued \cup {x})
          /\ Cardinality(ReadyQueued \cup {x}) =
               IF x \in ReadyQueued THEN Cardinality(ReadyQueued) ELSE Cardinality(ReadyQueued) + 1
      BY LookingIsFinite, FS_AddElement
    <3> QED
      BY <3>1, LookingIsFinite
  <2>2. /\ IsFiniteSet(ReadyQueued')
        /\ Cardinality(ReadyQueued') <= Cardinality(ReadyQueued \cup {x})
    BY <1>7, <2>1, FS_Subset
  <2>3. /\ Cardinality(ReadyQueued') \in Nat /\ Cardinality(ReadyQueued \cup {x}) \in Nat
    BY <2>1, <2>2, FS_CardinalityType
  <2> QED
    BY <2>1, <2>2, <2>3, LookingIsFinite
<1>9. CASE Parked = {}
  <2>1. Parked' = {}
    BY <1>1, <1>9 DEF Signal, Parked
  <2> QED
    BY <2>1 DEF LookingSound
<1>10. CASE Parked # {}
  <2>1. PICK w \in Parked : pc' = [pc EXCEPT ![w] = "awake"]
    BY <1>1, <1>10 DEF Signal
  <2>2. Looking' = Looking \cup {w} /\ w \notin Looking
    BY <1>0, <2>1 DEF Looking, Parked
  <2>3. Cardinality(Looking') = Cardinality(Looking) + 1
    BY <2>2, LookingIsFinite, FS_AddElement
  <2>4. Cardinality(ReadyQueued') \in Nat
    <3>1. IsFiniteSet(ReadyQueued \cup {x})
      BY LookingIsFinite, FS_AddElement
    <3> QED
      BY <1>7, <3>1, FS_Subset, FS_CardinalityType
  <2> QED
    BY <1>8, <1>10, <2>2, <2>3, <2>4, LookingIsFinite DEF LookingSound
<1> QED
  BY <1>9, <1>10

\* No step loses a wake-up: the others broadcast, or park over a queue that has
\* nothing to do.
LEMMA NextWakeups ==
  ASSUME SafetyInv, LookingSound, [Next]_vars
  PROVE  LookingSound'
<1>0. /\ pc \in [Workers -> WorkerStates] /\ \A w \in Workers : pc[w] = "locked" <=> mu = w
  BY DEF SafetyInv, LockSound, Typing, TypeOK
<1>1. ASSUME UNCHANGED <<phase, dependsOn, output>>, Parked' \subseteq Parked,
             Looking \subseteq Looking', IsFiniteSet(Looking')
      PROVE  LookingSound'
  <2>1. ReadyQueued' = ReadyQueued
    BY <1>1 DEF ReadyQueued, InPhase, Ready, Unmet, Satisfied
  <2>2. \A a \in InPhase("QUEUED") : Unrunnable(a)' <=> Unrunnable(a)
    BY <1>1 DEF Unrunnable, Unmet, Satisfied
  <2>3. InPhase("QUEUED")' = InPhase("QUEUED")
    BY <1>1 DEF InPhase
  <2>4. Cardinality(Looking) <= Cardinality(Looking') /\ Cardinality(Looking') \in Nat
    BY <1>1, FS_Subset, FS_CardinalityType
  <2> QED
    BY <1>1, <2>1, <2>2, <2>3, <2>4, LookingIsFinite DEF LookingSound
<1>2. IsFiniteSet(Looking')
  BY FiniteConstants, FS_Subset DEF Looking
<1>3. ASSUME Parked' = {} PROVE LookingSound'
  BY <1>3 DEF LookingSound
<1>4. ASSUME NEW w \in Workers, WorkerStep(w) PROVE LookingSound'
  <2>1. CASE TakeLock(w)
    <3>1. Looking' = Looking /\ Parked' = Parked /\ UNCHANGED <<phase, dependsOn, output>>
      BY <1>0, <2>1 DEF TakeLock, Looking, Parked
    <3> QED
      BY <1>1, <1>2, <3>1
  <2>2. CASE BlockUnrunnable(w) \/ BlockUndeliverable(w)
    <3>1. Parked' = {}
      BY <2>2 DEF BlockUnrunnable, BlockUndeliverable, BlockEntry, Woken, Parked
    <3> QED
      BY <1>3, <3>1
  <2>3. CASE Exit(w) \/ Park(w)
    <3>1. UNCHANGED <<phase, dependsOn, output>> /\ Runnable = {} /\ Propagated(w)
      BY <2>3, LenProperties DEF Exit, Park, Runnable, SafetyInv, Typing, TypeOK
    <3>2. \A a \in InPhase("QUEUED") : ~Ready(a) /\ ~Unrunnable(a)
      BY <3>1 DEF Runnable, Propagated, SafetyInv, RecordsSound, QueueSound, InPhase
    <3>3. ReadyQueued' = {} /\ ~(\E a \in InPhase("QUEUED")' : Unrunnable(a)')
      BY <3>1, <3>2 DEF ReadyQueued, InPhase, Ready, Unrunnable, Unmet, Satisfied
    <3>4. Cardinality(ReadyQueued') = 0 /\ Cardinality(Looking') \in Nat
      BY <1>2, <3>3, FS_EmptySet, FS_CardinalityType
    <3> QED
      BY <3>3, <3>4 DEF LookingSound
  <2>4. CASE Finish(w)
    <3>1. Parked' = {}
      BY <1>0, <2>4 DEF Finish, Woken, Parked
    <3> QED
      BY <1>3, <3>1
  <2>5. CASE PendingDone(w) \/ Load(w)
    <3>1. Looking \subseteq Looking' /\ Parked' \subseteq Parked /\ UNCHANGED <<phase, dependsOn, output>>
      BY <1>0, <2>5 DEF PendingDone, Load, Looking, Parked
    <3> QED
      BY <1>1, <1>2, <3>1
  <2> QED
    BY <1>4, <2>1, <2>2, <2>3, <2>4, <2>5, DispatchWakeups DEF WorkerStep
<1>5. ASSUME NEW c \in Clients, ClientStep(c), ~SubmitAccepted(c) PROVE LookingSound'
  <2>1. UNCHANGED <<phase, dependsOn, output>>
    BY <1>5 DEF ClientStep, Start, SubmitUnlocked, SubmitRefused, WaitCall, WaitReturn, Stop,
                StopReturn
  <2>2. Parked' \subseteq Parked /\ Looking \subseteq Looking'
    BY <1>0, <1>5 DEF ClientStep, Start, SubmitUnlocked, SubmitRefused, WaitCall, WaitReturn, Stop,
                StopReturn, Woken, Parked, Looking
  <2> QED
    BY <1>1, <1>2, <2>1, <2>2
<1>6. CASE UNCHANGED vars
  BY <1>1, <1>2, <1>6 DEF vars, Parked, Looking
<1> QED
  BY <1>4, <1>5, <1>6, SubmitWakeups DEF Next

\* Before Start no worker is parked.
LEMMA InitWakeups == Init => LookingSound
BY DEF Init, LookingSound, Parked

\* No wake-up is lost, for any number of workers, clients and jobs: cond.Signal in
\* Submit and cond.Broadcast in the other places are enough.
THEOREM NoLostWakeupHolds == Spec => []NoLostWakeup
<1>1. Spec => []LookingSound
  BY SchedulerSafety, InitWakeups, NextWakeups, PTL DEF Spec
<1> QED
  BY <1>1, SchedulerSafety, WakeupsInQueue, PTL

-----------------------------------------------------------------------------
(* Nothing stalls *)

\* The first entry of a queue in which nothing is ready nor to be blocked waits for an
\* Agent that some worker executes: its dependencies were accepted before it.
LEMMA FirstWaitsForRunning ==
  ASSUME SafetyInv, queue # <<>>,
         \A i \in DOMAIN queue : ~Ready(queue[i]) /\ ~Unrunnable(queue[i])
  PROVE  \E w \in Workers : pc[w] = "executing"
<1> DEFINE a == queue[1]
<1>0. /\ queue \in Seq(Agents) /\ Len(queue) \in Nat /\ DOMAIN queue = 1 .. Len(queue)
      /\ phase \in [Agents -> Phases] /\ dependsOn \in [Agents -> SUBSET Agents]
      /\ seqOf \in [Agents -> Nat]
  BY LenProperties DEF SafetyInv, Typing, TypeOK
<1>1. 1 \in DOMAIN queue /\ a \in Agents
  BY <1>0, EmptySeq, ElementOfSeq
<1>2. Unmet(a) # {} /\ ~Unrunnable(a) /\ Unmet(a) \subseteq dependsOn[a]
  BY <1>1 DEF Ready, Unmet
<1>3. Unmet(a) \in SUBSET Nat /\ dependsOn[a] \subseteq Agents
  BY <1>0, <1>1, <1>2, AgentsAreOrdered
<1>4. PICK d \in Unmet(a) : \A e \in Unmet(a) : d <= e
  BY <1>2, <1>3, LeastNatural
<1>5. phase[d] \in Unfinished /\ d \in Agents /\ d \in dependsOn[a]
  BY <1>2, <1>3, <1>4 DEF Unrunnable
<1>6. seqOf[d] < seqOf[a]
  BY <1>1, <1>5 DEF SafetyInv, RecordsSound, SequenceSound
<1>7. phase[d] # "QUEUED"
  <2> SUFFICES ASSUME phase[d] = "QUEUED" PROVE FALSE
    OBVIOUS
  <2>1. PICK i \in DOMAIN queue : queue[i] = d
    BY <1>5 DEF SafetyInv, RecordsSound, QueueSound
  <2>2. i # 1
    BY <1>0, <1>1, <1>6, <2>1
  <2>3. seqOf[a] < seqOf[d]
    BY SMTT(30), <1>0, <1>1, <2>1, <2>2 DEF SafetyInv, RecordsSound, QueueSound
  <2> QED
    BY <1>0, <1>1, <1>5, <1>6, <2>3
<1>8. phase[d] = "RUNNING"
  BY <1>5, <1>7 DEF Unfinished
<1> QED
  BY <1>5, <1>8 DEF SafetyInv, RecordsSound, ExecutionSound

\* The workers that will look at the queue again without being woken.
Busy == {w \in Workers : pc[w] \notin {"off", "waiting", "exited"}}

\* The last busy worker does not park over a queue that is not empty.
LEMMA NextNoStall ==
  ASSUME SafetyInv, NoStall, [Next]_vars
  PROVE  NoStall'
<1>0. /\ pc \in [Workers -> WorkerStates] /\ \A w \in Workers : pc[w] = "locked" <=> mu = w
      /\ \A w \in Workers : started <=> pc[w] # "off"
      /\ \A w \in Workers : pc[w] = "exited" => stopped
  BY DEF SafetyInv, LockSound, LifecycleSound, Typing, TypeOK
<1>1. NoStall <=> (started /\ queue # <<>> => Busy # {})
  BY DEF NoStall, Busy
<1>2. NoStall' <=> (started' /\ queue' # <<>> => Busy' # {})
  BY DEF NoStall, Busy
<1>3. ASSUME NEW w \in Workers, WorkerStep(w) PROVE NoStall'
  <2>1. CASE Exit(w)
    BY <1>2, <2>1 DEF Exit
  <2>2. CASE Park(w)
    <3>1. Propagated(w) /\ Runnable = {}
      BY <2>2 DEF Park
    <3>2. CASE queue = <<>>
      BY <1>2, <2>2, <3>2 DEF Park
    <3>3. CASE queue # <<>>
      <4>1. PICK v \in Workers : pc[v] = "executing"
        BY <3>1, <3>3, FirstWaitsForRunning DEF Propagated, Runnable
      <4>2. pc'[v] = "executing"
        BY <1>0, <2>2, <4>1 DEF Park, Propagated
      <4> QED
        BY <1>2, <4>2 DEF Busy
    <3> QED
      BY <3>2, <3>3
  <2>3. CASE ~Exit(w) /\ ~Park(w)
    <3>1. pc'[w] \in {"awake", "locked", "executing", "finished"}
      BY <1>0, <1>3, <2>3 DEF WorkerStep, TakeLock, BlockUnrunnable, BlockUndeliverable, BlockEntry,
         Propagated, Dispatch, Load, Finish, PendingDone, Woken
    <3> QED
      BY <1>2, <3>1 DEF Busy
  <2> QED
    BY <2>1, <2>2, <2>3
<1>4. ASSUME NEW c \in Clients, ClientStep(c) PROVE NoStall'
  <2>1. CASE Start(c)
    BY <1>2, <2>1, FiniteConstants DEF Start, Busy
  <2>2. CASE SubmitAccepted(c)
    <3>1. ~stopped /\ Signal /\ started' = started
      BY <2>2 DEF SubmitAccepted, Refused
    <3>2. ASSUME started, Busy = {} PROVE Busy' # {}
      <4>1. \A v \in Workers : pc[v] = "waiting"
        BY <1>0, <3>1, <3>2 DEF Busy
      <4>2. PICK v \in Parked : pc' = [pc EXCEPT ![v] = "awake"]
        BY <3>1, <4>1, FiniteConstants DEF Signal, Parked
      <4> QED
        BY <1>0, <4>2 DEF Busy, Parked
    <3>3. Busy \subseteq Busy'
      BY <1>0, <3>1 DEF Busy, Signal, Parked
    <3> QED
      BY <1>2, <3>1, <3>2, <3>3
  <2>3. CASE ~Start(c) /\ ~SubmitAccepted(c)
    <3>1. UNCHANGED <<started, queue>> /\ Busy \subseteq Busy'
      BY <1>0, <1>4, <2>3 DEF ClientStep, SubmitUnlocked, SubmitRefused, WaitCall, WaitReturn, Stop,
                StopReturn, Woken, Busy
    <3> QED
      BY <1>1, <1>2, <3>1
  <2> QED
    BY <2>1, <2>2, <2>3
<1>5. CASE UNCHANGED vars
  BY <1>5 DEF vars, NoStall
<1> QED
  BY <1>3, <1>4, <1>5 DEF Next

\* Before Start there is nothing to show.
LEMMA InitNoStall == Init => NoStall
BY DEF Init, NoStall

\* The Scheduler never comes to rest over accepted work: in every graph of Agents,
\* however it fails, what remains in the queue has a busy worker that will see it.
THEOREM NoStallHolds == Spec => []NoStall
BY SchedulerSafety, InitNoStall, NextNoStall, PTL DEF Spec

-----------------------------------------------------------------------------
(* Refinement of DagExecution *)

\* The queue bounds the QUEUED Agents.
LEMMA QueuedBound ==
  ASSUME SafetyInv
  PROVE  Cardinality(InPhase("QUEUED")) <= Len(queue)
<1>1. queue \in Seq(Agents) /\ Len(queue) \in Nat /\ DOMAIN queue = 1 .. Len(queue)
  BY LenProperties DEF SafetyInv, Typing, TypeOK
<1>2. \A i \in DOMAIN queue : queue[i] \in InPhase("QUEUED")
  BY <1>1, ElementOfSeq DEF SafetyInv, RecordsSound, QueueSound, InPhase
<1>3. queue \in [1 .. Len(queue) -> InPhase("QUEUED")]
  BY <1>1, <1>2, LenProperties
<1>4. queue \in Surjection(1 .. Len(queue), InPhase("QUEUED"))
  BY <1>1, <1>3 DEF Surjection, SafetyInv, RecordsSound, QueueSound, InPhase
<1>5. /\ IsFiniteSet(1 .. Len(queue))
      /\ Cardinality(1 .. Len(queue)) = Len(queue)
  BY <1>1, FS_Interval
<1> QED
  BY <1>4, <1>5, FS_Surjection

\* A worker that holds the lock is not among those whose jobs are RUNNING.
LEMMA RunningBound ==
  ASSUME SafetyInv, NEW w \in Workers, pc[w] = "locked"
  PROVE  Cardinality(InPhase("RUNNING")) < Cardinality(Workers)
<1> DEFINE executing == {v \in Workers : pc[v] = "executing"}
           f == [v \in executing |-> job[v]]
<1>1. f \in Surjection(executing, InPhase("RUNNING"))
  BY DEF Surjection, SafetyInv, RecordsSound, ExecutionSound, InPhase
<1>2. executing \in SUBSET (Workers \ {w})
  OBVIOUS
<1>3. /\ IsFiniteSet(Workers \ {w})
      /\ Cardinality(Workers \ {w}) = Cardinality(Workers) - 1
  BY FiniteConstants, FS_RemoveElement
<1>4. IsFiniteSet(executing) /\ Cardinality(executing) <= Cardinality(Workers \ {w})
  BY <1>2, <1>3, FS_Subset
<1>5. IsFiniteSet(InPhase("RUNNING"))
      /\ Cardinality(InPhase("RUNNING")) <= Cardinality(executing)
  BY <1>1, <1>4, FS_Surjection
<1>6. /\ Cardinality(Workers) \in Nat
      /\ Cardinality(executing) \in Nat
      /\ Cardinality(InPhase("RUNNING")) \in Nat
  BY <1>4, <1>5, FiniteConstants, FS_CardinalityType
<1> QED
  BY <1>3, <1>4, <1>5, <1>6

\* The instance has its own copy of the operator of FiniteSets.
LEMMA SameCardinality == \A S : Dag!Cardinality(S) = Cardinality(S)
BY DEF Dag!Cardinality, Cardinality

LEMMA AcceptImplements ==
  ASSUME SafetyInv, SafetyInv', NEW c \in Clients, SubmitAccepted(c)
  PROVE  Dag!Next
<1> DEFINE a == submission[c].agent
           deps == submission[c].deps
<1>1. a \in Agents /\ deps \in SUBSET Agents
  BY JobFields DEF SubmitAccepted, SafetyInv, Typing, WorkInHand
<1>2. /\ phase[a] = "ABSENT" /\ \A d \in deps : phase[d] # "ABSENT"
      /\ ~(Len(queue) >= QueueCapacity)
      /\ phase' = [phase EXCEPT ![a] = "QUEUED"]
      /\ dependsOn' = [dependsOn EXCEPT ![a] = deps]
      /\ UNCHANGED output
  BY DEF SubmitAccepted, Refused
<1>3. a \notin deps
  BY <1>2
<1>4. Cardinality(InPhase("QUEUED")) < QueueCapacity
  <2>1. Len(queue) \in Nat /\ QueueCapacity \in Nat
    BY LenProperties, CapacityIsPositive DEF SafetyInv, Typing, TypeOK
  <2>2. Cardinality(InPhase("QUEUED")) \in Nat
    <3>1. IsFiniteSet(InPhase("QUEUED"))
      BY FiniteConstants, FS_Subset DEF InPhase
    <3> QED
      BY <3>1, FS_CardinalityType
  <2> QED
    BY <1>2, <2>1, <2>2, QueuedBound
<1>5. Dag!Accept(a, deps)
  <2>1. Dag!Cardinality(Dag!InPhase("QUEUED")) < QueueCapacity
    BY <1>4, SameCardinality DEF Dag!InPhase, InPhase
  <2> HIDE DEF a, deps
  <2> QED
    BY <1>2, <2>1 DEF Dag!Accept
<1>6. deps \in SUBSET (Agents \ {a})
  BY <1>1, <1>3
<1> HIDE DEF a, deps
<1> QED
  BY <1>1, <1>5, <1>6 DEF Dag!Next

LEMMA BlockImplements ==
  ASSUME SafetyInv, NEW i \in DOMAIN queue, BlockEntry(i),
         \E d \in dependsOn[queue[i]] :
           phase[d] \in Terminal /\ (~Satisfied(d) \/ output[d] = "UNENCODABLE")
  PROVE  Dag!Next
<1>1. queue[i] \in Agents /\ phase[queue[i]] = "QUEUED"
  BY ElementOfSeq, LenProperties DEF SafetyInv, RecordsSound, QueueSound, Typing, TypeOK
<1>2. Dag!Block(queue[i])
  BY <1>1 DEF BlockEntry, Dag!Block, Dag!CannotDeliver, Dag!Delivers, Dag!Ended,
              Dag!Verified, Terminal, Satisfied
<1> QED
  BY <1>1, <1>2 DEF Dag!Next

LEMMA BeginImplements ==
  ASSUME SafetyInv, NEW w \in Workers, Dispatch(w)
  PROVE  Dag!Next
<1>1. PICK i \in DOMAIN queue :
        /\ Selectable(i) /\ ~Unencodable(queue[i])
        /\ phase' = [phase EXCEPT ![queue[i]] = "RUNNING"]
  BY DEF Dispatch
<1>2. queue[i] \in Agents /\ phase[queue[i]] = "QUEUED"
  BY ElementOfSeq, LenProperties DEF SafetyInv, RecordsSound, QueueSound, Typing, TypeOK
<1>3. \A d \in dependsOn[queue[i]] : Satisfied(d) /\ output[d] = "VERIFIED"
  BY <1>1 DEF Selectable, Runnable, Ready, Unmet, Unencodable, Satisfied
<1>4. Cardinality(InPhase("RUNNING")) < Cardinality(Workers)
  BY RunningBound DEF Dispatch, Propagated, SafetyInv, LockSound
<1>5. Dag!Begin(queue[i])
  <2>1. Dag!Cardinality(Dag!InPhase("RUNNING")) < Cardinality(Workers)
    BY <1>4, SameCardinality DEF Dag!InPhase, InPhase
  <2>2. \A d \in dependsOn[queue[i]] : Dag!Delivers(d) /\ output[d] = "VERIFIED"
    BY <1>3 DEF Dag!Delivers, Dag!Verified, Satisfied
  <2>3. UNCHANGED <<dependsOn, output>>
    BY DEF Dispatch
  <2> QED
    BY <1>1, <1>2, <2>1, <2>2, <2>3 DEF Dag!Begin
<1> QED
  BY <1>2, <1>5 DEF Dag!Next

LEMMA EndImplements ==
  ASSUME SafetyInv, NEW w \in Workers, Finish(w)
  PROVE  Dag!Next
<1> DEFINE a == job[w]
<1>1. PICK runErr \in BOOLEAN, committed \in BOOLEAN, verdict \in Verdicts :
        /\ output' = [output EXCEPT ![a] = OutputAfter(runErr, committed, verdict)]
        /\ phase' = [phase EXCEPT ![a] =
                       IF Failed(runErr, committed, verdict) THEN "FAILED" ELSE "SUCCEEDED"]
  BY DEF Finish
<1>2. a \in Agents /\ phase[a] = "RUNNING" /\ dependsOn' = dependsOn
  BY DEF Finish, SafetyInv, RecordsSound, ExecutionSound
<1>3. CASE Failed(runErr, committed, verdict)
  <2>1. OutputAfter(runErr, committed, verdict) \in {"NONE", "COMMITTED"}
    BY <1>3 DEF OutputAfter
  <2> QED
    BY <1>1, <1>2, <1>3, <2>1 DEF Dag!Next, Dag!End
<1>4. CASE ~Failed(runErr, committed, verdict)
  <2>1. OutputAfter(runErr, committed, verdict) \in Dag!Verified \cup {"NONE"}
    BY <1>4 DEF OutputAfter, Failed, Verdicts, Dag!Verified
  <2> QED
    BY <1>1, <1>2, <1>4, <2>1 DEF Dag!Next, Dag!End
<1> QED
  BY <1>3, <1>4

\* Every step of the Scheduler is a step of DagExecution or leaves the records alone.
LEMMA StepImplements == SafetyInv /\ SafetyInv' /\ [Next]_vars => [Dag!Next]_(Dag!vars)
<1> SUFFICES ASSUME SafetyInv, SafetyInv', [Next]_vars
             PROVE  Dag!Next \/ UNCHANGED <<phase, dependsOn, output>>
  BY DEF Dag!vars
<1>1. ASSUME NEW w \in Workers, WorkerStep(w)
      PROVE  Dag!Next \/ UNCHANGED <<phase, dependsOn, output>>
  <2>1. CASE TakeLock(w) \/ Exit(w) \/ Park(w) \/ Load(w) \/ PendingDone(w)
    BY <2>1 DEF TakeLock, Exit, Park, Load, PendingDone
  <2>2. CASE BlockUnrunnable(w)
    <3>1. PICK i \in DOMAIN queue : Unrunnable(queue[i]) /\ BlockEntry(i)
      BY <2>2 DEF BlockUnrunnable
    <3>2. queue[i] \in Agents
      BY ElementOfSeq, LenProperties DEF SafetyInv, Typing, TypeOK
    <3> QED
      BY <3>1, <3>2, UnrunnableHasReason, BlockImplements
  <2>3. CASE BlockUndeliverable(w)
    <3>1. PICK i \in DOMAIN queue :
            Selectable(i) /\ Unencodable(queue[i]) /\ BlockEntry(i)
      BY <2>3 DEF BlockUndeliverable
    <3>2. PICK d \in dependsOn[queue[i]] : output[d] = "UNENCODABLE" /\ Satisfied(d)
      BY <3>1 DEF Unencodable, Selectable, Runnable, Ready, Unmet
    <3> QED
      BY <3>1, <3>2, BlockImplements DEF Satisfied, Terminal
  <2> QED
    BY <1>1, <2>1, <2>2, <2>3, BeginImplements, EndImplements DEF WorkerStep
<1>2. ASSUME NEW c \in Clients, ClientStep(c)
      PROVE  Dag!Next \/ UNCHANGED <<phase, dependsOn, output>>
  <2>1. CASE SubmitAccepted(c)
    BY <2>1, AcceptImplements
  <2>2. CASE ~SubmitAccepted(c)
    BY <1>2, <2>2 DEF ClientStep, Start, SubmitUnlocked, SubmitRefused, WaitCall, WaitReturn,
                      Stop, StopReturn
  <2> QED
    BY <2>1, <2>2
<1> QED
  BY <1>1, <1>2 DEF Next, vars

\* Whatever the queue, the lock, the workers and the clients do, the records evolve as
\* DagExecution says: an Agent is accepted after its dependencies, begins when all of
\* them deliver, is blocked only for a reason, and never leaves a terminal phase.
THEOREM SchedulerImplementsDag == Spec => ImplementsDag
<1>1. Init => Dag!Init
  BY DEF Init, Dag!Init
<1> QED
  BY <1>1, StepImplements, SchedulerSafety, PTL DEF Spec, ImplementsDag, Dag!Spec
================================================================================
