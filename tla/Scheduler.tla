------------------------------- MODULE Scheduler -------------------------------
(***************************************************************************)
(* The Scheduler of internal/scheduler: a bounded queue of Agents with     *)
(* dependencies, a fixed set of worker goroutines that take from it, and   *)
(* client goroutines that call Start, Submit, Wait and Stop.               *)
(*                                                                         *)
(* s.mu is explicit only while a worker holds it (mu): take() keeps it     *)
(* through several steps.  Every other critical section is one action that *)
(* needs mu free.  What runs outside the lock is a step of its own: the    *)
(* first half of Submit, the execution, and pending.Done.                  *)
(***************************************************************************)
EXTENDS Integers, FiniteSets, SequencesExt

CONSTANTS
  Agents,         \* Agent IDs; numbers, ordered as sort.Strings orders IDs
  Workers,        \* the worker goroutines that Start launches
  Clients,        \* goroutines that call the Scheduler
  Contexts,       \* ContextFS identities a job may request
  Jobs,           \* the jobs clients may submit
  QueueCapacity,  \* Options.QueueSize
  FifoPolicy,     \* TRUE: FIFOPolicy; FALSE: a policy that may choose any ready job
  NoWorker, NoAgent, NoJob

ASSUME AgentsAreOrdered == Agents \subseteq Nat
ASSUME CapacityIsPositive == QueueCapacity \in Nat \ {0}
ASSUME FiniteConstants ==
  /\ IsFiniteSet(Agents)
  /\ IsFiniteSet(Workers)
  /\ Workers # {}
ASSUME Sentinels ==
  /\ NoWorker \notin Workers
  /\ NoAgent \notin Agents
  /\ NoJob \notin Jobs
ASSUME JobShape ==
  Jobs \subseteq [agent : Agents, deps : SUBSET Agents, ctxs : SUBSET Contexts]
ASSUME PolicyIsChosen == FifoPolicy \in BOOLEAN

VARIABLES
  started, stopped,  \* s.started and s.stopped
  mu,                \* the worker inside take(), NoWorker when s.mu is free
  queue,             \* s.queue: Agent IDs in submission order
  sequence,          \* s.sequence
  seqOf,             \* queuedJob.sequence
  phase,             \* Record.Phase, "ABSENT" before there is a record
  dependsOn,         \* Record.DependsOn
  contexts,          \* Record.Contexts and queuedJob.Contexts
  output,            \* Record.OutputCommitted, OutputVerified and OutputVerifiedAt
  acbContexts,       \* ACB.Contexts, of the one control block of each Agent ID
  loaded,            \* what the executor of each Agent has read there: {} before it has,
                     \* then a set with one element
  warm,              \* the identities in the context registry
  pending,           \* the counter of the WaitGroup s.pending
  pc,                \* where each worker goroutine is
  job,               \* the Agent a worker executes
  client,            \* the call each client is in
  submission         \* the job of a Submit between its two halves

vars == <<started, stopped, mu, queue, sequence, seqOf, phase, dependsOn, contexts,
          output, acbContexts, loaded, warm, pending, pc, job, client, submission>>

\* Off before Start; "awake" wants s.mu (entering take or woken in it); "locked"
\* holds it; "waiting" is parked on s.cond; "finished" has published its result
\* and not yet called pending.Done.
WorkerStates == {"off", "awake", "locked", "waiting", "executing", "finished", "exited"}
Phases == {"ABSENT", "QUEUED", "RUNNING", "SUCCEEDED", "FAILED", "BLOCKED"}
Unfinished == {"QUEUED", "RUNNING"}
Terminal == {"SUCCEEDED", "FAILED", "BLOCKED"}

\* NONE: not committed.  COMMITTED: not verified.  VERIFIED: OutputVerified.
\* UNENCODABLE: OutputVerified, with a VerifiedAt that json.Marshal refuses.
Outputs == {"NONE", "COMMITTED", "VERIFIED", "UNENCODABLE"}

InPhase(p) == {a \in Agents : phase[a] = p}

Init ==
  /\ started = FALSE
  /\ stopped = FALSE
  /\ mu = NoWorker
  /\ queue = <<>>
  /\ sequence = 0
  /\ seqOf = [a \in Agents |-> 0]
  /\ phase = [a \in Agents |-> "ABSENT"]
  /\ dependsOn = [a \in Agents |-> {}]
  /\ contexts = [a \in Agents |-> {}]
  /\ output = [a \in Agents |-> "NONE"]
  /\ acbContexts = [a \in Agents |-> {}]
  /\ loaded = [a \in Agents |-> {}]
  /\ warm = {}
  /\ pending = 0
  /\ pc = [w \in Workers |-> "off"]
  /\ job = [w \in Workers |-> NoAgent]
  /\ client = [c \in Clients |-> "idle"]
  /\ submission = [c \in Clients |-> NoJob]

-----------------------------------------------------------------------------
(* The condition variable *)

Parked == {w \in Workers : pc[w] = "waiting"}

\* Mutant: no cond.Signal.
SignalForgotten == pc' = pc

\* cond.Signal wakes one parked worker, if there is one.
Signal ==
  \/ Parked = {} /\ pc' = pc
  \/ \E w \in Parked : pc' = [pc EXCEPT ![w] = "awake"]

\* Mutant: Signal in place of Broadcast.
OneWoken ==
  [w \in Workers |-> IF Parked # {} /\ w = CHOOSE x \in Parked : TRUE THEN "awake" ELSE pc[w]]

\* cond.Broadcast wakes every parked worker.
Woken == [w \in Workers |-> IF pc[w] = "waiting" THEN "awake" ELSE pc[w]]

-----------------------------------------------------------------------------
(* The dependency gate *)

Satisfied(d) == phase[d] = "SUCCEEDED" /\ output[d] \in {"VERIFIED", "UNENCODABLE"}

Unmet(a) == {d \in dependsOn[a] : ~Satisfied(d)}

\* Mutant: ready as soon as one dependency delivers.
ReadyAfterOne(a) == dependsOn[a] = {} \/ \E d \in dependsOn[a] : Satisfied(d)

Ready(a) == Unmet(a) = {}

\* Mutants: a RUNNING dependency is a reason to block; a BLOCKED one is not; only the
\* first dependency is looked at, met or not.
UnrunnableEarly(a) ==
  \E d \in Unmet(a) : (\A e \in Unmet(a) : d <= e) /\ phase[d] # "QUEUED"
UnrunnableAfterFailureOnly(a) ==
  \E d \in Unmet(a) : (\A e \in Unmet(a) : d <= e) /\ phase[d] \in {"FAILED", "SUCCEEDED"}
UnrunnableOfFirst(a) ==
  \E d \in Unmet(a) : (\A e \in dependsOn[a] : d <= e) /\ phase[d] \notin Unfinished

\* dependencyStatusLocked stops at the first unmet dependency in ID order: its
\* phase alone decides whether there is a reason to block.
Unrunnable(a) ==
  \E d \in Unmet(a) :
    /\ \A e \in Unmet(a) : d <= e
    /\ phase[d] \notin Unfinished

Runnable == {i \in DOMAIN queue : Ready(queue[i])}

\* Some output that would be handed to a cannot be marshalled to JSON.
Unencodable(a) == \E d \in dependsOn[a] : output[d] = "UNENCODABLE"

\* Mutant: no pending.Done for a blocked Agent.
BlockEntryUncounted(i) ==
  /\ queue' = RemoveAt(queue, i)
  /\ phase' = [phase EXCEPT ![queue[i]] = "BLOCKED"]
  /\ pc' = Woken
  /\ UNCHANGED <<started, stopped, mu, sequence, seqOf, dependsOn, contexts, output,
                 acbContexts, loaded, warm, pending, job, client, submission>>

\* blockEntryLocked, called by the worker that holds s.mu.
BlockEntry(i) ==
  /\ queue' = RemoveAt(queue, i)
  /\ phase' = [phase EXCEPT ![queue[i]] = "BLOCKED"]
  /\ pending' = pending - 1
  /\ pc' = Woken
  /\ UNCHANGED <<started, stopped, mu, sequence, seqOf, dependsOn, contexts, output,
                 acbContexts, loaded, warm, job, client, submission>>

-----------------------------------------------------------------------------
(* A worker: take, then execute *)

\* take() and the return from cond.Wait: acquire s.mu, go to the top of the loop.
TakeLock(w) ==
  /\ pc[w] = "awake"
  /\ mu = NoWorker
  /\ mu' = w
  /\ pc' = [pc EXCEPT ![w] = "locked"]
  /\ UNCHANGED <<started, stopped, queue, sequence, seqOf, phase, dependsOn, contexts,
                 output, acbContexts, loaded, warm, pending, job, client, submission>>

\* One round of blockUnrunnableLocked: the first entry with a reason to block.
BlockUnrunnable(w) ==
  /\ mu = w
  /\ \E i \in DOMAIN queue :
       /\ Unrunnable(queue[i])
       /\ \A j \in 1 .. i - 1 : ~Unrunnable(queue[j])
       /\ BlockEntry(i)

\* blockUnrunnableLocked has returned false.
Propagated(w) ==
  /\ mu = w
  /\ \A i \in DOMAIN queue : ~Unrunnable(queue[i])

Exit(w) ==
  /\ Propagated(w)
  /\ queue = <<>>
  /\ stopped
  /\ mu' = NoWorker
  /\ pc' = [pc EXCEPT ![w] = "exited"]
  /\ UNCHANGED <<started, stopped, queue, sequence, seqOf, phase, dependsOn, contexts,
                 output, acbContexts, loaded, warm, pending, job, client, submission>>

\* cond.Wait, on an empty queue or with no ready entry in it.
Park(w) ==
  /\ Propagated(w)
  /\ Runnable = {}
  /\ queue = <<>> => ~stopped
  /\ mu' = NoWorker
  /\ pc' = [pc EXCEPT ![w] = "waiting"]
  /\ UNCHANGED <<started, stopped, queue, sequence, seqOf, phase, dependsOn, contexts,
                 output, acbContexts, loaded, warm, pending, job, client, submission>>

\* Mutant: the policy's choice ignores the order of submission.
SelectableAny(i) == i \in Runnable

\* What policy.Select may choose.  An index out of range falls back to the
\* first ready entry, which is also FIFO's choice.
Selectable(i) ==
  /\ i \in Runnable
  /\ FifoPolicy => \A j \in Runnable : seqOf[queue[i]] <= seqOf[queue[j]]

\* applyDependencyOutputs fails on the selected entry: block it and look again.
BlockUndeliverable(w) ==
  /\ Propagated(w)
  /\ \E i \in DOMAIN queue :
       /\ Selectable(i)
       /\ Unencodable(queue[i])
       /\ BlockEntry(i)

Dispatch(w) ==
  /\ Propagated(w)
  /\ \E i \in DOMAIN queue :
       /\ Selectable(i)
       /\ ~Unencodable(queue[i])
       /\ queue' = RemoveAt(queue, i)
       /\ phase' = [phase EXCEPT ![queue[i]] = "RUNNING"]
       /\ job' = [job EXCEPT ![w] = queue[i]]
  /\ mu' = NoWorker
  /\ pc' = [pc EXCEPT ![w] = "executing"]
  /\ UNCHANGED <<started, stopped, sequence, seqOf, dependsOn, contexts, output,
                 acbContexts, loaded, warm, pending, client, submission>>

\* The executor reads the contexts to materialize from the control block, without s.mu.
\* (One that fails before it reads them is like one that fails after.)
Load(w) ==
  /\ pc[w] = "executing"
  /\ loaded[job[w]] = {}
  /\ loaded' = [loaded EXCEPT ![job[w]] = {acbContexts[job[w]]}]
  /\ UNCHANGED <<started, stopped, mu, queue, sequence, seqOf, phase, dependsOn, contexts,
                 output, acbContexts, warm, pending, pc, job, client, submission>>

\* How the verifier may answer: it rejects, or accepts with a VerifiedAt that can or
\* cannot be encoded.
Verdicts == {"REJECTED", "VERIFIED", "UNENCODABLE"}

\* Mutant: a rejected output does not fail the execution.
RejectionIgnored(runErr, committed, verdict) == runErr

\* The verifier is asked only about a committed output of an execution without error.
Failed(runErr, committed, verdict) == runErr \/ (committed /\ verdict = "REJECTED")

\* Mutant: the outcome of an earlier verification is kept.
OutputUnreset(runErr, committed, verdict) == IF committed THEN verdict ELSE "NONE"

OutputAfter(runErr, committed, verdict) ==
  IF ~committed THEN "NONE"
  ELSE IF Failed(runErr, committed, verdict) THEN "COMMITTED" ELSE verdict

\* Mutant: a failed execution feeds the registry too.
WarmAfterAnyEnd(a, failed) == warm \cup contexts[a]

\* contexts.Add with the queued job's own contexts, after a success.
WarmAfter(a, failed) == IF failed THEN warm ELSE warm \cup contexts[a]

\* The tail of execute, under s.mu: the control block's output fields are copied to
\* the record of the Agent, which has failed or succeeded.
Finish(w) ==
  /\ pc[w] = "executing"
  /\ loaded[job[w]] # {}
  /\ mu = NoWorker
  /\ \E runErr, committed \in BOOLEAN, verdict \in Verdicts :
       /\ output' = [output EXCEPT ![job[w]] = OutputAfter(runErr, committed, verdict)]
       /\ warm' = WarmAfter(job[w], Failed(runErr, committed, verdict))
       /\ phase' = [phase EXCEPT ![job[w]] =
                      IF Failed(runErr, committed, verdict) THEN "FAILED" ELSE "SUCCEEDED"]
  /\ job' = [job EXCEPT ![w] = NoAgent]
  /\ pc' = [Woken EXCEPT ![w] = "finished"]
  /\ UNCHANGED <<started, stopped, mu, queue, sequence, seqOf, dependsOn, contexts,
                 acbContexts, loaded, pending, client, submission>>

\* The deferred pending.Done runs last, after s.mu is released.
PendingDone(w) ==
  /\ pc[w] = "finished"
  /\ pending' = pending - 1
  /\ pc' = [pc EXCEPT ![w] = "awake"]
  /\ UNCHANGED <<started, stopped, mu, queue, sequence, seqOf, phase, dependsOn, contexts,
                 output, acbContexts, loaded, warm, job, client, submission>>

-----------------------------------------------------------------------------
(* The clients' calls *)

Start(c) ==
  /\ client[c] = "idle"
  /\ mu = NoWorker
  /\ ~started
  /\ ~stopped
  /\ started' = TRUE
  /\ pc' = [w \in Workers |-> "awake"]
  /\ UNCHANGED <<stopped, mu, queue, sequence, seqOf, phase, dependsOn, contexts,
                 output, acbContexts, loaded, warm, pending, job, client, submission>>

\* Submit before s.mu: the resolved contexts are written to the control block,
\* then a job that depends on itself is refused.
SubmitUnlocked(c) ==
  /\ client[c] = "idle"
  /\ \E j \in Jobs :
       /\ acbContexts' = [acbContexts EXCEPT ![j.agent] = j.ctxs]
       /\ IF j.agent \in j.deps
            THEN UNCHANGED <<client, submission>>
            ELSE /\ client' = [client EXCEPT ![c] = "submit"]
                 /\ submission' = [submission EXCEPT ![c] = j]
  /\ UNCHANGED <<started, stopped, mu, queue, sequence, seqOf, phase, dependsOn, contexts,
                 output, loaded, warm, pending, pc, job>>

\* Mutants: no duplicate check; a capacity check that is off by one.
RefusedButDuplicate(j) ==
  stopped \/ (\E d \in j.deps : phase[d] = "ABSENT") \/ Len(queue) >= QueueCapacity
RefusedTooLate(j) ==
  \/ stopped
  \/ phase[j.agent] # "ABSENT"
  \/ \E d \in j.deps : phase[d] = "ABSENT"
  \/ Len(queue) > QueueCapacity

\* ErrSchedulerStopped, ErrDuplicateAgent, ErrUnknownDependency, ErrQueueFull.
Refused(j) ==
  \/ stopped
  \/ phase[j.agent] # "ABSENT"
  \/ \E d \in j.deps : phase[d] = "ABSENT"
  \/ Len(queue) >= QueueCapacity

SubmitRefused(c) ==
  /\ client[c] = "submit"
  /\ mu = NoWorker
  /\ Refused(submission[c])
  /\ client' = [client EXCEPT ![c] = "idle"]
  /\ submission' = [submission EXCEPT ![c] = NoJob]
  /\ UNCHANGED <<started, stopped, mu, queue, sequence, seqOf, phase, dependsOn, contexts,
                 output, acbContexts, loaded, warm, pending, pc, job>>

SubmitAccepted(c) ==
  /\ client[c] = "submit"
  /\ mu = NoWorker
  /\ ~Refused(submission[c])
  /\ LET j == submission[c]
     IN /\ seqOf' = [seqOf EXCEPT ![j.agent] = sequence + 1]
        /\ phase' = [phase EXCEPT ![j.agent] = "QUEUED"]
        /\ dependsOn' = [dependsOn EXCEPT ![j.agent] = j.deps]
        /\ contexts' = [contexts EXCEPT ![j.agent] = j.ctxs]
        /\ queue' = Append(queue, j.agent)
  /\ sequence' = sequence + 1
  /\ pending' = pending + 1
  /\ Signal
  /\ client' = [client EXCEPT ![c] = "idle"]
  /\ submission' = [submission EXCEPT ![c] = NoJob]
  /\ UNCHANGED <<started, stopped, mu, output, acbContexts, loaded, warm, job>>

WaitCall(c) ==
  /\ client[c] = "idle"
  /\ client' = [client EXCEPT ![c] = "wait"]
  /\ UNCHANGED <<started, stopped, mu, queue, sequence, seqOf, phase, dependsOn, contexts,
                 output, acbContexts, loaded, warm, pending, pc, job, submission>>

WaitReturn(c) ==
  /\ client[c] = "wait"
  /\ pending = 0
  /\ client' = [client EXCEPT ![c] = "idle"]
  /\ UNCHANGED <<started, stopped, mu, queue, sequence, seqOf, phase, dependsOn, contexts,
                 output, acbContexts, loaded, warm, pending, pc, job, submission>>

\* Stop, up to workers.Wait.  Only the first call broadcasts (stopOnce); a later
\* one waits in Do for the first to return.
Stop(c) ==
  /\ client[c] = "idle"
  /\ mu = NoWorker
  /\ stopped' = TRUE
  /\ pc' = IF stopped THEN pc ELSE Woken
  /\ client' = [client EXCEPT ![c] = "stop"]
  /\ UNCHANGED <<started, mu, queue, sequence, seqOf, phase, dependsOn, contexts,
                 output, acbContexts, loaded, warm, pending, job, submission>>

StopReturn(c) ==
  /\ client[c] = "stop"
  /\ \A w \in Workers : pc[w] \in {"off", "exited"}
  /\ client' = [client EXCEPT ![c] = "idle"]
  /\ UNCHANGED <<started, stopped, mu, queue, sequence, seqOf, phase, dependsOn, contexts,
                 output, acbContexts, loaded, warm, pending, pc, job, submission>>

-----------------------------------------------------------------------------
(* The specification *)

WorkerStep(w) ==
  \/ TakeLock(w) \/ BlockUnrunnable(w) \/ Exit(w) \/ Park(w)
  \/ BlockUndeliverable(w) \/ Dispatch(w) \/ Load(w) \/ Finish(w) \/ PendingDone(w)

ClientStep(c) ==
  \/ Start(c) \/ SubmitUnlocked(c) \/ SubmitRefused(c) \/ SubmitAccepted(c)
  \/ WaitCall(c) \/ WaitReturn(c) \/ Stop(c) \/ StopReturn(c)

Next ==
  \/ \E w \in Workers : WorkerStep(w)
  \/ \E c \in Clients : ClientStep(c)

Spec == Init /\ [][Next]_vars

\* Goroutines that can run do run, executions end, and a call in progress is
\* carried on with.  Nothing obliges a client to make a call.
Fairness ==
  /\ \A w \in Workers : WF_vars(WorkerStep(w))
  /\ \A c \in Clients : WF_vars(SubmitRefused(c) \/ SubmitAccepted(c))
                        /\ WF_vars(WaitReturn(c)) /\ WF_vars(StopReturn(c))

FairSpec == Spec /\ Fairness
-----------------------------------------------------------------------------
(* What must hold *)

\* Every variable keeps its type.
TypeOK ==
  /\ started \in BOOLEAN
  /\ stopped \in BOOLEAN
  /\ mu \in Workers \cup {NoWorker}
  /\ queue \in Seq(Agents)
  /\ sequence \in Nat
  /\ seqOf \in [Agents -> Nat]
  /\ phase \in [Agents -> Phases]
  /\ dependsOn \in [Agents -> SUBSET Agents]
  /\ contexts \in [Agents -> SUBSET Contexts]
  /\ output \in [Agents -> Outputs]
  /\ acbContexts \in [Agents -> SUBSET Contexts]
  /\ loaded \in [Agents -> SUBSET SUBSET Contexts]
  /\ warm \in SUBSET Contexts
  /\ pending \in Int
  /\ pc \in [Workers -> WorkerStates]
  /\ job \in [Workers -> Agents \cup {NoAgent}]
  /\ client \in [Clients -> {"idle", "submit", "wait", "stop"}]
  /\ submission \in [Clients -> Jobs \cup {NoJob}]

\* An Agent that was ever dispatched has only dependencies that succeeded with a
\* verified output, and they still are: no later step takes that back.
DependencyGate ==
  \A a \in Agents : phase[a] \in {"RUNNING", "SUCCEEDED", "FAILED"}
                      => \A d \in dependsOn[a] : Satisfied(d)

\* A BLOCKED Agent names its reason for good: a dependency that has ended without
\* a verified output, or with one that could not be handed on.
BlockedForAReason ==
  \A a \in InPhase("BLOCKED") :
    \E d \in dependsOn[a] :
      phase[d] \in Terminal /\ (~Satisfied(d) \/ output[d] = "UNENCODABLE")

\* The queue holds exactly the QUEUED Agents, once each, in the order in which
\* their sequence numbers were given out, within its capacity; each Agent waits
\* only for Agents accepted before it, so the graph has no cycle.
QueueMatchesRecords ==
  /\ ToSet(queue) = InPhase("QUEUED")
  /\ Len(queue) <= QueueCapacity
  /\ \A i, j \in DOMAIN queue : i < j => seqOf[queue[i]] < seqOf[queue[j]]
  /\ \A a \in Agents : \A d \in dependsOn[a] : 0 < seqOf[d] /\ seqOf[d] < seqOf[a]

\* A RUNNING Agent is executed by exactly one worker, and a worker executes
\* nothing that is not RUNNING.
OneWorkerPerAgent ==
  /\ \A w \in Workers : pc[w] = "executing" => phase[job[w]] = "RUNNING"
  /\ \A a \in InPhase("RUNNING") :
       Cardinality({w \in Workers : pc[w] = "executing" /\ job[w] = a}) = 1

\* Wait's counter: one for each Agent that has not ended, and one for each worker
\* on its way to pending.Done.  At zero everything accepted has ended.
PendingCountsUnfinished ==
  pending = Cardinality(InPhase("QUEUED")) + Cardinality(InPhase("RUNNING"))
            + Cardinality({w \in Workers : pc[w] = "finished"})

Looking == {w \in Workers : pc[w] \in {"awake", "locked"}}

\* No wake-up is lost: while a worker is parked, there are at least as many
\* workers about to look at the queue as there are ready Agents in it, and at
\* least one if some Agent is to be blocked.
NoLostWakeup ==
  Parked # {} =>
    /\ Cardinality(Runnable) <= Cardinality(Looking)
    /\ (\E i \in DOMAIN queue : Unrunnable(queue[i])) => Looking # {}

\* A started Scheduler never comes to rest over a queue that is not empty: some
\* worker is still busy, whatever the graph and whatever has failed in it.
NoStall ==
  started /\ queue # <<>> =>
    \E w \in Workers : pc[w] \notin {"off", "waiting", "exited"}

\* No two jobs ask for different contexts for one Agent.
RequestsAgree == \A i, j \in Jobs : i.agent = j.agent => i.ctxs = j.ctxs

\* When RequestsAgree, a context is warm exactly when the executor of an Agent that has
\* succeeded has read it from the control block: the registry, fed from the queued job
\* by another lock and another step, holds nothing that only a failed execution has read.
WarmContextsWereLoaded == warm = UNION {UNION loaded[a] : a \in InPhase("SUCCEEDED")}

\* What execute says where it feeds the registry: after a successful execution the
\* requested contexts, those of the queued job and the record, have been loaded.
RequestedContextsWereLoaded ==
  \A a \in InPhase("SUCCEEDED") : contexts[a] \subseteq UNION loaded[a]

\* Under FIFO an Agent that waits for nothing is never overtaken: while it is
\* QUEUED, nothing submitted after it has been dispatched.
FifoIsFair ==
  FifoPolicy =>
    \A a \in InPhase("QUEUED"), b \in Agents :
      dependsOn[a] = {} /\ seqOf[a] < seqOf[b] => phase[b] \in {"QUEUED", "BLOCKED"}

\* What agent.ACB says of Contexts: resolved before the Agent enters the queue, they
\* are the identities that the queued job and the record carry.
ContextsAreAuthoritative ==
  \A a \in Agents : phase[a] # "ABSENT" => acbContexts[a] = contexts[a]

\* The Scheduler does to the records only what DagExecution allows.
Dag == INSTANCE DagExecution WITH Parallelism <- Cardinality(Workers)
ImplementsDag == Dag!Spec

\* Once started, every accepted Agent ends.
AcceptedAgentsEnd ==
  \A a \in Agents : (started /\ phase[a] = "QUEUED") ~> (phase[a] \in Terminal)

\* Failure reaches every transitive dependent, even one whose earlier dependencies
\* are still to end.
FailurePropagates ==
  \A a \in Agents :
    (started /\ \E d \in dependsOn[a] : phase[d] \in {"FAILED", "BLOCKED"})
      ~> (phase[a] = "BLOCKED")

\* Wait returns once the Scheduler is started.
WaitReturns == \A c \in Clients : (client[c] = "wait" /\ started) ~> (client[c] = "idle")

\* Stop drains the queue and joins the workers.
StopJoins ==
  \A c \in Clients :
    (client[c] = "stop") ~> (client[c] = "idle" /\ (started => queue = <<>>))
===============================================================================
