# CAPSuleRT in TLA+

This directory is a TLA+ model of the runtime in `src/` (module path `aegisrt`): its
Scheduler with its policies, its telemetry bus with the `watch` command on top, its store
of contexts with the workspaces made from it, its output transactions, and the runner with
its cgroups. TLC checks the modules on small instances; TLAPS proves every safety property
that they check for every value of the constants.
`PROJECT.json` names, for each definition, the lines of Go it stands for.

## 1. The system

CAPSuleRT runs many Agents (operating system processes) on one machine. A client
submits jobs to the **Scheduler**; worker goroutines take jobs whose dependencies have
delivered, and hand them to a chain of **executors**: workspace, output transaction,
process in a cgroup. What the Scheduler does to its records it publishes on the
**telemetry bus**, from which an HTTP **control API** and `aegisctl` read.

| component | state it keeps | operations | what makes it correct |
|---|---|---|---|
| Scheduler (`internal/scheduler`) | queue, records, sequence, two WaitGroups, a condition variable, `started`, `stopped` | `Start`, `Submit`, `Wait`, `Stop`; `take` and `execute` in each worker | an Agent runs only on verified outputs; failure reaches every dependent; no lost wake-up; `Wait` and `Stop` return |
| Policies (`policy.go`) | none | FIFO, CAPS `Select` | FIFO keeps the order of submission; CAPS does not starve |
| Context registry and resolver (`internal/contextstore`) | warm identities with size, hits | `Add`, `Touch`, `Snapshot`, `Affinity` | only what a success has loaded is warm; reuse never exceeds the request |
| ContextFS store (`internal/contextfs/store.go`) | blobs, metadata, references | `Put`, `Resolve`, `Bind`, `Release`, `GC` | a reference always resolves; blobs do not change; one blob per content |
| ContextFS workspaces (`workspace.go`) | one directory per Agent | `Prepare`, `OpenWorkspace`, `Cleanup`, `CleanupStaging` | a workspace is visible only when complete |
| Output transactions (`internal/outputtxn`) | a staging and a committed directory per execution, a manifest | `Begin`, `Commit`, `Abort`, `Verify` | what is committed is whole, also after a crash; what is verified is what the manifest lists |
| Executors and runner (`internal/runtime`) | the Agent's control block | `Run` | the process tree ends with the Agent; output and workspace follow its outcome |
| Cgroups (`internal/resource`) | a cgroup per Agent | `Create`, `Attach`, `Kill`, `Cleanup` | limits are set before the Agent runs; nothing outlives it |
| Telemetry (`internal/telemetry`) | channel, counters, memory sink, JSONL file | `Publish`, `Close`, `run`, the sinks | no event lost or counted twice; order; `Close` drains and ends |
| Control API and client (`internal/controlapi`, `controlclient`) | none | read-only queries, the events page | the cursor of `watch` skips and repeats nothing |
| Pressure (`internal/pressure`) | none | `Sample` | parses `/proc/pressure` |
| Daemon, CLI, demos, Python workers, systemd units | none | wiring | (not modelled) |

How they interact: the Scheduler calls the executor outside its lock, the verifier after
it, and registry and bus inside the lock; the executors write to the control block that
the Scheduler reads when they return; the Agent's process writes to the staging directory
and may leave processes behind; the bus runs its own goroutine; `watch` polls what the
memory sink still retains.

Hard to test here, and the reason for the properties below (all with their lines under
"hazards" in `PROJECT.json`): a lost `Signal`; workers that all park over a queue in which
nothing can become ready; failure hidden behind an earlier dependency that still runs;
`pending.Done` after the unlock; `Submit` writing to the control block before it has the
lock; how long a policy may let an Agent wait; `close` of a channel with a sender blocked on
it; a sequence number given to an event that is then dropped; a garbage collection between
two steps of another call; a crash, or a failing call, between any two file system calls of
the store, of `Prepare` or of `Commit`; a process that writes while its output is being
hashed, that forks before it is in its cgroup, or that outlives its cgroup's `Cleanup`.

## 2. Plan

Done, in this order: `DagExecution` and `Scheduler`, their proofs; `EventBus` and its
proofs; `EventWatch`; `OutputTxn`; `ContextStore` and `Workspaces` on top of it;
`AgentRunner`; `ContextRegistry`, and `CapsScheduler`, which composes it with `Scheduler`.

The proofs followed their models: those of `Scheduler`, `EventBus`, `ContextStore`,
`Workspaces`, `AgentRunner` and `OutputTxn`; then `Inductions`, and with it what needs sums or
counts: the wake-ups, `LimitsAreKept`, `WatchIsComplete`, and the policies. Of the properties
of the passing runs only liveness has no theorem. What is left out of the models for good, and why, is in section 6.

## 3. The modules and the code

### `DagExecution`, what the Scheduler promises
Only phases, dependencies and outputs: `Accept`, `Begin`, `End`, `Block`. No queue, lock,
worker or client. It says that an Agent begins only on verified outputs, is blocked only
because a dependency cannot deliver, and stays what it has ended as.

### `Scheduler`
State: the fields of `Scheduler` (`started`, `stopped`, `queue`, `sequence`, `pending`), the
fields of `Record` that decide anything (`phase`, `dependsOn`, `contexts`, `output`), of each
control block the contexts (`acbContexts`), what the executor has read there (`loaded`), the
registry as a set (`warm`), and where each goroutine is (`pc`, `job`, `client`, `submission`).

- `take` is split where it loops: `TakeLock`, `BlockUnrunnable` (one round of
  `blockUnrunnableLocked`), then `Exit`, `Park`, `BlockUndeliverable` or `Dispatch`. `s.mu` is
  held throughout, in `mu`; all other critical sections are single actions that need it free.
- `execute` is `Load` (the executor reads the contexts from the control block, without the
  lock), `Finish` (the rest of the executor, the verifier, and the locked tail) and
  `PendingDone`, which is deferred past the unlock. Executor and verifier may answer in any
  way, also with an error after a Commit.
- The contexts are in two places, the queued job with its record, which feeds the registry,
  and the control block, which the executor loads; only a `Submit` that is refused can make
  them differ. Where no job names other contexts for an Agent than an earlier one
  (`RequestsAgree`), what is warm is what was loaded (`WarmContextsWereLoaded`); in general it
  is not (section 4).
- `Submit` is `SubmitUnlocked`, which writes the contexts to the control block before the
  lock, and `SubmitAccepted` or `SubmitRefused`.
- `cond.Signal` wakes one parked worker, any one; `cond.Broadcast` all. A woken worker must
  get the lock again. There are no spurious wake-ups in Go.
- The policy is FIFO, or any choice among the ready entries, which includes CAPS;
  `CapsScheduler` has the scores.
- Agent IDs are numbers, in the order in which `sort.Strings` sorts the dependencies:
  `dependencyStatusLocked` looks at the first unmet one alone.
- `UNENCODABLE` stands for a verification time that `json.Marshal` refuses, the one way in
  which handing over the outputs can fail.

Abstracted: one control block per Agent ID; a critical section is one step; the executor's
reads of the contexts (the length at workspace_executor.go:88, then the slice at 175) are one
`Load`, so a slice that is torn by the unlocked write is left out; texts;
`Snapshot`, `Record` and `Status`, which only read; events, which are published at the end
of a critical section and whose errors are dropped; the misuse of a WaitGroup that is reused
while `Wait` returns.

### `ContextRegistry` and `CapsScheduler`
`ContextRegistry` has the references to contexts and the arithmetic of the registry:
identities, `NormalizeRefs`, requested and reusable bytes, affinity. `CapsScheduler` adds to
`Scheduler` what the policies look at: `policy` (FIFO or CAPS), the time since each Agent
was submitted (`waited`; `asked` while its `Submit` waits for the lock, since the clock is
read before), any pressure sample, and the registry, whose sizes may differ from those that
are requested. Scores are in hundredths, and `Take` is the step of `take` with the choice
that the scores dictate. Every behaviour is one of `Scheduler` with any policy.

### `EventBus`
`Publish` is four actions: number the event under the read lock (`PublishNumber`), send it
(`PublishSend`) or give up when the context ends (`PublishExpire`), count it and unlock
(`PublishReturn`). `Close` asks for the write lock (`CloseCall`), which keeps new readers out
as Go's RWMutex does, closes the channel (`CloseQueue`) and waits for `run` (`CloseReturn`) or
for its context (`CloseExpire`). `run` receives, writes to the memory sink, then to the JSONL
sink, which may fail before or after the line is in the file, and closes the sinks when the
channel is drained. The sinks are those that the programs install, in their order. A torn
line of the file is a line that is not there.

### `EventWatch`
`EventBus` plus the loop of `aegisctl watch`: `Poll` is one successful request, with filter,
page limit and cursor. It assumes publishers that take turns, as the Scheduler's do, since
they publish under `s.mu`; with concurrent publishers the memory sink may be out of sequence
order and the cursor would skip.

### `OutputTxn`
One execution: `Begin`, the Agent (`Write`, `AgentExits`), `Commit` step by step (`List`,
`Inspect`, `Hash`, `EndScan`, `WriteManifest`, `SyncTree`, `Publish`, `Settle`), each of which
may fail instead (`CommitFails`, then `Abort` or retention), then `Verify`. A transaction has a
directory of its own with a random name, so one stands for all.

- `leftover`: processes of the Agent that outlive it, which go on writing, after the rename
  too, since an open directory moves with it.
- Durability: `synced` is the content that `fsync` of the file has saved, `entries` the names
  that `fsync` of the directories has saved, `renamed` the rename. `Crash` may happen
  anywhere, and keeps of everything else any mixture: the old content, a torn one, or none.
  The parent of the Agent's committed directory is never synced by the code, so a crash may
  lose a committed output as a whole; nothing in the repository promises otherwise.
- `Bad` is whatever may not be published: a link, a special file, the reserved name. A link
  that takes the place of an artifact after its inspection is followed: `Hash` records the
  content of its target then (`Readable`), and syncs that, not the artifact. `Verify` looks at
  the artifacts once more and refuses it.
- Hashing is one step, so a digest is that of a content the file had; in the code a digest
  may also be of a mixture, which matches no file and which `Verify` refuses. File modes,
  subdirectories and path checks are left out: they only add reasons to refuse, and
  `CommitFails` and `VerifyFails` may refuse at any time. Nothing but `Commit` writes the
  manifest.

### `ContextStore`
The files of `internal/contextfs/store.go` and the calls of several goroutines on them.
`stored` is the set of files, `loose` those whose directory entry (or its absence) is not
durable, `shards` the shard directories that are; `refs` and `refMay` are what a name refers
to, and may refer to after a crash. The content of a file is synced before a link or a
rename shows it, so a file is whole or not there.

- A call is a step of its own without the lock (`CallPut`: hash and temporary file), then
  critical sections under `s.mu` (`lock`), one action per file system call that can be
  interrupted, then for `OpenObject` an open without the lock again.
- `Put`: `Publish`, `SyncShard` or `Deduplicate`, then `EnsureMetadata`. `Resolve` and `Bind`
  start with `Find`, and end in `OpenObject` or `WriteReference`, `SyncReferences`. `GC`:
  `GCList`, then per object `GCRemoveBlob`, `GCRemoveMetadata`.
- `Fails` ends a call anywhere, `Kill` all of them; `Crash` also lets every entry in `loose`
  be there or not, and each name refer to anything in `refMay`.
- `unsynced` is a history: the digests in an entry whose sync somebody failed to do. A later
  `Put` that finds the blob there does not sync it either (store.go:211), nor is the entry of
  a shard directory that `MkdirAll` has just made ever synced; after a crash such an object
  may be gone. `BoundIsStored` says that nothing else is ever lost.

### `Workspaces`
`ContextStore` with the `WorkspaceManager` and the `WorkspaceExecutor`: `Prepare` object by
object (`PrepareBegin`, `Resolve`, `Copy`), the two manifests with the rename between them
(`PersistManifest`, `PublishWorkspace`, `SettleRoot`, `Finish`), each of which may fail; the
execution; `Cleanup` file by file; `CleanupStaging`; kills and crashes. `abandoned` and `torn`
are histories of workspaces that a failed `Prepare`, a kill or a crash has left. Requests are
those that the executor builds, a read-only and a private copy of each context.

Two things that a reader of the code may not expect. When the sync of the root fails,
`Prepare` returns an error and leaves the workspace, which makes every later `Prepare` for
that ID fail. And between the rename and the second manifest the workspace is visible with a
manifest that names the staging directory, and stays so after a kill at that point.
`WorkspaceIsWhole` and `RemainderIsReported` except such a workspace (`abandoned`), which
the comment at workspace.go:115, that `Prepare` is atomic, does not (section 4).

### `AgentRunner`
`Runner.Run` with `Create`, `Attach`, `Kill` and `Cleanup` of its cgroup, for several Agents,
and the processes: `Fork`, `End`, who is in the cgroup, who holds the Runner's pipe. `cmd.Wait`
is a condition (`Waited`): the process has ended, and everybody who holds the pipe, unless the
log could not be written and the pipe is closed (`CopyFails`, `broken`): then `Wait` returns
with that error, and the Agent has failed. Two IDs may be sanitized to one cgroup name; the
removal of a cgroup may fail, in `Cleanup` and after a limit that cannot be set
(`CreateFails`), and the name stays taken. Killing is sending a signal; the process ends
later, or has ended before.

README.md:76 says that after a timeout or a failure the Runtime cleans up the whole process
tree with `cgroup.kill`. After a failure it does not (`FailureKillsTree`, section 4): what
an Agent that has failed leaves behind goes on, though confined to its own cgroup
(`SurvivorsAreConfined`).

README.md:705 says that the whole process tree is cleaned up after a timeout. That is so for
the processes in the cgroup: a child forked between `Start` and `Attach`, and every child
with `-disable-cgroup`, is not in it, goes on, and if it holds the pipe keeps `Run` from
returning. `TreeIsKilled` and `TimedOutRunReturns` state it with that exception.

## 4. The runs

| run | instance | what it shows | distinct states |
|---|---|---|---|
| `scheduler_graphs` | every graph on 3 Agents, submitted in every order, 2 workers, 1 client, queue of 2, any policy | `DependencyGate`, `BlockedForAReason`, `NoLostWakeup`, `NoStall`, and `ImplementsDag` | 652,153 |
| `scheduler_clients` | 3 Agents, the first of which waits for the two others, each with a context of its own, 2 workers, 2 racing clients, queue of 2, FIFO, fair | `QueueMatchesRecords`, `OneWorkerPerAgent`, `PendingCountsUnfinished`, `FifoIsFair`, `WarmContextsWereLoaded`, `AcceptedAgentsEnd`, `FailurePropagates`, `WaitReturns`, `StopJoins` | 159,537 |
| `bus` | 2 publishers, 2 closers, channel of 2, retention 2, 4 events | `NoSendOnClosed`, `EventsAreAccounted`, `CloseDrains`, `MemoryIsTailOfLog`, `PublisherOrder` | 176,869 |
| `watch` | 1 publisher, 2 closers, 2 kinds, page of 1, retention 2, 3 events, fair | `WatchIsComplete`, `WatchCatchesUp`, `CloseEnds` | 32,282 |
| `outputs` | 3 paths, 2 files and 3 bytes allowed, contents of size 1, 1 and 2 | `PublishedIsWhole`, `VerifiedIsWhole`, `LimitsAreKept` | 560,515 |
| `contextfs` | 1 goroutine that executes an Agent, 1 that calls the store, 1 digest, 1 name, `retain-on-failure` | `BoundIsStored`, `OnlyGarbageIsRemoved`, `WorkspaceIsWhole`, `RemainderIsReported` | 837,878 |
| `runner` | 2 Agents with one cgroup name, one with two children and one with one, fair | `GroupIsPrivate`, `TreeIsKilled`, `SurvivorsAreConfined`, `CompletedIsSilent`, `TimedOutRunReturns` | 398,544 |
| `scheduler_policies` | 2 heavy Agents and a light one, two of which share a context, 1 worker, 2 racing clients, queue of 2, 3 pressure samples, time in steps of 150 s, FIFO and CAPS | `OvertakingIsBounded` | 1,463,688 |

`TypeOK` of each module is checked with the first run of that module (`StoreTypeOK` as part of
that of `Workspaces`). Each property of these
runs has a mutant of the code in `PROJECT.json` that violates it.

Why the bounds are enough. Three Agents are the least with a dependency of a dependency, and
with one unmet dependency in front of another (`Joined`); two workers the least of which one can be
parked while the other works; two clients the least that race: duplicates for the check and
the lock, `Stop` with the other's `Submit` and `Start`, and in `scheduler_policies` the clock
with the lock. A queue of two has an order, and is full in many states. Two publishers, a channel of two and four events fill the channel, overrun
the retention and leave a publisher blocked while Close waits. Three artifacts are one more
than the limit, and contents of equal and of different size tell a digest from a size.
One digest and one name are enough for the store, whose
objects meet only in the lock and in what GC lists; two goroutines are the least of which
one collects what the other has just found. Two children are a child and one that it, or its
parent, forks after the move into the cgroup; two Agents are the least that can share a
cgroup, and the second needs one child only, since it meets the first through the cgroup.
Workers, clients, publishers and artifacts are interchangeable, which `scheduler_graphs`,
`bus`, `outputs`, `scheduler_policies` and `scheduler_loaded` use as symmetry; no run with a
liveness property does.
Two steps of 150 s reach the end of the age bonus, so every order of partial and full bonus
occurs. `MaxSequence` bounds how many events are numbered; it is the only bound that the
code does not have. Graphs, sizes and counts beyond these are covered by the proofs where there are
proofs.

`contextfs` checks that there is no deadlock. The others do not: a client may `Wait` on a
Scheduler that nobody starts, a closed bus stops, and so do a finished transaction and an
Agent whose `Run` has returned. `NoStall`, `NoLostWakeup` and the liveness
properties say which standstills may not happen.

### Fairness
`Scheduler`: weak fairness of each worker's steps (goroutines that can run do run; executions
end, because they run under a timeout and the runner kills the process; the exception that
`TimedOutRunReturns` names, a process outside the cgroup that holds the pipe, is excluded), and of the end of a
call in progress. No client is obliged to call anything; every liveness property is
conditional on `started` where a worker is needed. A goroutine that waits for `s.mu` may be
overtaken any number of times: weak fairness promises it the lock only if the lock stays free,
which is less than Go's mutex does. `EventBus`: weak fairness of `run`, of a publisher's send and
return, and of Close; contexts need not end. `EventWatch` adds weak fairness of the polling
loop. `AgentRunner`: a killed process ends, and a `Run` that has begun goes on when it can; no
Agent need end by itself, and no context need end.

### Where the code and its documents disagree
Four runs end in a violation, of what a document or a comment says:

- `scheduler_loaded`: the comment at scheduler.go:673 says that a success means that the
  requested contexts were loaded, which is why they become warm; the executor loads those of
  the control block, and a `Submit` that was refused may have replaced them there
  (scheduler.go:285, workspace_executor.go:88, 175).
- `runner_failure`: README.md:76 promises `cgroup.kill` for the whole process tree after a
  failure; after a nonzero exit code nothing is killed (runner.go:143), and `Cleanup`
  (cgroup.go:207) waits and gives up.
- `bus_sequence`: README.md:272 calls the sequence contiguous; a Publish whose context ends has
  used a number up (bus.go:109, 128).
- `outputs_failure`: README.md:711 says that a failed execution publishes nothing; if the sync
  of the parent directory fails, the rename has been done and Abort cannot undo it
  (manager.go:311).

Met while modelling, without a run of their own: README.md:202 counts commit and verification
into success, but an execution without a committed output is SUCCEEDED without them
(scheduler.go:571, 671); `agent/model.go:42` calls the contexts in the control block
authoritative, which they are only if all jobs for an Agent name the same
(`ContextsAreAuthoritative`, theorem `AgreedContextsAreAuthoritative`); workspace.go:115 calls
`Prepare` atomic, but an error or a kill after the rename (workspace.go:266, 273) leaves a
workspace that nobody cleans up (`abandoned`); README.md:705, quoted under `AgentRunner`; and the limit of CAPS. Its age bonus ends at 3 (300 s at the default rate), while demand and affinity
can make a difference of up to 3.35: of two Agents that have both waited for 300 s the
lighter one always goes first, however much longer the other has waited, so a stream of
light Agents that wait that long starves a heavy one. `TestCAPSAgingPreventsStarvation`
(policy_test.go:102) tests a difference that the bonus outweighs. `OvertakingIsBounded` states
what does hold.

## 5. The proofs

The proofs hold for any value of the constants, from the named assumptions of the modules:
IDs are ordered numbers, Agents, workers and publishers finitely many, capacities and limits
positive, the sentinels different from real values, Agents clients of the store with
contexts that have digests. For the policies: demands are percentages (`Demand.Validate`
refuses others) and so are the averages that the kernel reports, time does not run
backwards, and contexts are finitely many references that `NormalizeRefs` does not refuse.
Each proof is an inductive
invariant in named parts, one lemma for each part, one step for each action.

| module | about |
|---|---|
| `Inductions` | induction, and the sums of the community modules |
| `SchedulerProofs` | `Scheduler` and its implementation of `DagExecution` |
| `CapsSchedulerProofs` | `CapsScheduler` and `ContextRegistry` |
| `EventBusProofs` | `EventBus` and `EventWatch` |
| `OutputTxnProofs`, `ContextStoreProofs`, `WorkspacesProofs`, `AgentRunnerProofs` | the module of that name |

**Induction and sums.** The library states induction with an operator as a parameter, which
the provers cannot instantiate. `Inductions` states it with a set instead, the set of what has
the property, which they can: over the naturals (`Induction`) and over finite sets
(`FiniteInduction`), both from the well-foundedness of `<`. From it follows that the recursive
function behind `SumFunction` exists and does not depend on the order of addition, and hence
what the models need: a sum of larger addends is larger, of sums, of subsets, of one element
more or less. `Scheduler` counts with cardinalities, `OutputTxn` and `ContextRegistry` with
these sums, and the loop of the events handler in `EventWatch` is a function on the naturals.

**Scheduler.** `SchedulerTypes` proves `TypeOK`, with one addition: a client inside `Submit`
has a job in hand. The inductive invariant `SafetyInv` has three more parts.

- `LockSound`: a worker is "locked" exactly when it is the one in `mu`.
- `LifecycleSound`: workers are off until `Start`, and exit only once stopped.
- `RecordsSound`: the queue holds the QUEUED Agents, each once, in the order of their sequence
  numbers, and within its capacity (`QueueSound`); sequence numbers are positive exactly for
  accepted Agents and rise along dependencies (`SequenceSound`); executing workers and
  RUNNING Agents match (`ExecutionSound`); and `DependencyGate` and `BlockedForAReason`.

`DependencyGate` is not inductive alone: a step that ends an Agent must not be able to take a
dependency's success back, which needs that only RUNNING Agents are executed, and `Submit`
must not touch the dependencies of an Agent that exists. From `SafetyInv` follow
`DependencyGateHolds`, `BlockedForAReasonHolds`, `QueueMatchesRecordsHolds`,
`OneWorkerPerAgentHolds` and, step by step,
`SchedulerImplementsDag`: each action is one of `DagExecution` or a stutter. The bound on how
many Agents run comes from the injection of RUNNING Agents into workers (`RunningBound`).

On top of `SafetyInv`, `StepKinds` sorts the steps by what they do to the records, and
`PendingCountsUnfinishedHolds` (each step moves one Agent or one worker from one of the three
counted sets to another or out, as it changes `pending`)
and `FifoIsFairHolds` go through them. `WarmMatchesRecords` says that the registry holds the
contexts in the records of the Agents that succeeded. That these were loaded is not so in
general; `AgreedContextsAreAuthoritative` and `WarmContextsWereLoadedHolds` prove it from the
condition `RequestsAgree`, that no two jobs for one Agent name different contexts: then
control block, job and record of an Agent agree in every state, whoever submits what and
whatever is refused (`LoadedSound`). `NoLostWakeup` counts positions in the queue; its
inductive form `LookingSound` counts the QUEUED and ready Agents instead. A `Dispatch` removes
one of them and one worker that looks, a `SubmitAccepted` adds at most one and wakes one, and
whatever makes several ready at once, the end of an execution or a block, wakes everybody.
`NoStallHolds` follows a failing chain to its start: the unmet dependency of the first
entry of the queue that a worker has looked at is not in the queue, hence RUNNING, hence
some worker executes it.

**Policies.** `CapsImplementsScheduler`: each step of `CapsScheduler` is one of `Scheduler` or
leaves its variables, so `SafetyInv` and all of the above hold with the policies. Only
`CapsTyping` is added, that no waiting time passes the bonus. `OvertakingIsBoundedHolds`
then needs five facts. Only `take` sends an Agent to a worker, the one selected
(`SelectedRuns`). The selection is well defined, with a least score and among equal ones a
least sequence number (`SelectIsPreferred`). A clamped pressure times a demand, divided and
truncated, differs between two Agents by no more than their demands (`ChargeBound`), and so
do the sums (`PenaltyBound`). What is reusable is at most what is requested, reference by
reference after normalization, so affinity is between 0 and its weight (`AffinityBound`).
And an Agent that waits for nothing is a candidate.

**Bus.** `Accounting` (no publisher inside a closed bus, every event in one place, and a `run`
that is done has left nothing) gives `NoSendOnClosedHolds`, `EventsAreAccountedHolds` and
`CloseDrainsHolds`. `MemoryFollowsLog` compares memory with the log as it will be once the
event in hand is written, and gives `MemoryIsTailOfLogHolds`. `Chain` orders the events from
the log over `run` and the channel to the publishers that still have theirs in hand, and gives
`PublisherOrderHolds`.

**Watch.** `WatchIsCompleteHolds` has a hypothesis that the model of the bus does not have and
the program does: at most one `Publish` is under way at a time (`TakeTurns`). The only call of
`Publish` is in `emitPayload` (scheduler/events.go:142), which the Scheduler calls with `s.mu`
held. `WatchOfOnePublisher` is the case that TLC checks. The invariant `InLine` puts the
events in one line by their numbers: printed, retained, in `run`, in the channel, in the
publisher's hand; what has not reached the sink is ahead of the cursor
(`ChannelInLine`, `DeliveryInLine`, `SendersInLine`), and what the sink still has up to
the cursor was printed (`PrintedSound`). `MatchingIsSelection` proves, by induction, that the
handler's loop returns the wanted events after the cursor, in order, each once.

**Store and workspaces.** `BoundIsStored` needs to know what a crash may leave, so the
invariant of `ContextStoreProofs` says it ahead of the crash: whatever a name may refer to
after it is stored and durable, or in `unsynced` (`BoundIsDurable`). That is kept because a
file that is there but not durable is in `unsynced` or is just being synced under the lock
(`LooseSound`), what a name may refer to is what it does refer to unless the references are
just being synced (`NamesSound`), and GC therefore knows every reference that matters
(`CollectSound`). `WorkspacesUseStore` shows that the manager and the executor touch the store
only through its calls, which carries these results over. `WorkspacesProofs` adds for each
stage of an execution what is staged (`StagingSound`), what is visible (`RootSound`) and what
has been reported (`ReportSound`), and that m.mu has one holder (`ManagerLockSound`).

**Runner.** An Agent's cgroup is in `groups` from `Create` until `Cleanup` finds it empty
(`RunHasGroup`, `SurvivorsAreConfined`), and `os.Mkdir` lets one Agent have a name at a time
(`GroupsDiffer`); so a kill of the cgroup reaches all members of the Agent's tree, and what
is forked later comes from a process that it has missed. `CompletedSound` holds because
nobody writes to the pipe who has not inherited it, and a pipe that breaks after the Agent's
end no longer matters.

**Output transactions.** `RecordSound` says, as long as no process was left behind, what is
recorded at each stage: the digests of what has been scanned, all of it when the manifest is
written, synced and with its entries durable when it is renamed. A crash in any later stage
then leaves what the manifest lists. `LimitsSound` says that `total` is the sum of the sizes
recorded so far, that a file in hand has room, and that nothing is recorded twice;
`LimitsAreKeptHolds` follows, though an artifact may change its size between the inspection
that counts it and the hash that records it.

**Only model-checked.** Liveness, under fairness: `AcceptedAgentsEnd`, `FailurePropagates`,
`WaitReturns`, `StopJoins`, `WatchCatchesUp`, `CloseEnds` and `TimedOutRunReturns`. It is out of
the prover's reach, which has no rule for fairness or ENABLED. `NoStall` and `NoLostWakeup`
are the safety half of the first four. Every other property of the passing runs has its theorem.

## 6. Not modelled

- Store: contents and metadata fields, and damage to them, which the calls that read them refuse;
  a second process over the same root, which `s.mu` does not exclude; temporary files that a
  kill leaves, which nothing reads.
- Workspaces: what the Agent writes into its workspace; a workspace whose removal was not
  synced and that comes back after a crash; validation of names and requests, which those of
  the executor always pass.
- Runner and cgroups: `Initialize`, which runs once before anything else; the values of limits
  and of the accounting; log lines.
- Scheduler: the queries, which only read; the events, which have no state and whose errors
  nobody reads: `EventBus` says what becomes of them. How long a full bus holds up `s.mu` is
  time, which the models do not measure.
- Pressure sampling parses `/proc/pressure`; the models let a sample be anything.
- HTTP and JSON formatting, metrics, flags and wiring, the demos, the Python Agents and the
  systemd units, which have no state of the runtime's own.
