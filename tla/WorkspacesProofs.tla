----------------------------- MODULE WorkspacesProofs -----------------------------
(***************************************************************************)
(* The safety of Workspaces for any Agents, contexts, names and clients:   *)
(* the manager and the executor use the store as ContextStore says, and    *)
(* workspaces are whole and reported.                                      *)
(***************************************************************************)
EXTENDS Workspaces, ContextStoreProofs

\* The call that an Agent's goroutine is in fits what it does.
AgentCalls ==
  \A a \in Agents :
    /\ stage[a] \notin {"idle", "resolving"} => at[a] = "idle"
    /\ stage[a] = "resolving" => at[a] \in {"idle", "resolve", "resolveMeta", "open"}

Stages == {"idle", "filling", "resolving", "publishing", "settling", "finishing", "run",
           "cleanup", "removing"}
Filling == {"filling", "resolving"}
Staging == Filling \cup {"publishing"}
Managing == Staging \cup {"settling", "finishing", "removing"}

ExecutionTypes ==
  /\ stage \in [Agents -> Stages]
  /\ todo \in SUBSET UNION {Requests(a) : a \in Agents}
  /\ staging \in SUBSET UNION {Whole(a) : a \in Agents}
  /\ root \in [Agents -> {NoWorkspace} \cup UNION {Directories(a) : a \in Agents}]
  /\ mlock \in Agents \cup {Free}
  /\ stale \in BOOLEAN
  /\ told \in [Agents -> BOOLEAN]
  /\ abandoned \in SUBSET Agents
  /\ torn \in SUBSET Agents

\* Prepare and the removal hold m.mu.
ManagerLockSound == \A a \in Agents : stage[a] \in Managing <=> mlock = a

\* What is staged and what is still to do make the whole workspace of whoever prepares.
StagingSound ==
  /\ (\A a \in Agents : stage[a] \notin Staging) => staging = {}
  /\ \A a \in Agents :
       /\ stage[a] \in Filling => todo \cup staging = Requests(a)
       /\ stage[a] = "publishing" => staging = Whole(a)

\* What each stage says about the workspace.
RootSound ==
  \A a \in Agents :
    /\ stage[a] \in Staging => root[a] = NoWorkspace
    /\ stage[a] \in {"settling", "finishing"} => root[a] = [parts |-> Whole(a), final |-> FALSE]
    /\ stage[a] = "run" => root[a] = [parts |-> Whole(a), final |-> TRUE]
    /\ root[a] # NoWorkspace /\ a \notin torn => root[a].parts = Whole(a)
    /\ OpenWorkspace(a) /\ ~root[a].final
         => stage[a] \in {"settling", "finishing"} \/ a \in abandoned

\* From the run of an Agent on its workspace is reported or was abandoned.
ReportSound ==
  \A a \in Agents :
    stage[a] \in {"idle", "run", "cleanup", "removing"} /\ root[a] # NoWorkspace
      => told[a] \/ a \in abandoned

ExecutionInv ==
  /\ ExecutionTypes
  /\ ManagerLockSound
  /\ StagingSound
  /\ RootSound
  /\ ReportSound

WorkspaceInv == StoreInv /\ AgentCalls /\ ExecutionInv

-----------------------------------------------------------------------------
(* The store is used as it is meant to be *)

\* A step of the store's own, taken by a client that may take it.
StoreStep ==
  /\ \E c \in Clients :
       \/ (c \in Agents => stage[c] = "idle") /\ Call(c)
       \/ Step(c) /\ (c \in Agents /\ stage[c] = "resolving" => ~OpenObject(c))
  /\ UNCHANGED execution

LEMMA SplitNext ==
  ASSUME Next
  PROVE  \/ StoreStep \/ CleanupStaging \/ KillAll \/ CrashAll
         \/ \E a \in Agents : Prepare(a) \/ Run(a) \/ Reclaim(a) \/ Cleanup(a)
BY DEF Next, StoreStep

\* What Return does to a client that is in no call.
LEMMA ReturnIdle ==
  ASSUME StoreInv, NEW c \in Clients, at[c] = "idle", Return(c)
  PROVE  UNCHANGED call
BY DEF StoreInv, StoreTypeOK, CallSound, Return, Enter, call

\* Every step of the manager and the executor is one of the store, or leaves it alone.
LEMMA StoreStepSimulation ==
  ASSUME WorkspaceInv, [Next]_allVars
  PROVE  [StoreNext]_storeVars
<1> USE AgentsAreClients DEF WorkspaceInv, AgentCalls
<1>1. CASE StoreStep
  BY <1>1 DEF StoreStep, StoreNext
<1>2. ASSUME NEW a \in Agents, Resolve(a)  PROVE StoreNext
  <2>1. PICK r \in todo : Enter(a, "resolve", r[2], NoName)
    BY <1>2 DEF Resolve
  <2>2. PICK b \in Agents : r \in Requests(b)
    BY <2>1 DEF ExecutionInv, ExecutionTypes
  <2>3. r[2] \in Digests
    BY <2>2, SomeContexts DEF Requests
  <2>4. CallResolve(a)
    BY <2>1, <2>3 DEF CallResolve
  <2>5. at[a] = "idle" /\ UNCHANGED <<lock, live, disk>>
    BY <1>2 DEF Resolve
  <2>6. Call(a)
    BY <2>4, <2>5 DEF Call
  <2> QED
    BY <2>6 DEF StoreNext
<1>3. ASSUME NEW a \in Agents, Copy(a)  PROVE StoreNext
  <2>1. OpenObject(a)
    BY <1>3 DEF Copy, OpenObject
  <2> QED
    BY <2>1 DEF StoreNext, Step
<1>4. ASSUME NEW a \in Agents, PrepareFails(a)  PROVE [StoreNext]_storeVars
  <2>1. Return(a) /\ UNCHANGED <<lock, live, disk>> /\ at[a] \in {"idle", "open"}
    BY <1>4 DEF PrepareFails
  <2>2. CASE at[a] = "idle"
    <3>1. UNCHANGED call
      BY <2>1, <2>2, ReturnIdle
    <3> QED
      BY <2>1, <3>1 DEF call, disk, storeVars
  <2>3. CASE at[a] = "open"
    <3>1. OpenObject(a)
      BY <2>1, <2>3 DEF OpenObject
    <3> QED
      BY <3>1 DEF StoreNext, Step
  <2> QED
    BY <2>1, <2>2, <2>3
<1>5. ASSUME NEW a \in Agents,
             \/ PrepareBegin(a) \/ PersistManifest(a) \/ PublishWorkspace(a) \/ SettleRoot(a)
             \/ SettleFails(a) \/ Finish(a) \/ FinishFails(a) \/ Run(a) \/ Reclaim(a) \/ Cleanup(a)
      PROVE  UNCHANGED storeVars
  BY <1>5 DEF PrepareBegin, PersistManifest, PublishWorkspace, SettleRoot, SettleFails, Finish,
     FinishFails, Run, Reclaim, Cleanup, CleanupBegin, RemovePart, CleanupEnd, CleanupFails
<1>6. CASE CleanupStaging
  BY <1>6 DEF CleanupStaging
<1>7. CASE KillAll \/ CrashAll
  BY <1>7 DEF KillAll, CrashAll, StoreNext
<1>8. CASE UNCHANGED allVars
  BY <1>8 DEF allVars
<1> QED
  BY <1>1, <1>2, <1>3, <1>4, <1>5, <1>6, <1>7, <1>8, SplitNext DEF Prepare

LEMMA AgentCallsPreserved ==
  ASSUME WorkspaceInv, [Next]_allVars
  PROVE  AgentCalls'
<1> USE AgentsAreClients DEF WorkspaceInv, AgentCalls, ExecutionInv, ExecutionTypes, Stages,
        Enter, Goto, Return, Move
<1>0. at \in [Clients -> {"idle", "put", "sync", "putMeta", "resolve", "resolveMeta", "open",
                         "bind", "bindMeta", "bindRef", "release", "syncRefs", "gc", "walk",
                         "collect"}]
  BY DEF StoreInv, StoreTypeOK
<1>1. CASE StoreStep
  <2>1. PICK c \in Clients :
          \/ (c \in Agents => stage[c] = "idle") /\ Call(c)
          \/ Step(c) /\ (c \in Agents /\ stage[c] = "resolving" => ~OpenObject(c))
    BY <1>1 DEF StoreStep
  <2>2. stage' = stage
    BY <1>1 DEF StoreStep, execution
  <2>3. \A b \in Clients : b # c => at'[b] = at[b]
    BY <2>1, OthersStay
  <2>4. CASE c \notin Agents
    BY <2>2, <2>3, <2>4
  <2>5. CASE c \in Agents /\ stage[c] = "idle"
    BY <2>2, <2>3, <2>5
  <2>6. CASE c \in Agents /\ stage[c] # "idle"
    <3>1. Step(c) /\ at[c] # "idle"
      BY <2>1, <2>6 DEF Step, Publish, SyncShard, Deduplicate, Find, EnsureMetadata,
         EnsureMetadataFails, OpenObject, WriteReference, RemoveReference, SyncReferences, GCList,
         GCRemoveBlob, GCRemoveMetadata, GCEnd, Fails
    <3>2. stage[c] = "resolving" /\ at[c] \in {"resolve", "resolveMeta", "open"}
      BY <2>6, <3>1
    <3>3. Find(c) \/ EnsureMetadata(c) \/ EnsureMetadataFails(c) \/ Fails(c)
      BY <2>1, <2>6, <3>1, <3>2 DEF Step, Publish, SyncShard, Deduplicate, WriteReference,
         RemoveReference, SyncReferences, GCList, GCRemoveBlob, GCRemoveMetadata, GCEnd
    <3>4. at'[c] \in {"idle", "resolveMeta", "open"}
      <4>1. CASE Find(c)
        BY <1>0, <3>2, <4>1 DEF Find
      <4>2. CASE EnsureMetadata(c)
        BY <1>0, <3>2, <4>2 DEF EnsureMetadata, AfterMetadata
      <4>3. CASE EnsureMetadataFails(c) \/ Fails(c)
        BY <1>0, <4>3 DEF EnsureMetadataFails, Fails
      <4> QED
        BY <3>3, <4>1, <4>2, <4>3
    <3> QED
      BY <2>2, <2>3, <3>2, <3>4
  <2> QED
    BY <2>4, <2>5, <2>6
<1>2. ASSUME NEW a \in Agents, Resolve(a) \/ Copy(a) \/ PrepareFails(a)  PROVE AgentCalls'
  BY ZenonT(30), <1>0, <1>2 DEF Resolve, Copy, PrepareFails
<1>3. ASSUME NEW a \in Agents,
             \/ PrepareBegin(a) \/ PersistManifest(a) \/ PublishWorkspace(a) \/ SettleRoot(a)
             \/ SettleFails(a) \/ Finish(a) \/ FinishFails(a) \/ Run(a) \/ Reclaim(a) \/ Cleanup(a)
      PROVE  AgentCalls'
  <2>1. at' = at
    BY <1>3 DEF PrepareBegin, PersistManifest, PublishWorkspace, SettleRoot, SettleFails, Finish,
       FinishFails, Run, Reclaim, Cleanup, CleanupBegin, RemovePart, CleanupEnd, CleanupFails,
       storeVars
  <2>2. \A b \in Agents : b # a => stage'[b] = stage[b]
    BY <1>3 DEF PrepareBegin, PersistManifest, PublishWorkspace, SettleRoot, SettleFails, Finish,
       FinishFails, Run, Reclaim, Cleanup, CleanupBegin, RemovePart, CleanupEnd, CleanupFails
  <2>3. at[a] = "idle" /\ stage'[a] # "resolving"
    BY <1>3 DEF PrepareBegin, PersistManifest, PublishWorkspace, SettleRoot, SettleFails, Finish,
       FinishFails, Run, Reclaim, Cleanup, CleanupBegin, RemovePart, CleanupEnd, CleanupFails
  <2> QED
    BY <2>1, <2>2, <2>3
<1>4. CASE CleanupStaging
  BY <1>4 DEF CleanupStaging, storeVars
<1>5. CASE KillAll \/ CrashAll
  BY <1>5 DEF KillAll, CrashAll, ExecutionStopped, Kill, Crash, Stopped
<1>6. CASE UNCHANGED allVars
  BY <1>6 DEF allVars, storeVars, execution
<1> QED
  BY <1>1, <1>2, <1>3, <1>4, <1>5, <1>6, SplitNext DEF Prepare

-----------------------------------------------------------------------------
(* Each part about the execution is kept by every step *)

LEMMA InitWorkspaceInv == Init => WorkspaceInv
<1> SUFFICES ASSUME Init PROVE WorkspaceInv
  OBVIOUS
<1> USE AgentsAreClients, StoreSentinels DEF Init
<1>1. StoreInv
  BY InitStoreInv
<1>2. AgentCalls
  BY DEF StoreInit, AgentCalls
<1>3. ExecutionTypes /\ ManagerLockSound /\ StagingSound
  BY DEF ExecutionTypes, Stages, ManagerLockSound, StagingSound, Managing, Staging, Filling
<1>4. RootSound /\ ReportSound
  BY DEF RootSound, ReportSound, Staging, Filling, NoWorkspace, OpenWorkspace
<1> QED
  BY <1>1, <1>2, <1>3, <1>4 DEF WorkspaceInv, ExecutionInv

\* Steps of the store, and no step at all, leave the execution alone.
LEMMA ExecutionUnchanged ==
  ASSUME ExecutionInv, UNCHANGED execution
  PROVE  ExecutionInv'
BY DEF ExecutionInv, execution, ExecutionTypes, ManagerLockSound, StagingSound, RootSound,
   ReportSound, OpenWorkspace

LEMMA ExecutionTypesPreserved ==
  ASSUME WorkspaceInv, Next
  PROVE  ExecutionTypes'
<1> USE DEF WorkspaceInv, ExecutionInv, ExecutionTypes, Stages, Move
<1>1. CASE StoreStep
  BY <1>1 DEF StoreStep, execution
<1>2. ASSUME NEW a \in Agents, PrepareBegin(a)  PROVE ExecutionTypes'
  BY <1>2 DEF PrepareBegin
<1>3. ASSUME NEW a \in Agents, Resolve(a)  PROVE ExecutionTypes'
  BY <1>3 DEF Resolve
<1>4. ASSUME NEW a \in Agents, Copy(a)  PROVE ExecutionTypes'
  <2>1. PICK r \in todo : todo' = todo \ {r} /\ staging' = staging \cup {r}
    BY <1>4 DEF Copy, Materialized
  <2>2. staging' \in SUBSET UNION {Whole(b) : b \in Agents}
    BY <2>1 DEF Whole
  <2> QED
    BY <1>4, <2>1, <2>2 DEF Copy
<1>5. ASSUME NEW a \in Agents, PersistManifest(a)  PROVE ExecutionTypes'
  BY <1>5 DEF PersistManifest, Whole
<1>6. ASSUME NEW a \in Agents, PrepareFails(a)  PROVE ExecutionTypes'
  BY <1>6 DEF PrepareFails
<1>7. ASSUME NEW a \in Agents, PublishWorkspace(a)  PROVE ExecutionTypes'
  <2>1. staging = Whole(a)
    BY <1>7 DEF PublishWorkspace, StagingSound
  <2>2. [parts |-> staging, final |-> FALSE] \in Directories(a)
    BY <2>1 DEF Directories
  <2> QED
    BY <1>7, <2>2 DEF PublishWorkspace
<1>8. ASSUME NEW a \in Agents, SettleRoot(a) \/ SettleFails(a) \/ Run(a) \/ Reclaim(a)
                               \/ CleanupBegin(a) \/ CleanupFails(a)
      PROVE ExecutionTypes'
  BY <1>8 DEF SettleRoot, SettleFails, Run, Reclaim, CleanupBegin, CleanupFails
<1>9. ASSUME NEW a \in Agents, Finish(a)  PROVE ExecutionTypes'
  <2>1. root[a].parts = Whole(a)
    BY <1>9 DEF Finish, RootSound
  <2>2. [parts |-> root[a].parts \cup {Manifest}, final |-> TRUE] \in Directories(a)
    BY <2>1 DEF Directories, Whole
  <2> QED
    BY <1>9, <2>2 DEF Finish
<1>10. ASSUME NEW a \in Agents, FinishFails(a)  PROVE ExecutionTypes'
  <2>1. root[a].parts = Whole(a)
    BY <1>10 DEF FinishFails, RootSound
  <2>2. \A left \in SUBSET root[a].parts, final \in BOOLEAN :
          [parts |-> left, final |-> final] \in Directories(a)
    BY <2>1 DEF Directories
  <2> QED
    BY <1>10, <2>2 DEF FinishFails
<1>11. ASSUME NEW a \in Agents, RemovePart(a)  PROVE ExecutionTypes'
  <2>1. PICK q \in root[a].parts : root' = [root EXCEPT ![a].parts = @ \ {q}]
    BY <1>11 DEF RemovePart
  <2>2. PICK b \in Agents : root[a] \in Directories(b)
    BY <2>1 DEF NoWorkspace
  <2>3. [root[a] EXCEPT !.parts = @ \ {q}] \in Directories(b)
    BY <2>2 DEF Directories
  <2>4. root' \in [Agents -> {NoWorkspace} \cup UNION {Directories(e) : e \in Agents}]
    BY <2>1, <2>3
  <2> QED
    BY <1>11, <2>4 DEF RemovePart
<1>12. ASSUME NEW a \in Agents, CleanupEnd(a)  PROVE ExecutionTypes'
  BY <1>12 DEF CleanupEnd
<1>13. CASE CleanupStaging
  BY <1>13 DEF CleanupStaging
<1>14. CASE KillAll
  <2>1. stale' \in BOOLEAN
    BY <1>14 DEF KillAll, Staged
  <2> QED
    BY <1>14, <2>1 DEF KillAll, ExecutionStopped
<1>15. CASE CrashAll
  <2>1. stale' \in BOOLEAN
    BY <1>15 DEF CrashAll, Staged
  <2>2. ASSUME NEW a \in Agents
        PROVE  root'[a] \in {NoWorkspace} \cup UNION {Directories(b) : b \in Agents}
    <3>1. root'[a] \in AfterCrash(a)
      BY <1>15 DEF CrashAll
    <3>2. CASE root'[a] = NoWorkspace
      BY <3>2
    <3>3. CASE root'[a] # NoWorkspace
      <4>1. PICK lost \in SUBSET Requests(a) : root'[a] = [root[a] EXCEPT !.parts = @ \ lost]
        BY <3>1, <3>3 DEF AfterCrash
      <4>2. root[a] # NoWorkspace
        BY <3>1, <3>3 DEF AfterCrash
      <4>3. PICK b \in Agents : root[a] \in Directories(b)
        BY <4>2
      <4>4. [root[a] EXCEPT !.parts = @ \ lost] \in Directories(b)
        BY <4>3 DEF Directories
      <4> QED
        BY <4>1, <4>4
    <3> QED
      BY <3>2, <3>3
  <2>3. root' \in [Agents -> {NoWorkspace} \cup UNION {Directories(b) : b \in Agents}]
    BY <1>15, <2>2 DEF CrashAll
  <2> QED
    BY <1>15, <2>1, <2>3 DEF CrashAll, ExecutionStopped
<1> QED
  BY <1>1, <1>2, <1>3, <1>4, <1>5, <1>6, <1>7, <1>8, <1>9, <1>10, <1>11, <1>12, <1>13, <1>14, <1>15,
     SplitNext DEF Prepare, Cleanup

LEMMA ManagerLockPreserved ==
  ASSUME WorkspaceInv, Next
  PROVE  ManagerLockSound'
<1> USE StoreSentinels, AgentsAreClients DEF WorkspaceInv, ExecutionInv, ExecutionTypes, Stages,
        ManagerLockSound, Managing, Staging, Filling, Move
<1>1. CASE StoreStep
  BY <1>1 DEF StoreStep, execution
<1>2. ASSUME NEW a \in Agents, PrepareBegin(a) \/ Resolve(a) \/ Copy(a) \/ PersistManifest(a)
      PROVE ManagerLockSound'
  BY <1>2 DEF PrepareBegin, Resolve, Copy, PersistManifest
<1>3. ASSUME NEW a \in Agents, PrepareFails(a) \/ PublishWorkspace(a) \/ SettleRoot(a) \/ SettleFails(a)
      PROVE ManagerLockSound'
  BY ZenonT(60), <1>3 DEF PrepareFails, PublishWorkspace, SettleRoot, SettleFails
<1>4. ASSUME NEW a \in Agents, Finish(a) \/ FinishFails(a) \/ Reclaim(a) \/ CleanupBegin(a)
      PROVE ManagerLockSound'
  BY <1>4 DEF Finish, FinishFails, Reclaim, CleanupBegin
<1>5. ASSUME NEW a \in Agents, Run(a)  PROVE ManagerLockSound'
  BY <1>5 DEF Run
<1>6. ASSUME NEW a \in Agents, RemovePart(a) \/ CleanupEnd(a) \/ CleanupFails(a)
      PROVE ManagerLockSound'
  BY <1>6 DEF RemovePart, CleanupEnd, CleanupFails
<1>7. CASE CleanupStaging
  BY <1>7 DEF CleanupStaging
<1>8. CASE KillAll \/ CrashAll
  BY ZenonT(30), <1>8 DEF KillAll, CrashAll, ExecutionStopped
<1> QED
  BY <1>1, <1>2, <1>3, <1>4, <1>5, <1>6, <1>7, <1>8, SplitNext DEF Prepare, Cleanup

LEMMA StagingPreserved ==
  ASSUME WorkspaceInv, Next
  PROVE  StagingSound'
<1> USE StoreSentinels, AgentsAreClients DEF WorkspaceInv, ExecutionInv, ExecutionTypes, Stages,
        StagingSound, Staging, Filling, Move
<1>1. CASE StoreStep
  BY <1>1 DEF StoreStep, execution
\* Nobody else prepares while somebody has m.mu.
<1>2. ASSUME NEW a \in Agents, mlock = a \/ mlock = Free, NEW b \in Agents, b # a
      PROVE  stage[b] \notin Staging
  BY <1>2 DEF ManagerLockSound, Managing
<1>3. ASSUME NEW a \in Agents, PrepareBegin(a)  PROVE StagingSound'
  <2>1. mlock = Free /\ stage[a] = "idle"
    BY <1>3 DEF PrepareBegin
  <2>2. staging = {}
    BY <1>2, <2>1
  <2> QED
    BY <1>2, <1>3, <2>1, <2>2 DEF PrepareBegin
<1>4. ASSUME NEW a \in Agents, Resolve(a)  PROVE StagingSound'
  BY <1>4 DEF Resolve
<1>5. ASSUME NEW a \in Agents, Copy(a)  PROVE StagingSound'
  <2>1. stage[a] = "resolving" /\ mlock = a
    BY <1>5 DEF Copy, ManagerLockSound, Managing
  <2>2. PICK r \in todo : todo' = todo \ {r} /\ staging' = staging \cup {r}
    BY <1>5 DEF Copy, Materialized
  <2>3. todo' \cup staging' = Requests(a) /\ stage'[a] = "filling"
    BY <1>5, <2>1, <2>2 DEF Copy
  <2>4. \A b \in Agents : b # a => stage'[b] \notin Staging
    BY <1>2, <1>5, <2>1 DEF Copy
  <2> QED
    BY <2>3, <2>4
<1>6. ASSUME NEW a \in Agents, PersistManifest(a)  PROVE StagingSound'
  <2>1. stage[a] = "filling" /\ mlock = a /\ todo = {}
    BY <1>6 DEF PersistManifest, ManagerLockSound, Managing
  <2>2. staging' = Whole(a) /\ stage'[a] = "publishing"
    BY <1>6, <2>1 DEF PersistManifest, Whole
  <2>3. \A b \in Agents : b # a => stage'[b] \notin Staging
    BY <1>2, <1>6, <2>1 DEF PersistManifest
  <2> QED
    BY <2>2, <2>3
<1>7. ASSUME NEW a \in Agents, PrepareFails(a) \/ PublishWorkspace(a)  PROVE StagingSound'
  <2>1. mlock = a
    BY <1>7 DEF PrepareFails, PublishWorkspace, ManagerLockSound, Managing
  <2>2. \A b \in Agents : stage'[b] \notin Staging
    BY <1>2, <1>7, <2>1 DEF PrepareFails, PublishWorkspace
  <2>3. staging' = {}
    BY <1>7 DEF PrepareFails, PublishWorkspace
  <2> QED
    BY <2>2, <2>3
<1>8. ASSUME NEW a \in Agents, SettleRoot(a) \/ SettleFails(a) \/ Finish(a) \/ FinishFails(a)
      PROVE StagingSound'
  BY <1>8 DEF SettleRoot, SettleFails, Finish, FinishFails
<1>9. ASSUME NEW a \in Agents, Run(a)  PROVE StagingSound'
  BY <1>9 DEF Run
<1>10. ASSUME NEW a \in Agents, Reclaim(a) \/ Cleanup(a)  PROVE StagingSound'
  BY <1>10 DEF Reclaim, Cleanup, CleanupBegin, RemovePart, CleanupEnd, CleanupFails
<1>11. CASE CleanupStaging
  <2>1. \A b \in Agents : stage'[b] \notin Staging
    BY <1>11 DEF CleanupStaging, ManagerLockSound, Managing
  <2> QED
    BY <1>11, <2>1 DEF CleanupStaging
<1>12. CASE KillAll \/ CrashAll
  BY <1>12 DEF KillAll, CrashAll, ExecutionStopped
<1> QED
  BY <1>1, <1>3, <1>4, <1>5, <1>6, <1>7, <1>8, <1>9, <1>10, <1>11, <1>12, SplitNext DEF Prepare

\* RootSound for one Agent.
RootOf(a) ==
  /\ stage[a] \in Staging => root[a] = NoWorkspace
  /\ stage[a] \in {"settling", "finishing"} => root[a] = [parts |-> Whole(a), final |-> FALSE]
  /\ stage[a] = "run" => root[a] = [parts |-> Whole(a), final |-> TRUE]
  /\ root[a] # NoWorkspace /\ a \notin torn => root[a].parts = Whole(a)
  /\ OpenWorkspace(a) /\ ~root[a].final
       => stage[a] \in {"settling", "finishing"} \/ a \in abandoned

LEMMA RootFrame ==
  ASSUME WorkspaceInv, NEW a \in Agents,
         stage'[a] = stage[a], root'[a] = root[a],
         a \in torn => a \in torn', a \in abandoned => a \in abandoned'
  PROVE  RootOf(a)'
BY DEF WorkspaceInv, ExecutionInv, RootSound, RootOf, OpenWorkspace

LEMMA RootPreserved ==
  ASSUME WorkspaceInv, Next
  PROVE  RootSound'
<1> USE DEF WorkspaceInv, ExecutionInv, ExecutionTypes, Stages, Staging, Filling, Move
<1>0. SUFFICES ASSUME NEW b \in Agents  PROVE RootOf(b)'
  BY DEF RootSound, RootOf
<1>1. CASE StoreStep \/ CleanupStaging
  BY <1>1, RootFrame DEF StoreStep, CleanupStaging, execution
<1>now. RootOf(b)
  BY DEF RootSound, RootOf
<1>2. ASSUME NEW a \in Agents, a # b, Prepare(a) \/ Run(a) \/ Reclaim(a) \/ Cleanup(a)
      PROVE RootOf(b)'
  <2>1. stage'[b] = stage[b] /\ root'[b] = root[b]
    BY <1>2 DEF Prepare, PrepareBegin, Resolve, Copy, PersistManifest, PrepareFails,
       PublishWorkspace, SettleRoot, SettleFails, Finish, FinishFails, Run, Reclaim, Cleanup,
       CleanupBegin, RemovePart, CleanupEnd, CleanupFails
  <2>2. (b \in torn => b \in torn') /\ (b \in abandoned => b \in abandoned')
    BY <1>2 DEF Prepare, PrepareBegin, Resolve, Copy, PersistManifest, PrepareFails,
       PublishWorkspace, SettleRoot, SettleFails, Finish, FinishFails, Run, Reclaim, Cleanup,
       CleanupBegin, RemovePart, CleanupEnd, CleanupFails
  <2> QED
    BY <2>1, <2>2, RootFrame
<1>3. CASE \/ PrepareBegin(b) \/ Resolve(b) \/ Copy(b) \/ PersistManifest(b) \/ PrepareFails(b)
  BY <1>now, <1>3 DEF PrepareBegin, Resolve, Copy, PersistManifest, PrepareFails, RootOf,
     OpenWorkspace
<1>4. CASE PublishWorkspace(b)
  <2>1. root'[b] = [parts |-> Whole(b), final |-> FALSE] /\ stage'[b] = "settling"
    BY <1>4 DEF PublishWorkspace, StagingSound
  <2> QED
    BY <2>1 DEF RootOf
<1>5. CASE SettleRoot(b) \/ SettleFails(b)
  BY <1>now, <1>5 DEF SettleRoot, SettleFails, RootOf, OpenWorkspace
<1>6. CASE Finish(b)
  <2>1. root'[b] = [parts |-> Whole(b), final |-> TRUE] /\ stage'[b] = "run"
    <3>1. root[b].parts = Whole(b)
      BY <1>now, <1>6 DEF Finish, RootOf
    <3>2. Whole(b) \cup {Manifest} = Whole(b)
      BY DEF Whole
    <3> QED
      BY <1>6, <3>1, <3>2 DEF Finish
  <2> QED
    BY <2>1 DEF RootOf
<1>7. CASE FinishFails(b)
  <2>1. stage'[b] = "idle"
    BY <1>7 DEF FinishFails
  <2>2. root'[b] = NoWorkspace \/ (b \in torn' /\ b \in abandoned')
    BY <1>7 DEF FinishFails
  <2> QED
    BY <2>1, <2>2 DEF RootOf, OpenWorkspace
<1>8. CASE Run(b)
  <2>1. root[b] = [parts |-> Whole(b), final |-> TRUE]
    BY <1>now, <1>8 DEF Run, RootOf
  <2>2. root'[b] = root[b] /\ stage'[b] \in {"idle", "cleanup"}
    BY <1>8 DEF Run
  <2> QED
    BY <2>1, <2>2 DEF RootOf
<1>9. CASE Reclaim(b) \/ CleanupBegin(b) \/ CleanupFails(b)
  BY <1>now, <1>9 DEF Reclaim, CleanupBegin, CleanupFails, RootOf, OpenWorkspace
<1>10. CASE RemovePart(b)
  <2>1. PICK q \in root[b].parts : root' = [root EXCEPT ![b].parts = @ \ {q}]
    BY <1>10 DEF RemovePart
  <2>2. stage[b] = "removing" /\ stage' = stage /\ b \in torn' /\ abandoned' = abandoned
    BY <1>10 DEF RemovePart
  <2>3. PICK e \in Agents : root[b] \in Directories(e)
    BY <2>1 DEF NoWorkspace
  <2>4. root'[b].final = root[b].final /\ root'[b].parts = root[b].parts \ {q}
    BY <2>1, <2>3 DEF Directories
  <2>5. OpenWorkspace(b)' => OpenWorkspace(b) \/ root[b] = NoWorkspace
    BY <2>4 DEF OpenWorkspace
  <2>6. root[b] # NoWorkspace
    BY <2>1 DEF NoWorkspace
  <2> QED
    BY <1>now, <2>2, <2>4, <2>5, <2>6 DEF RootOf
<1>11. CASE CleanupEnd(b)
  <2>1. root'[b] = NoWorkspace /\ stage'[b] = "idle"
    BY <1>11 DEF CleanupEnd
  <2> QED
    BY <2>1 DEF RootOf, OpenWorkspace
<1>12. CASE KillAll
  <2>1. root' = root /\ torn' = torn /\ stage'[b] = "idle"
        /\ (root[b] # NoWorkspace => b \in abandoned')
    BY <1>12 DEF KillAll, ExecutionStopped
  <2> QED
    BY <1>now, <2>1 DEF RootOf, OpenWorkspace
<1>13. CASE CrashAll
  <2>1. /\ stage'[b] = "idle"
        /\ root'[b] # NoWorkspace => b \in abandoned'
        /\ b \notin torn' => b \notin torn /\ root'[b] = root[b]
    BY <1>13 DEF CrashAll, ExecutionStopped
  <2> QED
    BY <1>now, <2>1 DEF RootOf, OpenWorkspace
<1> QED
  BY <1>1, <1>2, <1>3, <1>4, <1>5, <1>6, <1>7, <1>8, <1>9, <1>10, <1>11, <1>12, <1>13, SplitNext
  DEF Prepare, Cleanup

LEMMA ReportPreserved ==
  ASSUME WorkspaceInv, Next
  PROVE  ReportSound'
<1> USE DEF WorkspaceInv, ExecutionInv, ExecutionTypes, Stages, Staging, Filling, ReportSound, Move
<1>1. CASE StoreStep \/ CleanupStaging
  BY <1>1 DEF StoreStep, CleanupStaging, execution
<1>2. ASSUME NEW a \in Agents,
             \/ PrepareBegin(a) \/ Resolve(a) \/ Copy(a) \/ PersistManifest(a)
             \/ PublishWorkspace(a) \/ SettleRoot(a)
      PROVE ReportSound'
  BY <1>2 DEF PrepareBegin, Resolve, Copy, PersistManifest, PublishWorkspace, SettleRoot
<1>3. ASSUME NEW a \in Agents, PrepareFails(a)  PROVE ReportSound'
  <2>1. root[a] = NoWorkspace
    BY <1>3 DEF PrepareFails, RootSound
  <2> QED
    BY <1>3, <2>1 DEF PrepareFails
<1>4. ASSUME NEW a \in Agents, SettleFails(a)  PROVE ReportSound'
  BY <1>4 DEF SettleFails
<1>5. ASSUME NEW a \in Agents, Finish(a)  PROVE ReportSound'
  BY <1>5 DEF Finish
<1>6. ASSUME NEW a \in Agents, FinishFails(a)  PROVE ReportSound'
  <2>1. root'[a] = NoWorkspace \/ a \in abandoned'
    BY <1>6 DEF FinishFails
  <2>2. \A b \in Agents : b # a => root'[b] = root[b] /\ stage'[b] = stage[b]
    BY <1>6 DEF FinishFails
  <2>3. told' = told /\ abandoned \subseteq abandoned'
    BY <1>6 DEF FinishFails
  <2> QED
    BY <2>1, <2>2, <2>3
<1>7. ASSUME NEW a \in Agents, Run(a) \/ Reclaim(a) \/ CleanupBegin(a) \/ CleanupFails(a)
      PROVE ReportSound'
  <2>1. root' = root /\ told' = told /\ abandoned' = abandoned
    BY <1>7 DEF Run, Reclaim, CleanupBegin, CleanupFails
  <2>2. stage[a] \in {"idle", "run", "cleanup", "removing"}
    BY <1>7 DEF Run, Reclaim, CleanupBegin, CleanupFails
  <2>3. \A b \in Agents : b # a => stage'[b] = stage[b]
    BY <1>7 DEF Run, Reclaim, CleanupBegin, CleanupFails
  <2> QED
    BY <2>1, <2>2, <2>3
<1>8. ASSUME NEW a \in Agents, RemovePart(a)  PROVE ReportSound'
  <2>1. stage' = stage /\ stage[a] = "removing" /\ told' = told /\ abandoned' = abandoned
    BY <1>8 DEF RemovePart
  <2>2. root[a] # NoWorkspace
    BY <1>8 DEF RemovePart, NoWorkspace
  <2>3. \A b \in Agents : b # a => root'[b] = root[b]
    BY <1>8 DEF RemovePart
  <2> QED
    BY <2>1, <2>2, <2>3
<1>9. ASSUME NEW a \in Agents, CleanupEnd(a)  PROVE ReportSound'
  <2>1. root'[a] = NoWorkspace
    BY <1>9 DEF CleanupEnd
  <2>2. \A b \in Agents : b # a => /\ root'[b] = root[b] /\ stage'[b] = stage[b]
                                 /\ told'[b] = told[b] /\ (b \in abandoned => b \in abandoned')
    BY <1>9 DEF CleanupEnd
  <2> QED
    BY <2>1, <2>2
<1>10. CASE KillAll \/ CrashAll
  BY <1>10 DEF KillAll, CrashAll
<1> QED
  BY <1>1, <1>2, <1>3, <1>4, <1>5, <1>6, <1>7, <1>8, <1>9, <1>10, SplitNext DEF Prepare, Cleanup

-----------------------------------------------------------------------------
(* The theorems *)

\* The invariant of the store and of the executions, for any Agents and contexts.
THEOREM WorkspaceSafety == Spec => []WorkspaceInv
<1>1. Init => WorkspaceInv
  BY InitWorkspaceInv
<1>2. ASSUME WorkspaceInv, [Next]_allVars  PROVE WorkspaceInv'
  <2>1. StoreInv'
    BY <1>2, StoreStepSimulation, StoreInvPreserved DEF WorkspaceInv
  <2>2. AgentCalls'
    BY <1>2, AgentCallsPreserved
  <2>3. ExecutionInv'
    <3>1. CASE Next
      BY <1>2, <3>1, ExecutionTypesPreserved, ManagerLockPreserved, StagingPreserved,
         RootPreserved, ReportPreserved DEF ExecutionInv
    <3>2. CASE UNCHANGED allVars
      BY <1>2, <3>2, ExecutionUnchanged DEF allVars, WorkspaceInv
    <3> QED
      BY <1>2, <3>1, <3>2
  <2> QED
    BY <2>1, <2>2, <2>3 DEF WorkspaceInv
<1> QED
  BY <1>1, <1>2, PTL DEF Spec

\* Every variable of the store and of the manager keeps its type.
THEOREM WorkspaceTypes == Spec => []TypeOK
<1>1. WorkspaceInv => TypeOK
  BY DEF WorkspaceInv, StoreInv, ExecutionInv, ExecutionTypes, Stages, TypeOK
<1> QED
  BY WorkspaceSafety, <1>1, PTL

\* The workspaces are made with calls of the store only: everything that holds of the
\* store under any calls holds of it here.
THEOREM WorkspacesUseStore == Spec => StoreSpec
<1>1. Init => StoreInit
  BY DEF Init
<1>2. WorkspaceInv /\ [Next]_allVars => [StoreNext]_storeVars
  BY StoreStepSimulation
<1> QED
  BY WorkspaceSafety, <1>1, <1>2, PTL DEF Spec, StoreSpec

\* A bound name resolves, also after a crash, unless some sync was never completed.
THEOREM BoundIsStoredInWorkspaces == Spec => []BoundIsStored
BY WorkspacesUseStore, BoundIsStoredHolds, PTL

\* GC removes only what no name refers to.
THEOREM OnlyGarbageIsRemovedInWorkspaces == Spec => OnlyGarbageIsRemoved
BY WorkspacesUseStore, OnlyGarbageIsRemovedHolds, PTL

\* An Agent runs in a whole workspace, and whoever finds a workspace finds all of it.
THEOREM WorkspaceIsWholeHolds == Spec => []WorkspaceIsWhole
<1>1. WorkspaceInv => WorkspaceIsWhole
  BY DEF WorkspaceInv, ExecutionInv, RootSound, WorkspaceIsWhole
<1> QED
  BY WorkspaceSafety, <1>1, PTL

\* A workspace that an execution has left is reported, unless it was abandoned.
THEOREM RemainderIsReportedHolds == Spec => []RemainderIsReported
<1>1. WorkspaceInv => RemainderIsReported
  BY DEF WorkspaceInv, ExecutionInv, ReportSound, RemainderIsReported
<1> QED
  BY WorkspaceSafety, <1>1, PTL
===============================================================================
