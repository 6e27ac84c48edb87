------------------------------- MODULE Workspaces -------------------------------
(***************************************************************************)
(* The workspaces of Agents over the content-addressed store: the          *)
(* WorkspaceExecutor asks the WorkspaceManager to Prepare one, runs the    *)
(* Agent in it and cleans up.  Prepare reads the store one object at a     *)
(* time, while other goroutines may collect it.                            *)
(***************************************************************************)
EXTENDS ContextStore

CONSTANTS
  Agents,      \* the goroutines that execute Agents, one for each Agent ID
  Wanted,      \* the digests in ACB.Contexts of each
  Retention    \* "cleanup-always", "retain-on-failure" or "retain-always"

ASSUME AgentsAreClients == Agents \subseteq Clients
ASSUME SomeContexts == Wanted \in [Agents -> SUBSET Digests \ {{}}]
ASSUME KnownRetention == Retention \in {"cleanup-always", "retain-on-failure", "retain-always"}

VARIABLES
  stage,      \* where the execution of each Agent is
  todo,       \* requests that Prepare has still to materialize
  staging,    \* what is in its staging directory
  root,       \* the directory of each Agent, NoWorkspace if there is none
  mlock,      \* who holds m.mu
  stale,      \* there are staging directories that no Prepare owns
  told,       \* ACB.WorkspaceRetained
  abandoned,  \* history: a Prepare or a process that ended early left the workspace
  torn        \* history: part of the workspace may have gone

execution == <<stage, todo, staging, root, mlock, stale, told, abandoned, torn>>
allVars == <<storeVars, execution>>

\* buildMaterializationRequests: a read-only and a private copy of each context.
Requests(a) == {"inputs", "private"} \X Wanted[a]
Manifest == <<"manifest">>
Whole(a) == Requests(a) \cup {Manifest}

\* final: the manifest names the files by their final paths, not those of the staging
\* directory.
Directories(a) == [parts : SUBSET Whole(a), final : BOOLEAN]
NoWorkspace == [parts |-> {}, final |-> FALSE, gone |-> TRUE]

Init ==
  /\ StoreInit
  /\ stage = [a \in Agents |-> "idle"]
  /\ todo = {}
  /\ staging = {}
  /\ root = [a \in Agents |-> NoWorkspace]
  /\ mlock = Free
  /\ stale = FALSE
  /\ told = [a \in Agents |-> FALSE]
  /\ abandoned = {}
  /\ torn = {}

Move(a, to) == stage' = [stage EXCEPT ![a] = to]

-----------------------------------------------------------------------------
(* Prepare *)

\* m.mu, the check that there is no workspace yet, and an empty staging directory.
PrepareBegin(a) ==
  /\ stage[a] = "idle"
  /\ at[a] = "idle"
  /\ mlock = Free
  /\ root[a] = NoWorkspace
  /\ mlock' = a
  /\ todo' = Requests(a)
  /\ Move(a, "filling")
  /\ UNCHANGED <<storeVars, staging, root, stale, told, abandoned, torn>>

\* store.Resolve of the next request.
Resolve(a) ==
  /\ stage[a] = "filling"
  /\ \E r \in todo : Enter(a, "resolve", r[2], NoName)
  /\ Move(a, "resolving")
  /\ UNCHANGED <<lock, live, disk, todo, staging, root, mlock, stale, told, abandoned, torn>>

Materialized(r) == todo' = todo \ {r} /\ staging' = staging \cup {r}

\* cloneOrCopy opens the object by its path, after Resolve has given up s.mu.
Copy(a) ==
  /\ stage[a] = "resolving"
  /\ at[a] = "open"
  /\ Blob(digest[a]) \in stored
  /\ \E r \in todo : r[2] = digest[a] /\ Materialized(r)
  /\ Return(a)
  /\ Move(a, "filling")
  /\ UNCHANGED <<lock, live, disk, root, mlock, stale, told, abandoned, torn>>

\* The first manifest, with the paths of the staging directory, and its sync.
PersistManifest(a) ==
  /\ stage[a] = "filling"
  /\ todo = {}
  /\ staging' = staging \cup {Manifest}
  /\ Move(a, "publishing")
  /\ UNCHANGED <<storeVars, todo, root, mlock, stale, told, abandoned, torn>>

\* An object is missing or collected, ctx ends, or a file system call fails.  The
\* deferred RemoveAll of the staging directory may fail as well.
PrepareFails(a) ==
  /\ \/ stage[a] \in {"filling", "publishing"}
     \/ stage[a] = "resolving" /\ at[a] \in {"idle", "open"}
  /\ Return(a)
  /\ todo' = {}
  /\ staging' = {}
  /\ stale' \in {stale, TRUE}
  /\ mlock' = Free
  /\ Move(a, "idle")
  /\ UNCHANGED <<lock, live, disk, root, told, abandoned, torn>>

\* The rename makes the workspace visible.
PublishWorkspace(a) ==
  /\ stage[a] = "publishing"
  /\ root' = [root EXCEPT ![a] = [parts |-> staging, final |-> FALSE]]
  /\ staging' = {}
  /\ Move(a, "settling")
  /\ UNCHANGED <<storeVars, todo, mlock, stale, told, abandoned, torn>>

SettleRoot(a) ==
  /\ stage[a] = "settling"
  /\ Move(a, "finishing")
  /\ UNCHANGED <<storeVars, todo, staging, root, mlock, stale, told, abandoned, torn>>

\* The sync of the workspace root fails: Prepare returns an error and leaves what it
\* has published.
SettleFails(a) ==
  /\ stage[a] = "settling"
  /\ mlock' = Free
  /\ abandoned' = abandoned \cup {a}
  /\ Move(a, "idle")
  /\ UNCHANGED <<storeVars, todo, staging, root, stale, told, torn>>

\* The second manifest, with the final paths; then the executor runs the Agent.
Finish(a) ==
  /\ stage[a] = "finishing"
  /\ root' = [root EXCEPT ![a] = [parts |-> @.parts \cup {Manifest}, final |-> TRUE]]
  /\ mlock' = Free
  /\ told' = [told EXCEPT ![a] = TRUE]
  /\ Move(a, "run")
  /\ UNCHANGED <<storeVars, todo, staging, stale, abandoned, torn>>

\* The second manifest fails.  The error of the RemoveAll that follows is ignored.
FinishFails(a) ==
  /\ stage[a] = "finishing"
  /\ \/ root' = [root EXCEPT ![a] = NoWorkspace] /\ UNCHANGED <<abandoned, torn>>
     \/ \E left \in SUBSET root[a].parts, final \in BOOLEAN :
          /\ root' = [root EXCEPT ![a] = [parts |-> left, final |-> final]]
          /\ abandoned' = abandoned \cup {a}
          /\ torn' = torn \cup {a}
  /\ mlock' = Free
  /\ Move(a, "idle")
  /\ UNCHANGED <<storeVars, todo, staging, stale, told>>

-----------------------------------------------------------------------------
(* The execution and the cleanup *)

Retained(failed) ==
  \/ Retention = "retain-always"
  \/ Retention = "retain-on-failure" /\ failed

\* next.Run returns.
Run(a) ==
  /\ stage[a] = "run"
  /\ \E failed \in BOOLEAN : Move(a, IF Retained(failed) THEN "idle" ELSE "cleanup")
  /\ UNCHANGED <<storeVars, todo, staging, root, mlock, stale, told, abandoned, torn>>

\* Somebody else calls Cleanup for the Agent ID.
Reclaim(a) ==
  /\ stage[a] = "idle"
  /\ at[a] = "idle"
  /\ root[a] # NoWorkspace
  /\ Move(a, "cleanup")
  /\ UNCHANGED <<storeVars, todo, staging, root, mlock, stale, told, abandoned, torn>>

\* Cleanup: m.mu, then RemoveAll.
CleanupBegin(a) ==
  /\ stage[a] = "cleanup"
  /\ mlock = Free
  /\ mlock' = a
  /\ Move(a, "removing")
  /\ UNCHANGED <<storeVars, todo, staging, root, stale, told, abandoned, torn>>

RemovePart(a) ==
  /\ stage[a] = "removing"
  /\ \E p \in root[a].parts : root' = [root EXCEPT ![a].parts = @ \ {p}]
  /\ torn' = torn \cup {a}
  /\ UNCHANGED <<storeVars, stage, todo, staging, mlock, stale, told, abandoned>>

\* The directory itself goes, and the sync of the root may still fail.
CleanupEnd(a) ==
  /\ stage[a] = "removing"
  /\ root[a].parts = {}
  /\ root' = [root EXCEPT ![a] = NoWorkspace]
  /\ told' \in {told, [told EXCEPT ![a] = FALSE]}
  /\ abandoned' = abandoned \ {a}
  /\ torn' = torn \ {a}
  /\ mlock' = Free
  /\ Move(a, "idle")
  /\ UNCHANGED <<storeVars, todo, staging, stale>>

\* Mutant: a cleanup that failed counts as one that was done.
CleanupFailsUnreported(a) ==
  /\ stage[a] = "removing"
  /\ told' = [told EXCEPT ![a] = FALSE]
  /\ mlock' = Free
  /\ Move(a, "idle")
  /\ UNCHANGED <<storeVars, todo, staging, root, stale, abandoned, torn>>

\* RemoveAll fails: the executor reports the workspace as retained.
CleanupFails(a) ==
  /\ stage[a] = "removing"
  /\ mlock' = Free
  /\ Move(a, "idle")
  /\ UNCHANGED <<storeVars, todo, staging, root, stale, told, abandoned, torn>>

\* Mutant: without m.mu.
CleanupStagingUnlocked ==
  /\ stale
  /\ stale' = FALSE
  /\ staging' = {}
  /\ UNCHANGED <<storeVars, stage, todo, root, mlock, told, abandoned, torn>>

\* CleanupStaging removes every directory with the prefix of a staging directory.
CleanupStaging ==
  /\ mlock = Free
  /\ stale
  /\ stale' = FALSE
  /\ staging' = {}
  /\ UNCHANGED <<storeVars, stage, todo, root, mlock, told, abandoned, torn>>

-----------------------------------------------------------------------------
(* Kill and crash *)

Staged == staging # {} \/ \E a \in Agents : stage[a] \in {"filling", "resolving", "publishing"}

ExecutionStopped ==
  /\ stage' = [a \in Agents |-> "idle"]
  /\ todo' = {}
  /\ staging' = {}
  /\ mlock' = Free
  /\ told' = [a \in Agents |-> FALSE]

KillAll ==
  /\ Kill
  /\ ExecutionStopped
  /\ stale' = (stale \/ Staged)
  /\ abandoned' = {a \in Agents : root[a] # NoWorkspace}
  /\ UNCHANGED <<root, torn>>

\* The manifest is synced, and with SettleRoot the workspace; the directories of its
\* files never are: any file may be lost.  (That a workspace whose removal was not synced
\* may come back is left out.)
AfterCrash(a) ==
  IF root[a] = NoWorkspace THEN {NoWorkspace}
  ELSE {[root[a] EXCEPT !.parts = @ \ lost] : lost \in SUBSET Requests(a)}
       \cup (IF stage[a] \in {"settling", "removing"} \/ a \in abandoned \cup torn
               THEN {NoWorkspace} ELSE {})

CrashAll ==
  /\ Crash
  /\ ExecutionStopped
  /\ stale' \in {FALSE, stale \/ Staged}
  /\ root' \in {r \in [Agents -> UNION {AfterCrash(a) : a \in Agents}] :
                 \A a \in Agents : r[a] \in AfterCrash(a)}
  /\ abandoned' = {a \in Agents : root'[a] # NoWorkspace}
  /\ torn' = torn \cup {a \in Agents : root'[a] # root[a]}

-----------------------------------------------------------------------------
Prepare(a) ==
  \/ PrepareBegin(a) \/ Resolve(a) \/ Copy(a) \/ PersistManifest(a) \/ PrepareFails(a)
  \/ PublishWorkspace(a) \/ SettleRoot(a) \/ SettleFails(a) \/ Finish(a) \/ FinishFails(a)

Cleanup(a) == CleanupBegin(a) \/ RemovePart(a) \/ CleanupEnd(a) \/ CleanupFails(a)

\* A goroutine that executes no Agent at the moment may call the store as well.
Next ==
  \/ \E c \in Clients :
       /\ \/ (c \in Agents => stage[c] = "idle") /\ Call(c)
          \/ Step(c) /\ (c \in Agents /\ stage[c] = "resolving" => ~OpenObject(c))
       /\ UNCHANGED execution
  \/ \E a \in Agents : Prepare(a) \/ Run(a) \/ Reclaim(a) \/ Cleanup(a)
  \/ CleanupStaging
  \/ KillAll
  \/ CrashAll

Spec == Init /\ [][Next]_allVars

-----------------------------------------------------------------------------
(* What must hold *)

\* Every variable of the store and of the manager keeps its type.
TypeOK ==
  /\ StoreTypeOK
  /\ stage \in [Agents -> {"idle", "filling", "resolving", "publishing", "settling",
                           "finishing", "run", "cleanup", "removing"}]
  /\ todo \in SUBSET UNION {Requests(a) : a \in Agents}
  /\ staging \in SUBSET UNION {Whole(a) : a \in Agents}
  /\ root \in [Agents -> {NoWorkspace} \cup UNION {Directories(a) : a \in Agents}]
  /\ mlock \in Agents \cup {Free}
  /\ stale \in BOOLEAN
  /\ told \in [Agents -> BOOLEAN]
  /\ abandoned \in SUBSET Agents
  /\ torn \in SUBSET Agents

\* OpenWorkspace reads the manifest of a published workspace without m.mu.
OpenWorkspace(a) == root[a] # NoWorkspace /\ Manifest \in root[a].parts

\* An Agent runs only in a workspace with every context it asked for and the final
\* manifest, whatever was collected, killed or cleaned up meanwhile.  Whoever finds a
\* workspace finds all of it, unless it is being removed or has been torn; and the
\* manifest that he opens names paths of the staging directory, which are gone, only
\* between the two last steps of Prepare and in a workspace that was abandoned there.
WorkspaceIsWhole ==
  \A a \in Agents :
    /\ stage[a] = "run" => root[a] = [parts |-> Whole(a), final |-> TRUE]
    /\ root[a] # NoWorkspace /\ stage[a] # "removing" /\ a \notin torn
         => root[a].parts = Whole(a)
    /\ OpenWorkspace(a) /\ ~root[a].final
         => stage[a] \in {"settling", "finishing"} \/ a \in abandoned

\* An execution that has returned leaves no workspace that its control block does not
\* report, but for one abandoned by a Prepare, a kill or a crash: that one makes every
\* later Prepare for the Agent ID fail.
RemainderIsReported ==
  \A a \in Agents :
    stage[a] = "idle" /\ root[a] # NoWorkspace => told[a] \/ a \in abandoned
===============================================================================
