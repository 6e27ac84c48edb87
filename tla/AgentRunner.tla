------------------------------- MODULE AgentRunner -------------------------------
(***************************************************************************)
(* The Runner of internal/runtime with the cgroups of internal/resource:   *)
(* it makes a cgroup, starts the Agent's process, moves it into the cgroup *)
(* and waits for its end or for the end of ctx, which kills.  Meanwhile    *)
(* the process forks; a child is in the cgroup of its parent at that       *)
(* moment and writes to the Runner's pipe unless it closes it.             *)
(***************************************************************************)
EXTENDS FiniteSets

CONSTANTS
  Agents,     \* Agent IDs, each executed once
  ChildrenOf, \* what the process of each Agent may fork, directly or not
  GroupOf,    \* the cgroup name that each ID is sanitized to
  Main,       \* the Agent's own process
  Isolated    \* the daemon has cgroups (no -disable-cgroup)

Children == UNION {ChildrenOf[a] : a \in Agents}

ASSUME MainIsNoChild == Main \notin Children
ASSUME IsolationIsChosen == Isolated \in BOOLEAN

Processes == Agents \X (Children \cup {Main})
TreeOf(a) == {p \in Processes : p[1] = a}
MainOf(a) == <<a, Main>>

VARIABLES
  pc,         \* where Run is for each Agent
  state,      \* ACB.State
  expired,    \* ctx has ended
  exit,       \* what the Agent's process ended with
  alive,      \* processes
  doomed,     \* those that were sent SIGKILL and are still there
  member,     \* those in the cgroup of their Agent
  writer,     \* those that hold the Runner's pipe, while it is read
  broken,     \* the pipe of the Agent is not read any more: its log could not be written
  forked,     \* history: processes that were ever there
  groups,     \* the cgroups that exist, with the Agent each was made for
  kill        \* history: "whole" if Run has killed the cgroup, "process" if it
              \* could kill the process only, else "none"

processes == <<exit, alive, doomed, member, writer, broken, forked>>
vars == <<pc, state, expired, processes, groups, kill>>

Init ==
  /\ pc = [a \in Agents |-> "ready"]
  /\ state = [a \in Agents |-> "CREATED"]
  /\ expired = {}
  /\ exit = [a \in Agents |-> "none"]
  /\ alive = {}
  /\ doomed = {}
  /\ member = {}
  /\ writer = {}
  /\ broken = {}
  /\ forked = {}
  /\ groups = {}
  /\ kill = [a \in Agents |-> "none"]

Goto(a, to) == pc' = [pc EXCEPT ![a] = to]
Transition(a, s) == state' = [state EXCEPT ![a] = s]

-----------------------------------------------------------------------------
(* The kernel and the Agent's processes *)

Fork(p, k) ==
  /\ p \in alive \ doomed
  /\ k \in ChildrenOf[p[1]]
  /\ <<p[1], k>> \notin forked
  /\ alive' = alive \cup {<<p[1], k>>}
  /\ forked' = forked \cup {<<p[1], k>>}
  /\ member' = IF p \in member THEN member \cup {<<p[1], k>>} ELSE member
  /\ \/ UNCHANGED writer
     \/ p \in writer /\ writer' = writer \cup {<<p[1], k>>}
  /\ UNCHANGED <<pc, state, expired, exit, doomed, broken, groups, kill>>

\* A process ends, by itself or because it was killed.
End(p) ==
  /\ p \in alive
  /\ alive' = alive \ {p}
  /\ doomed' = doomed \ {p}
  /\ member' = member \ {p}
  /\ writer' = writer \ {p}
  /\ IF p[2] # Main THEN UNCHANGED exit
     ELSE \E code \in IF p \in doomed THEN {"signal"} ELSE {"zero", "nonzero"} :
            exit' = [exit EXCEPT ![p[1]] = code]
  /\ UNCHANGED <<pc, state, expired, broken, forked, groups, kill>>

Expire(a) ==
  /\ a \notin expired
  /\ expired' = expired \cup {a}
  /\ UNCHANGED <<pc, state, processes, groups, kill>>

-----------------------------------------------------------------------------
(* The cgroup of an Agent *)

\* Mutant: a cgroup that is there already will do.
AvailableAnyway(a) == TRUE

\* os.Mkdir
Available(a) == \A h \in groups : h[1] # GroupOf[a]

\* Mutant: the removal after a failure takes a cgroup that was there before.
CreateFailsAndRemoves(a) ==
  /\ pc[a] = "ready"
  /\ Isolated
  /\ groups' = {h \in groups : h[1] # GroupOf[a] \/ \E p \in member : GroupOf[p[1]] = h[1]}
  /\ Transition(a, "FAILED")
  /\ Goto(a, "returned")
  /\ UNCHANGED <<expired, processes, kill>>

\* Manager.Create.
Create(a) ==
  /\ pc[a] = "ready"
  /\ Isolated => Available(a)
  /\ groups' = IF Isolated THEN groups \cup {<<GroupOf[a], a>>} ELSE groups
  /\ Transition(a, "READY")
  /\ Goto(a, "start")
  /\ UNCHANGED <<expired, processes, kill>>

\* A specification out of range, a cgroup of that name, or a limit that cannot be set.
\* The new cgroup is removed then, or stays when that fails too, which is ignored.
CreateFails(a) ==
  /\ pc[a] = "ready"
  /\ Isolated
  /\ \/ UNCHANGED groups
     \/ Available(a) /\ groups' = groups \cup {<<GroupOf[a], a>>}
  /\ Transition(a, "FAILED")
  /\ Goto(a, "returned")
  /\ UNCHANGED <<expired, processes, kill>>

\* Mutant: nobody but the process itself is killed.
KilledAlone(a) == {MainOf(a)}

\* Group.Kill and Process.Kill.
Killed(a) == {p \in member : <<GroupOf[p[1]], a>> \in groups} \cup {MainOf(a)}

Killing(a, what, victims) ==
  /\ kill' = [kill EXCEPT ![a] = what]
  /\ doomed' = doomed \cup victims

\* Mutant: a process that was reaped is signalled.
KillReaped(a) == Killing(a, "whole", Killed(a))

\* Writing cgroup.kill may fail, which is ignored.
Kill(a) ==
  \/ Killing(a, "whole", alive \cap Killed(a))
  \/ Killing(a, "process", alive \cap {MainOf(a)})

Populated(a) == \E p \in alive : p \in member /\ GroupOf[p[1]] = GroupOf[a]

\* Group.Cleanup waits two seconds for the cgroup to become empty and removes it.  One
\* that is not empty cannot be removed and stays, and an error is ignored.
Cleanup(a) ==
  /\ pc[a] = "cleanup"
  /\ \/ UNCHANGED groups
     \/ ~Populated(a) /\ groups' = groups \ {<<GroupOf[a], a>>}
  /\ Goto(a, "returned")
  /\ UNCHANGED <<state, expired, processes, kill>>

-----------------------------------------------------------------------------
(* Runner.Run *)

StartProcess(a) ==
  /\ pc[a] = "start"
  /\ alive' = alive \cup {MainOf(a)}
  /\ writer' = writer \cup {MainOf(a)}
  /\ forked' = forked \cup {MainOf(a)}
  /\ Goto(a, "attach")
  /\ UNCHANGED <<state, expired, exit, doomed, member, broken, groups, kill>>

StartFails(a) ==
  /\ pc[a] = "start"
  /\ Transition(a, "FAILED")
  /\ Goto(a, "cleanup")
  /\ UNCHANGED <<expired, processes, groups, kill>>

\* The process alone is moved, not what it has forked so far.
Attach(a) ==
  /\ pc[a] = "attach"
  /\ member' = IF Isolated THEN member \cup ({MainOf(a)} \cap alive) ELSE member
  /\ Transition(a, "RUNNING")
  /\ Goto(a, "select")
  /\ UNCHANGED <<expired, exit, alive, doomed, writer, broken, forked, groups, kill>>

AttachFails(a) ==
  /\ pc[a] = "attach"
  /\ Isolated
  /\ Kill(a)
  /\ Goto(a, "wait")
  /\ UNCHANGED <<state, expired, exit, alive, member, writer, broken, forked, groups>>

\* Mutant: the end of the process is enough.
WaitedProcess(a) == MainOf(a) \in forked \ alive

\* The log cannot be written: what copies from the pipe to the log closes the pipe.
CopyFails(a) ==
  /\ pc[a] \in {"attach", "select", "wait"}
  /\ a \notin broken
  /\ broken' = broken \cup {a}
  /\ writer' = writer \ TreeOf(a)
  /\ UNCHANGED <<pc, state, expired, exit, alive, doomed, member, forked, groups, kill>>

\* cmd.Wait: the process has ended, and nobody holds the pipe that is still read.
Waited(a) == MainOf(a) \in forked \ alive /\ TreeOf(a) \cap writer = {}

\* Wait's error is nil after exit code zero, unless the output could not be copied.
Outcome(a) == IF exit[a] = "zero" /\ a \notin broken THEN "COMPLETED" ELSE "FAILED"

\* select takes waitResult.
Exited(a) ==
  /\ pc[a] = "select"
  /\ Waited(a)
  /\ Transition(a, Outcome(a))
  /\ Goto(a, "cleanup")
  /\ UNCHANGED <<expired, processes, groups, kill>>

\* Mutant: the process itself is left to the cgroup.
TimeoutOfGroup(a) ==
  /\ pc[a] = "select"
  /\ a \in expired
  /\ Killing(a, "whole", member \cap Killed(a)) \/ Killing(a, "process", {})
  /\ Goto(a, "wait")
  /\ UNCHANGED <<state, expired, exit, alive, member, writer, broken, forked, groups>>

\* select takes ctx.Done, which it may do though the Agent has ended as well.
Timeout(a) ==
  /\ pc[a] = "select"
  /\ a \in expired
  /\ Kill(a)
  /\ Goto(a, "wait")
  /\ UNCHANGED <<state, expired, exit, alive, member, writer, broken, forked, groups>>

\* What was killed is waited for, with no regard to ctx.
Reaped(a) ==
  /\ pc[a] = "wait"
  /\ Waited(a)
  /\ Transition(a, "FAILED")
  /\ Goto(a, "cleanup")
  /\ UNCHANGED <<expired, processes, groups, kill>>

Run(a) ==
  \/ Create(a) \/ CreateFails(a) \/ StartProcess(a) \/ StartFails(a) \/ Attach(a)
  \/ AttachFails(a) \/ Exited(a) \/ Timeout(a) \/ Reaped(a) \/ Cleanup(a)

Next ==
  \/ \E p \in Processes : End(p) \/ \E k \in Children : Fork(p, k)
  \/ \E a \in Agents : Run(a) \/ CopyFails(a) \/ Expire(a)

Spec == Init /\ [][Next]_vars

\* A killed process ends, and a Run that has begun goes on when it can.  No Agent need
\* end by itself, and ctx need not end.
Fairness ==
  /\ \A p \in Processes : WF_vars(p \in doomed /\ End(p))
  /\ \A a \in Agents : WF_vars(pc[a] # "ready" /\ Run(a))

FairSpec == Spec /\ Fairness

-----------------------------------------------------------------------------
(* What must hold *)

\* Every variable keeps its type; a cgroup has one maker.
TypeOK ==
  /\ pc \in [Agents -> {"ready", "start", "attach", "select", "wait", "cleanup", "returned"}]
  /\ state \in [Agents -> {"CREATED", "READY", "RUNNING", "COMPLETED", "FAILED"}]
  /\ expired \in SUBSET Agents
  /\ exit \in [Agents -> {"none", "zero", "nonzero", "signal"}]
  /\ alive \in SUBSET forked
  /\ doomed \in SUBSET alive
  /\ member \in SUBSET alive
  /\ writer \in SUBSET alive
  /\ broken \in SUBSET Agents
  /\ forked \in SUBSET Processes
  /\ \A h \in groups : h[2] \in Agents /\ h[1] = GroupOf[h[2]]
  /\ kill \in [Agents -> {"none", "whole", "process"}]

\* A cgroup confines one Agent, though two IDs may be sanitized to one name and though a
\* cgroup may outlive its Run: its limits and its kill never reach another Agent.
GroupIsPrivate ==
  \A p, q \in member : GroupOf[p[1]] = GroupOf[q[1]] => p[1] = q[1]

\* Once Run has killed, nothing of the Agent goes on but what never was in its cgroup:
\* what its process forked before it was moved, and what came of that.
TreeIsKilled ==
  \A a \in Agents :
    kill[a] = "whole" => \A p \in TreeOf(a) \cap alive : p \in doomed \/ p \notin member

\* What survives a Run in its cgroup, which is whatever its process has left behind unless
\* Run has killed, stays confined: the cgroup is still there, and it is the Agent's own.
SurvivorsAreConfined ==
  \A p \in member : <<GroupOf[p[1]], p[1]>> \in groups

\* What README.md says of a failure, as of a timeout: the Runner cleans up the whole
\* process tree with cgroup.kill.  (Where that was not written nothing is asked.)
FailureKillsTree ==
  \A a \in Agents :
    state[a] = "FAILED" /\ kill[a] # "process" => TreeOf(a) \cap member \subseteq doomed

\* An Agent that is COMPLETED has ended with exit code zero, its output is in the log, and
\* nothing that it left behind can still write there.
CompletedIsSilent ==
  \A a \in Agents :
    state[a] = "COMPLETED" => exit[a] = "zero" /\ a \notin broken /\ TreeOf(a) \cap writer = {}

\* A Run whose ctx has ended returns, or waits for a process that its kill has missed
\* and that holds the pipe: one outside the cgroup, or with cgroup.kill not written.
TimedOutRunReturns ==
  \A a \in Agents :
    (pc[a] = "select" /\ a \in expired)
      ~> \/ pc[a] = "returned"
         \/ \E p \in (TreeOf(a) \cap writer) \ {MainOf(a)} : p \notin member \/ kill[a] = "process"
===============================================================================
