---------------------------- MODULE AgentRunnerProofs ----------------------------
(* The safety of AgentRunner for any Agents, cgroup names and processes. *)
EXTENDS AgentRunner, TLAPS

OwnGroup(a) == <<GroupOf[a], a>>

\* A cgroup belongs to one Agent, although names may coincide.
GroupsDiffer ==
  \A a, b \in Agents :
    OwnGroup(a) \in groups /\ OwnGroup(b) \in groups /\ GroupOf[a] = GroupOf[b] => a = b

\* From Create to Cleanup a Run has its cgroup.
RunHasGroup ==
  \A a \in Agents :
    Isolated /\ pc[a] \notin {"ready", "returned"} => OwnGroup(a) \in groups

\* Run kills after it has started the process and last of all.
KillComesLast ==
  \A a \in Agents : pc[a] \in {"ready", "start", "attach", "select"} => kill[a] = "none"

\* An Agent's process that is not there any more does not come back.
CompletedSound ==
  \A a \in Agents :
    state[a] = "COMPLETED" =>
      /\ pc[a] \in {"cleanup", "returned"}
      /\ MainOf(a) \notin alive
      /\ exit[a] = "zero"
      /\ a \notin broken
      /\ TreeOf(a) \cap writer = {}

Inv ==
  /\ TypeOK
  /\ GroupsDiffer
  /\ RunHasGroup
  /\ SurvivorsAreConfined
  /\ TreeIsKilled
  /\ KillComesLast
  /\ CompletedSound

-----------------------------------------------------------------------------
(* Processes and killing *)

LEMMA ProcessShape ==
  ASSUME NEW p \in Processes
  PROVE  /\ p[1] \in Agents
         /\ p[2] \in Children \cup {Main}
         /\ p = <<p[1], p[2]>>
         /\ p \in TreeOf(p[1])
  BY DEF Processes, TreeOf

LEMMA MainIsProcess ==
  ASSUME NEW a \in Agents
  PROVE  MainOf(a) \in Processes /\ MainOf(a)[1] = a /\ MainOf(a)[2] = Main
  BY DEF MainOf, Processes

\* A Run that kills its cgroup reaches all of the Agent's tree that is in it.
LEMMA KillReaches ==
  ASSUME Inv, NEW a \in Agents, Kill(a)
  PROVE  /\ \E what \in {"whole", "process"} : kill' = [kill EXCEPT ![a] = what]
         /\ doomed \subseteq doomed'
         /\ doomed' \subseteq alive
         /\ kill'[a] = "whole" =>
              \A p \in TreeOf(a) \cap alive : p \in doomed' \/ p \notin member
<1>1. CASE Killing(a, "whole", alive \cap Killed(a))
  <2>1. ASSUME NEW p \in TreeOf(a) \cap alive, p \in member  PROVE  p \in Killed(a)
    BY <2>1 DEF Inv, SurvivorsAreConfined, TreeOf, Killed
  <2>2. doomed' = doomed \cup (alive \cap Killed(a)) /\ kill' = [kill EXCEPT ![a] = "whole"]
    BY <1>1 DEF Killing
  <2>3. doomed \subseteq alive
    BY DEF Inv, TypeOK
  <2> QED
    BY <2>1, <2>2, <2>3
<1>2. CASE Killing(a, "process", alive \cap {MainOf(a)})
  <2>1. doomed \subseteq alive /\ kill \in [Agents -> {"none", "whole", "process"}]
    BY DEF Inv, TypeOK
  <2> QED
    BY <1>2, <2>1 DEF Killing
<1> QED
  BY <1>1, <1>2 DEF Kill

-----------------------------------------------------------------------------
(* Each part of the invariant is kept by every step *)

LEMMA InitInv == Init => Inv
BY DEF Init, Inv, TypeOK, GroupsDiffer, RunHasGroup, SurvivorsAreConfined, TreeIsKilled,
       KillComesLast, CompletedSound, TreeOf

LEMMA TypesPreserved ==
  ASSUME Inv, [Next]_vars
  PROVE  TypeOK'
<1> USE DEF Inv, TypeOK, Goto, Transition
<1>1. ASSUME NEW p \in Processes, End(p)  PROVE TypeOK'
  <2>1. exit' \in [Agents -> {"none", "zero", "nonzero", "signal"}]
    BY <1>1, ProcessShape DEF End
  <2> QED
    BY <1>1, <2>1 DEF End
<1>2. ASSUME NEW p \in Processes, NEW k \in Children, Fork(p, k)  PROVE TypeOK'
  <2>1. <<p[1], k>> \in Processes
    BY ProcessShape DEF Processes
  <2> QED
    BY <1>2, <2>1 DEF Fork
<1>3. ASSUME NEW a \in Agents, Expire(a)  PROVE TypeOK'
  BY <1>3 DEF Expire, processes
<1>4. ASSUME NEW a \in Agents, Create(a)  PROVE TypeOK'
  BY <1>4 DEF Create, processes
<1>5. ASSUME NEW a \in Agents, CreateFails(a)  PROVE TypeOK'
  BY <1>5 DEF CreateFails, processes
<1>6. ASSUME NEW a \in Agents, StartProcess(a)  PROVE TypeOK'
  BY <1>6, MainIsProcess DEF StartProcess
<1>7. ASSUME NEW a \in Agents, StartFails(a)  PROVE TypeOK'
  BY <1>7 DEF StartFails, processes
<1>8. ASSUME NEW a \in Agents, Attach(a)  PROVE TypeOK'
  BY <1>8 DEF Attach
<1>9. ASSUME NEW a \in Agents, AttachFails(a) \/ Timeout(a)  PROVE TypeOK'
  BY <1>9, KillReaches DEF AttachFails, Timeout
<1>10. ASSUME NEW a \in Agents, Exited(a)  PROVE TypeOK'
  BY <1>10 DEF Exited, Outcome, processes
<1>11. ASSUME NEW a \in Agents, Reaped(a)  PROVE TypeOK'
  BY <1>11 DEF Reaped, processes
<1>12. ASSUME NEW a \in Agents, Cleanup(a)  PROVE TypeOK'
  BY <1>12 DEF Cleanup, processes
<1>13. ASSUME NEW a \in Agents, CopyFails(a)  PROVE TypeOK'
  BY <1>13 DEF CopyFails
<1>14. CASE UNCHANGED vars
  BY <1>14 DEF vars, processes
<1> QED
  BY <1>1, <1>2, <1>3, <1>4, <1>5, <1>6, <1>7, <1>8, <1>9, <1>10, <1>11, <1>12, <1>13, <1>14
  DEF Next, Run

\* Only Create, which may fail, and Cleanup change the cgroups.
LEMMA GroupsPreserved ==
  ASSUME Inv, [Next]_vars
  PROVE  GroupsDiffer' /\ RunHasGroup'
<1> USE DEF Inv, TypeOK, GroupsDiffer, RunHasGroup, OwnGroup, Goto, Transition
<1>0. ASSUME NEW a \in Agents, Available(a), groups' = groups \cup {OwnGroup(a)}
      PROVE  GroupsDiffer'
  <2>1. \A b \in Agents : OwnGroup(b) \in groups => GroupOf[b] # GroupOf[a]
    BY <1>0 DEF Available
  <2>2. \A b \in Agents : OwnGroup(b) = OwnGroup(a) => b = a
    OBVIOUS
  <2> QED
    BY <1>0, <2>1, <2>2
<1>1. ASSUME NEW a \in Agents, Create(a)  PROVE GroupsDiffer' /\ RunHasGroup'
  <2>1. CASE Isolated
    <3>1. Available(a) /\ groups' = groups \cup {OwnGroup(a)}
      BY <1>1, <2>1 DEF Create
    <3>2. GroupsDiffer'
      BY <1>0, <3>1
    <3>3. RunHasGroup'
      BY <1>1, <3>1 DEF Create
    <3> QED
      BY <3>2, <3>3
  <2>2. CASE ~Isolated
    BY <1>1, <2>2 DEF Create
  <2> QED
    BY <2>1, <2>2
<1>2. ASSUME NEW a \in Agents, Cleanup(a)  PROVE GroupsDiffer' /\ RunHasGroup'
  <2>1. \A b \in Agents : b # a /\ OwnGroup(b) \in groups => OwnGroup(b) \in groups'
    BY <1>2 DEF Cleanup
  <2>2. groups' \subseteq groups
    BY <1>2 DEF Cleanup
  <2> QED
    BY <1>2, <2>1, <2>2 DEF Cleanup
<1>3. ASSUME groups' = groups, \A a \in Agents : pc[a] \in {"ready", "returned"}
                                               => pc'[a] \in {"ready", "returned"}
      PROVE GroupsDiffer' /\ RunHasGroup'
  BY <1>3
<1>4. ASSUME NEW p \in Processes, End(p) \/ \E k \in Children : Fork(p, k)
      PROVE GroupsDiffer' /\ RunHasGroup'
  BY <1>3, <1>4 DEF End, Fork
<1>5. ASSUME NEW a \in Agents, CreateFails(a)  PROVE GroupsDiffer' /\ RunHasGroup'
  <2>1. GroupsDiffer'
    BY <1>0, <1>5 DEF CreateFails
  <2>2. groups \subseteq groups' /\ pc' = [pc EXCEPT ![a] = "returned"]
    BY <1>5 DEF CreateFails
  <2> QED
    BY <2>1, <2>2
<1>6. ASSUME NEW a \in Agents,
             Expire(a) \/ CopyFails(a) \/ StartProcess(a) \/ StartFails(a) \/ Attach(a)
             \/ AttachFails(a) \/ Exited(a) \/ Timeout(a) \/ Reaped(a)
      PROVE GroupsDiffer' /\ RunHasGroup'
  BY <1>3, <1>6 DEF Expire, CopyFails, StartProcess, StartFails, Attach, AttachFails,
                    Exited, Timeout, Reaped
<1>7. CASE UNCHANGED vars
  BY <1>7 DEF vars
<1> QED
  BY <1>1, <1>2, <1>4, <1>5, <1>6, <1>7 DEF Next, Run

LEMMA SurvivorsPreserved ==
  ASSUME Inv, [Next]_vars
  PROVE  SurvivorsAreConfined'
<1> USE DEF Inv, TypeOK, SurvivorsAreConfined
<1>1. ASSUME NEW p \in Processes, End(p)  PROVE SurvivorsAreConfined'
  BY <1>1 DEF End
<1>2. ASSUME NEW p \in Processes, NEW k \in Children, Fork(p, k)  PROVE SurvivorsAreConfined'
  BY <1>2 DEF Fork
<1>3. ASSUME NEW a \in Agents, Create(a)  PROVE SurvivorsAreConfined'
  BY <1>3 DEF Create, processes
<1>4. ASSUME NEW a \in Agents, Attach(a)  PROVE SurvivorsAreConfined'
  BY <1>4, MainIsProcess DEF Attach, RunHasGroup, OwnGroup
<1>5. ASSUME NEW a \in Agents, Cleanup(a)  PROVE SurvivorsAreConfined'
  <2>1. CASE groups' = groups
    BY <1>5, <2>1 DEF Cleanup, processes
  <2>2. CASE ~Populated(a) /\ groups' = groups \ {<<GroupOf[a], a>>}
    <3>1. \A p \in member : GroupOf[p[1]] # GroupOf[a]
      BY <2>2 DEF Populated
    <3>2. groups' = groups \ {<<GroupOf[a], a>>} /\ member' = member
      BY <1>5, <2>2 DEF Cleanup, processes
    <3> QED
      BY <3>1, <3>2
  <2> QED
    BY <1>5, <2>1, <2>2 DEF Cleanup
<1>6. ASSUME NEW a \in Agents,
             Expire(a) \/ CopyFails(a) \/ CreateFails(a) \/ StartProcess(a) \/ StartFails(a)
             \/ AttachFails(a) \/ Exited(a) \/ Timeout(a) \/ Reaped(a)
      PROVE SurvivorsAreConfined'
  BY <1>6 DEF Expire, CopyFails, CreateFails, StartProcess, StartFails, AttachFails, Exited,
              Timeout, Reaped, processes
<1>7. CASE UNCHANGED vars
  BY <1>7 DEF vars, processes
<1> QED
  BY <1>1, <1>2, <1>3, <1>4, <1>5, <1>6, <1>7 DEF Next, Run

\* What is forked after the kill comes from a process that the kill has missed.
LEMMA KilledTreesPreserved ==
  ASSUME Inv, [Next]_vars
  PROVE  TreeIsKilled'
<1> USE DEF Inv, TypeOK, TreeIsKilled
<1>1. ASSUME NEW p \in Processes, End(p)  PROVE TreeIsKilled'
  BY <1>1 DEF End, TreeOf
<1>2. ASSUME NEW p \in Processes, NEW k \in Children, Fork(p, k)  PROVE TreeIsKilled'
  <2>1. SUFFICES ASSUME NEW a \in Agents, kill[a] = "whole", NEW q \in TreeOf(a),
                        q \in alive', q \in member'
                 PROVE  q \in doomed
    BY <1>2 DEF Fork, TreeOf
  <2>2. CASE q = <<p[1], k>>
    <3>1. p[1] = a /\ q \notin alive
      BY <1>2, <2>1, <2>2 DEF Fork, TreeOf
    <3>2. p \in member
      BY <1>2, <2>1, <2>2, <3>1 DEF Fork
    <3>3. p \in TreeOf(a) /\ p \in alive /\ p \notin doomed
      BY <1>2, <3>1, ProcessShape DEF Fork
    <3> QED
      BY <2>1, <3>2, <3>3
  <2>3. CASE q # <<p[1], k>>
    BY <1>2, <2>1, <2>3 DEF Fork
  <2> QED
    BY <2>2, <2>3
<1>3. ASSUME NEW a \in Agents, StartProcess(a)  PROVE TreeIsKilled'
  <2>1. SUFFICES ASSUME NEW b \in Agents, kill[b] = "whole", NEW q \in TreeOf(b),
                        q \in alive', q \in member
                 PROVE  q \in doomed
    BY <1>3 DEF StartProcess, TreeOf
  <2>2. q \in alive
    BY <2>1
  <2> QED
    BY <2>1, <2>2
<1>4. ASSUME NEW a \in Agents, Attach(a)  PROVE TreeIsKilled'
  <2>1. kill[a] # "whole"
    BY <1>4 DEF Attach, KillComesLast
  <2>2. SUFFICES ASSUME NEW b \in Agents, kill[b] = "whole", NEW q \in TreeOf(b),
                        q \in alive, q \in member'
                 PROVE  q \in doomed
    BY <1>4 DEF Attach, TreeOf
  <2>3. q # MainOf(a)
    BY <2>1, <2>2, MainIsProcess DEF TreeOf
  <2> QED
    BY <1>4, <2>2, <2>3 DEF Attach
<1>5. ASSUME NEW a \in Agents, AttachFails(a) \/ Timeout(a)  PROVE TreeIsKilled'
  <2>1. Kill(a) /\ alive' = alive /\ member' = member
    BY <1>5 DEF AttachFails, Timeout
  <2>2. PICK what \in {"whole", "process"} : kill' = [kill EXCEPT ![a] = what]
    BY <2>1, KillReaches
  <2>3. doomed \subseteq doomed'
    BY <2>1, KillReaches
  <2>4. \A b \in Agents : b # a => kill'[b] = kill[b]
    BY <2>2
  <2>5. kill'[a] = "whole" => \A q \in TreeOf(a) \cap alive : q \in doomed' \/ q \notin member
    BY <2>1, KillReaches
  <2>6. SUFFICES ASSUME NEW b \in Agents, kill'[b] = "whole", NEW q \in TreeOf(b) \cap alive
                 PROVE  q \in doomed' \/ q \notin member
    BY <2>1 DEF TreeOf
  <2> QED
    BY <2>3, <2>4, <2>5, <2>6
<1>6. ASSUME NEW a \in Agents,
             Expire(a) \/ CopyFails(a) \/ Create(a) \/ CreateFails(a) \/ StartFails(a)
             \/ Exited(a) \/ Reaped(a) \/ Cleanup(a)
      PROVE TreeIsKilled'
  BY <1>6 DEF Expire, CopyFails, Create, CreateFails, StartFails, Exited, Reaped, Cleanup,
              processes, TreeOf
<1>7. CASE UNCHANGED vars
  BY <1>7 DEF vars, processes, TreeOf
<1> QED
  BY <1>1, <1>2, <1>3, <1>4, <1>5, <1>6, <1>7 DEF Next, Run

LEMMA KillsPreserved ==
  ASSUME Inv, [Next]_vars
  PROVE  KillComesLast'
<1> USE DEF Inv, TypeOK, KillComesLast, Goto
<1>1. ASSUME NEW p \in Processes, End(p) \/ \E k \in Children : Fork(p, k)
      PROVE KillComesLast'
  BY <1>1 DEF End, Fork
<1>2. ASSUME NEW a \in Agents, AttachFails(a) \/ Timeout(a)  PROVE KillComesLast'
  <2>1. PICK what \in {"whole", "process"} : kill' = [kill EXCEPT ![a] = what]
    BY <1>2, KillReaches DEF AttachFails, Timeout
  <2> QED
    BY <1>2, <2>1 DEF AttachFails, Timeout
<1>3. ASSUME NEW a \in Agents,
             Expire(a) \/ CopyFails(a) \/ Create(a) \/ CreateFails(a) \/ StartProcess(a)
             \/ StartFails(a) \/ Attach(a) \/ Exited(a) \/ Reaped(a) \/ Cleanup(a)
      PROVE KillComesLast'
  BY <1>3 DEF Expire, CopyFails, Create, CreateFails, StartProcess, StartFails, Attach,
              Exited, Reaped, Cleanup
<1>4. CASE UNCHANGED vars
  BY <1>4 DEF vars
<1> QED
  BY <1>1, <1>2, <1>3, <1>4 DEF Next, Run

LEMMA CompletedPreserved ==
  ASSUME Inv, [Next]_vars
  PROVE  CompletedSound'
<1> USE DEF Inv, TypeOK, CompletedSound, Goto, Transition
<1>1. ASSUME NEW p \in Processes, End(p)  PROVE CompletedSound'
  <2>1. SUFFICES ASSUME NEW a \in Agents, state[a] = "COMPLETED"
                 PROVE  exit'[a] = exit[a]
    BY <1>1 DEF End, TreeOf
  <2>2. p # MainOf(a)
    BY <1>1, <2>1 DEF End
  <2>3. p[2] = Main => p[1] # a
    BY <2>2, ProcessShape DEF MainOf
  <2> QED
    BY <1>1, <2>3, ProcessShape DEF End
<1>2. ASSUME NEW p \in Processes, NEW k \in Children, Fork(p, k)  PROVE CompletedSound'
  <2>1. SUFFICES ASSUME NEW a \in Agents, state[a] = "COMPLETED"
                 PROVE  MainOf(a) \notin alive' /\ TreeOf(a) \cap writer' = {}
    BY <1>2 DEF Fork, TreeOf
  <2>2. MainOf(a) # <<p[1], k>>
    BY MainIsNoChild DEF MainOf
  <2>3. p \in writer => p[1] # a
    BY <2>1, ProcessShape
  <2>4. p[1] # a => <<p[1], k>> \notin TreeOf(a)
    BY DEF TreeOf
  <2> QED
    BY <1>2, <2>1, <2>2, <2>3, <2>4 DEF Fork
<1>3. ASSUME NEW a \in Agents, StartProcess(a)  PROVE CompletedSound'
  <2>1. SUFFICES ASSUME NEW b \in Agents, state[b] = "COMPLETED"
                 PROVE  MainOf(b) \notin alive' /\ TreeOf(b) \cap writer' = {} /\ pc'[b] = pc[b]
    BY <1>3 DEF StartProcess, TreeOf
  <2>2. b # a
    BY <1>3, <2>1 DEF StartProcess
  <2>3. MainOf(b) # MainOf(a) /\ MainOf(a) \notin TreeOf(b)
    BY <2>2 DEF MainOf, TreeOf
  <2> QED
    BY <1>3, <2>1, <2>2, <2>3 DEF StartProcess
<1>4. ASSUME NEW a \in Agents, Exited(a)  PROVE CompletedSound'
  <2>1. \A b \in Agents : b # a => state'[b] = state[b] /\ pc'[b] = pc[b]
    BY <1>4 DEF Exited
  <2>2. pc'[a] = "cleanup" /\ MainOf(a) \notin alive' /\ TreeOf(a) \cap writer' = {}
    BY <1>4 DEF Exited, Waited, processes
  <2>3. state'[a] = "COMPLETED" => exit'[a] = "zero" /\ a \notin broken'
    BY <1>4 DEF Exited, Outcome, processes
  <2>4. alive' = alive /\ writer' = writer /\ exit' = exit /\ broken' = broken
    BY <1>4 DEF Exited, processes
  <2> QED
    BY <2>1, <2>2, <2>3, <2>4 DEF TreeOf
<1>5. ASSUME NEW a \in Agents,
             Expire(a) \/ Create(a) \/ CreateFails(a) \/ StartFails(a) \/ Attach(a)
             \/ AttachFails(a) \/ Timeout(a) \/ Reaped(a) \/ Cleanup(a)
      PROVE CompletedSound'
  <2>1. alive' = alive /\ writer' = writer /\ exit' = exit /\ broken' = broken
    BY <1>5 DEF Expire, Create, CreateFails, StartFails, Attach, AttachFails, Timeout, Reaped,
                Cleanup, processes
  <2>2. \A b \in Agents : state'[b] = "COMPLETED" =>
           state[b] = "COMPLETED" /\ pc'[b] \in {"cleanup", "returned"}
    BY <1>5 DEF Expire, Create, CreateFails, StartFails, Attach, AttachFails, Timeout, Reaped,
                Cleanup
  <2> QED
    BY <2>1, <2>2 DEF TreeOf
<1>6. ASSUME NEW a \in Agents, CopyFails(a)  PROVE CompletedSound'
  <2>1. \A b \in Agents : state[b] = "COMPLETED" => b # a
    BY <1>6 DEF CopyFails
  <2>2. writer' \subseteq writer /\ broken' = broken \cup {a}
    BY <1>6 DEF CopyFails
  <2> QED
    BY <1>6, <2>1, <2>2 DEF CopyFails, TreeOf
<1>7. CASE UNCHANGED vars
  BY <1>7 DEF vars, processes, TreeOf
<1> QED
  BY <1>1, <1>2, <1>3, <1>4, <1>5, <1>6, <1>7 DEF Next, Run

-----------------------------------------------------------------------------
(* The theorems *)

\* Types, cgroups that differ, and the three parts about killing and completion hold in
\* every state, for any Agents and any processes, with and without cgroups.
THEOREM RunnerSafety == Spec => []Inv
<1>1. Inv /\ [Next]_vars => Inv'
  BY TypesPreserved, GroupsPreserved, SurvivorsPreserved, KilledTreesPreserved,
     KillsPreserved, CompletedPreserved DEF Inv
<1> QED
  BY InitInv, <1>1, PTL DEF Spec

\* Every variable of the Runner keeps its type.
THEOREM RunnerTypes == Spec => []TypeOK
<1>1. Inv => TypeOK
  BY DEF Inv
<1> QED
  BY RunnerSafety, <1>1, PTL

\* Two Agents are never in one cgroup, whatever names their IDs are sanitized to.
THEOREM GroupIsPrivateHolds == Spec => []GroupIsPrivate
<1>1. Inv => GroupIsPrivate
  <2>1. SUFFICES ASSUME Inv, NEW p \in member, NEW q \in member, GroupOf[p[1]] = GroupOf[q[1]]
                 PROVE  p[1] = q[1]
    BY DEF GroupIsPrivate
  <2>2. p \in Processes /\ q \in Processes
    BY <2>1 DEF Inv, TypeOK
  <2>3. p[1] \in Agents /\ q[1] \in Agents
    BY <2>2, ProcessShape
  <2>4. OwnGroup(p[1]) \in groups /\ OwnGroup(q[1]) \in groups
    BY <2>1 DEF Inv, SurvivorsAreConfined, OwnGroup
  <2> QED
    BY <2>1, <2>3, <2>4 DEF Inv, GroupsDiffer
<1> QED
  BY RunnerSafety, <1>1, PTL

\* After the kill of its cgroup nothing of an Agent goes on in that cgroup.
THEOREM TreeIsKilledHolds == Spec => []TreeIsKilled
<1>1. Inv => TreeIsKilled
  BY DEF Inv
<1> QED
  BY RunnerSafety, <1>1, PTL

\* What outlives a Run in its cgroup stays in a cgroup of its own Agent.
THEOREM SurvivorsAreConfinedHolds == Spec => []SurvivorsAreConfined
<1>1. Inv => SurvivorsAreConfined
  BY DEF Inv
<1> QED
  BY RunnerSafety, <1>1, PTL

\* COMPLETED means exit code zero, the output copied and nobody left who can write to the log.
THEOREM CompletedIsSilentHolds == Spec => []CompletedIsSilent
<1>1. Inv => CompletedIsSilent
  BY DEF Inv, CompletedSound, CompletedIsSilent
<1> QED
  BY RunnerSafety, <1>1, PTL
===============================================================================
