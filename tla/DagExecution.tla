----------------------------- MODULE DagExecution -----------------------------
(***************************************************************************)
(* What the Scheduler promises about a graph of Agents, with no queue, no  *)
(* lock, no worker and no client in sight: an Agent is accepted once, with *)
(* dependencies that are already known; it begins only when every one of   *)
(* them has succeeded with a verified output; it is blocked only when one  *)
(* of them can no longer deliver; and whatever it ends as, it stays.       *)
(* Module Scheduler is shown to implement this one.                        *)
(***************************************************************************)
EXTENDS Naturals, FiniteSets

CONSTANTS
  Agents,         \* the Agent IDs
  QueueCapacity,  \* how many accepted Agents may wait at once
  Parallelism     \* how many Agents may execute at once

VARIABLES
  phase,      \* phase[a]: the Agent's lifecycle phase, "ABSENT" before acceptance
  dependsOn,  \* dependsOn[a]: the Agents it waits for
  output      \* output[a]: what became of its output

vars == <<phase, dependsOn, output>>

\* An output that was committed, and passed the verification that follows.
\* "UNENCODABLE" passed it too, but its description cannot be handed on.
Verified == {"VERIFIED", "UNENCODABLE"}

Ended == {"SUCCEEDED", "FAILED", "BLOCKED"}

InPhase(p) == {a \in Agents : phase[a] = p}

\* A dependency that delivers, and one that never will.
Delivers(d) == phase[d] = "SUCCEEDED" /\ output[d] \in Verified
CannotDeliver(d) == phase[d] \in Ended /\ ~Delivers(d)

Init ==
  /\ phase = [a \in Agents |-> "ABSENT"]
  /\ dependsOn = [a \in Agents |-> {}]
  /\ output = [a \in Agents |-> "NONE"]

Accept(a, deps) ==
  /\ phase[a] = "ABSENT"
  /\ \A d \in deps : phase[d] # "ABSENT"
  /\ Cardinality(InPhase("QUEUED")) < QueueCapacity
  /\ phase' = [phase EXCEPT ![a] = "QUEUED"]
  /\ dependsOn' = [dependsOn EXCEPT ![a] = deps]
  /\ UNCHANGED output

Begin(a) ==
  /\ phase[a] = "QUEUED"
  /\ \A d \in dependsOn[a] : Delivers(d) /\ output[d] = "VERIFIED"
  /\ Cardinality(InPhase("RUNNING")) < Parallelism
  /\ phase' = [phase EXCEPT ![a] = "RUNNING"]
  /\ UNCHANGED <<dependsOn, output>>

\* A verified output never belongs to a failure, and a success never rests on
\* an output that was committed but not verified.
End(a) ==
  /\ phase[a] = "RUNNING"
  /\ \/ /\ phase' = [phase EXCEPT ![a] = "SUCCEEDED"]
        /\ \E o \in Verified \cup {"NONE"} : output' = [output EXCEPT ![a] = o]
     \/ /\ phase' = [phase EXCEPT ![a] = "FAILED"]
        /\ \E o \in {"NONE", "COMMITTED"} : output' = [output EXCEPT ![a] = o]
  /\ UNCHANGED dependsOn

Block(a) ==
  /\ phase[a] = "QUEUED"
  /\ \E d \in dependsOn[a] : CannotDeliver(d) \/ output[d] = "UNENCODABLE"
  /\ phase' = [phase EXCEPT ![a] = "BLOCKED"]
  /\ UNCHANGED <<dependsOn, output>>

Next ==
  \E a \in Agents :
    \/ \E deps \in SUBSET (Agents \ {a}) : Accept(a, deps)
    \/ Begin(a)
    \/ End(a)
    \/ Block(a)

Spec == Init /\ [][Next]_vars
===============================================================================
