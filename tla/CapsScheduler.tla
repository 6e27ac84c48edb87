------------------------------ MODULE CapsScheduler ------------------------------
(***************************************************************************)
(* The Scheduler with the policies of internal/scheduler/policy.go and the *)
(* clock, the pressure samples and the context registry that they look at. *)
(* Every behaviour is one of Scheduler with FifoPolicy FALSE.              *)
(*                                                                         *)
(* Scores are in hundredths: percentages of pressure and of demand, and    *)
(* seconds of waiting at the default of AgingPerSecond.                    *)
(***************************************************************************)
EXTENDS Scheduler, ContextRegistry

CONSTANTS
  Demand,     \* the Demand of each Agent, in percent of each resource
  Samples,    \* what the pressure source may return
  Passing     \* by how many seconds time may go on

Resources == {"CPU", "Memory", "IO"}
AffinityWeight == 35
FullWeight == 2
MaxBonus == 300

ASSUME DemandShape == Demand \in [Agents -> [Resources -> 0 .. 100]]
ASSUME SampleShape == Samples \subseteq [Resources -> [some : 0 .. 100, full : 0 .. 100]]
ASSUME TimePassesForward == Passing \subseteq Nat \ {0}
ASSUME ContextsAreRefs ==
  /\ Contexts \subseteq [key : Nat, digest : Nat, size : Nat]
  /\ ~Malformed(Contexts)
  /\ IsFiniteSet(Contexts)

VARIABLES
  policy,  \* Options.Policy
  asked,   \* how long ago the Submit that each client is in has read the clock
  waited   \* how long ago that was for each Agent in the queue
           \* (both stop at MaxBonus, since no policy tells more)

allVars == <<vars, policy, asked, waited>>

CapsInit ==
  /\ Init
  /\ policy \in {"FIFO", "CAPS"}
  /\ asked = [c \in Clients |-> 0]
  /\ waited = [a \in Agents |-> 0]

-----------------------------------------------------------------------------
(* The scores *)

PressureLevel(r) == Min({r.some + FullWeight * r.full, 100})

PressurePenalty(a, sample) ==
  SumFunction([r \in Resources |-> (PressureLevel(sample[r]) * Demand[a][r]) \div 100])

AffinityBenefit(a) == WeightedAffinity(AffinityWeight, warm, contexts[a])

AgeBonus(a) == Min({waited[a], MaxBonus})

Score(a, sample) == PressurePenalty(a, sample) - AffinityBenefit(a) - AgeBonus(a)

Candidates == {queue[i] : i \in Runnable}

\* FIFO: the first sequence number.  CAPS: the lowest score, and of equal ones the first
\* sequence number.
Preferred(a, b, sample) ==
  \/ policy = "CAPS" /\ Score(a, sample) < Score(b, sample)
  \/ /\ policy = "CAPS" => Score(a, sample) = Score(b, sample)
     /\ seqOf[a] <= seqOf[b]

Select(sample) == CHOOSE a \in Candidates : \A b \in Candidates : Preferred(a, b, sample)

-----------------------------------------------------------------------------
(* The Scheduler's steps *)

Leaves(a) == phase[a] = "QUEUED" /\ phase'[a] # "QUEUED"

\* Whoever leaves the queue takes its waiting time along.
Waiting == waited' = [a \in Agents |-> IF Leaves(a) THEN 0 ELSE waited[a]]

\* take samples the pressure and lets the policy select, while it holds s.mu.
Take(w) ==
  /\ Dispatch(w) \/ BlockUndeliverable(w)
  /\ \E sample \in Samples : Leaves(Select(sample))
  /\ Waiting
  /\ UNCHANGED <<policy, asked>>

Rest(w) ==
  /\ \/ TakeLock(w) \/ BlockUnrunnable(w) \/ Exit(w) \/ Park(w)
     \/ Load(w) \/ Finish(w) \/ PendingDone(w)
  /\ Waiting
  /\ UNCHANGED <<policy, asked>>

\* Submit reads the clock before it takes s.mu.
Submitting(c) ==
  /\ SubmitUnlocked(c)
  /\ UNCHANGED <<policy, asked, waited>>

Accepted(c) ==
  /\ SubmitAccepted(c)
  /\ waited' = [waited EXCEPT ![submission[c].agent] = asked[c]]
  /\ asked' = [asked EXCEPT ![c] = 0]
  /\ UNCHANGED policy

Otherwise(c) ==
  /\ Start(c) \/ SubmitRefused(c) \/ WaitCall(c) \/ WaitReturn(c) \/ Stop(c) \/ StopReturn(c)
  /\ asked' = [asked EXCEPT ![c] = 0]
  /\ UNCHANGED <<policy, waited>>

TimePasses ==
  /\ \E s \in Passing :
       /\ asked' = [c \in Clients |-> IF client[c] = "submit" THEN Min({asked[c] + s, MaxBonus})
                                      ELSE 0]
       /\ waited' = [a \in Agents |-> IF phase[a] = "QUEUED" THEN Min({waited[a] + s, MaxBonus})
                                      ELSE 0]
  /\ UNCHANGED <<vars, policy>>

CapsNext ==
  \/ \E w \in Workers : Take(w) \/ Rest(w)
  \/ \E c \in Clients : Submitting(c) \/ Accepted(c) \/ Otherwise(c)
  \/ TimePasses

CapsSpec == CapsInit /\ [][CapsNext]_allVars

-----------------------------------------------------------------------------
(* What must hold *)

\* The most that the pressure and the registry can speak for b and against a.
Advantage(b, a) ==
  SumFunction([r \in Resources |-> Max({Demand[a][r] - Demand[b][r], 0})])
  + IF contexts[b] = {} THEN 0 ELSE AffinityWeight

\* An Agent that waits for nothing is not overtaken under FIFO.  Under CAPS it is, but
\* only while the lead that it has by waiting is less than the advantage of the other in
\* demand and in warm contexts; among equals by none that asked later.  The lead is lost
\* when the other has waited for the full bonus too: then the lighter one goes first.
OvertakingIsBounded ==
  [][\A a \in InPhase("QUEUED"), b \in Agents :
       dependsOn[a] = {} /\ seqOf[a] < seqOf[b] /\ Leaves(b) /\ phase'[b] = "RUNNING"
         => policy = "CAPS" /\ AgeBonus(a) - AgeBonus(b) < Advantage(b, a)]_allVars
===============================================================================
