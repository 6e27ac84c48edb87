----------------------------- MODULE MCScheduler -----------------------------
(***************************************************************************)
(* Instances of Scheduler for TLC.                                         *)
(***************************************************************************)
EXTENDS Scheduler, TLC

\* Any Agent with any dependencies, unknown ones and itself included.
AnyGraph == [agent : Agents, deps : SUBSET Agents, ctxs : {{}}]

\* Two Agents and any contexts, so that an accepted Agent may be submitted again, by
\* another client and with other contexts.
Rebound ==
  {j \in [agent : Agents, deps : SUBSET Agents, ctxs : SUBSET Contexts] : j.deps \subseteq {1}}

\* 1 waits for 2 and 3.  2 comes first in ID order: while it is unfinished it hides the
\* fate of 3.  Each Agent has one context of its own, whoever submits it.
Joined ==
  [agent : {2}, deps : {{}}, ctxs : {{2}}] \cup [agent : {3}, deps : {{}}, ctxs : {{3}}]
  \cup [agent : {1}, deps : {{2, 3}}, ctxs : {{1}}]

GoroutineSymmetry == Permutations(Workers) \cup Permutations(Clients)
===============================================================================
