----------------------------- MODULE MCCapsScheduler -----------------------------
(* Nobody waits for a dependency.  Two heavy Agents and a light one; the second and the
   third share a context, but do not agree on its size. *)
EXTENDS CapsScheduler, TLC

Heavy == [r \in Resources |-> 100]
Light == [r \in Resources |-> 0]
MCDemand == <<Heavy, Heavy, Light>>

Small == [key |-> 1, digest |-> 1, size |-> 1]
Large == [key |-> 2, digest |-> 1, size |-> 8]

\* Contexts as the resolver returns them, normalized.
MCJobs ==
  {[agent |-> 1, deps |-> {}, ctxs |-> {}],
   [agent |-> 2, deps |-> {}, ctxs |-> NormalizeRefs({Small})],
   [agent |-> 3, deps |-> {}, ctxs |-> NormalizeRefs({Small, Large})]}
MCContexts == UNION {j.ctxs : j \in MCJobs}

Level(percent) == [some |-> percent, full |-> 0]
MCSamples ==
  {[r \in Resources |-> Level(0)], [r \in Resources |-> [some |-> 40, full |-> 40]],
   [r \in Resources |-> Level(IF r = "CPU" THEN 50 ELSE 0)]}

GoroutineSymmetry == Permutations(Clients)
===============================================================================
