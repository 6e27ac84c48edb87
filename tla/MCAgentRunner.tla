------------------------------ MODULE MCAgentRunner ------------------------------
(* Agents whose IDs are sanitized to the same cgroup name. *)
EXTENDS AgentRunner

CONSTANTS a, b, k, l, g

MCGroupOf == [x \in Agents |-> g]
MCChildrenOf == [x \in Agents |-> IF x = a THEN {k, l} ELSE {k}]
===============================================================================
