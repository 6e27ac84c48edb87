------------------------------ MODULE MCWorkspaces ------------------------------
(* One goroutine that executes an Agent, and one that only calls the store. *)
EXTENDS Workspaces

CONSTANTS x

MCWanted == [a \in Agents |-> {x}]
===============================================================================
