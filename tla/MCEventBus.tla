------------------------------- MODULE MCEventBus -------------------------------
(* The bus with publishers that run concurrently. *)
EXTENDS EventBus, TLC

PublisherSymmetry == Permutations(Publishers)
===============================================================================
