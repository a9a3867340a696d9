-------------------------- MODULE MCPolicyExecution --------------------------
(* Instance of PolicyExecution: no binding is ever committed here. *)
EXTENDS PolicyExecution

MCBindings == {}
=============================================================================
