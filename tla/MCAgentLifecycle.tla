-------------------------- MODULE MCAgentLifecycle --------------------------
(***************************************************************************)
(* The components, steps and threads are those of the agent.               *)
(***************************************************************************)
EXTENDS AgentLifecycle

=============================================================================
