----------------------------- MODULE MCAgentRun -----------------------------
(***************************************************************************)
(* Instances of AgentRun for TLC: what an agent's process writes is prose  *)
(* about the network, events about the network and about quotas, and the   *)
(* envelope of failures with and without a reason.                         *)
(***************************************************************************)
EXTENDS AgentRun

MCSpoken ==
  {Line("none", "net", FALSE, ""), Line("event", "net", FALSE, ""),
   Line("event", "quota", FALSE, ""), Line("result", "", TRUE, "api_error"),
   Line("result", "net", TRUE, "")}
=============================================================================
