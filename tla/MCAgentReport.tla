----------------------------- MODULE MCAgentReport -----------------------------
(* Instances of AgentReport for TLC.                                          *)
EXTENDS AgentReport, TLC

Machine(opencode, config, skills) ==
  [opencode |-> opencode, config |-> config, skills |-> skills]

\* Each finding of each check occurs, and opencode.json with entries of one
\* kind only.
SampleMachines ==
  {Machine("absent", Missing, "none"), Machine("cannot run", Garbled, "unreadable"),
   Machine("fails", {"providers"}, "some"), Machine("hangs", {"mcp_servers"}, "none"),
   Machine("works", {"providers", "mcp_servers"}, "some")}

Symmetry == Permutations(Agents) \cup Permutations(Codes)
=============================================================================
