---------------------------- MODULE MCAgentTask -----------------------------
(***************************************************************************)
(* AgentTask with grants of every sign: one that lowers the budget, one    *)
(* that counts as absent, and one that raises it by two (by one is the     *)
(* default).                                                               *)
(***************************************************************************)
EXTENDS AgentTask

MCExtras == {-1, 0, 2}
=============================================================================
