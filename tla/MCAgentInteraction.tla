-------------------------- MODULE MCAgentInteraction --------------------------
(* Instances of AgentInteraction for TLC: training runs (calls parsed out  *)
(* of the text, single shot), evaluation over an API (structured calls,    *)
(* single shot) and chat turns (structured calls, chat).                   *)
EXTENDS AgentInteraction

Training == [structured |-> FALSE, chat |-> FALSE]
Evaluation == [structured |-> TRUE, chat |-> FALSE]
ChatTurn == [structured |-> TRUE, chat |-> TRUE]

MCModes == {Training, Evaluation, ChatTurn}
===============================================================================
