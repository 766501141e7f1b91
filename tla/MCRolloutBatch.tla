---------------------------- MODULE MCRolloutBatch ----------------------------
(* Instances of RolloutBatch for TLC: two prompts that share a runner with *)
(* one permit, or one of which names a runner without limit, or one that is*)
(* not configured.                                                         *)
EXTENDS RolloutBatch

CONSTANTS p1, p2, agent, unlimited

MCPrompts == {p1, p2}
MCRunners == {agent, unlimited}
MCAgentNames == {[p \in MCPrompts |-> IF p = p1 THEN agent ELSE r] : r \in MCRunners \cup {None}}
MCTwoRunners == {[p \in MCPrompts |-> IF p = p1 THEN agent ELSE unlimited]}
MCCap == [r \in MCRunners |-> IF r = agent THEN 1 ELSE 0]
===============================================================================
