--------------------------- MODULE MCGatewaySession ---------------------------
(***************************************************************************)
(* Instances of GatewaySession for TLC.  Four calls are enough for every   *)
(* branch of _select_chain and of the preparation: a first prompt, its     *)
(* continuation with an echo of the reply that differs only before         *)
(* canonicalization, a continuation that adds no message, and a prompt     *)
(* under other tools; with and without log-probabilities.                  *)
(***************************************************************************)
EXTENDS GatewaySession, TLC

CONSTANTS user, more, reply, echo, \* messages; echo is reply, with fresh call ids
          agentTools, otherTools

MCMessages == {user, more, reply, echo}
MCCanonicalForm == [m \in MCMessages |-> IF m = echo THEN reply ELSE m]

MCCall(messages, tools, logprobs) ==
    [messages |-> messages, tools |-> tools, logprobs |-> logprobs]

MCCalls == {MCCall(<<user>>, agentTools, TRUE),
            MCCall(<<user, echo, more>>, agentTools, FALSE),
            MCCall(<<user, reply, more, reply>>, agentTools, TRUE),
            MCCall(<<user>>, otherTools, FALSE)}

\* Fewer calls for liveness: a prompt and its continuation.
MCFewCalls == {MCCall(<<user>>, agentTools, TRUE),
               MCCall(<<user, echo, more>>, agentTools, FALSE)}

RequestSymmetry == Permutations(Requests)
===============================================================================
