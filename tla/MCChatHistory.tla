---------------------------- MODULE MCChatHistory ----------------------------
(* One chat; answers are longer than the other messages, and the system's  *)
(* message may be too long by itself.                                      *)
EXTENDS ChatHistory

CONSTANT c1

MCChats == {c1}
MCSizes == [role \in Roles |-> CASE role = "tool" -> {2}
                              [] role = "system" -> {1, 9}
                              [] OTHER -> {1}]
==============================================================================
