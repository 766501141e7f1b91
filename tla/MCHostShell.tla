----------------------------- MODULE MCHostShell -----------------------------
(* Two calls, one after the other in the shell, in either order.           *)
EXTENDS HostShell

CONSTANTS c1, c2

MCCalls == {c1, c2}
===============================================================================
