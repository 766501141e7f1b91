--------------------------- MODULE ConversationLog ---------------------------
(***************************************************************************)
(* What a gateway session promises the trainer, with nothing said of how:  *)
(* a set of conversations, each a sequence of labelled response tokens     *)
(* that only ever grows at its end, by one whole turn of one generation at *)
(* a time.  A conversation may be closed, after which its tokens never     *)
(* change; the whole log is sealed once, closing what is still open, or    *)
(* discarded.  There is no lock here, no reservation and no request in     *)
(* flight: turns are atomic.  GatewaySession implements this module.       *)
(***************************************************************************)
EXTENDS Integers, Sequences

CONSTANTS Generations, \* the generations a backend may be asked for
          Context      \* the label of a token no generation produced

VARIABLES open,     \* open[c]: the tokens of the open conversation c
          closed,   \* closed conversations: records [chain, ids]
          answered, \* the generations whose turn was taken into the log
          status    \* "ACTIVE", "FINALIZED" (sealed) or "ABORTED" (discarded)

logVars == <<open, closed, answered, status>>

(* new is old followed by one turn of generation r: the context tokens the *)
(* client added, then the tokens of r.                                     *)
IsTurn(r, old, new) ==
    /\ Len(old) <= Len(new)
    /\ \A i \in 1..Len(old) : new[i] = old[i]
    /\ \E k \in Len(old)..Len(new) :
          \A i \in Len(old)+1..Len(new) : new[i] = IF i <= k THEN Context ELSE r

LogInit ==
    /\ open = [c \in {} |-> <<>>]
    /\ closed = {}
    /\ answered = {}
    /\ status = "ACTIVE"

(* Generation r is taken into the log once, as one turn at the end of one  *)
(* conversation: an open one, or a new one with an unused identifier.      *)
Turn(r) ==
    /\ status = "ACTIVE"
    /\ r \notin answered
    /\ answered' = answered \cup {r}
    /\ \E c \in DOMAIN open' :
          /\ DOMAIN open' = DOMAIN open \cup {c}
          /\ \A d \in DOMAIN open \ {c} : open'[d] = open[d]
          /\ IF c \in DOMAIN open
             THEN IsTurn(r, open[c], open'[c])
             ELSE /\ IsTurn(r, <<>>, open'[c])
                  /\ \A k \in closed : k.chain # c
    /\ UNCHANGED <<closed, status>>

(* A conversation that has used up its budget is closed as it stands.      *)
Close(c) ==
    /\ status = "ACTIVE"
    /\ open' = [d \in DOMAIN open \ {c} |-> open[d]]
    /\ closed' = closed \cup {[chain |-> c, ids |-> open[c]]}
    /\ UNCHANGED <<answered, status>>

(* Sealing keeps every conversation, open or closed.                       *)
Seal ==
    /\ status = "ACTIVE"
    /\ status' = "FINALIZED"
    /\ closed' = closed \cup {[chain |-> c, ids |-> open[c]] : c \in DOMAIN open}
    /\ open' = [c \in {} |-> <<>>]
    /\ UNCHANGED answered

Discard ==
    /\ status = "ACTIVE"
    /\ status' = "ABORTED"
    /\ closed' = {}
    /\ open' = [c \in {} |-> <<>>]
    /\ UNCHANGED answered

LogNext ==
    \/ \E r \in Generations : Turn(r)
    \/ \E c \in DOMAIN open : Close(c)
    \/ Seal
    \/ Discard

LogSpec == LogInit /\ [][LogNext]_logVars
=============================================================================
