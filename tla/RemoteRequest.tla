---------------------------- MODULE RemoteRequest ----------------------------
(***************************************************************************)
(* RemoteRuntime._request (deployment/remote_runtime.py): a call to the    *)
(* server in a sandbox.  Every call of _request draws one X-Request-ID,    *)
(* "idempotency key for the request", and sends it with each try.  When the*)
(* connection breaks (aiohttp.ClientError, which an error status is too)   *)
(* the call is tried again, whether or not the server has read it; any     *)
(* other exception, a timeout among them, is raised at once.               *)
(*                                                                         *)
(* The network and the server are external: a message is read late or      *)
(* never, also when its sender no longer waits, and the server runs a key  *)
(* once and answers a repetition with what it answered before.  A module   *)
(* that INSTANCEs this one says when a server is there to read.            *)
(***************************************************************************)
EXTENDS Integers

CONSTANTS
    Runtimes,  \* the servers of the sandboxes, each with a client that makes one call
    Retries,   \* client_error_retries
    None

VARIABLES
    call,  \* the call a runtime's client awaits, or None
    net,   \* messages sent and not read
    seen,  \* keys the servers have run
    ran    \* history: how often a server ran its call

requestVars == <<call, net, seen, ran>>

RequestInit ==
    /\ call = [s \in Runtimes |-> None]
    /\ net = {}
    /\ seen = {}
    /\ ran = [s \in Runtimes |-> 0]

\* Mutant: the key is drawn inside the loop.
FreshKey(s, try) == <<s, try>>

(* One key for all the tries of a call.                                    *)
Key(s, try) == <<s>>

Message(s, try) == [to |-> s, try |-> try, key |-> Key(s, try)]

Try(s, try) ==
    /\ call' = [call EXCEPT ![s] = [try |-> try, answered |-> FALSE]]
    /\ net' = net \cup {Message(s, try)}
    /\ UNCHANGED <<seen, ran>>

Post(s) == call[s] = None /\ Try(s, 0)

(* ClientError, and the same request after a pause.                        *)
Retry(s) ==
    /\ call[s] # None /\ call[s].try < Retries
    /\ Try(s, call[s].try + 1)

(* ClientError for the last time, any other exception, or cancellation.    *)
RequestRaises(s) ==
    /\ call[s] # None
    /\ call' = [call EXCEPT ![s] = None]
    /\ UNCHANGED <<net, seen, ran>>

RequestReturns(s) ==
    /\ call[s] # None /\ call[s].answered
    /\ call' = [call EXCEPT ![s] = None]
    /\ UNCHANGED <<net, seen, ran>>

Awaited(m) == call[m.to] # None /\ call[m.to].try = m.try

(* The server reads a message.                                             *)
Serve(m) ==
    /\ m \in net
    /\ net' = net \ {m}
    /\ seen' = seen \cup {m.key}
    /\ ran' = IF m.key \in seen THEN ran ELSE [ran EXCEPT ![m.to] = @ + 1]
    /\ call' = IF Awaited(m) THEN [call EXCEPT ![m.to].answered = TRUE] ELSE call

(* Servers go, and with them what they knew and what was on its way.       *)
Unplug(gone) ==
    /\ net' = {m \in net : m.to \notin gone}
    /\ seen' = {key \in seen : key[1] \notin gone}
    /\ UNCHANGED <<call, ran>>

RequestTypeOK ==
    /\ \A s \in Runtimes :
          call[s] # None => call[s] \in [try : 0 .. Retries, answered : BOOLEAN]
    /\ \A m \in net : m.to \in Runtimes /\ m.try \in 0 .. Retries
    /\ \A s \in Runtimes : ran[s] \in 0 .. Retries + 1
===============================================================================
