--------------------------- MODULE RequestServer ----------------------------
(***************************************************************************)
(* What the servers of ipc/ and rm_intro/ owe their clients, with nothing  *)
(* of channels, rcvids, pulses and mutexes: a request is answered once,    *)
(* with an answer that this client's request calls for, unless the client  *)
(* goes away first; nobody is answered who has not asked.                  *)
(***************************************************************************)
CONSTANTS
  Clients,
  NoAnswer     \* a client that has not been told anything

VARIABLES
  due,         \* the answers each client's open request allows, {} if it has none
  answer       \* what each client was last told

serverVars == <<due, answer>>

Init ==
  /\ due = [c \in Clients |-> {}]
  /\ answer = [c \in Clients |-> NoAnswer]

\* A client asks; what it may be answered is fixed from then on.
Ask(c) ==
  /\ due[c] = {} /\ due'[c] # {}
  /\ due' = [due EXCEPT ![c] = due'[c]]
  /\ UNCHANGED answer

Serve(c) ==
  /\ answer'[c] \in due[c]
  /\ answer' = [answer EXCEPT ![c] = answer'[c]]
  /\ due' = [due EXCEPT ![c] = {}]

\* A client goes away, with or without an open request.
Leave(c) ==
  /\ due' = [due EXCEPT ![c] = {}]
  /\ answer' = [answer EXCEPT ![c] = NoAnswer]

Next == \E c \in Clients : Ask(c) \/ Serve(c) \/ Leave(c)

Safe == Init /\ [][Next]_serverVars

\* No request stays open for ever.
Served == \A c \in Clients : (due[c] # {}) ~> (due[c] = {})

Spec == Safe /\ Served
=============================================================================
