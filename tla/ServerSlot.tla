----------------------------- MODULE ServerSlot -----------------------------
(***************************************************************************)
(* What MCPClientPool (client_pool.py) promises about one server, with its *)
(* host tasks, its lock and its waits left out: the calls share one        *)
(* connection at a time; a call that finds it lost may put it out of       *)
(* service, and sends its second and last attempt on a connection opened   *)
(* for it; what is out of service never comes back.                        *)
(***************************************************************************)
CONSTANTS
  Callers,      \* coroutines that call tools of the server
  Connections,  \* one for each attempt to connect
  None          \* no connection: not one of Connections

VARIABLES
  current,  \* the connection in service
  last,     \* the connection the next call goes to, perhaps a retired one
  retired,  \* connections that are never in service again
  phase,    \* phase[c]: "idle", "first" attempt, "lost" it, "second" attempt
  on        \* on[c]: the connection the attempt of c was sent on

vars == <<current, last, retired, phase, on>>

Init ==
  /\ current = None /\ last = None /\ retired = {}
  /\ phase = [c \in Callers |-> "idle"]
  /\ on = [c \in Callers |-> None]

Moves(c, p, h) ==
  /\ phase' = [phase EXCEPT ![c] = p]
  /\ on' = [on EXCEPT ![c] = h]

Opens(h) ==
  /\ current = None /\ h \notin retired
  /\ current' = h /\ last' = h
  /\ UNCHANGED retired

(* The connection of startup().                                            *)
FirstConnection(h) == last = None /\ Opens(h) /\ UNCHANGED <<phase, on>>

Begin(c) ==
  /\ phase[c] = "idle" /\ last # None
  /\ Moves(c, "first", last)
  /\ UNCHANGED <<current, last, retired>>

Lose(c) ==
  /\ phase[c] = "first"
  /\ Moves(c, "lost", None)
  /\ UNCHANGED <<current, last, retired>>

Retire(c) ==
  /\ phase[c] = "lost"
  /\ current' = None
  /\ retired' = retired \cup ({current} \ {None})
  /\ UNCHANGED <<last, phase, on>>

(* The new connection and the second attempt on it are one step.           *)
Reconnect(c, h) == phase[c] = "lost" /\ Opens(h) /\ Moves(c, "second", h)

(* A connection that failed to open, or whose opener was cancelled.        *)
Discards(h) ==
  /\ h # current
  /\ retired' = retired \cup {h}
  /\ UNCHANGED <<current, last>>

Discard(h) == Discards(h) /\ UNCHANGED <<phase, on>>
Fail(c, h) == phase[c] = "lost" /\ Discards(h) /\ Moves(c, "idle", None)

End(c) ==
  /\ phase[c] # "idle"
  /\ Moves(c, "idle", None)
  /\ UNCHANGED <<current, last, retired>>

Close ==
  /\ current' = None /\ last' = None
  /\ retired' = retired \cup ({current} \ {None})
  /\ UNCHANGED <<phase, on>>

Next ==
  \/ \E h \in Connections : FirstConnection(h) \/ Discard(h)
  \/ \E c \in Callers : Begin(c) \/ Lose(c) \/ Retire(c) \/ End(c)
  \/ \E c \in Callers, h \in Connections : Reconnect(c, h) \/ Fail(c, h)
  \/ Close

Spec == Init /\ [][Next]_vars
=============================================================================
