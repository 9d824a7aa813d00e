---------------------------- MODULE RemoteCalls ----------------------------
(***************************************************************************)
(* What a run in subprocess isolation promises about its tool calls, with  *)
(* the child, the pipe and the threads left out: the calls that are sent   *)
(* wait in a queue and are performed from its head, one at a time and each *)
(* at most once; the result is sealed behind the last of them and is read  *)
(* when all of them have been performed, those included that the code no   *)
(* longer waits for; and nothing is performed after any outcome of the     *)
(* run.                                                                    *)
(***************************************************************************)
EXTENDS Naturals, Sequences

CONSTANTS MaxCalls, Undecided

VARIABLES
  made,       \* number of the last call made
  queue,      \* calls sent and not yet taken up, in order
  performed,  \* the last call performed or being performed
  busy,       \* it is under way
  sealed,     \* the run's result is behind the queue, or was read
  outcome     \* Undecided, "report", or what befell the run

vars == <<made, queue, performed, busy, sealed, outcome>>

Init ==
  /\ made = 0 /\ queue = <<>> /\ performed = 0
  /\ busy = FALSE /\ sealed = FALSE
  /\ outcome = Undecided

Make ==
  /\ ~sealed /\ made < MaxCalls
  /\ made' = made + 1
  /\ queue' = Append(queue, made')
  /\ UNCHANGED <<performed, busy, sealed, outcome>>

(* A call that cannot be sent has a number and is never performed.         *)
Refuse ==
  /\ ~sealed /\ made < MaxCalls
  /\ made' = made + 1
  /\ UNCHANGED <<queue, performed, busy, sealed, outcome>>

Perform ==
  /\ outcome = Undecided /\ ~busy /\ queue # <<>>
  /\ performed' = Head(queue)
  /\ queue' = Tail(queue)
  /\ busy' = TRUE
  /\ UNCHANGED <<made, sealed, outcome>>

Return ==
  /\ busy
  /\ busy' = FALSE
  /\ UNCHANGED <<made, queue, performed, sealed, outcome>>

(* The code has ended: no call is made any more.                           *)
Seal ==
  /\ ~sealed
  /\ sealed' = TRUE
  /\ UNCHANGED <<made, queue, performed, busy, outcome>>

Report ==
  /\ outcome = Undecided /\ sealed /\ ~busy /\ queue = <<>>
  /\ outcome' = "report"
  /\ UNCHANGED <<made, queue, performed, busy, sealed>>

(* A call under way when the run ends otherwise is cut short.              *)
Break ==
  /\ outcome = Undecided
  /\ outcome' \in {"died", "isolation", "timeout", "cancelled"}
  /\ busy' = FALSE
  /\ UNCHANGED <<made, queue, performed, sealed>>

Next == Make \/ Refuse \/ Perform \/ Return \/ Seal \/ Report \/ Break

(* Every run comes to an outcome.                                          *)
Spec == Init /\ [][Next]_vars /\ WF_vars(Report \/ Break)
=============================================================================
