--------------------------- MODULE TelegramChannel ---------------------------
(***************************************************************************)
(* What a TCP channel promises to the handlers of telegrams: each client's *)
(* telegrams are handed over once, whole, in the order they were sent and  *)
(* without help from other clients; those with unknown numbers are left    *)
(* out.  A closed connection loses what was on its way.                    *)
(***************************************************************************)
EXTENDS Naturals, Sequences

CONSTANTS
  Clients,
  Telegrams,
  Known   \* the telegrams the handlers know

VARIABLES queue,     \* telegrams of each client on their way
          received   \* telegrams of each client handed over

vars == <<queue, received>>

Init ==
  /\ queue = [c \in Clients |-> <<>>]
  /\ received = [c \in Clients |-> <<>>]

Send(c, t) ==
  /\ queue' = [queue EXCEPT ![c] = Append(@, t)]
  /\ UNCHANGED received

\* Of the first n telegrams of a queue, those that are handed over
HandedOver(q) ==
  LET handed[n \in 0 .. Len(q)] ==
        IF n = 0 THEN <<>>
        ELSE IF q[n] \in Known THEN Append(handed[n - 1], q[n]) ELSE handed[n - 1]
  IN  handed

\* One read may complete several telegrams.
Deliver(c) ==
  \E k \in 1 .. Len(queue[c]) :
    /\ received' = [received EXCEPT ![c] = @ \o HandedOver(queue[c])[k]]
    /\ queue' = [queue EXCEPT ![c] = SubSeq(@, k + 1, Len(@))]

Close(c) ==
  /\ queue' = [queue EXCEPT ![c] = <<>>]
  /\ received' = [received EXCEPT ![c] = <<>>]

Next == \E c \in Clients : (\E t \in Telegrams : Send(c, t)) \/ Deliver(c) \/ Close(c)

Spec == Init /\ [][Next]_vars
=============================================================================
