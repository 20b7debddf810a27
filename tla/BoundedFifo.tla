---- MODULE BoundedFifo ----
(***************************************************************************)
(* What one IPC queue of the kernel promises to the threads that use it:   *)
(* a bounded FIFO channel.  A send is refused only when the channel is     *)
(* full, a receive finds nothing only when it is empty, every accepted     *)
(* message is handed over once, in the order of the sends, and a poll      *)
(* reports how many are pending.  MsgQueue implements it with a ring.      *)
(***************************************************************************)
EXTENDS Naturals, Sequences

CONSTANTS
    Msgs,      \* the messages
    NoMsg,     \* the content of a receive buffer nothing was written to
    Capacity   \* how many messages can be pending

VARIABLES
    buf,       \* the pending messages, oldest first
    out,       \* the receiver's buffer
    res,       \* the result of the last call
    count      \* the number the last poll reported

vars == <<buf, out, res, count>>

Init ==
    /\ buf = <<>>
    /\ out = NoMsg
    /\ res = "none"
    /\ count = 0

Send(m) ==
    /\ Len(buf) < Capacity
    /\ buf' = Append(buf, m)
    /\ res' = "ok"
    /\ UNCHANGED <<out, count>>

Refuse ==
    /\ Len(buf) = Capacity
    /\ res' = "again"
    /\ UNCHANGED <<buf, out, count>>

Receive ==
    /\ buf # <<>>
    /\ out' = Head(buf)
    /\ buf' = Tail(buf)
    /\ res' = "ok"
    /\ UNCHANGED count

ReceiveNothing ==
    /\ buf = <<>>
    /\ res' = "again"
    /\ UNCHANGED <<buf, out, count>>

Poll ==
    /\ count' = Len(buf)
    /\ UNCHANGED <<buf, out, res>>

Next ==
    \/ \E m \in Msgs : Send(m)
    \/ Refuse
    \/ Receive
    \/ ReceiveNothing
    \/ Poll

Spec == Init /\ [][Next]_vars
====
