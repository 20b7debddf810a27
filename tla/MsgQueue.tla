---- MODULE MsgQueue ----
(***************************************************************************)
(* One message queue of src/kernel/src/ipc.rs: a ring of IPC_QUEUE_DEPTH   *)
(* slots, pushed by sys_ipc_send and k_send, popped by sys_ipc_recv and    *)
(* measured by sys_ipc_poll.  Each call runs inside the int 0x80 gate with *)
(* interrupts off and under the queue's spinlock, so it is one step.       *)
(* Popped slots keep their old content: only head and tail say which slots *)
(* hold a message.                                                         *)
(***************************************************************************)
EXTENDS Naturals, Sequences

CONSTANTS
    Msgs,            \* the messages a sender may push
    NoMsg,           \* a zeroed slot (core::mem::zeroed)
    IPC_QUEUE_DEPTH  \* slots of the ring; 16 in the code

ASSUME DepthAssumption == IPC_QUEUE_DEPTH \in Nat \ {0}

ASSUME NoMsgAssumption == NoMsg \notin Msgs

VARIABLES
    msgs,   \* the slots
    head,   \* index of the next slot to fill
    tail,   \* index of the oldest message
    out,    \* the buffer the receiver passed, filled by pop
    res,    \* "none" before the first call, then "ok" or "again" (err::AGAIN)
    count   \* what the last poll returned

vars == <<msgs, head, tail, out, res, count>>

Indices == 0 .. IPC_QUEUE_DEPTH - 1

Init ==
    /\ msgs = [i \in Indices |-> NoMsg]
    /\ head = 0
    /\ tail = 0
    /\ out = NoMsg
    /\ res = "none"
    /\ count = 0

(***************************************************************************)
(* The helpers of impl MsgQueue.                                           *)
(***************************************************************************)
QueueLen == (head + IPC_QUEUE_DEPTH - tail) % IPC_QUEUE_DEPTH

IsEmpty == head = tail

\* Seeded fault: the ring never refuses, so head can run over tail.
IsFull_Never == FALSE

IsFull == (head + 1) % IPC_QUEUE_DEPTH = tail

(***************************************************************************)
(* The calls.                                                              *)
(***************************************************************************)
Push(m) ==
    IF IsFull
    THEN /\ res' = "again"
         /\ UNCHANGED <<msgs, head, tail, out, count>>
    ELSE /\ msgs' = [msgs EXCEPT ![head] = m]
         /\ head' = (head + 1) % IPC_QUEUE_DEPTH
         /\ res' = "ok"
         /\ UNCHANGED <<tail, out, count>>

Pop ==
    IF IsEmpty
    THEN /\ res' = "again"
         /\ UNCHANGED <<msgs, head, tail, out, count>>
    ELSE /\ out' = msgs[tail]
         /\ tail' = (tail + 1) % IPC_QUEUE_DEPTH
         /\ res' = "ok"
         /\ UNCHANGED <<msgs, head, count>>

Poll ==
    /\ count' = QueueLen
    /\ UNCHANGED <<msgs, head, tail, out, res>>

Next ==
    \/ \E m \in Msgs : Push(m)
    \/ Pop
    \/ Poll

Spec == Init /\ [][Next]_vars

----
TypeOK ==
    /\ msgs \in [Indices -> Msgs \cup {NoMsg}]
    /\ head \in Indices
    /\ tail \in Indices
    /\ out \in Msgs \cup {NoMsg}
    /\ res \in {"none", "ok", "again"}
    /\ count \in Indices

\* The slots from tail up to head, oldest first: what the ring stands for.
Pending == [i \in 1 .. QueueLen |-> msgs[(tail + i - 1) % IPC_QUEUE_DEPTH]]

Fifo == INSTANCE BoundedFifo
            WITH Capacity <- IPC_QUEUE_DEPTH - 1, buf <- Pending

\* The ring is a bounded FIFO channel with room for IPC_QUEUE_DEPTH - 1
\* messages: push refuses only a full queue, pop fails only on an empty one,
\* nothing is lost, duplicated or reordered when head and tail wrap around,
\* and sys_ipc_poll's count is the number of messages sys_ipc_recv will get.
ImplementsFifo == Fifo!Spec

\* Every slot between tail and head was filled by a push: a receive never
\* hands over the zeroed message of an unused slot.
PendingWritten == \A i \in DOMAIN Pending : Pending[i] \in Msgs
====
