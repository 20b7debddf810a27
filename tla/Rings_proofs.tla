---- MODULE Rings_proofs ----
(***************************************************************************)
(* Proofs about the two rings of the kernel.  MsgQueue, for every ring     *)
(* size and every set of messages: the types, that a receive only hands    *)
(* over what was sent, and that the ring implements a bounded FIFO         *)
(* channel.  Console, for every ring size, keys and length of the line:    *)
(* that the unlocked ring with its interrupts and threads implements a     *)
(* buffer of keystrokes with one line at its end.                          *)
(***************************************************************************)
EXTENDS MsgQueue, Console, FiniteSetTheorems, WellFoundedInduction, TLAPS

-----------------------------------------------------------------------------
(***************************************************************************)
(* MsgQueue: arithmetic of the ring.                                       *)
(***************************************************************************)
\* Adding less than one turn to an index and wrapping around.
LEMMA Wrap ==
    ASSUME NEW x \in 0 .. 2 * IPC_QUEUE_DEPTH - 1
    PROVE  /\ x < IPC_QUEUE_DEPTH => x % IPC_QUEUE_DEPTH = x
           /\ x >= IPC_QUEUE_DEPTH => x % IPC_QUEUE_DEPTH = x - IPC_QUEUE_DEPTH
           /\ x % IPC_QUEUE_DEPTH \in Indices
<1>1. CASE x < IPC_QUEUE_DEPTH
  BY <1>1, DepthAssumption, SMT DEF Indices
<1>2. CASE x >= IPC_QUEUE_DEPTH
  BY <1>2, DepthAssumption, SMT DEF Indices
<1>. QED  BY <1>1, <1>2, DepthAssumption

\* The distance from one index to another, going up and around.
LEMMA LenArith ==
    ASSUME NEW h \in Indices, NEW t \in Indices
    PROVE  (h + IPC_QUEUE_DEPTH - t) % IPC_QUEUE_DEPTH
               = IF h >= t THEN h - t ELSE h - t + IPC_QUEUE_DEPTH
<1>. DEFINE x == h + IPC_QUEUE_DEPTH - t
<1>1. x \in 0 .. 2 * IPC_QUEUE_DEPTH - 1
  BY DepthAssumption DEF Indices
<1>2. /\ x < IPC_QUEUE_DEPTH => x % IPC_QUEUE_DEPTH = x
      /\ x >= IPC_QUEUE_DEPTH => x % IPC_QUEUE_DEPTH = x - IPC_QUEUE_DEPTH
  <2>. HIDE DEF x
  <2>. QED  BY <1>1, Wrap
<1>. QED  BY <1>2, DepthAssumption DEF Indices

\* The next index.
LEMMA NextArith ==
    ASSUME NEW h \in Indices
    PROVE  (h + 1) % IPC_QUEUE_DEPTH
               = IF h + 1 < IPC_QUEUE_DEPTH THEN h + 1 ELSE 0
<1>. DEFINE x == h + 1
<1>1. x \in 0 .. 2 * IPC_QUEUE_DEPTH - 1
  BY DepthAssumption DEF Indices
<1>2. /\ x < IPC_QUEUE_DEPTH => x % IPC_QUEUE_DEPTH = x
      /\ x >= IPC_QUEUE_DEPTH => x % IPC_QUEUE_DEPTH = x - IPC_QUEUE_DEPTH
  <2>. HIDE DEF x
  <2>. QED  BY <1>1, Wrap
<1>. QED  BY <1>2, DepthAssumption DEF Indices

\* The number of pending messages, without the remainder; the queue is empty
\* or full exactly when the code's tests say so.
LEMMA LenValue ==
    ASSUME TypeOK
    PROVE  /\ QueueLen = IF head >= tail THEN head - tail
                         ELSE head - tail + IPC_QUEUE_DEPTH
           /\ QueueLen \in Indices
           /\ IsEmpty <=> QueueLen = 0
           /\ IsFull <=> QueueLen = IPC_QUEUE_DEPTH - 1
<1>1. /\ head \in 0 .. IPC_QUEUE_DEPTH - 1
      /\ tail \in 0 .. IPC_QUEUE_DEPTH - 1
      /\ IPC_QUEUE_DEPTH \in Nat \ {0}
  BY DepthAssumption DEF TypeOK, Indices
<1>2. QueueLen = IF head >= tail THEN head - tail
                 ELSE head - tail + IPC_QUEUE_DEPTH
  BY LenArith DEF QueueLen, TypeOK
<1>3. (head + 1) % IPC_QUEUE_DEPTH
          = IF head + 1 < IPC_QUEUE_DEPTH THEN head + 1 ELSE 0
  BY NextArith DEF TypeOK
<1>. QED  BY <1>1, <1>2, <1>3 DEF IsEmpty, IsFull, Indices

\* The slot of the i-th pending message.
Slot(i) == (tail + i - 1) % IPC_QUEUE_DEPTH

\* The slot of the i-th message, whose index wraps at most once.
LEMMA SlotValue ==
    ASSUME TypeOK, NEW i \in 1 .. IPC_QUEUE_DEPTH
    PROVE  /\ Slot(i) = IF tail + i - 1 < IPC_QUEUE_DEPTH THEN tail + i - 1
                        ELSE tail + i - 1 - IPC_QUEUE_DEPTH
           /\ Slot(i) \in Indices
<1>1. /\ tail \in 0 .. IPC_QUEUE_DEPTH - 1
      /\ IPC_QUEUE_DEPTH \in Nat \ {0}
  BY DepthAssumption DEF TypeOK, Indices
<1>2. tail + i - 1 \in 0 .. 2 * IPC_QUEUE_DEPTH - 1
  BY <1>1
<1>. QED  BY <1>1, <1>2, Wrap DEF Slot

\* The messages in the queue are a sequence of its length.
LEMMA PendingFacts ==
    ASSUME TypeOK
    PROVE  /\ Pending = [i \in 1 .. QueueLen |-> msgs[Slot(i)]]
           /\ Len(Pending) = QueueLen
           /\ Pending \in Seq(Msgs \cup {NoMsg})
           /\ Pending = <<>> <=> QueueLen = 0
<1>1. QueueLen \in 0 .. IPC_QUEUE_DEPTH - 1
  BY LenValue DEF Indices
<1>2. Pending = [i \in 1 .. QueueLen |-> msgs[Slot(i)]]
  BY DEF Pending, Slot
<1>3. ASSUME NEW i \in 1 .. QueueLen
      PROVE  msgs[Slot(i)] \in Msgs \cup {NoMsg}
  BY <1>1, <1>3, DepthAssumption, SlotValue DEF TypeOK
<1>4. Pending \in [1 .. QueueLen -> Msgs \cup {NoMsg}]
  BY <1>2, <1>3
<1>5. QueueLen \in Nat
  BY <1>1, DepthAssumption
<1>6. Pending \in Seq(Msgs \cup {NoMsg}) /\ Len(Pending) = QueueLen
  BY <1>4, <1>5
<1>7. Pending = <<>> <=> QueueLen = 0
  BY <1>5, <1>6
<1>. QED  BY <1>2, <1>6, <1>7

----
(***************************************************************************)
(* Types.                                                                  *)
(***************************************************************************)
LEMMA TypeInit == Init => TypeOK
  BY DepthAssumption DEF Init, TypeOK, Indices

\* Every operation keeps the types.
LEMMA TypeStep == TypeOK /\ [Next]_vars => TypeOK'
<1>. SUFFICES ASSUME TypeOK, [Next]_vars PROVE TypeOK'
  OBVIOUS
<1>0. /\ head + 1 \in 0 .. 2 * IPC_QUEUE_DEPTH - 1
      /\ tail + 1 \in 0 .. 2 * IPC_QUEUE_DEPTH - 1
  BY DepthAssumption DEF TypeOK, Indices
<1>1. ASSUME NEW m \in Msgs, Push(m) PROVE TypeOK'
  BY <1>0, <1>1, Wrap DEF TypeOK, Push
<1>2. CASE Pop
  BY <1>0, <1>2, Wrap DEF TypeOK, Pop
<1>3. CASE Poll
  BY <1>3, LenValue DEF TypeOK, Poll
<1>4. CASE UNCHANGED vars
  BY <1>4 DEF TypeOK, vars
<1>. QED  BY <1>1, <1>2, <1>3, <1>4 DEF Next

\* Every value the queue works with stays in its range; in particular head and
\* tail always index a slot of the ring (IPC_QUEUES of ipc.rs).
THEOREM TypeCorrect == Spec => []TypeOK
  BY TypeInit, TypeStep, PTL DEF Spec

----
(***************************************************************************)
(* What push and pop do to the pending messages.                           *)
(***************************************************************************)
LEMMA PushEffect ==
    ASSUME TypeOK, TypeOK', NEW m \in Msgs, ~IsFull,
           msgs' = [msgs EXCEPT ![head] = m],
           head' = (head + 1) % IPC_QUEUE_DEPTH,
           tail' = tail
    PROVE  Pending' = Append(Pending, m)
<1>1. /\ head \in 0 .. IPC_QUEUE_DEPTH - 1
      /\ tail \in 0 .. IPC_QUEUE_DEPTH - 1
      /\ IPC_QUEUE_DEPTH \in Nat \ {0}
      /\ msgs \in [0 .. IPC_QUEUE_DEPTH - 1 -> Msgs \cup {NoMsg}]
  BY DepthAssumption DEF TypeOK, Indices
<1>3. head' = IF head + 1 < IPC_QUEUE_DEPTH THEN head + 1 ELSE 0
  BY NextArith DEF TypeOK
<1>4. QueueLen \in 0 .. IPC_QUEUE_DEPTH - 2
  BY <1>1, LenValue DEF Indices
<1>5. QueueLen' = IF head' >= tail' THEN head' - tail'
                  ELSE head' - tail' + IPC_QUEUE_DEPTH
  BY LenArith DEF QueueLen, TypeOK
<1>6. QueueLen' = QueueLen + 1
  BY <1>1, <1>3, <1>4, <1>5, LenValue
<1>7. ASSUME NEW i \in 1 .. IPC_QUEUE_DEPTH
      PROVE  Slot(i)' = Slot(i)
  BY DEF Slot
<1>8. ASSUME NEW i \in 1 .. QueueLen
      PROVE  msgs'[Slot(i)] = msgs[Slot(i)]
  <2>1. i \in 1 .. IPC_QUEUE_DEPTH
    BY <1>1, <1>4, <1>8
  <2>2. Slot(i) # head
    BY <1>1, <1>4, <1>8, <2>1, SlotValue, LenValue
  <2>3. Slot(i) \in 0 .. IPC_QUEUE_DEPTH - 1
    BY <2>1, SlotValue DEF Indices
  <2>. QED  BY <1>1, <2>2, <2>3
<1>9. Slot(QueueLen + 1) = head
  <2>. DEFINE i == QueueLen + 1
  <2>1. i \in 1 .. IPC_QUEUE_DEPTH
    BY <1>1, <1>4
  <2>2. Slot(i) = IF tail + i - 1 < IPC_QUEUE_DEPTH THEN tail + i - 1
                  ELSE tail + i - 1 - IPC_QUEUE_DEPTH
    <3>. HIDE DEF i
    <3>. QED  BY <2>1, SlotValue
  <2>. QED  BY <1>1, <1>4, <2>2, LenValue
<1>10. msgs'[Slot(QueueLen + 1)] = m
  BY <1>1, <1>9
<1>11. Pending' = [i \in 1 .. QueueLen + 1 |-> msgs'[Slot(i)]]
  <2>1. Pending' = [i \in 1 .. QueueLen' |-> msgs'[Slot(i)']]
    BY DEF Pending, Slot
  <2>. QED  BY <1>1, <1>4, <1>6, <1>7, <2>1 DEF Slot
<1>12. /\ Pending = [i \in 1 .. QueueLen |-> msgs[Slot(i)]]
       /\ Len(Pending) = QueueLen
       /\ Pending \in Seq(Msgs \cup {NoMsg})
  BY PendingFacts
<1>13. Append(Pending, m) = [i \in 1 .. QueueLen + 1 |->
                               IF i = QueueLen + 1 THEN m ELSE msgs[Slot(i)]]
  BY <1>4, <1>12
<1>. QED  BY <1>1, <1>4, <1>8, <1>10, <1>11, <1>13

\* Moving the tail on takes the first message away.
LEMMA PopEffect ==
    ASSUME TypeOK, TypeOK', ~IsEmpty,
           msgs' = msgs,
           tail' = (tail + 1) % IPC_QUEUE_DEPTH,
           head' = head
    PROVE  /\ Pending # <<>>
           /\ Head(Pending) = msgs[tail]
           /\ Pending' = Tail(Pending)
<1>1. /\ head \in 0 .. IPC_QUEUE_DEPTH - 1
      /\ tail \in 0 .. IPC_QUEUE_DEPTH - 1
      /\ IPC_QUEUE_DEPTH \in Nat \ {0}
  BY DepthAssumption DEF TypeOK, Indices
<1>3. tail' = IF tail + 1 < IPC_QUEUE_DEPTH THEN tail + 1 ELSE 0
  BY NextArith DEF TypeOK
<1>4. QueueLen \in 1 .. IPC_QUEUE_DEPTH - 1
  BY <1>1, LenValue DEF Indices
<1>5. QueueLen' = IF head' >= tail' THEN head' - tail'
                  ELSE head' - tail' + IPC_QUEUE_DEPTH
  BY LenArith DEF QueueLen, TypeOK
<1>6. QueueLen' = QueueLen - 1
  BY <1>1, <1>3, <1>4, <1>5, LenValue
<1>7. ASSUME NEW i \in 1 .. QueueLen - 1
      PROVE  Slot(i)' = Slot(i + 1)
  <2>1. /\ i \in 1 .. IPC_QUEUE_DEPTH
        /\ i + 1 \in 1 .. IPC_QUEUE_DEPTH
    BY <1>1, <1>4, <1>7
  <2>2. Slot(i)' = IF tail' + i - 1 < IPC_QUEUE_DEPTH THEN tail' + i - 1
                   ELSE tail' + i - 1 - IPC_QUEUE_DEPTH
    <3>1. tail' + i - 1 \in 0 .. 2 * IPC_QUEUE_DEPTH - 1
      BY <1>1, <1>3, <2>1
    <3>. QED  BY <3>1, <1>1, Wrap DEF Slot
  <2>. QED  BY <1>1, <1>3, <2>1, <2>2, SlotValue
<1>8. Slot(1) = tail
  BY <1>1, SlotValue
<1>9. /\ Pending = [i \in 1 .. QueueLen |-> msgs[Slot(i)]]
      /\ Len(Pending) = QueueLen
      /\ Pending \in Seq(Msgs \cup {NoMsg})
      /\ Pending # <<>>
  BY <1>4, PendingFacts
<1>10. Pending' = [i \in 1 .. QueueLen - 1 |-> msgs[Slot(i + 1)]]
  <2>1. Pending' = [i \in 1 .. QueueLen' |-> msgs'[Slot(i)']]
    BY DEF Pending, Slot
  <2>. QED  BY <1>4, <1>6, <1>7, <2>1
<1>11. Tail(Pending) = [i \in 1 .. QueueLen - 1 |-> Pending[i + 1]]
  BY <1>4, <1>9
<1>12. ASSUME NEW i \in 1 .. QueueLen - 1
       PROVE  Pending[i + 1] = msgs[Slot(i + 1)]
  BY <1>4, <1>9, <1>12
<1>13. Head(Pending) = msgs[tail]
  BY <1>4, <1>8, <1>9
<1>14. Pending' = Tail(Pending)
  <2>. HIDE DEF Pending, QueueLen, Slot
  <2>. QED  BY <1>10, <1>11, <1>12
<1>. QED  BY <1>9, <1>13, <1>14

----
(***************************************************************************)
(* Only sent messages are received.                                        *)
(***************************************************************************)
LEMMA WrittenInit == Init => PendingWritten
<1>. SUFFICES ASSUME Init PROVE PendingWritten
  OBVIOUS
<1>1. TypeOK
  BY TypeInit
<1>2. QueueLen = 0
  BY <1>1, LenValue DEF Init, IsEmpty
<1>3. Pending = <<>>
  BY <1>1, <1>2, PendingFacts
<1>. QED  BY <1>3 DEF PendingWritten

\* Every operation keeps what is pending among what was written.
LEMMA WrittenStep ==
    TypeOK /\ TypeOK' /\ PendingWritten /\ [Next]_vars => PendingWritten'
<1>. SUFFICES ASSUME TypeOK, TypeOK', PendingWritten, [Next]_vars
              PROVE  PendingWritten'
  OBVIOUS
<1>0. Pending \in Seq(Msgs \cup {NoMsg})
  BY PendingFacts
<1>1. ASSUME NEW m \in Msgs, Push(m) PROVE PendingWritten'
  <2>1. CASE IsFull
    BY <1>1, <2>1 DEF Push, PendingWritten, Pending, QueueLen
  <2>2. CASE ~IsFull
    <3>1. Pending' = Append(Pending, m)
      BY <1>1, <2>2, PushEffect DEF Push
    <3>. QED  BY <3>1, <1>0 DEF PendingWritten
  <2>. QED  BY <2>1, <2>2
<1>2. CASE Pop
  <2>1. CASE IsEmpty
    BY <1>2, <2>1 DEF Pop, PendingWritten, Pending, QueueLen
  <2>2. CASE ~IsEmpty
    <3>1. Pending # <<>> /\ Pending' = Tail(Pending)
      BY <1>2, <2>2, PopEffect DEF Pop
    <3>. QED  BY <3>1, <1>0 DEF PendingWritten
  <2>. QED  BY <2>1, <2>2
<1>3. CASE Poll
  BY <1>3 DEF Poll, PendingWritten, Pending, QueueLen
<1>4. CASE UNCHANGED vars
  BY <1>4 DEF vars, PendingWritten, Pending, QueueLen
<1>. QED  BY <1>1, <1>2, <1>3, <1>4 DEF Next

\* sys_ipc_recv never hands over the zeroed content of a slot that no send
\* filled, however often head and tail wrapped around.
THEOREM OnlySentReceived == Spec => []PendingWritten
<1>1. TypeOK /\ [Next]_vars => TypeOK'
  BY TypeStep
<1>. QED  BY TypeInit, WrittenInit, <1>1, WrittenStep, PTL DEF Spec

----
(***************************************************************************)
(* The ring implements the channel.                                        *)
(***************************************************************************)
LEMMA FifoInit == Init => Fifo!Init
<1>. SUFFICES ASSUME Init PROVE Fifo!Init
  OBVIOUS
<1>1. QueueLen = 0
  BY TypeInit, LenValue DEF Init, IsEmpty
<1>2. Pending = <<>>
  BY <1>1, TypeInit, PendingFacts
<1>. QED  BY <1>2 DEF Init, Fifo!Init

\* Every operation is one of the fifo.
LEMMA FifoStep == TypeOK /\ TypeOK' /\ [Next]_vars => [Fifo!Next]_Fifo!vars
<1>. SUFFICES ASSUME TypeOK, TypeOK', [Next]_vars PROVE [Fifo!Next]_Fifo!vars
  OBVIOUS
<1>0. /\ Len(Pending) = QueueLen
      /\ QueueLen \in 0 .. IPC_QUEUE_DEPTH - 1
      /\ IPC_QUEUE_DEPTH \in Nat \ {0}
      /\ IsEmpty <=> Pending = <<>>
      /\ IsFull <=> QueueLen = IPC_QUEUE_DEPTH - 1
  BY PendingFacts, LenValue, DepthAssumption DEF Indices
<1>1. ASSUME NEW m \in Msgs, Push(m) PROVE Fifo!Next
  <2>1. CASE IsFull
    <3>1. Pending' = Pending
      BY <1>1, <2>1 DEF Push, Pending, QueueLen
    <3>2. Fifo!Refuse
      BY <1>0, <1>1, <2>1, <3>1 DEF Push, Fifo!Refuse
    <3>. QED  BY <3>2 DEF Fifo!Next
  <2>2. CASE ~IsFull
    <3>1. Pending' = Append(Pending, m)
      BY <1>1, <2>2, PushEffect DEF Push
    <3>2. Fifo!Send(m)
      BY <1>0, <1>1, <2>2, <3>1 DEF Push, Fifo!Send
    <3>. QED  BY <3>2 DEF Fifo!Next
  <2>. QED  BY <2>1, <2>2
<1>2. CASE Pop
  <2>1. CASE IsEmpty
    <3>1. Pending' = Pending
      BY <1>2, <2>1 DEF Pop, Pending, QueueLen
    <3>2. Fifo!ReceiveNothing
      BY <1>0, <1>2, <2>1, <3>1 DEF Pop, Fifo!ReceiveNothing
    <3>. QED  BY <3>2 DEF Fifo!Next
  <2>2. CASE ~IsEmpty
    <3>1. /\ Pending # <<>>
          /\ Head(Pending) = msgs[tail]
          /\ Pending' = Tail(Pending)
      BY <1>2, <2>2, PopEffect DEF Pop
    <3>2. Fifo!Receive
      BY <1>2, <2>2, <3>1 DEF Pop, Fifo!Receive
    <3>. QED  BY <3>2 DEF Fifo!Next
  <2>. QED  BY <2>1, <2>2
<1>3. CASE Poll
  <2>1. Pending' = Pending
    BY <1>3 DEF Poll, Pending, QueueLen
  <2>2. Fifo!Poll
    BY <1>0, <1>3, <2>1 DEF Poll, Fifo!Poll
  <2>. QED  BY <2>2 DEF Fifo!Next
<1>4. CASE UNCHANGED vars
  BY <1>4 DEF vars, Fifo!vars, Pending, QueueLen
<1>. QED  BY <1>1, <1>2, <1>3, <1>4 DEF Next

\* Every behaviour of the ring is one of the bounded FIFO channel with room for
\* IPC_QUEUE_DEPTH - 1 messages.
THEOREM RingImplementsFifo == Spec => ImplementsFifo
<1>1. TypeOK /\ [Next]_vars => TypeOK'
  BY TypeStep
<1>. QED  BY TypeInit, FifoInit, <1>1, FifoStep, PTL
          DEF Spec, ImplementsFifo, Fifo!Spec

-----------------------------------------------------------------------------
(***************************************************************************)
(* Console: arithmetic of its ring.                                        *)
(***************************************************************************)
Places == 0 .. KB_BUF - 1

\* The strokes that can be in the ring, and what a place can hold.
Strokes == [n : 1 .. MaxTyped, c : Printable \cup Ends \cup {"bs", "control"}]

Cells == Strokes \cup {Nothing}

\* The bounds of the machine are positive.
LEMMA Bounds ==
    /\ KB_BUF \in Nat \ {0} /\ LineMax \in Nat \ {0}
    /\ MaxRead \in Nat \ {0} /\ MaxTyped \in Nat \ {0}
BY ConsoleAssumption

\* An index that has gone around at most once.
LEMMA Turn ==
    ASSUME NEW x \in 0 .. 2 * KB_BUF - 1
    PROVE  /\ x % KB_BUF = IF x < KB_BUF THEN x ELSE x - KB_BUF
           /\ x % KB_BUF \in Places
<1>. USE Bounds DEF Places
<1>1. CASE x < KB_BUF
  <2>1. x % KB_BUF = x
    BY <1>1, SMT
  <2>. QED  BY <1>1, <2>1
<1>2. CASE x >= KB_BUF
  <2>1. x % KB_BUF = x - KB_BUF
    BY <1>2, SMT
  <2>. QED  BY <1>2, <2>1
<1>. QED  BY <1>1, <1>2

\* How many places lie from t up to h, and what they hold.
Count(h, t) == (h + KB_BUF - t) % KB_BUF

Place(t, i) == (t + i - 1) % KB_BUF

After(t, n) == (t + n) % KB_BUF

Window(d, t, n) == [i \in 1 .. n |-> d[Place(t, i)]]

\* The ring is empty or full exactly when the code's tests say so.
LEMMA CountValue ==
    ASSUME NEW h \in Places, NEW t \in Places
    PROVE  /\ Count(h, t) = IF h >= t THEN h - t ELSE h - t + KB_BUF
           /\ Count(h, t) \in Places
           /\ h = t <=> Count(h, t) = 0
           /\ Next_(h) = IF h + 1 < KB_BUF THEN h + 1 ELSE 0
           /\ Next_(h) = t <=> Count(h, t) = KB_BUF - 1
<1>. USE Bounds DEF Places
<1>1. Count(h, t) = IF h >= t THEN h - t ELSE h - t + KB_BUF
  <2>. DEFINE x == h + KB_BUF - t
  <2>1. x \in 0 .. 2 * KB_BUF - 1
    OBVIOUS
  <2>2. x % KB_BUF = IF x < KB_BUF THEN x ELSE x - KB_BUF
    <3>. HIDE DEF x
    <3>. QED  BY <2>1, Turn
  <2>. QED  BY <2>2 DEF Count
<1>2. Next_(h) = IF h + 1 < KB_BUF THEN h + 1 ELSE 0
  <2>. DEFINE x == h + 1
  <2>1. x \in 0 .. 2 * KB_BUF - 1
    OBVIOUS
  <2>2. x % KB_BUF = IF x < KB_BUF THEN x ELSE x - KB_BUF
    <3>. HIDE DEF x
    <3>. QED  BY <2>1, Turn
  <2>. QED  BY <2>2 DEF Next_
<1>. QED  BY <1>1, <1>2

\* The place of the i-th, whose index wraps at most once.
LEMMA PlaceValue ==
    ASSUME NEW t \in Places, NEW i \in 1 .. KB_BUF
    PROVE  /\ Place(t, i) = IF t + i - 1 < KB_BUF THEN t + i - 1 ELSE t + i - 1 - KB_BUF
           /\ Place(t, i) \in Places
<1>. USE Bounds DEF Places
<1>. DEFINE x == t + i - 1
<1>1. x \in 0 .. 2 * KB_BUF - 1
  OBVIOUS
<1>2. (x % KB_BUF = IF x < KB_BUF THEN x ELSE x - KB_BUF) /\ x % KB_BUF \in Places
  <2>. HIDE DEF x
  <2>. QED  BY <1>1, Turn
<1>. QED  BY <1>2 DEF Place

\* A window is a sequence.
LEMMA WindowIs ==
    ASSUME NEW d \in [Places -> Cells],
           NEW t \in Places, NEW n \in Places
    PROVE  /\ Window(d, t, n) \in Seq(Cells) /\ Len(Window(d, t, n)) = n
           /\ \A i \in 1 .. n : Window(d, t, n)[i] = d[Place(t, i)]
<1>. USE Bounds DEF Places
<1>1. ASSUME NEW i \in 1 .. n PROVE d[Place(t, i)] \in Cells
  <2>1. i \in 1 .. KB_BUF
    OBVIOUS
  <2>2. Place(t, i) \in Places
    BY <2>1, PlaceValue
  <2>. QED  BY <2>2
<1>2. Window(d, t, n) \in [1 .. n -> Cells]
  BY <1>1 DEF Window
<1>. QED  BY <1>2 DEF Window

\* What a sequence is with one more at its end.
LEMMA AppendIs ==
    ASSUME NEW T, NEW s \in Seq(T), NEW x \in T
    PROVE  Append(s, x) = [i \in 1 .. Len(s) + 1 |-> IF i = Len(s) + 1 THEN x ELSE s[i]]
<1>. DEFINE a == Append(s, x)
<1>1. a \in Seq(T) /\ Len(a) = Len(s) + 1 /\ Len(s) \in Nat
  OBVIOUS
<1>2. \A i \in 1 .. Len(s) + 1 : a[i] = IF i = Len(s) + 1 THEN x ELSE s[i]
  OBVIOUS
<1>. HIDE DEF a
<1>3. a = [i \in 1 .. Len(s) + 1 |-> a[i]]
  <2>. DEFINE n == Len(s) + 1
  <2>1. a \in Seq(T) /\ Len(a) = n /\ n \in Nat
    BY <1>1
  <2>. HIDE DEF n
  <2>2. a \in [1 .. n -> T]
    BY <2>1
  <2>3. a = [i \in 1 .. n |-> a[i]]
    BY <2>2
  <2>. QED  BY <2>3 DEF n
<1>. QED  BY <1>2, <1>3 DEF a

\* The place at the head is outside of the window, and behind its end.
LEMMA WindowGrows ==
    ASSUME NEW h \in Places, NEW t \in Places,
           NEW d \in [Places -> Cells], NEW e \in [Places -> Cells],
           Next_(h) # t,
           \A i \in Places : i # h => e[i] = d[i]
    PROVE  LET c == Count(h, t) IN
           /\ Count(Next_(h), t) = c + 1
           /\ Window(e, t, c) = Window(d, t, c)
           /\ Window(e, t, c + 1) = Append(Window(d, t, c), e[h])
<1>. USE Bounds DEF Places
<1>. DEFINE c == Count(h, t)
<1>. HIDE DEF Places, c
<1>0. /\ c = IF h >= t THEN h - t ELSE h - t + KB_BUF
      /\ c \in Places
      /\ Next_(h) = t <=> c = KB_BUF - 1
      /\ Next_(h) = IF h + 1 < KB_BUF THEN h + 1 ELSE 0
  BY CountValue DEF c
<1>. USE DEF Places
<1>1. /\ c = IF h >= t THEN h - t ELSE h - t + KB_BUF
      /\ c \in 0 .. KB_BUF - 2
      /\ Next_(h) = IF h + 1 < KB_BUF THEN h + 1 ELSE 0
      /\ Next_(h) \in Places
  BY <1>0
<1>2. Count(Next_(h), t) = c + 1
  <2>. DEFINE k == Next_(h)
  <2>1. k \in Places /\ k = IF h + 1 < KB_BUF THEN h + 1 ELSE 0
    BY <1>1
  <2>2. k # t
    OBVIOUS
  <2>. HIDE DEF k, Places
  <2>3. Count(k, t) = IF k >= t THEN k - t ELSE k - t + KB_BUF
    BY <2>1, CountValue
  <2>. USE DEF Places
  <2>4. Count(k, t) = c + 1
    BY <1>1, <2>1, <2>2, <2>3
  <2>. QED  BY <2>4 DEF k
<1>3. ASSUME NEW i \in 1 .. c
      PROVE  e[Place(t, i)] = d[Place(t, i)]
  <2>1. i \in 1 .. KB_BUF
    BY <1>1
  <2>2. /\ Place(t, i) = IF t + i - 1 < KB_BUF THEN t + i - 1 ELSE t + i - 1 - KB_BUF
        /\ Place(t, i) \in Places
    BY <2>1, PlaceValue
  <2>3. Place(t, i) # h
    BY <1>1, <2>1, <2>2
  <2>. QED  BY <2>2, <2>3
<1>4. Place(t, c + 1) = h
  <2>. DEFINE i == c + 1
  <2>1. i \in 1 .. KB_BUF
    BY <1>1
  <2>2. Place(t, i) = IF t + i - 1 < KB_BUF THEN t + i - 1 ELSE t + i - 1 - KB_BUF
    <3>. HIDE DEF i
    <3>. QED  BY <2>1, PlaceValue
  <2>. QED  BY <1>1, <2>2
<1>5. Window(e, t, c) = Window(d, t, c)
  BY <1>3 DEF Window
<1>6. Window(d, t, c) \in Seq(Cells) /\ Len(Window(d, t, c)) = c
      /\ \A i \in 1 .. c : Window(d, t, c)[i] = d[Place(t, i)]
  <2>1. c \in Places
    BY <1>1
  <2>. HIDE DEF Places
  <2>. QED  BY <2>1, WindowIs
<1>7. Window(e, t, c + 1) = Append(Window(d, t, c), e[h])
  <2>1. Window(e, t, c + 1) = [i \in 1 .. c + 1 |-> e[Place(t, i)]]
    BY DEF Window
  <2>. DEFINE s == Window(d, t, c)
              f == [i \in 1 .. c + 1 |-> e[Place(t, i)]]
  <2>2. \A i \in 1 .. c + 1 : f[i] = IF i = c + 1 THEN e[h] ELSE s[i]
    <3>1. ASSUME NEW i \in 1 .. c PROVE f[i] = s[i]
      <4>1. i \in 1 .. c + 1
        BY <1>1
      <4>. QED  BY <1>3, <1>6, <4>1
    <3>2. f[c + 1] = e[h]
      BY <1>1, <1>4
    <3>. HIDE DEF f, s
    <3>3. ASSUME NEW i \in 1 .. c + 1, i # c + 1 PROVE f[i] = s[i]
      <4>1. i \in 1 .. c
        BY <1>1, <3>3
      <4>. QED  BY <3>1, <4>1
    <3>. QED  BY <3>2, <3>3
  <2>3. DOMAIN f = 1 .. c + 1
    OBVIOUS
  <2>4. f = [i \in 1 .. c + 1 |-> f[i]]
    OBVIOUS
  <2>. HIDE DEF f
  <2>5. Append(s, e[h]) = [i \in 1 .. c + 1 |-> IF i = c + 1 THEN e[h] ELSE s[i]]
    <3>1. s \in Seq(Cells) /\ Len(s) = c /\ e[h] \in Cells
      BY <1>6
    <3>. HIDE DEF s
    <3>. QED  BY <3>1, AppendIs
  <2>6. f = Append(s, e[h])
    <3>. HIDE DEF s
    <3>. QED  BY <2>2, <2>4, <2>5
  <2>. QED  BY <2>1, <2>6 DEF f
<1>. QED  BY <1>2, <1>5, <1>7 DEF c

\* Moving the tail on by n takes the first n away.
LEMMA WindowShrinks ==
    ASSUME NEW h \in Places, NEW t \in Places,
           NEW d \in [Places -> Cells], NEW n \in 0 .. Count(h, t)
    PROVE  LET c == Count(h, t)
               u == After(t, n)
           IN /\ u \in Places
              /\ Count(h, u) = c - n
              /\ Window(d, u, c - n) = SubSeq(Window(d, t, c), n + 1, c)
<1>. USE Bounds DEF Places
<1>. DEFINE c == Count(h, t)
            u == After(t, n)
<1>1. c \in Places /\ c = IF h >= t THEN h - t ELSE h - t + KB_BUF
  BY CountValue
<1>2. n \in Places /\ n <= c
  BY <1>1
<1>3. u \in Places /\ u = IF t + n < KB_BUF THEN t + n ELSE t + n - KB_BUF
  <2>. DEFINE x == t + n
  <2>1. x \in 0 .. 2 * KB_BUF - 1
    BY <1>2
  <2>2. (x % KB_BUF = IF x < KB_BUF THEN x ELSE x - KB_BUF) /\ x % KB_BUF \in Places
    <3>. HIDE DEF x
    <3>. QED  BY <2>1, Turn
  <2>. QED  BY <2>2 DEF After
<1>. HIDE DEF u, c
<1>4. Count(h, u) = IF h >= u THEN h - u ELSE h - u + KB_BUF
  <2>1. u \in Places
    BY <1>3
  <2>. HIDE DEF Places
  <2>. QED  BY <2>1, CountValue
<1>5. Count(h, u) = c - n
  BY <1>1, <1>2, <1>3, <1>4
<1>6. ASSUME NEW i \in 1 .. c - n
      PROVE  Place(u, i) = Place(t, i + n)
  <2>1. i \in 1 .. KB_BUF /\ i + n \in 1 .. KB_BUF
    BY <1>1, <1>2
  <2>2. Place(u, i) = IF u + i - 1 < KB_BUF THEN u + i - 1 ELSE u + i - 1 - KB_BUF
    BY <1>3, <2>1, PlaceValue
  <2>3. Place(t, i + n)
            = IF t + (i + n) - 1 < KB_BUF THEN t + (i + n) - 1 ELSE t + (i + n) - 1 - KB_BUF
    <3>. DEFINE k == i + n
    <3>1. k \in 1 .. KB_BUF
      BY <2>1
    <3>2. Place(t, k) = IF t + k - 1 < KB_BUF THEN t + k - 1 ELSE t + k - 1 - KB_BUF
      <4>. HIDE DEF k
      <4>. QED  BY <3>1, PlaceValue
    <3>. QED  BY <3>2
  <2>4. t + (i + n) - 1 \in Nat /\ t + (i + n) - 1 <= 2 * KB_BUF - 1
    BY <1>1, <1>2
  <2>5. CASE t + n < KB_BUF
    <3>1. u = t + n
      BY <1>3, <2>5
    <3>. QED  BY <1>1, <1>2, <2>1, <2>2, <2>3, <3>1
  <2>6. CASE t + n >= KB_BUF
    <3>1. u = t + n - KB_BUF
      BY <1>2, <1>3, <2>6
    <3>2. u + i - 1 = t + (i + n) - 1 - KB_BUF /\ u + i - 1 >= 0
      BY <1>2, <3>1, <2>6
    <3>3. u + i - 1 < KB_BUF
      BY <1>1, <1>2, <3>1
    <3>. QED  BY <1>1, <1>2, <2>2, <2>3, <3>2, <3>3
  <2>. QED  BY <1>2, <2>5, <2>6
<1>7. Window(d, t, c) \in Seq(Cells) /\ Len(Window(d, t, c)) = c
      /\ \A i \in 1 .. c : Window(d, t, c)[i] = d[Place(t, i)]
  BY <1>1, WindowIs
<1>8. Window(d, u, c - n) = SubSeq(Window(d, t, c), n + 1, c)
  <2>. DEFINE s == Window(d, t, c)
  <2>1. SubSeq(s, n + 1, c) = [i \in 1 .. c - n |-> s[i + n]]
    <3>1. s \in Seq(Cells) /\ Len(s) = c
      BY <1>7
    <3>. HIDE DEF s
    <3>2. SubSeq(s, n + 1, c) = [i \in 1 .. (1 + c - (n + 1)) |-> s[i + (n + 1) - 1]]
      BY <1>1, <1>2, <3>1
    <3>3. 1 + c - (n + 1) = c - n /\ \A i \in 1 .. c - n : i + (n + 1) - 1 = i + n
      BY <1>1, <1>2
    <3>. QED  BY <3>2, <3>3
  <2>2. ASSUME NEW i \in 1 .. c - n PROVE s[i + n] = d[Place(u, i)]
    <3>1. i + n \in 1 .. c
      BY <1>1, <1>2
    <3>2. s[i + n] = d[Place(t, i + n)]
      BY <1>7, <3>1
    <3>. QED  BY <1>6, <3>2
  <2>. HIDE DEF s
  <2>3. Window(d, u, c - n) = [i \in 1 .. c - n |-> d[Place(u, i)]]
    BY DEF Window
  <2>. QED  BY <2>1, <2>2, <2>3 DEF s
<1>. QED  BY <1>3, <1>5, <1>8 DEF u, c

-----------------------------------------------------------------------------
(***************************************************************************)
(* Console: the inductive invariant.                                       *)
(***************************************************************************)
\* Where the usb thread can be, and what it has yet to push.
UsbStates == [at : {"idle", "check", "write", "head"}, todo : Seq(Strokes), head : Places]

\* The characters that can reach the terminal.
Chars == Printable \cup Ends \cup {"bs", "control", "nul"}

\* The types.  What is in the ring, or on its way there, was typed.
ConsoleTypes ==
    /\ machine \in Machines
    /\ KB_BUF_DATA \in [Places -> Cells] /\ KB_HEAD \in Places /\ KB_TAIL \in Places
    /\ KBD_CTRL \in BOOLEAN /\ PREV_KB \subseteq Keys
    /\ usb \in UsbStates
    /\ terminal \in [at : {"poll", "tail", "serial"}, got : Cells]
    /\ LINE \in [0 .. LineMax - 1 -> Printable \cup {"nul"}] /\ LEN \in 0 .. LineMax
    /\ typed \in 0 .. MaxTyped

\* While the usb thread is in a push, nobody else moves the head or fills the
\* ring: what it read of them still holds, and its character is in place.
UsbPushes ==
    /\ usb.at # "idle" => usb.todo # <<>> /\ "usb" \in machine.keyboards
    /\ usb.at \in {"write", "head"} => usb.head = KB_HEAD /\ ~NoRoom
    /\ usb.at = "head" => KB_BUF_DATA[KB_HEAD] = Head(usb.todo)

\* While the terminal is in a poll, nobody else takes or overwrites its character.
TerminalPolls == terminal.at = "tail" => ~NoneWaits /\ terminal.got = KB_BUF_DATA[KB_TAIL]

ConsoleInv == ConsoleTypes /\ UsbPushes /\ TerminalPolls

\* A machine without a process, where the threads and the interrupt interleave
\* at any access, has one kind of keyboard (with both, see MCConsoleTwo).
OneWriterEach ==
    \A m \in Machines : m.boot = "kernel" => ~({"ps2", "usb"} \subseteq m.keyboards)

\* The character of a key, on either keyboard.
LEMMA KeyChars ==
    ASSUME NEW k \in Keys, NEW ctrl \in BOOLEAN
    PROVE  /\ Plain(k) \in Printable \cup Ends \cup {"bs"}
           /\ Ps2Char(k, ctrl) \in Printable \cup Ends \cup {"bs", "control"}
           /\ HidChar(k, ctrl) \in Printable \cup Ends \cup {"bs", "control"}
<1>1. k \in {"a", "e", "h", "j", "enter", "back"}
  BY ConsoleAssumption
<1>2. Plain(k) \in Printable \cup Ends \cup {"bs"}
  BY <1>1 DEF Plain, Printable, Ends
<1>3. Ps2Char(k, ctrl) \in Printable \cup Ends \cup {"bs", "control"}
  BY <1>2 DEF Ps2Char, Ends
<1>4. HidChar(k, ctrl) \in Printable \cup Ends \cup {"bs", "control"}
  BY <1>2 DEF HidChar
<1>. QED  BY <1>2, <1>3, <1>4

\* A stroke has the next number and a character.
LEMMA StrokeIs ==
    ASSUME NEW n \in 1 .. MaxTyped, NEW c \in Printable \cup Ends \cup {"bs", "control"}
    PROVE  Stroke(n, c) \in Strokes /\ Stroke(n, c).c = c
BY DEF Stroke, Strokes

\* What is in a place has a character; Nothing is no stroke.
LEMMA CellChars ==
    ASSUME NEW s \in Cells
    PROVE  s.c \in Chars
BY DEF Cells, Chars, Strokes, Nothing, Stroke

\* Going on to the next place is one to one.
LEMMA NextPlace ==
    ASSUME NEW h \in Places
    PROVE  /\ Next_(h) \in Places
           /\ \A t \in Places : Next_(h) = Next_(t) => h = t
<1>1. \A t \in Places : Next_(t) = IF t + 1 < KB_BUF THEN t + 1 ELSE 0
  BY CountValue
<1>. QED  BY <1>1, Bounds DEF Places

\* The usb thread goes on to the next character of its report.
LEMMA NextOfReport ==
    ASSUME NEW u \in UsbStates, u.todo # <<>>
    PROVE  /\ NextOf(u) \in UsbStates /\ Head(u.todo) \in Strokes
           /\ NextOf(u).at \in {"idle", "check"}
           /\ NextOf(u).at # "idle" => NextOf(u).todo # <<>>
<1>. DEFINE q == u.todo
<1>1. q \in Seq(Strokes) /\ q # <<>>
  BY DEF UsbStates
<1>2. NextOf(u) = [at |-> IF Len(q) = 1 THEN "idle" ELSE "check", todo |-> Tail(q),
                   head |-> u.head]
  <2>1. u = [at |-> u.at, todo |-> u.todo, head |-> u.head]
    BY DEF UsbStates
  <2>2. NextOf(u) = [u EXCEPT !.todo = Tail(q),
                              !.at = IF Len(q) = 1 THEN "idle" ELSE "check"]
    BY DEF NextOf
  <2>. HIDE DEF q
  <2>. QED  BY <2>1, <2>2
<1>3. u.head \in Places
  BY DEF UsbStates
<1>. HIDE DEF q
<1>4. Tail(q) \in Seq(Strokes) /\ Head(q) \in Strokes /\ (Len(q) # 1 => Tail(q) # <<>>)
  <2>1. Len(q) \in Nat /\ Len(q) # 0
    BY <1>1
  <2>2. Tail(q) \in Seq(Strokes) /\ Len(Tail(q)) = Len(q) - 1
    BY <1>1
  <2>3. Head(q) \in Strokes
    BY <1>1, <2>1
  <2>4. ASSUME Tail(q) = <<>> PROVE Len(Tail(q)) = 0
    <3>1. Len(<<>>) = 0
      OBVIOUS
    <3>. QED  BY <2>4, <3>1, Zenon
  <2>. QED  BY <2>1, <2>2, <2>3, <2>4
<1>5. NextOf(u) \in UsbStates
  BY <1>2, <1>3, <1>4 DEF UsbStates
<1>6. NextOf(u).at \in {"idle", "check"} /\ (NextOf(u).at # "idle" => NextOf(u).todo # <<>>)
  BY <1>2, <1>4
<1>. QED  BY <1>4, <1>5, <1>6 DEF q

\* The invariant holds at the start.
LEMMA ConsoleInvInit == ConsoleInit => ConsoleInv
<1>. SUFFICES ASSUME ConsoleInit PROVE ConsoleInv
  OBVIOUS
<1>1. 0 \in Places /\ 0 \in 0 .. LineMax /\ 0 \in 0 .. MaxTyped
  BY Bounds DEF Places
<1>2. KB_BUF_DATA \in [Places -> Cells] /\ LINE \in [0 .. LineMax - 1 -> Printable \cup {"nul"}]
  BY DEF ConsoleInit, Places, Cells
<1>3. usb \in UsbStates /\ terminal \in [at : {"poll", "tail", "serial"}, got : Cells]
  BY <1>1 DEF ConsoleInit, UsbStates, Cells
<1>4. ConsoleTypes
  BY <1>1, <1>2, <1>3 DEF ConsoleInit, ConsoleTypes
<1>5. UsbPushes /\ TerminalPolls
  BY DEF ConsoleInit, UsbPushes, TerminalPolls
<1>. QED  BY <1>4, <1>5 DEF ConsoleInv

\* Handling a character keeps the line within its bounds.
LEMMA LineKept ==
    ASSUME ConsoleTypes, NEW c \in Chars, handle_char(c)
    PROVE  LINE' \in [0 .. LineMax - 1 -> Printable \cup {"nul"}] /\ LEN' \in 0 .. LineMax
<1>1. /\ LINE \in [0 .. LineMax - 1 -> Printable \cup {"nul"}] /\ LEN \in 0 .. LineMax
      /\ LineMax \in Nat
  BY Bounds DEF ConsoleTypes
<1>2. CASE c \in Ends
  BY <1>1, <1>2 DEF handle_char, process_cmd
<1>3. CASE c \notin Ends /\ c = "bs"
  BY <1>1, <1>3 DEF handle_char
<1>4. CASE c \notin Ends /\ c # "bs"
  BY <1>1, <1>4 DEF handle_char
<1>. QED  BY <1>2, <1>3, <1>4

\* A place is filled.
LEMMA PlaceFilled ==
    ASSUME ConsoleTypes, NEW s \in Strokes,
           KB_BUF_DATA' = [KB_BUF_DATA EXCEPT ![KB_HEAD] = s]
    PROVE  /\ KB_BUF_DATA' \in [Places -> Cells] /\ KB_BUF_DATA'[KB_HEAD] = s
           /\ \A i \in Places : i # KB_HEAD => KB_BUF_DATA'[i] = KB_BUF_DATA[i]
<1>1. KB_BUF_DATA \in [Places -> Cells] /\ KB_HEAD \in Places /\ s \in Cells
  BY DEF ConsoleTypes, Cells
<1>. QED  BY <1>1

\* The keyboard interrupt: no usb thread is in a push, and the place that is
\* filled is not the terminal's.
LEMMA KeptByKbd == OneWriterEach /\ ConsoleInv /\ kbd_irq => ConsoleInv'
<1>. SUFFICES ASSUME OneWriterEach, ConsoleInv, kbd_irq PROVE ConsoleInv'
  OBVIOUS
<1>1. /\ ConsoleTypes /\ UsbPushes /\ TerminalPolls
      /\ UNCHANGED <<machine, PREV_KB, usb, terminal, LINE, LEN>>
  BY DEF ConsoleInv, kbd_irq
<1>2. usb.at = "idle"
  <2>1. CASE Quiet
    BY <2>1 DEF Quiet
  <2>2. CASE machine.boot = "kernel"
    <3>1. machine \in Machines /\ "ps2" \in machine.keyboards
      BY <1>1 DEF ConsoleTypes, kbd_irq
    <3>2. "usb" \notin machine.keyboards
      BY <2>2, <3>1 DEF OneWriterEach
    <3>. QED  BY <1>1, <3>2 DEF UsbPushes
  <2>. QED  BY <2>1, <2>2 DEF kbd_irq, Interruptible
<1>3. UsbPushes'
  BY <1>1, <1>2 DEF UsbPushes
<1>4. CASE KBD_CTRL' = ~KBD_CTRL /\ UNCHANGED <<ring, typed, fate>>
  <2>1. UNCHANGED <<KB_BUF_DATA, KB_HEAD, KB_TAIL>>
    BY <1>4 DEF ring
  <2>2. ConsoleTypes'
    BY <1>1, <1>4, <2>1 DEF ConsoleTypes
  <2>3. TerminalPolls'
    BY <1>1, <2>1 DEF TerminalPolls, NoneWaits
  <2>. QED  BY <1>3, <2>2, <2>3 DEF ConsoleInv
<1>5. ASSUME NEW k \in Keys, typed < MaxTyped, typed' = typed + 1, UNCHANGED KBD_CTRL,
             NEW s, s = Stroke(typed + 1, Ps2Char(k, KBD_CTRL)),
             \/ NoRoom /\ UNCHANGED ring
             \/ /\ ~NoRoom /\ KB_BUF_DATA' = [KB_BUF_DATA EXCEPT ![KB_HEAD] = s]
                /\ KB_HEAD' = Next_(KB_HEAD) /\ UNCHANGED KB_TAIL
      PROVE  ConsoleInv'
  <2>1. s \in Strokes /\ typed' \in 0 .. MaxTyped
    <3>1. typed + 1 \in 1 .. MaxTyped /\ KBD_CTRL \in BOOLEAN
      BY <1>1, <1>5, Bounds DEF ConsoleTypes
    <3>2. Ps2Char(k, KBD_CTRL) \in Printable \cup Ends \cup {"bs", "control"}
      BY <3>1, KeyChars
    <3>3. s \in Strokes
      BY <1>5, <3>1, <3>2, StrokeIs
    <3>. QED  BY <1>5, <3>1, <3>3
  <2>2. CASE NoRoom /\ UNCHANGED ring
    <3>1. UNCHANGED <<KB_BUF_DATA, KB_HEAD, KB_TAIL>>
      BY <2>2 DEF ring
    <3>2. ConsoleTypes'
      BY <1>1, <1>5, <2>1, <3>1 DEF ConsoleTypes
    <3>3. TerminalPolls'
      BY <1>1, <3>1 DEF TerminalPolls, NoneWaits
    <3>. QED  BY <1>3, <3>2, <3>3 DEF ConsoleInv
  <2>3. CASE /\ ~NoRoom /\ KB_BUF_DATA' = [KB_BUF_DATA EXCEPT ![KB_HEAD] = s]
             /\ KB_HEAD' = Next_(KB_HEAD) /\ UNCHANGED KB_TAIL
    <3>1. /\ KB_BUF_DATA' \in [Places -> Cells]
          /\ \A i \in Places : i # KB_HEAD => KB_BUF_DATA'[i] = KB_BUF_DATA[i]
      BY <1>1, <2>1, <2>3, PlaceFilled
    <3>2. KB_HEAD \in Places /\ KB_TAIL \in Places
      BY <1>1 DEF ConsoleTypes
    <3>3. KB_HEAD' \in Places
      BY <2>3, <3>2, NextPlace
    <3>4. ConsoleTypes'
      BY <1>1, <1>5, <2>1, <2>3, <3>1, <3>3 DEF ConsoleTypes
    <3>5. TerminalPolls'
      BY <1>1, <2>3, <3>1, <3>2 DEF TerminalPolls, NoneWaits, NoRoom
    <3>. QED  BY <1>3, <3>4, <3>5 DEF ConsoleInv
  <2>. QED  BY <1>5, <2>2, <2>3
<1>6. CASE \E k \in Keys :
             LET s == Stroke(typed + 1, Ps2Char(k, KBD_CTRL)) IN
             /\ typed < MaxTyped /\ typed' = typed + 1
             /\ IF NoRoom
                THEN fate' = <<s, "lost">> /\ UNCHANGED ring
                ELSE /\ fate' = <<s, "kept">>
                     /\ KB_BUF_DATA' = [KB_BUF_DATA EXCEPT ![KB_HEAD] = s]
                     /\ KB_HEAD' = Next_(KB_HEAD)
                     /\ UNCHANGED KB_TAIL
             /\ UNCHANGED KBD_CTRL
  BY <1>5, <1>6
<1>. QED  BY <1>4, <1>6 DEF kbd_irq

\* A report: what is new in it is typed, in its order.
LEMMA ReportTypes ==
    ASSUME ConsoleTypes, NEW ctrl \in BOOLEAN, NEW new \in Seq(Keys),
           typed + Len(new) <= MaxTyped
    PROVE  /\ [i \in DOMAIN new |-> Stroke(typed + i, HidChar(new[i], ctrl))] \in Seq(Strokes)
           /\ Len([i \in DOMAIN new |-> Stroke(typed + i, HidChar(new[i], ctrl))]) = Len(new)
           /\ typed + Len(new) \in 0 .. MaxTyped
<1>1. Len(new) \in Nat /\ DOMAIN new = 1 .. Len(new) /\ typed \in Nat /\ MaxTyped \in Nat
  BY Bounds DEF ConsoleTypes
<1>. DEFINE st(i) == Stroke(typed + i, HidChar(new[i], ctrl))
<1>2. ASSUME NEW i \in 1 .. Len(new) PROVE st(i) \in Strokes
  <2>1. new[i] \in Keys /\ typed + i \in 1 .. MaxTyped
    BY <1>1
  <2>2. HidChar(new[i], ctrl) \in Printable \cup Ends \cup {"bs", "control"}
    BY <2>1, KeyChars
  <2>. QED  BY <2>1, <2>2, StrokeIs
<1>. HIDE DEF st
<1>3. [i \in 1 .. Len(new) |-> st(i)] \in [1 .. Len(new) -> Strokes]
  BY <1>2
<1>4. /\ [i \in 1 .. Len(new) |-> st(i)] \in Seq(Strokes)
      /\ Len([i \in 1 .. Len(new) |-> st(i)]) = Len(new)
  BY <1>1, <1>3
<1>. QED  BY <1>1, <1>4 DEF st

\* The new keys of a report, in their order.
LEMMA ReportIs ==
    ASSUME NEW new \in SetToAllKPermutations(Keys \ PREV_KB)
    PROVE  new \in Seq(Keys) /\ ToSet(new) \subseteq Keys
<1>1. PICK K \in SUBSET (Keys \ PREV_KB) : new \in SetToSeqs(K)
  BY DEF SetToAllKPermutations
<1>2. new \in [1 .. Cardinality(K) -> K]
  BY <1>1 DEF SetToSeqs
<1>3. IsFiniteSet({"a", "e", "h", "j", "enter", "back"})
  <2>1. IsFiniteSet({})
    BY FS_EmptySet
  <2>2. IsFiniteSet({} \cup {"a"})
    BY <2>1, FS_AddElement
  <2>3. IsFiniteSet({} \cup {"a"} \cup {"e"})
    BY <2>2, FS_AddElement
  <2>4. IsFiniteSet({} \cup {"a"} \cup {"e"} \cup {"h"})
    BY <2>3, FS_AddElement
  <2>5. IsFiniteSet({} \cup {"a"} \cup {"e"} \cup {"h"} \cup {"j"})
    BY <2>4, FS_AddElement
  <2>6. IsFiniteSet({} \cup {"a"} \cup {"e"} \cup {"h"} \cup {"j"} \cup {"enter"})
    BY <2>5, FS_AddElement
  <2>7. IsFiniteSet({} \cup {"a"} \cup {"e"} \cup {"h"} \cup {"j"} \cup {"enter"} \cup {"back"})
    BY <2>6, FS_AddElement
  <2>8. {} \cup {"a"} \cup {"e"} \cup {"h"} \cup {"j"} \cup {"enter"} \cup {"back"}
            = {"a", "e", "h", "j", "enter", "back"}
    OBVIOUS
  <2>. QED  BY <2>7, <2>8
<1>4. Cardinality(K) \in Nat
  <2>1. K \subseteq {"a", "e", "h", "j", "enter", "back"}
    BY ConsoleAssumption
  <2>2. IsFiniteSet(K)
    BY <1>3, <2>1, FS_Subset
  <2>. QED  BY <2>2, FS_CardinalityType
<1>5. new \in Seq(Keys)
  <2>1. K \subseteq Keys
    OBVIOUS
  <2>2. new \in Seq(K)
    BY <1>2, <1>4
  <2>. QED  BY <2>1, <2>2
<1>6. ToSet(new) \subseteq Keys
  BY <1>2 DEF ToSet
<1>. QED  BY <1>5, <1>6

\* A report comes while no push is under way.
LEMMA KeptByHid == ConsoleInv /\ hid_kb => ConsoleInv'
<1>. SUFFICES ASSUME ConsoleInv, hid_kb PROVE ConsoleInv'
  OBVIOUS
<1>1. PICK held \in SUBSET PREV_KB, new \in SetToAllKPermutations(Keys \ PREV_KB),
           ctrl \in BOOLEAN :
         /\ typed + Len(new) <= MaxTyped
         /\ usb' = [usb EXCEPT !.todo = [i \in DOMAIN new |->
                                   Stroke(typed + i, HidChar(new[i], ctrl))],
                               !.at = IF new = <<>> THEN "idle" ELSE "check"]
         /\ typed' = typed + Len(new)
         /\ PREV_KB' = held \cup ToSet(new)
  BY DEF hid_kb
<1>2. /\ ConsoleTypes /\ UsbPushes /\ TerminalPolls /\ "usb" \in machine.keyboards
      /\ UNCHANGED <<machine, KB_BUF_DATA, KB_HEAD, KB_TAIL, KBD_CTRL, terminal, LINE, LEN>>
  BY DEF ConsoleInv, hid_kb, ring
<1>3. new \in Seq(Keys) /\ ToSet(new) \subseteq Keys
  BY ReportIs
<1>. DEFINE q == [i \in DOMAIN new |-> Stroke(typed + i, HidChar(new[i], ctrl))]
<1>4. q \in Seq(Strokes) /\ Len(q) = Len(new) /\ typed + Len(new) \in 0 .. MaxTyped
  BY <1>1, <1>2, <1>3, ReportTypes
<1>. HIDE DEF q
<1>5. usb' = [usb EXCEPT !.todo = q, !.at = IF new = <<>> THEN "idle" ELSE "check"]
  BY <1>1 DEF q
<1>6. /\ usb' \in UsbStates /\ usb'.at \in {"idle", "check"}
      /\ usb'.at # "idle" => new # <<>>
      /\ usb'.todo = q
  <2>1. usb \in UsbStates
    BY <1>2 DEF ConsoleTypes
  <2>2. usb' = [at |-> IF new = <<>> THEN "idle" ELSE "check", todo |-> q, head |-> usb.head]
    <3>1. usb = [at |-> usb.at, todo |-> usb.todo, head |-> usb.head]
      BY <2>1 DEF UsbStates
    <3>. QED  BY <1>5, <3>1
  <2>. QED  BY <1>4, <2>1, <2>2 DEF UsbStates
<1>7. new # <<>> => q # <<>>
  <2>1. ASSUME q = <<>> PROVE Len(q) = 0
    <3>1. Len(<<>>) = 0
      OBVIOUS
    <3>. QED  BY <2>1, <3>1, Zenon
  <2>2. Len(new) = 0 => new = <<>>
    BY <1>3
  <2>. QED  BY <1>4, <2>1, <2>2
<1>8. PREV_KB' \subseteq Keys
  BY <1>1, <1>2, <1>3 DEF ConsoleTypes
<1>9. ConsoleTypes'
  BY <1>1, <1>2, <1>4, <1>6, <1>8 DEF ConsoleTypes
<1>10. UsbPushes'
  BY <1>2, <1>6, <1>7 DEF UsbPushes
<1>11. TerminalPolls'
  BY <1>2 DEF TerminalPolls, NoneWaits
<1>. QED  BY <1>9, <1>10, <1>11 DEF ConsoleInv

\* The usb thread reads head and tail: what it read stays true.
LEMMA KeptByUsbCheck == ConsoleInv /\ UsbCheck => ConsoleInv'
<1>. SUFFICES ASSUME ConsoleInv, UsbCheck PROVE ConsoleInv'
  OBVIOUS
<1>1. /\ ConsoleTypes /\ UsbPushes /\ TerminalPolls
      /\ UNCHANGED <<machine, KB_BUF_DATA, KB_HEAD, KB_TAIL, KBD_CTRL, PREV_KB, terminal,
                     LINE, LEN, typed>>
  BY DEF ConsoleInv, UsbCheck, ring
<1>2. usb \in UsbStates /\ usb.todo # <<>> /\ "usb" \in machine.keyboards /\ KB_HEAD \in Places
  BY <1>1 DEF ConsoleTypes, UsbPushes, UsbCheck
<1>3. usb' \in UsbStates /\ UsbPushes'
  <2>1. CASE NoRoom
    <3>1. usb' = NextOf(usb)
      BY <2>1 DEF UsbCheck
    <3>2. /\ usb' \in UsbStates /\ usb'.at \in {"idle", "check"}
          /\ usb'.at # "idle" => usb'.todo # <<>>
      BY <1>2, <3>1, NextOfReport
    <3>. QED  BY <1>1, <1>2, <3>2 DEF UsbPushes
  <2>2. CASE ~NoRoom
    <3>1. usb' = [usb EXCEPT !.at = "write", !.head = KB_HEAD]
      BY <2>2 DEF UsbCheck
    <3>2. /\ usb' \in UsbStates /\ usb'.at = "write" /\ usb'.head = KB_HEAD
          /\ usb'.todo = usb.todo
      BY <1>2, <3>1 DEF UsbStates
    <3>. QED  BY <1>1, <1>2, <2>2, <3>2 DEF UsbPushes, NoRoom
  <2>. QED  BY <2>1, <2>2
<1>4. ConsoleTypes'
  BY <1>1, <1>3 DEF ConsoleTypes
<1>5. TerminalPolls'
  BY <1>1 DEF TerminalPolls, NoneWaits
<1>. QED  BY <1>3, <1>4, <1>5 DEF ConsoleInv

\* It writes its character to a place the terminal is not at.
LEMMA KeptByUsbWrite == ConsoleInv /\ UsbWrite => ConsoleInv'
<1>. SUFFICES ASSUME ConsoleInv, UsbWrite PROVE ConsoleInv'
  OBVIOUS
<1>1. /\ ConsoleTypes /\ UsbPushes /\ TerminalPolls
      /\ UNCHANGED <<machine, KB_HEAD, KB_TAIL, KBD_CTRL, PREV_KB, terminal, LINE, LEN, typed>>
  BY DEF ConsoleInv, UsbWrite
<1>2. /\ usb \in UsbStates /\ usb.todo # <<>> /\ "usb" \in machine.keyboards
      /\ usb.head = KB_HEAD /\ ~NoRoom
  BY <1>1 DEF ConsoleTypes, UsbPushes, UsbWrite
<1>3. /\ usb' \in UsbStates /\ usb'.at = "head" /\ usb'.todo = usb.todo
      /\ usb'.head = KB_HEAD
  BY <1>2 DEF UsbStates, UsbWrite
<1>4. Head(usb.todo) \in Strokes
  BY <1>2, NextOfReport
<1>5. /\ KB_BUF_DATA' \in [Places -> Cells] /\ KB_BUF_DATA'[KB_HEAD] = Head(usb.todo)
      /\ \A i \in Places : i # KB_HEAD => KB_BUF_DATA'[i] = KB_BUF_DATA[i]
  <2>1. KB_BUF_DATA' = [KB_BUF_DATA EXCEPT ![KB_HEAD] = Head(usb.todo)]
    BY <1>2 DEF UsbWrite
  <2>. QED  BY <1>1, <1>4, <2>1, PlaceFilled
<1>6. ConsoleTypes'
  BY <1>1, <1>3, <1>5 DEF ConsoleTypes
<1>7. UsbPushes'
  BY <1>1, <1>2, <1>3, <1>5 DEF UsbPushes, NoRoom
<1>8. TerminalPolls'
  <2>1. KB_TAIL \in Places
    BY <1>1 DEF ConsoleTypes
  <2>. QED  BY <1>1, <1>5, <2>1 DEF TerminalPolls, NoneWaits
<1>. QED  BY <1>6, <1>7, <1>8 DEF ConsoleInv

\* It moves the head on, from where it still is.
LEMMA KeptByUsbHead == ConsoleInv /\ UsbHead => ConsoleInv'
<1>. SUFFICES ASSUME ConsoleInv, UsbHead PROVE ConsoleInv'
  OBVIOUS
<1>1. /\ ConsoleTypes /\ UsbPushes /\ TerminalPolls
      /\ UNCHANGED <<machine, KB_BUF_DATA, KB_TAIL, KBD_CTRL, PREV_KB, terminal, LINE, LEN, typed>>
      /\ usb' = NextOf(usb)
  BY DEF ConsoleInv, UsbHead
<1>2. /\ usb \in UsbStates /\ usb.todo # <<>> /\ "usb" \in machine.keyboards
      /\ usb.head = KB_HEAD /\ ~NoRoom /\ KB_HEAD \in Places
  BY <1>1 DEF ConsoleTypes, UsbPushes, UsbHead
<1>3. /\ usb' \in UsbStates /\ usb'.at \in {"idle", "check"}
      /\ usb'.at # "idle" => usb'.todo # <<>>
  BY <1>1, <1>2, NextOfReport
<1>4. KB_HEAD' = Next_(KB_HEAD) /\ KB_HEAD' \in Places
  BY <1>2, NextPlace DEF UsbHead
<1>5. ConsoleTypes'
  BY <1>1, <1>3, <1>4 DEF ConsoleTypes
<1>6. UsbPushes'
  BY <1>1, <1>2, <1>3 DEF UsbPushes
<1>7. TerminalPolls'
  BY <1>1, <1>2, <1>4 DEF TerminalPolls, NoneWaits, NoRoom
<1>. QED  BY <1>5, <1>6, <1>7 DEF ConsoleInv

\* The terminal looks at the oldest character.
LEMMA KeptByPoll == ConsoleInv /\ TerminalPoll => ConsoleInv'
<1>. SUFFICES ASSUME ConsoleInv, TerminalPoll PROVE ConsoleInv'
  OBVIOUS
<1>1. /\ ConsoleTypes /\ UsbPushes
      /\ UNCHANGED <<machine, KB_BUF_DATA, KB_HEAD, KB_TAIL, KBD_CTRL, PREV_KB, usb, LINE, LEN,
                     typed>>
  BY DEF ConsoleInv, TerminalPoll, ring
<1>2. KB_BUF_DATA[KB_TAIL] \in Cells /\ terminal \in [at : {"poll", "tail", "serial"}, got : Cells]
  BY <1>1 DEF ConsoleTypes
<1>3. terminal' \in [at : {"poll", "tail", "serial"}, got : Cells] /\ TerminalPolls'
  <2>1. CASE NoneWaits
    <3>1. terminal' = [terminal EXCEPT !.at = "serial"]
      BY <2>1 DEF TerminalPoll
    <3>. QED  BY <1>2, <3>1 DEF TerminalPolls
  <2>2. CASE ~NoneWaits
    <3>1. terminal' = [at |-> "tail", got |-> KB_BUF_DATA[KB_TAIL]]
      BY <2>2 DEF TerminalPoll
    <3>. QED  BY <1>1, <1>2, <2>2, <3>1 DEF TerminalPolls, NoneWaits
  <2>. QED  BY <2>1, <2>2
<1>4. ConsoleTypes'
  BY <1>1, <1>3 DEF ConsoleTypes
<1>5. UsbPushes'
  BY <1>1 DEF UsbPushes, NoRoom
<1>. QED  BY <1>3, <1>4, <1>5 DEF ConsoleInv

\* The terminal moves the tail on: there is still room for the usb thread.
LEMMA KeptByTake == ConsoleInv /\ TerminalTakes => ConsoleInv'
<1>. SUFFICES ASSUME ConsoleInv, TerminalTakes PROVE ConsoleInv'
  OBVIOUS
<1>1. /\ ConsoleTypes /\ UsbPushes /\ TerminalPolls
      /\ UNCHANGED <<machine, KB_BUF_DATA, KB_HEAD, KBD_CTRL, PREV_KB, usb, typed>>
      /\ terminal' = [at |-> "poll", got |-> Nothing]
  BY DEF ConsoleInv, TerminalTakes
<1>2. KB_HEAD \in Places /\ KB_TAIL \in Places /\ KB_HEAD # KB_TAIL /\ terminal.got \in Cells
  BY <1>1 DEF ConsoleTypes, TerminalPolls, NoneWaits, TerminalTakes
<1>3. KB_TAIL' = Next_(KB_TAIL) /\ KB_TAIL' \in Places /\ Next_(KB_HEAD) # KB_TAIL'
  BY <1>2, NextPlace DEF TerminalTakes
<1>4. LINE' \in [0 .. LineMax - 1 -> Printable \cup {"nul"}] /\ LEN' \in 0 .. LineMax
  <2>1. terminal.got.c \in Chars /\ handle_char(terminal.got.c)
    BY <1>2, CellChars DEF TerminalTakes
  <2>. QED  BY <1>1, <2>1, LineKept
<1>5. terminal' \in [at : {"poll", "tail", "serial"}, got : Cells]
  BY <1>1 DEF Cells
<1>6. ConsoleTypes'
  BY <1>1, <1>3, <1>4, <1>5 DEF ConsoleTypes
<1>7. UsbPushes'
  BY <1>1, <1>3 DEF UsbPushes, NoRoom
<1>8. TerminalPolls'
  BY <1>1 DEF TerminalPolls
<1>. QED  BY <1>6, <1>7, <1>8 DEF ConsoleInv

\* What the serial line can bring is a stroke.
LEMMA SerialIs ==
    ASSUME ConsoleTypes, typed < MaxTyped, NEW c \in {Plain(k) : k \in Keys} \cup {"cr"}
    PROVE  c \in Chars /\ Stroke(typed + 1, c) \in Strokes /\ Stroke(typed + 1, c).c = c
           /\ typed + 1 \in 0 .. MaxTyped
<1>1. c \in Printable \cup Ends \cup {"bs"}
  <2>1. CASE c = "cr"
    BY <2>1 DEF Ends
  <2>2. ASSUME NEW k \in Keys, c = Plain(k) PROVE c \in Printable \cup Ends \cup {"bs"}
    <3>1. FALSE \in BOOLEAN
      OBVIOUS
    <3>. QED  BY <2>2, <3>1, KeyChars
  <2>. QED  BY <2>1, <2>2
<1>2. typed + 1 \in 1 .. MaxTyped /\ typed + 1 \in 0 .. MaxTyped
  BY Bounds DEF ConsoleTypes
<1>. QED  BY <1>1, <1>2, StrokeIs DEF Chars

\* The terminal takes what the serial line brings, or goes on.
LEMMA KeptBySerial == ConsoleInv /\ TerminalSerial => ConsoleInv'
<1>. SUFFICES ASSUME ConsoleInv, TerminalSerial PROVE ConsoleInv'
  OBVIOUS
<1>1. /\ ConsoleTypes /\ UsbPushes /\ terminal.at = "serial"
      /\ UNCHANGED <<machine, KB_BUF_DATA, KB_HEAD, KB_TAIL, KBD_CTRL, PREV_KB, usb>>
  BY DEF ConsoleInv, TerminalSerial, ring
<1>2. terminal \in [at : {"poll", "tail", "serial"}, got : Cells]
  BY <1>1 DEF ConsoleTypes
<1>3. UsbPushes'
  BY <1>1 DEF UsbPushes, NoRoom
<1>4. CASE terminal' = [terminal EXCEPT !.at = "poll"] /\ UNCHANGED <<LINE, LEN, typed>>
  <2>1. terminal' \in [at : {"poll", "tail", "serial"}, got : Cells] /\ terminal'.at = "poll"
    BY <1>2, <1>4
  <2>2. ConsoleTypes'
    BY <1>1, <1>4, <2>1 DEF ConsoleTypes
  <2>3. TerminalPolls'
    BY <2>1 DEF TerminalPolls
  <2>. QED  BY <1>3, <2>2, <2>3 DEF ConsoleInv
<1>5. ASSUME NEW c \in {Plain(k) : k \in Keys} \cup {"cr"}, typed < MaxTyped,
             typed' = typed + 1, handle_char(c), UNCHANGED terminal
      PROVE  ConsoleInv'
  <2>1. c \in Chars /\ typed' \in 0 .. MaxTyped
    BY <1>1, <1>5, SerialIs
  <2>2. LINE' \in [0 .. LineMax - 1 -> Printable \cup {"nul"}] /\ LEN' \in 0 .. LineMax
    BY <1>1, <1>5, <2>1, LineKept
  <2>3. ConsoleTypes'
    BY <1>1, <1>5, <2>1, <2>2 DEF ConsoleTypes
  <2>4. TerminalPolls'
    BY <1>1, <1>5 DEF TerminalPolls
  <2>. QED  BY <1>3, <2>3, <2>4 DEF ConsoleInv
<1>. QED  BY <1>4, <1>5 DEF TerminalSerial

\* What waits is a sequence: the places from the tail up to the head.
LEMMA WaitingIs ==
    ASSUME ConsoleTypes
    PROVE  /\ Waiting = Window(KB_BUF_DATA, KB_TAIL, Count(KB_HEAD, KB_TAIL))
           /\ Waiting \in Seq(Cells) /\ Len(Waiting) = Count(KB_HEAD, KB_TAIL)
           /\ DOMAIN Waiting = 1 .. Len(Waiting)
           /\ Len(Waiting) \in 0 .. KB_BUF - 1
           /\ NoneWaits <=> Len(Waiting) = 0
           /\ NoRoom <=> Len(Waiting) = KB_BUF - 1
<1>1. KB_BUF_DATA \in [Places -> Cells] /\ KB_HEAD \in Places /\ KB_TAIL \in Places
  BY DEF ConsoleTypes
<1>. DEFINE c == Count(KB_HEAD, KB_TAIL)
<1>2. c \in Places /\ (KB_HEAD = KB_TAIL <=> c = 0) /\ (Next_(KB_HEAD) = KB_TAIL <=> c = KB_BUF - 1)
  BY <1>1, CountValue
<1>3. Waiting = Window(KB_BUF_DATA, KB_TAIL, c)
  BY DEF Waiting, Window, Count, Place
<1>. HIDE DEF c
<1>4. Waiting \in Seq(Cells) /\ Len(Waiting) = c
  BY <1>1, <1>2, <1>3, WindowIs
<1>5. DOMAIN Waiting = 1 .. Len(Waiting)
  BY <1>4
<1>. QED  BY <1>2, <1>3, <1>4, <1>5 DEF c, Places, NoneWaits, NoRoom

\* The least of a set of numbers is in the set, and none is less.
LEMMA MinIsLeast ==
    ASSUME NEW S \in SUBSET Nat, S # {}
    PROVE  Min(S) \in S /\ \A y \in S : Min(S) <= y
<1>. DEFINE Less == OpToRel(<, Nat)
<1>1. \E x \in S : \A y \in S : ~ (<<y, x>> \in Less)
  BY NatLessThanWellFounded, WFMin, Zenon
<1>2. Less = {ss \in Nat \X Nat : ss[1] < ss[2]}
  BY Zenon DEF OpToRel
<1>. HIDE DEF Less
<1>3. \A x, y \in Nat : <<y, x>> \in Less <=> y < x
  BY <1>2
<1>4. PICK x \in S : \A y \in S : ~ (<<y, x>> \in Less)
  BY <1>1
<1>5. ASSUME NEW y \in S PROVE x <= y
  <2>1. x \in Nat /\ y \in Nat
    OBVIOUS
  <2>2. ~ (y < x)
    BY <1>3, <1>4, <2>1, Zenon
  <2>. QED  BY <2>1, <2>2
<1>. QED  BY <1>5 DEF Min

\* What a read of n characters, of at most len, is.
Reads(n, len) ==
    /\ n \in 1 .. Len(Waiting) /\ n <= len
    /\ \A i \in 1 .. n - 1 : Waiting[i].c # "nl"
    /\ n < len /\ n < Len(Waiting) => Waiting[n].c = "nl"
    /\ KB_TAIL' = After(KB_TAIL, n)
    /\ taken' = <<"process", SubSeq(Waiting, 1, n)>>

\* A read ends behind the first end of a line, or takes what there is.
LEMMA ReadTakes ==
    ASSUME ConsoleTypes, NEW len \in 1 .. MaxRead, sys_read(len)
    PROVE  \E n \in Nat : Reads(n, len)
<1>. DEFINE ends == {i \in DOMAIN Waiting : Waiting[i].c = "nl"}
            S == {len, Len(Waiting)} \cup ends
            n == Min(S)
<1>1. /\ Len(Waiting) \in Nat /\ DOMAIN Waiting = 1 .. Len(Waiting) /\ len \in Nat
  BY WaitingIs, Bounds
<1>2. /\ n > 0 /\ KB_TAIL' = (KB_TAIL + n) % KB_BUF
      /\ taken' = <<"process", SubSeq(Waiting, 1, n)>>
  BY DEF sys_read
<1>. HIDE DEF n
<1>3. S \in SUBSET Nat /\ S # {}
  BY <1>1
<1>4. n \in S /\ \A y \in S : n <= y
  <2>. HIDE DEF S
  <2>. QED  BY <1>3, MinIsLeast DEF n
<1>5. n \in 1 .. Len(Waiting) /\ n <= len
  <2>1. n \in Nat /\ n <= len /\ n <= Len(Waiting)
    BY <1>3, <1>4
  <2>. QED  BY <1>1, <1>2, <2>1
<1>6. ASSUME NEW i \in 1 .. n - 1 PROVE Waiting[i].c # "nl"
  <2>1. i \in DOMAIN Waiting /\ i < n
    BY <1>1, <1>5
  <2>2. i \notin ends
    BY <1>4, <1>5, <2>1
  <2>. QED  BY <2>1, <2>2
<1>7. n < len /\ n < Len(Waiting) => Waiting[n].c = "nl"
  <2>1. n = len \/ n = Len(Waiting) \/ n \in ends
    BY <1>4
  <2>2. ASSUME n < len, n < Len(Waiting) PROVE n \in ends
    <3>. HIDE DEF ends, S
    <3>. DEFINE l == Len(Waiting)
    <3>0. n \in 1 .. l /\ l \in Nat /\ n < l
      BY <1>1, <1>5, <2>2
    <3>1. n # len
      BY <1>1, <1>5, <2>2
    <3>2. n # l
      <4>. HIDE DEF l
      <4>. QED  BY <3>0
    <3>. QED  BY <2>1, <3>1, <3>2
  <2>3. n \in ends => Waiting[n].c = "nl"
    OBVIOUS
  <2>. QED  BY <2>2, <2>3
<1>8. KB_TAIL' = After(KB_TAIL, n)
  BY <1>2 DEF After
<1>9. Reads(n, len)
  BY <1>2, <1>5, <1>6, <1>7, <1>8 DEF Reads
<1>. QED  BY <1>5, <1>9

\* A process reads while no thread is at the ring.
LEMMA KeptByRead ==
    ConsoleInv /\ (\E len \in 1 .. MaxRead : sys_read(len)) => ConsoleInv'
<1>. SUFFICES ASSUME ConsoleInv, NEW len \in 1 .. MaxRead, sys_read(len) PROVE ConsoleInv'
  OBVIOUS
<1>1. /\ ConsoleTypes /\ UsbPushes /\ TerminalPolls /\ Quiet
      /\ UNCHANGED <<machine, KB_BUF_DATA, KB_HEAD, KBD_CTRL, PREV_KB, usb, terminal, LINE, LEN,
                     typed>>
  BY DEF ConsoleInv, sys_read
<1>2. PICK n \in Nat : Reads(n, len)
  BY <1>1, ReadTakes
<1>3. KB_TAIL' \in Places
  <2>1. n \in 0 .. Count(KB_HEAD, KB_TAIL)
    BY <1>1, <1>2, WaitingIs DEF Reads
  <2>2. KB_BUF_DATA \in [Places -> Cells] /\ KB_HEAD \in Places /\ KB_TAIL \in Places
    BY <1>1 DEF ConsoleTypes
  <2>3. After(KB_TAIL, n) \in Places
    BY <2>1, <2>2, WindowShrinks
  <2>. QED  BY <1>2, <2>3 DEF Reads
<1>4. ConsoleTypes'
  BY <1>1, <1>3 DEF ConsoleTypes
<1>5. UsbPushes' /\ TerminalPolls'
  BY <1>1 DEF UsbPushes, TerminalPolls, Quiet
<1>. QED  BY <1>4, <1>5 DEF ConsoleInv

\* The invariant is inductive.
LEMMA ConsoleInvStep ==
    OneWriterEach /\ ConsoleInv /\ [ConsoleNext]_consoleVars => ConsoleInv'
<1>. SUFFICES ASSUME OneWriterEach, ConsoleInv, [ConsoleNext]_consoleVars PROVE ConsoleInv'
  OBVIOUS
<1>1. CASE UNCHANGED consoleVars
  BY <1>1 DEF consoleVars, ring, seen, ConsoleInv, ConsoleTypes, UsbPushes, TerminalPolls,
              NoRoom, NoneWaits
<1>. QED  BY <1>1, KeptByKbd, KeptByHid, KeptByUsbCheck, KeptByUsbWrite, KeptByUsbHead, KeptByPoll,
             KeptByTake, KeptBySerial, KeptByRead DEF ConsoleNext, UsbPush, run

-----------------------------------------------------------------------------
(***************************************************************************)
(* Console implements TypedInput.                                          *)
(***************************************************************************)
\* The line of the terminal, as TypedInput sees it.
Line == [i \in 1 .. LEN |-> LINE[i - 1]]

\* The line is a sequence of LEN characters.
LEMMA LineIs ==
    ASSUME ConsoleTypes
    PROVE  /\ Line \in Seq(Printable \cup {"nul"}) /\ Len(Line) = LEN
           /\ \A i \in 1 .. LEN : Line[i] = LINE[i - 1]
           /\ Line = <<>> <=> LEN = 0
<1>1. LEN \in Nat /\ LEN <= LineMax /\ LineMax \in Nat
      /\ LINE \in [0 .. LineMax - 1 -> Printable \cup {"nul"}]
  BY Bounds DEF ConsoleTypes
<1>2. ASSUME NEW i \in 1 .. LEN PROVE LINE[i - 1] \in Printable \cup {"nul"}
  <2>1. i - 1 \in 0 .. LineMax - 1
    BY <1>1
  <2>. QED  BY <1>1, <2>1
<1>3. Line \in [1 .. LEN -> Printable \cup {"nul"}]
  BY <1>2 DEF Line
<1>4. Line \in Seq(Printable \cup {"nul"}) /\ Len(Line) = LEN
  BY <1>1, <1>3
<1>5. \A i \in 1 .. LEN : Line[i] = LINE[i - 1]
  BY DEF Line
<1>6. ASSUME Line = <<>> PROVE LEN = 0
  <2>1. Len(<<>>) = 0
    OBVIOUS
  <2>. QED  BY <1>4, <1>6, <2>1, Zenon
<1>7. LEN = 0 => Line = <<>>
  BY <1>4
<1>. QED  BY <1>4, <1>5, <1>6, <1>7

\* Without its last character the line is one shorter.
LEMMA LineShrinks ==
    ASSUME ConsoleTypes, LEN > 0, LEN' = LEN - 1, LINE' = LINE
    PROVE  Line' = SubSeq(Line, 1, Len(Line) - 1)
<1>1. LEN \in Nat /\ Line \in Seq(Printable \cup {"nul"}) /\ Len(Line) = LEN
      /\ \A i \in 1 .. LEN : Line[i] = LINE[i - 1]
  BY LineIs DEF ConsoleTypes
<1>2. SubSeq(Line, 1, LEN - 1) = [i \in 1 .. LEN - 1 |-> Line[i]]
  BY <1>1
<1>3. \A i \in 1 .. LEN - 1 : Line[i] = LINE[i - 1]
  BY <1>1
<1>4. Line' = [i \in 1 .. LEN - 1 |-> LINE[i - 1]]
  BY DEF Line
<1>. QED  BY <1>1, <1>2, <1>3, <1>4

\* With another one it is one longer.
LEMMA LineGrows ==
    ASSUME ConsoleTypes, NEW c \in Printable, LEN < LineMax,
           LINE' = [LINE EXCEPT ![LEN] = c], LEN' = LEN + 1
    PROVE  Line' = Append(Line, c)
<1>1. /\ LEN \in Nat /\ Line \in Seq(Printable \cup {"nul"}) /\ Len(Line) = LEN
      /\ \A i \in 1 .. LEN : Line[i] = LINE[i - 1]
      /\ LINE \in [0 .. LineMax - 1 -> Printable \cup {"nul"}]
      /\ LineMax \in Nat
  BY LineIs, Bounds DEF ConsoleTypes
<1>2. Append(Line, c) = [i \in 1 .. LEN + 1 |-> IF i = LEN + 1 THEN c ELSE Line[i]]
  <2>. DEFINE T == Printable \cup {"nul"}
  <2>1. Line \in Seq(T) /\ Len(Line) = LEN /\ c \in T
    BY <1>1
  <2>. HIDE DEF T
  <2>. QED  BY <2>1, AppendIs
<1>3. Line' = [i \in 1 .. LEN + 1 |-> LINE'[i - 1]]
  BY DEF Line
<1>4. ASSUME NEW i \in 1 .. LEN + 1
      PROVE  LINE'[i - 1] = IF i = LEN + 1 THEN c ELSE Line[i]
  <2>1. i - 1 \in 0 .. LineMax - 1
    BY <1>1
  <2>2. CASE i = LEN + 1
    BY <1>1, <2>1, <2>2
  <2>3. CASE i # LEN + 1
    <3>1. i \in 1 .. LEN /\ i - 1 # LEN
      BY <1>1, <2>3
    <3>2. LINE'[i - 1] = LINE[i - 1]
      BY <1>1, <2>1, <3>1
    <3>. QED  BY <1>1, <2>3, <3>1, <3>2
  <2>. QED  BY <2>2, <2>3
<1>. QED  BY <1>2, <1>3, <1>4

\* The terminal edits its line as the abstract one is edited.
LEMMA EditLine ==
    ASSUME ConsoleTypes, NEW c \in Chars, handle_char(c)
    PROVE  Line' = Input!Edited(c) /\ command' = (IF c \in Ends THEN Line ELSE command)
<1>1. /\ Line \in Seq(Printable \cup {"nul"}) /\ Len(Line) = LEN
      /\ Line = <<>> <=> LEN = 0
      /\ LEN \in Nat /\ LEN <= LineMax /\ LineMax \in Nat
  BY LineIs, Bounds DEF ConsoleTypes
<1>2. Input!Edited(c) =
          IF c \in Printable THEN IF Len(Line) < LineMax THEN Append(Line, c) ELSE Line
          ELSE IF c \in Ends THEN <<>>
          ELSE IF c = "bs" /\ Line # <<>> THEN SubSeq(Line, 1, Len(Line) - 1)
          ELSE Line
  BY DEF Input!Edited, Line
<1>4. CASE c \in Ends
  <2>1. command' = Line /\ LEN' = 0
    BY <1>4 DEF handle_char, process_cmd, Line
  <2>2. Line' = <<>>
    BY <2>1 DEF Line
  <2>3. c \notin Printable
    BY <1>4 DEF Ends, Printable
  <2>. QED  BY <1>2, <1>4, <2>1, <2>2, <2>3
<1>5. CASE c = "bs"
  <2>1. c \notin Printable /\ c \notin Ends
    BY <1>5 DEF Ends, Printable
  <2>2. /\ command' = command /\ LINE' = LINE
        /\ LEN' = (IF LEN > 0 THEN LEN - 1 ELSE 0)
    BY <1>5, <2>1 DEF handle_char
  <2>3. CASE LEN > 0
    <3>1. Line' = SubSeq(Line, 1, Len(Line) - 1)
      BY <2>2, <2>3, LineShrinks
    <3>. QED  BY <1>1, <1>2, <1>5, <2>1, <2>2, <2>3, <3>1
  <2>4. CASE LEN = 0
    <3>1. Line' = Line
      BY <2>2, <2>4 DEF Line
    <3>. QED  BY <1>1, <1>2, <2>1, <2>2, <2>4, <3>1
  <2>. QED  BY <1>1, <2>3, <2>4
<1>6. CASE c \in Printable
  <2>1. c \notin Ends /\ c # "bs"
    BY <1>6 DEF Ends, Printable
  <2>2. CASE LEN < LineMax
    <3>1. LINE' = [LINE EXCEPT ![LEN] = c] /\ LEN' = LEN + 1 /\ command' = command
      BY <1>6, <2>1, <2>2 DEF handle_char
    <3>2. Line' = Append(Line, c)
      BY <1>6, <2>2, <3>1, LineGrows
    <3>. QED  BY <1>1, <1>2, <1>6, <2>1, <2>2, <3>1, <3>2
  <2>3. CASE ~(LEN < LineMax)
    <3>1. LINE' = LINE /\ LEN' = LEN /\ command' = command
      BY <2>1, <2>3 DEF handle_char
    <3>2. Line' = Line
      BY <3>1 DEF Line
    <3>. QED  BY <1>1, <1>2, <1>6, <2>1, <2>3, <3>1, <3>2
  <2>. QED  BY <2>2, <2>3
<1>7. CASE c \notin Ends /\ c # "bs" /\ c \notin Printable
  <2>1. LINE' = LINE /\ LEN' = LEN /\ command' = command
    BY <1>7 DEF handle_char
  <2>2. Line' = Line
    BY <2>1 DEF Line
  <2>. QED  BY <1>2, <1>7, <2>1, <2>2
<1>. QED  BY <1>4, <1>5, <1>6, <1>7

\* A character behind the last one.
LEMMA RingGrows ==
    ASSUME ConsoleTypes, ~NoRoom, KB_BUF_DATA' \in [Places -> Cells],
           \A i \in Places : i # KB_HEAD => KB_BUF_DATA'[i] = KB_BUF_DATA[i],
           KB_TAIL' = KB_TAIL
    PROVE  /\ KB_HEAD' = KB_HEAD => Waiting' = Waiting
           /\ KB_HEAD' = Next_(KB_HEAD) => Waiting' = Append(Waiting, KB_BUF_DATA'[KB_HEAD])
<1>. DEFINE h == KB_HEAD
            t == KB_TAIL
            d == KB_BUF_DATA
            e == KB_BUF_DATA'
            c == Count(h, t)
<1>1. /\ h \in Places /\ t \in Places /\ d \in [Places -> Cells] /\ e \in [Places -> Cells]
      /\ Next_(h) # t
      /\ \A i \in Places : i # h => e[i] = d[i]
  BY DEF ConsoleTypes, NoRoom
<1>2. Waiting = Window(d, t, c)
  BY WaitingIs
<1>3. Waiting' = Window(e, t, Count(KB_HEAD', t))
  BY DEF Waiting, Window, Count, Place
<1>4. /\ Count(Next_(h), t) = c + 1
      /\ Window(e, t, c) = Window(d, t, c)
      /\ Window(e, t, c + 1) = Append(Window(d, t, c), e[h])
  <2>. HIDE DEF h, t, d, e
  <2>. QED  BY <1>1, WindowGrows
<1>. HIDE DEF d, e
<1>5. ASSUME KB_HEAD' = KB_HEAD PROVE Waiting' = Waiting
  BY <1>2, <1>3, <1>4, <1>5
<1>6. ASSUME KB_HEAD' = Next_(KB_HEAD) PROVE Waiting' = Append(Waiting, e[h])
  BY <1>2, <1>3, <1>4, <1>6
<1>. QED  BY <1>5, <1>6 DEF e

\* The first n characters are taken.
LEMMA RingShrinks ==
    ASSUME ConsoleTypes, NEW n \in 0 .. Len(Waiting), UNCHANGED <<KB_BUF_DATA, KB_HEAD>>,
           KB_TAIL' = After(KB_TAIL, n)
    PROVE  Waiting' = SubSeq(Waiting, n + 1, Len(Waiting))
<1>. DEFINE h == KB_HEAD
            t == KB_TAIL
            d == KB_BUF_DATA
            c == Count(h, t)
<1>1. h \in Places /\ t \in Places /\ d \in [Places -> Cells]
  BY DEF ConsoleTypes
<1>2. Waiting = Window(d, t, c) /\ Len(Waiting) = c
  BY WaitingIs
<1>3. Waiting' = Window(d, After(t, n), Count(h, After(t, n)))
  BY DEF Waiting, Window, Count, Place
<1>4. n \in 0 .. c
  BY <1>2
<1>5. /\ Count(h, After(t, n)) = c - n
      /\ Window(d, After(t, n), c - n) = SubSeq(Window(d, t, c), n + 1, c)
  <2>. HIDE DEF h, t, d
  <2>. QED  BY <1>1, <1>4, WindowShrinks
<1>. HIDE DEF h, t, d
<1>. QED  BY <1>2, <1>3, <1>5

\* As long as the ring is unchanged the same characters wait.
LEMMA SameWaiting == UNCHANGED <<KB_BUF_DATA, KB_HEAD, KB_TAIL>> => Waiting' = Waiting
BY DEF Waiting

\* An unchanged line is unchanged in TypedInput.
LEMMA UnchangedLine == UNCHANGED <<LINE, LEN>> => Line' = Line
BY DEF Line

\* A keystroke is lost at a full ring, or waits at its end.
LEMMA TypedIs ==
    ASSUME ConsoleTypes, NEW s \in Strokes, UNCHANGED <<LINE, LEN, command, taken>>,
           \/ NoRoom /\ Waiting' = Waiting /\ fate' = <<s, "lost">>
           \/ ~NoRoom /\ Waiting' = Append(Waiting, s) /\ fate' = <<s, "kept">>
    PROVE  Input!Next
<1>1. Len(Waiting) \in 0 .. KB_BUF - 1 /\ (NoRoom <=> Len(Waiting) = KB_BUF - 1)
  BY WaitingIs
<1>2. NoRoom <=> ~(Len(Waiting) < KB_BUF - 1)
  BY <1>1, Bounds
<1>3. Line' = Line
  BY UnchangedLine
<1>4. Input!Typed(s)
  BY <1>2, <1>3 DEF Input!Typed, Line
<1>. QED  BY <1>4 DEF Input!Next, Strokes

\* The keyboard interrupt types a character, or changes Ctrl.
LEMMA KbdRefines == ConsoleInv /\ kbd_irq => [Input!Next]_Input!vars
<1>. SUFFICES ASSUME ConsoleInv, kbd_irq PROVE [Input!Next]_Input!vars
  OBVIOUS
<1>1. ConsoleTypes /\ UNCHANGED <<LINE, LEN, command, taken>>
  BY DEF ConsoleInv, kbd_irq
<1>2. CASE UNCHANGED <<ring, typed, fate>>
  <2>1. Waiting' = Waiting /\ Line' = Line
    BY <1>1, <1>2, SameWaiting, UnchangedLine DEF ring
  <2>. QED  BY <1>1, <1>2, <2>1 DEF Input!vars, Line
<1>3. ASSUME NEW k \in Keys, typed < MaxTyped,
             NEW s, s = Stroke(typed + 1, Ps2Char(k, KBD_CTRL)),
             \/ NoRoom /\ UNCHANGED ring /\ fate' = <<s, "lost">>
             \/ /\ ~NoRoom /\ KB_BUF_DATA' = [KB_BUF_DATA EXCEPT ![KB_HEAD] = s]
                /\ KB_HEAD' = Next_(KB_HEAD) /\ UNCHANGED KB_TAIL /\ fate' = <<s, "kept">>
      PROVE  Input!Next
  <2>1. s \in Strokes
    <3>1. typed + 1 \in 1 .. MaxTyped /\ KBD_CTRL \in BOOLEAN
      BY <1>1, <1>3, Bounds DEF ConsoleTypes
    <3>2. Ps2Char(k, KBD_CTRL) \in Printable \cup Ends \cup {"bs", "control"}
      BY <3>1, KeyChars
    <3>. QED  BY <1>3, <3>1, <3>2, StrokeIs
  <2>2. CASE NoRoom /\ UNCHANGED ring /\ fate' = <<s, "lost">>
    <3>1. Waiting' = Waiting
      BY <2>2, SameWaiting DEF ring
    <3>. QED  BY <1>1, <2>1, <2>2, <3>1, TypedIs
  <2>3. CASE /\ ~NoRoom /\ KB_BUF_DATA' = [KB_BUF_DATA EXCEPT ![KB_HEAD] = s]
             /\ KB_HEAD' = Next_(KB_HEAD) /\ UNCHANGED KB_TAIL /\ fate' = <<s, "kept">>
    <3>1. /\ KB_BUF_DATA' \in [Places -> Cells] /\ KB_BUF_DATA'[KB_HEAD] = s
          /\ \A i \in Places : i # KB_HEAD => KB_BUF_DATA'[i] = KB_BUF_DATA[i]
      BY <1>1, <2>1, <2>3, PlaceFilled
    <3>2. Waiting' = Append(Waiting, s)
      <4>1. ~NoRoom /\ KB_TAIL' = KB_TAIL /\ KB_HEAD' = Next_(KB_HEAD)
        BY <2>3
      <4>2. Waiting' = Append(Waiting, KB_BUF_DATA'[KB_HEAD])
        BY <1>1, <3>1, <4>1, RingGrows
      <4>. QED  BY <3>1, <4>2
    <3>. QED  BY <1>1, <2>1, <2>3, <3>2, TypedIs
  <2>. QED  BY <1>3, <2>2, <2>3
<1>4. CASE \E k \in Keys :
             LET s == Stroke(typed + 1, Ps2Char(k, KBD_CTRL)) IN
             /\ typed < MaxTyped /\ typed' = typed + 1
             /\ IF NoRoom
                THEN fate' = <<s, "lost">> /\ UNCHANGED ring
                ELSE /\ fate' = <<s, "kept">>
                     /\ KB_BUF_DATA' = [KB_BUF_DATA EXCEPT ![KB_HEAD] = s]
                     /\ KB_HEAD' = Next_(KB_HEAD)
                     /\ UNCHANGED KB_TAIL
             /\ UNCHANGED KBD_CTRL
  BY <1>3, <1>4
<1>. QED  BY <1>2, <1>4 DEF kbd_irq

\* The usb thread's own steps: its character is typed when it is lost, or when
\* the head moves on.
LEMMA UsbRefines == ConsoleInv /\ (hid_kb \/ UsbPush) => [Input!Next]_Input!vars
<1>. SUFFICES ASSUME ConsoleInv, hid_kb \/ UsbPush PROVE [Input!Next]_Input!vars
  OBVIOUS
<1>1. ConsoleTypes /\ UsbPushes /\ UNCHANGED <<LINE, LEN, command, taken>>
  BY DEF ConsoleInv, hid_kb, UsbPush, UsbCheck, UsbWrite, UsbHead, seen
<1>2. Line' = Line
  BY <1>1, UnchangedLine
<1>3. usb.at # "idle" => Head(usb.todo) \in Strokes
  <2>1. usb \in UsbStates
    BY <1>1 DEF ConsoleTypes
  <2>2. usb.at # "idle" => usb.todo # <<>>
    BY <1>1 DEF UsbPushes
  <2>. QED  BY <2>1, <2>2, NextOfReport
<1>4. CASE Waiting' = Waiting /\ UNCHANGED fate
  BY <1>1, <1>2, <1>4 DEF Input!vars, Line
<1>5. CASE hid_kb
  <2>1. UNCHANGED <<KB_BUF_DATA, KB_HEAD, KB_TAIL, fate>>
    BY <1>5 DEF hid_kb, ring, seen
  <2>. QED  BY <1>4, <2>1, SameWaiting
<1>6. CASE UsbCheck
  <2>1. UNCHANGED <<KB_BUF_DATA, KB_HEAD, KB_TAIL>> /\ usb.at = "check"
    BY <1>6 DEF UsbCheck, ring
  <2>2. Waiting' = Waiting
    BY <2>1, SameWaiting
  <2>3. CASE NoRoom
    <3>1. fate' = <<Head(usb.todo), "lost">>
      BY <1>6, <2>3 DEF UsbCheck
    <3>2. Head(usb.todo) \in Strokes
      BY <1>3, <2>1
    <3>. QED  BY <1>1, <2>2, <2>3, <3>1, <3>2, TypedIs
  <2>4. CASE ~NoRoom
    <3>1. UNCHANGED fate
      BY <1>6, <2>4 DEF UsbCheck
    <3>. QED  BY <1>4, <2>2, <3>1
  <2>. QED  BY <2>3, <2>4
<1>7. CASE UsbWrite
  <2>1. /\ ~NoRoom /\ usb.at = "write" /\ UNCHANGED <<KB_HEAD, KB_TAIL, fate>>
        /\ KB_BUF_DATA' = [KB_BUF_DATA EXCEPT ![KB_HEAD] = Head(usb.todo)]
    BY <1>1, <1>7 DEF UsbPushes, UsbWrite, seen
  <2>2. /\ KB_BUF_DATA' \in [Places -> Cells]
        /\ \A i \in Places : i # KB_HEAD => KB_BUF_DATA'[i] = KB_BUF_DATA[i]
    <3>1. Head(usb.todo) \in Strokes
      BY <1>3, <2>1
    <3>. QED  BY <1>1, <2>1, <3>1, PlaceFilled
  <2>3. Waiting' = Waiting
    <3>1. ~NoRoom /\ KB_TAIL' = KB_TAIL /\ KB_HEAD' = KB_HEAD
      BY <2>1
    <3>. QED  BY <1>1, <2>2, <3>1, RingGrows
  <2>. QED  BY <1>4, <2>1, <2>3
<1>8. CASE UsbHead
  <2>1. /\ ~NoRoom /\ usb.at = "head" /\ UNCHANGED <<KB_BUF_DATA, KB_TAIL>>
        /\ KB_HEAD' = Next_(KB_HEAD) /\ fate' = <<Head(usb.todo), "kept">>
        /\ KB_BUF_DATA[KB_HEAD] = Head(usb.todo)
    BY <1>1, <1>8 DEF UsbPushes, UsbHead
  <2>2. Waiting' = Append(Waiting, Head(usb.todo))
    <3>1. /\ KB_BUF_DATA' \in [Places -> Cells]
          /\ \A i \in Places : i # KB_HEAD => KB_BUF_DATA'[i] = KB_BUF_DATA[i]
          /\ ~NoRoom /\ KB_TAIL' = KB_TAIL /\ KB_HEAD' = Next_(KB_HEAD)
      BY <1>1, <2>1 DEF ConsoleTypes
    <3>2. Waiting' = Append(Waiting, KB_BUF_DATA'[KB_HEAD])
      BY <1>1, <3>1, RingGrows
    <3>. QED  BY <2>1, <3>2
  <2>3. Head(usb.todo) \in Strokes
    BY <1>3, <2>1
  <2>. QED  BY <1>1, <2>1, <2>2, <2>3, TypedIs
<1>. QED  BY <1>5, <1>6, <1>7, <1>8 DEF UsbPush

\* The terminal: what it took is the first character that waited.
LEMMA TakeRefines == ConsoleInv /\ TerminalTakes => Input!Next
<1>. SUFFICES ASSUME ConsoleInv, TerminalTakes PROVE Input!Next
  OBVIOUS
<1>1. /\ ConsoleTypes /\ ~NoneWaits /\ terminal.got = KB_BUF_DATA[KB_TAIL]
      /\ UNCHANGED <<KB_BUF_DATA, KB_HEAD, fate>> /\ KB_TAIL' = Next_(KB_TAIL)
      /\ handle_char(terminal.got.c) /\ taken' = <<"terminal", terminal.got>>
  BY DEF ConsoleInv, TerminalPolls, TerminalTakes
<1>2. /\ Waiting \in Seq(Cells) /\ Len(Waiting) \in Nat /\ Len(Waiting) # 0
      /\ Waiting # <<>>
  <2>1. Waiting \in Seq(Cells) /\ Len(Waiting) \in 0 .. KB_BUF - 1 /\ Len(Waiting) # 0
    BY <1>1, WaitingIs
  <2>2. ASSUME Waiting = <<>> PROVE Len(Waiting) = 0
    <3>1. Len(<<>>) = 0
      OBVIOUS
    <3>. QED  BY <2>2, <3>1, Zenon
  <2>3. Len(Waiting) \in Nat
    BY <2>1, Bounds
  <2>. QED  BY <2>1, <2>2, <2>3
<1>3. Waiting' = Tail(Waiting)
  <2>1. KB_TAIL' = After(KB_TAIL, 1) /\ 1 \in 0 .. Len(Waiting)
    BY <1>1, <1>2 DEF After, Next_
  <2>2. Waiting' = SubSeq(Waiting, 1 + 1, Len(Waiting))
    BY <1>1, <2>1, RingShrinks
  <2>3. SubSeq(Waiting, 2, Len(Waiting)) = Tail(Waiting)
    <3>. DEFINE w == Waiting
    <3>1. w \in Seq(Cells) /\ w # <<>>
      BY <1>2
    <3>. HIDE DEF w
    <3>2. SubSeq(w, 2, Len(w)) = Tail(w)
      BY <3>1
    <3>. QED  BY <3>2 DEF w
  <2>. QED  BY <2>2, <2>3
<1>4. Head(Waiting) = terminal.got
  <2>1. KB_TAIL \in Places
    BY <1>1 DEF ConsoleTypes
  <2>2. Place(KB_TAIL, 1) = KB_TAIL
    <3>1. 1 \in 1 .. KB_BUF
      BY Bounds
    <3>2. Place(KB_TAIL, 1) = IF KB_TAIL + 1 - 1 < KB_BUF THEN KB_TAIL + 1 - 1
                              ELSE KB_TAIL + 1 - 1 - KB_BUF
      BY <2>1, <3>1, PlaceValue
    <3>. QED  BY <2>1, <3>2, Bounds DEF Places
  <2>3. Waiting[1] = KB_BUF_DATA[Place(KB_TAIL, 1)]
    <3>1. 1 \in 1 .. Count(KB_HEAD, KB_TAIL)
      BY <1>1, <1>2, WaitingIs
    <3>. QED  BY <1>1, <3>1, WaitingIs DEF Window
  <2>4. Head(Waiting) = Waiting[1]
    BY <1>2
  <2>. QED  BY <1>1, <2>2, <2>3, <2>4
<1>5. PICK c \in Chars : c = Head(Waiting).c /\ handle_char(c)
  <2>1. terminal.got \in Cells
    BY <1>1 DEF ConsoleTypes
  <2>. QED  BY <1>1, <1>4, <2>1, CellChars
<1>6. Line' = Input!Edited(c) /\ command' = (IF c \in Ends THEN Line ELSE command)
  BY <1>1, <1>5, EditLine
<1>7. Input!Edit(Head(Waiting).c)
  BY <1>5, <1>6 DEF Input!Edit, Line
<1>8. Input!TerminalTakes
  BY <1>1, <1>2, <1>3, <1>4, <1>7 DEF Input!TerminalTakes
<1>. QED  BY <1>8 DEF Input!Next

\* A poll is not seen; what the serial line brings goes into the line.
LEMMA TerminalRefines == ConsoleInv /\ run => [Input!Next]_Input!vars
<1>. SUFFICES ASSUME ConsoleInv, run PROVE [Input!Next]_Input!vars
  OBVIOUS
<1>1. CASE TerminalPoll
  <2>1. UNCHANGED <<KB_BUF_DATA, KB_HEAD, KB_TAIL, LINE, LEN, fate, command, taken>>
    BY <1>1 DEF TerminalPoll, ring, seen
  <2>2. Waiting' = Waiting /\ Line' = Line
    BY <2>1, SameWaiting, UnchangedLine
  <2>. QED  BY <2>1, <2>2 DEF Input!vars, Line
<1>2. CASE TerminalTakes
  BY <1>2, TakeRefines
<1>3. CASE TerminalSerial
  <2>1. ConsoleTypes /\ UNCHANGED <<KB_BUF_DATA, KB_HEAD, KB_TAIL, fate>>
    BY <1>3 DEF ConsoleInv, TerminalSerial, ring
  <2>2. Waiting' = Waiting
    BY <2>1, SameWaiting
  <2>3. CASE UNCHANGED <<LINE, LEN, command, taken>>
    <3>1. Line' = Line
      BY <2>3, UnchangedLine
    <3>. QED  BY <2>1, <2>2, <2>3, <3>1 DEF Input!vars, Line
  <2>4. ASSUME NEW c \in {Plain(k) : k \in Keys} \cup {"cr"}, typed < MaxTyped, handle_char(c),
               taken' = <<"serial", Stroke(typed + 1, c)>>
        PROVE  Input!Next
    <3>1. PICK s \in Strokes : s = Stroke(typed + 1, c) /\ s.c = c /\ c \in Chars
      BY <2>1, <2>4, SerialIs
    <3>2. Line' = Input!Edited(s.c) /\ command' = (IF s.c \in Ends THEN Line ELSE command)
      BY <2>1, <2>4, <3>1, EditLine
    <3>3. Input!Edit(s.c)
      BY <3>2 DEF Input!Edit, Line
    <3>4. Input!Serial(s)
      BY <2>1, <2>2, <2>4, <3>1, <3>3 DEF Input!Serial
    <3>. QED  BY <3>4 DEF Input!Next, Strokes
  <2>. QED  BY <1>3, <2>3, <2>4 DEF TerminalSerial
<1>. QED  BY <1>1, <1>2, <1>3 DEF run

\* A read takes what a process may take.
LEMMA ReadRefines ==
    ConsoleInv /\ (\E len \in 1 .. MaxRead : sys_read(len)) => Input!Next
<1>. SUFFICES ASSUME ConsoleInv, NEW len \in 1 .. MaxRead, sys_read(len) PROVE Input!Next
  OBVIOUS
<1>1. ConsoleTypes /\ UNCHANGED <<KB_BUF_DATA, KB_HEAD, LINE, LEN, fate, command>>
  BY DEF ConsoleInv, sys_read
<1>2. PICK n \in Nat : Reads(n, len)
  BY <1>1, ReadTakes
<1>3. Len(Waiting) \in 0 .. KB_BUF - 1 /\ KB_BUF \in Nat /\ len \in Nat
  BY <1>1, WaitingIs, Bounds
<1>4. /\ n \in 1 .. Len(Waiting) /\ n <= len
      /\ \A i \in 1 .. n - 1 : Waiting[i].c # "nl"
      /\ n < len /\ n < Len(Waiting) => Waiting[n].c = "nl"
      /\ KB_TAIL' = After(KB_TAIL, n)
      /\ taken' = <<"process", SubSeq(Waiting, 1, n)>>
  BY <1>2 DEF Reads
<1>5. Waiting' = SubSeq(Waiting, n + 1, Len(Waiting))
  <2>1. n \in 0 .. Len(Waiting)
    BY <1>3, <1>4
  <2>. QED  BY <1>1, <1>4, <2>1, RingShrinks
<1>6. Line' = Line
  BY <1>1, UnchangedLine
<1>7. PICK most \in 1 .. KB_BUF - 1 :
           n \in 1 .. most /\ (n < most /\ n < Len(Waiting) => Waiting[n].c = "nl")
  <2>. DEFINE l == Len(Waiting)
              newline == Waiting[n].c = "nl"
  <2>1. l \in 0 .. KB_BUF - 1 /\ n \in 1 .. l /\ n <= len /\ (n < len /\ n < l => newline)
    BY <1>3, <1>4
  <2>. HIDE DEF l, newline
  <2>2. CASE len <= KB_BUF - 1
    <3>1. len \in 1 .. KB_BUF - 1 /\ n \in 1 .. len
      BY <1>3, <2>1, <2>2
    <3>. QED  BY <2>1, <3>1 DEF l, newline
  <2>3. CASE ~(len <= KB_BUF - 1)
    <3>1. /\ KB_BUF - 1 \in 1 .. KB_BUF - 1 /\ n \in 1 .. KB_BUF - 1
          /\ n < KB_BUF - 1 => n < len
      BY <1>3, <2>1, <2>3
    <3>. QED  BY <2>1, <3>1 DEF l, newline
  <2>. QED  BY <2>2, <2>3
<1>8. Input!ProcessTakes(most)
  <2>1. n <= Len(Waiting)
    BY <1>3, <1>4
  <2>. QED  BY <1>1, <1>4, <1>5, <1>6, <1>7, <2>1 DEF Input!ProcessTakes, Line
<1>. QED  BY <1>7, <1>8 DEF Input!Next

\* At the start nothing waits and the line is empty.
LEMMA ConsoleInitRefines == ConsoleInit => Input!Init
<1>. SUFFICES ASSUME ConsoleInit PROVE Input!Init
  OBVIOUS
<1>1. ConsoleTypes
  BY ConsoleInvInit DEF ConsoleInv
<1>2. Waiting = <<>>
  <2>1. Waiting \in Seq(Cells) /\ Len(Waiting) = 0
    BY <1>1, WaitingIs DEF ConsoleInit, NoneWaits
  <2>. QED  BY <2>1
<1>3. Line = <<>>
  BY <1>1, LineIs DEF ConsoleInit
<1>. QED  BY <1>2, <1>3 DEF ConsoleInit, Input!Init, Line

\* Every step is one of TypedInput's, or is not seen there.
LEMMA ConsoleStepRefines ==
    ConsoleInv /\ [ConsoleNext]_consoleVars => [Input!Next]_Input!vars
<1>. SUFFICES ASSUME ConsoleInv, [ConsoleNext]_consoleVars PROVE [Input!Next]_Input!vars
  OBVIOUS
<1>1. CASE UNCHANGED consoleVars
  <2>1. UNCHANGED <<KB_BUF_DATA, KB_HEAD, KB_TAIL, LINE, LEN, fate, command, taken>>
    BY <1>1 DEF consoleVars, ring, seen
  <2>2. Waiting' = Waiting /\ Line' = Line
    BY <2>1, SameWaiting, UnchangedLine
  <2>. QED  BY <2>1, <2>2 DEF Input!vars, Line
<1>. QED  BY <1>1, KbdRefines, UsbRefines, TerminalRefines, ReadRefines DEF ConsoleNext

\* On a machine with one kind of keyboard, or with a process, what a push or a
\* poll has read of the ring is still so when it goes on, although nothing locks
\* the ring between its accesses.
THEOREM NothingReadIsStale == ASSUME OneWriterEach PROVE ConsoleSpec => []ConsoleInv
<1>1. ConsoleInv /\ [ConsoleNext]_consoleVars => ConsoleInv'
  BY ConsoleInvStep
<1>. QED  BY ConsoleInvInit, <1>1, PTL DEF ConsoleSpec

\* However interrupt, usb thread and terminal interleave on the unlocked ring of
\* a machine with one kind of keyboard, and however they and a process take turns
\* on one that runs processes: every character typed is lost at a full ring or
\* reaches one reader, once and in order, and the line is what was typed.
THEOREM KeysReachOneReader ==
    ASSUME OneWriterEach
    PROVE  ConsoleSpec => ImplementsTypedInput
<1>. QED  BY NothingReadIsStale, ConsoleInitRefines, ConsoleStepRefines, PTL
          DEF ConsoleSpec, ImplementsTypedInput, Input!Spec
====
