--------------------------- MODULE MediaQueueProofs ---------------------------
(***************************************************************************)
(* Proofs about MediaQueue, for every limit on packets and bytes, every    *)
(* set of packet sizes and every bound on the behaviour.                   *)
(***************************************************************************)
EXTENDS MediaQueue, SequenceTheorems, TLAPS

(***************************************************************************)
(* The inductive invariant.  CountersAgree alone is not inductive: to know *)
(* what remains after the head has left, consecutive packets must be known *)
(* to be adjacent in the byte stream (Adjacent).  Bounded needs the size   *)
(* check of the packet that is being appended (Admitted).                  *)
(***************************************************************************)
Adjacent ==
    /\ \A i \in 1 .. Len(queue) : queue[i].end <= acceptedBytes
    /\ queue # <<>> => queue[Len(queue)].end = acceptedBytes
    /\ \A i \in 1 .. Len(queue) - 1 : queue[i].end + queue[i + 1].size = queue[i + 1].end

Admitted == mutex = "producer" => incoming \in 1 .. MaxBytes /\ senderRunning

Control == /\ main \in {"created", "launching"} => sender = "none"
           /\ main = "created" => ~senderRunning
           /\ main \in {"joining", "stopped"} => ~senderRunning
           /\ main = "stopped" => sender \in {"none", "done"}
           /\ sender = "done" => queue = <<>> /\ ~senderRunning

IInv == /\ TypeOK
        /\ CountersAgree
        /\ Adjacent
        /\ NewestInOrder
        /\ Admitted
        /\ Control
        /\ Bounded
        /\ NoLostWakeup

------------------------------------------------------------------------------
(* What appending to and removing the head of the list do to its elements.  *)

\* Appending keeps every element in place and puts the new one last.
LEMMA AppendFacts ==
    ASSUME NEW s \in Seq(Packet), NEW p \in Packet
    PROVE  /\ Append(s, p) \in Seq(Packet)
           /\ Len(s) \in Nat
           /\ Len(Append(s, p)) = Len(s) + 1
           /\ Append(s, p) # <<>>
           /\ \A i \in 1 .. Len(s) : Append(s, p)[i] = s[i]
           /\ Append(s, p)[Len(s) + 1] = p
  BY AppendProperties, LenProperties, EmptySeq

\* Removing the head shifts every other element by one place.
LEMMA TailFacts ==
    ASSUME NEW s \in Seq(Packet), s # <<>>
    PROVE  /\ Tail(s) \in Seq(Packet)
           /\ Len(s) \in Nat /\ Len(s) >= 1
           /\ Len(Tail(s)) = Len(s) - 1
           /\ Head(s) = s[1] /\ s[1] \in Packet
           /\ \A i \in 1 .. Len(s) - 1 : Tail(s)[i] = s[i + 1]
           /\ Tail(s) # <<>> => Len(s) > 1
  <1>1. Len(s) \in Nat /\ Len(s) >= 1
    BY EmptySeq, LenProperties
  <1>2. /\ Tail(s) \in Seq(Packet)
        /\ Len(Tail(s)) = Len(s) - 1
        /\ \A i \in 1 .. Len(s) - 1 : Tail(s)[i] = s[i + 1]
    BY HeadTailProperties
  <1>3. Head(s) = s[1] /\ s[1] \in Packet
    BY <1>1, ElementOfSeq
  <1>4. Tail(s) # <<>> => Len(s) > 1
    BY <1>1, <1>2, EmptySeq
  <1> QED
    BY <1>1, <1>2, <1>3, <1>4

\* Every packet in a sequence of packets has natural fields.
LEMMA PacketFields ==
    ASSUME NEW s \in Seq(Packet), NEW i \in 1 .. Len(s)
    PROVE  s[i].seq \in Nat /\ s[i].size \in Nat /\ s[i].end \in Nat
  <1>1. s[i] \in Packet
    BY ElementOfSeq
  <1> QED
    BY <1>1 DEF Packet

------------------------------------------------------------------------------
\* Taking the first of several adjacent packets off a byte account.
LEMMA AccountWithoutHead ==
    ASSUME NEW b \in Nat, NEW e \in Nat, NEW a \in Nat, NEW s \in Nat,
           b + e = a + s, e <= a
    PROVE  b - s \in Nat /\ b - s <= b /\ (b - s) + e = a
  OBVIOUS

\* The same account seen from the packet that follows the head.
LEMMA AccountFromNext ==
    ASSUME NEW b \in Nat, NEW a \in Nat, NEW e1 \in Nat, NEW e2 \in Nat, NEW s2 \in Nat,
           b + e1 = a, e1 + s2 = e2
    PROVE  b + e2 = a + s2
  OBVIOUS

\* An account to which a packet is added at the far end.
LEMMA AccountWithNewPacket ==
    ASSUME NEW b \in Nat, NEW a \in Nat, NEW e \in Nat, NEW s \in Nat, NEW n \in Nat,
           b + e = a + s
    PROVE  (b + n) + e = (a + n) + s
  OBVIOUS

\* workcard_cloud_drop_media_head keeps the list, the counters and the ghost
\* account consistent, whichever loop calls it (cloud_demo.c:572-592).
LEMMA DropKeepsAccount ==
    ASSUME IInv, DropMediaHead, UNCHANGED <<accepted, acceptedBytes>>
    PROVE  /\ queue' \in Seq(Packet) /\ count' \in Nat /\ bytes' \in Nat
           /\ Head(queue).seq \in Nat
           /\ Len(queue') = Len(queue) - 1
           /\ Len(queue) \in Nat /\ Len(queue) >= 1
           /\ CountersAgree'
           /\ Adjacent'
           /\ Bounded'
           /\ \A i \in 1 .. Len(queue') : queue'[i].seq = accepted' - Len(queue') + i
           /\ Head(queue).seq = accepted - Len(queue) + 1
  <1>0. /\ queue \in Seq(Packet) /\ count \in Nat /\ bytes \in Nat
        /\ accepted \in Nat /\ acceptedBytes \in Nat /\ handed \in Nat
        /\ CountersAgree /\ Adjacent /\ NewestInOrder /\ Bounded
    BY DEF IInv, TypeOK
  <1>1. /\ queue \in Seq(Packet) /\ queue # <<>> /\ queue' = Tail(queue)
        /\ count' = count - 1
        /\ bytes' = bytes - Head(queue).size
    BY <1>0 DEF DropMediaHead
  <1>2. /\ queue' \in Seq(Packet)
        /\ Len(queue) \in Nat /\ Len(queue) >= 1
        /\ Len(queue') = Len(queue) - 1
        /\ Head(queue) = queue[1]
        /\ \A i \in 1 .. Len(queue) - 1 : queue'[i] = queue[i + 1]
        /\ queue' # <<>> => Len(queue) > 1
    BY <1>1, TailFacts
  <1>3. \A i \in 1 .. Len(queue) : queue[i].seq \in Nat /\ queue[i].size \in Nat /\ queue[i].end \in Nat
    BY <1>0, PacketFields
  <1>4. /\ bytes + queue[1].end = acceptedBytes + queue[1].size
        /\ queue[1].end <= acceptedBytes
    BY <1>0, <1>1, <1>2 DEF CountersAgree, Adjacent
  <1>5. bytes' \in Nat /\ bytes' <= bytes /\ bytes' + queue[1].end = acceptedBytes
    <2>1. queue[1].size \in Nat /\ queue[1].end \in Nat
      BY <1>2, <1>3
    <2>2. bytes' = bytes - queue[1].size
      BY <1>1, <1>2
    <2>3. PICK size \in Nat, end \in Nat : size = queue[1].size /\ end = queue[1].end
      BY <2>1
    <2>4. bytes + end = acceptedBytes + size /\ end <= acceptedBytes /\ bytes' = bytes - size
      BY <1>4, <2>2, <2>3
    <2>5. bytes' \in Nat /\ bytes' <= bytes /\ bytes' + end = acceptedBytes
      BY <1>0, <2>4, AccountWithoutHead
    <2> QED
      BY <2>3, <2>5
  <1>6. count' \in Nat /\ count' = Len(queue')
    BY <1>0, <1>1, <1>2 DEF CountersAgree
  <1>7. queue' = <<>> => bytes' = 0
    <2>1. SUFFICES ASSUME queue' = <<>> PROVE bytes' = 0
      OBVIOUS
    <2>2. Len(queue) = 1
      BY <1>2, <2>1, EmptySeq
    <2>3. queue[1].end = acceptedBytes
      BY <1>0, <1>1, <2>2 DEF Adjacent
    <2>4. queue[1].end \in Nat
      BY <1>2, <1>3
    <2> QED
      BY <1>0, <1>5, <2>3, <2>4
  <1>8. queue' # <<>> => bytes' + Head(queue').end = acceptedBytes' + Head(queue').size
    <2>1. SUFFICES ASSUME queue' # <<>>
                   PROVE  bytes' + Head(queue').end = acceptedBytes' + Head(queue').size
      OBVIOUS
    <2>2. Len(queue) > 1
      BY <1>2, <2>1
    <2>3. Head(queue') = queue[2]
      <3>1. Head(queue') = queue'[1]
        BY <1>2, <2>1, TailFacts
      <3> QED
        BY <1>2, <2>2, <3>1
    <2>4. queue[1].end + queue[2].size = queue[2].end
      BY <1>0, <1>2, <2>2 DEF Adjacent
    <2>5. queue[1].end \in Nat /\ queue[2].end \in Nat /\ queue[2].size \in Nat
      BY <1>2, <1>3, <2>2
    <2>6. bytes' + queue[2].end = acceptedBytes + queue[2].size
      <3>1. PICK b \in Nat, a \in Nat, e1 \in Nat, e2 \in Nat, s2 \in Nat :
              /\ b = bytes' /\ a = acceptedBytes
              /\ e1 = queue[1].end /\ e2 = queue[2].end /\ s2 = queue[2].size
        BY <1>0, <1>5, <2>5
      <3>2. b + e1 = a
        BY <1>5, <3>1
      <3>3. e1 + s2 = e2
        BY <2>4, <3>1
      <3>4. b + e2 = a + s2
        BY <3>2, <3>3, AccountFromNext
      <3> QED
        BY <3>1, <3>4
    <2> QED
      BY <2>3, <2>6
  <1>9. CountersAgree'
    BY <1>6, <1>7, <1>8 DEF CountersAgree
  <1>10. Adjacent'
    <2>1. \A i \in 1 .. Len(queue') : queue'[i].end <= acceptedBytes'
      BY <1>0, <1>2 DEF Adjacent
    <2>2. queue' # <<>> => queue'[Len(queue')].end = acceptedBytes'
      BY <1>0, <1>1, <1>2 DEF Adjacent
    <2>3. \A i \in 1 .. Len(queue') - 1 : queue'[i].end + queue'[i + 1].size = queue'[i + 1].end
      BY <1>0, <1>2 DEF Adjacent
    <2> QED
      BY <2>1, <2>2, <2>3 DEF Adjacent
  <1>11. Bounded'
    BY <1>0, <1>1, <1>5, QueueAssumption DEF Bounded
  <1>12. \A i \in 1 .. Len(queue') : queue'[i].seq = accepted' - Len(queue') + i
    <2>1. SUFFICES ASSUME NEW i \in 1 .. Len(queue')
                   PROVE  queue'[i].seq = accepted' - Len(queue') + i
      OBVIOUS
    <2>2. i + 1 \in 1 .. Len(queue) /\ queue'[i] = queue[i + 1]
      BY <1>2
    <2>3. queue[i + 1].seq = accepted - Len(queue) + (i + 1)
      BY <1>0, <2>2 DEF NewestInOrder
    <2> QED
      BY <1>0, <1>2, <2>2, <2>3
  <1>13. Head(queue).seq = accepted - Len(queue) + 1
    BY <1>0, <1>2 DEF NewestInOrder
  <1> QED
    BY <1>2, <1>3, <1>5, <1>6, <1>9, <1>10, <1>11, <1>12, <1>13

------------------------------------------------------------------------------
\* The invariant holds initially.
LEMMA InitInvariant == Init => IInv
  <1> SUFFICES ASSUME Init PROVE IInv
    OBVIOUS
  <1>1. queue = <<>> /\ Len(queue) = 0 /\ queue \in Seq(Packet)
    BY EmptySeq DEF Init
  <1>2. TypeOK
    BY <1>1 DEF Init, TypeOK
  <1>3. CountersAgree /\ Adjacent /\ NewestInOrder
    BY <1>1 DEF Init, CountersAgree, Adjacent, NewestInOrder
  <1>4. Admitted /\ Control /\ NoLostWakeup
    BY DEF Init, Admitted, Control, NoLostWakeup
  <1>5. Bounded
    BY QueueAssumption DEF Init, Bounded
  <1> QED
    BY <1>2, <1>3, <1>4, <1>5 DEF IInv

\* Every step preserves the invariant.
LEMMA NextInvariant == IInv /\ [Next]_vars => IInv'
  <1> SUFFICES ASSUME IInv, [Next]_vars PROVE IInv'
    OBVIOUS
  <1>0. /\ queue \in Seq(Packet) /\ count \in Nat /\ bytes \in Nat /\ incoming \in Nat
        /\ accepted \in Nat /\ acceptedBytes \in Nat /\ handed \in Nat
        /\ TypeOK /\ CountersAgree /\ Adjacent /\ NewestInOrder /\ Bounded
        /\ Admitted /\ Control /\ NoLostWakeup
    BY DEF IInv, TypeOK
  <1>1. ASSUME NEW size \in Sizes, Submit(size) PROVE IInv'
    <2>1. size \in Nat
      BY QueueAssumption
    <2> QED
      BY <1>0, <1>1, <2>1
         DEF Submit, ghosts, IInv, TypeOK, CountersAgree, Adjacent, NewestInOrder, Admitted, Control,
             Bounded, NoLostWakeup
  <1>2. CASE DropOldest
    <2>1. DropMediaHead /\ UNCHANGED <<senderRunning, mutex, incoming, sender, main, ghosts>>
      BY <1>2 DEF DropOldest
    <2>2. UNCHANGED <<accepted, acceptedBytes, handed>>
      BY <2>1 DEF ghosts
    <2>3. /\ queue' \in Seq(Packet) /\ count' \in Nat /\ bytes' \in Nat
          /\ Len(queue') = Len(queue) - 1 /\ Len(queue) \in Nat
          /\ CountersAgree' /\ Adjacent' /\ Bounded'
          /\ \A i \in 1 .. Len(queue') : queue'[i].seq = accepted' - Len(queue') + i
      BY <2>1, <2>2, DropKeepsAccount
    <2>4. NewestInOrder'
      BY <1>0, <2>2, <2>3 DEF NewestInOrder
    <2>5. TypeOK'
      BY <1>0, <2>1, <2>2, <2>3 DEF TypeOK
    <2>6. queue # <<>>
      BY <2>1 DEF DropMediaHead
    <2>7. Admitted' /\ Control' /\ NoLostWakeup'
      BY <1>0, <2>1, <2>6 DEF Admitted, Control, NoLostWakeup
    <2> QED
      BY <2>3, <2>4, <2>5, <2>7 DEF IInv
  <1>3. CASE AppendPacket
    <2> DEFINE p == [seq |-> accepted + 1, size |-> incoming, end |-> acceptedBytes + incoming]
    <2>1. /\ mutex = "producer" /\ ~Overflowing
          /\ accepted' = accepted + 1 /\ acceptedBytes' = acceptedBytes + incoming
          /\ queue' = Append(queue, p)
          /\ count' = count + 1 /\ bytes' = bytes + incoming
          /\ sender' = Woken /\ mutex' = "free" /\ incoming' = 0
          /\ UNCHANGED <<senderRunning, main, handed>>
      BY <1>3 DEF AppendPacket
    <2>2. p \in Packet /\ p.seq = accepted + 1 /\ p.size = incoming /\ p.end = acceptedBytes + incoming
      BY <1>0 DEF Packet
    <2> HIDE DEF p
    <2>3. /\ queue' \in Seq(Packet)
          /\ Len(queue) \in Nat /\ Len(queue') = Len(queue) + 1
          /\ queue' # <<>>
          /\ \A i \in 1 .. Len(queue) : queue'[i] = queue[i]
          /\ queue'[Len(queue) + 1] = p
          /\ Len(queue') \in Nat
      BY <1>0, <2>1, <2>2, AppendFacts
    <2>4. incoming \in 1 .. MaxBytes /\ senderRunning
      BY <1>0, <2>1 DEF Admitted
    <2>5. queue # <<>> => count < MaxCount /\ bytes + incoming <= MaxBytes
      BY <1>0, <2>1, QueueAssumption DEF Overflowing
    <2>6. Bounded'
      BY <1>0, <2>1, <2>4, <2>5, QueueAssumption, EmptySeq DEF CountersAgree, Bounded
    <2>7. \A i \in 1 .. Len(queue) : queue[i].seq \in Nat /\ queue[i].size \in Nat /\ queue[i].end \in Nat
      BY <1>0, PacketFields
    <2>8. CountersAgree'
      <3>1. count' = Len(queue')
        BY <1>0, <2>1, <2>3 DEF CountersAgree
      <3>2. bytes' + Head(queue').end = acceptedBytes' + Head(queue').size
        <4>1. Head(queue') = queue'[1]
          BY <2>3, TailFacts
        <4>2. CASE queue = <<>>
          <5>1. Head(queue') = p /\ bytes = 0
            BY <1>0, <2>3, <4>1, <4>2, EmptySeq DEF CountersAgree
          <5> QED
            BY <1>0, <2>1, <2>2, <5>1
        <4>3. CASE queue # <<>>
          <5>1. Len(queue) >= 1 /\ Head(queue) = queue[1]
            BY <1>0, <4>3, TailFacts
          <5>2. Head(queue') = Head(queue)
            BY <2>3, <4>1, <5>1
          <5>3. bytes + Head(queue).end = acceptedBytes + Head(queue).size
            BY <1>0, <4>3 DEF CountersAgree
          <5>4. Head(queue).end \in Nat /\ Head(queue).size \in Nat
            BY <2>3, <2>7, <5>1
          <5>5. (bytes + incoming) + Head(queue).end = (acceptedBytes + incoming) + Head(queue).size
            BY <1>0, <5>3, <5>4, AccountWithNewPacket, SMTT(20)
          <5> QED
            BY <2>1, <5>2, <5>5
        <4> QED
          BY <4>2, <4>3
      <3> QED
        BY <2>3, <3>1, <3>2 DEF CountersAgree
    <2>9. Adjacent'
      <3>1. ASSUME NEW i \in 1 .. Len(queue') PROVE queue'[i].end <= acceptedBytes'
        <4>1. CASE i = Len(queue) + 1
          BY <1>0, <2>1, <2>2, <2>3, <4>1
        <4>2. CASE i \in 1 .. Len(queue)
          BY <1>0, <2>1, <2>3, <2>7, <4>2 DEF Adjacent
        <4> QED
          BY <2>3, <4>1, <4>2
      <3>2. queue'[Len(queue')].end = acceptedBytes'
        BY <2>1, <2>2, <2>3
      <3>3. ASSUME NEW i \in 1 .. Len(queue') - 1
            PROVE  queue'[i].end + queue'[i + 1].size = queue'[i + 1].end
        <4>0. i \in 1 .. Len(queue) /\ queue'[i] = queue[i]
          BY <2>3
        <4>1. CASE i = Len(queue)
          <5>1. queue # <<>>
            BY <4>0, <4>1, EmptySeq
          <5>2. queue[i].end = acceptedBytes
            BY <1>0, <4>1, <5>1 DEF Adjacent
          <5>3. queue'[i + 1] = p
            BY <2>3, <4>1
          <5> QED
            BY <2>2, <4>0, <5>2, <5>3
        <4>2. CASE i \in 1 .. Len(queue) - 1
          <5>1. queue'[i + 1] = queue[i + 1]
            BY <2>3, <4>2
          <5> QED
            BY <1>0, <4>0, <4>2, <5>1 DEF Adjacent
        <4> QED
          BY <2>3, <4>0, <4>1, <4>2
      <3> QED
        BY <3>1, <3>2, <3>3 DEF Adjacent
    <2>10. NewestInOrder'
      <3>1. ASSUME NEW i \in 1 .. Len(queue')
            PROVE  queue'[i].seq = accepted' - Len(queue') + i
        <4>1. CASE i = Len(queue) + 1
          BY <1>0, <2>1, <2>2, <2>3, <4>1
        <4>2. CASE i \in 1 .. Len(queue)
          <5>1. queue[i].seq = accepted - Len(queue) + i
            BY <1>0, <4>2 DEF NewestInOrder
          <5> QED
            BY <1>0, <2>1, <2>3, <4>2, <5>1
        <4> QED
          BY <2>3, <4>1, <4>2
      <3>2. handed' <= accepted' - Len(queue')
        BY <1>0, <2>1, <2>3 DEF NewestInOrder
      <3> QED
        BY <3>1, <3>2 DEF NewestInOrder
    <2>11. sender' # "waiting" /\ (sender' # "lock" => sender' = sender)
      BY <2>1 DEF Woken
    <2>12. TypeOK'
      BY <1>0, <2>1, <2>3 DEF TypeOK, Woken
    <2>13. Admitted' /\ Control' /\ NoLostWakeup'
      BY <1>0, <2>1, <2>4, <2>11 DEF Admitted, Control, NoLostWakeup, Woken
    <2> QED
      BY <2>6, <2>8, <2>9, <2>10, <2>12, <2>13 DEF IInv
  <1>4. CASE SenderTake
    <2>1. /\ sender = "lock" /\ senderRunning /\ DropMediaHead
          /\ handed' = Head(queue).seq /\ sender' = "sending"
          /\ UNCHANGED <<senderRunning, mutex, incoming, main, accepted, acceptedBytes>>
      BY <1>4 DEF SenderTake
    <2>2. /\ queue' \in Seq(Packet) /\ count' \in Nat /\ bytes' \in Nat
          /\ Head(queue).seq \in Nat
          /\ Len(queue') = Len(queue) - 1 /\ Len(queue) \in Nat
          /\ CountersAgree' /\ Adjacent' /\ Bounded'
          /\ \A i \in 1 .. Len(queue') : queue'[i].seq = accepted' - Len(queue') + i
          /\ Head(queue).seq = accepted - Len(queue) + 1
      BY <2>1, DropKeepsAccount
    <2>3. NewestInOrder'
      BY <1>0, <2>1, <2>2 DEF NewestInOrder
    <2>4. TypeOK'
      BY <1>0, <2>1, <2>2 DEF TypeOK
    <2>5. Admitted' /\ Control' /\ NoLostWakeup'
      BY <1>0, <2>1 DEF Admitted, Control, NoLostWakeup
    <2> QED
      BY <2>2, <2>3, <2>4, <2>5 DEF IInv
  <1>5. CASE SenderDiscard
    <2>1. /\ sender = "lock" /\ ~senderRunning /\ DropMediaHead /\ mutex' = "sender"
          /\ UNCHANGED <<senderRunning, incoming, sender, main, accepted, acceptedBytes, handed>>
      BY <1>5 DEF SenderDiscard, ghosts
    <2>2. /\ queue' \in Seq(Packet) /\ count' \in Nat /\ bytes' \in Nat
          /\ Len(queue') = Len(queue) - 1 /\ Len(queue) \in Nat
          /\ CountersAgree' /\ Adjacent' /\ Bounded'
          /\ \A i \in 1 .. Len(queue') : queue'[i].seq = accepted' - Len(queue') + i
      BY <2>1, DropKeepsAccount
    <2>3. NewestInOrder'
      BY <1>0, <2>1, <2>2 DEF NewestInOrder
    <2>4. TypeOK'
      BY <1>0, <2>1, <2>2 DEF TypeOK
    <2>5. Admitted' /\ Control' /\ NoLostWakeup'
      BY <1>0, <2>1 DEF Admitted, Control, NoLostWakeup
    <2> QED
      BY <2>2, <2>3, <2>4, <2>5 DEF IInv
  <1>6. CASE SenderWait \/ SpuriousWake \/ SenderSent \/ SenderExit
    <2>1. UNCHANGED <<queue, count, bytes, senderRunning, incoming, main, handed, accepted, acceptedBytes>>
      BY <1>6 DEF SenderWait, SpuriousWake, SenderSent, SenderExit, ghosts
    <2>2. CountersAgree' /\ Adjacent' /\ NewestInOrder' /\ Bounded'
      BY <1>0, <2>1 DEF CountersAgree, Adjacent, NewestInOrder, Bounded
    <2>3. TypeOK' /\ Admitted' /\ Control' /\ NoLostWakeup'
      BY <1>0, <1>6, <2>1
         DEF SenderWait, SpuriousWake, SenderSent, SenderExit, TypeOK, Admitted, Control, NoLostWakeup
    <2> QED
      BY <2>2, <2>3 DEF IInv
  <1>7. CASE Main
    <2>1. UNCHANGED <<queue, count, bytes, mutex, incoming, handed, accepted, acceptedBytes>>
      BY <1>7 DEF Main, PublishRunning, LaunchSender, LaunchFails, StopSender, JoinSender, ghosts
    <2>2. CountersAgree' /\ Adjacent' /\ NewestInOrder' /\ Bounded'
      BY <1>0, <2>1 DEF CountersAgree, Adjacent, NewestInOrder, Bounded
    <2>3. TypeOK'
      BY <1>0, <1>7, <2>1
         DEF Main, PublishRunning, LaunchSender, LaunchFails, StopSender, JoinSender, Woken, TypeOK
    <2>4. Admitted'
      BY <1>0, <1>7, <2>1
         DEF Main, PublishRunning, LaunchSender, LaunchFails, StopSender, JoinSender, Admitted
    <2>5. Control'
      BY <1>0, <1>7, <2>1
         DEF Main, PublishRunning, LaunchSender, LaunchFails, StopSender, JoinSender, Woken, Control, TypeOK
    <2>6. NoLostWakeup'
      BY <1>0, <1>7, <2>1
         DEF Main, PublishRunning, LaunchSender, LaunchFails, StopSender, JoinSender, Woken, Control, NoLostWakeup
    <2> QED
      BY <2>2, <2>3, <2>4, <2>5, <2>6 DEF IInv
  <1>8. CASE UNCHANGED vars
    BY <1>0, <1>8
       DEF vars, ghosts, IInv, TypeOK, CountersAgree, Adjacent, NewestInOrder, Admitted, Control,
           Bounded, NoLostWakeup
  <1> QED
    BY <1>1, <1>2, <1>3, <1>4, <1>5, <1>6, <1>7, <1>8
       DEF Next, Producer, SenderStep, Finished

\* The inductive invariant holds in every reachable state.
THEOREM Invariant == Spec => []IInv
  BY InitInvariant, NextInvariant, PTL DEF Spec

------------------------------------------------------------------------------
(* The properties the model-checked runs check.                             *)

\* Every variable keeps its type.
THEOREM TypeCorrect == Spec => []TypeOK
  <1>1. IInv => TypeOK
    BY DEF IInv
  <1> QED
    BY <1>1, Invariant, PTL

\* The overflow test of workcard_cloud_enqueue_media (cloud_demo.c:632) reads
\* counters that agree with the list, for every mix of sizes and every schedule.
THEOREM CountersCorrect == Spec => []CountersAgree
  <1>1. IInv => CountersAgree
    BY DEF IInv
  <1> QED
    BY <1>1, Invariant, PTL

\* The queue never holds more packets or more bytes than its two limits
\* (cloud_demo.c:605, 632).
THEOREM BoundedMemory == Spec => []Bounded
  <1>1. IInv => Bounded
    BY DEF IInv
  <1> QED
    BY <1>1, Invariant, PTL

\* The sender never sleeps over a packet or over a requested stop
\* (cloud_demo.c:663, 651, 771).
THEOREM NoWakeupLost == Spec => []NoLostWakeup
  <1>1. IInv => NoLostWakeup
    BY DEF IInv
  <1> QED
    BY <1>1, Invariant, PTL

\* Once stop has joined a sender the queue is empty and nothing is appended any
\* more (cloud_demo.c:667-674, 696-700, 774).
THEOREM Drained == Spec => []DrainedWhenJoined
  <1>1. IInv => DrainedWhenJoined
    BY EmptySeq DEF IInv, Control, CountersAgree, DrainedWhenJoined
  <1> QED
    BY <1>1, Invariant, PTL

------------------------------------------------------------------------------
(* The queue implements the sliding window.                                 *)

\* The empty queue is the empty window.
LEMMA WindowInit == Init => Window!Init
  <1> SUFFICES ASSUME Init PROVE Window!Init
    OBVIOUS
  <1>1. Len(queue) = 0 /\ accepted = 0 /\ handed = 0
    BY EmptySeq DEF Init
  <1> QED
    BY <1>1 DEF Window!Init

\* Every step of the queue is a step of the window or leaves the window alone.
LEMMA WindowStep == IInv /\ [Next]_vars => [Window!Next]_(Window!window)
  <1> SUFFICES ASSUME IInv, [Next]_vars PROVE [Window!Next]_(Window!window)
    OBVIOUS
  <1>0. /\ queue \in Seq(Packet) /\ accepted \in Nat /\ handed \in Nat /\ acceptedBytes \in Nat
        /\ count \in Nat /\ incoming \in Nat
        /\ Len(queue) \in Nat
        /\ CountersAgree /\ NewestInOrder /\ Bounded
    BY LenProperties DEF IInv, TypeOK
  <1>1. ASSUME UNCHANGED <<queue, accepted, handed>> PROVE UNCHANGED Window!window
    BY <1>1 DEF Window!window
  <1>2. ASSUME DropMediaHead, UNCHANGED <<accepted, acceptedBytes, handed>> PROVE Window!Forget
    <2>1. Len(queue') = Len(queue) - 1 /\ Len(queue) >= 1
      BY <1>2, DropKeepsAccount
    <2>2. /\ accepted - Len(queue) < accepted
          /\ accepted' - Len(queue') = (accepted - Len(queue)) + 1
      BY <1>0, <1>2, <2>1
    <2> QED
      BY <1>2, <2>2 DEF Window!Forget
  <1>3. CASE AppendPacket
    <2> DEFINE p == [seq |-> accepted + 1, size |-> incoming, end |-> acceptedBytes + incoming]
    <2>1. p \in Packet
      BY <1>0 DEF Packet
    <2>2. /\ queue' = Append(queue, p) /\ accepted' = accepted + 1 /\ handed' = handed /\ ~Overflowing
      BY <1>3 DEF AppendPacket
    <2> HIDE DEF p
    <2>3. Len(queue') = Len(queue) + 1
      BY <1>0, <2>1, <2>2, AppendFacts
    <2>4. Len(queue) < MaxCount
      BY <1>0, <2>2, QueueAssumption, EmptySeq DEF Overflowing, CountersAgree
    <2>5. /\ accepted - (accepted - Len(queue)) < MaxCount
          /\ accepted' - Len(queue') = accepted - Len(queue)
      BY <1>0, <2>2, <2>3, <2>4, QueueAssumption
    <2> QED
      BY <2>2, <2>5 DEF Window!Accept, Window!Next
  <1>4. CASE SenderTake
    <2>1. DropMediaHead /\ handed' = Head(queue).seq /\ UNCHANGED <<accepted, acceptedBytes>>
      BY <1>4 DEF SenderTake
    <2>2. /\ Len(queue') = Len(queue) - 1 /\ Len(queue) >= 1
          /\ Head(queue).seq = accepted - Len(queue) + 1
      BY <2>1, DropKeepsAccount
    <2>3. /\ accepted - Len(queue) < accepted
          /\ accepted' - Len(queue') = (accepted - Len(queue)) + 1
          /\ handed' = (accepted - Len(queue)) + 1
      BY <1>0, <2>1, <2>2
    <2> QED
      BY <2>1, <2>3 DEF Window!Hand, Window!Next
  <1>5. CASE DropOldest \/ SenderDiscard
    BY <1>2, <1>5 DEF DropOldest, SenderDiscard, ghosts, Window!Next
  <1>6. CASE \/ \E size \in Sizes : Submit(size)
             \/ SenderWait \/ SpuriousWake \/ SenderSent \/ SenderExit \/ Main \/ Finished
             \/ UNCHANGED vars
    BY <1>1, <1>6
       DEF Submit, SenderWait, SpuriousWake, SenderSent, SenderExit, Main, PublishRunning, LaunchSender,
           LaunchFails, StopSender, JoinSender, Finished, vars, ghosts
  <1> QED
    BY <1>3, <1>4, <1>5, <1>6 DEF Next, Producer, SenderStep

\* Producers, sender and stop together implement the window: packets leave only
\* from the old end, in order, each handed to the network at most once, and the
\* window never exceeds the packet limit (cloud_demo.c:572-700).
THEOREM ImplementsWindow == Spec => WindowSpec
  BY Invariant, WindowInit, WindowStep, PTL DEF Spec, WindowSpec, Window!Spec

===============================================================================
