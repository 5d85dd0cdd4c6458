------------------------------ MODULE MediaQueue ------------------------------
(***************************************************************************)
(* The bounded media queue of demo/src/cloud/cloud_demo.c.  The callbacks  *)
(* of the SDK (producers) append copies of H.264 and Opus packets under    *)
(* media_queue_mutex; the media sender thread removes them and sends them  *)
(* outside the mutex; the main thread starts and stops the sender.         *)
(*                                                                         *)
(* A critical section of the code is one action, except the two loops that *)
(* drop packets (on overflow and on stop): there each call of              *)
(* workcard_cloud_drop_media_head is an action of its own, taken while the *)
(* thread owns the mutex.  A packet is reduced to its size; "seq" and      *)
(* "end" are ghost fields that number the accepted packets and give the    *)
(* offset of the packet's last byte in the stream of accepted bytes.       *)
(***************************************************************************)
EXTENDS Naturals, Sequences

CONSTANTS MaxCount,      \* WORKCARD_CLOUD_QUEUE_MAX_COUNT
          MaxBytes,      \* WORKCARD_CLOUD_QUEUE_MAX_BYTES
          Sizes,         \* the data sizes the callbacks may deliver
          MaxAccepted    \* bound on the packets of one behaviour

ASSUME QueueAssumption == /\ MaxCount \in Nat \ {0}
                          /\ MaxBytes \in Nat \ {0}
                          /\ Sizes \subseteq Nat
                          /\ MaxAccepted \in Nat

VARIABLES
    queue,           \* the linked list from media_queue_head to media_queue_tail
    count, bytes,    \* media_queue_count, media_queue_bytes
    senderRunning,   \* media_sender_running
    mutex,           \* owner of media_queue_mutex between two steps
    incoming,        \* data_size of the packet whose producer owns the mutex
    sender,          \* control point of the media sender thread
    main,            \* control point of start/stop in the main thread
    handed,          \* ghost: seq of the packet last taken by the sender
    accepted,        \* ghost: packets appended so far
    acceptedBytes    \* ghost: bytes appended so far

ghosts == <<handed, accepted, acceptedBytes>>
vars == <<queue, count, bytes, senderRunning, mutex, incoming, sender, main, ghosts>>

Packet == [seq : Nat, size : Nat, end : Nat]

TypeOK == /\ queue \in Seq(Packet)
          /\ count \in Nat
          /\ bytes \in Nat
          /\ senderRunning \in BOOLEAN
          /\ mutex \in {"free", "producer", "sender"}
          /\ incoming \in Nat
          /\ sender \in {"none", "lock", "waiting", "sending", "done"}
          /\ main \in {"created", "launching", "running", "joining", "stopped"}
          /\ handed \in Nat
          /\ accepted \in Nat
          /\ acceptedBytes \in Nat

Init == /\ queue = <<>> /\ count = 0 /\ bytes = 0
        /\ senderRunning = FALSE
        /\ mutex = "free" /\ incoming = 0
        /\ sender = "none" /\ main = "created"
        /\ handed = 0 /\ accepted = 0 /\ acceptedBytes = 0

------------------------------------------------------------------------------
\* The head node leaves the list but its bytes stay on the account (seeded fault).
DropMediaHeadKeepsBytes == /\ queue # <<>>
                           /\ queue' = Tail(queue)
                           /\ count' = count - 1
                           /\ bytes' = bytes

\* Removal of the head node with its accounting, shared by every loop.
DropMediaHead == /\ queue # <<>>
                 /\ queue' = Tail(queue)
                 /\ count' = count - 1
                 /\ bytes' = bytes - Head(queue).size

\* A signal that is forgotten (seeded fault).
NotWoken == sender

\* pthread_cond_signal and pthread_cond_broadcast: the only waiter is the sender.
Woken == IF sender = "waiting" THEN "lock" ELSE sender

------------------------------------------------------------------------------
(* Producers: workcard_cloud_enqueue_media, run by an SDK callback.         *)

\* The packet passes the size check, is copied, and its producer enters the
\* critical section with the sender running.  Every other submission (empty or
\* oversized packet, no memory, stopped sender) returns without an effect.
Submit(size) == /\ size \in 1 .. MaxBytes
                /\ accepted < MaxAccepted
                /\ mutex = "free"
                /\ senderRunning
                /\ mutex' = "producer"
                /\ incoming' = size
                /\ UNCHANGED <<queue, count, bytes, senderRunning, sender, main, ghosts>>

\* The overflow test lets one packet too many in (seeded fault).
OverflowingLate == /\ queue # <<>>
                   /\ count > MaxCount \/ bytes + incoming > MaxBytes

\* The condition of the overflow loop.
Overflowing == /\ queue # <<>>
               /\ count >= MaxCount \/ bytes + incoming > MaxBytes

\* One turn of the overflow loop.
DropOldest == /\ mutex = "producer"
              /\ Overflowing
              /\ DropMediaHead
              /\ UNCHANGED <<senderRunning, mutex, incoming, sender, main, ghosts>>

\* The packet is appended, the sender is signalled, the mutex is released.
AppendPacket == /\ mutex = "producer"
                /\ ~Overflowing
                /\ accepted' = accepted + 1
                /\ acceptedBytes' = acceptedBytes + incoming
                /\ queue' = Append(queue, [seq |-> accepted', size |-> incoming, end |-> acceptedBytes'])
                /\ count' = count + 1
                /\ bytes' = bytes + incoming
                /\ sender' = Woken
                /\ mutex' = "free"
                /\ incoming' = 0
                /\ UNCHANGED <<senderRunning, main, handed>>

------------------------------------------------------------------------------
(* The media sender thread: workcard_cloud_media_sender_main.               *)

\* The thread finds the queue empty and sleeps in pthread_cond_wait.
SenderWait == /\ sender = "lock" /\ mutex = "free"
              /\ senderRunning
              /\ queue = <<>>
              /\ sender' = "waiting"
              /\ UNCHANGED <<queue, count, bytes, senderRunning, mutex, incoming, main, ghosts>>

\* pthread_cond_wait may return without a signal; the loop checks again.
SpuriousWake == /\ sender = "waiting"
                /\ sender' = "lock"
                /\ UNCHANGED <<queue, count, bytes, senderRunning, mutex, incoming, main, ghosts>>

\* The head node is sent but stays in the list (seeded fault).
SenderPeek == /\ sender = "lock" /\ mutex = "free"
              /\ senderRunning
              /\ queue # <<>>
              /\ handed' = Head(queue).seq
              /\ sender' = "sending"
              /\ UNCHANGED <<queue, count, bytes, senderRunning, mutex, incoming, main, accepted, acceptedBytes>>

\* The head node is detached; it is sent after the mutex is released.
SenderTake == /\ sender = "lock" /\ mutex = "free"
              /\ senderRunning
              /\ DropMediaHead
              /\ handed' = Head(queue).seq
              /\ sender' = "sending"
              /\ UNCHANGED <<senderRunning, mutex, incoming, main, accepted, acceptedBytes>>

\* workcard_cloud_send_media returns, whether or not the packet was sent.
SenderSent == /\ sender = "sending"
              /\ sender' = "lock"
              /\ UNCHANGED <<queue, count, bytes, senderRunning, mutex, incoming, main, ghosts>>

\* The sender has seen the stop and discards what is left, one node a step.
SenderDiscard == /\ sender = "lock" /\ mutex \in {"free", "sender"}
                 /\ ~senderRunning
                 /\ DropMediaHead
                 /\ mutex' = "sender"
                 /\ UNCHANGED <<senderRunning, incoming, sender, main, ghosts>>

\* The sender ends at the stop flag without looking at the queue (seeded fault).
SenderExitAtOnce == /\ sender = "lock" /\ mutex \in {"free", "sender"}
                    /\ ~senderRunning
                    /\ mutex' = "free"
                    /\ sender' = "done"
                    /\ UNCHANGED <<queue, count, bytes, senderRunning, incoming, main, ghosts>>

\* The queue is empty: the sender releases the mutex and ends.
SenderExit == /\ sender = "lock" /\ mutex \in {"free", "sender"}
              /\ ~senderRunning
              /\ queue = <<>>
              /\ mutex' = "free"
              /\ sender' = "done"
              /\ UNCHANGED <<queue, count, bytes, senderRunning, incoming, main, ghosts>>

------------------------------------------------------------------------------
(* The main thread: workcard_cloud_demo_start and workcard_cloud_demo_stop. *)

\* media_sender_running is published before the thread exists.
PublishRunning == /\ main = "created" /\ mutex = "free"
                  /\ senderRunning' = TRUE
                  /\ main' = "launching"
                  /\ UNCHANGED <<queue, count, bytes, mutex, incoming, sender, ghosts>>

LaunchSender == /\ main = "launching"
                /\ sender' = "lock"
                /\ main' = "running"
                /\ UNCHANGED <<queue, count, bytes, senderRunning, mutex, incoming, ghosts>>

\* pthread_create failed: running is withdrawn and no thread ever exists.
LaunchFails == /\ main = "launching" /\ mutex = "free"
               /\ senderRunning' = FALSE
               /\ main' = "stopped"
               /\ UNCHANGED <<queue, count, bytes, mutex, incoming, sender, ghosts>>

\* The stop flag is set without a broadcast (seeded fault).
StopSilently == /\ main = "running" /\ mutex = "free"
                /\ senderRunning' = FALSE
                /\ main' = "joining"
                /\ UNCHANGED <<queue, count, bytes, mutex, incoming, sender, ghosts>>

\* Stop, or the unwinding of a start whose network thread could not be created.
StopSender == /\ main = "running" /\ mutex = "free"
              /\ senderRunning' = FALSE
              /\ sender' = Woken
              /\ main' = "joining"
              /\ UNCHANGED <<queue, count, bytes, mutex, incoming, ghosts>>

JoinSender == /\ main = "joining"
              /\ sender = "done"
              /\ main' = "stopped"
              /\ UNCHANGED <<queue, count, bytes, senderRunning, mutex, incoming, sender, ghosts>>

------------------------------------------------------------------------------
Producer == (\E size \in Sizes : Submit(size)) \/ DropOldest \/ AppendPacket

SenderStep == SenderWait \/ SenderTake \/ SenderSent \/ SenderDiscard \/ SenderExit

Main == PublishRunning \/ LaunchSender \/ LaunchFails \/ StopSender \/ JoinSender

\* After the join the program goes on with other work; the queue stays as it is.
Finished == main = "stopped" /\ mutex = "free" /\ UNCHANGED vars

Next == Producer \/ SenderStep \/ SpuriousWake \/ Main \/ Finished

Spec == Init /\ [][Next]_vars

\* A thread that owns the mutex keeps running, a send ends (SO_SNDTIMEO), the
\* sender keeps running.  Nothing obliges a callback or a stop to come.
FairSpec == /\ Spec
            /\ WF_vars(DropOldest \/ AppendPacket)
            /\ WF_vars(SenderStep)
            /\ WF_vars(JoinSender)

------------------------------------------------------------------------------
(* Properties.                                                              *)

\* The counters the overflow test reads agree with the list: count is its
\* length, and bytes is the distance from the first byte of the head to the
\* last byte accepted (cloud_demo.c:583, 646, 682).
CountersAgree ==
    /\ count = Len(queue)
    /\ queue = <<>> => bytes = 0
    /\ queue # <<>> => bytes + Head(queue).end = acceptedBytes + Head(queue).size

\* The memory the queue holds is bounded in packets and in bytes, at every
\* interleaving of callbacks, sender and stop (cloud_demo.c:632).
Bounded == count <= MaxCount /\ bytes <= MaxBytes

\* What is queued is exactly the newest packets accepted, in order and with no
\* hole, and none of them was handed to the network before.
NewestInOrder ==
    /\ \A i \in 1 .. Len(queue) : queue[i].seq = accepted - Len(queue) + i
    /\ handed <= accepted - Len(queue)

\* The sender never sleeps on the condition variable while a packet is queued
\* or a stop has been requested: no signal is lost (cloud_demo.c:663).
NoLostWakeup == sender = "waiting" => queue = <<>> /\ senderRunning

\* When stop has joined the sender, the queue is empty, for good.
DrainedWhenJoined == main = "stopped" /\ sender # "none" => queue = <<>> /\ count = 0 /\ bytes = 0

\* A requested stop ends: the sender wakes, discards what is queued and is joined.
StopTerminates == main = "joining" ~> main = "stopped"

\* The queue implements the sliding window of MediaWindow.
Window == INSTANCE MediaWindow WITH Capacity <- MaxCount,
                                    lo <- accepted - Len(queue),
                                    hi <- accepted
WindowSpec == Window!Spec
===============================================================================
