----------------------------- MODULE MediaWindow -----------------------------
(***************************************************************************)
(* What the application media queue promises its users, without its list,  *)
(* its counters, its mutex or its threads.  The packets accepted from the  *)
(* SDK callbacks are numbered 1, 2, 3 ...  At any time the queue retains a *)
(* window lo+1 .. hi of them; it forgets packets only from the old end,    *)
(* and hands packets to the network only from the old end.                 *)
(***************************************************************************)
EXTENDS Naturals

CONSTANT Capacity     \* most packets retained at once, at least 1

VARIABLES lo,         \* every packet up to lo has left the window
          hi,         \* the newest packet accepted
          handed      \* the newest packet handed to the network sender

window == <<lo, hi, handed>>

Init == lo = 0 /\ hi = 0 /\ handed = 0

\* A packet is accepted at the new end; room has been made for it first.
Accept == /\ hi - lo < Capacity
          /\ hi' = hi + 1
          /\ UNCHANGED <<lo, handed>>

\* The oldest retained packet is given up (overflow, or the queue is stopped).
Forget == /\ lo < hi
          /\ lo' = lo + 1
          /\ UNCHANGED <<hi, handed>>

\* The oldest retained packet goes to the network sender.
Hand == /\ lo < hi
        /\ lo' = lo + 1
        /\ handed' = lo + 1
        /\ UNCHANGED hi

Next == Accept \/ Forget \/ Hand

Spec == Init /\ [][Next]_window
===============================================================================
