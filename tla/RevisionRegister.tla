--------------------------- MODULE RevisionRegister ---------------------------
(***************************************************************************)
(* What the device promises the back office about its camera parameters:   *)
(* there is one committed revision, it survives restarts, it only grows,   *)
(* and a revision is confirmed as applied only while it is the committed   *)
(* one.  Nothing is said of cameras, files, sessions or crashes.           *)
(***************************************************************************)
EXTENDS Naturals

VARIABLES committed,   \* the committed revision, 0 before the first one
          confirmed    \* the revision last confirmed as applied

register == <<committed, confirmed>>

Init == committed = 0 /\ confirmed = 0

Commit == /\ committed' \in Nat
          /\ committed' > committed
          /\ UNCHANGED confirmed

Confirm == /\ confirmed' = committed
           /\ UNCHANGED committed

Next == Commit \/ Confirm

Spec == Init /\ [][Next]_register
===============================================================================
