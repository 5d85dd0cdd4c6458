----------------------------- MODULE FrameChannel -----------------------------
(***************************************************************************)
(* What the connection from the cloud promises its user, without bytes,    *)
(* lengths, masks and cuts: the frames sent come to their handlers one by  *)
(* one and in order, each as it was sent, up to the first one that the     *)
(* device does not accept.  That delivery may stop earlier is all a cut    *)
(* can do.                                                                 *)
(***************************************************************************)
EXTENDS Naturals, Sequences

CONSTANTS Frames,       \* frames the server may send
          Acceptable(_),    \* whether the device takes a frame
          Outcome(_)    \* what comes of it

VARIABLES sent,         \* the frames sent
          handled       \* what came of the first of them

channel == <<sent, handled>>

Init == sent = << >> /\ handled = << >>

Send == /\ \E f \in Frames : sent' = Append(sent, f)
        /\ UNCHANGED handled

Deliver == /\ Len(handled) < Len(sent)
           /\ LET f == sent[Len(handled) + 1]
              IN  Acceptable(f) /\ handled' = Append(handled, Outcome(f))
           /\ UNCHANGED sent

Next == Send \/ Deliver

Spec == Init /\ [][Next]_channel
===============================================================================
