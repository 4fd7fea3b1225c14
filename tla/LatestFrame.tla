----------------------------- MODULE LatestFrame -----------------------------
(***************************************************************************)
(* What the frame ring promises, without buffers or indices: the producer  *)
(* replaces the latest frame at any time without waiting, the viewer jumps *)
(* to the latest frame in one step.  Frames in between may be dropped, but  *)
(* the producer never falls back to an older frame and the viewer never    *)
(* holds anything but what was the latest frame when it looked.            *)
(***************************************************************************)
EXTENDS Naturals

VARIABLES latest,  \* the frame published last
          shown    \* the frame the viewer holds

vars == <<latest, shown>>

Init == latest = 0 /\ shown = 0

Emit == latest' \in Nat /\ latest' > latest /\ UNCHANGED shown

Show == shown' = latest /\ UNCHANGED latest

(* The display is restarted: both sides are blank again. *)
Restart == latest' = 0 /\ shown' = 0

Next == Emit \/ Show \/ Restart

Spec == Init /\ [][Next]_vars
=============================================================================
