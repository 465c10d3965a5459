--------------------------- MODULE FrameChannel ---------------------------
(***************************************************************************)
(* What module Relay takes a frame pipe for: frames are written in one     *)
(* step each, by whichever goroutine, and read whole and in that order     *)
(* until one of the two ends is done.                                      *)
(***************************************************************************)
EXTENDS Naturals, Sequences

CONSTANT Frames

VARIABLES sent, received, reading

vars == <<sent, received, reading>>

Init == sent = <<>> /\ received = <<>> /\ reading = TRUE

Write(f) == sent' = Append(sent, f) /\ UNCHANGED <<received, reading>>

Read ==
    /\ reading /\ Len(received) < Len(sent)
    /\ received' = Append(received, sent[Len(received) + 1])
    /\ UNCHANGED <<sent, reading>>

Stop == reading' = FALSE /\ UNCHANGED <<sent, received>>

Next == (\E f \in Frames : Write(f)) \/ Read \/ Stop

Spec == Init /\ [][Next]_vars

=============================================================================
