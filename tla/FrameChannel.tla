---------------------------- MODULE FrameChannel ----------------------------
(***************************************************************************)
(* What the v3 framed codec promises its session: the frames a SeedLink    *)
(* server writes come out of the decoder whole, once each and in the order *)
(* they were written, however TCP splits the bytes between them.           *)
(*                                                                         *)
(* sent is what the server has written so far, recv what the decoder has  *)
(* handed to the session.  A server step writes one or more frames; a     *)
(* session step takes the next one.                                        *)
(***************************************************************************)
EXTENDS Naturals, Sequences, SequencesExt

VARIABLES sent, recv

Init == sent = <<>> /\ recv = <<>>

\* The server writes a response of one or more frames.
Write == IsStrictPrefix(sent, sent') /\ UNCHANGED recv

\* The session reads the oldest frame it has not read yet.
Deliver ==
    /\ Len(recv) < Len(sent)
    /\ recv' = Append(recv, sent[Len(recv) + 1])
    /\ UNCHANGED sent

Spec == Init /\ [][Write \/ Deliver]_<<sent, recv>>

\* Everything read was sent, in the order it was sent.
ReadIsPrefixOfSent == IsPrefix(recv, sent)
====
