----------------------------- MODULE MCSendRecv -----------------------------
(***************************************************************************)
(* Message sizes for the model checking of RcceSendRecv, in bytes, with    *)
(* lines of 32 bytes and chunks of 64.                                     *)
(***************************************************************************)
EXTENDS RcceSendRecv

\* An empty message, one padded line, a full chunk, a chunk and a padded
\* line, and all three kinds of pieces in one message.
SizeOf(s, d) ==
  CASE <<s, d>> = <<1, 2>> -> 70
    [] <<s, d>> = <<2, 1>> -> 64
    [] <<s, d>> = <<1, 3>> -> 8
    [] <<s, d>> = <<3, 1>> -> 0
    [] <<s, d>> = <<2, 3>> -> 100
    [] OTHER -> 32

Sizes == [s \in UE |-> [d \in UE |-> SizeOf(s, d)]]
=============================================================================
