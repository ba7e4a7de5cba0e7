--------------------------- MODULE MCBufferQueue ---------------------------
(* An instance of the buffer for TLC: two bytes tell an order. *)
EXTENDS BufferQueue

TwoBytes == {0, 1}
ShortValues == {<<0>>, <<1, 0>>, <<0, 1, 1>>}
=============================================================================
