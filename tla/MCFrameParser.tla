--------------------------- MODULE MCFrameParser ---------------------------
(* Lengths around the boundaries of the buffer for TLC: empty and one-byte *)
(* payloads, frames that are garbage-collected (1024 and more), the longest *)
(* frame the buffer can hold (8161 + 16 bytes), the first that is dropped   *)
(* and the first the sender refuses (8176 + 16 bytes).                      *)
EXTENDS FrameParser

SomeHighs == {0, 4, 31, 255}
SomeLows  == {0, 1, 225, 226, 240}
=============================================================================
