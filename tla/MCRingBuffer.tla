---------------------------- MODULE MCRingBuffer ----------------------------
(* Small instance of RingBuffer: two slots, items of two words. *)
EXTENDS RingBuffer
=============================================================================
