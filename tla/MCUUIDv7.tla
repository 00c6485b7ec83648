------------------------------ MODULE MCUUIDv7 ------------------------------
(***************************************************************************)
(* UUIDv7 on two threads with three sequence numbers, that wrap after two  *)
(* calls, a drift of one millisecond and two attempts per constructor: the *)
(* sequence wraps, the clock goes back, the drift limit is met and the     *)
(* constructor throws.                                                     *)
(***************************************************************************)
EXTENDS UUIDv7
=============================================================================
