---------------------------- MODULE MCCachedValue ----------------------------
(***************************************************************************)
(* CachedValue with three threads, two states of the source and one        *)
(* argument, as CoordinateSystem uses it: two callers wait for the lock    *)
(* while the third computes or throws, and some read while others call.    *)
(***************************************************************************)
EXTENDS CachedValue

\* The value tells which state of the source it was computed from.
SourceOnly(s, a) == s
=============================================================================
