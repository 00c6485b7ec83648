----------------------- MODULE MCPolygonsAroundVertex -----------------------
(***************************************************************************)
(* Two threads ask for the polygons around one vertex of a surface, both   *)
(* from the same polygon, of a fan of two.                                 *)
(***************************************************************************)
EXTENDS PolygonsAroundVertex

\* Every polygon of the one fan.
OneFan(s, a) == {"p0", "p1"}
=============================================================================
