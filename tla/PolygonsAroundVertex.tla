------------------------ MODULE PolygonsAroundVertex ------------------------
(***************************************************************************)
(* The cache of SurfaceMesh::polygons_around_vertex() for one vertex.      *)
(*                                                                         *)
(* updated_polygons_around_vertex() is a const method around a CachedValue *)
(* that decides by itself whether what is cached will do: it must hold the *)
(* polygon from which the caller wants to turn around the vertex.  When it *)
(* does not, the method resets the CachedValue and calls it, which no      *)
(* lock makes one step.  The argument of a call is its first polygon; a    *)
(* vertex that several fans of polygons share has several results.         *)
(***************************************************************************)
EXTENDS CachedValue

\* polygons_around_vertex() is called.
Query(t) ==
    /\ pc[t] = "idle"
    /\ \E a \in Arguments : argument' = [argument EXCEPT ![t] = a]
    /\ Goto(t, "computed")
    /\ UNCHANGED <<source, value, computed, mutex>>

\* cached.computed()
QueryComputed(t) ==
    /\ pc[t] = "computed"
    /\ Goto(t, IF computed THEN "contains" ELSE "reset")
    /\ UNCHANGED <<source, value, computed, mutex, argument>>

\* absl::c_contains( cached.value().polygons, first_polygon ): read without
\* the lock, so during an assignment the answer may be any.
QueryContains(t) ==
    /\ pc[t] = "contains"
    /\ \E contains \in BOOLEAN :
        /\ value # Torn => contains = (argument[t] \in value)
        /\ Goto(t, IF contains THEN "reading" ELSE "reset")
    /\ UNCHANGED <<source, value, computed, mutex, argument>>

\* cached.reset(), then operator() follows; what it returns is dropped and
\* cached.value() is returned.
QueryReset(t) ==
    /\ pc[t] = "reset"
    /\ computed' = FALSE
    /\ Goto(t, "test")
    /\ UNCHANGED <<source, value, mutex, argument>>

QueryStep(t) ==
    \/ QueryComputed(t)
    \/ QueryContains(t)
    \/ QueryReset(t)

NextQueries ==
    Change \/ \E t \in Threads : Query(t) \/ QueryStep(t) \/ Step(t) \/ Drop(t)

SpecQueries == Init /\ [][NextQueries]_vars

-----------------------------------------------------------------------------
\* "Get all the polygons with one of the vertices matching given vertex": as
\* long as a caller uses what polygons_around_vertex() returned, it is the
\* polygons around its vertex.
QueriesGetTheirPolygons ==
    \A t \in Threads : pc[t] = "reading" => value = Expected(t)
=============================================================================
