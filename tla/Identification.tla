--------------------------- MODULE Identification ---------------------------
(***************************************************************************)
(* What VertexIdentifier promises to somebody who follows mesh vertices    *)
(* and unique vertices by name: a mesh vertex is identified with the       *)
(* unique vertex it was given, until it is given another one, taken away,  *)
(* or deleted, whatever is renumbered in between.                          *)
(***************************************************************************)
CONSTANTS Components, MeshNames, UniqueNames

VARIABLES
    registered,  \* the components of the identifier
    vertices,    \* component -> names of its mesh vertices
    uniques,     \* the names of the unique vertices
    identified   \* <<component, mesh vertex>> -> unique vertex, where it has one

identificationVars == <<registered, vertices, uniques, identified>>

\* Keeps the identification of the mesh vertices in S only.
Keep(S) == identified' = [x \in DOMAIN identified \cap S |-> identified[x]]

Init ==
    /\ registered = {}
    /\ vertices = [c \in Components |-> {}]
    /\ uniques = {}
    /\ identified = <<>>

Register(c) ==
    /\ c \notin registered
    /\ registered' = registered \cup {c}
    /\ UNCHANGED <<vertices, uniques, identified>>

Unregister(c) ==
    /\ registered' = registered \ {c}
    /\ Keep({x \in DOMAIN identified : x[1] # c})
    /\ UNCHANGED <<vertices, uniques>>

AddMeshVertex(c, name) ==
    /\ vertices' = [vertices EXCEPT ![c] = @ \cup {name}]
    /\ UNCHANGED <<registered, uniques, identified>>

DeleteMeshVertices(c, names) ==
    /\ vertices' = [vertices EXCEPT ![c] = @ \ names]
    /\ Keep(DOMAIN identified \ ({c} \X names))
    /\ UNCHANGED <<registered, uniques>>

AddUnique(u) ==
    /\ u \notin uniques
    /\ uniques' = uniques \cup {u}
    /\ UNCHANGED <<registered, vertices, identified>>

Identify(c, name, u) ==
    /\ identified' = [x \in DOMAIN identified \cup {<<c, name>>} |->
                        IF x = <<c, name>> THEN u ELSE identified[x]]
    /\ UNCHANGED <<registered, vertices, uniques>>

Separate(c, name) ==
    /\ Keep(DOMAIN identified \ {<<c, name>>})
    /\ UNCHANGED <<registered, vertices, uniques>>

\* "Delete all unique vertices not associated with any component"
DropIsolated ==
    /\ uniques' = {identified[x] : x \in DOMAIN identified}
    /\ UNCHANGED <<registered, vertices, identified>>

Next ==
    \/ \E c \in Components :
          \/ Register(c)
          \/ Unregister(c)
          \/ \E name \in MeshNames \ vertices[c] : AddMeshVertex(c, name)
          \/ \E names \in SUBSET vertices[c] : DeleteMeshVertices(c, names)
    \/ \E c \in registered : \E name \in vertices[c] :
          \/ \E u \in uniques : Identify(c, name, u)
          \/ Separate(c, name)
    \/ \E u \in UniqueNames : AddUnique(u)
    \/ DropIsolated

Spec == Init /\ [][Next]_identificationVars
=============================================================================
