----------------------------- MODULE RelationSet -----------------------------
(***************************************************************************)
(* What the relationships of a model promise: a set of typed, directed     *)
(* relations between components, at most one between two components, and   *)
(* a set of registered components that holds at least those in relation.   *)
(***************************************************************************)
CONSTANTS Components, RelationTypes, CopyMappings

VARIABLES
    registered,  \* the components that Relationships knows
    relations    \* the triples <<from, to, type>>

relationSetVars == <<registered, relations>>

Between(c, d) ==
    {r \in relations : <<r[1], r[2]>> \in {<<c, d>>, <<d, c>>}}

InRelation == UNION {{r[1], r[2]} : r \in relations}

Init == registered = {} /\ relations = {}

\* A second relation between two components is refused, whatever its type.
Add(from, to, type) ==
    /\ Between(from, to) = {}
    /\ registered' = registered \cup {from, to}
    /\ relations' = relations \cup {<<from, to, type>>}

RemoveRelation(c, d) ==
    /\ relations' = relations \ Between(c, d)
    /\ UNCHANGED registered

RemoveComponent(c) ==
    /\ registered' = registered \ {c}
    /\ relations' = {r \in relations : c \notin {r[1], r[2]}}

\* Saving and loading forget the components that are in no relation.
Prune ==
    /\ registered' = InRelation
    /\ UNCHANGED relations

\* A copy keeps the mapped components, under their new uuids.
Copy(mapping) ==
    LET kept == registered \cap DOMAIN mapping
    IN  /\ registered' = {mapping[c] : c \in kept}
        /\ relations' = {<<mapping[r[1]], mapping[r[2]], r[3]>> :
                r \in {q \in relations : {q[1], q[2]} \subseteq kept}}

Next ==
    \/ \E c, d \in Components :
          \/ RemoveRelation(c, d)
          \/ \E type \in RelationTypes : Add(c, d, type)
    \/ \E c \in Components : RemoveComponent(c)
    \/ Prune
    \/ \E mapping \in CopyMappings : Copy(mapping)

Spec == Init /\ [][Next]_relationSetVars
=============================================================================
