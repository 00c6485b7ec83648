--------------------------- MODULE MCRelationships ---------------------------
(***************************************************************************)
(* Relationships on three components, two relation types and at most three *)
(* relations at once: a path, a triangle, a component in relation with     *)
(* itself, a removal that renumbers a component in relation with another,  *)
(* and isolated components of any index.                                   *)
(***************************************************************************)
EXTENDS Relationships

CONSTANTS c1, c2, c3

\* Every component renamed, one left out while another takes its uuid, one
\* kept alone.
SomeMappings ==
    {(c1 :> c2) @@ (c2 :> c3) @@ (c3 :> c1),
     (c1 :> c1) @@ (c3 :> c2),
     c2 :> c1}

\* Types are only stored and compared.
TypeSymmetry == Permutations(RelationTypes)
=============================================================================
