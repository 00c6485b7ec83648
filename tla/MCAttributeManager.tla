-------------------------- MODULE MCAttributeManager --------------------------
(***************************************************************************)
(* AttributeManager with two managers of up to two elements, or one of     *)
(* three, and two values.  The property sets allow everything or nothing.  *)
(***************************************************************************)
EXTENDS AttributeManager, TLC

AllOrNothing ==
    {[assignable |-> b, interpolable |-> b, transferable |-> b] : b \in BOOLEAN}

Symmetry == Permutations(Managers) \cup Permutations(Ids)
===============================================================================
