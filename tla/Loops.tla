------------------------------- MODULE Loops -------------------------------
(***************************************************************************)
(* Loops of the code each step of which reads what the steps before it     *)
(* have written.                                                           *)
(***************************************************************************)
EXTENDS Renumbering, SequencesExt

\* FoldLeft, by recursion on the length, which TLC evaluates faster.
FoldInOrder(Op(_, _), base, list) ==
    LET folded[n \in 0 .. Len(list)] ==
            IF n = 0 THEN base ELSE Op(folded[n - 1], list[n])
    IN  folded[Len(list)]

\* A loop over the elements of a set, in some order.
ForEach(Op(_, _), base, S) == FoldInOrder(Op, base, SetToSeq(S))

\* The elements of a list that are in S, in their order.
Kept(list, S) ==
    FoldInOrder(LAMBDA kept, x : IF x \in S THEN Append(kept, x) ELSE kept,
                <<>>, list)

\* The indices below n, and those of a vector, in their order.
IndicesBelow(n) == [i \in 1 .. n |-> i - 1]
Indices(f) == IndicesBelow(Size(f))
=============================================================================
