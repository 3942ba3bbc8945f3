------------------------------ MODULE RangeLoop ------------------------------
(***************************************************************************)
(* A Go loop that ranges over a slice.                                     *)
(***************************************************************************)
EXTENDS Naturals, Folds

\* The variable that the loop's body Body(var, element) updates, when it has
\* gone over the elements of slice in order from the value start.
ForRange(Body(_, _), start, slice) ==
    MapThenFoldSet(LAMBDA x, var : Body(var, x), start,
                   LAMBDA i : slice[i],
                   LAMBDA S : CHOOSE i \in S : \A j \in S : j <= i,
                   DOMAIN slice)
=============================================================================
