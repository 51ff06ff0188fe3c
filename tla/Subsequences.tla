---------------------------- MODULE Subsequences ----------------------------
(***************************************************************************)
(* What is left of a sequence when elements are taken out of it.           *)
(***************************************************************************)
EXTENDS Naturals, Sequences

\* The elements at the given positions, in order.
ElementsAt(seq, positions) ==
    LET upto[n \in 0 .. Len(seq)] ==
            IF n = 0 THEN <<>>
            ELSE IF n \in positions THEN Append(upto[n - 1], seq[n]) ELSE upto[n - 1]
    IN  upto[Len(seq)]
=============================================================================
