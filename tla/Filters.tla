------------------------------- MODULE Filters -------------------------------
(* What a loop over a sequence keeps of it. *)
EXTENDS Integers, Sequences

\* The elements of seq at the positions in at, in their order.
Kept(seq, at) ==
    LET kept[n \in 0..Len(seq)] ==
            IF n = 0 THEN <<>>
            ELSE IF n \in at THEN Append(kept[n - 1], seq[n])
            ELSE kept[n - 1]
    IN kept[Len(seq)]
=============================================================================
