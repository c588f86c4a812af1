------------------------------- MODULE Lists --------------------------------
(***************************************************************************)
(* The two list methods the dashboard code leans on, filter and sort.      *)
(* Which members to keep is given by their indices and the order by a      *)
(* relation: sets, which lemmas can speak of, where SelectSeq and SortSeq  *)
(* take operators.                                                         *)
(***************************************************************************)
EXTENDS Integers, Sequences, SequencesExt

\* The members at the indices in keep, in their order.
Picked(s, keep) ==
    LET upTo[k \in 0..Len(s)] ==
            IF k = 0 THEN <<>> ELSE IF k \in keep THEN Append(upTo[k - 1], s[k]) ELSE upTo[k - 1]
    IN  upTo[Len(s)]

\* Before the first member it precedes.
Insorted(list, e, before) ==
    LET later == {i \in DOMAIN list : <<e, list[i]>> \in before}
    IN  IF later = {} THEN Append(list, e) ELSE InsertAt(list, Min(later), e)

\* Stable, as the sort of an array is: equals stay in their order.
SortedBy(s, before) ==
    LET upTo[k \in 0..Len(s)] ==
            IF k = 0 THEN <<>> ELSE Insorted(upTo[k - 1], s[k], before)
    IN  upTo[Len(s)]
=============================================================================
