------------------------------ MODULE Pagination ------------------------------
(***************************************************************************)
(* The page arithmetic of the data tables (tableRowModel.ts) and of their  *)
(* pager (basePagination.ts).                                              *)
(***************************************************************************)
EXTENDS Integers, Sequences

Larger(a, b) == IF a > b THEN a ELSE b
Smaller(a, b) == IF a < b THEN a ELSE b

PageCount(n, size) == Larger(1, (n + Larger(1, size) - 1) \div Larger(1, size))
PageOf(n, page, size) == Smaller(Larger(0, page), PageCount(n, size) - 1)

\* Pages count from 0 here and from 1 in the pager.
PageSlice(rows, page, size) ==
  LET start == PageOf(Len(rows), page, size) * Larger(1, size)
  IN  SubSeq(rows, start + 1, Smaller(start + Larger(1, size), Len(rows)))

-----------------------------------------------------------------------------
(* The pager's tokens: page numbers, and a gap where pages are left out. *)

Slots == 7   \* slotsForDensity("default"), the density of the tables
Gap == 0

PageRun(from, to) == [i \in 1..(to - from + 1) |-> from + i - 1]

Interior(slots) == Larger(1, slots - 2)
Edge(slots) == Larger(1, Interior(slots) - 1)
Middle(slots) == Larger(1, Interior(slots) - 2)

NearStart(total, slots) ==
  <<1>> \o PageRun(2, Smaller(total - 1, 1 + Edge(slots))) \o <<Gap, total>>
NearEnd(total, slots) ==
  <<1, Gap>> \o PageRun(Larger(2, total - Edge(slots)), total - 1) \o <<total>>
Between(total, current, slots) ==
  LET start == current - ((Middle(slots) - 1) \div 2)
  IN  <<1, Gap>> \o PageRun(start, start + Middle(slots) - 1) \o <<Gap, total>>

Tokens(total, current, slots) ==
  IF total <= 1 THEN <<>>
  ELSE IF total <= slots THEN PageRun(1, total)
  ELSE IF current <= Edge(slots) THEN NearStart(total, slots)
  ELSE IF current >= total - Edge(slots) + 1 THEN NearEnd(total, slots)
  ELSE Between(total, current, slots)

ClampPage(page, total) == IF total <= 1 THEN 1 ELSE Larger(1, Smaller(total, page))

\* The pages one click or one key away: a token, an arrow, Home or End.
Offered(total, current) ==
  IF total <= 1 THEN {}
  ELSE (({Tokens(total, current, Slots)[i] : i \in 1..Len(Tokens(total, current, Slots))} \ {Gap})
          \cup {ClampPage(current - 1, total), ClampPage(current + 1, total), 1, total}) \ {current}
=============================================================================
