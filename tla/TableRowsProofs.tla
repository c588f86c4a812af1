--------------------------- MODULE TableRowsProofs ---------------------------
(* What the pager and the row model compute, for every list and page size:     *)
(* the pages offered exist, a page of a list that has rows has rows, and rows  *)
(* are filtered and sorted without losing or repeating one.                    *)
EXTENDS TableRows, SequenceTheorems, FiniteSetTheorems, TLAPS

-----------------------------------------------------------------------------
(* The pager. *)

LEMMA RunType ==
  ASSUME NEW from \in Int, NEW to \in Int, NEW pages \in Nat, 0 <= from, from <= to + 1, to <= pages
  PROVE  PageRun(from, to) \in Seq(0..pages)
<1> DEFINE n == to - from + 1
<1>1. n \in Nat
  OBVIOUS
<1>2. \A i \in 1..n : from + i - 1 \in 0..pages
  OBVIOUS
<1>3. PageRun(from, to) \in [1..n -> 0..pages]
  BY <1>2 DEF PageRun
<1> HIDE DEF n
<1> QED
  BY <1>1, <1>3, SeqDef

LEMMA TokensExist ==
  ASSUME NEW pages \in Nat, NEW current \in 1..pages
  PROVE  Tokens(pages, current, Slots) \in Seq(0..pages)
<1> DEFINE T == 0..pages
<1>1. Slots = 7 /\ Edge(Slots) = 4 /\ Middle(Slots) = 3 /\ (Middle(Slots) - 1) \div 2 = 1
  BY DEF Slots, Edge, Middle, Interior, Larger
<1>2. CASE pages <= 1
  BY <1>2, EmptySeq DEF Tokens
<1>3. CASE pages > 1 /\ pages <= Slots
  <2>1. PageRun(1, pages) \in Seq(T)
    BY <1>3, RunType
  <2> QED
    BY <1>3, <2>1 DEF Tokens
<1>4. ASSUME pages > Slots
      PROVE  /\ <<1>> \in Seq(T) /\ <<pages>> \in Seq(T)
             /\ <<1, Gap>> \in Seq(T) /\ <<Gap, pages>> \in Seq(T)
  <2>1. 1 \in T /\ Gap \in T /\ pages \in T
    BY <1>1, <1>4 DEF Gap
  <2> HIDE DEF T
  <2> QED
    BY <2>1
<1>5. CASE pages > Slots /\ current <= Edge(Slots)
  <2> DEFINE run == PageRun(2, 5)
  <2>1. 5 <= pages /\ Smaller(pages - 1, 1 + Edge(Slots)) = 5
    BY <1>1, <1>5 DEF Smaller
  <2>2. run \in Seq(T)
    BY <2>1, RunType
  <2>3. Tokens(pages, current, Slots) = <<1>> \o run \o <<Gap, pages>>
    <3>1. ~(pages <= 1) /\ ~(pages <= Slots) /\ current <= Edge(Slots)
      BY <1>1, <1>5
    <3>2. Tokens(pages, current, Slots) = NearStart(pages, Slots)
      BY <3>1 DEF Tokens
    <3> QED
      BY <2>1, <3>2 DEF NearStart
  <2> HIDE DEF run, T
  <2> QED
    BY <1>4, <1>5, <2>2, <2>3, ConcatProperties DEF T
<1>6. CASE pages > Slots /\ current > Edge(Slots) /\ current >= pages - Edge(Slots) + 1
  <2> DEFINE run == PageRun(pages - 4, pages - 1)
  <2>1. /\ Larger(2, pages - Edge(Slots)) = pages - 4
        /\ pages - 4 \in Int /\ pages - 1 \in Int /\ 0 <= pages - 4
        /\ pages - 4 <= (pages - 1) + 1 /\ pages - 1 <= pages
    BY <1>1, <1>6 DEF Larger
  <2>2. run \in Seq(T)
    BY <2>1, RunType
  <2>3. Tokens(pages, current, Slots) = <<1, Gap>> \o run \o <<pages>>
    BY <1>1, <1>6, <2>1 DEF Tokens, NearEnd
  <2> HIDE DEF run, T
  <2> QED
    BY <1>4, <1>6, <2>2, <2>3, ConcatProperties DEF T
<1>7. CASE pages > Slots /\ current > Edge(Slots) /\ current < pages - Edge(Slots) + 1
  <2> DEFINE run == PageRun(current - 1, current + 1)
  <2>1. /\ current - 1 \in Int /\ current + 1 \in Int /\ 0 <= current - 1
        /\ current - 1 <= (current + 1) + 1 /\ current + 1 <= pages
        /\ current - 1 + 3 - 1 = current + 1
    BY <1>1, <1>7
  <2>2. run \in Seq(T)
    BY <2>1, RunType
  <2>3. Between(pages, current, Slots) = <<1, Gap>> \o run \o <<Gap, pages>>
    BY <1>1, <2>1 DEF Between
  <2>4. Tokens(pages, current, Slots) = Between(pages, current, Slots)
    BY <1>1, <1>7 DEF Tokens
  <2> HIDE DEF run, T
  <2> QED
    BY <1>4, <1>7, <2>2, <2>3, <2>4, ConcatProperties DEF T
<1> QED
  BY <1>1, <1>2, <1>3, <1>5, <1>6, <1>7

\* The pager never offers a page that is not there: every number, arrow, Home and End leads to a
\* page between the first and the last, for every number of pages (basePagination.ts).
THEOREM OfferedPagesExist ==
  ASSUME NEW pages \in Nat, NEW current \in 1..pages
  PROVE  Offered(pages, current) \subseteq (1..pages) \ {current}
<1>1. CASE pages <= 1
  BY <1>1 DEF Offered
<1>2. CASE pages > 1
  <2> DEFINE tokens == Tokens(pages, current, Slots)
  <2>1. tokens \in Seq(0..pages)
    BY TokensExist
  <2> HIDE DEF tokens
  <2>2. \A i \in 1..Len(tokens) : tokens[i] \in 0..pages
    BY <2>1, ElementOfSeq
  <2>3. {tokens[i] : i \in 1..Len(tokens)} \ {Gap} \subseteq 1..pages
    BY <2>2 DEF Gap
  <2>4. {ClampPage(current - 1, pages), ClampPage(current + 1, pages), 1, pages} \subseteq 1..pages
    BY <1>2 DEF ClampPage, Larger, Smaller
  <2>5. Offered(pages, current) =
          (({tokens[i] : i \in 1..Len(tokens)} \ {Gap})
             \cup {ClampPage(current - 1, pages), ClampPage(current + 1, pages), 1, pages}) \ {current}
    BY <1>2 DEF Offered, tokens
  <2> QED
    BY <2>3, <2>4, <2>5
<1> QED
  BY <1>1, <1>2

LEMMA PageCountType ==
  ASSUME NEW n \in Nat, NEW size \in Nat \ {0}
  PROVE  PageCount(n, size) \in Nat \ {0}
<1>1. Larger(1, size) = size
  BY DEF Larger
<1>2. (n + size - 1) \div size \in Int
  OBVIOUS
<1> QED
  BY <1>1, <1>2 DEF PageCount, Larger

\* However far a page number is off, before the first page or behind the last of a list that has
\* shrunk, the page that is displayed has rows when the list has (tableRowModel.ts).
THEOREM DisplayedPageHasRows ==
  ASSUME NEW S, NEW rows \in Seq(S), rows # <<>>, NEW page \in Int, NEW size \in Nat \ {0}
  PROVE  PageSlice(rows, page, size) # <<>>
<1> DEFINE n == Len(rows)
           last == (n + size - 1) \div size
           p == PageOf(n, page, size)
           to == Smaller(p * size + size, n)
<1>1. n \in Nat \ {0}
  BY EmptySeq
<1>2. Larger(1, size) = size
  BY DEF Larger
<1>3. last \in Int /\ last * size <= n + size - 1 /\ last >= 1
  <2> HIDE DEF n
  <2>1. n + size - 1 \in Nat /\ size <= n + size - 1
    BY <1>1
  <2> DEFINE m == n + size - 1
  <2> HIDE DEF m
  <2>2. m \in Nat /\ size <= m /\ last = m \div size
    BY <2>1 DEF m
  <2>3. m \div size \in Int /\ (m \div size) * size <= m /\ m \div size >= 1
    BY <2>2
  <2> QED
    BY <2>2, <2>3 DEF m
<1>4. p \in 0..(last - 1)
  <2>1. PageCount(n, size) = Larger(1, last)
    BY <1>2 DEF PageCount
  <2> HIDE DEF last, n
  <2> QED
    BY <1>3, <2>1 DEF PageOf, Larger, Smaller
<1> HIDE DEF p, last, n
<1>5. p * size \in Nat /\ p * size < n
  <2>1. p \in Nat /\ last - 1 - p \in Nat
    BY <1>3, <1>4
  <2>2. p * size \in Nat /\ (last - 1 - p) * size \in Nat
    BY <2>1
  <2>3. p * size + (last - 1 - p) * size = last * size - size
    BY <2>1, <1>3
  <2>4. last * size \in Int
    BY <1>3
  <2> QED
    BY <1>1, <1>3, <2>2, <2>3, <2>4
<1>6. to \in Int /\ p * size + 1 <= to /\ to <= n
  BY <1>1, <1>5 DEF Smaller
<1>7. PageSlice(rows, page, size) = SubSeq(rows, p * size + 1, to)
  BY <1>2 DEF PageSlice, p, n
<1> HIDE DEF to
<1>8. \A i \in (p * size + 1)..to : rows[i] \in S
  BY <1>5, <1>6, ElementOfSeq DEF n
<1>9. p * size + 1 \in Int
  BY <1>5
<1>10. Len(SubSeq(rows, p * size + 1, to)) = to - (p * size + 1) + 1
  BY <1>6, <1>8, <1>9, SubSeqProperties
<1> DEFINE shown == SubSeq(rows, p * size + 1, to)
           from == p * size
<1>11. from \in Nat /\ to \in Int /\ from + 1 <= to /\ Len(shown) = to - (from + 1) + 1
  BY <1>5, <1>6, <1>10
<1> HIDE DEF shown, from
<1>12. Len(shown) > 0
  BY <1>11
<1>13. shown # <<>>
  BY <1>12
<1> QED
  BY <1>7, <1>13 DEF shown

-----------------------------------------------------------------------------
(* The row model: filtering, sorting and paging. *)

\* ahead puts the members of the finite set S in a strict total order.
Orders(S, ahead) ==
  /\ IsFiniteSet(S) /\ ahead \in [S -> SUBSET S]
  /\ \A i \in S : i \notin ahead[i]
  /\ \A i, j \in S : i # j => i \in ahead[j] \/ j \in ahead[i]
  /\ \A i, j \in S : i \in ahead[j] => ahead[i] \subseteq ahead[j]

\* There is an enumeration in that order: the member at place k has k - 1 members before it.
LEMMA OrderIs ==
  ASSUME NEW S, NEW ahead, Orders(S, ahead)
  PROVE  /\ Cardinality(S) \in Nat
         /\ Order(S, ahead) \in Bijection(1..Cardinality(S), S)
         /\ \A k, l \in 1..Cardinality(S) : k < l => Order(S, ahead)[k] \in ahead[Order(S, ahead)[l]]
<1> DEFINE n == Cardinality(S)
           rank == [i \in S |-> Cardinality(ahead[i])]
           Sorting(p) == \A k, l \in 1..n : k < l => p[k] \in ahead[p[l]]
<1>0. /\ IsFiniteSet(S) /\ ahead \in [S -> SUBSET S]
      /\ \A i \in S : i \notin ahead[i]
      /\ \A i, j \in S : i # j => i \in ahead[j] \/ j \in ahead[i]
      /\ \A i, j \in S : i \in ahead[j] => ahead[i] \subseteq ahead[j]
  BY DEF Orders
<1>1. n \in Nat
  BY <1>0, FS_CardinalityType
<1>2. ASSUME NEW i \in S PROVE IsFiniteSet(ahead[i]) /\ rank[i] \in 0..(n - 1)
  <2>1. ahead[i] \in SUBSET S /\ ahead[i] # S
    BY <1>0, <1>2
  <2>2. /\ IsFiniteSet(ahead[i]) /\ Cardinality(ahead[i]) <= n
        /\ n = Cardinality(ahead[i]) => S = ahead[i]
    BY <1>0, <2>1, FS_Subset
  <2>3. Cardinality(ahead[i]) \in Nat
    BY <2>2, FS_CardinalityType
  <2> QED
    BY <1>1, <2>1, <2>2, <2>3
<1>3. ASSUME NEW i \in S, NEW j \in S, i \in ahead[j] PROVE rank[i] < rank[j]
  <2>1. ahead[i] \in SUBSET ahead[j] /\ ahead[i] # ahead[j] /\ IsFiniteSet(ahead[j])
    BY <1>0, <1>2, <1>3
  <2>2. Cardinality(ahead[i]) <= Cardinality(ahead[j]) /\ Cardinality(ahead[j]) # Cardinality(ahead[i])
    BY <2>1, FS_Subset
  <2>3. rank[i] \in Int /\ rank[j] \in Int
    BY <1>1, <1>2
  <2> QED
    BY <2>2, <2>3
<1>4. rank \in Injection(S, 0..(n - 1))
  <2>1. rank \in [S -> 0..(n - 1)]
    BY <1>2
  <2>2. ASSUME NEW i \in S, NEW j \in S, rank[i] = rank[j] PROVE i = j
    <3>1. rank[i] \in Int /\ rank[j] \in Int
      BY <1>1, <1>2
    <3> HIDE DEF rank
    <3> QED
      BY <1>0, <1>3, <2>2, <3>1
  <2> HIDE DEF rank
  <2> QED
    BY <2>1, <2>2 DEF Injection, IsInjective
<1>5. rank \in Surjection(S, 0..(n - 1))
  <2>1. IsFiniteSet(0..(n - 1)) /\ Cardinality(0..(n - 1)) = n
    BY <1>1, FS_Interval
  <2> HIDE DEF rank
  <2> QED
    BY <1>4, <2>1, FS_Injection
<1>6. \E p \in [1..n -> S] : Sorting(p)
  <2> DEFINE p == [k \in 1..n |-> CHOOSE i \in S : rank[i] = k - 1]
  <2>1. ASSUME NEW k \in 1..n PROVE p[k] \in S /\ rank[p[k]] = k - 1
    <3>1. k - 1 \in 0..(n - 1)
      BY <1>1, <2>1
    <3> HIDE DEF rank
    <3>2. \E i \in S : rank[i] = k - 1
      BY <1>5, <3>1 DEF Surjection
    <3> QED
      BY <2>1, <3>2
  <2>2. p \in [1..n -> S]
    BY <2>1
  <2> HIDE DEF p, rank
  <2>3. ASSUME NEW k \in 1..n, NEW l \in 1..n, k < l PROVE p[k] \in ahead[p[l]]
    <3>1. rank[p[k]] = k - 1 /\ rank[p[l]] = l - 1 /\ k \in Int /\ l \in Int
      BY <2>1
    <3>2. rank[p[k]] < rank[p[l]]
      BY <2>3, <3>1
    <3>3. p[k] # p[l] /\ ~(rank[p[l]] < rank[p[k]])
      BY <3>1, <3>2
    <3>4. p[k] \in S /\ p[l] \in S
      BY <2>2
    <3> QED
      BY <1>0, <1>3, <3>3, <3>4
  <2> QED
    BY <2>2, <2>3
<1>7. Order(S, ahead) \in [1..n -> S] /\ Sorting(Order(S, ahead))
  BY <1>6 DEF Order
<1> DEFINE order == Order(S, ahead)
<1> HIDE DEF n, order
<1>8. order \in Injection(1..n, S)
  <2>1. ASSUME NEW k \in 1..n, NEW l \in 1..n, order[k] = order[l] PROVE k = l
    <3>1. ~(k < l) /\ ~(l < k)
      BY <1>0, <1>7, <2>1 DEF order
    <3> QED
      BY <1>1, <3>1
  <2> QED
    BY <1>7, <2>1 DEF Injection, IsInjective, order
<1>9. order \in Surjection(1..n, S)
  <2>1. Cardinality(1..n) = n
    BY <1>1, FS_Interval
  <2> QED
    BY <1>0, <1>8, <2>1, FS_Injection DEF n
<1> QED
  BY <1>1, <1>7, <1>8, <1>9 DEF Bijection, order, n

LEMMA InOrderIs ==
  ASSUME NEW R, NEW rows \in Seq(R), NEW S \in SUBSET DOMAIN rows, NEW ahead, Orders(S, ahead),
         NEW Q, \A i \in S : rows[i] \in Q
  PROVE  /\ InOrder(rows, S, ahead) \in Seq(Q) /\ Len(InOrder(rows, S, ahead)) = Cardinality(S)
         /\ IdsOf(InOrder(rows, S, ahead)) = {rows[i].id : i \in S}
         /\ NoRowTwice(rows) => NoRowTwice(InOrder(rows, S, ahead))
<1> DEFINE n == Cardinality(S)
           order == Order(S, ahead)
           result == InOrder(rows, S, ahead)
<1>1. n \in Nat /\ order \in Bijection(1..n, S)
  BY OrderIs
<1> HIDE DEF n, order
<1>2. order \in [1..n -> S] /\ \A i \in S : \E k \in 1..n : order[k] = i
  BY <1>1 DEF Bijection, Surjection
<1>3. \A k, l \in 1..n : order[k] = order[l] => k = l
  BY <1>1 DEF Bijection, Injection, IsInjective
<1>4. result = [k \in 1..n |-> rows[order[k]]]
  BY DEF InOrder, n, order
<1> HIDE DEF result
<1>5. result \in [1..n -> Q]
  BY <1>2, <1>4
<1>6. result \in Seq(Q) /\ Len(result) = n /\ DOMAIN result = 1..n
  BY <1>1, <1>5, SeqDef
<1>7. \A k \in 1..n : result[k] = rows[order[k]] /\ order[k] \in S
  BY <1>2, <1>4
<1>8. IdsOf(result) = {rows[i].id : i \in S}
  <2>1. IdsOf(result) = {result[k].id : k \in 1..n}
    BY <1>6 DEF IdsOf
  <2>2. ASSUME NEW i \in S PROVE rows[i].id \in {result[k].id : k \in 1..n}
    <3>1. PICK k \in 1..n : order[k] = i
      BY <1>2, <2>2
    <3> QED
      BY <1>7, <3>1
  <2>3. ASSUME NEW k \in 1..n PROVE result[k].id \in {rows[i].id : i \in S}
    BY <1>7, <2>3
  <2> QED
    BY <2>1, <2>2, <2>3
<1>9. ASSUME NoRowTwice(rows) PROVE NoRowTwice(result)
  <2> SUFFICES ASSUME NEW k \in 1..n, NEW l \in 1..n, result[k].id = result[l].id PROVE k = l
    BY <1>6 DEF NoRowTwice
  <2>1. order[k] \in DOMAIN rows /\ order[l] \in DOMAIN rows /\ rows[order[k]].id = rows[order[l]].id
    BY <1>7
  <2>2. order[k] = order[l]
    BY <1>9, <2>1 DEF NoRowTwice
  <2> QED
    BY <1>3, <2>2
<1>10. InOrder(rows, S, ahead) = result /\ Cardinality(S) = n
  BY DEF result, n
<1> QED
  BY <1>6, <1>8, <1>9, <1>10

LEMMA KeptOrders ==
  ASSUME NEW R, NEW rows \in Seq(R), NEW S \in SUBSET DOMAIN rows
  PROVE  Orders(S, [i \in S |-> {j \in S : j < i}])
<1> DEFINE ahead == [i \in S |-> {j \in S : j < i}]
<1>1. DOMAIN rows = 1..Len(rows) /\ Len(rows) \in Nat
  BY LenProperties
<1>2. IsFiniteSet(S) /\ S \subseteq Int
  <2>1. IsFiniteSet(1..Len(rows))
    BY <1>1, FS_Interval
  <2> QED
    BY <1>1, <2>1, FS_Subset
<1>3. Orders(S, ahead)
  <2>1. ahead \in [S -> SUBSET S] /\ \A i, j \in S : j \in ahead[i] <=> j < i
    OBVIOUS
  <2> HIDE DEF ahead
  <2>2. \A i \in S : i \notin ahead[i]
    BY <1>2, <2>1
  <2>3. \A i, j \in S : i # j => i \in ahead[j] \/ j \in ahead[i]
    BY <1>2, <2>1
  <2>4. \A i, j \in S : i \in ahead[j] => ahead[i] \subseteq ahead[j]
    <3> SUFFICES ASSUME NEW i \in S, NEW j \in S, i \in ahead[j], NEW k \in ahead[i] PROVE k \in ahead[j]
      OBVIOUS
    <3>1. k \in S /\ k \in Int /\ i \in Int /\ j \in Int /\ k < i /\ i < j
      BY <1>2, <2>1
    <3> QED
      BY <2>1, <3>1
  <2> QED
    BY <1>2, <2>1, <2>2, <2>3, <2>4 DEF Orders
<1> QED
  BY <1>3

\* The part of a list that satisfies a condition, in the order of the list.
LEMMA KeptIs ==
  ASSUME NEW R, NEW rows \in Seq(R), NEW S \in SUBSET DOMAIN rows, NEW Q, \A i \in S : rows[i] \in Q
  PROVE  /\ Kept(rows, S) \in Seq(Q)
         /\ Kept(rows, S) = <<>> <=> S = {}
         /\ IdsOf(Kept(rows, S)) = {rows[i].id : i \in S}
         /\ NoRowTwice(rows) => NoRowTwice(Kept(rows, S))
<1> DEFINE ahead == [i \in S |-> {j \in S : j < i}]
<1>2. IsFiniteSet(S)
  <2>1. IsFiniteSet(1..Len(rows))
    BY LenProperties, FS_Interval
  <2> QED
    BY <2>1, FS_Subset, LenProperties
<1>3. Orders(S, ahead)
  BY KeptOrders
<1>4. Kept(rows, S) = InOrder(rows, S, ahead)
  BY DEF Kept
<1> HIDE DEF ahead
<1>5. /\ Kept(rows, S) \in Seq(Q) /\ Len(Kept(rows, S)) = Cardinality(S)
      /\ IdsOf(Kept(rows, S)) = {rows[i].id : i \in S}
      /\ NoRowTwice(rows) => NoRowTwice(Kept(rows, S))
  BY <1>3, <1>4, InOrderIs
<1>6. Cardinality(S) = 0 <=> S = {}
  BY <1>2, FS_EmptySet
<1>7. Len(Kept(rows, S)) = 0 <=> Kept(rows, S) = <<>>
  BY <1>5, EmptySeq
<1> QED
  BY <1>5, <1>6, <1>7

LEMMA KeptInOrder ==
  ASSUME NEW R, NEW rows \in Seq(R), NEW S \in SUBSET DOMAIN rows
  PROVE  \E at \in [1..Len(Kept(rows, S)) -> S] :
           /\ \A k \in 1..Len(Kept(rows, S)) : Kept(rows, S)[k] = rows[at[k]]
           /\ \A k, l \in 1..Len(Kept(rows, S)) : k < l => at[k] < at[l]
<1> DEFINE ahead == [i \in S |-> {j \in S : j < i}]
           at == Order(S, ahead)
           n == Cardinality(S)
<1>1. Orders(S, ahead)
  BY KeptOrders
<1>2. /\ n \in Nat /\ at \in [1..n -> S]
      /\ \A k, l \in 1..n : k < l => at[k] \in ahead[at[l]]
  <2> HIDE DEF ahead
  <2> QED
    BY <1>1, OrderIs DEF Bijection, Injection
<1>3. Kept(rows, S) = [k \in 1..n |-> rows[at[k]]]
  BY DEF Kept, InOrder
<1> HIDE DEF at, n
<1>4. ASSUME NEW k \in 1..n, NEW l \in 1..n, k < l PROVE at[k] < at[l]
  <2>1. at[l] \in S /\ at[k] \in ahead[at[l]]
    BY <1>2, <1>4
  <2> QED
    BY <2>1
<1> HIDE DEF ahead
<1>5. \A i \in S : rows[i] \in R
  BY LenProperties, ElementOfSeq
<1>6. Len(Kept(rows, S)) = n
  <2>1. Kept(rows, S) \in [1..n -> R]
    BY <1>2, <1>3, <1>5
  <2> QED
    BY <1>2, <2>1, SeqDef, LenProperties
<1> QED
  BY <1>2, <1>3, <1>4, <1>6

\* The search of a table leaves exactly the rows that match it, each once and in the order they had
\* (filterRows).
THEOREM FilterKeepsMatches ==
  ASSUME NEW rows \in RowLists, NEW query \in Values
  PROVE  /\ FilterRows(rows, query, TRUE) \in RowLists
         /\ IdsOf(FilterRows(rows, query, TRUE)) = {rows[i].id : i \in {k \in DOMAIN rows : rows[k].value = query}}
         /\ \E at \in [1..Len(FilterRows(rows, query, TRUE)) -> DOMAIN rows] :
              /\ \A k \in 1..Len(FilterRows(rows, query, TRUE)) :
                   FilterRows(rows, query, TRUE)[k] = rows[at[k]]
              /\ \A k, l \in 1..Len(FilterRows(rows, query, TRUE)) : k < l => at[k] < at[l]
<1>1. rows \in Seq(RowRecords) /\ NoRowTwice(rows) /\ \A i \in DOMAIN rows : rows[i] \in RowRecords
  BY ElementOfSeq, LenProperties DEF RowLists
<1>2. query # NoValue
  BY RowsAssumption
<1> DEFINE S == {i \in DOMAIN rows : rows[i].value = query}
           kept == Kept(rows, S)
<1>3. FilterRows(rows, query, TRUE) = kept
  BY <1>2 DEF FilterRows
<1>4. S \in SUBSET DOMAIN rows /\ \A i \in S : rows[i] \in RowRecords
  BY <1>1
<1>5. IdsOf(kept) = {rows[i].id : i \in S} => IdsOf(kept) = {rows[i].id : i \in {k \in DOMAIN rows : rows[k].value = query}}
  OBVIOUS
<1> HIDE DEF S
<1>6. /\ kept \in Seq(RowRecords) /\ NoRowTwice(kept)
      /\ IdsOf(kept) = {rows[i].id : i \in S}
  BY <1>1, <1>4, KeptIs
<1>7. PICK at \in [1..Len(kept) -> S] :
        /\ \A k \in 1..Len(kept) : kept[k] = rows[at[k]]
        /\ \A k, l \in 1..Len(kept) : k < l => at[k] < at[l]
  BY <1>1, <1>4, KeptInOrder
<1> HIDE DEF kept
<1>8. at \in [1..Len(kept) -> DOMAIN rows]
  BY <1>4, <1>7
<1>9. kept \in RowLists
  BY <1>6 DEF RowLists
<1> QED
  BY <1>3, <1>5, <1>6, <1>7, <1>8, <1>9

\* The order a column header asks for: ties by place, so it is strict and total.
SortAhead(rows, direction) == [i \in DOMAIN rows |-> {j \in DOMAIN rows : Before(rows, direction, j, i)}]

LEMMA RecordType ==
  ASSUME NEW r \in RowRecords
  PROVE  r.id \in RowIds /\ r.value \in Values /\ r.value \in Int
<1>1. r.id \in RowIds /\ r.value \in Values
  BY DEF RowRecords
<1>2. \A v \in Values : v \in Nat
  BY RowsAssumption
<1>3. r.value \in Nat
  BY <1>1, <1>2
<1> QED
  BY <1>1, <1>3

LEMMA SortOrders ==
  ASSUME NEW rows \in Seq(RowRecords), NEW direction
  PROVE  Orders(DOMAIN rows, SortAhead(rows, direction))
<1> DEFINE S == DOMAIN rows
           ahead == SortAhead(rows, direction)
<1>1. S = 1..Len(rows) /\ Len(rows) \in Nat /\ IsFiniteSet(S)
  BY LenProperties, FS_Interval
<1>2. \A i \in S : rows[i].value \in Int /\ i \in Int
  <2>1. \A i \in S : rows[i] \in RowRecords
    BY <1>1, ElementOfSeq
  <2> HIDE DEF S
  <2>2. \A i \in S : rows[i].value \in Int
    BY <2>1, RecordType
  <2> QED
    BY <1>1, <2>2
<1>3. ahead \in [S -> SUBSET S] /\ \A i, j \in S : j \in ahead[i] <=> Before(rows, direction, j, i)
  BY DEF SortAhead
<1> HIDE DEF S, ahead
<1>4. \A i \in S : ~Before(rows, direction, i, i)
  BY <1>2 DEF Before
<1>5. \A i, j \in S : i # j => Before(rows, direction, i, j) \/ Before(rows, direction, j, i)
  BY <1>2 DEF Before
<1>6. \A i, j, k \in S : Before(rows, direction, k, i) /\ Before(rows, direction, i, j)
                           => Before(rows, direction, k, j)
  BY <1>2 DEF Before
<1>7. \A i, j \in S : i \in ahead[j] => ahead[i] \subseteq ahead[j]
  BY <1>3, <1>6
<1>8. Orders(S, ahead)
  BY <1>1, <1>3, <1>4, <1>5, <1>7 DEF Orders
<1> QED
  BY <1>8 DEF S, ahead

LEMMA SortIs ==
  ASSUME NEW rows \in Seq(RowRecords), NEW Q, \A i \in DOMAIN rows : rows[i] \in Q,
         NEW direction, NEW allowed
  PROVE  /\ SortRows(rows, direction, allowed) \in Seq(Q)
         /\ Len(SortRows(rows, direction, allowed)) = Len(rows)
         /\ IdsOf(SortRows(rows, direction, allowed)) = IdsOf(rows)
         /\ NoRowTwice(rows) => NoRowTwice(SortRows(rows, direction, allowed))
<1>1. CASE ~allowed \/ direction = "none"
  <2>1. rows \in Seq(Q)
    BY SeqDef, LenProperties
  <2> QED
    BY <1>1, <2>1 DEF SortRows
<1>2. CASE ~(~allowed \/ direction = "none")
  <2> DEFINE ahead == SortAhead(rows, direction)
             sorted == InOrder(rows, DOMAIN rows, ahead)
  <2>1. SortRows(rows, direction, allowed) = sorted
    BY <1>2 DEF SortRows, SortAhead
  <2>2. Orders(DOMAIN rows, ahead) /\ DOMAIN rows \in SUBSET DOMAIN rows
    BY SortOrders
  <2> HIDE DEF ahead
  <2>3. /\ sorted \in Seq(Q) /\ Len(sorted) = Cardinality(DOMAIN rows)
        /\ IdsOf(sorted) = {rows[i].id : i \in DOMAIN rows}
        /\ NoRowTwice(rows) => NoRowTwice(sorted)
    BY <2>2, InOrderIs
  <2>4. Cardinality(DOMAIN rows) = Len(rows)
    <3> DEFINE n == Len(rows)
    <3>1. n \in Nat /\ DOMAIN rows = 1..n
      BY LenProperties
    <3> HIDE DEF n
    <3>2. Cardinality(1..n) = n
      BY <3>1, FS_Interval
    <3> QED
      BY <3>1, <3>2 DEF n
  <2> QED
    BY <2>1, <2>3, <2>4 DEF IdsOf
<1> QED
  BY <1>1, <1>2

\* A sorted table shows the rows of the list, each once, in the order of their values and, where
\* these are equal, in the order they had, whatever the direction (sortRows).
THEOREM SortLosesNoRow ==
  ASSUME NEW rows \in RowLists, NEW direction \in Directions \ {"none"}
  PROVE  /\ SortRows(rows, direction, TRUE) \in RowLists
         /\ IdsOf(SortRows(rows, direction, TRUE)) = IdsOf(rows)
         /\ \A k, l \in 1..Len(rows) : k < l =>
              IF direction = "asc"
              THEN SortRows(rows, direction, TRUE)[k].value <= SortRows(rows, direction, TRUE)[l].value
              ELSE SortRows(rows, direction, TRUE)[k].value >= SortRows(rows, direction, TRUE)[l].value
         /\ \E at \in [1..Len(rows) -> DOMAIN rows] :
              /\ \A k \in 1..Len(rows) : SortRows(rows, direction, TRUE)[k] = rows[at[k]]
              /\ \A k, l \in 1..Len(rows) :
                   k < l /\ rows[at[k]].value = rows[at[l]].value => at[k] < at[l]
<1>1. rows \in Seq(RowRecords) /\ NoRowTwice(rows) /\ DOMAIN rows = 1..Len(rows) /\ Len(rows) \in Nat
  BY LenProperties DEF RowLists
<1>2. \A i \in DOMAIN rows : rows[i] \in RowRecords
  BY <1>1, ElementOfSeq
<1> DEFINE S == DOMAIN rows
           ahead == SortAhead(rows, direction)
           order == Order(S, ahead)
<1>3. /\ SortRows(rows, direction, TRUE) \in Seq(RowRecords) /\ NoRowTwice(SortRows(rows, direction, TRUE))
      /\ IdsOf(SortRows(rows, direction, TRUE)) = IdsOf(rows)
  BY <1>1, <1>2, SortIs
<1>4. Cardinality(S) = Len(rows)
  BY <1>1, FS_Interval
<1>5. Orders(S, ahead)
  BY <1>1, SortOrders
<1>6. SortRows(rows, direction, TRUE) = [k \in 1..Len(rows) |-> rows[order[k]]]
  BY <1>4 DEF SortRows, SortAhead, InOrder
<1> HIDE DEF S, ahead
<1>7. /\ order \in [1..Len(rows) -> S]
      /\ \A k, l \in 1..Len(rows) : k < l => order[k] \in ahead[order[l]]
  BY <1>4, <1>5, OrderIs DEF Bijection, Injection
<1> HIDE DEF order
<1>8. ASSUME NEW k \in 1..Len(rows), NEW l \in 1..Len(rows), k < l
      PROVE  /\ IF direction = "asc" THEN rows[order[k]].value <= rows[order[l]].value
                                     ELSE rows[order[k]].value >= rows[order[l]].value
             /\ rows[order[k]].value = rows[order[l]].value => order[k] < order[l]
  <2>1. order[k] \in S /\ order[l] \in S /\ order[k] \in ahead[order[l]]
    BY <1>7, <1>8
  <2>2. Before(rows, direction, order[k], order[l])
    BY <2>1 DEF ahead, SortAhead, S
  <2>3. rows[order[k]].value \in Int /\ rows[order[l]].value \in Int
    BY <1>2, <2>1, RecordType DEF S
  <2> QED
    BY <2>2, <2>3 DEF Before
<1> DEFINE sorted == SortRows(rows, direction, TRUE)
<1>9. \A k \in 1..Len(rows) : sorted[k] = rows[order[k]]
  BY <1>6
<1>10. order \in [1..Len(rows) -> DOMAIN rows]
  BY <1>7 DEF S
<1>11. sorted \in RowLists
  BY <1>3 DEF RowLists
<1> HIDE DEF sorted
<1>12. \A k, l \in 1..Len(rows) : k < l =>
         IF direction = "asc" THEN sorted[k].value <= sorted[l].value ELSE sorted[k].value >= sorted[l].value
  BY <1>8, <1>9
<1>13. \E at \in [1..Len(rows) -> DOMAIN rows] :
         /\ \A k \in 1..Len(rows) : sorted[k] = rows[at[k]]
         /\ \A k, l \in 1..Len(rows) : k < l /\ rows[at[k]].value = rows[at[l]].value => at[k] < at[l]
  BY <1>8, <1>9, <1>10
<1>14. IdsOf(sorted) = IdsOf(rows)
  BY <1>3 DEF sorted
<1> QED
  BY <1>11, <1>12, <1>13, <1>14 DEF sorted
=============================================================================
