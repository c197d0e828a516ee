-------------------------- MODULE SearchPageProofs ---------------------------
(***************************************************************************)
(* Proofs about SearchPage.tla for every list of traces and every bound.   *)
(*                                                                         *)
(* Inv is inductive.  LoadingIsNewest needs that an open request is the    *)
(* newest one and that there is only one (OneNewest): otherwise the abort  *)
(* of SetFilters could end the loading of a request that stays.            *)
(* FirstPageIsCurrent needs what is on its way: the newest request is of   *)
(* the current filters unless the debounce timer is armed (OfFilters), and *)
(* what a request carries was the answer to its own filters (Honest).      *)
(* CardsAreRight needs Lists, inductive with Inv, and what Keep returns.   *)
(***************************************************************************)
EXTENDS SearchPage, SequenceTheorems, FiniteSetTheorems, WellFoundedInduction, TLAPS

(* A page of the list at some moment: traces are added in front, so the    *)
(* list was then what is now a tail of it.                                 *)
WasPage(data, f) ==
    \E i \in 1 .. Len(stored) + 1 : data = Page(f, SubSeq(stored, i, Len(stored)))

Pages == {Page(f, list) : f \in Filters, list \in Seq(Traces)}

Types ==
    /\ stored \in Seq(Traces) /\ filters \in Filters
    /\ mounted \in BOOLEAN /\ loading \in BOOLEAN /\ debounce \in BOOLEAN
    /\ reqs \subseteq RequestOf(Filters, Pages)

Unmounted == ~mounted => reqs = {} /\ ~debounce

OneNewest ==
    /\ \A r \in reqs : r.phase = "open" => r.newest
    /\ \A r, q \in reqs : r.newest /\ q.newest => r = q

OfFilters == ~debounce => \A r \in reqs : r.newest => r.arg = filters

Honest == \A r \in reqs : r.phase = "body" => WasPage(r.data, r.arg)

Inv ==
    /\ Types /\ Unmounted /\ OneNewest /\ OfFilters /\ Honest
    /\ LoadingIsNewest /\ FirstPageIsCurrent

-----------------------------------------------------------------------------
(* How many of the positions that Keep keeps are not after i.              *)
Rank(positions, i) == Cardinality({j \in positions : j <= i})

(* Ranks count the positions: they rise with them, and there is one of     *)
(* every rank up to the last.                                              *)
LEMMA Ranks ==
  ASSUME NEW n \in Nat, NEW I \in SUBSET (1 .. n)
  PROVE  /\ Cardinality(I) \in Nat /\ Cardinality(I) <= n
         /\ \A i \in I : Rank(I, i) \in 1 .. Cardinality(I)
         /\ \A i, j \in I : i < j => Rank(I, i) < Rank(I, j)
         /\ \A k \in 1 .. Cardinality(I) : \E i \in I : Rank(I, i) = k
<1> DEFINE Upto(i) == {j \in I : j <= i}
           rank == [i \in I |-> Rank(I, i)]
           m == Cardinality(I)
<1>1. IsFiniteSet(I) /\ m \in Nat /\ m <= n
  <2>1. IsFiniteSet(1 .. n) /\ Cardinality(1 .. n) = n
    BY FS_Interval
  <2> QED
    BY <2>1, FS_Subset, FS_CardinalityType
<1>2. \A i \in I : /\ IsFiniteSet(Upto(i)) /\ Cardinality(Upto(i)) \in Nat
                    /\ Cardinality(Upto(i)) <= m /\ Cardinality(Upto(i)) # 0
  <2> TAKE i \in I
  <2>1. Upto(i) \in SUBSET I /\ i \in Upto(i)
    OBVIOUS
  <2>2. IsFiniteSet(Upto(i)) /\ Cardinality(Upto(i)) <= m
    BY <1>1, <2>1, FS_Subset
  <2>3. Cardinality(Upto(i)) \in Nat
    BY <2>2, FS_CardinalityType
  <2>4. Cardinality(Upto(i)) # 0
    BY <2>1, <2>2, FS_EmptySet
  <2> QED
    BY <2>2, <2>3, <2>4
<1>3. rank \in [I -> 1 .. m]
  BY <1>1, <1>2 DEF Rank
<1>4. ASSUME NEW i \in I, NEW j \in I, i < j
      PROVE  rank[i] < rank[j]
  <2>1. Upto(i) \in SUBSET Upto(j) /\ j \in Upto(j) /\ j \notin Upto(i)
    <3>1. \A x \in I : x \in Nat
      OBVIOUS
    <3>2. \A x \in I : x <= i => x <= j
      BY <1>4, <3>1
    <3>3. j <= j /\ ~(j <= i)
      BY <1>4, <3>1
    <3> QED
      BY <3>2, <3>3
  <2>2. Cardinality(Upto(i)) # Cardinality(Upto(j)) /\ Cardinality(Upto(i)) <= Cardinality(Upto(j))
    BY <1>2, <2>1, FS_Subset
  <2>3. Cardinality(Upto(i)) \in Nat /\ Cardinality(Upto(j)) \in Nat
    BY <1>2
  <2>4. rank[i] = Cardinality(Upto(i)) /\ rank[j] = Cardinality(Upto(j))
    BY DEF Rank
  <2> QED
    BY <2>2, <2>3, <2>4
<1>5. rank \in Injection(I, 1 .. m)
  <2>1. \A i, j \in I : rank[i] = rank[j] => i = j
    <3> TAKE i, j \in I
    <3>1. i < j \/ j < i \/ i = j
      OBVIOUS
    <3>2. rank[i] \in Nat /\ rank[j] \in Nat
      BY <1>3
    <3> HIDE DEF rank
    <3> QED
      BY <3>1, <3>2, <1>4
  <2> QED
    BY <1>3, <2>1 DEF Injection, IsInjective
<1>6. rank \in Surjection(I, 1 .. m)
  <2>1. IsFiniteSet(1 .. m) /\ Cardinality(1 .. m) = m
    BY <1>1, FS_Interval
  <2> QED
    BY <1>5, <2>1, FS_Injection
<1>7. \A k \in 1 .. m : \E i \in I : rank[i] = k
  BY <1>6 DEF Surjection
<1>8. \A i \in I : rank[i] = Rank(I, i)
  OBVIOUS
<1> HIDE DEF rank
<1> QED
  BY <1>1, <1>3, <1>4, <1>7, <1>8

(* What Keep returns: every element is one of the list at a position that  *)
(* is kept, and no position is used twice.                                 *)
LEMMA KeepProperties ==
  ASSUME NEW S, NEW list \in Seq(S), NEW I \in SUBSET (1 .. Len(list))
  PROVE  /\ Keep(list, I) \in Seq(S) /\ Len(Keep(list, I)) = Cardinality(I)
         /\ Cardinality(I) \in Nat /\ Cardinality(I) <= Len(list)
         /\ \A k \in 1 .. Cardinality(I) : \E i \in I : Keep(list, I)[k] = list[i] /\ Rank(I, i) = k
<1> DEFINE m == Cardinality(I)
           at(k) == CHOOSE i \in I : Rank(I, i) = k
<1>1. m \in Nat /\ m <= Len(list) /\ \A k \in 1 .. m : \E i \in I : Rank(I, i) = k
  BY Ranks
<1>2. \A k \in 1 .. m : at(k) \in I /\ Rank(I, at(k)) = k
  BY <1>1
<1>3. Keep(list, I) = [k \in 1 .. m |-> list[at(k)]]
  BY DEF Keep, Rank
<1> HIDE DEF at
<1>4. \A k \in 1 .. m : list[at(k)] \in S
  <2>1. \A i \in 1 .. Len(list) : list[i] \in S
    OBVIOUS
  <2> QED
    BY <1>2, <2>1
<1>5. Keep(list, I) \in Seq(S) /\ Len(Keep(list, I)) = m
  BY <1>1, <1>3, <1>4
<1>6. \A k \in 1 .. m : Keep(list, I)[k] = list[at(k)]
  BY <1>3
<1> HIDE DEF m
<1>7. \A k \in 1 .. m : \E i \in I : Keep(list, I)[k] = list[i] /\ Rank(I, i) = k
  BY <1>2, <1>6
<1> QED
  BY <1>1, <1>5, <1>7 DEF m

(* Keep filters: the element at every kept position is in the result, at   *)
(* the rank of its position, and ranks rise with the positions.            *)
THEOREM KeepIsFilter ==
  ASSUME NEW S, NEW list \in Seq(S), NEW I \in SUBSET (1 .. Len(list))
  PROVE  /\ \A i \in I : Rank(I, i) \in DOMAIN Keep(list, I) /\ Keep(list, I)[Rank(I, i)] = list[i]
         /\ \A i, j \in I : i < j => Rank(I, i) < Rank(I, j)
         /\ Range(Keep(list, I)) = {list[i] : i \in I}
<1> DEFINE kept == Keep(list, I)
<1>1. /\ DOMAIN kept = 1 .. Cardinality(I)
      /\ \A k \in 1 .. Cardinality(I) : \E i \in I : kept[k] = list[i] /\ Rank(I, i) = k
  BY KeepProperties
<1>2. /\ \A i \in I : Rank(I, i) \in 1 .. Cardinality(I)
      /\ \A i, j \in I : i < j => Rank(I, i) < Rank(I, j)
  BY Ranks
<1> HIDE DEF kept
<1>3. ASSUME NEW i \in I, NEW j \in I, Rank(I, i) = Rank(I, j)
      PROVE  i = j
  <2>1. (i < j \/ j < i \/ i = j) /\ Rank(I, i) \in Nat
    BY <1>2
  <2> QED
    BY <1>2, <1>3, <2>1
<1>4. ASSUME NEW i \in I PROVE Rank(I, i) \in DOMAIN kept /\ kept[Rank(I, i)] = list[i]
  <2>1. PICK j \in I : kept[Rank(I, i)] = list[j] /\ Rank(I, j) = Rank(I, i)
    BY <1>1, <1>2
  <2> QED
    BY <1>1, <1>2, <1>3, <2>1
<1>5. Range(kept) = {list[i] : i \in I}
  <2>1. ASSUME NEW x \in Range(kept) PROVE x \in {list[i] : i \in I}
    BY <1>1 DEF Range
  <2>2. ASSUME NEW i \in I PROVE list[i] \in Range(kept)
    BY <1>4 DEF Range
  <2> QED
    BY <2>1, <2>2
<1> QED
  BY <1>2, <1>4, <1>5 DEF kept

(* Every element of a list has a first position.                           *)
LEMMA FirstPosition ==
  ASSUME NEW S, NEW list \in Seq(S), NEW x \in Range(list)
  PROVE  \E i \in DOMAIN list : list[i] = x /\ \A j \in 1 .. i - 1 : list[j] # list[i]
<1> DEFINE J == {i \in DOMAIN list : list[i] = x}
<1>1. J \in SUBSET Nat /\ J # {}
  BY DEF Range
<1> HIDE DEF J
<1>2. PICK i \in J : \A j \in J : ~ (<<j, i>> \in OpToRel(<, Nat))
  BY <1>1, WFMin, NatLessThanWellFounded
<1>3. i \in DOMAIN list /\ list[i] = x /\ i \in Nat
  BY <1>1 DEF J
<1>4. ASSUME NEW j \in 1 .. i - 1 PROVE list[j] # list[i]
  <2>1. <<j, i>> \in Nat \X Nat /\ j < i
    BY <1>3
  <2>2. <<j, i>> \in OpToRel(<, Nat)
    BY <2>1 DEF OpToRel
  <2>3. j \in DOMAIN list
    BY <1>3
  <2> QED
    BY <1>2, <1>3, <2>2, <2>3 DEF J
<1> QED
  BY <1>3, <1>4

(* Where the list has no element twice at the positions kept, neither has  *)
(* the result.                                                             *)
LEMMA KeepInjective ==
  ASSUME NEW S, NEW list \in Seq(S), NEW I \in SUBSET (1 .. Len(list)),
         \A i, j \in I : list[i] = list[j] => i = j
  PROVE  IsInjective(Keep(list, I))
<1> DEFINE kept == Keep(list, I)
<1>1. /\ DOMAIN kept = 1 .. Cardinality(I)
      /\ \A k \in 1 .. Cardinality(I) : \E i \in I : kept[k] = list[i] /\ Rank(I, i) = k
  BY KeepProperties
<1> HIDE DEF kept
<1>2. ASSUME NEW k \in DOMAIN kept, NEW l \in DOMAIN kept, kept[k] = kept[l]
      PROVE  k = l
  <2>1. PICK i \in I : kept[k] = list[i] /\ Rank(I, i) = k
    BY <1>1
  <2>2. PICK j \in I : kept[l] = list[j] /\ Rank(I, j) = l
    BY <1>1
  <2>3. i = j
    BY <1>2, <2>1, <2>2
  <2> QED
    BY <2>1, <2>2, <2>3
<1>3. IsInjective(kept)
  BY <1>2 DEF IsInjective
<1> QED
  BY <1>3 DEF kept

(* Cut is the start of the list.                                           *)
LEMMA CutProperties ==
  ASSUME NEW S, NEW list \in Seq(S)
  PROVE  /\ Cut(list) \in Seq(S) /\ Len(Cut(list)) <= LiveLimit
         /\ Range(Cut(list)) \subseteq Range(list)
         /\ IsInjective(list) => IsInjective(Cut(list))
<1> DEFINE n == IF LiveLimit < Len(list) THEN LiveLimit ELSE Len(list)
           cut == SubSeq(list, 1, n)
<1>1. n \in Nat /\ n <= LiveLimit /\ n <= Len(list)
  BY SearchAssumption
<1> HIDE DEF n
<1>2. \A i \in 1 .. n : list[i] \in S
  BY <1>1
<1>3. cut \in Seq(S) /\ Len(cut) = n /\ \A i \in 1 .. n : cut[i] = list[i]
  BY <1>1, <1>2, SubSeqProperties
<1> HIDE DEF cut
<1>4. DOMAIN cut = 1 .. n /\ DOMAIN cut \subseteq DOMAIN list
  BY <1>1, <1>3
<1>5. Range(cut) \subseteq Range(list) /\ (IsInjective(list) => IsInjective(cut))
  BY <1>3, <1>4 DEF Range, IsInjective
<1>6. Cut(list) = cut
  BY DEF Cut, cut, n
<1> QED
  BY <1>1, <1>3, <1>5, <1>6

(* The elements of two lists one after the other.                          *)
LEMMA ConcatRange ==
  ASSUME NEW S, NEW s1 \in Seq(S), NEW s2 \in Seq(S)
  PROVE  Range(s1 \o s2) = Range(s1) \cup Range(s2)
<1> DEFINE all == s1 \o s2
<1>1. /\ all \in Seq(S) /\ Len(all) = Len(s1) + Len(s2)
      /\ \A i \in 1 .. Len(s1) + Len(s2) :
            all[i] = IF i <= Len(s1) THEN s1[i] ELSE s2[i - Len(s1)]
  BY ConcatProperties
<1> HIDE DEF all
<1>2. Len(s1) \in Nat /\ Len(s2) \in Nat /\ DOMAIN all = 1 .. Len(s1) + Len(s2)
  BY <1>1
<1>3. ASSUME NEW i \in DOMAIN all PROVE all[i] \in Range(s1) \cup Range(s2)
  <2>1. CASE i <= Len(s1)
    <3>1. i \in DOMAIN s1 /\ all[i] = s1[i]
      BY <1>1, <1>2, <2>1
    <3> QED
      BY <3>1 DEF Range
  <2>2. CASE i > Len(s1)
    <3>1. i - Len(s1) \in DOMAIN s2 /\ all[i] = s2[i - Len(s1)]
      BY <1>1, <1>2, <2>2
    <3> QED
      BY <3>1 DEF Range
  <2> QED
    BY <1>2, <2>1, <2>2
<1>4. ASSUME NEW i \in DOMAIN s1 PROVE s1[i] \in Range(all)
  <2>1. i \in DOMAIN all /\ all[i] = s1[i]
    BY <1>1, <1>2
  <2> QED
    BY <2>1 DEF Range
<1>5. ASSUME NEW i \in DOMAIN s2 PROVE s2[i] \in Range(all)
  <2>1. i + Len(s1) \in DOMAIN all /\ ~(i + Len(s1) <= Len(s1)) /\ i + Len(s1) - Len(s1) = i
    BY <1>2
  <2>2. all[i + Len(s1)] = s2[i]
    BY <1>1, <1>2, <2>1
  <2> QED
    BY <2>1, <2>2 DEF Range
<1>6. Range(all) = Range(s1) \cup Range(s2)
  BY <1>3, <1>4, <1>5 DEF Range
<1> QED
  BY <1>6 DEF all

(* mergeUniqueTraces shows every trace of the two groups once.             *)
THEOREM MergeUniqueIsUnion ==
  ASSUME NEW S, NEW group1 \in Seq(S), NEW group2 \in Seq(S)
  PROVE  LET merged == MergeUniqueTraces(group1, group2)
         IN  /\ merged \in Seq(S) /\ IsInjective(merged)
             /\ Range(merged) = Range(group1) \cup Range(group2)
<1> DEFINE all == group1 \o group2
           I == {i \in DOMAIN all : \A j \in 1 .. i - 1 : all[j] # all[i]}
<1>1. all \in Seq(S) /\ Range(all) = Range(group1) \cup Range(group2)
  BY ConcatProperties, ConcatRange
<1>2. MergeUniqueTraces(group1, group2) = Keep(all, I)
  BY DEF MergeUniqueTraces
<1> HIDE DEF all
<1>3. I \in SUBSET (1 .. Len(all))
  BY <1>1
<1>4. \A i, j \in I : all[i] = all[j] => i = j
  <2> TAKE i, j \in I
  <2>1. i \in Nat /\ j \in Nat /\ i >= 1 /\ j >= 1
    BY <1>1
  <2>2. /\ \A k \in 1 .. i - 1 : all[k] # all[i]
        /\ \A k \in 1 .. j - 1 : all[k] # all[j]
    OBVIOUS
  <2>3. i < j => all[i] # all[j]
    BY <2>1, <2>2
  <2>4. j < i => all[i] # all[j]
    BY <2>1, <2>2
  <2> QED
    BY <2>1, <2>3, <2>4
<1>5. {all[i] : i \in I} = Range(all)
  <2>1. ASSUME NEW x \in Range(all) PROVE x \in {all[i] : i \in I}
    BY <1>1, FirstPosition
  <2> QED
    BY <2>1 DEF Range
<1> HIDE DEF I
<1>6. Keep(all, I) \in Seq(S) /\ IsInjective(Keep(all, I)) /\ Range(Keep(all, I)) = Range(all)
  BY <1>1, <1>3, <1>4, <1>5, KeepProperties, KeepInjective, KeepIsFilter
<1> QED
  BY <1>1, <1>2, <1>6

(* mergeTracePages leaves what is loaded in its place, loses no trace of   *)
(* the new page, and repeats none.                                         *)
THEOREM MergePagesAppends ==
  ASSUME NEW S, NEW existing \in Seq(S), NEW incoming \in Seq(S)
  PROVE  LET merged == MergeTracePages(existing, incoming)
         IN  /\ merged \in Seq(S)
             /\ \A i \in DOMAIN existing : i \in DOMAIN merged /\ merged[i] = existing[i]
             /\ Range(merged) = Range(existing) \cup Range(incoming)
             /\ IsInjective(existing) => IsInjective(merged)
<1> DEFINE I == {i \in DOMAIN incoming : /\ incoming[i] \notin Range(existing)
                                        /\ \A j \in 1 .. i - 1 : incoming[j] # incoming[i]}
           new == Keep(incoming, I)
           merged == existing \o new
<1>1. MergeTracePages(existing, incoming) = merged
  BY DEF MergeTracePages
<1>2. I \in SUBSET (1 .. Len(incoming)) /\ \A i \in I : incoming[i] \notin Range(existing)
  OBVIOUS
<1>3. \A i, j \in I : incoming[i] = incoming[j] => i = j
  <2> TAKE i, j \in I
  <2>1. i \in Nat /\ j \in Nat /\ i >= 1 /\ j >= 1
    OBVIOUS
  <2>2. /\ \A k \in 1 .. i - 1 : incoming[k] # incoming[i]
        /\ \A k \in 1 .. j - 1 : incoming[k] # incoming[j]
    OBVIOUS
  <2>3. i < j => incoming[i] # incoming[j]
    BY <2>1, <2>2
  <2>4. j < i => incoming[i] # incoming[j]
    BY <2>1, <2>2
  <2> QED
    BY <2>1, <2>3, <2>4
<1>4. {incoming[i] : i \in I} \subseteq Range(incoming)
  BY DEF Range
<1>5. Range(incoming) \subseteq Range(existing) \cup {incoming[i] : i \in I}
  BY FirstPosition
<1> HIDE DEF I
<1>6. /\ new \in Seq(S) /\ IsInjective(new) /\ Range(new) = {incoming[i] : i \in I}
  BY <1>2, <1>3, KeepProperties, KeepInjective, KeepIsFilter
<1> HIDE DEF new
<1>7. /\ merged \in Seq(S) /\ Len(merged) = Len(existing) + Len(new)
      /\ \A i \in 1 .. Len(existing) + Len(new) :
            merged[i] = IF i <= Len(existing) THEN existing[i] ELSE new[i - Len(existing)]
      /\ Range(merged) = Range(existing) \cup Range(new)
  BY <1>6, ConcatProperties, ConcatRange
<1> HIDE DEF merged
<1>8. Len(existing) \in Nat /\ Len(new) \in Nat /\ DOMAIN merged = 1 .. Len(existing) + Len(new)
  BY <1>6, <1>7
<1>9. \A i \in DOMAIN existing : i \in DOMAIN merged /\ merged[i] = existing[i]
  BY <1>7, <1>8
<1>10. Range(merged) = Range(existing) \cup Range(incoming)
  BY <1>4, <1>5, <1>6, <1>7
<1>11. ASSUME IsInjective(existing), NEW i \in DOMAIN merged, NEW j \in DOMAIN merged,
              merged[i] = merged[j]
       PROVE  i = j
  <2> DEFINE old(k) == k \in DOMAIN existing /\ merged[k] = existing[k]
             added(k) == k - Len(existing) \in DOMAIN new /\ merged[k] = new[k - Len(existing)]
  <2>1. ASSUME NEW k \in DOMAIN merged PROVE old(k) \/ added(k)
    <3>1. CASE k <= Len(existing)
      BY <1>7, <1>8, <3>1
    <3>2. CASE k > Len(existing)
      <4>1. k - Len(existing) \in DOMAIN new
        BY <1>6, <1>8, <3>2
      <4> QED
        BY <1>7, <1>8, <3>2, <4>1
    <3> QED
      BY <1>8, <3>1, <3>2
  <2>2. ASSUME NEW k \in DOMAIN merged, NEW l \in DOMAIN merged, old(k), added(l)
        PROVE  merged[k] # merged[l]
    <3>1. \A x \in Range(new) : x \notin Range(existing)
      BY <1>2, <1>6
    <3>2. merged[k] \in Range(existing)
      BY <2>2 DEF Range
    <3>3. merged[l] \in Range(new)
      BY <2>2 DEF Range
    <3> QED
      BY <3>1, <3>2, <3>3
  <2>3. CASE old(i) /\ old(j)
    BY <1>11, <2>3 DEF IsInjective
  <2>4. CASE added(i) /\ added(j)
    <3>1. i - Len(existing) = j - Len(existing)
      BY <1>6, <1>11, <2>4 DEF IsInjective
    <3> QED
      BY <1>8, <3>1
  <2> QED
    BY <1>11, <2>1, <2>2, <2>3, <2>4
<1>12. IsInjective(existing) => IsInjective(merged)
  BY <1>11 DEF IsInjective
<1> QED
  BY <1>1, <1>7, <1>9, <1>10, <1>12

(* A page of the collector's list is a list of traces that match.          *)
LEMMA PageProperties ==
  ASSUME NEW f \in Filters, NEW list \in Seq(Traces)
  PROVE  /\ Page(f, list).traces \in Seq(Traces)
         /\ \A t \in Range(Page(f, list).traces) : Matches(f, t)
         /\ Page(f, list) = [traces |-> Page(f, list).traces, hasMore |-> Page(f, list).hasMore]
<1> DEFINE I == {i \in DOMAIN list : Matches(f, list[i])}
           found == Keep(list, I)
           last == f.offset + PageSize
           end == IF last < Len(found) THEN last ELSE Len(found)
           page == SubSeq(found, f.offset + 1, end)
<1>1. I \in SUBSET (1 .. Len(list)) /\ \A i \in I : Matches(f, list[i])
  OBVIOUS
<1>2. Page(f, list) = [traces |-> page, hasMore |-> last < Len(found)]
  BY DEF Page
<1>3. f.offset \in Nat /\ last \in Nat
  BY SearchAssumption DEF Filters
<1> HIDE DEF I
<1>4. /\ found \in Seq(Traces) /\ Len(found) = Cardinality(I) /\ Len(found) \in Nat
      /\ \A k \in 1 .. Len(found) : \E i \in I : found[k] = list[i]
  BY <1>1, KeepProperties
<1> HIDE DEF found
<1>5. end \in Nat /\ end <= Len(found)
  BY <1>3, <1>4
<1> HIDE DEF end, last
<1>6. \A i \in f.offset + 1 .. end : found[i] \in Traces
  BY <1>3, <1>4, <1>5
<1>7. /\ page \in Seq(Traces) /\ 1 .. Len(page) \subseteq 1 .. end - f.offset
      /\ \A i \in 1 .. end - f.offset : page[i] = found[f.offset + i]
  <2> DEFINE m == f.offset + 1
  <2>0. m \in Int /\ end \in Int /\ m = f.offset + 1
    BY <1>3, <1>5
  <2>1. /\ page \in Seq(Traces)
        /\ Len(page) = IF m <= end THEN end - m + 1 ELSE 0
        /\ \A i \in 1 .. end - m + 1 : page[i] = found[m + i - 1]
    <3>1. page = SubSeq(found, m, end) /\ \A i \in m .. end : found[i] \in Traces
      BY <1>6
    <3> HIDE DEF page, m
    <3> QED
      BY <2>0, <3>1, SubSeqProperties
  <2> HIDE DEF page, m
  <2>2. 1 .. Len(page) \subseteq 1 .. end - f.offset
    <3>1. f.offset \in Nat /\ end \in Nat /\ m = f.offset + 1
      BY <1>3, <1>5, <2>0
    <3>2. CASE m <= end
      <4>1. Len(page) = end - f.offset
        BY <2>1, <3>1, <3>2
      <4> QED
        BY <4>1
    <3>3. CASE ~(m <= end)
      <4>1. 1 .. Len(page) = {}
        BY <2>1, <3>3
      <4> QED
        BY <4>1
    <3> QED
      BY <3>2, <3>3
  <2>3. ASSUME NEW i \in 1 .. end - f.offset PROVE page[i] = found[f.offset + i]
    <3>1. i \in 1 .. end - m + 1 /\ m + i - 1 = f.offset + i
      BY <1>3, <2>0
    <3> QED
      BY <2>1, <3>1
  <2> QED
    BY <2>1, <2>2, <2>3
<1> HIDE DEF page
<1>8. ASSUME NEW k \in DOMAIN page PROVE Matches(f, page[k])
  <2>1. k \in 1 .. end - f.offset
    BY <1>3, <1>5, <1>7
  <2>2. f.offset + k \in 1 .. Len(found) /\ page[k] = found[f.offset + k]
    <3>1. f.offset + k \in 1 .. Len(found)
      BY <1>3, <1>4, <1>5, <2>1
    <3> QED
      BY <1>7, <2>1, <3>1
  <2>3. PICK i \in I : found[f.offset + k] = list[i]
    BY <1>4, <2>2
  <2> QED
    BY <1>1, <2>2, <2>3
<1>9. \A t \in Range(page) : Matches(f, t)
  BY <1>8 DEF Range
<1> QED
  BY <1>2, <1>7, <1>9

-----------------------------------------------------------------------------
(* What was a page of the list stays one when a trace is added in front.   *)
LEMMA PagesStay ==
  ASSUME stored \in Seq(Traces), NEW t \in Traces, stored' = <<t>> \o stored, NEW data, NEW f,
         WasPage(data, f)
  PROVE  WasPage(data, f)'
<1>1. PICK i \in 1 .. Len(stored) + 1 : data = Page(f, SubSeq(stored, i, Len(stored)))
  BY DEF WasPage
<1> DEFINE n == Len(stored)
           before == SubSeq(stored, i, n)
           now == SubSeq(stored', i + 1, n + 1)
<1>2. n \in Nat /\ Len(stored') = n + 1 /\ stored' \in Seq(Traces)
  OBVIOUS
<1>3. \A j \in 1 .. n : stored'[j + 1] = stored[j]
  OBVIOUS
<1>4. /\ before \in Seq(Traces) /\ Len(before) = n - i + 1
      /\ \A j \in 1 .. n - i + 1 : before[j] = stored[i + j - 1]
  BY <1>2, SubSeqProperties
<1>5. /\ now \in Seq(Traces) /\ Len(now) = n - i + 1
      /\ \A j \in 1 .. n - i + 1 : now[j] = stored'[i + j]
  BY <1>2, SubSeqProperties
<1>6. \A j \in 1 .. n - i + 1 : now[j] = before[j]
  BY <1>2, <1>3, <1>4, <1>5
<1>7. now = before
  BY <1>2, <1>4, <1>5, <1>6, SeqEqual
<1>8. data = Page(f, SubSeq(stored', i + 1, Len(stored')))
  BY <1>1, <1>2, <1>7
<1>9. i + 1 \in 1 .. Len(stored') + 1
  BY <1>2
<1>10. \E k \in 1 .. Len(stored') + 1 : data = Page(f, SubSeq(stored', k, Len(stored')))
  BY <1>8, <1>9
<1> QED
  BY <1>10 DEF WasPage

(* The list as it is now is one of its moments.                            *)
LEMMA PageNow ==
  ASSUME stored \in Seq(Traces), NEW f \in Filters
  PROVE  Page(f, stored) \in Pages /\ WasPage(Page(f, stored), f)
<1>1. SubSeq(stored, 1, Len(stored)) = stored /\ 1 \in 1 .. Len(stored) + 1
  BY SubSeqFull
<1>2. Page(f, stored) \in Pages
  BY DEF Pages
<1>3. Page(f, stored) = Page(f, SubSeq(stored, 1, Len(stored)))
  BY <1>1
<1>4. WasPage(Page(f, stored), f)
  BY <1>1, <1>3 DEF WasPage
<1> QED
  BY <1>2, <1>4

(* A page that has mounted satisfies the invariant.                        *)
LEMMA InitInv == Init => Inv
<1> SUFFICES ASSUME Init PROVE Inv
  OBVIOUS
<1> USE SearchAssumption DEF Init
<1>1. filters \in Filters
  BY DEF NoFilters, Filters
<1>2. Types
  <2>1. stored \in Seq(Traces) /\ reqs \subseteq RequestOf(Filters, Pages)
    OBVIOUS
  <2>2. mounted \in BOOLEAN /\ loading \in BOOLEAN /\ debounce \in BOOLEAN
    OBVIOUS
  <2> QED
    BY <1>1, <2>1, <2>2 DEF Types
<1>3. LoadingIsNewest /\ FirstPageIsCurrent
  BY DEF LoadingIsNewest, FirstPageIsCurrent, Newest, Idle
<1> QED
  BY <1>2, <1>3 DEF Inv, Unmounted, OneNewest, OfFilters, Honest

(* Editing the filters, whatever they become.                              *)
LEMMA SetFiltersKeepsInv ==
  ASSUME Inv, NEW f \in Filters, SetFilters(f)
  PROVE  Inv'
<1>0. Types /\ Unmounted /\ OneNewest /\ Honest /\ LoadingIsNewest
  BY DEF Inv
<1>1. /\ mounted /\ mounted' /\ filters' = f /\ debounce' /\ stored' = stored
      /\ reqs' = {r \in reqs : r.phase = "body"}
      /\ loading' = (loading /\ OpenOnes(reqs) = {})
      /\ mounted' \in BOOLEAN /\ debounce' \in BOOLEAN
  BY <1>0 DEF SetFilters, AfterAbort, Types
<1>2. Types'
  BY <1>0, <1>1 DEF Types
<1>3. Unmounted' /\ OneNewest' /\ OfFilters'
  BY <1>0, <1>1 DEF Unmounted, OneNewest, OfFilters
<1>4. Honest'
  BY <1>0, <1>1 DEF Honest, WasPage
<1>5. LoadingIsNewest'
  <2>1. CASE OpenOnes(reqs) = {}
    <3>1. reqs' = reqs
      BY <1>0, <1>1, <2>1 DEF OpenOnes, Types, RequestOf
    <3> QED
      BY <1>0, <1>1, <2>1, <3>1 DEF LoadingIsNewest
  <2>2. CASE OpenOnes(reqs) # {}
    <3>1. PICK o \in reqs : o.phase = "open"
      BY <2>2 DEF OpenOnes
    <3>2. Newest(reqs') = {}
      BY <1>0, <1>1, <3>1 DEF OneNewest, Newest
    <3> QED
      BY <1>1, <2>2, <3>2 DEF LoadingIsNewest
  <2> QED
    BY <2>1, <2>2
<1>6. FirstPageIsCurrent'
  BY <1>1 DEF FirstPageIsCurrent, Idle
<1> QED
  BY <1>2, <1>3, <1>4, <1>5, <1>6 DEF Inv

(* A request that settles, by its data or by an error.                     *)
LEMMA SettleKeepsInv ==
  ASSUME Inv, NEW r \in reqs, reqs' = reqs \ {r}, loading' = (loading /\ ~r.newest),
         UNCHANGED <<stored, mounted, filters, debounce>>
  PROVE  /\ Types' /\ Unmounted' /\ OneNewest' /\ OfFilters' /\ Honest' /\ LoadingIsNewest'
         /\ ~r.newest => Newest(reqs') = Newest(reqs)
<1>0. Types /\ Unmounted /\ OneNewest /\ OfFilters /\ Honest /\ LoadingIsNewest
  BY DEF Inv
<1>1. loading' \in BOOLEAN
  OBVIOUS
<1>2. Types'
  BY <1>0, <1>1 DEF Types
<1>3. Unmounted' /\ OneNewest' /\ OfFilters' /\ Honest'
  BY <1>0 DEF Unmounted, OneNewest, OfFilters, Honest, WasPage
<1>4. ~r.newest => Newest(reqs') = Newest(reqs)
  BY DEF Newest
<1>5. r.newest => Newest(reqs') = {}
  BY <1>0 DEF Newest, OneNewest
<1>6. LoadingIsNewest'
  BY <1>0, <1>4, <1>5 DEF LoadingIsNewest
<1> QED
  BY <1>2, <1>3, <1>4, <1>6

(* Every step keeps the inductive invariant.                               *)
LEMMA NextInv == Inv /\ [Next]_vars => Inv'
<1> SUFFICES ASSUME Inv, [Next]_vars PROVE Inv'
  OBVIOUS
<1> USE SearchAssumption
<1>0. /\ Types /\ Unmounted /\ OneNewest /\ OfFilters /\ Honest
      /\ LoadingIsNewest /\ FirstPageIsCurrent
  BY DEF Inv
<1>1. CASE TraceCompletes
  <2> DEFINE t == arrivals[Len(stored) + 1]
  <2>1. t \in Traces /\ stored' = <<t>> \o stored
    BY <1>0, <1>1 DEF TraceCompletes, Types
  <2> HIDE DEF t
  <2>2. UNCHANGED <<mounted, filters, results, loading, error, debounce, reqs>>
    BY <1>1 DEF TraceCompletes
  <2>3. stored' \in Seq(Traces)
    BY <1>0, <2>1 DEF Types
  <2>4. Types' /\ Unmounted' /\ OneNewest' /\ OfFilters' /\ LoadingIsNewest'
    BY <1>0, <2>2, <2>3 DEF Types, Unmounted, OneNewest, OfFilters, LoadingIsNewest
  <2>5. \A data, f : WasPage(data, f) => WasPage(data, f)'
    BY <1>0, <2>1, PagesStay DEF Types
  <2>6. Honest'
    BY <1>0, <2>2, <2>5 DEF Honest
  <2>7. FirstPageIsCurrent'
    <3>1. FirstPageIsCurrent <=> (Idle /\ ~error /\ filters.offset = 0 => WasPage(results, filters))
      BY DEF FirstPageIsCurrent, WasPage
    <3>2. Idle' /\ ~error' /\ filters'.offset = 0 => WasPage(results, filters)'
      BY <1>0, <2>2, <2>5, <3>1 DEF Idle
    <3> QED
      BY <2>2, <3>2 DEF FirstPageIsCurrent, WasPage
  <2> QED
    BY <2>4, <2>6, <2>7 DEF Inv
<1>2. CASE (\E i \in DOMAIN stored : AddLiveTrace(stored[i])) \/ UNCHANGED vars
  <2>1. UNCHANGED <<stored, mounted, filters, results, loading, error, debounce, reqs>>
    BY <1>2 DEF AddLiveTrace, vars
  <2> QED
    BY <1>0, <2>1 DEF Inv, Types, Unmounted, OneNewest, OfFilters, Honest, WasPage,
       LoadingIsNewest, FirstPageIsCurrent, Idle
<1>3. CASE DebounceFires
  <2>1. PICK old \in Surviving(reqs, MaxStale) : reqs' = old \cup {Issued(filters)}
    BY <1>3 DEF DebounceFires
  <2>2. /\ mounted /\ debounce' = FALSE /\ loading' = TRUE
        /\ UNCHANGED <<stored, mounted, filters, results>>
    BY <1>0, <1>3 DEF DebounceFires, Unmounted
  <2>3. ASSUME NEW s \in old
        PROVE  s \in RequestOf(Filters, Pages) /\ ~s.newest /\ s.phase = "body" /\ WasPage(s.data, s.arg)
    <3>1. PICK o \in reqs : o.phase = "body" /\ s = [o EXCEPT !.newest = FALSE]
      BY DEF Surviving, Superseded, AfterAbort
    <3>2. o \in RequestOf(Filters, Pages) /\ WasPage(o.data, o.arg)
      BY <1>0, <3>1 DEF Types, Honest
    <3>3. /\ s \in RequestOf(Filters, Pages) /\ s.newest = FALSE
          /\ s.phase = o.phase /\ s.data = o.data /\ s.arg = o.arg
      BY <3>1, <3>2 DEF RequestOf
    <3> QED
      BY <3>1, <3>2, <3>3
  <2>4. /\ Issued(filters) \in RequestOf(Filters, Pages) /\ Issued(filters).newest
        /\ Issued(filters).phase = "open" /\ Issued(filters).arg = filters
    BY <1>0 DEF Issued, RequestOf, Types
  <2>5. Types'
    BY <1>0, <2>1, <2>2, <2>3, <2>4 DEF Types
  <2>6. Unmounted' /\ OneNewest' /\ OfFilters'
    BY <2>1, <2>2, <2>3, <2>4 DEF Unmounted, OneNewest, OfFilters
  <2>7. Honest'
    BY <2>1, <2>2, <2>3, <2>4 DEF Honest, WasPage
  <2>8. Newest(reqs') # {}
    BY <2>1, <2>4 DEF Newest
  <2>9. LoadingIsNewest' /\ FirstPageIsCurrent'
    BY <2>2, <2>8 DEF LoadingIsNewest, FirstPageIsCurrent, Idle
  <2> QED
    BY <2>5, <2>6, <2>7, <2>9 DEF Inv
<1>4. ASSUME NEW r \in reqs, SearchAnswered(r) PROVE Inv'
  <2> DEFINE d == Page(r.arg, stored)
             s == [r EXCEPT !.phase = "body", !.data = d]
  <2>1. /\ reqs' = (reqs \ {r}) \cup {s} /\ r.phase = "open"
        /\ UNCHANGED <<stored, mounted, filters, results, loading, error, debounce>>
    BY <1>4 DEF SearchAnswered, AfterHeaders
  <2>2. r \in RequestOf(Filters, Pages) /\ r.arg \in Filters
    BY <1>0 DEF Types, RequestOf
  <2>3. d \in Pages /\ WasPage(d, r.arg)
    BY <1>0, <2>2, PageNow DEF Types
  <2> HIDE DEF d
  <2>4. s \in RequestOf(Filters, Pages) /\ s.arg = r.arg /\ s.phase = "body" /\ s.data = d
    BY <2>2, <2>3 DEF RequestOf
  <2>5. s.newest = r.newest
    BY <2>2 DEF RequestOf
  <2> HIDE DEF s
  <2>6. Types' /\ Unmounted'
    BY <1>0, <2>1, <2>4 DEF Types, Unmounted
  <2>7. OneNewest' /\ OfFilters'
    BY <1>0, <2>1, <2>4, <2>5 DEF OneNewest, OfFilters
  <2>8. Honest'
    BY <1>0, <2>1, <2>3, <2>4 DEF Honest, WasPage
  <2>9. Newest(reqs') = {} <=> Newest(reqs) = {}
    BY <2>1, <2>5 DEF Newest
  <2>10. LoadingIsNewest' /\ FirstPageIsCurrent'
    BY <1>0, <2>1, <2>9 DEF LoadingIsNewest, FirstPageIsCurrent, Idle
  <2> QED
    BY <2>6, <2>7, <2>8, <2>10 DEF Inv
<1>5. ASSUME NEW r \in reqs, SearchDelivers(r) PROVE Inv'
  <2>1. /\ reqs' = reqs \ {r} /\ loading' = (loading /\ ~r.newest)
        /\ UNCHANGED <<stored, mounted, filters, debounce>> /\ error' = error
        /\ r.phase = "body" /\ (~r.newest => results' = results)
    BY <1>5 DEF SearchDelivers, AfterSettle
  <2>2. /\ Types' /\ Unmounted' /\ OneNewest' /\ OfFilters' /\ Honest' /\ LoadingIsNewest'
        /\ ~r.newest => Newest(reqs') = Newest(reqs)
    BY <2>1, SettleKeepsInv
  <2>3. CASE ~r.newest
    BY <1>0, <2>1, <2>2, <2>3 DEF Inv, FirstPageIsCurrent, Idle
  <2>4. CASE r.newest
    <3>1. ASSUME Idle', filters'.offset = 0
          PROVE  WasPage(results', filters)
      <4>1. r.arg = filters /\ WasPage(r.data, r.arg)
        BY <1>0, <2>1, <2>4, <3>1 DEF OfFilters, Honest, Idle
      <4>2. results' = r.data
        BY <1>5, <2>1, <2>4, <3>1, <4>1 DEF SearchDelivers
      <4> QED
        BY <4>1, <4>2
    <3>2. FirstPageIsCurrent'
      BY <2>1, <3>1 DEF FirstPageIsCurrent, WasPage
    <3> QED
      BY <2>2, <3>2 DEF Inv
  <2> QED
    BY <2>3, <2>4
<1>6. ASSUME NEW r \in reqs, SearchFails(r) PROVE Inv'
  <2>1. /\ reqs' = reqs \ {r} /\ loading' = (loading /\ ~r.newest) /\ error' = TRUE
        /\ UNCHANGED <<stored, mounted, filters, debounce>>
    BY <1>6 DEF SearchFails, AfterSettle
  <2>2. Types' /\ Unmounted' /\ OneNewest' /\ OfFilters' /\ Honest' /\ LoadingIsNewest'
    BY <2>1, SettleKeepsInv
  <2> QED
    BY <2>1, <2>2 DEF Inv, FirstPageIsCurrent
<1>7. CASE UserActs
  <2>0. filters \in Filters /\ NoFilters \in Filters /\ 0 \in 0 .. MaxOffset
    BY <1>0 DEF Types, Filters, NoFilters
  <2>1. ASSUME NEW s \in Services \cup {None}, ChooseService(s) PROVE Inv'
    <3>1. [filters EXCEPT !.service = s, !.operation = None, !.offset = 0] \in Filters
      BY <2>0 DEF Filters
    <3> QED
      BY <2>1, <3>1, SetFiltersKeepsInv DEF ChooseService
  <2>2. ASSUME NEW o \in Operations \cup {None}, ChooseOperation(o) PROVE Inv'
    <3>1. [filters EXCEPT !.operation = o, !.offset = 0] \in Filters
      BY <2>0 DEF Filters
    <3> QED
      BY <2>2, <3>1, SetFiltersKeepsInv DEF ChooseOperation
  <2>3. ASSUME NEW checked \in BOOLEAN, ShowErrors(checked) PROVE Inv'
    <3> DEFINE st == IF checked THEN "error" ELSE "all"
    <3>1. st \in {None, "all", "error"}
      OBVIOUS
    <3>2. SetFilters([filters EXCEPT !.status = st, !.offset = 0])
      BY <2>3 DEF ShowErrors
    <3> HIDE DEF st
    <3>3. [filters EXCEPT !.status = st, !.offset = 0] \in Filters
      BY <2>0, <3>1 DEF Filters
    <3> QED
      BY <3>2, <3>3, SetFiltersKeepsInv
  <2>4. CASE Reset \/ Retry
    BY <2>0, <2>4, SetFiltersKeepsInv DEF Reset, Retry
  <2>5. CASE LoadMore
    <3>1. filters.offset + PageSize \in 0 .. MaxOffset
      BY <2>0, <2>5 DEF LoadMore, Filters
    <3>2. [filters EXCEPT !.offset = filters.offset + PageSize] \in Filters
      BY <2>0, <3>1 DEF Filters
    <3>3. SetFilters([filters EXCEPT !.offset = filters.offset + PageSize])
      BY <2>5 DEF LoadMore
    <3> QED
      BY <3>2, <3>3, SetFiltersKeepsInv
  <2>6. CASE Leave
    <3>1. Types' /\ reqs' = {} /\ mounted' = FALSE /\ debounce' = FALSE /\ loading' = FALSE
      BY <1>0, <2>0, <2>6 DEF Leave, Types
    <3> QED
      BY <3>1 DEF Inv, Unmounted, OneNewest, OfFilters, Honest, LoadingIsNewest,
         FirstPageIsCurrent, Idle
  <2>7. CASE Return
    <3>1. /\ mounted' = TRUE /\ debounce' = TRUE /\ reqs = {} /\ ~mounted
          /\ UNCHANGED <<stored, filters, results, loading, error, reqs>>
      BY <1>0, <2>7 DEF Return, Unmounted
    <3>2. Types'
      BY <1>0, <3>1 DEF Types
    <3> QED
      BY <1>0, <3>1, <3>2 DEF Inv, Unmounted, OneNewest, OfFilters, Honest, LoadingIsNewest,
         FirstPageIsCurrent, Idle, Newest
  <2> QED
    BY <1>7, <2>1, <2>2, <2>3, <2>4, <2>5, <2>6, <2>7 DEF UserActs
<1> QED
  BY <1>1, <1>2, <1>3, <1>4, <1>5, <1>6, <1>7 DEF Next

(* The inductive invariant holds in every reachable state.                 *)
LEMMA SpecInv == Spec => []Inv
  BY InitInv, NextInv, PTL DEF Spec

-----------------------------------------------------------------------------
(* The page says that it is loading exactly while its newest search runs.  *)
THEOREM LoadingIsTrue == Spec => []LoadingIsNewest
<1>1. Inv => LoadingIsNewest
  BY DEF Inv
<1> QED
  BY <1>1, SpecInv, PTL

(* An idle page without an error has the first page of its own filters.    *)
THEOREM ResultsAreCurrent == Spec => []FirstPageIsCurrent
<1>1. Inv => FirstPageIsCurrent
  BY DEF Inv
<1> QED
  BY <1>1, SpecInv, PTL

-----------------------------------------------------------------------------
(* The lists of the page: announced traces without a repetition, within    *)
(* the limit, and results that are a list of traces.                       *)
Lists ==
    /\ liveTraces \in Seq(Traces) /\ IsInjective(liveTraces) /\ Len(liveTraces) <= LiveLimit
    /\ results # None => results.traces \in Seq(Traces)

(* What was a page of the list at some moment holds traces that match.     *)
LEMMA WasPageProperties ==
  ASSUME stored \in Seq(Traces), NEW f \in Filters, NEW data, WasPage(data, f)
  PROVE  /\ data.traces \in Seq(Traces) /\ \A t \in Range(data.traces) : Matches(f, t)
         /\ data = [traces |-> data.traces, hasMore |-> data.hasMore]
<1>1. PICK i \in 1 .. Len(stored) + 1 : data = Page(f, SubSeq(stored, i, Len(stored)))
  BY DEF WasPage
<1> DEFINE list == SubSeq(stored, i, Len(stored))
<1>2. list \in Seq(Traces)
  BY SubSeqProperties
<1> HIDE DEF list
<1>3. data = Page(f, list)
  BY <1>1 DEF list
<1> QED
  BY <1>2, <1>3, PageProperties

(* An announced trace comes to the front and leaves its old place.         *)
LEMMA LiveTraceKeepsList ==
  ASSUME NEW t \in Traces, AddLiveTrace(t), Lists
  PROVE  liveTraces' \in Seq(Traces) /\ IsInjective(liveTraces') /\ Len(liveTraces') <= LiveLimit
<1> DEFINE I == {i \in DOMAIN liveTraces : liveTraces[i] # t}
           kept == Keep(liveTraces, I)
           list == <<t>> \o kept
<1>1. liveTraces' = Cut(list)
  BY DEF AddLiveTrace
<1>2. liveTraces \in Seq(Traces) /\ IsInjective(liveTraces)
  BY DEF Lists
<1>3. I \in SUBSET (1 .. Len(liveTraces)) /\ \A i \in I : liveTraces[i] # t
  BY <1>2
<1>4. \A i, j \in I : liveTraces[i] = liveTraces[j] => i = j
  BY <1>2 DEF IsInjective
<1> HIDE DEF I
<1>5. /\ kept \in Seq(Traces) /\ IsInjective(kept)
      /\ \A k \in DOMAIN kept : kept[k] # t
  <2>1. /\ kept \in Seq(Traces) /\ Len(kept) = Cardinality(I)
        /\ \A k \in 1 .. Cardinality(I) : \E i \in I : kept[k] = liveTraces[i]
    BY <1>2, <1>3, KeepProperties
  <2>2. IsInjective(kept)
    BY <1>2, <1>3, <1>4, KeepInjective
  <2> HIDE DEF kept
  <2> QED
    BY <1>3, <2>1, <2>2
<1> HIDE DEF kept
<1>6. /\ list \in Seq(Traces) /\ Len(list) = 1 + Len(kept)
      /\ list[1] = t /\ \A i \in 2 .. Len(list) : list[i] = kept[i - 1]
  <2>1. <<t>> \in Seq(Traces) /\ Len(<<t>>) = 1 /\ <<t>>[1] = t
    OBVIOUS
  <2>2. /\ list \in Seq(Traces) /\ Len(list) = 1 + Len(kept)
        /\ \A i \in 1 .. 1 + Len(kept) : list[i] = IF i <= 1 THEN <<t>>[i] ELSE kept[i - 1]
    BY <1>5, <2>1, ConcatProperties
  <2> HIDE DEF list
  <2> QED
    BY <1>5, <2>1, <2>2
<1> HIDE DEF list
<1>7. ASSUME NEW i \in DOMAIN list, NEW j \in DOMAIN list, list[i] = list[j]
      PROVE  i = j
  <2>0. i \in 1 .. 1 + Len(kept) /\ j \in 1 .. 1 + Len(kept) /\ Len(kept) \in Nat
    BY <1>5, <1>6
  <2>1. i # 1 => i - 1 \in DOMAIN kept /\ list[i] = kept[i - 1]
    BY <1>5, <1>6, <2>0
  <2>2. j # 1 => j - 1 \in DOMAIN kept /\ list[j] = kept[j - 1]
    BY <1>5, <1>6, <2>0
  <2>3. CASE i = 1 \/ j = 1
    BY <1>5, <1>6, <1>7, <2>1, <2>2, <2>3
  <2>4. CASE i # 1 /\ j # 1
    <3>1. i - 1 = j - 1
      BY <1>5, <1>7, <2>1, <2>2, <2>4 DEF IsInjective
    <3> QED
      BY <2>0, <3>1
  <2> QED
    BY <2>3, <2>4
<1>8. IsInjective(list)
  BY <1>7 DEF IsInjective
<1> QED
  BY <1>1, <1>6, <1>8, CutProperties

(* Every step keeps the lists.                                             *)
LEMMA NextLists == Inv /\ Lists /\ [Next]_vars => Lists'
<1> SUFFICES ASSUME Inv, Lists, [Next]_vars PROVE Lists'
  OBVIOUS
<1>0. Types /\ Honest
  BY DEF Inv
<1>1. CASE UNCHANGED <<liveTraces, results>>
  BY <1>1 DEF Lists
<1>2. ASSUME NEW i \in DOMAIN stored, AddLiveTrace(stored[i]) PROVE Lists'
  <2>1. stored[i] \in Traces /\ results' = results
    BY <1>0, <1>2 DEF Types, AddLiveTrace
  <2> QED
    BY <1>2, <2>1, LiveTraceKeepsList DEF Lists
<1>3. ASSUME NEW r \in reqs, SearchDelivers(r) PROVE Lists'
  <2>1. liveTraces' = liveTraces
    BY <1>3 DEF SearchDelivers
  <2>2. r.arg \in Filters /\ WasPage(r.data, r.arg)
    BY <1>0, <1>3 DEF Types, Honest, RequestOf, SearchDelivers
  <2>3. /\ r.data.traces \in Seq(Traces)
        /\ r.data = [traces |-> r.data.traces, hasMore |-> r.data.hasMore]
    BY <1>0, <2>2, WasPageProperties DEF Types
  <2>4. CASE results' = results \/ results' = r.data
    BY <2>1, <2>3, <2>4 DEF Lists
  <2>5. CASE /\ results # None
             /\ results' = [r.data EXCEPT !.traces = MergeTracePages(results.traces, @)]
    <3> DEFINE merged == MergeTracePages(results.traces, r.data.traces)
    <3>1. merged \in Seq(Traces)
      BY <2>3, <2>5, MergePagesAppends DEF Lists
    <3>2. results' = [r.data EXCEPT !.traces = merged]
      BY <2>5
    <3> HIDE DEF merged
    <3>3. results'.traces = merged
      BY <2>3, <3>2
    <3> QED
      BY <2>1, <3>1, <3>3 DEF Lists
  <2> QED
    BY <1>3, <2>4, <2>5 DEF SearchDelivers
<1>4. ASSUME NEW f, SetFilters(f) PROVE UNCHANGED <<liveTraces, results>>
  BY <1>4 DEF SetFilters
<1>5. CASE UserActs
  <2>1. CASE Leave
    BY <2>1 DEF Leave, Lists
  <2>2. CASE Return
    BY <1>1, <2>2 DEF Return
  <2> QED
    BY <1>1, <1>4, <1>5, <2>1, <2>2 DEF UserActs, ChooseService, ChooseOperation, ShowErrors,
       Reset, Retry, LoadMore
<1>6. CASE TraceCompletes \/ DebounceFires \/ (\E r \in reqs : SearchAnswered(r) \/ SearchFails(r))
           \/ UNCHANGED vars
  BY <1>1, <1>6 DEF TraceCompletes, DebounceFires, SearchAnswered, SearchFails, vars
<1> QED
  BY <1>2, <1>3, <1>5, <1>6 DEF Next

(* The lists hold in every reachable state.                                *)
LEMMA SpecLists == Spec => []Lists
<1>1. Init => Lists
  <2> SUFFICES ASSUME Init PROVE Lists
    OBVIOUS
  <2>1. liveTraces = <<>> /\ results = None
    BY DEF Init
  <2>2. liveTraces \in Seq(Traces) /\ Len(liveTraces) = 0 /\ DOMAIN liveTraces = {}
    BY <2>1
  <2> QED
    BY <2>1, <2>2, SearchAssumption DEF Lists, IsInjective
<1> QED
  BY <1>1, SpecInv, NextLists, PTL DEF Spec

(* No trace has two cards, no list outgrows its limit, and on an idle      *)
(* first page every card matches the filters: the results because they are *)
(* a page of these filters, the announced traces because they are shown    *)
(* only when no filter is active.                                          *)
THEOREM CardsStayRight == Spec => []CardsAreRight
<1>1. ASSUME Inv, Lists PROVE CardsAreRight
  <2> DEFINE live == IF ~HasActiveFilters /\ filters.offset = 0 THEN liveTraces ELSE <<>>
             found == IF results = None THEN <<>> ELSE results.traces
             merged == MergeUniqueTraces(live, found)
  <2>0. stored \in Seq(Traces) /\ filters \in Filters /\ FirstPageIsCurrent
    BY <1>1 DEF Inv, Types
  <2>1. Visible = Cut(merged)
    BY DEF Visible
  <2>2. live \in Seq(Traces) /\ found \in Seq(Traces)
    BY <1>1 DEF Lists
  <2>3. HasActiveFilters \/ filters.offset # 0 => Range(live) = {}
    BY DEF Range
  <2>4. results = None => Range(found) = {}
    BY DEF Range
  <2>5. results # None => found = results.traces
    OBVIOUS
  <2> HIDE DEF live, found
  <2>6. /\ merged \in Seq(Traces) /\ IsInjective(merged)
        /\ Range(merged) \subseteq Range(live) \cup Range(found)
    BY <2>2, MergeUniqueIsUnion
  <2> HIDE DEF merged
  <2>7. /\ IsInjective(Visible) /\ Len(Visible) <= LiveLimit
        /\ Range(Visible) \subseteq Range(live) \cup Range(found)
    BY <2>1, <2>6, CutProperties
  <2>8. ASSUME Idle, ~error, filters.offset = 0, NEW t \in Range(Visible)
        PROVE  Matches(filters, t)
    <3>1. CASE t \in Range(live)
      BY <2>3, <3>1, SearchAssumption DEF HasActiveFilters, Matches
    <3>2. CASE t \in Range(found)
      <4>1. WasPage(results, filters)
        BY <2>0, <2>8 DEF FirstPageIsCurrent, WasPage
      <4> QED
        BY <2>0, <2>4, <2>5, <3>2, <4>1, WasPageProperties
    <3> QED
      BY <2>7, <2>8, <3>1, <3>2
  <2> QED
    BY <1>1, <2>7, <2>8 DEF CardsAreRight, Lists
<1> QED
  BY <1>1, SpecInv, SpecLists, PTL

(* An answer asked for with an offset leaves every loaded trace in its     *)
(* place, and the newest one adds all of its page.                         *)
LoadMoreAdds ==
    \A r \in reqs : SearchDelivers(r) /\ r.arg.offset > 0 /\ results # None =>
        /\ \A i \in DOMAIN results.traces : results'.traces[i] = results.traces[i]
        /\ r.newest => Range(r.data.traces) \subseteq Range(results'.traces)

(* However the collector's list has shifted between two pages, Load more   *)
(* loses no loaded trace and none of the page it asked for: setResults of  *)
(* useSearch.ts appends what is new.                                       *)
THEOREM LoadMoreLosesNothing == Spec => [][LoadMoreAdds]_vars
<1>1. ASSUME Inv, Lists PROVE LoadMoreAdds
  <2> SUFFICES ASSUME NEW r \in reqs, SearchDelivers(r), r.arg.offset > 0, results # None
               PROVE  /\ \A i \in DOMAIN results.traces : results'.traces[i] = results.traces[i]
                      /\ r.newest => Range(r.data.traces) \subseteq Range(results'.traces)
    BY DEF LoadMoreAdds
  <2>1. CASE ~r.newest
    BY <2>1 DEF SearchDelivers
  <2>2. CASE r.newest
    <3> DEFINE merged == MergeTracePages(results.traces, r.data.traces)
    <3>1. r.arg \in Filters /\ r.arg.offset \in Nat /\ stored \in Seq(Traces) /\ WasPage(r.data, r.arg)
      BY <1>1, SearchAssumption DEF Inv, Types, Honest, RequestOf, Filters, SearchDelivers
    <3>2. /\ r.data.traces \in Seq(Traces)
          /\ r.data = [traces |-> r.data.traces, hasMore |-> r.data.hasMore]
      BY <3>1, WasPageProperties
    <3>3. results' = [r.data EXCEPT !.traces = merged]
      BY <2>2, <3>1 DEF SearchDelivers
    <3>4. /\ \A i \in DOMAIN results.traces : merged[i] = results.traces[i]
          /\ Range(merged) = Range(results.traces) \cup Range(r.data.traces)
      BY <1>1, <3>2, MergePagesAppends DEF Lists
    <3> HIDE DEF merged
    <3>5. results'.traces = merged
      BY <3>2, <3>3
    <3> QED
      BY <3>4, <3>5
  <2> QED
    BY <2>1, <2>2
<1> QED
  BY <1>1, SpecInv, SpecLists, PTL

=============================================================================
