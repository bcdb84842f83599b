------------------------ MODULE MessageListing_proofs ------------------------
(***************************************************************************)
(* Proofs about MessageListing, for any limiter and mailbox.               *)
(***************************************************************************)
EXTENDS MessageListing, FiniteSetTheorems, SequenceTheorems, WellFoundedInduction, TLAPS

Matching == IF query.unread_only THEN unread ELSE box

\* The deque is what is left of the accepted requests after the oldest ones,
\* all of them out of the window, have gone.
LeftOf(ages, all) ==
    /\ Len(ages) <= Len(all)
    /\ \A i \in 1..Len(ages) : ages[i] = all[Len(all) - Len(ages) + i]
    /\ \A i \in 1..(Len(all) - Len(ages)) : all[i] >= Window

OldestFirst(ages) == \A i, j \in DOMAIN ages : i < j => ages[i] >= ages[j]

LimiterInv ==
    /\ OldestFirst(accepted)
    /\ LeftOf(events, accepted)
    /\ InWindow <= RateLimit
    /\ pc = "stamping" => InWindow < RateLimit

\* Pages come in descending order and below the cursor, which is at or below
\* everything listed.
OrderInv ==
    /\ Descending(listed)
    /\ pc # "done" /\ cursor = 0 => listed = <<>>
    /\ pc # "done" /\ cursor # 0 => \A uid \in ToSet(listed) : uid >= cursor
    /\ pc = "fetching" =>
        /\ Descending(page) /\ Descending(found)
        /\ \A p \in ToSet(page), f \in ToSet(found) : p > f
        /\ \A uid \in ToSet(page) \cup ToSet(found) : cursor = 0 \/ uid < cursor

\* What has matched all along is listed, on the page, or still below it.
BelowPage(uid) ==
    /\ Len(page) + Len(found) = query.limit
    /\ \A fetched \in ToSet(page) \cup ToSet(found) : uid < fetched

CompleteInv ==
    query.limit > 0 /\ ~lost =>
        /\ pc = "done" => through \subseteq ToSet(listed)
        /\ pc # "done" /\ cursor # 0 =>
            \A uid \in through : uid < cursor \/ uid \in ToSet(listed)
        /\ pc = "fetching" =>
            \A uid \in through :
                \/ uid \in ToSet(listed) \cup ToSet(page) \cup ToSet(found)
                \/ BelowPage(uid)

ListingInv ==
    /\ through \subseteq Matching
    /\ OrderInv
    /\ CompleteInv

-----------------------------------------------------------------------------
(* Sorted pages.  The library's induction theorems take an operator, which *)
(* the provers cannot instantiate; the least element of a set of numbers   *)
(* does as well, with the counterexamples for the set.                     *)

Smaller == {pair \in Nat \X Nat : pair[1] < pair[2]}

LEMMA LeastNatural ==
    ASSUME NEW S \in SUBSET Nat, S # {}
    PROVE  \E x \in S : \A y \in S : x <= y
<1>1. IsWellFoundedOn(Smaller, Nat)
    BY NatLessThanWellFounded DEF OpToRel, Smaller
<1>2. PICK x \in S : \A y \in S : ~ (<<y, x>> \in Smaller)
    BY <1>1, WFMin
<1>3. ASSUME NEW y \in S PROVE x <= y
    <2>1. ~ (<<y, x>> \in Smaller)
        BY <1>2
    <2>2. x \in Nat /\ y \in Nat
        OBVIOUS
    <2>3. ~ (y < x)
        BY <2>1, <2>2 DEF Smaller
    <2>. QED
        BY <2>2, <2>3
<1>. QED
    BY <1>3

LEMMA MinOfNaturals ==
    ASSUME NEW S \in SUBSET Nat, S # {}
    PROVE  Min(S) \in S /\ \A y \in S : Min(S) <= y
BY LeastNatural DEF Min

LEMMA GreatestUid ==
    ASSUME NEW n \in Nat, NEW S \in SUBSET (1..n), S # {}
    PROVE  \E x \in S : \A y \in S : y <= x
<1> DEFINE T == {n - y : y \in S}
<1>1. T \in SUBSET Nat
    <2> SUFFICES ASSUME NEW y \in S PROVE n - y \in Nat
        OBVIOUS
    <2>1. y \in 1..n
        OBVIOUS
    <2>. QED
        BY <2>1
<1>2. T # {}
    <2>1. PICK y \in S : TRUE
        OBVIOUS
    <2>2. n - y \in T
        OBVIOUS
    <2>. QED
        BY <2>2
<1>3. \A y \in S : n - y \in T
    OBVIOUS
<1>4. \A t \in T : \E y \in S : t = n - y
    OBVIOUS
<1> HIDE DEF T
<1>5. PICK t \in T : \A u \in T : t <= u
    BY <1>1, <1>2, LeastNatural
<1>6. PICK x \in S : t = n - x
    BY <1>4
<1>7. ASSUME NEW y \in S PROVE y <= x
    <2>1. t <= n - y
        BY <1>3, <1>5
    <2>2. x \in 1..n /\ y \in 1..n
        OBVIOUS
    <2>. QED
        BY <1>6, <2>1, <2>2
<1>. QED
    BY <1>7

LEMMA FiniteUids ==
    ASSUME NEW n \in Nat, NEW S \in SUBSET (1..n)
    PROVE  IsFiniteSet(S) /\ Cardinality(S) \in Nat
<1>1. IsFiniteSet(1..n)
    BY FS_Interval
<1>2. IsFiniteSet(S)
    BY <1>1, FS_Subset
<1>. QED
    BY <1>2, FS_CardinalityType

\* A set of one more UID is listed newest first by its newest, then the rest.
LEMMA SortOneMore ==
    ASSUME NEW k \in Nat, NEW S \in SUBSET Nat, NEW x \in S,
           \A y \in S : y <= x,
           NEW rest \in [1..k -> S \ {x}], Descending(rest)
    PROVE  \E s \in [1..k + 1 -> S] : Descending(s)
<1> DEFINE s == [i \in 1..k + 1 |-> IF i = 1 THEN x ELSE rest[i - 1]]
<1>1. \A i \in 1..k + 1 : i # 1 => i - 1 \in 1..k
    OBVIOUS
<1>2. \A i \in 1..k + 1 : i # 1 => s[i] = rest[i - 1] /\ rest[i - 1] \in S \ {x}
    BY <1>1
<1>3. s[1] = x
    OBVIOUS
<1>4. s \in [1..k + 1 -> S]
    BY <1>2
<1> HIDE DEF s
<1>5. ASSUME NEW i \in 1..k + 1, NEW j \in 1..k + 1, i < j PROVE s[i] > s[j]
    <2>1. j # 1
        BY <1>5
    <2>2. s[j] = rest[j - 1] /\ rest[j - 1] \in Nat /\ rest[j - 1] # x /\ rest[j - 1] <= x
        BY <1>2, <2>1
    <2>3. CASE i = 1
        BY <1>3, <2>2, <2>3, x \in Nat
    <2>4. CASE i # 1
        <3>1. i - 1 \in 1..k /\ j - 1 \in 1..k /\ i - 1 < j - 1
            BY <1>1, <1>5, <2>1, <2>4
        <3>2. rest[i - 1] > rest[j - 1]
            BY <3>1 DEF Descending
        <3>. QED
            BY <1>2, <2>2, <2>4, <3>2
    <2>. QED
        BY <2>3, <2>4
<1>6. Descending(s)
    BY <1>4, <1>5 DEF Descending
<1>. QED
    BY <1>4, <1>6

Sortable(S) == \E s \in [1..Cardinality(S) -> S] : Descending(s)

LEMMA EverySetOfUidsIsSortable ==
    ASSUME NEW n \in Nat
    PROVE  \A S \in SUBSET (1..n) : Sortable(S)
<1> DEFINE Unsortable == {S \in SUBSET (1..n) : ~ Sortable(S)}
<1> DEFINE Sizes == {k \in Nat : \E S \in Unsortable : Cardinality(S) = k}
<1>1. \A S \in SUBSET (1..n) : IsFiniteSet(S) /\ Cardinality(S) \in Nat
    BY FiniteUids
<1>2. SUFFICES ASSUME Sizes # {} PROVE FALSE
    <2>1. \A S \in Unsortable : Cardinality(S) \in Sizes
        BY <1>1
    <2>. QED
        BY <1>2, <2>1
<1>3. Sizes \in SUBSET Nat
    OBVIOUS
<1> HIDE DEF Sizes
<1>4. PICK k \in Sizes : \A m \in Sizes : k <= m
    BY <1>2, <1>3, LeastNatural
<1>5. PICK S \in SUBSET (1..n) : ~ Sortable(S) /\ Cardinality(S) = k
    BY DEF Sizes
<1>6. k \in Nat /\ IsFiniteSet(S) /\ S \in SUBSET Nat
    BY <1>1, <1>5
<1>7. CASE S = {}
    <2>1. k = 0
        BY <1>5, <1>7, FS_EmptySet
    <2> DEFINE none == [i \in 1..0 |-> 0]
    <2>2. none \in [1..0 -> S] /\ Descending(none)
        BY DEF Descending
    <2>. QED
        BY <1>5, <2>1, <2>2 DEF Sortable
<1>8. CASE S # {}
    <2>1. PICK x \in S : \A y \in S : y <= x
        BY <1>8, GreatestUid
    <2>2. Cardinality(S \ {x}) = k - 1 /\ k - 1 \in Nat
        <3>1. Cardinality(S \ {x}) = k - 1
            BY <1>5, <1>6, FS_RemoveElement
        <3>2. S \ {x} \in SUBSET (1..n)
            OBVIOUS
        <3>3. Cardinality(S \ {x}) \in Nat
            BY <1>1, <3>2
        <3>. QED
            BY <3>1, <3>3
    <2>3. ~ (k - 1 \in Sizes)
        BY <1>3, <1>4, <1>6, <2>2
    <2>4. Sortable(S \ {x})
        BY <2>2, <2>3 DEF Sizes
    <2>5. PICK rest \in [1..k - 1 -> S \ {x}] : Descending(rest)
        BY <2>2, <2>4 DEF Sortable
    <2>6. \E s \in [1..(k - 1) + 1 -> S] : Descending(s)
        BY <1>6, <2>1, <2>2, <2>5, SortOneMore
    <2>. QED
        BY <1>5, <1>6, <2>6 DEF Sortable
<1>. QED
    BY <1>7, <1>8

\* NewestFirst lists a set of UIDs completely, in descending order.
LEMMA NewestFirstSorts ==
    ASSUME NEW n \in Nat, NEW S \in SUBSET (1..n)
    PROVE  /\ NewestFirst(S) \in [1..Cardinality(S) -> S]
           /\ Cardinality(S) \in Nat
           /\ Descending(NewestFirst(S))
           /\ \A u \in S : \E i \in 1..Cardinality(S) : NewestFirst(S)[i] = u
<1> DEFINE s == NewestFirst(S)
<1>1. IsFiniteSet(S) /\ Cardinality(S) \in Nat
    BY FiniteUids
<1>2. s \in [1..Cardinality(S) -> S] /\ Descending(s)
    BY EverySetOfUidsIsSortable DEF Sortable, NewestFirst
<1> HIDE DEF s
<1>3. IsInjective(s)
    <2> SUFFICES ASSUME NEW i \in 1..Cardinality(S), NEW j \in 1..Cardinality(S),
                        s[i] = s[j], i < j
                 PROVE  FALSE
        BY <1>1, <1>2 DEF IsInjective
    <2>1. s[i] > s[j] /\ s[i] \in 1..n /\ s[j] \in 1..n
        BY <1>2 DEF Descending
    <2>. QED
        BY <2>1
<1>4. IsFiniteSet(1..Cardinality(S)) /\ Cardinality(1..Cardinality(S)) = Cardinality(S)
    BY <1>1, FS_Interval
<1>5. s \in Injection(1..Cardinality(S), S)
    BY <1>2, <1>3 DEF Injection
<1>6. s \in Surjection(1..Cardinality(S), S)
    BY <1>1, <1>4, <1>5, FS_Injection
<1>. QED
    BY <1>1, <1>2, <1>6 DEF Surjection, s

LEMMA SliceTakesFirst ==
    ASSUME NEW S, NEW s \in Seq(S), NEW limit \in Int
    PROVE  /\ Slice(s, limit) \in Seq(S)
           /\ Len(Slice(s, limit)) <= Len(s)
           /\ \A i \in 1..Len(Slice(s, limit)) : Slice(s, limit)[i] = s[i]
           /\ limit > 0 => Len(Slice(s, limit)) = limit \/ Slice(s, limit) = s
<1> DEFINE last == IF limit < 0 THEN Len(s) + limit ELSE Min({limit, Len(s)})
<1>1. limit >= 0 => Min({limit, Len(s)}) = IF limit <= Len(s) THEN limit ELSE Len(s)
    <2> SUFFICES ASSUME limit >= 0
                 PROVE  Min({limit, Len(s)}) = IF limit <= Len(s) THEN limit ELSE Len(s)
        OBVIOUS
    <2>1. Min({limit, Len(s)}) \in {limit, Len(s)}
          /\ \A y \in {limit, Len(s)} : Min({limit, Len(s)}) <= y
        BY MinOfNaturals
    <2>. QED
        BY <2>1
<1>2. last \in Int /\ last <= Len(s)
    BY <1>1
<1>3. Slice(s, limit) = SubSeq(s, 1, last)
    BY DEF Slice
<1>4. limit > 0 => last = IF limit <= Len(s) THEN limit ELSE Len(s)
    BY <1>1
<1> HIDE DEF last
<1>5. CASE last < 1
    <2>1. Slice(s, limit) = <<>>
        BY <1>2, <1>3, <1>5, SubSeqEmpty
    <2>2. limit > 0 => s = <<>>
        BY <1>4, <1>5, EmptySeq
    <2>. QED
        BY <2>1, <2>2
<1>6. CASE last >= 1
    <2>1. /\ SubSeq(s, 1, last) \in Seq(S)
          /\ Len(SubSeq(s, 1, last)) = last
          /\ \A i \in 1..last : SubSeq(s, 1, last)[i] = s[i]
        BY <1>2, <1>6
    <2>2. last = Len(s) => SubSeq(s, 1, last) = s
        BY <2>1
    <2>. QED
        BY <1>2, <1>3, <1>4, <2>1, <2>2
<1>. QED
    BY <1>2, <1>5, <1>6

\* A search finds matching UIDs in descending order, and what it leaves out is
\* below everything on a full page.
LEMMA SearchFindsNewest ==
    ASSUME NEW n \in Nat, NEW S \in SUBSET (1..n), NEW limit \in Int
    PROVE  LET f == Slice(NewestFirst(S), limit)
           IN  /\ f \in Seq(S)
               /\ Descending(f)
               /\ limit > 0 => \A u \in S :
                    \/ u \in ToSet(f)
                    \/ Len(f) = limit /\ \A g \in ToSet(f) : u < g
<1> DEFINE s == NewestFirst(S)
<1> DEFINE f == Slice(s, limit)
<1>1. /\ s \in [1..Cardinality(S) -> S]
      /\ Cardinality(S) \in Nat
      /\ Descending(s)
      /\ \A u \in S : \E i \in 1..Cardinality(S) : s[i] = u
    BY NewestFirstSorts
<1>2. s \in Seq(S) /\ Len(s) = Cardinality(S)
    BY <1>1
<1>6. f = Slice(s, limit)
    OBVIOUS
<1> HIDE DEF s, f
<1>3. /\ f \in Seq(S)
      /\ Len(f) <= Len(s)
      /\ \A i \in 1..Len(f) : f[i] = s[i]
      /\ limit > 0 => Len(f) = limit \/ f = s
    BY <1>2, <1>6, SliceTakesFirst
<1>4. Descending(f)
    BY <1>1, <1>2, <1>3 DEF Descending
<1>5. ASSUME limit > 0, NEW u \in S
      PROVE  \/ u \in ToSet(f)
             \/ Len(f) = limit /\ \A g \in ToSet(f) : u < g
    <2>1. PICK i \in 1..Len(s) : s[i] = u
        BY <1>1, <1>2
    <2>2. CASE i <= Len(f)
        <3>1. i \in DOMAIN f /\ f[i] = u
            BY <1>3, <2>1, <2>2
        <3>2. f[i] \in ToSet(f)
            BY <3>1 DEF ToSet
        <3>. QED
            BY <3>1, <3>2
    <2>3. CASE i > Len(f)
        <3>1. f # s
            BY <2>3
        <3>2. ASSUME NEW g \in ToSet(f) PROVE u < g
            <4>1. PICK j \in 1..Len(f) : f[j] = g
                BY <1>3 DEF ToSet
            <4>2. j \in DOMAIN s /\ i \in DOMAIN s /\ j < i /\ s[j] = g
                BY <1>2, <1>3, <2>3, <4>1
            <4>3. s[j] > s[i]
                BY <1>1, <4>2 DEF Descending
            <4>4. s[j] \in 1..n /\ s[i] \in 1..n
                <5>1. s[j] \in S /\ s[i] \in S
                    BY <1>2, <4>1, <4>2, <2>1
                <5>. QED
                    BY <5>1
            <4>. QED
                BY <2>1, <4>2, <4>3, <4>4
        <3>. QED
            BY <1>3, <1>5, <3>1, <3>2
    <2>. QED
        BY <1>3, <2>2, <2>3
<1>. QED
    BY <1>3, <1>4, <1>5 DEF f, s

-----------------------------------------------------------------------------
(* The limiter's deque.                                                    *)

Ages == Seq(0..Window)

LEMMA AgesAreSequences ==
    ASSUME NEW q \in Ages
    PROVE  /\ Len(q) \in Nat /\ DOMAIN q = 1..Len(q)
           /\ \A i \in 1..Len(q) : q[i] \in 0..Window
<1> DEFINE S == 0..Window
<1>1. q \in Seq(S)
    BY DEF Ages
<1> HIDE DEF S
<1>2. /\ Len(q) \in Nat /\ DOMAIN q = 1..Len(q)
      /\ \A i \in 1..Len(q) : q[i] \in S
    BY <1>1, ElementOfSeq, LenProperties
<1>. QED
    BY <1>2 DEF S

LEMMA LiveIsFinite ==
    ASSUME NEW ages \in Ages
    PROVE  IsFiniteSet(Live(ages)) /\ Cardinality(Live(ages)) \in Nat
<1>1. Live(ages) \in SUBSET (1..Len(ages)) /\ Len(ages) \in Nat
    BY DEF Live, Ages
<1>. QED
    BY <1>1, FiniteUids

\* Pruning leaves as many events as there are accepted requests in the window.
LEMMA PruneLeavesLive ==
    ASSUME NEW ages \in Ages, NEW all \in Ages, LeftOf(ages, all), OldestFirst(all)
    PROVE  /\ Prune(ages) \in Ages
           /\ LeftOf(Prune(ages), all)
           /\ Len(Prune(ages)) = Cardinality(Live(all))
<1>1. Window \in Nat
    BY ListingAssumption
<1> DEFINE gone == Len(all) - Len(ages)
<1>2. /\ gone \in Nat /\ Len(ages) \in Nat /\ Len(all) = gone + Len(ages)
      /\ \A i \in 1..Len(ages) : ages[i] = all[gone + i]
      /\ \A i \in 1..gone : all[i] >= Window
      /\ DOMAIN ages = 1..Len(ages) /\ DOMAIN all = 1..Len(all)
      /\ \A i \in 1..Len(ages) : ages[i] \in 0..Window
      /\ \A i \in 1..Len(all) : all[i] \in 0..Window
    <2>1. Len(ages) \in Nat /\ Len(all) \in Nat /\ Len(ages) <= Len(all)
        BY DEF LeftOf, Ages
    <2>2. /\ DOMAIN ages = 1..Len(ages) /\ DOMAIN all = 1..Len(all)
          /\ \A i \in 1..Len(ages) : ages[i] \in 0..Window
          /\ \A i \in 1..Len(all) : all[i] \in 0..Window
        BY AgesAreSequences
    <2>. QED
        BY <2>1, <2>2 DEF LeftOf
<1> HIDE DEF gone
<1>3. CASE Live(ages) = {}
    <2>1. \A i \in 1..Len(ages) : ages[i] >= Window
        BY <1>1, <1>2, <1>3 DEF Live
    <2>2. ASSUME NEW i \in 1..Len(all) PROVE all[i] >= Window
        <3>1. CASE i <= gone
            BY <1>2, <3>1
        <3>2. CASE i > gone
            <4>1. i - gone \in 1..Len(ages) /\ gone + (i - gone) = i
                BY <1>2, <3>2
            <4>. QED
                BY <1>2, <2>1, <4>1
        <3>. QED
            BY <1>2, <3>1, <3>2
    <2>3. Live(all) = {}
        BY <1>1, <1>2, <2>2 DEF Live
    <2>4. Cardinality(Live(all)) = 0
        BY <2>3, FS_EmptySet
    <2>5. Prune(ages) = <<>>
        BY <1>3 DEF Prune
    <2>6. LeftOf(<<>>, all)
        BY <1>2, <2>2 DEF LeftOf
    <2>. QED
        BY <2>4, <2>5, <2>6 DEF Ages
<1>4. CASE Live(ages) # {}
    <2> DEFINE first == Min(Live(ages))
    <2>1. /\ first \in 1..Len(ages) /\ ages[first] < Window
          /\ \A i \in 1..Len(ages) : ages[i] < Window => first <= i
        <3>1. Live(ages) \in SUBSET Nat
            BY <1>2 DEF Live
        <3>2. first \in Live(ages) /\ \A i \in Live(ages) : first <= i
            BY <1>4, <3>1, MinOfNaturals
        <3>. QED
            BY <1>2, <3>2 DEF Live
    <2>2. Prune(ages) = SubSeq(ages, first, Len(ages))
        BY <1>4 DEF Prune
    <2> HIDE DEF first
    <2> DEFINE kept == SubSeq(ages, first, Len(ages))
    <2>3. /\ kept \in Ages /\ Len(kept) = Len(ages) - first + 1
          /\ \A i \in 1..Len(kept) : kept[i] = ages[first + i - 1]
        BY <1>2, <2>1 DEF Ages
    <2> HIDE DEF kept
    <2>4. ASSUME NEW i \in 1..Len(all) PROVE all[i] < Window <=> gone + first <= i
        <3>1. CASE i <= gone
            BY <1>1, <1>2, <2>1, <3>1
        <3>2. CASE i > gone /\ i < gone + first
            <4>1. i - gone \in 1..Len(ages) /\ gone + (i - gone) = i /\ i - gone < first
                BY <1>2, <2>1, <3>2
            <4>2. ~ (ages[i - gone] < Window)
                BY <1>2, <2>1, <4>1
            <4>. QED
                BY <1>2, <2>1, <3>2, <4>1, <4>2
        <3>3. CASE i >= gone + first
            <4>1. gone + first \in DOMAIN all /\ all[gone + first] = ages[first]
                BY <1>2, <2>1
            <4>2. CASE gone + first = i
                BY <2>1, <3>3, <4>1, <4>2
            <4>3. CASE gone + first < i
                <5>1. all[gone + first] >= all[i]
                    BY <1>2, <4>1, <4>3 DEF OldestFirst
                <5>2. all[i] \in 0..Window /\ all[gone + first] < Window
                    BY <1>2, <2>1, <4>1
                <5>3. all[gone + first] \in 0..Window
                    BY <1>2, <4>1
                <5>. QED
                    BY <1>1, <3>3, <5>1, <5>2, <5>3
            <4>. QED
                BY <1>2, <2>1, <3>3, <4>2, <4>3
        <3>. QED
            BY <1>2, <2>1, <3>1, <3>2, <3>3
    <2>5. Live(all) = (gone + first)..Len(all)
        BY <1>2, <2>1, <2>4 DEF Live
    <2>6. Cardinality(Live(all)) = Len(kept)
        BY <1>2, <2>1, <2>3, <2>5, FS_Interval
    <2>7. LeftOf(kept, all)
        <3>1. Len(all) - Len(kept) = gone + first - 1
            BY <1>2, <2>1, <2>3
        <3>2. ASSUME NEW i \in 1..Len(kept) PROVE kept[i] = all[Len(all) - Len(kept) + i]
            <4>1. first + i - 1 \in 1..Len(ages)
                BY <1>2, <2>1, <2>3
            <4>2. gone + (first + i - 1) = Len(all) - Len(kept) + i
                BY <1>2, <2>1, <2>3, <3>1
            <4>. QED
                BY <1>2, <2>3, <4>1, <4>2
        <3>3. ASSUME NEW i \in 1..(Len(all) - Len(kept)) PROVE all[i] >= Window
            BY <1>1, <1>2, <2>1, <2>3, <2>4, <3>1
        <3>4. Len(kept) <= Len(all)
            BY <1>2, <2>1, <2>3
        <3>. QED
            BY <3>2, <3>3, <3>4 DEF LeftOf
    <2>. QED
        BY <2>2, <2>3, <2>6, <2>7 DEF kept
<1>. QED
    BY <1>3, <1>4

\* A new request has age 0 and is in the window.
LEMMA AppendAccepted ==
    ASSUME NEW ages \in Ages, NEW all \in Ages, LeftOf(ages, all), OldestFirst(all)
    PROVE  /\ Append(ages, 0) \in Ages /\ Append(all, 0) \in Ages
           /\ LeftOf(Append(ages, 0), Append(all, 0))
           /\ OldestFirst(Append(all, 0))
           /\ Cardinality(Live(Append(all, 0))) = Cardinality(Live(all)) + 1
<1>1. Window \in Nat \ {0}
    BY ListingAssumption
<1>2. Append(ages, 0) \in Ages /\ Append(all, 0) \in Ages
    BY <1>1 DEF Ages
<1> DEFINE Grown(q) == Append(q, 0)
<1>7. \A q \in Ages :
        /\ Grown(q) \in Ages /\ Len(Grown(q)) = Len(q) + 1
        /\ DOMAIN Grown(q) = 1..Len(q) + 1 /\ DOMAIN q = 1..Len(q) /\ Len(q) \in Nat
        /\ \A i \in 1..Len(q) : q[i] \in 0..Window /\ Grown(q)[i] = q[i]
        /\ Grown(q)[Len(q) + 1] = 0
    <2>1. \A q \in Ages : Grown(q) \in Ages
        BY <1>1 DEF Ages
    <2>2. \A q \in Ages : /\ Len(Grown(q)) = Len(q) + 1
                          /\ DOMAIN Grown(q) = 1..Len(q) + 1
                          /\ \A i \in 1..Len(q) : Grown(q)[i] = q[i]
                          /\ Grown(q)[Len(q) + 1] = 0
        BY AppendProperties DEF Ages
    <2>. QED
        BY <2>1, <2>2, AgesAreSequences
<1>3. LeftOf(Append(ages, 0), Append(all, 0))
    <2> HIDE DEF Grown
    <2>1. Len(Grown(ages)) <= Len(Grown(all))
        BY <1>7 DEF LeftOf
    <2>2. ASSUME NEW i \in 1..Len(Grown(ages))
          PROVE  Grown(ages)[i] = Grown(all)[Len(Grown(all)) - Len(Grown(ages)) + i]
        <3>1. Len(ages) <= Len(all) /\ Len(ages) \in Nat /\ Len(all) \in Nat
            BY <1>7 DEF LeftOf
        <3>2. Len(Grown(all)) - Len(Grown(ages)) = Len(all) - Len(ages)
            <4>1. Len(Grown(all)) = Len(all) + 1 /\ Len(Grown(ages)) = Len(ages) + 1
                BY <1>7
            <4>. QED
                BY <3>1, <4>1
        <3>3. CASE i = Len(ages) + 1
            <4>1. Len(all) - Len(ages) + i = Len(all) + 1
                BY <3>1, <3>3
            <4>2. Grown(ages)[i] = 0 /\ Grown(all)[Len(all) + 1] = 0
                BY <1>7, <3>3
            <4>. QED
                BY <3>2, <4>1, <4>2
        <3>4. CASE i # Len(ages) + 1
            <4>1. i \in 1..Len(ages)
                BY <1>7, <3>1, <3>4
            <4>2. Len(all) - Len(ages) + i \in 1..Len(all)
                BY <3>1, <4>1
            <4>3. ages[i] = all[Len(all) - Len(ages) + i]
                BY <4>1 DEF LeftOf
            <4>. QED
                BY <1>7, <3>2, <4>1, <4>2, <4>3
        <3>. QED
            BY <3>3, <3>4
    <2>3. ASSUME NEW i \in 1..(Len(Grown(all)) - Len(Grown(ages)))
          PROVE  Grown(all)[i] >= Window
        <3>1. i \in 1..(Len(all) - Len(ages)) /\ i \in 1..Len(all)
            BY <1>7 DEF LeftOf
        <3>2. all[i] >= Window
            BY <3>1 DEF LeftOf
        <3>. QED
            BY <1>7, <3>1, <3>2
    <2>4. LeftOf(Grown(ages), Grown(all))
        BY <2>1, <2>2, <2>3 DEF LeftOf
    <2>. QED
        BY <2>4 DEF Grown
<1>4. OldestFirst(Append(all, 0))
    <2> HIDE DEF Grown
    <2>1. ASSUME NEW i \in 1..Len(all) + 1, NEW j \in 1..Len(all) + 1, i < j
          PROVE  Grown(all)[i] >= Grown(all)[j]
        <3>1. i \in 1..Len(all) /\ Grown(all)[i] = all[i] /\ all[i] \in 0..Window
            BY <1>7, <2>1
        <3>2. CASE j = Len(all) + 1
            BY <1>1, <1>7, <3>1, <3>2
        <3>3. CASE j # Len(all) + 1
            <4>1. j \in 1..Len(all) /\ Grown(all)[j] = all[j]
                BY <1>7, <3>3
            <4>2. all[i] >= all[j]
                BY <1>7, <2>1, <3>1, <4>1 DEF OldestFirst
            <4>. QED
                BY <3>1, <4>1, <4>2
        <3>. QED
            BY <3>2, <3>3
    <2>2. OldestFirst(Grown(all))
        BY <1>7, <2>1 DEF OldestFirst
    <2>. QED
        BY <2>2 DEF Grown
<1>5. Live(Append(all, 0)) = Live(all) \cup {Len(all) + 1}
    BY <1>1 DEF Live, Ages
<1>6. Len(all) + 1 \notin Live(all)
    BY DEF Live, Ages
<1>. QED
    BY <1>2, <1>3, <1>4, <1>5, <1>6, LiveIsFinite, FS_AddElement

LEMMA OlderAges ==
    ASSUME NEW q \in Ages
    PROVE  /\ Older(q) \in Ages /\ Len(Older(q)) = Len(q)
           /\ \A i \in 1..Len(q) : Older(q)[i] = IF q[i] < Window THEN q[i] + 1 ELSE q[i]
<1> DEFINE S == 0..Window
<1>1. DOMAIN q = 1..Len(q) /\ Len(q) \in Nat /\ \A i \in 1..Len(q) : q[i] \in 0..Window
    BY AgesAreSequences
<1>2. \A i \in 1..Len(q) : (IF q[i] < Window THEN q[i] + 1 ELSE q[i]) \in S
    BY <1>1, ListingAssumption
<1>3. Older(q) \in [1..Len(q) -> S]
    BY <1>1, <1>2 DEF Older
<1> HIDE DEF S
<1>4. Older(q) \in Seq(S) /\ Len(Older(q)) = Len(q)
    BY <1>1, <1>3
<1>5. \A i \in 1..Len(q) : Older(q)[i] = IF q[i] < Window THEN q[i] + 1 ELSE q[i]
    BY <1>1 DEF Older
<1>. QED
    BY <1>4, <1>5 DEF Ages, S

\* Time takes requests out of the window and brings none in.
LEMMA OlderKeepsOrder ==
    ASSUME NEW ages \in Ages, NEW all \in Ages, LeftOf(ages, all), OldestFirst(all)
    PROVE  /\ Older(ages) \in Ages /\ Older(all) \in Ages
           /\ LeftOf(Older(ages), Older(all))
           /\ OldestFirst(Older(all))
           /\ Cardinality(Live(Older(all))) <= Cardinality(Live(all))
<1>1. Window \in Nat \ {0}
    BY ListingAssumption
<1>2. \A q \in Ages :
        /\ Older(q) \in Ages /\ Len(Older(q)) = Len(q) /\ DOMAIN Older(q) = 1..Len(q)
        /\ DOMAIN q = 1..Len(q) /\ Len(q) \in Nat
        /\ \A i \in 1..Len(q) : /\ q[i] \in 0..Window
                                /\ Older(q)[i] = IF q[i] < Window THEN q[i] + 1 ELSE q[i]
    BY AgesAreSequences, OlderAges DEF Older
<1>3. LeftOf(Older(ages), Older(all))
    <2>1. Len(ages) <= Len(all) /\ Len(ages) \in Nat /\ Len(all) \in Nat
        BY <1>2 DEF LeftOf
    <2>2. ASSUME NEW i \in 1..Len(ages)
          PROVE  Older(ages)[i] = Older(all)[Len(all) - Len(ages) + i]
        <3>1. Len(all) - Len(ages) + i \in 1..Len(all)
            BY <2>1
        <3>2. ages[i] = all[Len(all) - Len(ages) + i]
            BY DEF LeftOf
        <3>. QED
            BY <1>2, <3>1, <3>2
    <2>3. ASSUME NEW i \in 1..(Len(all) - Len(ages)) PROVE Older(all)[i] >= Window
        <3>1. i \in 1..Len(all)
            BY <2>1
        <3>2. all[i] >= Window
            BY DEF LeftOf
        <3>. QED
            BY <1>1, <1>2, <3>1, <3>2
    <2>. QED
        BY <1>2, <2>1, <2>2, <2>3 DEF LeftOf
<1>4. OldestFirst(Older(all))
    BY <1>1, <1>2 DEF OldestFirst
<1>5. Live(Older(all)) \in SUBSET Live(all)
    BY <1>1, <1>2 DEF Live
<1>. QED
    BY <1>2, <1>3, <1>4, <1>5, LiveIsFinite, FS_Subset

-----------------------------------------------------------------------------
(* Types.                                                                  *)

LEMMA PageLimitIsNumber ==
    ASSUME TypeOK PROVE query.limit \in Int
BY ListingAssumption DEF TypeOK, Queries

LEMMA SearchTypes ==
    ASSUME TypeOK, Search
    PROVE  /\ {uid \in box : Criteria(uid)} \in SUBSET (1..top)
           /\ top \in Nat
           /\ found' \in Seq({uid \in box : Criteria(uid)})
           /\ Descending(found')
           /\ query.limit > 0 => \A u \in {uid \in box : Criteria(uid)} :
                \/ u \in ToSet(found')
                \/ Len(found') = query.limit /\ \A g \in ToSet(found') : u < g
<1> DEFINE S == {uid \in box : Criteria(uid)}
<1>1. S \in SUBSET (1..top) /\ top \in Nat
    <2>1. top \in Nat /\ box \subseteq 1..top
        BY ListingAssumption DEF TypeOK
    <2>. QED
        BY <2>1
<1>2. found' = Slice(NewestFirst(S), query.limit)
    BY DEF Search
<1> HIDE DEF S
<1>3. /\ found' \in Seq(S)
      /\ Descending(found')
      /\ query.limit > 0 => \A u \in S :
            \/ u \in ToSet(found')
            \/ Len(found') = query.limit /\ \A g \in ToSet(found') : u < g
    <2>1. query.limit \in Int
        BY PageLimitIsNumber
    <2>. QED
        BY <1>1, <1>2, <2>1, SearchFindsNewest
<1>. QED
    BY <1>1, <1>3 DEF S

LEMMA NextCursorValue ==
    ASSUME NEW S, NEW messages \in Seq(S), NEW limit \in Int
    PROVE  \/ /\ NextCursor(messages, limit) = 0
              /\ Len(messages) < limit \/ messages = <<>>
           \/ /\ NextCursor(messages, limit) = messages[Len(messages)]
              /\ Len(messages) \in DOMAIN messages
              /\ Len(messages) >= limit
              /\ messages[Len(messages)] \in S
BY DEF NextCursor, Last

LEMMA TypeInit == Init => TypeOK
<1> SUFFICES ASSUME Init PROVE TypeOK
    OBVIOUS
<1>1. top \in 0..MaxUid /\ box \subseteq 1..top /\ unread \subseteq box
    BY DEF Init
<1>2. through \subseteq box
    BY <1>1 DEF Init
<1>3. /\ events = <<>> /\ accepted = <<>> /\ found = <<>> /\ page = <<>> /\ listed = <<>>
      /\ query \in Queries /\ cursor = 0 /\ lost = FALSE /\ pc = "asking"
      /\ others = 0 /\ failures = 0
    BY DEF Init
<1>4. 0 \in 0..MaxUid /\ 0 \in 0..MaxOthers /\ 0 \in 0..MaxFailures
    BY ListingAssumption
<1>5. <<>> \in Seq(0..Window) /\ <<>> \in Seq(Uids)
    BY EmptySeq
<1>. QED
    BY <1>1, <1>2, <1>3, <1>4, <1>5 DEF TypeOK

LEMMA TypeStep == TypeOK /\ [Next]_vars => TypeOK'
<1> SUFFICES ASSUME TypeOK, [Next]_vars PROVE TypeOK'
    OBVIOUS
<1> DEFINE LimiterTypes == events \in Ages /\ accepted \in Ages
<1>0. LimiterTypes /\ Window \in Nat \ {0} /\ MaxUid \in Nat
    BY ListingAssumption DEF TypeOK, Ages
<1>1. Prune(events) \in Ages
    <2>1. \A i \in DOMAIN events : i \in Nat
        BY <1>0, AgesAreSequences
    <2>2. CASE Live(events) = {}
        BY <2>2 DEF Prune, Ages
    <2>3. CASE Live(events) # {}
        <3>1. Live(events) \in SUBSET (1..Len(events)) /\ Len(events) \in Nat
            BY <1>0, AgesAreSequences DEF Live
        <3>2. Min(Live(events)) \in Live(events)
            BY <2>3, <3>1, MinOfNaturals
        <3>3. Min(Live(events)) \in 1..Len(events)
            BY <3>1, <3>2
        <3> DEFINE S == 0..Window
        <3>4. events \in Seq(S)
            BY <1>0 DEF Ages
        <3> HIDE DEF S
        <3>5. SubSeq(events, Min(Live(events)), Len(events)) \in Seq(S)
            BY <3>1, <3>3, <3>4
        <3>. QED
            BY <2>3, <3>5 DEF Prune, Ages, S
    <2>. QED
        BY <2>2, <2>3
<1>2. CASE Admit \/ Refuse \/ Retry
    BY <1>1, <1>2 DEF Admit, Refuse, Retry, TypeOK, Ages, mailboxVars, limiterVars, pageVars
<1>3. CASE Stamp
    <2>1. Append(events, 0) \in Ages /\ Append(accepted, 0) \in Ages
        BY <1>0 DEF Ages
    <2>. QED
        BY <1>3, <2>1 DEF Stamp, TypeOK, Ages, mailboxVars, pageVars
<1>4. CASE Tick
    <2>1. \A q \in Ages : Older(q) \in Ages
        BY OlderAges
    <2>2. Older(events) \in Ages /\ Older(accepted) \in Ages
        BY <1>0, <2>1
    <2>. QED
        BY <1>4, <2>2 DEF Tick, TypeOK, Ages, mailboxVars, pageVars
<1>5. CASE OtherRequest
    <2>1. Append(Prune(events), 0) \in Ages /\ Append(accepted, 0) \in Ages
        BY <1>0, <1>1 DEF Ages
    <2>2. events' \in Ages /\ accepted' \in Ages
        BY <1>0, <1>1, <1>5, <2>1 DEF OtherRequest
    <2>. QED
        BY <1>5, <2>2, ListingAssumption DEF OtherRequest, TypeOK, Ages, mailboxVars, pageVars
<1>6. CASE Search
    <2>1. {uid \in box : Criteria(uid)} \subseteq Uids
        <3>1. top \in 0..MaxUid /\ box \subseteq 1..top
            BY DEF TypeOK
        <3>2. box \subseteq Uids
            BY <1>0, <3>1 DEF Uids
        <3>. QED
            BY <3>2
    <2>2. found' \in Seq(Uids)
        BY <1>6, <2>1, SearchTypes, SeqMonotonic
    <2>. QED
        BY <1>6, <2>2 DEF Search, TypeOK, mailboxVars, limiterVars
<1>7. CASE Fetch
    <2>1. Tail(found) \in Seq(Uids) /\ Append(page, Head(found)) \in Seq(Uids)
        BY <1>7 DEF Fetch, TypeOK
    <2>. QED
        BY <1>7, <2>1 DEF Fetch, TypeOK, mailboxVars, limiterVars
<1>8. CASE Answer
    <2>1. listed \o page \in Seq(Uids)
        BY DEF TypeOK
    <2>2. NextCursor(page, query.limit) \in 0..MaxUid
        <3>1. page \in Seq(Uids) /\ query.limit \in Int
            BY PageLimitIsNumber DEF TypeOK
        <3>2. NextCursor(page, query.limit) \in {0} \cup Uids
            BY <3>1, NextCursorValue
        <3>. QED
            BY <1>0, <3>2 DEF Uids
    <2>. QED
        BY <1>8, <2>1, <2>2 DEF Answer, TypeOK, mailboxVars, limiterVars
<1>9. CASE Fail
    BY <1>9, ListingAssumption DEF Fail, TypeOK, mailboxVars, limiterVars
<1>10. CASE Arrive
    BY <1>0, <1>10 DEF Arrive, MailboxBecomes, TypeOK, limiterVars, pageVars
<1>11. CASE \E uid \in Uids : Expunge(uid)
    BY <1>11 DEF Expunge, MailboxBecomes, TypeOK, limiterVars, pageVars
<1>12. CASE \E uid \in Uids : ChangeSeen(uid)
    BY <1>12 DEF ChangeSeen, MailboxBecomes, TypeOK, limiterVars, pageVars
<1>13. CASE UNCHANGED vars
    BY <1>13 DEF TypeOK, vars, mailboxVars, limiterVars, pageVars
<1>. QED
    BY <1>2, <1>3, <1>4, <1>5, <1>6, <1>7, <1>8, <1>9, <1>10, <1>11, <1>12, <1>13
    DEF Next, Request

\* Every variable keeps its type; the deque and the history hold ages.
THEOREM ListingTypes == Spec => []TypeOK
BY TypeInit, TypeStep, PTL DEF Spec

-----------------------------------------------------------------------------
(* The window.                                                             *)

LEMMA PruneEvents ==
    ASSUME TypeOK, LimiterInv
    PROVE  /\ events \in Ages /\ accepted \in Ages /\ Prune(events) \in Ages
           /\ LeftOf(Prune(events), accepted)
           /\ Len(Prune(events)) = InWindow
           /\ InWindow \in Nat
           /\ Full <=> InWindow >= RateLimit
<1>1. events \in Ages /\ accepted \in Ages
    BY DEF TypeOK, Ages
<1>2. /\ Prune(events) \in Ages
      /\ LeftOf(Prune(events), accepted)
      /\ Len(Prune(events)) = InWindow
    BY <1>1, PruneLeavesLive DEF LimiterInv, InWindow
<1>3. InWindow \in Nat
    BY <1>1, LiveIsFinite DEF InWindow
<1>. QED
    BY <1>1, <1>2, <1>3 DEF Full

LEMMA LimiterInit == Init => LimiterInv
<1> SUFFICES ASSUME Init PROVE LimiterInv
    OBVIOUS
<1>1. events = <<>> /\ accepted = <<>> /\ pc = "asking"
    BY DEF Init
<1>2. Live(<<>>) = {}
    BY DEF Live
<1>3. InWindow = 0
    BY <1>1, <1>2, FS_EmptySet DEF InWindow
<1>4. LeftOf(<<>>, <<>>) /\ OldestFirst(<<>>)
    BY DEF LeftOf, OldestFirst
<1>. QED
    BY <1>1, <1>3, <1>4, ListingAssumption DEF LimiterInv

LEMMA LimiterStep == TypeOK /\ LimiterInv /\ [Next]_vars => LimiterInv'
<1> SUFFICES ASSUME TypeOK, LimiterInv, [Next]_vars PROVE LimiterInv'
    OBVIOUS
<1> DEFINE pruned == Prune(events)
<1>1. /\ events \in Ages /\ accepted \in Ages /\ pruned \in Ages
      /\ LeftOf(pruned, accepted)
      /\ InWindow \in Nat
      /\ Full <=> InWindow >= RateLimit
    BY PruneEvents
<1>2. OldestFirst(accepted) /\ LeftOf(events, accepted) /\ InWindow <= RateLimit
    BY DEF LimiterInv
<1>3. RateLimit \in Nat
    BY ListingAssumption
<1> HIDE DEF pruned
<1>4. CASE Admit \/ Refuse
    <2>1. events' = pruned /\ accepted' = accepted
        BY <1>4 DEF Admit, Refuse, pruned
    <2>2. pc' = "stamping" => InWindow < RateLimit
        BY <1>1, <1>3, <1>4 DEF Admit, Refuse
    <2>3. InWindow' = InWindow
        BY <2>1 DEF InWindow
    <2>. QED
        BY <1>1, <1>2, <2>1, <2>2, <2>3 DEF LimiterInv
<1>5. CASE Stamp
    <2>1. InWindow < RateLimit /\ pc' # "stamping"
        BY <1>5 DEF LimiterInv, Stamp
    <2>2. events' = Append(events, 0) /\ accepted' = Append(accepted, 0)
        BY <1>5 DEF Stamp
    <2>3. /\ LeftOf(events', accepted') /\ OldestFirst(accepted')
          /\ InWindow' = InWindow + 1
        BY <1>1, <1>2, <2>2, AppendAccepted DEF InWindow
    <2>. QED
        BY <1>1, <1>3, <2>1, <2>3 DEF LimiterInv
<1>6. CASE OtherRequest
    <2>1. pc' # "stamping"
        BY <1>6 DEF OtherRequest
    <2>2. CASE Full
        <3>1. events' = pruned /\ accepted' = accepted
            BY <1>6, <2>2 DEF OtherRequest, pruned
        <3>2. InWindow' = InWindow
            BY <3>1 DEF InWindow
        <3>. QED
            BY <1>1, <1>2, <2>1, <3>1, <3>2 DEF LimiterInv
    <2>3. CASE ~ Full
        <3>1. events' = Append(pruned, 0) /\ accepted' = Append(accepted, 0)
            BY <1>6, <2>3 DEF OtherRequest, pruned
        <3>2. /\ LeftOf(events', accepted') /\ OldestFirst(accepted')
              /\ InWindow' = InWindow + 1
            BY <1>1, <1>2, <3>1, AppendAccepted DEF InWindow
        <3>3. InWindow < RateLimit
            BY <1>1, <1>3, <2>3
        <3>. QED
            BY <1>1, <1>3, <2>1, <3>2, <3>3 DEF LimiterInv
    <2>. QED
        BY <2>2, <2>3
<1>7. CASE Tick
    <2>1. events' = Older(events) /\ accepted' = Older(accepted) /\ pc' = pc
        BY <1>7 DEF Tick
    <2>2. /\ LeftOf(events', accepted') /\ OldestFirst(accepted')
          /\ InWindow' <= InWindow /\ accepted' \in Ages
        BY <1>1, <1>2, <2>1, OlderKeepsOrder DEF InWindow
    <2>3. InWindow' \in Nat
        BY <2>2, LiveIsFinite DEF InWindow
    <2>4. pc' = "stamping" => InWindow < RateLimit
        BY <2>1 DEF LimiterInv
    <2>. QED
        BY <1>1, <1>2, <1>3, <2>2, <2>3, <2>4 DEF LimiterInv
<1>8. ASSUME UNCHANGED <<events, accepted>>, pc' # "stamping" \/ pc' = pc
      PROVE  LimiterInv'
    <2>1. InWindow' = InWindow
        BY <1>8 DEF InWindow
    <2>. QED
        BY <1>8, <2>1 DEF LimiterInv
<1>9. CASE Retry \/ Search \/ Fetch \/ Answer \/ Fail
    <2>1. UNCHANGED <<events, accepted>> /\ (pc' # "stamping" \/ pc' = pc)
        BY <1>9 DEF Retry, Search, Fetch, Answer, Fail, limiterVars
    <2>. QED
        BY <1>8, <2>1
<1>10. CASE Arrive \/ \E uid \in Uids : Expunge(uid) \/ ChangeSeen(uid)
    <2>1. UNCHANGED <<events, accepted, pc>>
        BY <1>10 DEF Arrive, Expunge, ChangeSeen, MailboxBecomes, limiterVars
    <2>. QED
        BY <1>8, <2>1
<1>11. CASE UNCHANGED vars
    <2>1. UNCHANGED <<events, accepted, pc>>
        BY <1>11 DEF vars, limiterVars
    <2>. QED
        BY <1>8, <2>1
<1>. QED
    BY <1>4, <1>5, <1>6, <1>7, <1>9, <1>10, <1>11 DEF Next, Request

\* The deque holds the accepted requests of the window and, until the next
\* request prunes it, older ones; never more than the limit of them count.
THEOREM ListingLimiter == Spec => []LimiterInv
BY TypeInit, TypeStep, LimiterInit, LimiterStep, PTL DEF Spec

\* Only a request of the agent that meets a full window is refused.
LEMMA RefusedWhenFull ==
    ASSUME TypeOK, LimiterInv, [Next]_vars, pc = "asking", pc' = "refused"
    PROVE  InWindow = RateLimit
<1>1. Refuse
    BY DEF Next, Request, Admit, Refuse, Retry, Stamp, Search, Fetch, Answer, Fail, Tick,
        OtherRequest, Arrive, Expunge, ChangeSeen, MailboxBecomes, vars
<1>2. Full
    BY <1>1 DEF Refuse
<1>. QED
    BY <1>2, PruneEvents, ListingAssumption DEF LimiterInv

\* No window of time holds more accepted requests than the limit, and the agent
\* is refused only while the window holds as many, whoever else uses the key and
\* whatever time passes between the check and the stamp of a request.
THEOREM ListingWindowExact == Spec => WindowExact
<1>1. TypeOK /\ LimiterInv /\ [Next]_vars
      => [ /\ InWindow' <= RateLimit
           /\ (pc = "asking" /\ pc' = "refused") => InWindow = RateLimit ]_vars
    <2> SUFFICES ASSUME TypeOK, LimiterInv, [Next]_vars
                 PROVE  /\ InWindow' <= RateLimit
                        /\ (pc = "asking" /\ pc' = "refused") => InWindow = RateLimit
        OBVIOUS
    <2>1. InWindow' <= RateLimit
        BY LimiterStep DEF LimiterInv
    <2>. QED
        BY <2>1, RefusedWhenFull
<1>. QED
    BY <1>1, ListingTypes, ListingLimiter, PTL DEF Spec, WindowExact

-----------------------------------------------------------------------------
(* Descending sequences of UIDs.                                           *)

LEMMA ElementsOf ==
    ASSUME NEW S, NEW s \in Seq(S)
    PROVE  /\ \A u : u \in ToSet(s) <=> \E i \in 1..Len(s) : u = s[i]
           /\ ToSet(s) \subseteq S
BY DEF ToSet

LEMMA SplitHead ==
    ASSUME NEW S \in SUBSET Nat, NEW s \in Seq(S), s # <<>>, Descending(s)
    PROVE  /\ Tail(s) \in Seq(S) /\ Descending(Tail(s)) /\ Head(s) \in S
           /\ ToSet(s) = {Head(s)} \cup ToSet(Tail(s))
           /\ \A u \in ToSet(Tail(s)) : Head(s) > u
           /\ Len(s) = Len(Tail(s)) + 1
<1>1. /\ Head(s) = s[1] /\ Tail(s) \in Seq(S) /\ Len(Tail(s)) = Len(s) - 1
      /\ \A i \in 1..Len(Tail(s)) : Tail(s)[i] = s[i + 1]
      /\ Len(s) \in Nat \ {0} /\ DOMAIN s = 1..Len(s) /\ DOMAIN Tail(s) = 1..Len(Tail(s))
      /\ \A i \in 1..Len(s) : s[i] \in S
    BY HeadTailProperties, ElementOfSeq, LenProperties
<1>2. Descending(Tail(s))
    BY <1>1 DEF Descending
<1>7. /\ \A u : u \in ToSet(s) <=> \E i \in 1..Len(s) : u = s[i]
      /\ \A u : u \in ToSet(Tail(s)) <=> \E i \in 1..Len(Tail(s)) : u = Tail(s)[i]
    BY <1>1 DEF ToSet
<1>3. ASSUME NEW u \in ToSet(Tail(s)) PROVE Head(s) > u /\ u \in ToSet(s)
    <2>1. PICK i \in 1..Len(Tail(s)) : u = Tail(s)[i]
        BY <1>1, <1>7
    <2>2. u = s[i + 1] /\ i + 1 \in 1..Len(s) /\ 1 \in 1..Len(s) /\ 1 < i + 1
        BY <1>1, <2>1
    <2>. QED
        BY <1>1, <2>2, <1>7 DEF Descending
<1>4. ASSUME NEW u \in ToSet(s) PROVE u = Head(s) \/ u \in ToSet(Tail(s))
    <2>1. PICK i \in 1..Len(s) : u = s[i]
        BY <1>1, <1>7
    <2>2. CASE i # 1
        <3>1. i - 1 \in 1..Len(Tail(s)) /\ (i - 1) + 1 = i
            BY <1>1, <2>2
        <3>2. Tail(s)[i - 1] = u
            BY <1>1, <2>1, <3>1
        <3>. QED
            BY <1>1, <3>1, <3>2, <1>7
    <2>. QED
        BY <1>1, <2>1, <2>2
<1>5. Head(s) \in ToSet(s)
    BY <1>1, <1>7
<1>6. ToSet(s) = {Head(s)} \cup ToSet(Tail(s))
    BY <1>3, <1>4, <1>5
<1>. QED
    BY <1>1, <1>2, <1>3, <1>6

LEMMA ConcatDescends ==
    ASSUME NEW S \in SUBSET Nat, NEW s \in Seq(S), NEW t \in Seq(S),
           Descending(s), Descending(t), \A u \in ToSet(s), v \in ToSet(t) : u > v
    PROVE  /\ s \o t \in Seq(S) /\ Descending(s \o t)
           /\ ToSet(s \o t) = ToSet(s) \cup ToSet(t)
<1> DEFINE c == s \o t
<1>1. /\ c \in Seq(S) /\ Len(c) = Len(s) + Len(t)
      /\ \A i \in 1..Len(c) : c[i] = IF i <= Len(s) THEN s[i] ELSE t[i - Len(s)]
      /\ Len(s) \in Nat /\ Len(t) \in Nat
      /\ DOMAIN c = 1..Len(c) /\ DOMAIN s = 1..Len(s) /\ DOMAIN t = 1..Len(t)
    BY ConcatProperties, LenProperties
<1> HIDE DEF c
<1>2. ASSUME NEW i \in 1..Len(c), NEW j \in 1..Len(c), i < j PROVE c[i] > c[j]
    <2>1. CASE j <= Len(s)
        <3>1. i \in 1..Len(s) /\ j \in 1..Len(s)
            BY <1>1, <1>2, <2>1
        <3>2. s[i] > s[j]
            BY <1>1, <1>2, <3>1 DEF Descending
        <3>. QED
            BY <1>1, <3>1, <3>2
    <2>2. CASE i > Len(s)
        <3>1. i - Len(s) \in 1..Len(t) /\ j - Len(s) \in 1..Len(t) /\ i - Len(s) < j - Len(s)
            BY <1>1, <1>2, <2>2
        <3>2. t[i - Len(s)] > t[j - Len(s)]
            BY <1>1, <3>1 DEF Descending
        <3>. QED
            BY <1>1, <1>2, <2>2, <3>2
    <2>3. CASE i <= Len(s) /\ j > Len(s)
        <3>1. i \in 1..Len(s) /\ j - Len(s) \in 1..Len(t)
            BY <1>1, <2>3
        <3>2. s[i] \in ToSet(s) /\ t[j - Len(s)] \in ToSet(t)
            BY <3>1, ElementsOf
        <3>. QED
            BY <1>1, <2>3, <3>2
    <2>. QED
        BY <1>1, <2>1, <2>2, <2>3
<1>3. Descending(c)
    BY <1>1, <1>2 DEF Descending
<1>4. ASSUME NEW u PROVE u \in ToSet(c) <=> u \in ToSet(s) \/ u \in ToSet(t)
    <2>1. ASSUME u \in ToSet(c) PROVE u \in ToSet(s) \/ u \in ToSet(t)
        <3>1. PICK i \in 1..Len(c) : u = c[i]
            BY <1>1, <2>1, ElementsOf
        <3>2. CASE i <= Len(s)
            BY <1>1, <3>1, <3>2, ElementsOf
        <3>3. CASE i > Len(s)
            <4>1. i - Len(s) \in 1..Len(t) /\ u = t[i - Len(s)]
                BY <1>1, <3>1, <3>3
            <4>. QED
                BY <4>1, ElementsOf
        <3>. QED
            BY <1>1, <3>2, <3>3
    <2>2. ASSUME u \in ToSet(s) PROVE u \in ToSet(c)
        <3>1. PICK i \in 1..Len(s) : u = s[i]
            BY <2>2, ElementsOf
        <3>2. i \in 1..Len(c) /\ c[i] = u
            BY <1>1, <3>1
        <3>. QED
            BY <1>1, <3>2, ElementsOf
    <2>3. ASSUME u \in ToSet(t) PROVE u \in ToSet(c)
        <3>1. PICK i \in 1..Len(t) : u = t[i]
            BY <2>3, ElementsOf
        <3>2. i + Len(s) \in 1..Len(c) /\ (i + Len(s)) - Len(s) = i /\ ~ (i + Len(s) <= Len(s))
            BY <1>1, <3>1
        <3>3. c[i + Len(s)] = u
            BY <1>1, <3>1, <3>2
        <3>. QED
            BY <1>1, <3>2, <3>3, ElementsOf
    <2>. QED
        BY <2>1, <2>2, <2>3
<1>5. ToSet(c) = ToSet(s) \cup ToSet(t)
    BY <1>4
<1>. QED
    BY <1>1, <1>3, <1>5 DEF c

LEMMA AppendDescends ==
    ASSUME NEW S \in SUBSET Nat, NEW s \in Seq(S), NEW x \in S,
           Descending(s), \A u \in ToSet(s) : u > x
    PROVE  /\ Append(s, x) \in Seq(S) /\ Descending(Append(s, x))
           /\ ToSet(Append(s, x)) = ToSet(s) \cup {x}
           /\ Len(Append(s, x)) = Len(s) + 1
<1>1. <<x>> \in Seq(S) /\ Descending(<<x>>) /\ ToSet(<<x>>) = {x}
    BY DEF Descending, ToSet
<1>2. Append(s, x) = s \o <<x>>
    BY AppendIsConcat
<1>3. Len(Append(s, x)) = Len(s) + 1
    BY AppendProperties
<1>4. \A u \in ToSet(s), v \in ToSet(<<x>>) : u > v
    BY <1>1
<1>5. /\ s \o <<x>> \in Seq(S) /\ Descending(s \o <<x>>)
      /\ ToSet(s \o <<x>>) = ToSet(s) \cup ToSet(<<x>>)
    BY <1>1, <1>4, ConcatDescends
<1>. QED
    BY <1>1, <1>2, <1>3, <1>5

LEMMA LastIsSmallest ==
    ASSUME NEW S \in SUBSET Nat, NEW s \in Seq(S), Descending(s), Len(s) \in DOMAIN s
    PROVE  /\ s[Len(s)] \in ToSet(s)
           /\ \A u \in ToSet(s) : u >= s[Len(s)]
<1>1. DOMAIN s = 1..Len(s) /\ Len(s) \in Nat /\ \A i \in 1..Len(s) : s[i] \in S
    BY ElementOfSeq, LenProperties
<1>2. ASSUME NEW u \in ToSet(s) PROVE u >= s[Len(s)]
    <2>1. PICK i \in 1..Len(s) : u = s[i]
        BY ElementsOf
    <2>2. u \in Nat /\ s[Len(s)] \in Nat
        BY <1>1, <2>1
    <2>3. CASE i < Len(s)
        <3>1. s[i] > s[Len(s)]
            BY <1>1, <2>3 DEF Descending
        <3>. QED
            BY <2>1, <2>2, <3>1
    <2>4. CASE i = Len(s)
        BY <2>1, <2>2, <2>4
    <2>5. Len(s) \in Nat /\ i \in 1..Len(s)
        BY <1>1, <2>1
    <2>6. i < Len(s) \/ i = Len(s)
        BY <2>5
    <2>. QED
        BY <2>3, <2>4, <2>6
<1>. QED
    BY <1>1, <1>2, ElementsOf

-----------------------------------------------------------------------------
(* The pages.                                                              *)

LEMMA PagesAreUids ==
    ASSUME TypeOK
    PROVE  /\ Uids \in SUBSET Nat /\ 0 \notin Uids
           /\ listed \in Seq(Uids) /\ page \in Seq(Uids) /\ found \in Seq(Uids)
           /\ cursor \in Nat /\ query.limit \in Int
BY PageLimitIsNumber, ListingAssumption DEF TypeOK, Uids

LEMMA ListingInit == Init => ListingInv
<1> SUFFICES ASSUME Init PROVE ListingInv
    OBVIOUS
<1>1. listed = <<>> /\ cursor = 0 /\ pc = "asking"
    BY DEF Init
<1>2. through \subseteq Matching
    BY DEF Init, Matching
<1>3. OrderInv
    BY <1>1 DEF OrderInv, Descending
<1>4. CompleteInv
    BY <1>1 DEF CompleteInv
<1>. QED
    BY <1>2, <1>3, <1>4 DEF ListingInv

\* What other clients do to the mailbox leaves the pages alone.
LEMMA MailboxKeepsListing ==
    ASSUME ListingInv, UNCHANGED <<pageVars, pc>>,
           through' \subseteq through, through' \subseteq Matching'
    PROVE  ListingInv'
<1>1. OrderInv'
    BY DEF ListingInv, OrderInv, pageVars
<1>2. CompleteInv'
    BY DEF ListingInv, CompleteInv, BelowPage, pageVars
<1>. QED
    BY <1>1, <1>2 DEF ListingInv

\* Before a page is fetched only the cursor says what is still to come.
LEMMA WaitKeepsListing ==
    ASSUME ListingInv, UNCHANGED <<mailboxVars, query, cursor, listed, lost>>,
           pc # "done", pc' \notin {"done", "fetching"}
    PROVE  ListingInv'
<1>1. OrderInv'
    BY DEF ListingInv, OrderInv
<1>2. CompleteInv'
    BY DEF ListingInv, CompleteInv, mailboxVars
<1>3. through' \subseteq Matching'
    BY DEF ListingInv, Matching, mailboxVars
<1>. QED
    BY <1>1, <1>2, <1>3 DEF ListingInv

LEMMA SearchKeepsListing ==
    ASSUME TypeOK, ListingInv, Search
    PROVE  ListingInv'
<1> DEFINE hits == {uid \in box : Criteria(uid)}
<1>1. /\ hits \subseteq Nat /\ Uids \in SUBSET Nat
      /\ found' \in Seq(hits)
      /\ Descending(found')
      /\ query.limit > 0 => \A u \in hits :
            \/ u \in ToSet(found')
            \/ Len(found') = query.limit /\ \A g \in ToSet(found') : u < g
    BY SearchTypes, PagesAreUids
<1>2. \A u \in hits : cursor = 0 \/ u < cursor
    BY DEF Criteria
<1>3. \A u \in through : (cursor = 0 \/ u < cursor) => u \in hits
    BY DEF Criteria, ListingInv, Matching, TypeOK
<1>4. /\ UNCHANGED <<box, unread, through, query, cursor, listed, lost>>
      /\ pc = "searching" /\ pc' = "fetching" /\ page' = <<>>
    BY DEF Search, mailboxVars
<1> HIDE DEF hits
<1>5. ToSet(found') \subseteq hits
    BY <1>1, ElementsOf
<1>6. ToSet(page') = {} /\ Descending(page') /\ Len(page') = 0
    BY <1>4 DEF ToSet, Descending
<1>7. OrderInv'
    BY <1>1, <1>2, <1>4, <1>5, <1>6 DEF ListingInv, OrderInv
<1>8. ASSUME query.limit > 0, ~ lost, NEW u \in through
      PROVE  \/ u \in ToSet(listed) \cup ToSet(page') \cup ToSet(found')
             \/ BelowPage(u)'
    <2>1. u \in ToSet(listed) \/ u \in hits
        BY <1>3, <1>4, <1>8 DEF ListingInv, CompleteInv
    <2>2. ASSUME Len(found') = query.limit, \A g \in ToSet(found') : u < g
          PROVE  BelowPage(u)'
        <3>1. Len(found') \in Nat
            BY <1>1, LenProperties
        <3>. QED
            BY <1>4, <1>6, <2>2, <3>1 DEF BelowPage
    <2>. QED
        BY <1>1, <1>8, <2>1, <2>2
<1>9. CompleteInv'
    BY <1>4, <1>8 DEF ListingInv, CompleteInv
<1>10. through' \subseteq Matching'
    BY <1>4 DEF ListingInv, Matching
<1>. QED
    BY <1>7, <1>9, <1>10 DEF ListingInv

LEMMA FetchKeepsListing ==
    ASSUME TypeOK, ListingInv, Fetch
    PROVE  ListingInv'
<1> DEFINE head == Head(found)
<1>1. /\ UNCHANGED <<box, unread, through, query, cursor, listed, pc>>
      /\ pc = "fetching" /\ found # <<>> /\ found' = Tail(found)
    BY DEF Fetch, mailboxVars
<1>2. /\ Uids \in SUBSET Nat /\ page \in Seq(Uids) /\ found \in Seq(Uids)
      /\ Descending(page) /\ Descending(found)
      /\ \A p \in ToSet(page), f \in ToSet(found) : p > f
      /\ \A uid \in ToSet(page) \cup ToSet(found) : cursor = 0 \/ uid < cursor
    BY <1>1, PagesAreUids DEF ListingInv, OrderInv
<1>3. /\ found' \in Seq(Uids) /\ Descending(found') /\ head \in Uids
      /\ ToSet(found) = {head} \cup ToSet(found')
      /\ \A u \in ToSet(found') : head > u
      /\ Len(found) = Len(found') + 1
    BY <1>1, <1>2, SplitHead
<1>4. /\ Append(page, head) \in Seq(Uids) /\ Descending(Append(page, head))
      /\ ToSet(Append(page, head)) = ToSet(page) \cup {head}
      /\ Len(Append(page, head)) = Len(page) + 1
    BY <1>2, <1>3, AppendDescends
<1>5. Len(page) \in Nat /\ Len(found') \in Nat
    BY <1>2, <1>3, LenProperties
<1>6. \/ page' = Append(page, head) /\ lost' = lost
      \/ page' = page /\ lost' = TRUE
    BY DEF Fetch
<1> HIDE DEF head
<1>7. OrderInv'
    <2>1. /\ Descending(page') /\ Descending(found')
          /\ ToSet(page') \subseteq ToSet(page) \cup {head}
        BY <1>2, <1>3, <1>4, <1>6
    <2>2. \A p \in ToSet(page'), f \in ToSet(found') : p > f
        BY <1>2, <1>3, <2>1
    <2>3. \A uid \in ToSet(page') \cup ToSet(found') : cursor = 0 \/ uid < cursor
        BY <1>2, <1>3, <2>1
    <2>. QED
        BY <1>1, <2>1, <2>2, <2>3 DEF ListingInv, OrderInv
<1>8. CompleteInv'
    <2>1. CASE lost'
        BY <2>1 DEF CompleteInv
    <2>2. CASE ~ lost'
        <3>1. /\ ToSet(page') \cup ToSet(found') = ToSet(page) \cup ToSet(found)
              /\ Len(page') + Len(found') = Len(page) + Len(found)
              /\ lost' = lost
            <4>1. page' = Append(page, head) /\ lost' = lost
                BY <1>6, <2>2
            <4>2. ToSet(page') = ToSet(page) \cup {head} /\ Len(page') = Len(page) + 1
                BY <1>4, <4>1
            <4>3. ToSet(page') \cup ToSet(found') = ToSet(page) \cup ToSet(found)
                BY <1>3, <4>2
            <4>4. Len(page') + Len(found') = Len(page) + Len(found)
                BY <1>3, <1>5, <4>2
            <4>. QED
                BY <4>1, <4>3, <4>4
        <3>2. \A u : BelowPage(u) => BelowPage(u)'
            BY <1>1, <3>1 DEF BelowPage
        <3>. QED
            BY <1>1, <3>1, <3>2 DEF ListingInv, CompleteInv
    <2>. QED
        BY <2>1, <2>2
<1>9. through' \subseteq Matching'
    BY <1>1 DEF ListingInv, Matching
<1>. QED
    BY <1>7, <1>8, <1>9 DEF ListingInv

LEMMA AnswerKeepsListing ==
    ASSUME TypeOK, ListingInv, Answer
    PROVE  ListingInv'
<1>1. /\ UNCHANGED <<box, unread, through, query, lost, found, page>>
      /\ pc = "fetching" /\ found = <<>>
      /\ listed' = listed \o page /\ cursor' = NextCursor(page, query.limit)
      /\ pc' = IF cursor' = 0 THEN "done" ELSE "asking"
    BY DEF Answer, mailboxVars
<1>2. /\ Uids \in SUBSET Nat /\ 0 \notin Uids /\ listed \in Seq(Uids) /\ page \in Seq(Uids)
      /\ cursor \in Nat /\ query.limit \in Int
      /\ Descending(listed) /\ Descending(page)
      /\ cursor = 0 => listed = <<>>
      /\ cursor # 0 => \A uid \in ToSet(listed) : uid >= cursor
      /\ \A uid \in ToSet(page) : cursor = 0 \/ uid < cursor
    BY <1>1, PagesAreUids DEF ListingInv, OrderInv
<1>3. ToSet(found) = {} /\ Len(found) = 0
    BY <1>1 DEF ToSet
<1>4. /\ ToSet(listed) \subseteq Uids /\ ToSet(page) \subseteq Uids
      /\ cursor = 0 => ToSet(listed) = {}
    BY <1>2, ElementsOf DEF ToSet
<1>5. \A u \in ToSet(listed), v \in ToSet(page) : u > v
    <2> SUFFICES ASSUME NEW u \in ToSet(listed), NEW v \in ToSet(page) PROVE u > v
        OBVIOUS
    <2>1. u \in Nat /\ v \in Nat /\ cursor \in Nat /\ cursor # 0
        BY <1>2, <1>4
    <2>2. u >= cursor /\ v < cursor
        BY <1>2, <2>1
    <2>. QED
        BY <2>1, <2>2
<1>6. Descending(listed') /\ ToSet(listed') = ToSet(listed) \cup ToSet(page)
    <2>1. Descending(listed \o page) /\ ToSet(listed \o page) = ToSet(listed) \cup ToSet(page)
        BY <1>2, <1>5, ConcatDescends
    <2>. QED
        BY <1>1, <2>1
<1>7. CASE cursor' = 0
    <2>1. pc' = "done"
        BY <1>1, <1>7
    <2>2. Len(page) < query.limit \/ page = <<>>
        BY <1>1, <1>2, <1>7, NextCursorValue
    <2>3. query.limit > 0 => Len(page) < query.limit
        BY <1>2, <2>2
    <2>4. (query.limit > 0 /\ ~ lost) => through \subseteq ToSet(listed')
        <3>1. Len(page) \in Nat
            BY <1>2, LenProperties
        <3>2. query.limit > 0 => Len(page) + Len(found) # query.limit
            BY <1>2, <1>3, <2>3, <3>1
        <3>. QED
            BY <1>1, <1>3, <1>6, <3>2 DEF ListingInv, CompleteInv, BelowPage
    <2>5. OrderInv'
        BY <1>6, <2>1 DEF OrderInv
    <2>6. CompleteInv'
        BY <1>1, <2>1, <2>4 DEF CompleteInv
    <2>. QED
        BY <1>1, <2>5, <2>6 DEF ListingInv, Matching
<1>8. CASE cursor' # 0
    <2>1. pc' = "asking"
        BY <1>1, <1>8
    <2>2. cursor' = page[Len(page)] /\ Len(page) \in DOMAIN page
        BY <1>1, <1>2, <1>8, NextCursorValue
    <2>3. cursor' \in ToSet(page) /\ \A u \in ToSet(page) : u >= cursor'
        BY <1>2, <2>2, LastIsSmallest
    <2>4. \A u \in ToSet(listed') : u >= cursor'
        <3> SUFFICES ASSUME NEW u \in ToSet(listed') PROVE u >= cursor'
            OBVIOUS
        <3>1. u \in Nat /\ cursor' \in Nat
            BY <1>2, <1>4, <1>6, <2>3
        <3>2. CASE u \in ToSet(listed)
            <4>1. u > cursor'
                BY <1>5, <2>3, <3>2
            <4>. QED
                BY <3>1, <4>1
        <3>3. CASE u \in ToSet(page)
            BY <2>3, <3>3
        <3>. QED
            BY <1>6, <3>2, <3>3
    <2>5. ASSUME query.limit > 0, ~ lost, NEW u \in through
          PROVE  u < cursor' \/ u \in ToSet(listed')
        BY <1>1, <1>3, <1>6, <2>3, <2>5 DEF ListingInv, CompleteInv, BelowPage
    <2>6. OrderInv'
        BY <1>6, <1>8, <2>1, <2>4 DEF OrderInv
    <2>7. CompleteInv'
        BY <1>1, <2>1, <2>5 DEF CompleteInv
    <2>. QED
        BY <1>1, <2>6, <2>7 DEF ListingInv, Matching
<1>. QED
    BY <1>7, <1>8

LEMMA ListingStep == TypeOK /\ ListingInv /\ [Next]_vars => ListingInv'
<1> SUFFICES ASSUME TypeOK, ListingInv, [Next]_vars PROVE ListingInv'
    OBVIOUS
<1>1. CASE Admit \/ Refuse \/ Retry \/ Stamp \/ Fail
    <2>1. /\ UNCHANGED <<mailboxVars, query, cursor, listed, lost>>
          /\ pc # "done" /\ pc' \notin {"done", "fetching"}
        BY <1>1 DEF Admit, Refuse, Retry, Stamp, Fail, pageVars
    <2>. QED
        BY <2>1, WaitKeepsListing
<1>2. CASE Tick \/ OtherRequest \/ UNCHANGED vars
    <2>1. UNCHANGED <<pageVars, pc, mailboxVars>>
        BY <1>2 DEF Tick, OtherRequest, vars
    <2>2. through' \subseteq through /\ through' \subseteq Matching'
        BY <2>1 DEF ListingInv, Matching, mailboxVars, pageVars
    <2>. QED
        BY <2>1, <2>2, MailboxKeepsListing
<1>3. ASSUME NEW b, NEW u, MailboxBecomes(b, u) PROVE ListingInv'
    <2>1. UNCHANGED <<pageVars, pc>>
        BY <1>3 DEF MailboxBecomes
    <2>2. through' \subseteq through /\ through' \subseteq Matching'
        BY <1>3 DEF MailboxBecomes, Matching, pageVars
    <2>. QED
        BY <2>1, <2>2, MailboxKeepsListing
<1>4. CASE Arrive \/ \E uid \in Uids : Expunge(uid) \/ ChangeSeen(uid)
    <2>1. \E b, u : MailboxBecomes(b, u)
        BY <1>4 DEF Arrive, Expunge, ChangeSeen
    <2>. QED
        BY <1>3, <2>1
<1>. QED
    BY <1>1, <1>2, <1>4, SearchKeepsListing, FetchKeepsListing, AnswerKeepsListing
    DEF Next, Request

\* Everything listed lies at or above the cursor and every message that has
\* matched all along and is not listed lies below it, or below a full page.
THEOREM ListingPages == Spec => []ListingInv
BY TypeInit, TypeStep, ListingInit, ListingStep, PTL DEF Spec

\* No message comes twice and none that matched all along is missing when the
\* listing ends, for any mailbox, page limit and limiter, whatever arrives,
\* goes, is marked, fails or is refused between the pages.
THEOREM ListingExactlyOnce == Spec => []ListedExactlyOnce
<1>1. ListingInv => ListedExactlyOnce
    BY DEF ListingInv, OrderInv, CompleteInv, ListedExactlyOnce
<1>. QED
    BY <1>1, ListingPages, PTL

\* A page that is answered and is not the last one carries the agent below
\* every UID it has had, so that pages come to an end: the step that ListingEnds
\* rests on, whatever happens to the mailbox meanwhile.
PagesDescend ==
    [][ (pc = "fetching" /\ pc' = "asking" /\ failures' = failures)
        => cursor' > 0 /\ (cursor = 0 \/ cursor' < cursor) ]_vars

LEMMA AnswerDescends ==
    ASSUME TypeOK, OrderInv, Answer, pc' = "asking"
    PROVE  cursor' > 0 /\ (cursor = 0 \/ cursor' < cursor)
<1>1. cursor' = NextCursor(page, query.limit) /\ cursor' # 0 /\ pc = "fetching"
    BY DEF Answer
<1>2. /\ Uids \in SUBSET Nat /\ page \in Seq(Uids) /\ query.limit \in Int
      /\ cursor \in Nat
    BY PagesAreUids
<1>3. /\ Descending(page)
      /\ \A uid \in ToSet(page) : cursor = 0 \/ uid < cursor
    BY <1>1 DEF OrderInv
<1>4. cursor' = page[Len(page)] /\ Len(page) \in DOMAIN page /\ cursor' \in Uids
    BY <1>1, <1>2, NextCursorValue
<1>5. cursor' \in ToSet(page)
    BY <1>2, <1>3, <1>4, LastIsSmallest
<1>. QED
    BY <1>1, <1>2, <1>3, <1>4, <1>5

\* Every answer that has a next page lowers the cursor, for any page limit, a
\* negative one included, and any mailbox.
THEOREM ListingDescends == Spec => PagesDescend
<1>1. TypeOK /\ ListingInv /\ [Next]_vars
      => [ (pc = "fetching" /\ pc' = "asking" /\ failures' = failures)
           => cursor' > 0 /\ (cursor = 0 \/ cursor' < cursor) ]_vars
    <2> SUFFICES ASSUME TypeOK, ListingInv, [Next]_vars,
                        pc = "fetching", pc' = "asking", failures' = failures
                 PROVE  cursor' > 0 /\ (cursor = 0 \/ cursor' < cursor)
        OBVIOUS
    <2>1. failures \in Nat
        BY ListingAssumption DEF TypeOK
    <2>2. Answer
        BY <2>1 DEF Next, Request, Admit, Refuse, Retry, Stamp, Search, Fetch, Answer, Fail,
            Tick, OtherRequest, Arrive, Expunge, ChangeSeen, MailboxBecomes, vars
    <2>. QED
        BY <2>2, AnswerDescends DEF ListingInv
<1>. QED
    BY <1>1, ListingTypes, ListingPages, PTL DEF Spec, PagesDescend
=============================================================================
