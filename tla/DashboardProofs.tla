--------------------------- MODULE DashboardProofs ---------------------------
(***************************************************************************)
(* Theorems about the owner's view of the leads, for any number of leads   *)
(* and widgets, any page size and any offset of the local time.            *)
(***************************************************************************)
EXTENDS Dashboard, FiniteSetTheorems, TLAPS

-----------------------------------------------------------------------------
(* Facts about the operators.                                              *)

LEMMA Subsets ==
    ASSUME NEW S \in SUBSET Leads
    PROVE  IsFiniteSet(S) /\ Cardinality(S) \in Nat
BY LeadsAssumption, FS_Subset, FS_CardinalityType

LEMMA Smaller ==
    ASSUME NEW S \in SUBSET Leads, NEW T \in SUBSET S
    PROVE  Cardinality(T) <= Cardinality(S)
BY Subsets, FS_Subset

\* The rest of a set, and two parts that do not meet.
LEMMA Rest ==
    ASSUME NEW S \in SUBSET Leads, NEW T \in SUBSET S
    PROVE  Cardinality(S \ T) = Cardinality(S) - Cardinality(T)
<1>1. S \intersect T = T
  OBVIOUS
<1> QED
  BY <1>1, Subsets, FS_Difference

LEMMA Apart ==
    ASSUME NEW S \in SUBSET Leads, NEW T \in SUBSET Leads, S \intersect T = {}
    PROVE  Cardinality(S \union T) = Cardinality(S) + Cardinality(T)
<1>1. Cardinality(S \intersect T) = 0
  BY FS_EmptySet
<1>2. Cardinality(S \union T)
        = Cardinality(S) + Cardinality(T) - Cardinality(S \intersect T)
  BY Subsets, FS_Union
<1> QED
  BY <1>1, <1>2, Subsets

LEMMA OffsetType ==
    ASSUME NEW p \in Nat \ {0}
    PROVE  Offset(p) \in Nat /\ Offset(p + 1) = Offset(p) + PageSize
<1>1. PICK q \in Nat : q = p - 1
  OBVIOUS
<1>2. PageSize \in Nat
  BY SizesAssumption
<1>3. q * PageSize \in Nat /\ (q + 1) * PageSize = q * PageSize + PageSize
  BY <1>2
<1>4. p + 1 - 1 = q + 1
  BY <1>1
<1> QED
  BY <1>1, <1>3, <1>4 DEF Offset

LEMMA FirstType ==
    ASSUME NEW n \in Nat, NEW S \in SUBSET Leads, NEW T \in First(n, S)
    PROVE  /\ T \in SUBSET S
           /\ Cardinality(T) = IF n < Cardinality(S) THEN n ELSE Cardinality(S)
           /\ \A x \in T, y \in S \ T : created_at[x] >= created_at[y]
BY DEF First

\* A page without more rows than fit is all of what is left.
LEMMA FirstAll ==
    ASSUME NEW n \in Nat, NEW S \in SUBSET Leads, NEW T \in First(n, S), T # S
    PROVE  Cardinality(T) = n
<1>1. IsFiniteSet(S) /\ T \in SUBSET S
  BY Subsets, FirstType
<1>2. Cardinality(T) # Cardinality(S)
  BY <1>1, FS_Subset
<1> QED
  BY <1>2, FirstType

\* The day of an instant is its quotient.
LEMMA DateBounds ==
    ASSUME NEW t \in Int, NEW o \in Int
    PROVE  /\ local_date(t, o) \in Int
           /\ \A k \in Int : local_date(t, o) >= k <=> t + o >= k * Day
<1>1. Day \in Nat \ {0}
  BY SizesAssumption
<1> DEFINE q == (t + o) \div Day
<1>2. q \in Int /\ q * Day <= t + o /\ t + o < (q + 1) * Day
  BY <1>1
<1>3. ASSUME NEW k \in Int, q >= k PROVE t + o >= k * Day
  <2>1. (q - k) * Day >= 0
    BY <1>1, <1>2, <1>3
  <2>2. (q - k) * Day = q * Day - k * Day
    BY <1>1, <1>2
  <2> QED
    BY <1>1, <1>2, <2>1, <2>2
<1>4. ASSUME NEW k \in Int, q < k PROVE t + o < k * Day
  <2>1. (k - (q + 1)) * Day >= 0
    BY <1>1, <1>2, <1>4
  <2>2. (k - (q + 1)) * Day = k * Day - (q + 1) * Day
    BY <1>1, <1>2
  <2>3. k * Day \in Int /\ (q + 1) * Day \in Int
    BY <1>1, <1>2
  <2> QED
    BY <1>1, <1>2, <2>1, <2>2, <2>3
<1> QED
  BY <1>1, <1>2, <1>3, <1>4 DEF local_date

-----------------------------------------------------------------------------
(* What one page shows.                                                    *)

\* The leads listed before l whatever the ties.
Newer(l) == {y \in Listed(filter) : created_at[y] > created_at[l]}

LEMMA ListedType ==
    ASSUME TypeOK
    PROVE  /\ Listed(filter) \in SUBSET Leads
           /\ \A l \in Leads : Newer(l) \in SUBSET Leads
           /\ created_at \in [Leads -> Int]
BY DEF TypeOK, Listed, Stored, Newer

\* A page is part of the list, no longer than PageSize, and shorter only when
\* it is the end of the list.
LEMMA PageSizes ==
    ASSUME TypeOK, NEW rows \in Rows(page)
    PROVE  /\ rows \in SUBSET Listed(filter)
           /\ Cardinality(rows) <= PageSize
           /\ \/ Cardinality(rows) >= PageSize
              \/ Cardinality(rows) >= Cardinality(Listed(filter)) - Offset(page)
<1> DEFINE L == Listed(filter)
<1>1. L \in SUBSET Leads /\ page \in Nat \ {0} /\ PageSize \in Nat
  BY ListedType, SizesAssumption DEF TypeOK
<1>2. Offset(page) \in Nat
  BY <1>1, OffsetType
<1>3. PICK before \in First(Offset(page), L) : rows \in First(PageSize, L \ before)
  BY DEF Rows
<1> HIDE DEF L
<1>4. before \in SUBSET L /\ Cardinality(before) <= Offset(page)
  BY <1>1, <1>2, <1>3, FirstType, Subsets
<1>5. /\ Cardinality(L \ before) = Cardinality(L) - Cardinality(before)
      /\ Cardinality(L \ before) \in Nat
      /\ Cardinality(L) \in Nat
      /\ Cardinality(before) \in Nat
  <2>1. L \ before \in SUBSET Leads /\ before \in SUBSET Leads
    BY <1>1, <1>4
  <2> QED
    BY <1>1, <1>4, <2>1, Rest, Subsets
<1>6. /\ rows \in SUBSET (L \ before)
      /\ Cardinality(rows) = IF PageSize < Cardinality(L \ before)
                             THEN PageSize ELSE Cardinality(L \ before)
  BY <1>1, <1>3, FirstType
<1> QED
  BY <1>1, <1>2, <1>4, <1>5, <1>6 DEF L

\* A lead with a created_at of its own is on the page its place is on.
LEMMA PagePlace ==
    ASSUME TypeOK, NEW rows \in Rows(page), NEW x \in Listed(filter), Alone(x)
    PROVE  /\ x \notin rows /\ Cardinality(Newer(x)) >= Offset(page)
                => /\ Cardinality(rows) = PageSize
                   /\ Cardinality(Newer(x)) >= Offset(page) + PageSize
           /\ x \in rows
                => /\ Cardinality(Newer(x)) >= Offset(page)
                   /\ Cardinality(Newer(x)) < Offset(page) + PageSize
<1> DEFINE L == Listed(filter)
           N == Newer(x)
<1>1. /\ L \in SUBSET Leads
      /\ x \in L
      /\ N \in SUBSET Leads
      /\ created_at \in [Leads -> Int]
      /\ page \in Nat \ {0}
      /\ PageSize \in Nat \ {0}
  BY ListedType, SizesAssumption DEF TypeOK
<1>2. Offset(page) \in Nat
  BY <1>1, OffsetType
<1>3. PICK before \in First(Offset(page), L) : rows \in First(PageSize, L \ before)
  BY DEF Rows
<1>4. \A y \in L \ {x} : created_at[y] # created_at[x]
  BY <1>1 DEF Alone, Listed, Stored
<1>5. \A y \in L : y \in N <=> created_at[y] > created_at[x]
  BY DEF Newer
<1>6. N \in SUBSET L
  BY DEF Newer
<1> HIDE DEF L, N
<1>7. /\ before \in SUBSET L
      /\ \A v \in before, y \in L \ before : created_at[v] >= created_at[y]
  BY <1>1, <1>2, <1>3, FirstType
<1>8. /\ L \ before \in SUBSET Leads
      /\ before \in SUBSET Leads
      /\ rows \in SUBSET (L \ before)
      /\ \A v \in rows, y \in (L \ before) \ rows : created_at[v] >= created_at[y]
  <2>1. L \ before \in SUBSET Leads /\ before \in SUBSET Leads
    BY <1>1, <1>7
  <2> QED
    BY <1>1, <1>3, <2>1, FirstType
<1>9. /\ IsFiniteSet(N) /\ Cardinality(N) \in Nat
      /\ IsFiniteSet(before) /\ Cardinality(before) \in Nat
      /\ rows \in SUBSET Leads
      /\ IsFiniteSet(rows) /\ Cardinality(rows) \in Nat
  BY <1>1, <1>8, Subsets
\* Nothing of what the page skips comes after x, unless x itself is skipped.
<1>10. x \notin before => before \in SUBSET N /\ Cardinality(before) = Offset(page)
  <2> SUFFICES ASSUME x \notin before
               PROVE  before \in SUBSET N /\ Cardinality(before) = Offset(page)
    OBVIOUS
  <2>1. before \in SUBSET N
    BY <1>1, <1>4, <1>5, <1>7
  <2>2. before # L
    BY <1>1
  <2>3. Cardinality(before) = Offset(page)
    BY <1>1, <1>2, <1>3, <2>2, FirstAll
  <2> QED
    BY <2>1, <2>3
<1>11. ASSUME x \notin rows, Cardinality(N) >= Offset(page)
       PROVE  /\ Cardinality(rows) = PageSize
              /\ Cardinality(N) >= Offset(page) + PageSize
  <2>1. x \notin before
    <3> SUFFICES ASSUME x \in before PROVE FALSE
      OBVIOUS
    <3>1. N \in SUBSET (before \ {x})
      BY <1>1, <1>5, <1>6, <1>7
    <3>2. before \ {x} \in SUBSET Leads
      BY <1>8
    <3>3. Cardinality(N) <= Cardinality(before \ {x})
      BY <3>1, <3>2, Smaller
    <3>4. Cardinality(before \ {x}) = Cardinality(before) - 1
      BY <1>9, FS_RemoveElement
    <3>5. Cardinality(before) <= Offset(page)
      <4>1. Cardinality(L) \in Nat
        BY <1>1, Subsets
      <4> QED
        BY <1>1, <1>2, <1>3, <4>1, FirstType
    <3> QED
      BY <1>2, <1>9, <1>11, <3>3, <3>4, <3>5
  <2>2. rows \in SUBSET N
    BY <1>1, <1>4, <1>5, <1>8, <1>11, <2>1
  <2>3. rows # L \ before
    BY <1>1, <1>11, <2>1
  <2>4. Cardinality(rows) = PageSize
    BY <1>1, <1>3, <1>8, <2>3, FirstAll
  <2>5. Cardinality(before \union rows) = Offset(page) + PageSize
    BY <1>8, <1>9, <1>10, <2>1, <2>4, Apart
  <2>6. Cardinality(before \union rows) <= Cardinality(N)
    BY <1>1, <1>10, <2>1, <2>2, Smaller
  <2> QED
    BY <1>1, <1>2, <1>9, <2>4, <2>5, <2>6
<1>12. ASSUME x \in rows
       PROVE  /\ Cardinality(N) >= Offset(page)
              /\ Cardinality(N) < Offset(page) + PageSize
  <2>1. x \notin before
    BY <1>8, <1>12
  <2>2. Cardinality(N) >= Offset(page)
    BY <1>1, <1>2, <1>9, <1>10, <2>1, Smaller
  <2>3. N \in SUBSET (before \union (rows \ {x}))
    BY <1>1, <1>5, <1>6, <1>8, <1>12
  <2>4. /\ rows \ {x} \in SUBSET Leads
        /\ before \intersect (rows \ {x}) = {}
        /\ before \union (rows \ {x}) \in SUBSET Leads
    BY <1>8, <1>9
  <2>5. Cardinality(N) <= Cardinality(before) + Cardinality(rows \ {x})
    BY <1>8, <2>3, <2>4, Smaller, Apart
  <2>6. Cardinality(rows \ {x}) = Cardinality(rows) - 1
    BY <1>9, <1>12, FS_RemoveElement
  <2>7. Cardinality(rows) <= PageSize
    BY PageSizes
  <2> QED
    BY <1>1, <1>2, <1>9, <1>10, <2>1, <2>2, <2>5, <2>6, <2>7
<1> QED
  BY <1>11, <1>12 DEF N

-----------------------------------------------------------------------------
(* The inductive invariant.                                                *)

Asking == pc \in {"filter", "count", "page"}

\* What has been seen has a created_at that no longer changes.
Seen ==
    /\ \A l \in present \union shown \union report.rows :
          stage[l] \in {"stored", "gone"}
    /\ \A l \in Leads : stage[l] # "none" => created_at[l] <= clock
    /\ pc # "stats" => \A l \in report.rows : created_at[l] <= report.now

\* What could be listed at the start can be listed still.
StillThere == Reading /\ ~went => present \subseteq Listed(filter)

\* A lead not shown yet has its place on a page still to come ...
Ahead ==
    ~went => \A x \in present : Alone(x) /\ x \notin shown =>
        /\ Asking => Cardinality(Newer(x)) >= Offset(page)
        /\ pc = "answered" => /\ Cardinality(items) = PageSize
                              /\ Cardinality(Newer(x)) >= Offset(page) + PageSize
        /\ pc # "read"

\* ... and one that has been shown, on a page that has been read.
Behind ==
    ~came =>
        /\ \A x \in twice : ~Alone(x)
        /\ \A x \in shown : Alone(x) =>
              /\ Asking => Cardinality(Newer(x)) < Offset(page)
              /\ pc = "answered" => Cardinality(Newer(x)) < Offset(page) + PageSize

\* The list is as long as it was counted.
Promised ==
    ~went => /\ pc = "page" => Cardinality(Listed(filter)) >= total
             /\ TotalIsKept

IInv == TypeOK /\ Seen /\ StillThere /\ Ahead /\ Behind /\ Promised

LEMMA InitInv == Init => IInv
<1> SUFFICES ASSUME Init PROVE IInv
  OBVIOUS
<1>1. TypeOK
  <2>1. Cardinality({}) = 0
    BY FS_EmptySet
  <2>2. 0 \in 0..Horizon /\ 0 <= PageSize
    BY SizesAssumption
  <2>3. report \in [rows : SUBSET Leads, now : 0..Horizon,
                    offset : Offsets \union {0}]
    BY <2>2 DEF Init, NoReport
  <2>4. Cardinality(items) <= PageSize
    BY <2>1, <2>2 DEF Init
  <2>5. /\ clock \in 0..Horizon
        /\ created_at \in [Leads -> 0..Horizon]
        /\ stage \in [Leads -> {"none", "flushed", "stored", "gone"}]
    BY <2>2 DEF Init
  <2>6. page \in Nat \ {0} /\ total \in Nat
    BY DEF Init
  <2>7. came \in BOOLEAN /\ went \in BOOLEAN
    BY Zenon DEF Init
  <2>8. /\ widgets \in SUBSET Widgets /\ widget_id \in [Leads -> Widgets]
        /\ filter \in Widgets \union {All}
        /\ pc \in {"idle", "filter", "count", "page", "answered", "read", "stats"}
    BY DEF Init
  <2>9. /\ items \in SUBSET Leads /\ present \in SUBSET Leads
        /\ shown \in SUBSET Leads /\ twice \in SUBSET shown
    BY DEF Init
  <2> QED
    BY <2>3, <2>4, <2>5, <2>6, <2>7, <2>8, <2>9, Zenon DEF TypeOK
<1>2. Seen
  BY DEF Init, Seen, NoReport
<1>3. StillThere /\ Ahead /\ Behind
  BY DEF Init, StillThere, Ahead, Behind, Reading
<1>4. Promised
  BY DEF Init, Promised, TotalIsKept
<1> QED
  BY <1>1, <1>2, <1>3, <1>4 DEF IInv

-----------------------------------------------------------------------------
(* The table moves.                                                        *)

Moves ==
    \/ \E l \in Leads : Flush(l) \/ Commit(l)
    \/ \E w \in Widgets : DeleteWidget(w)
    \/ Tick

\* A lead's stage only moves on, and its created_at is set once.
LEMMA MovesKeep ==
    ASSUME TypeOK, Moves
    PROVE  /\ UNCHANGED <<pc, walk, report>>
           /\ clock' \in Nat /\ clock' >= clock
           /\ \A l \in Leads :
                 stage[l] # "none" => /\ created_at'[l] = created_at[l]
                                      /\ stage'[l] # "none"
           /\ \A l \in Leads :
                 stage[l] = "none" /\ stage'[l] # "none" => created_at'[l] = clock
           /\ \A l \in Leads :
                 stage[l] \in {"stored", "gone"} => stage'[l] \in {"stored", "gone"}
<1>1. ASSUME NEW l \in Leads, Flush(l)
      PROVE  /\ clock' = clock
             /\ \A m \in Leads \ {l} : /\ created_at'[m] = created_at[m]
                                       /\ stage'[m] = stage[m]
             /\ stage[l] = "none" /\ created_at'[l] = clock
  BY <1>1 DEF Flush, TypeOK
<1>2. ASSUME NEW l \in Leads, Commit(l)
      PROVE  /\ UNCHANGED <<clock, created_at>>
             /\ \A m \in Leads \ {l} : stage'[m] = stage[m]
             /\ stage[l] = "flushed" /\ stage'[l] = "stored"
  BY <1>2 DEF Commit, TypeOK
<1>3. ASSUME NEW w \in Widgets, DeleteWidget(w)
      PROVE  /\ UNCHANGED <<clock, created_at>>
             /\ \A m \in Leads : \/ stage'[m] = stage[m]
                                 \/ stage[m] = "stored" /\ stage'[m] = "gone"
  BY <1>3 DEF DeleteWidget, TypeOK
<1>4. CASE Tick
  BY <1>4 DEF Tick, TypeOK, walk
<1>5. UNCHANGED <<pc, walk, report>>
  BY DEF Moves, Flush, Commit, DeleteWidget, Tick
<1>6. clock \in Nat
  BY DEF TypeOK
<1> QED
  BY <1>1, <1>2, <1>3, <1>4, <1>5, <1>6 DEF Moves

LEMMA MovesAlone ==
    ASSUME TypeOK, Moves, NEW x \in Leads, stage[x] # "none", Alone(x)'
    PROVE  Alone(x)
BY MovesKeep DEF Alone

\* Unless a widget is deleted nothing leaves the list, and unless a lead is
\* committed nothing enters it.
LEMMA MovesListed ==
    ASSUME TypeOK, Moves
    PROVE  /\ Reading /\ ~went' => Listed(filter) \subseteq Listed(filter)'
           /\ Reading /\ ~came' => Listed(filter)' \subseteq Listed(filter)
           /\ (went => went') /\ (came => came')
<1>1. CASE \E l \in Leads : Flush(l)
  BY <1>1 DEF Flush, TypeOK, Listed, Stored, walk, seen
<1>2. CASE \E l \in Leads : Commit(l)
  <2>1. Listed(filter) \subseteq Listed(filter)'
    BY <1>2 DEF Commit, TypeOK, Listed, Stored, walk
  <2>2. came' = (came \/ Reading) /\ went' = went
    BY <1>2 DEF Commit
  <2> QED
    BY <2>1, <2>2, Zenon
<1>3. CASE \E w \in Widgets : DeleteWidget(w)
  <2>1. Listed(filter)' \subseteq Listed(filter)
    BY <1>3 DEF DeleteWidget, TypeOK, Listed, Stored, walk
  <2>2. went' = (went \/ Reading) /\ came' = came
    BY <1>3 DEF DeleteWidget
  <2> QED
    BY <2>1, <2>2, Zenon
<1>4. CASE Tick
  BY <1>4 DEF Tick, TypeOK, Listed, Stored, walk, seen
<1> QED
  BY <1>1, <1>2, <1>3, <1>4 DEF Moves

LEMMA MovesType == TypeOK /\ Moves => TypeOK'
<1> SUFFICES ASSUME TypeOK, Moves PROVE TypeOK'
  OBVIOUS
<1> USE SizesAssumption
<1>1. CASE \E l \in Leads : Flush(l)
  BY <1>1 DEF Flush, TypeOK, walk, seen
<1>2. CASE \E l \in Leads : Commit(l)
  BY <1>2 DEF Commit, TypeOK, walk
<1>3. CASE \E w \in Widgets : DeleteWidget(w)
  BY <1>3 DEF DeleteWidget, TypeOK, walk
<1>4. CASE Tick
  BY <1>4 DEF Tick, TypeOK, walk, seen
<1> QED
  BY <1>1, <1>2, <1>3, <1>4 DEF Moves

LEMMA MovesInv == IInv /\ Moves => IInv'
<1> SUFFICES ASSUME IInv, Moves PROVE IInv'
  OBVIOUS
<1> USE DEF IInv
<1>1. TypeOK'
  BY MovesType
<1>2. UNCHANGED <<pc, filter, page, total, items, present, shown, twice, report>>
  BY MovesKeep DEF walk
<1>3. /\ present \in SUBSET Leads /\ shown \in SUBSET Leads
      /\ twice \in SUBSET shown /\ report.rows \in SUBSET Leads
  BY DEF TypeOK
<1>4. \A l \in present \union shown \union report.rows :
         /\ created_at'[l] = created_at[l]
         /\ stage'[l] \in {"stored", "gone"}
  BY <1>3, MovesKeep DEF Seen
<1>5. Seen'
  <2>1. clock \in Int /\ clock' \in Int /\ clock' >= clock
    BY MovesKeep DEF TypeOK
  <2>2. \A l \in Leads : created_at[l] \in Int
    BY DEF TypeOK
  <2>3. \A l \in Leads : stage'[l] # "none" => created_at'[l] <= clock'
    BY <2>1, <2>2, MovesKeep DEF Seen
  <2> QED
    BY <1>2, <1>3, <1>4, <2>3 DEF Seen
<1>6. StillThere'
  BY <1>2, MovesListed DEF StillThere, Reading
<1>7. ASSUME NEW x \in present \union shown
      PROVE  /\ Alone(x)' => Alone(x)
             /\ Newer(x) \in SUBSET Leads /\ Newer(x)' \in SUBSET Leads
             /\ Reading /\ ~went' => Newer(x) \subseteq Newer(x)'
             /\ Reading /\ ~came' => Newer(x)' \subseteq Newer(x)
  <2>1. x \in Leads /\ stage[x] # "none"
    BY <1>3, <1>7 DEF Seen
  <2>2. Listed(filter) \in SUBSET Leads /\ Listed(filter)' \in SUBSET Leads
    BY <1>1, ListedType DEF TypeOK, Listed, Stored
  <2>3. \A y \in Listed(filter) : created_at'[y] = created_at[y]
    BY MovesKeep DEF Listed, Stored
  <2> QED
    BY <1>4, <1>7, <2>1, <2>2, <2>3, MovesAlone, MovesListed DEF Newer
<1>8. ASSUME NEW x \in present \union shown
      PROVE  /\ Reading /\ ~went' => Cardinality(Newer(x)) <= Cardinality(Newer(x)')
             /\ Reading /\ ~came' => Cardinality(Newer(x)') <= Cardinality(Newer(x))
             /\ Cardinality(Newer(x)) \in Nat /\ Cardinality(Newer(x)') \in Nat
  BY <1>7, Smaller, Subsets
<1>9. Offset(page) \in Nat /\ Offset(page)' = Offset(page) /\ PageSize \in Nat
  BY <1>2, OffsetType, SizesAssumption DEF TypeOK, Offset
<1>10. Asking \/ pc = "answered" => Reading
  BY DEF Asking, Reading
<1>11. Ahead'
  <2> SUFFICES ASSUME ~went', NEW x \in present, Alone(x)', x \notin shown
               PROVE  /\ Asking => Cardinality(Newer(x)') >= Offset(page)
                      /\ pc = "answered" =>
                            /\ Cardinality(items) = PageSize
                            /\ Cardinality(Newer(x)') >= Offset(page) + PageSize
                      /\ pc # "read"
    BY <1>2, <1>9 DEF Ahead, Asking
  <2>1. Alone(x) /\ ~went
    BY <1>7, MovesListed
  <2>2. /\ Asking => Cardinality(Newer(x)) >= Offset(page)
        /\ pc = "answered" => /\ Cardinality(items) = PageSize
                              /\ Cardinality(Newer(x)) >= Offset(page) + PageSize
        /\ pc # "read"
    BY <2>1 DEF Ahead
  <2> QED
    BY <2>2, <1>8, <1>9, <1>10
<1>12. Behind'
  <2> SUFFICES ASSUME ~came'
               PROVE  /\ \A x \in twice : ~Alone(x)'
                      /\ \A x \in shown : Alone(x)' =>
                            /\ Asking => Cardinality(Newer(x)') < Offset(page)
                            /\ pc = "answered" =>
                                  Cardinality(Newer(x)') < Offset(page) + PageSize
    BY <1>2, <1>9 DEF Behind, Asking
  <2>1. ~came
    BY MovesListed
  <2>2. \A x \in twice : ~Alone(x)'
    BY <2>1, <1>3, <1>7 DEF Behind
  <2>3. ASSUME NEW x \in shown, Alone(x)'
        PROVE  /\ Asking => Cardinality(Newer(x)') < Offset(page)
               /\ pc = "answered" => Cardinality(Newer(x)') < Offset(page) + PageSize
    <3>1. Alone(x)
      BY <1>7, <2>3
    <3>2. /\ Asking => Cardinality(Newer(x)) < Offset(page)
          /\ pc = "answered" => Cardinality(Newer(x)) < Offset(page) + PageSize
      BY <2>1, <3>1 DEF Behind
    <3> QED
      BY <3>2, <1>8, <1>9, <1>10
  <2> QED
    BY <2>2, <2>3
<1>13. Promised'
  <2>1. ~went' => ~went
    BY MovesListed
  <2>2. ~went' /\ pc = "page" => Cardinality(Listed(filter)') >= total
    <3> SUFFICES ASSUME ~went', pc = "page"
                 PROVE  Cardinality(Listed(filter)') >= total
      OBVIOUS
    <3>1. Listed(filter) \subseteq Listed(filter)'
      BY MovesListed DEF Reading
    <3>2. Listed(filter) \in SUBSET Leads /\ Listed(filter)' \in SUBSET Leads
      BY <1>1, ListedType DEF TypeOK, Listed, Stored
    <3>3. /\ Cardinality(Listed(filter)) <= Cardinality(Listed(filter)')
          /\ Cardinality(Listed(filter)) \in Nat /\ Cardinality(Listed(filter)') \in Nat
      BY <3>1, <3>2, Smaller, Subsets
    <3> QED
      BY <2>1, <3>3 DEF Promised, TypeOK
  <2> QED
    BY <1>2, <1>9, <2>1, <2>2 DEF Promised, TotalIsKept
<1> QED
  BY <1>1, <1>5, <1>6, <1>11, <1>12, <1>13

-----------------------------------------------------------------------------
(* The reader reads.                                                       *)

LEMMA StartType == TypeOK /\ (Start \/ ReadRows) => TypeOK'
<1> SUFFICES ASSUME TypeOK, Start \/ ReadRows PROVE TypeOK'
  OBVIOUS
<1>1. /\ UNCHANGED table
      /\ page' = 1 /\ total' = 0
      /\ items' = {} /\ shown' = {} /\ twice' = {}
  BY DEF Start, ReadRows, Forget
<1>2. /\ filter' \in Widgets \union {All}
      /\ present' \in SUBSET Leads
      /\ pc' \in {"filter", "count", "stats"}
  BY DEF Start, ReadRows, Listed, Stored
<1>3. report' \in [rows : SUBSET Leads, now : 0..Horizon, offset : Offsets \union {0}]
  <2>1. 0 \in 0..Horizon
    BY SizesAssumption
  <2>2. report' = NoReport \/ report' = [NoReport EXCEPT !.rows = Stored]
    BY DEF Start, ReadRows
  <2> QED
    BY <2>1, <2>2 DEF NoReport, Stored
<1>4. came' \in BOOLEAN /\ went' \in BOOLEAN
  BY DEF Start, ReadRows, Forget
<1>5. Cardinality(items') <= PageSize
  BY <1>1, FS_EmptySet, SizesAssumption
<1>6. /\ clock' \in 0..Horizon
      /\ widgets' \in SUBSET Widgets
      /\ widget_id' \in [Leads -> Widgets]
      /\ created_at' \in [Leads -> 0..Horizon]
      /\ stage' \in [Leads -> {"none", "flushed", "stored", "gone"}]
  BY <1>1 DEF TypeOK, table
<1>7. page' \in Nat \ {0} /\ total' \in Nat
  BY <1>1
<1>8. items' \in SUBSET Leads /\ shown' \in SUBSET Leads /\ twice' \in SUBSET shown'
  BY <1>1
<1>9. pc' \in {"idle", "filter", "count", "page", "answered", "read", "stats"}
  BY <1>2
<1> HIDE DEF Start, ReadRows
<1> QED
  BY <1>2, <1>3, <1>4, <1>5, <1>6, <1>7, <1>8, <1>9, Zenon DEF TypeOK

LEMMA StartInv == IInv /\ (Start \/ ReadRows) => IInv'
<1> SUFFICES ASSUME IInv, Start \/ ReadRows PROVE IInv'
  OBVIOUS
<1> USE DEF IInv
<1>1. /\ UNCHANGED table
      /\ page' = 1 /\ total' = 0
      /\ items' = {} /\ shown' = {} /\ twice' = {}
      /\ ~came' /\ ~went'
  BY DEF Start, ReadRows, Forget
<1>2. /\ filter' \in Widgets \union {All}
      /\ present' \in SUBSET Listed(filter')
      /\ pc' \in {"filter", "count", "stats"}
  BY DEF Start, ReadRows
<1>3. \/ report' = NoReport
      \/ pc' = "stats" /\ report' = [NoReport EXCEPT !.rows = Stored]
  BY DEF Start, ReadRows
<1>4. Listed(filter)' = Listed(filter')
  BY <1>1 DEF Listed, Stored, table
<1>5. present' \in SUBSET Leads
  BY <1>2 DEF Listed, Stored
<1>6. TypeOK'
  BY StartType
<1>7. Seen'
  <2>1. \A l \in present' \union shown' : stage'[l] \in {"stored", "gone"}
    BY <1>1, <1>2 DEF Listed, Stored, table
  <2>2. \A l \in Leads : stage'[l] # "none" => created_at'[l] <= clock'
    BY <1>1 DEF Seen, table
  <2>3. CASE report' = NoReport
    BY <2>1, <2>2, <2>3 DEF Seen, NoReport
  <2>4. CASE pc' = "stats" /\ report' = [NoReport EXCEPT !.rows = Stored]
    <3>1. \A l \in report'.rows : stage'[l] = "stored"
      BY <1>1, <2>4 DEF NoReport, Stored, table
    <3> QED
      BY <2>1, <2>2, <2>4, <3>1 DEF Seen
  <2> QED
    BY <1>3, <2>3, <2>4
<1>8. StillThere'
  BY <1>2, <1>4 DEF StillThere
<1>9. Ahead'
  <2>1. Offset(page') = 0
    BY <1>1, SizesAssumption DEF Offset
  <2>2. \A x \in present' : Cardinality(Newer(x)') >= 0
    <3>1. \A x \in Leads : Newer(x)' \in SUBSET Leads
      BY DEF Newer, Listed, Stored
    <3> QED
      BY <1>5, <3>1, Subsets
  <2> QED
    BY <1>2, <2>1, <2>2 DEF Ahead, Offset
<1>10. Behind'
  BY <1>1 DEF Behind
<1>11. Promised'
  BY <1>2 DEF Promised, TotalIsKept
<1> QED
  BY <1>6, <1>7, <1>8, <1>9, <1>10, <1>11

\* The steps of a call change neither the table nor the places in it.
LEMMA Still ==
    ASSUME UNCHANGED <<table, filter, page>>
    PROVE  /\ \A x : Alone(x)' <=> Alone(x)
           /\ \A x : Newer(x)' = Newer(x)
           /\ Listed(filter)' = Listed(filter)
           /\ Offset(page)' = Offset(page)
BY DEF table, Alone, Newer, Listed, Stored, Offset

LEMMA CheckFilterInv == IInv /\ CheckFilter => IInv'
<1> SUFFICES ASSUME IInv, CheckFilter PROVE IInv'
  OBVIOUS
<1> USE DEF IInv
<1>1. /\ UNCHANGED <<table, walk, seen, report>>
      /\ pc = "filter" /\ pc' \in {"count", "idle"}
  BY DEF CheckFilter
<1>2. TypeOK'
  BY <1>1 DEF TypeOK, table, walk, seen
<1>3. Seen'
  BY <1>1 DEF Seen, table, walk
<1>4. StillThere'
  BY <1>1, Still DEF StillThere, Reading, walk, seen
<1>5. Ahead'
  BY <1>1, Still DEF Ahead, Asking, walk, seen
<1>6. Behind'
  BY <1>1, Still DEF Behind, Asking, walk, seen
<1>7. Promised'
  BY <1>1 DEF Promised, TotalIsKept
<1> QED
  BY <1>2, <1>3, <1>4, <1>5, <1>6, <1>7

LEMMA CountInv == IInv /\ Count => IInv'
<1> SUFFICES ASSUME IInv, Count PROVE IInv'
  OBVIOUS
<1> USE DEF IInv
<1>1. /\ UNCHANGED <<table, filter, page, items, present, shown, twice, seen, report>>
      /\ pc = "count" /\ pc' = "page"
      /\ total' = Cardinality(Listed(filter))
  BY DEF Count, counted
<1>2. Cardinality(Listed(filter)) \in Nat
  BY ListedType, Subsets
<1>3. TypeOK'
  BY <1>1, <1>2 DEF TypeOK, table, seen
<1>4. Seen'
  BY <1>1 DEF Seen, table
<1>5. StillThere'
  BY <1>1, Still DEF StillThere, Reading, seen
<1>6. Ahead'
  BY <1>1, Still DEF Ahead, Asking, seen
<1>7. Behind'
  BY <1>1, Still DEF Behind, Asking, seen
<1>8. Promised'
  BY <1>1, <1>2, Still DEF Promised, TotalIsKept
<1> QED
  BY <1>3, <1>4, <1>5, <1>6, <1>7, <1>8

LEMMA FetchPageInv == IInv /\ FetchPage => IInv'
<1> SUFFICES ASSUME IInv, FetchPage PROVE IInv'
  OBVIOUS
<1> USE DEF IInv
<1>1. PICK rows \in Rows(page) :
         /\ items' = rows
         /\ shown' = shown \union rows
         /\ twice' = twice \union (shown \intersect rows)
  BY DEF FetchPage
<1>2. /\ UNCHANGED <<table, filter, page, total, present, seen, report>>
      /\ pc = "page" /\ pc' = "answered"
  BY DEF FetchPage
<1>3. /\ rows \in SUBSET Listed(filter) /\ Cardinality(rows) <= PageSize
      /\ \/ Cardinality(rows) >= PageSize
         \/ Cardinality(rows) >= Cardinality(Listed(filter)) - Offset(page)
  BY PageSizes
<1>4. rows \in SUBSET Leads /\ \A x \in rows : stage[x] = "stored"
  BY <1>3 DEF Listed, Stored
<1>5. TypeOK'
  BY <1>1, <1>2, <1>3, <1>4 DEF TypeOK, table, seen
<1>6. Seen'
  BY <1>1, <1>2, <1>4 DEF Seen, table
<1>7. StillThere'
  BY <1>2, Still DEF StillThere, Reading, seen
<1>8. Offset(page) \in Nat /\ PageSize \in Nat
  BY OffsetType, SizesAssumption DEF TypeOK
<1>9. \A x \in Leads : Cardinality(Newer(x)) \in Nat
  BY ListedType, Subsets
<1>10. Ahead'
  <2> SUFFICES ASSUME ~went, NEW x \in present, Alone(x), x \notin shown, x \notin rows
               PROVE  /\ Cardinality(rows) = PageSize
                      /\ Cardinality(Newer(x)) >= Offset(page) + PageSize
    BY <1>1, <1>2, Still DEF Ahead, Asking, seen
  <2>1. x \in Listed(filter)
    BY <1>2 DEF StillThere, Reading
  <2>2. Cardinality(Newer(x)) >= Offset(page)
    BY <1>2 DEF Ahead, Asking
  <2> QED
    BY <2>1, <2>2, PagePlace
<1>11. Behind'
  <2> SUFFICES ASSUME ~came
               PROVE  /\ \A x \in twice \union (shown \intersect rows) : ~Alone(x)
                      /\ \A x \in shown \union rows : Alone(x) =>
                            Cardinality(Newer(x)) < Offset(page) + PageSize
    BY <1>1, <1>2, Still DEF Behind, Asking, seen
  <2>1. \A x \in shown : Alone(x) => Cardinality(Newer(x)) < Offset(page)
    BY <1>2 DEF Behind, Asking
  <2>2. \A x \in rows : Alone(x) => /\ Cardinality(Newer(x)) >= Offset(page)
                                    /\ Cardinality(Newer(x)) < Offset(page) + PageSize
    BY <1>3, PagePlace
  <2>3. \A x \in shown : x \in Leads
    BY DEF TypeOK
  <2>4. \A x \in twice : ~Alone(x)
    BY DEF Behind
  <2> QED
    BY <1>4, <1>8, <1>9, <2>1, <2>2, <2>3, <2>4
<1>12. Promised'
  <2>1. Cardinality(Listed(filter)) \in Nat /\ total \in Nat /\ Cardinality(rows) \in Nat
    BY <1>4, ListedType, Subsets DEF TypeOK
  <2>2. ~went => Cardinality(Listed(filter)) >= total
    BY <1>2 DEF Promised
  <2>3. ~went => Cardinality(rows) >= PageSize \/ Cardinality(rows) >= total - Offset(page)
    BY <1>3, <1>8, <2>1, <2>2
  <2> QED
    BY <1>1, <1>2, <2>3, Still DEF Promised, TotalIsKept, seen
<1> QED
  BY <1>5, <1>6, <1>7, <1>10, <1>11, <1>12

LEMMA TurnPageInv == IInv /\ TurnPage => IInv'
<1> SUFFICES ASSUME IInv, TurnPage PROVE IInv'
  OBVIOUS
<1> USE DEF IInv
<1>1. /\ UNCHANGED <<table, filter, total, items, present, shown, twice, seen, report>>
      /\ pc = "answered"
      /\ \/ /\ Cardinality(items) = PageSize
            /\ page' = page + 1
            /\ pc' \in {"count", "filter"}
         \/ /\ Cardinality(items) # PageSize
            /\ pc' = "read"
            /\ page' = page
  BY DEF TurnPage
<1>2. page \in Nat \ {0} /\ page' \in Nat \ {0}
  BY <1>1 DEF TypeOK
<1>3. TypeOK'
  BY <1>1, <1>2 DEF TypeOK, table, seen
<1>4. Seen'
  BY <1>1 DEF Seen, table
<1>5. /\ \A x : (Alone(x)' <=> Alone(x)) /\ Newer(x)' = Newer(x)
      /\ Listed(filter)' = Listed(filter)
  BY <1>1 DEF table, Alone, Newer, Listed, Stored
<1>6. StillThere'
  BY <1>1, <1>5 DEF StillThere, Reading, seen
<1>7. pc' \in {"count", "filter"} => Offset(page)' = Offset(page) + PageSize
  BY <1>1, <1>2, OffsetType DEF Offset
<1>8. Ahead'
  BY <1>1, <1>5, <1>7 DEF Ahead, Asking, seen
<1>9. Behind'
  BY <1>1, <1>5, <1>7 DEF Behind, Asking, seen
<1>10. Promised'
  BY <1>1 DEF Promised, TotalIsKept
<1> QED
  BY <1>3, <1>4, <1>6, <1>8, <1>9, <1>10

LEMMA ReadClockInv == IInv /\ ReadClock => IInv'
<1> SUFFICES ASSUME IInv, ReadClock PROVE IInv'
  OBVIOUS
<1> USE DEF IInv
<1>1. PICK o \in Offsets : report' = [report EXCEPT !.now = clock, !.offset = o]
  BY DEF ReadClock
<1>2. UNCHANGED <<table, walk, seen>> /\ pc' = "idle"
  BY DEF ReadClock
<1>3. report'.rows = report.rows /\ report'.now = clock
  BY <1>1 DEF TypeOK
<1>4. TypeOK'
  BY <1>1, <1>2 DEF TypeOK, table, walk, seen
<1>5. Seen'
  <2>1. report.rows \in SUBSET Leads
    BY DEF TypeOK
  <2>2. \A l \in report.rows : created_at[l] <= clock
    BY <2>1 DEF Seen
  <2> QED
    BY <1>2, <1>3, <2>2 DEF Seen, table, walk
<1>6. StillThere' /\ Ahead' /\ Promised'
  BY <1>2 DEF StillThere, Reading, Ahead, Asking, Promised, TotalIsKept
<1>7. Behind'
  BY <1>2, Still DEF Behind, Asking, walk, seen
<1> QED
  BY <1>4, <1>5, <1>6, <1>7

LEMMA NextInv == IInv /\ [Next]_vars => IInv'
<1> SUFFICES ASSUME IInv, [Next]_vars PROVE IInv'
  OBVIOUS
<1>1. CASE Moves
  BY <1>1, MovesInv
<1>2. CASE Start \/ ReadRows
  BY <1>2, StartInv
<1>3. CASE CheckFilter \/ Count \/ FetchPage \/ TurnPage \/ ReadClock
  BY <1>3, CheckFilterInv, CountInv, FetchPageInv, TurnPageInv, ReadClockInv
<1>4. CASE UNCHANGED vars
  <2>1. UNCHANGED <<table, walk, seen, report, pc>>
    BY <1>4 DEF vars
  <2>2. TypeOK' /\ Seen' /\ Promised'
    BY <2>1, Still DEF IInv, TypeOK, Seen, Promised, TotalIsKept, table, walk, seen
  <2>3. StillThere' /\ Ahead' /\ Behind'
    BY <2>1, Still DEF IInv, StillThere, Reading, Ahead, Behind, Asking, walk, seen
  <2> QED
    BY <2>2, <2>3 DEF IInv
<1> QED
  BY <1>1, <1>2, <1>3, <1>4 DEF Next, Moves

\* The day of every instant up to the moment of the report, in whole days.
LEMMA IInvDaysAgree == IInv => DaysAgree
<1> SUFFICES ASSUME IInv, pc # "stats"
             PROVE  LET this_day == local_date(report.now, report.offset) IN
                    /\ today(report) = daily(report, this_day)
                    /\ last_7(report) =
                          UNION {daily(report, d) :
                             d \in {x \in daily_keys(report) : x >= this_day - Week}}
  BY DEF DaysAgree
<1> DEFINE n == report.now
           o == report.offset
           this_day == local_date(n, o)
           date(l) == local_date(created_at[l], o)
<1>1. /\ n \in Int /\ o \in Int
      /\ \A l \in report.rows : created_at[l] \in Int /\ created_at[l] <= n
      /\ Day \in Nat \ {0} /\ Week \in Nat /\ Days \in Nat /\ Week < Days
  <2>1. report.rows \in SUBSET Leads /\ n \in 0..Horizon /\ o \in Offsets \union {0}
    BY DEF IInv, TypeOK
  <2>2. n \in Int /\ o \in Int
    <3>1. 0..Horizon \subseteq Int /\ Offsets \union {0} \subseteq Int
      BY SizesAssumption
    <3> QED
      BY <2>1, <3>1
  <2>3. \A l \in report.rows : created_at[l] \in Int
    BY <2>1 DEF IInv, TypeOK
  <2>4. \A l \in report.rows : created_at[l] <= n
    BY DEF IInv, Seen
  <2> QED
    BY <2>2, <2>3, <2>4, SizesAssumption
<1> HIDE DEF n, o
<1>2. /\ this_day \in Int
      /\ \A k \in Int : this_day >= k <=> n + o >= k * Day
  BY <1>1, DateBounds
<1>3. ASSUME NEW l \in report.rows
      PROVE  /\ date(l) \in Int
             /\ \A k \in Int : date(l) >= k <=> created_at[l] + o >= k * Day
  BY <1>1, DateBounds
<1>4. ASSUME NEW l \in report.rows PROVE date(l) <= this_day
  <2>1. created_at[l] + o >= date(l) * Day
    BY <1>3
  <2>2. date(l) * Day \in Int
    BY <1>1, <1>3
  <2>3. n + o >= date(l) * Day
    BY <1>1, <2>1, <2>2
  <2> QED
    BY <1>2, <1>3, <2>3
<1>5. ASSUME NEW l \in report.rows
      PROVE  /\ created_at[l] >= this_day * Day - o <=> date(l) >= this_day
             /\ created_at[l] >= this_day * Day - o - Week * Day
                  <=> date(l) >= this_day - Week
  <2>1. (this_day - Week) * Day = this_day * Day - Week * Day
    BY <1>1, <1>2
  <2>2. this_day * Day \in Int /\ Week * Day \in Int /\ this_day - Week \in Int
    BY <1>1, <1>2
  <2>3. created_at[l] \in Int
    BY <1>1
  <2>4. /\ date(l) >= this_day <=> created_at[l] + o >= this_day * Day
        /\ date(l) >= this_day - Week
             <=> created_at[l] + o >= (this_day - Week) * Day
    BY <1>2, <1>3, <2>2
  <2> HIDE DEF this_day, date
  <2> QED
    BY <1>1, <2>1, <2>2, <2>3, <2>4
<1>6. today_start(report) = this_day * Day - o
  BY DEF today_start, n, o
<1>7. today(report) = daily(report, this_day)
  <2>1. \A l \in report.rows : date(l) >= this_day <=> date(l) = this_day
    BY <1>2, <1>3, <1>4
  <2>2. today(report) = {l \in report.rows : date(l) >= this_day}
    BY <1>5, <1>6 DEF today
  <2>3. daily(report, this_day) = {l \in report.rows : date(l) = this_day}
    BY DEF daily, o
  <2> QED
    BY <2>1, <2>2, <2>3
<1>8. last_7(report) = UNION {daily(report, d) :
                          d \in {x \in daily_keys(report) : x >= this_day - Week}}
  <2>1. last_7(report) = {l \in report.rows : date(l) >= this_day - Week}
    BY <1>5, <1>6 DEF last_7
  <2>2. daily_keys(report) = (this_day - Days + 1)..this_day
    BY DEF daily_keys, n, o
  <2>3. \A l \in report.rows : date(l) >= this_day - Week
                                 => date(l) \in daily_keys(report)
    BY <1>1, <1>2, <1>3, <1>4, <2>2
  <2>4. \A d : daily(report, d) = {l \in report.rows : date(l) = d}
    BY DEF daily, o
  <2> QED
    BY <2>1, <2>3, <2>4
<1> QED
  BY <1>7, <1>8 DEF n, o

LEMMA IInvShown == IInv => EveryLeadShown
<1> SUFFICES ASSUME IInv PROVE EveryLeadShown
  OBVIOUS
<1>1. pc = "read" /\ ~went => {l \in present : Alone(l)} \subseteq shown
  BY DEF IInv, Ahead
<1>2. ~came => \A l \in twice : ~Alone(l)
  BY DEF IInv, Behind
<1> QED
  BY <1>1, <1>2 DEF EveryLeadShown

LEMMA Invariant == Spec => []IInv
<1>1. Init => IInv
  BY InitInv
<1>2. IInv /\ [Next]_vars => IInv'
  BY NextInv
<1> QED
  BY <1>1, <1>2, PTL DEF Spec

\* Theorem: the dashboard's variables keep their types, and no page of
\* list_submissions holds more than page_size leads.
THEOREM TypeCorrect == Spec => []TypeOK
<1>1. IInv => TypeOK
  BY DEF IInv
<1> QED
  BY <1>1, Invariant, PTL

\* Theorem: whoever turns the pages of list_submissions to the last sees every
\* lead that was there when he began, as long as its created_at is its own and
\* no widget is deleted; and sees none of them twice while none arrives.
THEOREM WalkIsComplete == Spec => []EveryLeadShown
<1>1. IInv => EveryLeadShown
  BY IInvShown
<1> QED
  BY <1>1, Invariant, PTL

\* Theorem: the total list_submissions counts first is not more than what its
\* pages show, as long as no widget is deleted.
THEOREM TotalHolds == Spec => []TotalIsKept
<1>1. IInv => (went \/ TotalIsKept)
  BY DEF IInv, Promised
<1>2. went => TotalIsKept
  BY DEF TotalIsKept
<1>3. IInv => TotalIsKept
  BY <1>1, <1>2
<1> QED
  BY <1>3, Invariant, PTL

\* Theorem: today, last_7_days and daily of one StatsOut put every lead on the
\* same local day, whatever the length of a day and the offset of the reader.
THEOREM ReportAgrees == Spec => []DaysAgree
<1>1. IInv => DaysAgree
  BY IInvDaysAgree
<1> QED
  BY <1>1, Invariant, PTL

=============================================================================
