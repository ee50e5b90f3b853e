----------------------------- MODULE PagingProofs -----------------------------
(***************************************************************************)
(* For every table, every width of ints and all sizes of pages: replies      *)
(* have as many rows as the reference says, and readers of all pages count  *)
(* the rows of the lock.                                                   *)
(***************************************************************************)
EXTENDS HistoryPaging, FiniteSetTheorems, TLAPS

-----------------------------------------------------------------------------
(* Arithmetic.                                                             *)

LEMMA ProductsIncrease ==
  ASSUME NEW a \in Int, NEW b \in Int, NEW s \in Nat, a <= b
  PROVE  a * s <= b * s
OBVIOUS

LEMMA NextProduct ==
  ASSUME NEW a \in Int, NEW s \in Int
  PROVE  (a + 1) * s = a * s + s
OBVIOUS

LEMMA Division ==
  ASSUME NEW n \in Nat, NEW s \in Nat \ {0}
  PROVE  /\ n \div s \in Nat
         /\ (n \div s) * s <= n
         /\ n < (n \div s) * s + s
OBVIOUS

LEMMA WrappedIsInt ==
  ASSUME NEW n \in Int
  PROVE  Wrapped(n) \in Int32
BY PagingAssumption DEF Wrapped, Int32, MinInt

LEMMA WrappedKeepsInts ==
  ASSUME NEW n \in Int32
  PROVE  Wrapped(n) = n
BY PagingAssumption DEF Wrapped, Int32, MinInt

(* The number k - 1 falls in the group p - 1 exactly if k is between the     *)
(* bounds of the page.                                                     *)
LEMMA Groups ==
  ASSUME NEW k \in Nat \ {0}, NEW p \in Nat \ {0}, NEW s \in Nat \ {0}
  PROVE  (k - 1) \div s + 1 = p <=> k \in ((p - 1) * s + 1)..((p - 1) * s + s)
<1> DEFINE q == (k - 1) \div s
<1>1. q \in Nat /\ q * s <= k - 1 /\ k - 1 < q * s + s
  BY Division
<1>2. p - 1 \in Int /\ (p - 1) * s \in Int /\ q * s \in Int
  BY <1>1
<1> HIDE DEF q
<1>3. CASE q = p - 1
  BY <1>1, <1>2, <1>3 DEF q
<1>4. CASE q < p - 1
  <2>1. (q + 1) * s <= (p - 1) * s
    BY <1>1, <1>2, <1>4, ProductsIncrease
  <2>2. (q + 1) * s = q * s + s
    BY <1>1, NextProduct
  <2> QED
    BY <1>1, <1>2, <1>4, <2>1, <2>2 DEF q
<1>5. CASE q > p - 1
  <2>1. ((p - 1) + 1) * s <= q * s
    BY <1>1, <1>2, <1>5, ProductsIncrease
  <2>2. ((p - 1) + 1) * s = (p - 1) * s + s
    BY <1>2, NextProduct
  <2> QED
    BY <1>1, <1>2, <1>5, <2>1, <2>2 DEF q
<1> QED
  BY <1>1, <1>2, <1>3, <1>4, <1>5

(* What Skip and Take leave is what the reference has on the page.          *)
LEMMA TakenIsReference ==
  ASSUME NEW n \in Nat, NEW p \in Nat \ {0}, NEW s \in Nat \ {0}
  PROVE  Taken(n, (p - 1) * s, s) = RowsOnPage(n, p, s)
<1> DEFINE low == (p - 1) * s
           top == IF n < low + s THEN n ELSE low + s
<1>1. low \in Nat
  <2>1. 0 * s <= (p - 1) * s
    BY ProductsIncrease
  <2>2. 0 * s = 0 /\ (p - 1) * s \in Int
    OBVIOUS
  <2> QED
    BY <2>1, <2>2
<1> HIDE DEF low
<1>2. {k \in 1..n : (k - 1) \div s + 1 = p} = (low + 1)..top
  <2>1. \A k \in 1..n : (k - 1) \div s + 1 = p <=> k \in (low + 1)..(low + s)
    BY Groups DEF low
  <2> QED
    BY <1>1, <2>1
<1>3. Cardinality((low + 1)..top) = IF low + 1 > top THEN 0 ELSE top - (low + 1) + 1
  BY <1>1, FS_Interval
<1>4. RowsOnPage(n, p, s) = Cardinality((low + 1)..top)
  BY <1>2 DEF RowsOnPage
<1>5. Taken(n, low, s) = IF low >= n THEN 0 ELSE IF n - low < s THEN n - low ELSE s
  BY DEF Taken
<1>6. Taken(n, low, s) = Cardinality((low + 1)..top)
  BY <1>1, <1>3, <1>5
<1> QED
  BY <1>4, <1>6 DEF low

-----------------------------------------------------------------------------
(* The query.                                                              *)

LEMMA Accepted ==
  ASSUME NEW page \in Int32, NEW size \in Int32
  PROVE  /\ AcceptedPage(page) \in Int32 /\ AcceptedPage(page) \in Nat \ {0}
         /\ AcceptedSize(size) \in DefaultSize..LargestSize
         /\ AcceptedSize(size) \in Nat \ {0}
         /\ AcceptedSize(size) \in Int32
BY PagingAssumption DEF AcceptedPage, AcceptedSize, Int32, MinInt

LEMMA OffsetIsInt ==
  ASSUME NEW page \in Int, NEW count \in Int
  PROVE  Offset(page, count) \in Int32 /\ Offset(page, count) \in Int
<1>1. \A n \in Int32 : n \in Int
  BY PagingAssumption DEF Int32, MinInt
<1>2. (page - 1) * count \in Int
  OBVIOUS
<1> QED
  BY <1>1, <1>2, WrappedIsInt DEF Offset

LEMMA OffsetThatFits ==
  ASSUME NEW page \in Nat \ {0}, NEW count \in Nat, (page - 1) * count <= MaxInt
  PROVE  Offset(page, count) = (page - 1) * count /\ (page - 1) * count \in Nat
<1>1. 0 * count <= (page - 1) * count
  BY ProductsIncrease
<1>2. 0 * count = 0 /\ (page - 1) * count \in Int
  OBVIOUS
<1>3. (page - 1) * count \in Int32
  BY <1>1, <1>2, PagingAssumption DEF Int32, MinInt
<1> QED
  BY <1>1, <1>2, <1>3, WrappedKeepsInts DEF Offset

LEMMA RowsAreFinite ==
  ASSUME NEW l, IsFiniteSet(table)
  PROVE  IsFiniteSet(RowsOf(l)) /\ Cardinality(RowsOf(l)) \in Nat
<1>1. RowsOf(l) \in SUBSET table
  BY DEF RowsOf
<1>2. IsFiniteSet(RowsOf(l))
  BY <1>1, FS_Subset
<1> QED
  BY <1>2, FS_CardinalityType

LEMMA RepliesAreTyped ==
  ASSUME NEW l, NEW offset \in Int, NEW count, table \in SUBSET Rows,
         NEW reply \in RepliesTo(l, offset, count)
  PROVE  reply \in Replies
<1>1. \A S \in Selections(l, offset, count) : S \in SUBSET Rows
  BY DEF Selections, RowsOf
<1>2. CASE offset < 0
  BY <1>2 DEF RepliesTo, Replies, Statuses
<1>3. CASE ~(offset < 0)
  BY <1>1, <1>3 DEF RepliesTo, Replies, Statuses
<1> QED
  BY <1>2, <1>3

LEMMA RowsOfReplies ==
  ASSUME NEW l, NEW offset \in Int, NEW count,
         NEW reply \in RepliesTo(l, offset, count)
  PROVE  reply.rows \in SUBSET table
<1>1. \A S \in Selections(l, offset, count) : S \in SUBSET table
  BY DEF Selections, RowsOf
<1>2. CASE offset < 0
  BY <1>2 DEF RepliesTo
<1>3. CASE ~(offset < 0)
  BY <1>1, <1>3 DEF RepliesTo
<1> QED
  BY <1>2, <1>3

(* A list has as many rows as Skip and Take leave.                         *)
LEMMA RepliesToFit ==
  ASSUME NEW l, NEW offset \in Nat, NEW count,
         NEW reply \in RepliesTo(l, offset, count)
  PROVE  /\ reply.status = 200
         /\ Cardinality(reply.rows) = Taken(Cardinality(RowsOf(l)), offset, count)
BY DEF RepliesTo, Selections

-----------------------------------------------------------------------------
(* The table is finite, because rows come one by one.                      *)

TableInv == TypeOK /\ IsFiniteSet(table)

LEMMA NothingTyped == NoRequest \in [lock: Locks, page: Int32, size: Int32, offset: Int32,
                                     total: Nat, reply: Replies]
                      /\ NoWalk \in [lock: Locks, size: DefaultSize..LargestSize, page: Nat,
                                     counted: Nat, seen: SUBSET Rows, undisturbed: BOOLEAN,
                                     state: {"none", "walking", "done"}]
<1>1. (CHOOSE l \in Locks : TRUE) \in Locks
  BY PagingAssumption
<1>2. 1 \in Int32
  BY PagingAssumption DEF Int32, MinInt
<1> QED
  BY <1>1, <1>2, PagingAssumption DEF NoRequest, NoWalk, Replies, Statuses, Int32, MinInt

LEMMA PagingInit == Init => TableInv /\ PageIsReference
<1> SUFFICES ASSUME Init PROVE TableInv /\ PageIsReference
  OBVIOUS
<1>1. TypeOK
  BY NothingTyped DEF Init, TypeOK
<1>2. IsFiniteSet(table)
  BY FS_EmptySet DEF Init
<1>3. PageIsReference
  BY DEF Init, PageIsReference, NoRequest
<1> QED
  BY <1>1, <1>2, <1>3 DEF TableInv

LEMMA GetHistoryKeeps ==
  ASSUME TableInv, NEW l \in Locks, NEW page \in Pages, NEW size \in Sizes,
         GetHistory(l, page, size)
  PROVE  TableInv' /\ PageIsReference'
<1> DEFINE count == AcceptedSize(size)
           from == AcceptedPage(page)
           offset == Offset(from, count)
<1>1. page \in Int32 /\ size \in Int32
  BY PagingAssumption
<1>2. /\ from \in Nat \ {0} /\ count \in Nat \ {0}
      /\ offset \in Int32 /\ offset \in Int
  <2>1. from \in Nat \ {0} /\ count \in Nat \ {0}
    BY <1>1, Accepted
  <2> QED
    BY <2>1, OffsetIsInt
<1>3. PICK reply \in RepliesTo(l, offset, count) :
        last' = [lock |-> l, page |-> page, size |-> size,
                 offset |-> offset, total |-> Cardinality(RowsOf(l)), reply |-> reply]
  BY DEF GetHistory
<1>4. walk' = NoWalk /\ table' = table
  BY DEF GetHistory
<1> HIDE DEF offset
<1>5. Cardinality(RowsOf(l)) \in Nat
  BY RowsAreFinite DEF TableInv
<1>6. reply \in Replies
  BY <1>2, RepliesAreTyped DEF TableInv, TypeOK
<1>7. TableInv'
  <2>1. last' \in [lock: Locks, page: Int32, size: Int32, offset: Int32, total: Nat,
                   reply: Replies]
    BY <1>1, <1>2, <1>3, <1>5, <1>6
  <2> QED
    BY <1>4, <2>1, NothingTyped DEF TableInv, TypeOK
<1>8. PageIsReference'
  <2>1. /\ AcceptedPage(last'.page) = from /\ AcceptedSize(last'.size) = count
        /\ last'.total = Cardinality(RowsOf(l)) /\ last'.reply = reply
    BY <1>3
  <2> HIDE DEF from, count
  <2>2. ASSUME (from - 1) * count <= MaxInt
        PROVE  /\ reply.status = 200
               /\ Cardinality(reply.rows) = RowsOnPage(Cardinality(RowsOf(l)), from, count)
    <3>1. offset = (from - 1) * count /\ (from - 1) * count \in Nat
      BY <1>2, <2>2, OffsetThatFits DEF offset
    <3>2. /\ reply.status = 200
          /\ Cardinality(reply.rows) =
               Taken(Cardinality(RowsOf(l)), (from - 1) * count, count)
      BY <3>1, RepliesToFit
    <3> QED
      BY <1>2, <1>5, <3>2, TakenIsReference
  <2> QED
    BY <2>1, <2>2 DEF PageIsReference
<1> QED
  BY <1>7, <1>8

LEMMA WalkOnKeeps ==
  ASSUME TableInv, WalkOn
  PROVE  TableInv'
<1>1. PICK reply \in RepliesTo(walk.lock, Offset(walk.page + 1, walk.size), walk.size) :
        walk' = [walk EXCEPT
          !.page = @ + 1,
          !.counted = @ + Cardinality(reply.rows),
          !.seen = @ \cup reply.rows,
          !.state = IF Cardinality(reply.rows) = walk.size THEN "walking" ELSE "done"]
  BY DEF WalkOn
<1>2. walk.page + 1 \in Int /\ walk.size \in Int
  BY PagingAssumption DEF TableInv, TypeOK
<1>3. Offset(walk.page + 1, walk.size) \in Int
  BY <1>2, OffsetIsInt
<1>4. reply \in Replies
  BY <1>3, RepliesAreTyped DEF TableInv, TypeOK
<1>5. Cardinality(reply.rows) \in Nat
  <2>1. reply.rows \in SUBSET table
    BY <1>3, RowsOfReplies
  <2>2. IsFiniteSet(reply.rows)
    BY <2>1, FS_Subset DEF TableInv
  <2> QED
    BY <2>2, FS_CardinalityType
<1>6. walk' \in [lock: Locks, size: DefaultSize..LargestSize, page: Nat,
                 counted: Nat, seen: SUBSET Rows, undisturbed: BOOLEAN,
                 state: {"none", "walking", "done"}]
  <2> DEFINE page == walk.page + 1
             counted == walk.counted + Cardinality(reply.rows)
             seen == walk.seen \cup reply.rows
             state == IF Cardinality(reply.rows) = walk.size THEN "walking" ELSE "done"
  <2>1. page \in Nat /\ counted \in Nat
    BY <1>5 DEF TableInv, TypeOK
  <2>2. seen \in SUBSET Rows
    BY <1>4 DEF TableInv, TypeOK, Replies
  <2>3. state \in {"none", "walking", "done"}
    OBVIOUS
  <2>4. walk' = [walk EXCEPT !.page = page, !.counted = counted, !.seen = seen,
                             !.state = state]
    BY <1>1
  <2> HIDE DEF page, counted, seen, state
  <2> QED
    BY <2>1, <2>2, <2>3, <2>4 DEF TableInv, TypeOK
<1> QED
  BY <1>6 DEF WalkOn, TableInv, TypeOK

LEMMA PagingNext ==
  TableInv /\ PageIsReference /\ [Next]_vars => TableInv' /\ PageIsReference'
<1> SUFFICES ASSUME TableInv, PageIsReference, [Next]_vars
             PROVE  TableInv' /\ PageIsReference'
  OBVIOUS
<1>1. ASSUME UNCHANGED last
      PROVE  PageIsReference'
  BY <1>1 DEF PageIsReference
<1>2. CASE \E l \in Locks, page \in Pages, size \in Sizes : GetHistory(l, page, size)
  BY <1>2, GetHistoryKeeps
<1>3. CASE \E l \in Locks, size \in WalkSizes : StartWalk(l, size)
  <2>1. PICK l \in Locks, size \in WalkSizes : StartWalk(l, size)
    BY <1>3
  <2>2. walk' \in [lock: Locks, size: DefaultSize..LargestSize, page: Nat,
                   counted: Nat, seen: SUBSET Rows, undisturbed: BOOLEAN,
                   state: {"none", "walking", "done"}]
    BY <2>1, NothingTyped, PagingAssumption DEF StartWalk
  <2>3. TableInv'
    BY <2>1, <2>2, NothingTyped DEF StartWalk, TableInv, TypeOK
  <2>4. last' = NoRequest
    BY <2>1 DEF StartWalk
  <2> QED
    BY <2>3, <2>4 DEF PageIsReference, NoRequest
<1>4. CASE WalkOn
  BY <1>1, <1>4, WalkOnKeeps DEF WalkOn
<1>5. CASE \E r \in Rows : Insert(r) \/ Delete(r)
  <2>1. PICK r \in Rows : Insert(r) \/ Delete(r)
    BY <1>5
  <2>2. IsFiniteSet(table')
    BY <2>1, FS_AddElement, FS_RemoveElement DEF Insert, Delete, TableInv
  <2>3. TypeOK'
    BY <2>1 DEF Insert, Delete, Disturb, TableInv, TypeOK
  <2> QED
    BY <1>1, <2>1, <2>2, <2>3 DEF Insert, Delete, TableInv
<1>6. CASE UNCHANGED vars
  BY <1>1, <1>6 DEF vars, TableInv, TypeOK
<1> QED
  BY <1>2, <1>3, <1>4, <1>5, <1>6 DEF Next

THEOREM PagingInvariant == Spec => [](TableInv /\ PageIsReference)
BY PagingInit, PagingNext, PTL DEF Spec

(* Every reachable state of the history endpoint is well typed; in           *)
(* particular an offset is always an int (LockService.cs:22).              *)
THEOREM PagingTypeCorrect == Spec => []TypeOK
<1>1. TableInv => TypeOK
  BY DEF TableInv
<1> QED
  BY <1>1, PagingInvariant, PTL

(* Whatever page and size a caller asks for, the reply has as many rows as  *)
(* the reference says, while the offset fits an int (LocksController.cs:59, *)
(* LockService.cs:22).                                                     *)
THEOREM PagesAreReference == Spec => []PageIsReference
BY PagingInvariant, PTL

-----------------------------------------------------------------------------
(* Readers of all pages.  A reader who goes on has counted whole pages only, *)
(* so that the next offset is what has been counted.  It must fit an int:   *)
(* with more rows than that the last offsets would overflow.               *)

RowsFit == IsFiniteSet(Rows) /\ Cardinality(Rows) <= MaxInt

WalkInv ==
  walk.undisturbed =>
    /\ walk.state = "walking" => /\ walk.counted = walk.page * walk.size
                                 /\ walk.counted <= Cardinality(RowsOf(walk.lock))
    /\ walk.state = "done" => walk.counted = Cardinality(RowsOf(walk.lock))

LEMMA FewRows ==
  ASSUME RowsFit, TypeOK, NEW l
  PROVE  Cardinality(RowsOf(l)) \in Nat /\ Cardinality(RowsOf(l)) <= MaxInt
<1>1. RowsOf(l) \in SUBSET Rows
  BY DEF RowsOf, TypeOK
<1>2. IsFiniteSet(RowsOf(l)) /\ Cardinality(RowsOf(l)) <= Cardinality(Rows)
  BY <1>1, FS_Subset DEF RowsFit
<1>3. Cardinality(RowsOf(l)) \in Nat /\ Cardinality(Rows) \in Nat
  BY <1>2, FS_CardinalityType DEF RowsFit
<1> QED
  BY <1>2, <1>3, PagingAssumption DEF RowsFit

LEMMA WalkOnCounts ==
  ASSUME RowsFit, TypeOK, WalkInv, WalkOn
  PROVE  WalkInv'
<1> DEFINE n == Cardinality(RowsOf(walk.lock))
           offset == Offset(walk.page + 1, walk.size)
<1>1. PICK reply \in RepliesTo(walk.lock, offset, walk.size) :
        walk' = [walk EXCEPT
          !.page = @ + 1,
          !.counted = @ + Cardinality(reply.rows),
          !.seen = @ \cup reply.rows,
          !.state = IF Cardinality(reply.rows) = walk.size THEN "walking" ELSE "done"]
  BY DEF WalkOn
<1>2. SUFFICES ASSUME walk.undisturbed
               PROVE  WalkInv'
  <2>1. walk'.undisturbed = walk.undisturbed
    BY <1>1 DEF TypeOK
  <2> QED
    BY <2>1 DEF WalkInv
<1>3. /\ walk.page \in Nat /\ walk.size \in Nat \ {0} /\ walk.counted \in Nat
      /\ walk.counted = walk.page * walk.size /\ walk.counted <= n
      /\ walk.state = "walking"
  BY <1>2, PagingAssumption DEF WalkOn, WalkInv, TypeOK
<1>4. n \in Nat /\ n <= MaxInt
  BY FewRows
<1>5. offset = walk.counted
  <2>1. walk.page + 1 \in Nat \ {0} /\ (walk.page + 1) - 1 = walk.page
    BY <1>3
  <2>2. ((walk.page + 1) - 1) * walk.size = walk.counted
    BY <1>3, <2>1
  <2>3. walk.counted <= MaxInt
    BY <1>3, <1>4, PagingAssumption
  <2> QED
    BY <1>3, <2>1, <2>2, <2>3, OffsetThatFits
<1> HIDE DEF offset
<1>6. Cardinality(reply.rows) = Taken(n, walk.counted, walk.size)
  BY <1>3, <1>5, RepliesToFit
<1> DEFINE taken == Taken(n, walk.counted, walk.size)
<1>7. /\ walk'.counted = walk.counted + taken
      /\ walk'.page = walk.page + 1 /\ walk'.size = walk.size /\ walk'.lock = walk.lock
      /\ walk'.state = IF taken = walk.size THEN "walking" ELSE "done"
  BY <1>1, <1>6 DEF TypeOK
<1>8. Cardinality(RowsOf(walk.lock))' = n
  BY <1>7 DEF WalkOn, RowsOf
<1>9. (walk.page + 1) * walk.size = walk.counted + walk.size
  BY <1>3, NextProduct
<1> HIDE DEF n
<1>10. taken = IF walk.counted >= n THEN 0
               ELSE IF n - walk.counted < walk.size THEN n - walk.counted ELSE walk.size
  BY DEF Taken
<1> HIDE DEF taken
<1>11. CASE taken = walk.size
  BY <1>3, <1>4, <1>7, <1>8, <1>9, <1>10, <1>11 DEF WalkInv
<1>12. CASE taken # walk.size
  <2>1. walk.counted + taken = n
    BY <1>3, <1>4, <1>10, <1>12
  <2> QED
    BY <1>7, <1>8, <1>12, <2>1 DEF WalkInv
<1> QED
  BY <1>11, <1>12

LEMMA WalkInit == RowsFit /\ Init => WalkInv
BY DEF Init, WalkInv, NoWalk

LEMMA WalkNext ==
  ASSUME RowsFit, TypeOK, WalkInv, [Next]_vars
  PROVE  WalkInv'
<1>1. CASE \E l \in Locks, page \in Pages, size \in Sizes : GetHistory(l, page, size)
  BY <1>1 DEF GetHistory, WalkInv, NoWalk
<1>2. CASE \E l \in Locks, size \in WalkSizes : StartWalk(l, size)
  <2>1. PICK l \in Locks, size \in WalkSizes : StartWalk(l, size)
    BY <1>2
  <2>2. /\ walk'.state = "walking" /\ walk'.counted = 0 /\ walk'.page = 0
        /\ walk'.size = size /\ walk'.lock = l /\ table' = table
    BY <2>1 DEF StartWalk, NoWalk
  <2>3. size \in Int /\ 0 * size = 0
    BY PagingAssumption
  <2>4. Cardinality(RowsOf(walk.lock))' >= 0
    <3>1. Cardinality(RowsOf(walk.lock))' = Cardinality(RowsOf(l))
      BY <2>2 DEF RowsOf
    <3> QED
      BY <3>1, FewRows
  <2> QED
    BY <2>2, <2>3, <2>4 DEF WalkInv
<1>3. CASE WalkOn
  BY <1>3, WalkOnCounts
<1>4. CASE \E r \in Rows : Insert(r) \/ Delete(r)
  <2>1. walk' = [walk EXCEPT !.undisturbed = FALSE]
    BY <1>4 DEF Insert, Delete, Disturb
  <2>2. walk'.undisturbed = FALSE
    BY <2>1 DEF TypeOK
  <2> QED
    BY <2>2 DEF WalkInv
<1>5. CASE UNCHANGED vars
  BY <1>5 DEF vars, WalkInv, RowsOf
<1> QED
  BY <1>1, <1>2, <1>3, <1>4, <1>5 DEF Next

(* As long as the rows can be counted in an int, a reader of all pages of a  *)
(* table that does not change is given as many rows as the lock has, and   *)
(* stops (LockService.cs:22).                                              *)
THEOREM WalksCountHistory == RowsFit => (Spec => []WalkCountsHistory)
<1> SUFFICES ASSUME RowsFit PROVE Spec => []WalkCountsHistory
  OBVIOUS
<1>1. Init => WalkInv
  BY WalkInit
<1>2. TypeOK /\ WalkInv /\ [Next]_vars => WalkInv'
  BY WalkNext
<1>3. WalkInv => WalkCountsHistory
  BY DEF WalkInv, WalkCountsHistory
<1> QED
  BY <1>1, <1>2, <1>3, PagingTypeCorrect, PTL DEF Spec

-----------------------------------------------------------------------------
(* What a reader has seen of a table that has not changed is in it.        *)
SeenInv == walk.undisturbed => walk.seen \subseteq RowsOf(walk.lock)

LEMMA WalkOnSees ==
  ASSUME TypeOK, SeenInv, WalkOn
  PROVE  SeenInv'
<1> DEFINE offset == Offset(walk.page + 1, walk.size)
<1>1. PICK reply \in RepliesTo(walk.lock, offset, walk.size) :
        walk' = [walk EXCEPT
          !.page = @ + 1,
          !.counted = @ + Cardinality(reply.rows),
          !.seen = @ \cup reply.rows,
          !.state = IF Cardinality(reply.rows) = walk.size THEN "walking" ELSE "done"]
  BY DEF WalkOn
<1>2. reply.rows \subseteq RowsOf(walk.lock)
  BY DEF RepliesTo, Selections
<1>3. /\ walk'.seen = walk.seen \cup reply.rows
      /\ walk'.undisturbed = walk.undisturbed /\ walk'.lock = walk.lock
      /\ table' = table
  BY <1>1 DEF WalkOn, TypeOK
<1> QED
  BY <1>2, <1>3 DEF SeenInv, RowsOf

LEMMA SeenNext == TypeOK /\ SeenInv /\ [Next]_vars => SeenInv'
<1> SUFFICES ASSUME TypeOK, SeenInv, [Next]_vars PROVE SeenInv'
  OBVIOUS
<1>1. CASE \E l \in Locks, page \in Pages, size \in Sizes : GetHistory(l, page, size)
  BY <1>1 DEF GetHistory, SeenInv, NoWalk
<1>2. CASE \E l \in Locks, size \in WalkSizes : StartWalk(l, size)
  BY <1>2 DEF StartWalk, SeenInv, NoWalk
<1>3. CASE WalkOn
  BY <1>3, WalkOnSees
<1>4. CASE \E r \in Rows : Insert(r) \/ Delete(r)
  <2>1. walk'.undisturbed = FALSE
    BY <1>4 DEF Insert, Delete, Disturb, TypeOK
  <2> QED
    BY <2>1 DEF SeenInv
<1>5. CASE UNCHANGED vars
  BY <1>5 DEF vars, SeenInv, RowsOf
<1> QED
  BY <1>1, <1>2, <1>3, <1>4, <1>5 DEF Next

(* A reader of all pages who was given no row twice has the whole history,  *)
(* in whatever order the database returned it; who was given one twice      *)
(* lacks another (LockService.cs:22).                                      *)
THEOREM RepeatsAreGaps == RowsFit => (Spec => []RepeatsTellGaps)
<1> SUFFICES ASSUME RowsFit PROVE Spec => []RepeatsTellGaps
  OBVIOUS
<1>1. Init => SeenInv
  BY DEF Init, SeenInv, NoWalk
<1>2. TypeOK /\ SeenInv /\ [Next]_vars => SeenInv'
  BY SeenNext
<1>3. TypeOK /\ SeenInv /\ WalkCountsHistory => RepeatsTellGaps
  <2> SUFFICES ASSUME TypeOK, SeenInv, WalkCountsHistory,
                      walk.state = "done", walk.undisturbed
               PROVE  Cardinality(walk.seen) = walk.counted
                        <=> walk.seen = RowsOf(walk.lock)
    BY DEF RepeatsTellGaps
  <2>1. IsFiniteSet(RowsOf(walk.lock))
    <3>1. RowsOf(walk.lock) \subseteq Rows
      BY DEF RowsOf, TypeOK
    <3> QED
      BY <3>1, FS_Subset DEF RowsFit
  <2>2. walk.seen \subseteq RowsOf(walk.lock)
    BY DEF SeenInv
  <2>3. walk.counted = Cardinality(RowsOf(walk.lock))
    BY DEF WalkCountsHistory
  <2>4. Cardinality(walk.seen) = Cardinality(RowsOf(walk.lock))
          => walk.seen = RowsOf(walk.lock)
    BY <2>1, <2>2, FS_Subset
  <2> QED
    BY <2>3, <2>4
<1>4. Spec => []WalkCountsHistory
  BY WalksCountHistory
<1> QED
  BY <1>1, <1>2, <1>3, <1>4, PagingTypeCorrect, PTL DEF Spec
=============================================================================
