---------------------------- MODULE HistoryPaging ----------------------------
(***************************************************************************)
(* GET locks/{id}/history: the access history of a lock, page by page.      *)
(* The controller replaces page numbers and sizes it does not accept; the   *)
(* service turns them into an offset in 32-bit arithmetic and asks the      *)
(* database for so many rows of the lock from there, in no stated order:    *)
(* each query may see the rows in another order.  A reader asks for single  *)
(* pages, or for one page after the other until one is not full.  Requests  *)
(* share nothing but the table: one reader at a time is looked at.         *)
(***************************************************************************)
EXTENDS Integers, FiniteSets

CONSTANTS
  Rows,         \* rows table LockAccesses may ever hold
  Locks,
  LockOf,       \* LockId of each row
  MaxInt,       \* largest int: 2^31 - 1 in the code
  DefaultSize,  \* 10 in the code, also the least size accepted
  LargestSize,  \* 100 in the code
  Pages,        \* page numbers a query string may carry
  Sizes,        \* sizes a query string may carry
  WalkSizes     \* sizes readers of the whole history ask for

MinInt == -MaxInt - 1
Int32 == MinInt..MaxInt

ASSUME PagingAssumption ==
  /\ Locks # {}
  /\ LockOf \in [Rows -> Locks]
  /\ MaxInt \in Nat
  /\ DefaultSize \in Nat \ {0}
  /\ LargestSize \in DefaultSize..MaxInt
  /\ Pages \subseteq Int32
  /\ Sizes \subseteq Int32
  /\ WalkSizes \subseteq DefaultSize..LargestSize

VARIABLES
  table,  \* rows of LockAccesses
  last,   \* the last single request and its reply
  walk    \* a reader who asks for one page after the other

vars == <<table, last, walk>>

-----------------------------------------------------------------------------
Statuses == {0, 200, 500}  \* 0: nothing asked for yet
Replies == [status: Statuses, rows: SUBSET Rows]

(* GetHistoryAsync: what the controller makes of the query string.         *)
AcceptedPage(page) == IF page < 1 THEN 1 ELSE page
AcceptedSize(size) ==
  IF size \notin DefaultSize..LargestSize THEN DefaultSize ELSE size

(* The value of an integer without bounds, and what an int keeps of it.    *)
Unbounded(n) == n
Wrapped(n) == ((n - MinInt) % (MaxInt - MinInt + 1)) + MinInt

(* GetLockAccessesAsync: the argument of Skip, and an off-by-one of it.    *)
OffsetFromZero(page, count) == Wrapped(page * count)
Offset(page, count) == Wrapped((page - 1) * count)

RowsOf(l) == {r \in table : LockOf[r] = l}

(* How many of n rows Skip(offset) and Take(count) leave.                  *)
Taken(n, offset, count) ==
  IF offset >= n THEN 0 ELSE IF n - offset < count THEN n - offset ELSE count

(* The sets of rows the query may return; Where after Skip and Take, and    *)
(* the Where before them that the service has.                             *)
SelectionsFilteredLast(l, offset, count) ==
  {S \cap RowsOf(l) : S \in
     {T \in SUBSET table :
        Cardinality(T) = Taken(Cardinality(table), offset, count)}}
Selections(l, offset, count) ==
  {S \in SUBSET RowsOf(l) :
     Cardinality(S) = Taken(Cardinality(RowsOf(l)), offset, count)}

(* The database refuses a negative offset; the middleware makes a 500 of    *)
(* its exception.  A list is a 200, also when it is empty.                 *)
RepliesTo(l, offset, count) ==
  IF offset < 0
  THEN {[status |-> 500, rows |-> {}]}
  ELSE {[status |-> 200, rows |-> S] : S \in Selections(l, offset, count)}

-----------------------------------------------------------------------------
NoRequest == [lock |-> CHOOSE l \in Locks : TRUE, page |-> 1,
              size |-> DefaultSize, offset |-> 0,
              total |-> 0, reply |-> [status |-> 0, rows |-> {}]]

(* The state of a reader: the last page asked for, the rows counted and     *)
(* seen, and whether the table has changed meanwhile.                      *)
NoWalk == [lock |-> CHOOSE l \in Locks : TRUE, size |-> DefaultSize,
           page |-> 0, counted |-> 0, seen |-> {}, undisturbed |-> TRUE,
           state |-> "none"]

Init ==
  /\ table = {}
  /\ last = NoRequest
  /\ walk = NoWalk

(* GetHistoryAsync, asked for one page.                                    *)
GetHistory(l, page, size) ==
  LET count == AcceptedSize(size)
      offset == Offset(AcceptedPage(page), count)
  IN  /\ \E reply \in RepliesTo(l, offset, count) :
           last' = [lock |-> l, page |-> page, size |-> size,
                    offset |-> offset, total |-> Cardinality(RowsOf(l)),
                    reply |-> reply]
      /\ walk' = NoWalk
      /\ UNCHANGED table

StartWalk(l, size) ==
  /\ walk.state # "walking"
  /\ walk' = [NoWalk EXCEPT !.lock = l, !.size = size, !.state = "walking"]
  /\ last' = NoRequest
  /\ UNCHANGED table

(* GetHistoryAsync, asked for the next page.                               *)
WalkOn ==
  /\ walk.state = "walking"
  /\ \E reply \in RepliesTo(walk.lock, Offset(walk.page + 1, walk.size),
                                walk.size) :
       walk' = [walk EXCEPT
         !.page = @ + 1,
         !.counted = @ + Cardinality(reply.rows),
         !.seen = @ \cup reply.rows,
         !.state = IF Cardinality(reply.rows) = walk.size
                   THEN "walking" ELSE "done"]
  /\ UNCHANGED <<table, last>>

Disturb == walk' = [walk EXCEPT !.undisturbed = FALSE]

(* A grain saves an entry; the deletion of an account deletes one.         *)
Insert(r) ==
  /\ r \notin table
  /\ table' = table \cup {r}
  /\ Disturb
  /\ UNCHANGED last

Delete(r) ==
  /\ r \in table
  /\ table' = table \ {r}
  /\ Disturb
  /\ UNCHANGED last

Next ==
  \/ \E l \in Locks, page \in Pages, size \in Sizes : GetHistory(l, page, size)
  \/ \E l \in Locks, size \in WalkSizes : StartWalk(l, size)
  \/ WalkOn
  \/ \E r \in Rows : Insert(r) \/ Delete(r)

Spec == Init /\ [][Next]_vars

-----------------------------------------------------------------------------
TypeOK ==
  /\ table \in SUBSET Rows
  /\ last \in [lock: Locks, page: Int32, size: Int32, offset: Int32, total: Nat,
              reply: Replies]
  /\ walk \in [lock: Locks, size: DefaultSize..LargestSize, page: Nat,
               counted: Nat, seen: SUBSET Rows, undisturbed: BOOLEAN,
               state: {"none", "walking", "done"}]

(* The reference: number the rows of the lock from 1; page p holds those    *)
(* whose number falls in the p-th group of the size in force.              *)
RowsOnPage(total, page, size) ==
  Cardinality({k \in 1..total : (k - 1) \div size + 1 = page})

(* Whatever a caller asks for, the reply has as many rows as the reference  *)
(* says, unless the offset does not fit an int (LockService.cs:22).        *)
PageIsReference ==
  LET page == AcceptedPage(last.page)
      size == AcceptedSize(last.size)
  IN  last.reply.status # 0 /\ (page - 1) * size <= MaxInt =>
        /\ last.reply.status = 200
        /\ Cardinality(last.reply.rows) = RowsOnPage(last.total, page, size)

(* A reader who takes page after page of a table that does not change is    *)
(* given as many rows as the lock has, and then knows that it is the end.  *)
WalkCountsHistory ==
  walk.state = "done" /\ walk.undisturbed
    => walk.counted = Cardinality(RowsOf(walk.lock))

(* The rows come in no stated order, so such a reader may be given a row    *)
(* twice; but then, and only then, another is missing: who was given no row *)
(* twice has the whole history (LockService.cs:22).                        *)
RepeatsTellGaps ==
  walk.state = "done" /\ walk.undisturbed
    => (Cardinality(walk.seen) = walk.counted <=> walk.seen = RowsOf(walk.lock))

(* What the endpoint is documented to do, "Returns lock access history"     *)
(* (LocksController.cs:47): such a reader has seen every row of the lock.  *)
WalkSeesHistory ==
  walk.state = "done" /\ walk.undisturbed => walk.seen = RowsOf(walk.lock)
=============================================================================
