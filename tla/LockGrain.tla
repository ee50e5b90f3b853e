------------------------------ MODULE LockGrain ------------------------------
(***************************************************************************)
(* The lock grain: the Orleans actor that answers the access requests of   *)
(* one lock from a role list it read when it was activated, keeps the      *)
(* history of its answers in memory and saves it to the LockAccesses table *)
(* from a timer.  A timer callback is not queued behind the grain's calls: *)
(* while it awaits the database, further requests run and extend the list. *)
(*                                                                         *)
(* A grain is identified by the string it was called with (a key).  The    *)
(* row a key finds is decided by the database's string comparison, so two  *)
(* keys may find the same lock.                                            *)
(*                                                                         *)
(* A decision (one granted or denied access) is named by its position in   *)
(* the history variable decisions; lists and tables hold these numbers.    *)
(***************************************************************************)
EXTENDS Naturals, Sequences, Functions

CONSTANTS
  Keys,           \* strings used as grain keys
  Locks,          \* ids of the rows of table Locks
  NoLock,         \* no row found: the grain's _lock is null
  LockOf,         \* the row each key finds
  UserIds,        \* ids a token or a request body may carry
  NoUser,         \* the omitted requestForEmployeeId
  SeedUsers,      \* the ids that are rows of AspNetUsers at the start
  Roles,          \* role names
  SeedLockRoles,  \* the roles each lock admits at the start
  MaxDecisions,   \* bound on the recorded decisions
  MaxLostAcks     \* bound on the commits whose answer never arrives, per key

ASSUME GrainAssumption ==
  /\ NoLock \notin Locks
  /\ LockOf \in [Keys -> Locks \cup {NoLock}]
  /\ NoUser \notin UserIds
  /\ SeedUsers \subseteq UserIds
  /\ SeedLockRoles \in [Locks -> SUBSET Roles]
  /\ MaxDecisions \in Nat
  /\ MaxLostAcks \in Nat

VARIABLES
  users,      \* rows of AspNetUsers
  lockRoles,  \* table LockEntityRoleEntity: the roles each lock admits
  rows,       \* table LockAccesses: the number of rows of each decision
  phase,      \* life cycle of each key's activation
  cached,     \* _lock: the row and the roles read at activation
  buffer,     \* _lockAccesses: decisions not yet known to be saved
  flush,      \* progress of SaveLockAccessAsync
  count,      \* its local variable count
  answer,     \* result of the last call
  notices,    \* results handed to the MQTT server, oldest first
  decisions,  \* history: every entry ever added to a _lockAccesses
  saved,      \* history: decisions some transaction has committed
  lost,       \* history: decisions dropped from memory before any commit
  lostAcks    \* history: commits of each key that looked like failures

store == <<users, lockRoles>>
history == <<decisions, answer, notices>>
vars == <<store, rows, phase, cached, buffer, flush, count, history, saved,
          lost, lostAcks>>

-----------------------------------------------------------------------------
Results == {"Granted", "Denied"}
Decision == 1..MaxDecisions
Phases == {"none", "activating", "active", "deactivating"}

(* LockAccessHistoryEntity, with the key of the grain that created it.     *)
Entry == [key: Keys, lock: Locks, requester: UserIds,
          employee: UserIds \cup {NoUser}, result: Results]

(* LockAccessResultDto on its way to the topic of a lock.                  *)
Notice == [topic: Locks, result: Results]

CachedLock == [lock: Locks \cup {NoLock}, roles: SUBSET Roles]
NullLock == [lock |-> NoLock, roles |-> {}]

Init ==
  /\ users = SeedUsers
  /\ lockRoles = SeedLockRoles
  /\ rows = [d \in Decision |-> 0]
  /\ phase = [k \in Keys |-> "none"]
  /\ cached = [k \in Keys |-> NullLock]
  /\ buffer = [k \in Keys |-> <<>>]
  /\ flush = [k \in Keys |-> "idle"]
  /\ count = [k \in Keys |-> 0]
  /\ answer = "none"
  /\ notices = <<>>
  /\ decisions = <<>>
  /\ saved = {}
  /\ lost = {}
  /\ lostAcks = [k \in Keys |-> 0]

-----------------------------------------------------------------------------
(* OnActivateAsync.  The query reads the row and its roles in one step; the *)
(* activation serves no call before the awaited query returns.             *)

(* The query without its Include, and with it.                             *)
CachedRolesNotIncluded(l) == {}
CachedRoles(l) == lockRoles[l]

Activate(k) ==
  /\ phase[k] = "none"
  /\ phase' = [phase EXCEPT ![k] = "activating"]
  /\ cached' = [cached EXCEPT ![k] =
       IF LockOf[k] = NoLock
       THEN NullLock
       ELSE [lock |-> LockOf[k], roles |-> CachedRoles(LockOf[k])]]
  /\ UNCHANGED <<store, rows, buffer, flush, count, history, saved, lost,
                 lostAcks>>

Activated(k) ==
  /\ phase[k] = "activating"
  /\ phase' = [phase EXCEPT ![k] = "active"]
  /\ UNCHANGED <<store, rows, cached, buffer, flush, count, history, saved,
                 lost, lostAcks>>

(* The query failed or was cancelled: the activation is abandoned.         *)
ActivateFailed(k) ==
  /\ phase[k] = "activating"
  /\ phase' = [phase EXCEPT ![k] = "none"]
  /\ cached' = [cached EXCEPT ![k] = NullLock]
  /\ UNCHANGED <<store, rows, buffer, flush, count, history, saved, lost,
                 lostAcks>>

-----------------------------------------------------------------------------
(* RequestAccessAsync.  It awaits nothing, so it is one turn; it may run    *)
(* while a timer callback of the same grain awaits the database.           *)

AccessResult(k, claims) ==
  IF cached[k].roles \cap claims # {} THEN "Granted" ELSE "Denied"

(* _lock is null: denied, and neither recorded nor sent to the lock.       *)
RequestUnknownLock(k) ==
  /\ phase[k] = "active"
  /\ cached[k].lock = NoLock
  /\ answer' = "Denied"
  /\ UNCHANGED <<store, rows, phase, cached, buffer, flush, count, notices,
                 decisions, saved, lost, lostAcks>>

(* The decision is added to the list, sent and returned.  The second form   *)
(* has the null check in front that the first lacks.                       *)
DecideUnchecked(k, requester, claims, employee) ==
  /\ phase[k] = "active"
  /\ Len(decisions) < MaxDecisions
  /\ LET result == AccessResult(k, claims)
         entry == [key |-> k, lock |-> cached[k].lock,
                   requester |-> requester, employee |-> employee,
                   result |-> result]
     IN  /\ decisions' = Append(decisions, entry)
         /\ buffer' = [buffer EXCEPT ![k] = Append(@, Len(decisions) + 1)]
         /\ notices' = Append(notices, [topic |-> entry.lock,
                                        result |-> result])
         /\ answer' = result
  /\ UNCHANGED <<store, rows, phase, cached, flush, count, saved, lost,
                 lostAcks>>

Decide(k, requester, claims, employee) ==
  /\ cached[k].lock # NoLock
  /\ DecideUnchecked(k, requester, claims, employee)

-----------------------------------------------------------------------------
(* SaveLockAccessAsync, from the timer.  Its only await is the transaction *)
(* of SaveChangesAsync: flush is "writing" until the database has decided  *)
(* and "committed" from the commit until the answer is back.               *)

(* Take(count), and an off-by-one of it.                                   *)
BatchOffByOne(k) == SubSeq(buffer[k], 1, count[k] - 1)
Batch(k) == SubSeq(buffer[k], 1, count[k])

(* The foreign keys of LockAccesses: requester and employee must be users. *)
Insertable(d) ==
  /\ decisions[d].requester \in users
  /\ decisions[d].employee \in users \cup {NoUser}

TimerTick(k) ==
  /\ phase[k] = "active"
  /\ cached[k].lock # NoLock
  /\ flush[k] = "idle"
  /\ buffer[k] # <<>>
  /\ flush' = [flush EXCEPT ![k] = "writing"]
  /\ count' = [count EXCEPT ![k] = Len(buffer[k])]
  /\ UNCHANGED <<store, rows, phase, cached, buffer, history, saved, lost,
                 lostAcks>>

SaveCommit(k) ==
  /\ flush[k] = "writing"
  /\ \A d \in Range(Batch(k)) : Insertable(d)
  /\ flush' = [flush EXCEPT ![k] = "committed"]
  /\ rows' = [d \in Decision |->
                IF d \in Range(Batch(k)) THEN rows[d] + 1 ELSE rows[d]]
  /\ saved' = saved \cup Range(Batch(k))
  /\ UNCHANGED <<store, phase, cached, buffer, count, history, lost, lostAcks>>

(* RemoveRange(0, count), and the ways to get it wrong.                    *)
Kept(buf, n) == buf
Cleared(buf, n) == <<>>
Trimmed(buf, n) == SubSeq(buf, n + 1, Len(buf))

SaveReturn(k) ==
  /\ flush[k] = "committed"
  /\ flush' = [flush EXCEPT ![k] = "idle"]
  /\ count' = [count EXCEPT ![k] = 0]
  /\ buffer' = [buffer EXCEPT ![k] = Trimmed(@, count[k])]
  /\ UNCHANGED <<store, rows, phase, cached, history, saved, lost, lostAcks>>

(* Were the timer lost with the exception, no tick would follow.           *)
SaveThrowsEndsTimer(k) ==
  /\ flush' = [flush EXCEPT ![k] = "over"]
  /\ count' = [count EXCEPT ![k] = 0]
  /\ UNCHANGED <<store, rows, phase, cached, buffer, history, saved, lost>>

(* An exception leaves the callback before RemoveRange; Orleans logs it and *)
(* keeps the timer.  The list is as it was, for the next tick to try again. *)
SaveThrows(k) ==
  /\ flush' = [flush EXCEPT ![k] = "idle"]
  /\ count' = [count EXCEPT ![k] = 0]
  /\ UNCHANGED <<store, rows, phase, cached, buffer, history, saved, lost>>

(* A handler that gives up on a rejected batch.                            *)
SaveRejectDropsBatch(k) ==
  /\ flush[k] = "writing"
  /\ \E d \in Range(Batch(k)) : ~Insertable(d)
  /\ flush' = [flush EXCEPT ![k] = "idle"]
  /\ count' = [count EXCEPT ![k] = 0]
  /\ buffer' = [buffer EXCEPT ![k] = Trimmed(@, count[k])]
  /\ UNCHANGED <<store, rows, phase, cached, history, saved, lost, lostAcks>>

(* The batch names an id that is no user: the whole transaction fails.     *)
SaveReject(k) ==
  /\ flush[k] = "writing"
  /\ \E d \in Range(Batch(k)) : ~Insertable(d)
  /\ SaveThrows(k)
  /\ UNCHANGED lostAcks

(* A transient failure: no connection, deadlock, timeout before the commit. *)
SaveFail(k) ==
  /\ flush[k] = "writing"
  /\ SaveThrows(k)
  /\ UNCHANGED lostAcks

(* The connection breaks after the commit: to the grain, a failed save.    *)
AckLost(k) ==
  /\ flush[k] = "committed"
  /\ lostAcks[k] < MaxLostAcks
  /\ SaveThrows(k)
  /\ lostAcks' = [lostAcks EXCEPT ![k] = @ + 1]

-----------------------------------------------------------------------------
(* The end of an activation.  LockGrain overrides no OnDeactivateAsync.    *)

(* The grain is idle or the silo shuts down: no more calls, no more ticks. *)
Deactivate(k) ==
  /\ phase[k] = "active"
  /\ phase' = [phase EXCEPT ![k] = "deactivating"]
  /\ UNCHANGED <<store, rows, cached, buffer, flush, count, history, saved,
                 lost, lostAcks>>

Unsaved(k) == Range(buffer[k]) \ saved

(* The memory of the activations in K is gone.                             *)
Forget(K) ==
  /\ phase' = [k \in Keys |-> IF k \in K THEN "none" ELSE phase[k]]
  /\ cached' = [k \in Keys |-> IF k \in K THEN NullLock ELSE cached[k]]
  /\ buffer' = [k \in Keys |-> IF k \in K THEN <<>> ELSE buffer[k]]
  /\ flush' = [k \in Keys |-> IF k \in K THEN "idle" ELSE flush[k]]
  /\ count' = [k \in Keys |-> IF k \in K THEN 0 ELSE count[k]]
  /\ lost' = lost \cup UNION {Unsaved(k) : k \in K}
  /\ UNCHANGED <<store, rows, history, saved, lostAcks>>

(* A callback that was running is awaited first.                           *)
Deactivated(k) ==
  /\ phase[k] = "deactivating"
  /\ flush[k] = "idle"
  /\ Forget({k})

(* The process dies, with the activations it hosts.                        *)
Crash(K) ==
  /\ K # {}
  /\ \A k \in K : phase[k] # "none"
  /\ Forget(K)

-----------------------------------------------------------------------------
(* Changes to the database by the identity and role pages.  Nothing adds a *)
(* role to a lock after the seeding.                                       *)

(* The rows of LockEntityRoleEntity follow the role they name.             *)
DeleteRole(r) ==
  /\ \E l \in Locks : r \in lockRoles[l]
  /\ lockRoles' = [l \in Locks |-> lockRoles[l] \ {r}]
  /\ UNCHANGED <<users, rows, phase, cached, buffer, flush, count, history,
                 saved, lost, lostAcks>>

(* The rows a user asked for follow the user; the rows that only name the  *)
(* user as employee forbid the deletion.                                   *)
NamedBy(u) ==
  {d \in DOMAIN decisions : u \in {decisions[d].requester, decisions[d].employee}}
RequestedBy(u) == {d \in DOMAIN decisions : decisions[d].requester = u}

DeleteUser(u) ==
  /\ u \in users
  /\ \A d \in DOMAIN decisions \ RequestedBy(u) :
       rows[d] > 0 => decisions[d].employee # u
  /\ users' = users \ {u}
  /\ rows' = [d \in Decision |-> IF d \in RequestedBy(u) THEN 0 ELSE rows[d]]
  /\ UNCHANGED <<lockRoles, phase, cached, buffer, flush, count, history,
                 saved, lost, lostAcks>>

-----------------------------------------------------------------------------
Next ==
  \/ \E k \in Keys : Activate(k) \/ Activated(k) \/ ActivateFailed(k)
  \/ \E k \in Keys : RequestUnknownLock(k)
  \/ \E k \in Keys, requester \in UserIds, claims \in SUBSET Roles,
        employee \in UserIds \cup {NoUser} :
       Decide(k, requester, claims, employee)
  \/ \E k \in Keys : TimerTick(k) \/ SaveCommit(k) \/ SaveReturn(k)
  \/ \E k \in Keys : SaveReject(k) \/ SaveFail(k) \/ AckLost(k)
  \/ \E k \in Keys : Deactivate(k) \/ Deactivated(k)
  \/ \E K \in SUBSET Keys : Crash(K)
  \/ \E r \in Roles : DeleteRole(r)
  \/ \E u \in UserIds : DeleteUser(u)

Spec == Init /\ [][Next]_vars

(* The timer keeps firing, an awaited save ends, a save that can succeed   *)
(* does so in the end although it may fail before, and a deactivation that *)
(* has nothing to wait for completes.  No request, no activation and no    *)
(* deactivation has to happen.                                             *)
GrainFairness(k) ==
  /\ WF_vars(TimerTick(k))
  /\ SF_vars(SaveCommit(k))
  /\ WF_vars(SaveReject(k))
  /\ WF_vars(SaveReturn(k))
  /\ WF_vars(Deactivated(k))

FairSpec == Spec /\ \A k \in Keys : GrainFairness(k)

-----------------------------------------------------------------------------
TypeOK ==
  /\ users \in SUBSET UserIds
  /\ lockRoles \in [Locks -> SUBSET Roles]
  /\ rows \in [Decision -> Nat]
  /\ phase \in [Keys -> Phases]
  /\ cached \in [Keys -> CachedLock]
  /\ buffer \in [Keys -> Seq(Decision)]
  /\ flush \in [Keys -> {"idle", "writing", "committed"}]
  /\ count \in [Keys -> Nat]
  /\ answer \in Results \cup {"none"}
  /\ notices \in Seq(Notice)
  /\ decisions \in Seq(Entry)
  /\ Len(decisions) <= MaxDecisions
  /\ saved \in SUBSET Decision
  /\ lost \in SUBSET Decision
  /\ lostAcks \in [Keys -> 0..MaxLostAcks]

(* Every answer a lock gave is in the list of its grain, was committed, or  *)
(* went down with its activation: a request that runs while a save is       *)
(* awaited is not removed with the batch (LockGrain.cs:61-68).             *)
NothingForgotten ==
  \A d \in DOMAIN decisions :
    d \in saved \cup lost \cup Range(buffer[decisions[d].key])

(* Of the answers of one grain, a later one is never committed before an    *)
(* earlier one that is still waiting: failed saves keep their place at the  *)
(* head of the list.                                                       *)
NoGapsInHistory ==
  \A c, d \in DOMAIN decisions :
    /\ decisions[c].key = decisions[d].key
    /\ c < d
    /\ d \in saved
    => c \in saved \cup lost

(* A decision has more than one row only if a commit of its grain looked    *)
(* like a failure: the batch is cut from the list before the next tick can  *)
(* read it again (LockGrain.cs:66-68).                                     *)
DuplicatesOnlyFromLostAcks ==
  \A d \in DOMAIN decisions : rows[d] <= 1 + lostAcks[decisions[d].key]

(* What a grain keeps in memory is the backlog of its saves and no more:    *)
(* but for the batch whose commit is about to be answered, and unless a     *)
(* commit looked like a failure, its list holds each entry once and none    *)
(* that is in the database already (LockGrain.cs:33, :68).                 *)
ListHoldsOnlyBacklog ==
  \A k \in Keys :
    /\ lostAcks[k] = 0
    /\ flush[k] # "committed"
    => IsInjective(buffer[k]) /\ Range(buffer[k]) \cap (saved \cup lost) = {}

(* A committed decision stays in the table as long as the user who asked    *)
(* for it exists, whatever happens to the grain, to roles and to the        *)
(* employee it names.                                                      *)
HistoryKeptWithRequester ==
  \A d \in saved : decisions[d].requester \in users => rows[d] > 0

(* A live activation admits at least the roles the table admits now: its    *)
(* snapshot may grant too much for a while, it never denies too much.      *)
CacheCoversStore ==
  \A k \in Keys :
    /\ phase[k] # "none"
    /\ LockOf[k] # NoLock
    => lockRoles[LockOf[k]] \subseteq cached[k].roles

(* The list names a user that does not exist (any more): no batch that      *)
(* holds this entry can be inserted.                                       *)
Poisoned(k) == \E d \in Range(buffer[k]) : ~Insertable(d)

(* An entry the foreign keys reject is neither saved nor dropped by any     *)
(* save, whatever else is saved, deleted or asked for: it keeps its place   *)
(* in the list, and makes every batch with it fail, until its activation    *)
(* ends (LockGrain.cs:61-68).                                              *)
RejectedStays ==
  [][\A k \in Keys : \A d \in Unsaved(k) :
       ~Insertable(d) =>
         \/ d \in Unsaved(k)' /\ ~Insertable(d)'
         \/ d \in lost' /\ phase'[k] = "none"]_vars

(* With a database that accepts a valid batch in the end, what waits in a   *)
(* list is committed or dropped with its activation, unless the list comes  *)
(* to hold an entry the foreign keys reject.                               *)
WriteBehindProgress ==
  \A k \in Keys : \A d \in Decision :
    (d \in Unsaved(k)) ~> (d \notin Unsaved(k) \/ Poisoned(k))

(* README.md:17, the history is saved in the background: every recorded     *)
(* answer is committed or dropped with its activation in the end.          *)
HistoryEventuallySaved ==
  \A k \in Keys : \A d \in Decision :
    (d \in Unsaved(k)) ~> (d \notin Unsaved(k))

(* README.md:18, on grain shutdown histories can be persisted: a graceful   *)
(* deactivation drops nothing.                                             *)
GracefulStopKeepsHistory ==
  [][\A k \in Keys : Deactivated(k) => lost' = lost]_vars

-----------------------------------------------------------------------------
AcceptedBy(k) == {d \in DOMAIN decisions : decisions[d].key = k}

Log == INSTANCE AccessLog WITH
  Decisions <- Decision,
  accepted <- [k \in Keys |-> AcceptedBy(k)],
  stored <- saved

(* The grains implement the write-behind log: every step is an acceptance,  *)
(* a store of the oldest waiting decisions, a drop, or invisible.          *)
ImplementsLog == Log!Spec
=============================================================================
