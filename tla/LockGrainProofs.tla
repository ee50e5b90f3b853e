--------------------------- MODULE LockGrainProofs ---------------------------
(***************************************************************************)
(* Proofs about LockGrain, for every set of keys, locks, users and roles   *)
(* and every value of the bounds.                                          *)
(***************************************************************************)
EXTENDS LockGrain, SequenceTheorems, TLAPS

-----------------------------------------------------------------------------
(* Sequences: appending, the batch at the head, and what trimming leaves.   *)

Increasing(buf) ==
  \A i, j \in 1..Len(buf) : i < j => buf[i] < buf[j]

(* RequestAccessAsync: an appended element is the only new one.            *)
LEMMA RangeOfAppend ==
  ASSUME NEW S, NEW buf \in Seq(S), NEW d \in S
  PROVE  Range(Append(buf, d)) = Range(buf) \cup {d}
<1>1. /\ Append(buf, d) \in Seq(S)
      /\ Len(Append(buf, d)) = Len(buf) + 1
      /\ \A i \in 1..Len(buf) : Append(buf, d)[i] = buf[i]
      /\ Append(buf, d)[Len(buf) + 1] = d
  BY AppendProperties
<1>2. Len(buf) \in Nat
  BY LenProperties
<1>3. Range(Append(buf, d)) = {Append(buf, d)[i] : i \in 1..(Len(buf) + 1)}
  BY <1>1, RangeEquality
<1>4. Range(buf) = {buf[i] : i \in 1..Len(buf)}
  BY RangeEquality
<1>5. 1..(Len(buf) + 1) = 1..Len(buf) \cup {Len(buf) + 1}
  BY <1>2
<1> QED
  BY <1>1, <1>3, <1>4, <1>5

(* RequestAccessAsync: a list stays in the order of the decisions.         *)
LEMMA IncreasingAppend ==
  ASSUME NEW buf \in Seq(Nat), Increasing(buf),
         NEW d \in Nat, \A c \in Range(buf) : c < d
  PROVE  Increasing(Append(buf, d))
<1>1. /\ Len(Append(buf, d)) = Len(buf) + 1
      /\ \A i \in 1..Len(buf) : Append(buf, d)[i] = buf[i]
      /\ Append(buf, d)[Len(buf) + 1] = d
      /\ Len(buf) \in Nat
  BY AppendProperties, LenProperties
<1>2. \A i \in 1..Len(buf) : buf[i] < d
  BY RangeEquality
<1> QED
  BY <1>1, <1>2 DEF Increasing

(* SaveLockAccessAsync: Take(count) is the beginning of the list.          *)
LEMMA RangeOfBatch ==
  ASSUME NEW S, NEW buf \in Seq(S), NEW n \in 0..Len(buf)
  PROVE  Range(SubSeq(buf, 1, n)) = {buf[i] : i \in 1..n}
<1> DEFINE batch == SubSeq(buf, 1, n)
<1>1. Len(buf) \in Nat /\ \A i \in 1..Len(buf) : buf[i] \in S
  BY LenProperties, ElementOfSeq
<1>2. \A i \in 1..n : buf[i] \in S
  BY <1>1
<1>3. /\ SubSeq(buf, 1, n) \in Seq(S)
      /\ Len(SubSeq(buf, 1, n)) = IF 1 <= n THEN n - 1 + 1 ELSE 0
      /\ \A i \in 1..(n - 1 + 1) : SubSeq(buf, 1, n)[i] = buf[1 + i - 1]
  BY <1>1, <1>2, SubSeqProperties
<1>4. batch \in Seq(S) /\ Len(batch) = n /\ \A i \in 1..n : batch[i] = buf[i]
  BY <1>1, <1>3
<1> HIDE DEF batch
<1>5. Range(batch) = {batch[i] : i \in 1..n}
  BY <1>4, RangeEquality
<1>6. Range(batch) = {buf[i] : i \in 1..n}
  BY <1>4, <1>5
<1> QED
  BY <1>6 DEF batch

(* SaveLockAccessAsync: RemoveRange(0, count) leaves the end of the list.  *)
LEMMA TrimmedProperties ==
  ASSUME NEW S, NEW buf \in Seq(S), NEW n \in 0..Len(buf)
  PROVE  /\ Trimmed(buf, n) \in Seq(S)
         /\ Len(Trimmed(buf, n)) = Len(buf) - n
         /\ \A i \in 1..(Len(buf) - n) : Trimmed(buf, n)[i] = buf[i + n]
<1>1. Len(buf) \in Nat /\ \A i \in 1..Len(buf) : buf[i] \in S
  BY LenProperties, ElementOfSeq
<1>2. \A i \in (n + 1)..Len(buf) : buf[i] \in S
  BY <1>1
<1>3. /\ SubSeq(buf, n + 1, Len(buf)) \in Seq(S)
      /\ Len(SubSeq(buf, n + 1, Len(buf))) =
           IF n + 1 <= Len(buf) THEN Len(buf) - (n + 1) + 1 ELSE 0
      /\ \A i \in 1..(Len(buf) - (n + 1) + 1) :
           SubSeq(buf, n + 1, Len(buf))[i] = buf[(n + 1) + i - 1]
  BY <1>1, <1>2, SubSeqProperties
<1> QED
  BY <1>1, <1>3 DEF Trimmed

LEMMA RangeOfTrimmed ==
  ASSUME NEW S, NEW buf \in Seq(S), NEW n \in 0..Len(buf)
  PROVE  Range(Trimmed(buf, n)) = {buf[i] : i \in (n + 1)..Len(buf)}
<1> DEFINE rest == Trimmed(buf, n)
<1>1. Len(buf) \in Nat
  BY LenProperties
<1>2. /\ rest \in Seq(S)
      /\ Len(rest) = Len(buf) - n
      /\ \A i \in 1..(Len(buf) - n) : rest[i] = buf[i + n]
  BY TrimmedProperties
<1> HIDE DEF rest
<1>3. Range(rest) = {rest[i] : i \in 1..(Len(buf) - n)}
  BY <1>2, RangeEquality
<1>4. \A i \in 1..(Len(buf) - n) : i + n \in (n + 1)..Len(buf)
  BY <1>1
<1>5. ASSUME NEW j \in (n + 1)..Len(buf)
      PROVE  buf[j] = rest[j - n] /\ j - n \in 1..(Len(buf) - n)
  <2>1. j - n \in 1..(Len(buf) - n) /\ (j - n) + n = j
    BY <1>1
  <2> QED
    BY <1>2, <2>1
<1>6. Range(rest) \subseteq {buf[i] : i \in (n + 1)..Len(buf)}
  <2>1. SUFFICES ASSUME NEW i \in 1..(Len(buf) - n)
                 PROVE  rest[i] \in {buf[m] : m \in (n + 1)..Len(buf)}
    BY <1>3
  <2>2. rest[i] = buf[i + n] /\ i + n \in (n + 1)..Len(buf)
    BY <1>2, <1>4
  <2> QED
    BY <2>2
<1>7. {buf[i] : i \in (n + 1)..Len(buf)} \subseteq Range(rest)
  BY <1>3, <1>5
<1> QED
  BY <1>6, <1>7 DEF rest

(* SaveLockAccessAsync: the rest of an ordered list is ordered.            *)
LEMMA IncreasingTrimmed ==
  ASSUME NEW buf \in Seq(Nat), NEW n \in 0..Len(buf), Increasing(buf)
  PROVE  Increasing(Trimmed(buf, n))
<1> DEFINE rest == Trimmed(buf, n)
<1>1. Len(buf) \in Nat
  BY LenProperties
<1>2. Len(rest) = Len(buf) - n /\ \A i \in 1..(Len(buf) - n) : rest[i] = buf[i + n]
  BY TrimmedProperties
<1> HIDE DEF rest
<1>3. ASSUME NEW i \in 1..Len(rest), NEW j \in 1..Len(rest), i < j
      PROVE  rest[i] < rest[j]
  <2>0. i \in Nat /\ j \in Nat /\ i >= 1 /\ i < j /\ j <= Len(buf) - n
    BY <1>1, <1>2, <1>3
  <2>1. i + n \in 1..Len(buf) /\ j + n \in 1..Len(buf) /\ i + n < j + n
    BY <1>1, <2>0
  <2>2. rest[i] = buf[i + n] /\ rest[j] = buf[j + n]
    BY <1>1, <1>2
  <2> QED
    BY <2>1, <2>2 DEF Increasing
<1> QED
  BY <1>3 DEF Increasing, rest

(* SaveLockAccessAsync: the batch holds the oldest entries of the list.    *)
LEMMA BatchIsOldest ==
  ASSUME NEW buf \in Seq(Nat), NEW n \in 0..Len(buf), Increasing(buf),
         NEW c \in Range(buf), NEW d \in Range(SubSeq(buf, 1, n)), c < d
  PROVE  c \in Range(SubSeq(buf, 1, n))
<1>1. Len(buf) \in Nat /\ \A i \in 1..Len(buf) : buf[i] \in Nat
  BY LenProperties, ElementOfSeq
<1>2. PICK i \in 1..Len(buf) : c = buf[i]
  BY RangeEquality
<1>3. PICK j \in 1..n : d = buf[j]
  BY RangeOfBatch
<1>4. ~(j < i) /\ i # j
  <2>1. j \in 1..Len(buf) /\ buf[i] < buf[j]
    BY <1>1, <1>2, <1>3
  <2>2. buf[i] \in Nat /\ buf[j] \in Nat
    BY <1>1, <2>1
  <2>3. j < i => buf[j] < buf[i]
    BY <2>1 DEF Increasing
  <2> QED
    BY <2>1, <2>2, <2>3
<1>5. i \in 1..n
  BY <1>1, <1>2, <1>3, <1>4
<1>6. c \in {buf[m] : m \in 1..n}
  BY <1>2, <1>5
<1> QED
  BY <1>6, RangeOfBatch

(* SaveLockAccessAsync: nothing of the batch is left in the list.          *)
LEMMA BatchIsRemoved ==
  ASSUME NEW buf \in Seq(Nat), NEW n \in 0..Len(buf), Increasing(buf)
  PROVE  /\ Range(Trimmed(buf, n)) = Range(buf) \ Range(SubSeq(buf, 1, n))
         /\ Range(SubSeq(buf, 1, n)) \subseteq Range(buf)
<1>1. Len(buf) \in Nat /\ \A i \in 1..Len(buf) : buf[i] \in Nat
  BY LenProperties, ElementOfSeq
<1>2. 1..Len(buf) = (1..n) \cup ((n + 1)..Len(buf))
  BY <1>1
<1>3. ASSUME NEW i \in 1..n, NEW j \in (n + 1)..Len(buf)
      PROVE  buf[i] # buf[j]
  BY <1>1 DEF Increasing
<1> DEFINE batch == Range(SubSeq(buf, 1, n))
           rest == Range(Trimmed(buf, n))
<1>4. batch = {buf[i] : i \in 1..n}
  BY RangeOfBatch
<1>5. rest = {buf[i] : i \in (n + 1)..Len(buf)}
  BY RangeOfTrimmed
<1>6. Range(buf) = {buf[i] : i \in 1..Len(buf)}
  BY RangeEquality
<1> HIDE DEF batch, rest
<1>7. batch \cap rest = {} /\ Range(buf) = batch \cup rest
  BY <1>2, <1>3, <1>4, <1>5, <1>6
<1>8. rest = Range(buf) \ batch /\ batch \subseteq Range(buf)
  BY <1>7
<1> QED
  BY <1>8 DEF batch, rest

-----------------------------------------------------------------------------
(* The types, and the local variable count of a running save: it counts an *)
(* initial part of the list, because the list only grows meanwhile.        *)
CountInList ==
  \A k \in Keys :
    /\ flush[k] = "idle" => count[k] = 0
    /\ flush[k] # "idle" => count[k] \in 1..Len(buffer[k])

TypeInv == TypeOK /\ CountInList

(* What TypeInv says of the recorded decisions.                            *)
LEMMA DecisionsTyped ==
  ASSUME TypeInv
  PROVE  /\ Decision \subseteq Nat
         /\ DOMAIN decisions \subseteq Decision
         /\ \A d \in DOMAIN decisions : /\ decisions[d] \in Entry
                                      /\ decisions[d].key \in Keys
<1>1. /\ decisions \in Seq(Entry)
      /\ Len(decisions) \in Nat
      /\ Len(decisions) <= MaxDecisions
      /\ DOMAIN decisions = 1..Len(decisions)
  BY LenProperties DEF TypeInv, TypeOK
<1>2. DOMAIN decisions \subseteq Decision /\ Decision \subseteq Nat
  BY <1>1, GrainAssumption DEF Decision
<1>3. \A d \in DOMAIN decisions : decisions[d] \in Entry
  BY <1>1, ElementOfSeq
<1>4. \A e \in Entry : e.key \in Keys
  BY DEF Entry
<1> QED
  BY <1>2, <1>3, <1>4

(* What TypeInv says of a running save.                                    *)
LEMMA BatchInList ==
  ASSUME TypeInv, NEW k \in Keys
  PROVE  /\ count[k] \in 0..Len(buffer[k])
         /\ Batch(k) = SubSeq(buffer[k], 1, count[k])
         /\ Range(Batch(k)) \subseteq Range(buffer[k])
         /\ Range(Batch(k)) \subseteq Decision
         /\ Range(buffer[k]) \subseteq Decision
<1>1. buffer[k] \in Seq(Decision) /\ Len(buffer[k]) \in Nat
  BY LenProperties DEF TypeInv, TypeOK
<1>2. count[k] \in 0..Len(buffer[k])
  BY <1>1 DEF TypeInv, CountInList
<1>3. Range(Batch(k)) = {buffer[k][i] : i \in 1..count[k]}
  BY <1>1, <1>2, RangeOfBatch DEF Batch
<1>4. Range(buffer[k]) = {buffer[k][i] : i \in 1..Len(buffer[k])}
  BY <1>1, RangeEquality
<1>5. 1..count[k] \subseteq 1..Len(buffer[k])
  BY <1>1, <1>2
<1>6. Range(buffer[k]) \in SUBSET Decision
  BY <1>1, RangeOfSeq
<1> QED
  BY <1>2, <1>3, <1>4, <1>5, <1>6 DEF Batch

(* The initial state has the right types.                                  *)
LEMMA InitTypeInv == Init => TypeInv
<1> SUFFICES ASSUME Init PROVE TypeInv
  OBVIOUS
<1>1. [k \in Keys |-> <<>>] \in [Keys -> Seq(Decision)]
  BY EmptySeq
<1>2. NullLock \in CachedLock
  BY DEF NullLock, CachedLock
<1>3. notices \in Seq(Notice) /\ decisions \in Seq(Entry) /\ Len(decisions) = 0
  BY EmptySeq DEF Init
<1> QED
  BY <1>1, <1>2, <1>3, GrainAssumption
     DEF Init, TypeInv, TypeOK, CountInList, Phases

(* A recorded decision has the fields of LockAccessHistoryEntity.          *)
LEMMA DecideTypeInv ==
  ASSUME TypeInv, NEW k \in Keys, NEW requester \in UserIds,
         NEW claims \in SUBSET Roles, NEW employee \in UserIds \cup {NoUser},
         Decide(k, requester, claims, employee)
  PROVE  TypeInv'
<1> DEFINE result == AccessResult(k, claims)
           entry == [key |-> k, lock |-> cached[k].lock,
                     requester |-> requester, employee |-> employee,
                     result |-> result]
           notice == [topic |-> cached[k].lock, result |-> result]
<1>1. result \in Results
  BY DEF AccessResult, Results
<1>2. cached[k].lock \in Locks
  BY DEF TypeInv, TypeOK, CachedLock, Decide
<1>3. entry \in Entry /\ notice \in Notice
  BY <1>1, <1>2 DEF Entry, Notice
<1>4. /\ Len(decisions) \in Nat
      /\ Len(decisions) < MaxDecisions
      /\ decisions' = Append(decisions, entry)
      /\ notices' = Append(notices, notice)
      /\ buffer' = [buffer EXCEPT ![k] = Append(@, Len(decisions) + 1)]
      /\ answer' = result
      /\ UNCHANGED <<store, rows, phase, cached, flush, count, saved, lost,
                    lostAcks>>
  BY LenProperties DEF TypeInv, TypeOK, Decide, DecideUnchecked
<1>5. /\ decisions' \in Seq(Entry)
      /\ Len(decisions') = Len(decisions) + 1
      /\ notices' \in Seq(Notice)
  BY <1>3, <1>4, AppendProperties DEF TypeInv, TypeOK
<1>6. Len(decisions) + 1 \in Decision
  BY <1>4, GrainAssumption DEF Decision
<1>7. Append(buffer[k], Len(decisions) + 1) \in Seq(Decision)
  BY <1>6, AppendProperties DEF TypeInv, TypeOK
<1>8. buffer' \in [Keys -> Seq(Decision)]
  BY <1>4, <1>7 DEF TypeInv, TypeOK
<1>9. Len(decisions') <= MaxDecisions
  BY <1>4, <1>5, GrainAssumption
<1>10. answer' \in Results \cup {"none"}
  BY <1>1, <1>4
<1>11. CountInList'
  <2>1. Len(Append(buffer[k], Len(decisions) + 1)) = Len(buffer[k]) + 1
    BY <1>6, AppendProperties DEF TypeInv, TypeOK
  <2>2. \A j \in Keys : Len(buffer[j]) \in Nat /\ Len(buffer'[j]) \in Nat
    BY <1>8, LenProperties DEF TypeInv, TypeOK
  <2>3. \A j \in Keys : Len(buffer[j]) <= Len(buffer'[j])
    BY <1>4, <2>1, <2>2 DEF TypeInv, TypeOK
  <2> QED
    BY <1>4, <2>2, <2>3 DEF TypeInv, TypeOK, CountInList
<1> HIDE DEF entry, notice, result
<1> QED
  BY <1>4, <1>5, <1>8, <1>9, <1>10, <1>11 DEF TypeInv, TypeOK, store

(* A save that ends, in whatever way, leaves a list of decisions.          *)
LEMMA SaveTypeInv ==
  ASSUME TypeInv, NEW k \in Keys,
         TimerTick(k) \/ SaveCommit(k) \/ SaveReturn(k)
  PROVE  TypeInv'
<1>1. buffer[k] \in Seq(Decision) /\ Len(buffer[k]) \in Nat /\ count[k] \in Nat
  BY LenProperties DEF TypeInv, TypeOK
<1>2. CASE TimerTick(k)
  <2>1. buffer[k] # <<>> => Len(buffer[k]) # 0
    BY <1>1, EmptySeq
  <2>2. count' = [count EXCEPT ![k] = Len(buffer[k])] /\ Len(buffer[k]) \in 1..Len(buffer[k])
    BY <1>1, <1>2, <2>1 DEF TimerTick
  <2> QED
    BY <1>1, <1>2, <2>2 DEF TypeInv, TypeOK, CountInList, TimerTick, store, history
<1>3. CASE SaveCommit(k)
  <2>1. rows' \in [Decision -> Nat]
    BY <1>3 DEF TypeInv, TypeOK, SaveCommit
  <2>2. saved' \in SUBSET Decision
    BY <1>3, BatchInList DEF TypeInv, TypeOK, SaveCommit
  <2> QED
    BY <1>3, <2>1, <2>2
       DEF TypeInv, TypeOK, CountInList, SaveCommit, store, history
<1>4. CASE SaveReturn(k)
  <2>1. Trimmed(buffer[k], count[k]) \in Seq(Decision)
    BY <1>1, BatchInList, TrimmedProperties
  <2> QED
    BY <1>4, <2>1 DEF TypeInv, TypeOK, CountInList, SaveReturn, store, history
<1> QED
  BY <1>2, <1>3, <1>4

(* The end of an activation leaves empty lists.                            *)
LEMMA ForgetTypeInv ==
  ASSUME TypeInv, NEW K \in SUBSET Keys, Forget(K)
  PROVE  TypeInv'
<1>1. buffer' \in [Keys -> Seq(Decision)]
  BY EmptySeq DEF TypeInv, TypeOK, Forget
<1>2. cached' \in [Keys -> CachedLock]
  BY DEF TypeInv, TypeOK, Forget, NullLock, CachedLock
<1>3. lost' \in SUBSET Decision
  BY BatchInList DEF TypeInv, TypeOK, Forget, Unsaved
<1>4. phase' \in [Keys -> Phases]
  BY DEF TypeInv, TypeOK, Forget, Phases
<1>5. /\ flush' \in [Keys -> {"idle", "writing", "committed"}]
      /\ count' \in [Keys -> Nat]
      /\ CountInList'
  BY DEF TypeInv, TypeOK, CountInList, Forget
<1> QED
  BY <1>1, <1>2, <1>3, <1>4, <1>5 DEF TypeInv, TypeOK, Forget, store, history

(* A save that fails leaves the list to the next tick.                     *)
LEMMA SaveThrowsTypeInv ==
  ASSUME TypeInv, NEW k \in Keys, SaveThrows(k),
         lostAcks' \in [Keys -> 0..MaxLostAcks]
  PROVE  TypeInv'
<1>1. /\ flush' = [flush EXCEPT ![k] = "idle"]
      /\ count' = [count EXCEPT ![k] = 0]
      /\ UNCHANGED <<users, lockRoles, rows, phase, cached, buffer, decisions,
                    answer, notices, saved, lost>>
  BY DEF SaveThrows, store, history
<1>2. CountInList'
  BY <1>1 DEF TypeInv, TypeOK, CountInList
<1> QED
  BY <1>1, <1>2 DEF TypeInv, TypeOK

(* Every step preserves the types.                                         *)
LEMMA NextTypeInv == TypeInv /\ [Next]_vars => TypeInv'
<1> SUFFICES ASSUME TypeInv, [Next]_vars PROVE TypeInv'
  OBVIOUS
<1> USE DEF TypeInv, TypeOK, CountInList, store, history
<1>1. CASE UNCHANGED vars
  BY <1>1 DEF vars
<1>2. ASSUME NEW k \in Keys, Activate(k) PROVE TypeInv'
  BY <1>2, GrainAssumption
     DEF Activate, CachedRoles, CachedLock, NullLock, Phases
<1>3. ASSUME NEW k \in Keys, Activated(k) PROVE TypeInv'
  BY <1>3 DEF Activated, Phases
<1>4. ASSUME NEW k \in Keys, ActivateFailed(k) PROVE TypeInv'
  BY <1>4 DEF ActivateFailed, CachedLock, NullLock, Phases
<1>5. ASSUME NEW k \in Keys, RequestUnknownLock(k) PROVE TypeInv'
  BY <1>5 DEF RequestUnknownLock, Results
<1>6. ASSUME NEW k \in Keys, NEW requester \in UserIds,
             NEW claims \in SUBSET Roles, NEW employee \in UserIds \cup {NoUser},
             Decide(k, requester, claims, employee)
      PROVE  TypeInv'
  BY <1>6, DecideTypeInv
<1>7. ASSUME NEW k \in Keys, TimerTick(k) \/ SaveCommit(k) \/ SaveReturn(k)
      PROVE  TypeInv'
  BY <1>7, SaveTypeInv
<1>8. ASSUME NEW k \in Keys, SaveReject(k) \/ SaveFail(k) PROVE TypeInv'
  BY <1>8, SaveThrowsTypeInv DEF SaveReject, SaveFail
<1>9. ASSUME NEW k \in Keys, AckLost(k) PROVE TypeInv'
  <2>1. lostAcks' \in [Keys -> 0..MaxLostAcks]
    BY <1>9, GrainAssumption DEF AckLost
  <2> QED
    BY <1>9, <2>1, SaveThrowsTypeInv DEF AckLost
<1>10. ASSUME NEW k \in Keys, Deactivate(k) PROVE TypeInv'
  BY <1>10 DEF Deactivate, Phases
<1>11. ASSUME NEW k \in Keys, Deactivated(k) PROVE TypeInv'
  BY <1>11, ForgetTypeInv DEF Deactivated
<1>12. ASSUME NEW K \in SUBSET Keys, Crash(K) PROVE TypeInv'
  BY <1>12, ForgetTypeInv DEF Crash
<1>13. ASSUME NEW r \in Roles, DeleteRole(r) PROVE TypeInv'
  BY <1>13 DEF DeleteRole
<1>14. ASSUME NEW u \in UserIds, DeleteUser(u) PROVE TypeInv'
  BY <1>14 DEF DeleteUser
<1> HIDE DEF TypeInv, TypeOK, CountInList, store, history
<1> QED
  BY <1>1, <1>2, <1>3, <1>4, <1>5, <1>6, <1>7, <1>8, <1>9, <1>10, <1>11,
     <1>12, <1>13, <1>14 DEF Next

THEOREM TypeInvariant == Spec => []TypeInv
<1>1. Init => TypeInv
  BY InitTypeInv
<1>2. TypeInv /\ [Next]_vars => TypeInv'
  BY NextTypeInv
<1> QED
  BY <1>1, <1>2, PTL DEF Spec

(* The state of the grains and of the tables is always what its            *)
(* declarations say: no entry is recorded for a key without a lock.        *)
THEOREM TypeCorrect == Spec => []TypeOK
<1>1. TypeInv => TypeOK
  BY DEF TypeInv
<1> QED
  BY <1>1, TypeInvariant, PTL

-----------------------------------------------------------------------------
(* What each step does to the lists, in terms of their ranges.             *)

LEMMA DecideLists ==
  ASSUME TypeInv, NEW k \in Keys, NEW requester \in UserIds,
         NEW claims \in SUBSET Roles, NEW employee \in UserIds \cup {NoUser},
         Decide(k, requester, claims, employee),
         NEW n, n = Len(decisions) + 1
  PROVE  /\ n \in Decision
         /\ \A d \in DOMAIN decisions : d < n
         /\ DOMAIN decisions' = DOMAIN decisions \cup {n}
         /\ \A d \in DOMAIN decisions : decisions'[d] = decisions[d]
         /\ decisions'[n].key = k
         /\ buffer'[k] = Append(buffer[k], n)
         /\ Range(buffer'[k]) = Range(buffer[k]) \cup {n}
         /\ \A j \in Keys \ {k} : buffer'[j] = buffer[j]
         /\ \A j \in Keys : Range(Batch(j)') = Range(Batch(j))
         /\ UNCHANGED <<users, rows, flush, count, saved, lost, lostAcks>>
<1> DEFINE entry == [key |-> k, lock |-> cached[k].lock,
                     requester |-> requester, employee |-> employee,
                     result |-> AccessResult(k, claims)]
<1>1. /\ decisions' = Append(decisions, entry)
      /\ buffer' = [buffer EXCEPT ![k] = Append(@, n)]
      /\ Len(decisions) < MaxDecisions
      /\ UNCHANGED <<users, rows, flush, count, saved, lost, lostAcks>>
  BY DEF Decide, DecideUnchecked, store
<1>2. /\ Len(decisions) \in Nat
      /\ DOMAIN decisions = 1..Len(decisions)
      /\ buffer \in [Keys -> Seq(Decision)]
      /\ buffer' \in [Keys -> Seq(Decision)]
      /\ TypeInv'
  BY DecideTypeInv, LenProperties DEF TypeInv, TypeOK
<1>3. /\ Len(decisions') = n
      /\ DOMAIN decisions' = 1..n
      /\ \A d \in 1..Len(decisions) : decisions'[d] = decisions[d]
      /\ decisions'[n] = entry
  <2> DEFINE T == Entry \cup {entry}
  <2>1. decisions \in Seq(T) /\ entry \in T
    BY SeqMonotonic DEF TypeInv, TypeOK
  <2>2. decisions' \in Seq(T)
    BY <1>1, <2>1, AppendProperties
  <2> HIDE DEF T, entry
  <2>3. /\ Len(decisions') = n
        /\ \A d \in 1..Len(decisions) : decisions'[d] = decisions[d]
        /\ decisions'[n] = entry
    BY <1>1, <2>1, AppendProperties
  <2> QED
    BY <2>2, <2>3, LenProperties
<1>4. n \in Decision /\ 1..n = 1..Len(decisions) \cup {n} /\ \A d \in 1..Len(decisions) : d < n
  BY <1>1, <1>2, GrainAssumption DEF Decision
<1>5. buffer'[k] = Append(buffer[k], n) /\ \A j \in Keys \ {k} : buffer'[j] = buffer[j]
  BY <1>1, <1>2
<1>6. Range(buffer'[k]) = Range(buffer[k]) \cup {n}
  BY <1>2, <1>4, <1>5, RangeOfAppend
<1>7. ASSUME NEW j \in Keys
      PROVE  Range(Batch(j)') = Range(Batch(j))
  <2>1. count'[j] = count[j] /\ count[j] \in 0..Len(buffer[j])
    BY <1>1, BatchInList
  <2>2. Len(buffer[j]) \in Nat /\ Len(buffer'[j]) \in Nat
    BY <1>2, LenProperties
  <2>3. /\ Len(buffer[j]) <= Len(buffer'[j])
        /\ \A i \in 1..Len(buffer[j]) : buffer'[j][i] = buffer[j][i]
    <3>1. CASE j = k
      <4>1. /\ Len(buffer'[k]) = Len(buffer[k]) + 1
            /\ \A i \in 1..Len(buffer[k]) : buffer'[k][i] = buffer[k][i]
        BY <1>2, <1>4, <1>5, AppendProperties
      <4> QED
        BY <2>2, <3>1, <4>1
    <3>2. CASE j # k
      BY <1>5, <2>2, <3>2
    <3> QED
      BY <3>1, <3>2
  <2>4. count[j] \in 0..Len(buffer'[j])
    BY <2>1, <2>2, <2>3
  <2>5. \A i \in 1..count[j] : buffer'[j][i] = buffer[j][i]
    BY <2>1, <2>2, <2>3
  <2>6. Range(SubSeq(buffer[j], 1, count[j])) = {buffer[j][i] : i \in 1..count[j]}
    BY <1>2, <2>1, RangeOfBatch
  <2>7. Range(SubSeq(buffer'[j], 1, count[j])) = {buffer'[j][i] : i \in 1..count[j]}
    BY <1>2, <2>4, RangeOfBatch
  <2>8. {buffer'[j][i] : i \in 1..count[j]} = {buffer[j][i] : i \in 1..count[j]}
    BY <2>5
  <2>9. Batch(j)' = SubSeq(buffer'[j], 1, count[j]) /\ Batch(j) = SubSeq(buffer[j], 1, count[j])
    BY <2>1 DEF Batch
  <2> QED
    BY <2>6, <2>7, <2>8, <2>9
<1>8. decisions'[n].key = k
  BY <1>3
<1> HIDE DEF entry
<1> QED
  BY <1>1, <1>2, <1>3, <1>4, <1>5, <1>6, <1>7, <1>8

LEMMA SaveReturnLists ==
  ASSUME TypeInv, NEW k \in Keys, SaveReturn(k), Increasing(buffer[k])
  PROVE  /\ buffer'[k] = Trimmed(buffer[k], count[k])
         /\ Range(buffer'[k]) = Range(buffer[k]) \ Range(Batch(k))
         /\ Increasing(buffer'[k])
         /\ \A j \in Keys \ {k} : /\ buffer'[j] = buffer[j]
                                 /\ flush'[j] = flush[j]
                                 /\ Batch(j)' = Batch(j)
         /\ flush[k] = "committed" /\ flush'[k] = "idle"
         /\ UNCHANGED <<users, rows, decisions, saved, lost, lostAcks>>
<1>1. buffer \in [Keys -> Seq(Decision)] /\ count \in [Keys -> Nat]
  BY DEF TypeInv, TypeOK
<1>2. /\ buffer'[k] = Trimmed(buffer[k], count[k])
      /\ \A j \in Keys \ {k} : buffer'[j] = buffer[j] /\ count'[j] = count[j]
  BY <1>1 DEF SaveReturn
<1>3. buffer[k] \in Seq(Nat) /\ count[k] \in 0..Len(buffer[k])
  <2>1. Decision \subseteq Nat /\ buffer[k] \in Seq(Decision)
    BY <1>1 DEF Decision
  <2> QED
    BY <2>1, SeqMonotonic, BatchInList
<1>4. /\ Range(buffer'[k]) = Range(buffer[k]) \ Range(Batch(k))
      /\ Increasing(buffer'[k])
  BY <1>2, <1>3, BatchIsRemoved, IncreasingTrimmed DEF Batch
<1> QED
  BY <1>2, <1>4 DEF SaveReturn, TypeInv, TypeOK, store, history, Batch

LEMMA ForgetLists ==
  ASSUME TypeInv, NEW K \in SUBSET Keys, Forget(K)
  PROVE  /\ \A k \in K : /\ buffer'[k] = <<>>
                        /\ Range(buffer'[k]) = {}
                        /\ flush'[k] = "idle"
         /\ \A k \in Keys \ K : /\ buffer'[k] = buffer[k]
                               /\ flush'[k] = flush[k]
                               /\ Batch(k)' = Batch(k)
         /\ lost' = lost \cup UNION {Range(buffer[k]) \ saved : k \in K}
         /\ UNCHANGED <<users, rows, decisions, saved, lostAcks>>
<1>1. Range(<<>>) = {}
  <2>1. \A s \in Seq({}) : Range(s) \subseteq {}
    BY RangeOfSeq
  <2>2. <<>> \in Seq({})
    BY EmptySeq
  <2> QED
    BY <2>1, <2>2
<1> QED
  BY <1>1 DEF Forget, Unsaved, Batch, store, history

(* The steps that leave lists, decisions and what is saved or lost alone.  *)
QuietStep ==
  \/ \E k \in Keys : \/ Activate(k) \/ Activated(k) \/ ActivateFailed(k)
                    \/ RequestUnknownLock(k) \/ TimerTick(k) \/ SaveReject(k)
                    \/ SaveFail(k) \/ AckLost(k) \/ Deactivate(k)
  \/ \E r \in Roles : DeleteRole(r)
  \/ \E u \in UserIds : DeleteUser(u)
  \/ UNCHANGED vars

(* A save that a quiet step leaves running or committed is the same one.   *)
LEMMA QuietLists ==
  ASSUME TypeInv, QuietStep
  PROVE  /\ UNCHANGED <<buffer, decisions, saved, lost>>
         /\ \A k \in Keys : flush'[k] = "committed" =>
              flush[k] = "committed" /\ Batch(k)' = Batch(k)
<1> USE DEF TypeInv, TypeOK, history, Batch
<1>1. ASSUME NEW k \in Keys,
             \/ Activate(k) \/ Activated(k) \/ ActivateFailed(k)
             \/ RequestUnknownLock(k) \/ Deactivate(k)
      PROVE  UNCHANGED <<buffer, decisions, saved, lost, flush, count>>
  BY <1>1 DEF Activate, Activated, ActivateFailed, RequestUnknownLock, Deactivate
<1>2. ASSUME NEW k \in Keys,
             TimerTick(k) \/ SaveReject(k) \/ SaveFail(k) \/ AckLost(k)
      PROVE  /\ UNCHANGED <<buffer, decisions, saved, lost>>
             /\ flush'[k] # "committed"
             /\ \A j \in Keys \ {k} : flush'[j] = flush[j] /\ count'[j] = count[j]
  BY <1>2 DEF TimerTick, SaveReject, SaveFail, AckLost, SaveThrows
<1>3. ASSUME \/ \E r \in Roles : DeleteRole(r)
             \/ \E u \in UserIds : DeleteUser(u)
             \/ UNCHANGED vars
      PROVE  UNCHANGED <<buffer, decisions, saved, lost, flush, count>>
  BY <1>3 DEF DeleteRole, DeleteUser, vars
<1> HIDE DEF TypeInv, TypeOK, history
<1> QED
  BY <1>1, <1>2, <1>3 DEF QuietStep

(* Every step is quiet or one of those that move decisions.                *)
LEMMA StepKinds ==
  ASSUME [Next]_vars
  PROVE  \/ QuietStep
         \/ \E k \in Keys, requester \in UserIds, claims \in SUBSET Roles,
              employee \in UserIds \cup {NoUser} :
                Decide(k, requester, claims, employee)
         \/ \E k \in Keys : SaveCommit(k)
         \/ \E k \in Keys : SaveReturn(k)
         \/ \E K \in SUBSET Keys : Forget(K)
<1>1. ASSUME NEW k \in Keys, Deactivated(k)
      PROVE  \E K \in SUBSET Keys : Forget(K)
  BY <1>1 DEF Deactivated
<1>2. ASSUME NEW K \in SUBSET Keys, Crash(K)
      PROVE  \E J \in SUBSET Keys : Forget(J)
  BY <1>2 DEF Crash
<1> QED
  BY <1>1, <1>2 DEF Next, QuietStep

-----------------------------------------------------------------------------
(* The inductive invariant of the history: a list holds only decisions of   *)
(* its own grain, in their order; saved and lost exclude each other; and    *)
(* the batch of a commit whose answer is still under way is saved already.  *)
ListsOwned ==
  \A k \in Keys : \A d \in Range(buffer[k]) :
    d \in DOMAIN decisions /\ decisions[d].key = k

ListsIncrease == \A k \in Keys : Increasing(buffer[k])

SavedOrLostOnce ==
  /\ saved \cup lost \subseteq DOMAIN decisions
  /\ saved \cap lost = {}
  /\ \A k \in Keys : Range(buffer[k]) \cap lost = {}

CommittedIsSaved ==
  \A k \in Keys : flush[k] = "committed" => Range(Batch(k)) \subseteq saved

LedgerInv ==
  /\ ListsOwned
  /\ ListsIncrease
  /\ SavedOrLostOnce
  /\ CommittedIsSaved
  /\ NothingForgotten
  /\ NoGapsInHistory

LEMMA InitLedgerInv == Init => LedgerInv
<1> SUFFICES ASSUME Init PROVE LedgerInv
  OBVIOUS
<1>1. <<>> \in Seq({}) /\ Len(<<>>) = 0
  BY EmptySeq
<1>2. Range(<<>>) = {}
  <2>1. \A s \in Seq({}) : Range(s) \subseteq {}
    BY RangeOfSeq
  <2> QED
    BY <1>1, <2>1
<1>3. DOMAIN decisions = {}
  BY <1>1, LenProperties DEF Init
<1>4. \A k \in Keys : buffer[k] = <<>> /\ flush[k] = "idle"
  BY DEF Init
<1>5. ListsIncrease
  BY <1>1, <1>4 DEF ListsIncrease, Increasing
<1>6. saved = {} /\ lost = {}
  BY DEF Init
<1> QED
  BY <1>2, <1>3, <1>4, <1>5, <1>6
     DEF LedgerInv, ListsOwned, SavedOrLostOnce, CommittedIsSaved,
         NothingForgotten, NoGapsInHistory

(* A recorded decision waits at the end of its list.                       *)
LEMMA DecideLedgerInv ==
  ASSUME TypeInv, LedgerInv, NEW k \in Keys, NEW requester \in UserIds,
         NEW claims \in SUBSET Roles, NEW employee \in UserIds \cup {NoUser},
         Decide(k, requester, claims, employee)
  PROVE  LedgerInv'
<1> DEFINE n == Len(decisions) + 1
<1>1. /\ n \in Decision
      /\ \A d \in DOMAIN decisions : d < n
      /\ DOMAIN decisions' = DOMAIN decisions \cup {n}
      /\ \A d \in DOMAIN decisions : decisions'[d] = decisions[d]
      /\ decisions'[n].key = k
      /\ buffer'[k] = Append(buffer[k], n)
      /\ Range(buffer'[k]) = Range(buffer[k]) \cup {n}
      /\ \A j \in Keys \ {k} : buffer'[j] = buffer[j]
      /\ \A j \in Keys : Range(Batch(j)') = Range(Batch(j))
      /\ UNCHANGED <<users, rows, flush, count, saved, lost, lostAcks>>
  BY DecideLists
<1>2. /\ Decision \subseteq Nat
      /\ DOMAIN decisions \subseteq Nat
      /\ \A d \in DOMAIN decisions : decisions[d].key \in Keys
  BY DecisionsTyped
<1> HIDE DEF n
<1>3. n \notin DOMAIN decisions
  BY <1>1, <1>2
<1>4. ListsOwned'
  <2>1. ASSUME NEW j \in Keys, NEW d \in Range(buffer'[j])
        PROVE  d \in DOMAIN decisions' /\ decisions'[d].key = j
    <3>1. CASE d \in Range(buffer[j])
      BY <1>1, <3>1 DEF LedgerInv, ListsOwned
    <3>2. CASE d \notin Range(buffer[j])
      <4>1. j = k /\ d = n
        BY <1>1, <2>1, <3>2
      <4> QED
        BY <1>1, <4>1
    <3> QED
      BY <3>1, <3>2
  <2> QED
    BY <2>1 DEF ListsOwned
<1>5. ListsIncrease'
  <2>1. buffer[k] \in Seq(Nat)
    BY <1>2, SeqMonotonic DEF TypeInv, TypeOK
  <2>2. \A c \in Range(buffer[k]) : c < n
    BY <1>1 DEF LedgerInv, ListsOwned
  <2>3. Increasing(buffer'[k])
    BY <1>1, <1>2, <2>1, <2>2, IncreasingAppend DEF LedgerInv, ListsIncrease
  <2> QED
    BY <1>1, <2>3 DEF LedgerInv, ListsIncrease
<1>6. SavedOrLostOnce'
  <2>1. n \notin lost
    BY <1>3 DEF LedgerInv, SavedOrLostOnce
  <2>2. ASSUME NEW j \in Keys
        PROVE  Range(buffer'[j]) \subseteq Range(buffer[j]) \cup {n}
    BY <1>1
  <2>3. \A j \in Keys : Range(buffer'[j]) \cap lost = {}
    BY <2>1, <2>2 DEF LedgerInv, SavedOrLostOnce
  <2> QED
    BY <1>1, <2>3 DEF LedgerInv, SavedOrLostOnce
<1>7. CommittedIsSaved'
  BY <1>1 DEF LedgerInv, CommittedIsSaved
<1>8. NothingForgotten'
  <2>1. n \in Range(buffer'[decisions'[n].key])
    BY <1>1
  <2>2. ASSUME NEW d \in DOMAIN decisions
        PROVE  d \in saved' \cup lost' \cup Range(buffer'[decisions'[d].key])
    <3>1. d \in saved \cup lost \cup Range(buffer[decisions[d].key])
      BY DEF LedgerInv, NothingForgotten
    <3>2. decisions'[d] = decisions[d] /\ decisions[d].key \in Keys
      BY <1>1, <1>2
    <3>3. Range(buffer[decisions[d].key]) \subseteq Range(buffer'[decisions[d].key])
      BY <1>1, <3>2
    <3> QED
      BY <1>1, <3>1, <3>2, <3>3
  <2> QED
    BY <1>1, <2>1, <2>2 DEF NothingForgotten
<1>9. NoGapsInHistory'
  <2>1. saved \subseteq DOMAIN decisions
    BY DEF LedgerInv, SavedOrLostOnce
  <2>2. ASSUME NEW c \in DOMAIN decisions', NEW d \in saved,
               decisions'[c].key = decisions'[d].key, c < d
        PROVE  c \in saved \cup lost
    <3>1. d \in DOMAIN decisions /\ c \in DOMAIN decisions
      BY <1>1, <1>2, <2>1, <2>2
    <3> QED
      BY <1>1, <2>2, <3>1 DEF LedgerInv, NoGapsInHistory
  <2> QED
    BY <1>1, <2>2 DEF NoGapsInHistory
<1> QED
  BY <1>4, <1>5, <1>6, <1>7, <1>8, <1>9 DEF LedgerInv

(* A commit takes the oldest waiting decisions of its grain.               *)
LEMMA SaveCommitLedgerInv ==
  ASSUME TypeInv, LedgerInv, NEW k \in Keys, SaveCommit(k)
  PROVE  LedgerInv'
<1> DEFINE B == Range(Batch(k))
<1>1. /\ saved' = saved \cup B
      /\ UNCHANGED <<buffer, count, decisions, lost>>
      /\ flush[k] = "writing"
      /\ flush' = [flush EXCEPT ![k] = "committed"]
  BY DEF SaveCommit, history
<1>2. /\ B \subseteq Range(buffer[k])
      /\ Batch(k) = SubSeq(buffer[k], 1, count[k])
      /\ count[k] \in 0..Len(buffer[k])
      /\ \A j \in Keys : Batch(j)' = Batch(j)
  BY <1>1, BatchInList DEF Batch
<1>3. buffer[k] \in Seq(Nat)
  <2>1. Decision \subseteq Nat /\ buffer[k] \in Seq(Decision)
    BY DEF Decision, TypeInv, TypeOK
  <2> QED
    BY <2>1, SeqMonotonic
<1>4. ASSUME NEW d \in B, NEW c \in Range(buffer[k]), c < d
      PROVE  c \in B
  BY <1>2, <1>3, <1>4, BatchIsOldest DEF LedgerInv, ListsIncrease
<1> HIDE DEF B
<1>5. ListsOwned' /\ ListsIncrease' /\ SavedOrLostOnce'
  BY <1>1, <1>2 DEF LedgerInv, ListsOwned, ListsIncrease, SavedOrLostOnce
<1>6. CommittedIsSaved'
  BY <1>1, <1>2 DEF LedgerInv, CommittedIsSaved, B, TypeInv, TypeOK
<1>7. NothingForgotten'
  BY <1>1 DEF LedgerInv, NothingForgotten
<1>8. NoGapsInHistory'
  <2>1. ASSUME NEW c \in DOMAIN decisions, NEW d \in DOMAIN decisions,
               decisions[c].key = decisions[d].key, c < d, d \in B
        PROVE  c \in saved' \cup lost
    <3>1. decisions[c].key = k
      BY <1>2, <2>1 DEF LedgerInv, ListsOwned
    <3>2. c \in saved \cup lost \cup Range(buffer[k])
      BY <3>1 DEF LedgerInv, NothingForgotten
    <3> QED
      BY <1>1, <1>4, <2>1, <3>2
  <2> QED
    BY <1>1, <2>1 DEF LedgerInv, NoGapsInHistory
<1> QED
  BY <1>5, <1>6, <1>7, <1>8 DEF LedgerInv

(* RemoveRange takes only what was saved.                                  *)
LEMMA SaveReturnLedgerInv ==
  ASSUME TypeInv, LedgerInv, NEW k \in Keys, SaveReturn(k)
  PROVE  LedgerInv'
<1>1. /\ Range(buffer'[k]) = Range(buffer[k]) \ Range(Batch(k))
      /\ Increasing(buffer'[k])
      /\ \A j \in Keys \ {k} : /\ buffer'[j] = buffer[j]
                              /\ flush'[j] = flush[j]
                              /\ Batch(j)' = Batch(j)
      /\ flush[k] = "committed" /\ flush'[k] = "idle"
      /\ UNCHANGED <<decisions, saved, lost>>
  BY SaveReturnLists DEF LedgerInv, ListsIncrease
<1>2. Range(Batch(k)) \subseteq saved
  BY <1>1 DEF LedgerInv, CommittedIsSaved
<1>3. ListsOwned' /\ ListsIncrease'
  BY <1>1 DEF LedgerInv, ListsOwned, ListsIncrease
<1>4. SavedOrLostOnce' /\ NoGapsInHistory'
  BY <1>1 DEF LedgerInv, SavedOrLostOnce, NoGapsInHistory
<1>5. CommittedIsSaved'
  BY <1>1 DEF LedgerInv, CommittedIsSaved
<1>6. NothingForgotten'
  <2>1. \A d \in DOMAIN decisions : decisions[d].key \in Keys
    BY DecisionsTyped
  <2> QED
    BY <1>1, <1>2, <2>1 DEF LedgerInv, NothingForgotten
<1> QED
  BY <1>3, <1>4, <1>5, <1>6 DEF LedgerInv

(* What an activation takes down is lost, unless it is saved.              *)
LEMMA ForgetLedgerInv ==
  ASSUME TypeInv, LedgerInv, NEW K \in SUBSET Keys, Forget(K)
  PROVE  LedgerInv'
<1>1. /\ \A k \in K : /\ buffer'[k] = <<>>
                     /\ Range(buffer'[k]) = {}
                     /\ flush'[k] = "idle"
      /\ \A k \in Keys \ K : /\ buffer'[k] = buffer[k]
                            /\ flush'[k] = flush[k]
                            /\ Batch(k)' = Batch(k)
      /\ lost' = lost \cup UNION {Range(buffer[k]) \ saved : k \in K}
      /\ UNCHANGED <<decisions, saved>>
  BY ForgetLists
<1>2. \A k \in K : Increasing(buffer'[k])
  BY <1>1, EmptySeq DEF Increasing
<1>3. ListsOwned' /\ ListsIncrease'
  BY <1>1, <1>2 DEF LedgerInv, ListsOwned, ListsIncrease
<1>4. SavedOrLostOnce'
  <2>1. lost' \subseteq DOMAIN decisions /\ saved \cap lost' = {}
    BY <1>1 DEF LedgerInv, SavedOrLostOnce, ListsOwned
  <2>2. ASSUME NEW j \in Keys, NEW d \in Range(buffer'[j])
        PROVE  d \notin lost'
    <3>1. j \notin K /\ d \in Range(buffer[j]) /\ d \notin lost
      BY <1>1, <2>2 DEF LedgerInv, SavedOrLostOnce
    <3>2. \A k \in K : d \notin Range(buffer[k])
      BY <3>1 DEF LedgerInv, ListsOwned
    <3> QED
      BY <1>1, <3>1, <3>2
  <2> QED
    BY <1>1, <2>1, <2>2 DEF LedgerInv, SavedOrLostOnce
<1>5. CommittedIsSaved'
  BY <1>1 DEF LedgerInv, CommittedIsSaved
<1>6. NothingForgotten'
  <2>1. ASSUME NEW d \in DOMAIN decisions
        PROVE  d \in saved \cup lost' \cup Range(buffer'[decisions[d].key])
    <3>1. /\ decisions[d].key \in Keys
          /\ d \in saved \cup lost \cup Range(buffer[decisions[d].key])
      BY DecisionsTyped DEF LedgerInv, NothingForgotten
    <3> QED
      BY <1>1, <3>1
  <2> QED
    BY <1>1, <2>1 DEF NothingForgotten
<1>7. NoGapsInHistory'
  BY <1>1 DEF LedgerInv, NoGapsInHistory
<1> QED
  BY <1>3, <1>4, <1>5, <1>6, <1>7 DEF LedgerInv

(* Every step preserves the invariant of the history.                      *)
LEMMA NextLedgerInv == TypeInv /\ LedgerInv /\ [Next]_vars => LedgerInv'
<1> SUFFICES ASSUME TypeInv, LedgerInv, [Next]_vars PROVE LedgerInv'
  OBVIOUS
<1>1. ASSUME QuietStep PROVE LedgerInv'
  <2>1. /\ UNCHANGED <<buffer, decisions, saved, lost>>
        /\ \A k \in Keys : flush'[k] = "committed" =>
             flush[k] = "committed" /\ Batch(k)' = Batch(k)
    BY <1>1, QuietLists
  <2>2. CommittedIsSaved'
    BY <2>1 DEF LedgerInv, CommittedIsSaved
  <2> QED
    BY <2>1, <2>2
       DEF LedgerInv, ListsOwned, ListsIncrease, SavedOrLostOnce,
           NothingForgotten, NoGapsInHistory
<1>2. ASSUME NEW k \in Keys, NEW requester \in UserIds,
             NEW claims \in SUBSET Roles, NEW employee \in UserIds \cup {NoUser},
             Decide(k, requester, claims, employee)
      PROVE  LedgerInv'
  BY <1>2, DecideLedgerInv
<1>3. ASSUME NEW k \in Keys, SaveCommit(k) PROVE LedgerInv'
  BY <1>3, SaveCommitLedgerInv
<1>4. ASSUME NEW k \in Keys, SaveReturn(k) PROVE LedgerInv'
  BY <1>4, SaveReturnLedgerInv
<1>5. ASSUME NEW K \in SUBSET Keys, Forget(K) PROVE LedgerInv'
  BY <1>5, ForgetLedgerInv
<1> QED
  BY <1>1, <1>2, <1>3, <1>4, <1>5, StepKinds

THEOREM LedgerInvariant == Spec => [](TypeInv /\ LedgerInv)
<1>1. Init => TypeInv /\ LedgerInv
  BY InitTypeInv, InitLedgerInv
<1>2. TypeInv /\ LedgerInv /\ [Next]_vars => (TypeInv /\ LedgerInv)'
  BY NextTypeInv, NextLedgerInv
<1> QED
  BY <1>1, <1>2, PTL DEF Spec

(* However calls, ticks, failing saves and crashes interleave, no recorded  *)
(* answer disappears: it waits, is saved, or was lost with its activation.  *)
THEOREM NothingIsForgotten == Spec => []NothingForgotten
<1>1. TypeInv /\ LedgerInv => NothingForgotten
  BY DEF LedgerInv
<1> QED
  BY <1>1, LedgerInvariant, PTL

(* The saved history of a grain is complete up to its latest saved answer,  *)
(* but for what ended activations took down.                               *)
THEOREM HistoryHasNoGaps == Spec => []NoGapsInHistory
<1>1. TypeInv /\ LedgerInv => NoGapsInHistory
  BY DEF LedgerInv
<1> QED
  BY <1>1, LedgerInvariant, PTL

-----------------------------------------------------------------------------
(* The grains implement the write-behind log of AccessLog.                 *)

Accepted == [k \in Keys |-> AcceptedBy(k)]

(* What the log has pending is what waits unsaved in the lists.            *)
LEMMA PendingIsUnsaved ==
  ASSUME TypeInv, LedgerInv, NEW k \in Keys
  PROVE  Log!Pending(k) = Range(buffer[k]) \ saved
<1>1. Log!Pending(k) = AcceptedBy(k) \ (saved \cup lost)
  BY DEF Log!Pending
<1>2. \A d \in Range(buffer[k]) \ saved :
        d \in DOMAIN decisions /\ decisions[d].key = k /\ d \notin lost
  BY DEF LedgerInv, ListsOwned, SavedOrLostOnce
<1>3. \A d \in DOMAIN decisions :
        decisions[d].key = k => d \in saved \cup lost \cup Range(buffer[k])
  BY DEF LedgerInv, NothingForgotten
<1> QED
  BY <1>1, <1>2, <1>3 DEF AcceptedBy

(* A recorded answer is an acceptance.                                     *)
LEMMA DecideAccepts ==
  ASSUME TypeInv, NEW k \in Keys, NEW requester \in UserIds,
         NEW claims \in SUBSET Roles, NEW employee \in UserIds \cup {NoUser},
         Decide(k, requester, claims, employee)
  PROVE  Log!Next
<1> DEFINE n == Len(decisions) + 1
<1>1. /\ n \in Decision
      /\ \A d \in DOMAIN decisions : d < n
      /\ DOMAIN decisions' = DOMAIN decisions \cup {n}
      /\ \A d \in DOMAIN decisions : decisions'[d] = decisions[d]
      /\ decisions'[n].key = k
      /\ UNCHANGED <<saved, lost>>
  BY DecideLists
<1> HIDE DEF n
<1>2. n \notin DOMAIN decisions
  BY <1>1, DecisionsTyped
<1>3. ASSUME NEW j \in Keys
      PROVE  AcceptedBy(j)' = IF j = k THEN AcceptedBy(j) \cup {n} ELSE AcceptedBy(j)
  BY <1>1, <1>2 DEF AcceptedBy
<1>4. Accepted' = [Accepted EXCEPT ![k] = @ \cup {n}]
  BY <1>3 DEF Accepted
<1>5. \A j \in Keys : \A c \in AcceptedBy(j) : c < n
  BY <1>1 DEF AcceptedBy
<1>6. Log!Accept(k, n)
  BY <1>1, <1>4, <1>5 DEF Log!Accept, Accepted
<1> QED
  BY <1>1, <1>6 DEF Log!Next

(* A commit stores the oldest pending decisions, or rewrites stored ones.  *)
LEMMA CommitStores ==
  ASSUME TypeInv, LedgerInv, NEW k \in Keys, SaveCommit(k)
  PROVE  [Log!Next]_(Log!vars)
<1> DEFINE B == Range(Batch(k))
           S == B \ saved
<1>1. saved' = saved \cup B /\ UNCHANGED <<decisions, lost>>
  BY DEF SaveCommit, history
<1>2. B \subseteq Range(buffer[k])
  BY BatchInList
<1>3. Accepted' = Accepted
  BY <1>1 DEF Accepted, AcceptedBy
<1>4. ASSUME NEW d \in B, NEW c \in Range(buffer[k]), c < d
      PROVE  c \in B
  <2>1. Decision \subseteq Nat /\ buffer[k] \in Seq(Decision)
    BY DecisionsTyped DEF TypeInv, TypeOK
  <2>2. buffer[k] \in Seq(Nat)
    BY <2>1, SeqMonotonic
  <2> QED
    BY <1>4, <2>2, BatchInList, BatchIsOldest DEF LedgerInv, ListsIncrease
<1> HIDE DEF B
<1>5. CASE S = {}
  <2>1. saved' = saved
    BY <1>1, <1>5
  <2> QED
    BY <1>1, <1>3, <2>1 DEF Log!vars, Accepted
<1>6. CASE S # {}
  <2>1. Log!Pending(k) = Range(buffer[k]) \ saved
    BY PendingIsUnsaved
  <2>2. S \subseteq Log!Pending(k) /\ saved' = saved \cup S
    BY <1>1, <1>2, <2>1
  <2>3. \A d \in S, c \in Log!Pending(k) : c < d => c \in S
    BY <1>4, <2>1
  <2> HIDE DEF S
  <2>4. Log!Store(k, S)
    BY <1>1, <1>3, <1>6, <2>2, <2>3 DEF Log!Store, Accepted
  <2> QED
    BY <2>2, <2>4 DEF Log!Next
<1> QED
  BY <1>5, <1>6

(* The end of activations is a drop.                                       *)
LEMMA ForgetDrops ==
  ASSUME TypeInv, LedgerInv, NEW K \in SUBSET Keys, Forget(K)
  PROVE  Log!Next
<1>1. /\ lost' = lost \cup UNION {Range(buffer[k]) \ saved : k \in K}
      /\ UNCHANGED <<decisions, saved>>
  BY ForgetLists
<1>2. \A k \in K : Log!Pending(k) = Range(buffer[k]) \ saved
  BY PendingIsUnsaved
<1>3. lost' = lost \cup UNION {Log!Pending(k) : k \in K}
  BY <1>1, <1>2
<1>4. Accepted' = Accepted
  BY <1>1 DEF Accepted, AcceptedBy
<1>5. Log!Drop(K)
  BY <1>1, <1>3, <1>4 DEF Log!Drop, Accepted
<1> QED
  BY <1>5 DEF Log!Next

(* Timers, buffers, retries and transactions add nothing a reader of the    *)
(* log could see: every behaviour of the grains is one of AccessLog.       *)
THEOREM GrainsImplementLog == Spec => ImplementsLog
<1>1. Init => Log!Init
  <2> SUFFICES ASSUME Init PROVE Log!Init
    OBVIOUS
  <2>1. <<>> \in Seq({}) /\ Len(<<>>) = 0
    BY EmptySeq
  <2>2. DOMAIN decisions = {}
    BY <2>1, LenProperties DEF Init
  <2> QED
    BY <2>2 DEF Init, Log!Init, AcceptedBy
<1>2. TypeInv /\ LedgerInv /\ [Next]_vars => [Log!Next]_(Log!vars)
  <2> SUFFICES ASSUME TypeInv, LedgerInv, [Next]_vars
               PROVE  [Log!Next]_(Log!vars)
    OBVIOUS
  <2>1. ASSUME QuietStep PROVE UNCHANGED Log!vars
    <3>1. UNCHANGED <<decisions, saved, lost>>
      BY <2>1, QuietLists
    <3> QED
      BY <3>1 DEF Log!vars, AcceptedBy
  <2>2. ASSUME NEW k \in Keys, NEW requester \in UserIds,
               NEW claims \in SUBSET Roles,
               NEW employee \in UserIds \cup {NoUser},
               Decide(k, requester, claims, employee)
        PROVE  Log!Next
    BY <2>2, DecideAccepts
  <2>3. ASSUME NEW k \in Keys, SaveCommit(k)
        PROVE  [Log!Next]_(Log!vars)
    BY <2>3, CommitStores
  <2>4. ASSUME NEW k \in Keys, SaveReturn(k) PROVE UNCHANGED Log!vars
    <3>1. UNCHANGED <<decisions, saved, lost>>
      BY <2>4, SaveReturnLists DEF LedgerInv, ListsIncrease
    <3> QED
      BY <3>1 DEF Log!vars, AcceptedBy
  <2>5. ASSUME NEW K \in SUBSET Keys, Forget(K) PROVE Log!Next
    BY <2>5, ForgetDrops
  <2> QED
    BY <2>1, <2>2, <2>3, <2>4, <2>5, StepKinds
<1> QED
  BY <1>1, <1>2, LedgerInvariant, PTL DEF Spec, ImplementsLog, Log!Spec

-----------------------------------------------------------------------------
(* The rows of LockAccesses.  A waiting decision has at most as many rows   *)
(* as its grain had lost answers; only while the answer of the commit that  *)
(* wrote it is under way can there be one more.                            *)
NotYetStored == \A d \in Decision \ DOMAIN decisions : rows[d] = 0

WaitingCopies ==
  \A k \in Keys : \A d \in Range(buffer[k]) :
    \/ rows[d] <= lostAcks[k]
    \/ flush[k] = "committed" /\ d \in Range(Batch(k))

TableInv ==
  /\ NotYetStored
  /\ WaitingCopies
  /\ DuplicatesOnlyFromLostAcks
  /\ HistoryKeptWithRequester

LEMMA InitTableInv == Init => TableInv
<1> SUFFICES ASSUME Init PROVE TableInv
  OBVIOUS
<1>1. TypeInv
  BY InitTypeInv
<1>2. /\ \A d \in Decision : rows[d] = 0
      /\ \A k \in Keys : lostAcks[k] = 0
      /\ saved = {}
  BY DEF Init
<1>3. \A d \in DOMAIN decisions : d \in Decision /\ decisions[d].key \in Keys
  BY <1>1, DecisionsTyped
<1>4. \A k \in Keys : Range(buffer[k]) \subseteq Decision
  BY <1>1, BatchInList
<1> QED
  BY <1>2, <1>3, <1>4
     DEF TableInv, NotYetStored, WaitingCopies, DuplicatesOnlyFromLostAcks,
         HistoryKeptWithRequester

LEMMA DecideTableInv ==
  ASSUME TypeInv, LedgerInv, TableInv, NEW k \in Keys,
         NEW requester \in UserIds, NEW claims \in SUBSET Roles,
         NEW employee \in UserIds \cup {NoUser},
         Decide(k, requester, claims, employee)
  PROVE  TableInv'
<1> DEFINE n == Len(decisions) + 1
<1>1. /\ n \in Decision
      /\ \A d \in DOMAIN decisions : d < n
      /\ DOMAIN decisions' = DOMAIN decisions \cup {n}
      /\ \A d \in DOMAIN decisions : decisions'[d] = decisions[d]
      /\ decisions'[n].key = k
      /\ Range(buffer'[k]) = Range(buffer[k]) \cup {n}
      /\ \A j \in Keys \ {k} : buffer'[j] = buffer[j]
      /\ \A j \in Keys : Range(Batch(j)') = Range(Batch(j))
      /\ UNCHANGED <<users, rows, flush, count, saved, lost, lostAcks>>
  BY DecideLists
<1> HIDE DEF n
<1>2. n \notin DOMAIN decisions /\ rows[n] = 0
  BY <1>1, DecisionsTyped DEF TableInv, NotYetStored
<1>3. \A j \in Keys : lostAcks[j] \in Nat
  BY GrainAssumption DEF TypeInv, TypeOK
<1>4. NotYetStored'
  BY <1>1 DEF TableInv, NotYetStored
<1>5. WaitingCopies'
  <2>1. ASSUME NEW j \in Keys, NEW d \in Range(buffer'[j]), d \notin Range(buffer[j])
        PROVE  rows[d] <= lostAcks[j]
    BY <1>1, <1>2, <1>3, <2>1
  <2> QED
    BY <1>1, <2>1 DEF TableInv, WaitingCopies
<1>6. DuplicatesOnlyFromLostAcks'
  BY <1>1, <1>2, <1>3 DEF TableInv, DuplicatesOnlyFromLostAcks
<1>7. HistoryKeptWithRequester'
  BY <1>1 DEF TableInv, HistoryKeptWithRequester, LedgerInv, SavedOrLostOnce
<1> QED
  BY <1>4, <1>5, <1>6, <1>7 DEF TableInv

LEMMA SaveCommitTableInv ==
  ASSUME TypeInv, LedgerInv, TableInv, NEW k \in Keys, SaveCommit(k)
  PROVE  TableInv'
<1> DEFINE B == Range(Batch(k))
<1>1. /\ rows' = [d \in Decision |-> IF d \in B THEN rows[d] + 1 ELSE rows[d]]
      /\ saved' = saved \cup B
      /\ flush[k] = "writing"
      /\ flush' = [flush EXCEPT ![k] = "committed"]
      /\ UNCHANGED <<users, buffer, count, decisions, lostAcks>>
  BY DEF SaveCommit, store, history
<1>2. /\ B \subseteq Range(buffer[k])
      /\ B \subseteq Decision
      /\ \A j \in Keys : Batch(j)' = Batch(j) /\ Range(buffer[j]) \subseteq Decision
  BY <1>1, BatchInList DEF Batch
<1>3. /\ \A j \in Keys : lostAcks[j] \in Nat
      /\ \A d \in Decision : rows[d] \in Nat
      /\ flush'[k] = "committed"
      /\ \A j \in Keys \ {k} : flush'[j] = flush[j]
  BY <1>1, GrainAssumption DEF TypeInv, TypeOK
<1> HIDE DEF B
<1>4. \A d \in B : rows[d] <= lostAcks[k] /\ d \in DOMAIN decisions /\ decisions[d].key = k
  BY <1>1, <1>2 DEF TableInv, WaitingCopies, LedgerInv, ListsOwned
<1>5. NotYetStored'
  BY <1>1, <1>4 DEF TableInv, NotYetStored
<1>6. WaitingCopies'
  <2>1. ASSUME NEW j \in Keys, NEW d \in Range(buffer[j])
        PROVE  \/ rows'[d] <= lostAcks[j]
               \/ flush'[j] = "committed" /\ d \in Range(Batch(j))
    <3>1. CASE d \in B
      <4>1. j = k
        BY <1>4, <2>1, <3>1 DEF LedgerInv, ListsOwned
      <4> QED
        BY <1>3, <3>1, <4>1 DEF B
    <3>2. CASE d \notin B
      <4>1. rows'[d] = rows[d]
        BY <1>1, <1>2, <2>1, <3>2
      <4> QED
        BY <1>1, <1>3, <4>1 DEF TableInv, WaitingCopies
    <3> QED
      BY <3>1, <3>2
  <2> QED
    BY <1>1, <1>2, <2>1 DEF WaitingCopies
<1>7. DuplicatesOnlyFromLostAcks'
  <2>1. ASSUME NEW d \in DOMAIN decisions
        PROVE  rows'[d] <= 1 + lostAcks[decisions[d].key]
    <3>1. d \in Decision /\ decisions[d].key \in Keys
      BY DecisionsTyped
    <3>2. CASE d \in B
      BY <1>1, <1>3, <1>4, <3>1, <3>2
    <3>3. CASE d \notin B
      BY <1>1, <3>1, <3>3 DEF TableInv, DuplicatesOnlyFromLostAcks
    <3> QED
      BY <3>2, <3>3
  <2> QED
    BY <1>1, <2>1 DEF DuplicatesOnlyFromLostAcks
<1>8. HistoryKeptWithRequester'
  <2>1. saved \subseteq Decision
    BY DEF TypeInv, TypeOK
  <2> QED
    BY <1>1, <1>2, <1>3, <2>1 DEF TableInv, HistoryKeptWithRequester
<1> QED
  BY <1>5, <1>6, <1>7, <1>8 DEF TableInv

LEMMA AckLostTableInv ==
  ASSUME TypeInv, LedgerInv, TableInv, NEW k \in Keys, AckLost(k)
  PROVE  TableInv'
<1>1. /\ lostAcks' = [lostAcks EXCEPT ![k] = @ + 1]
      /\ flush' = [flush EXCEPT ![k] = "idle"]
      /\ count' = [count EXCEPT ![k] = 0]
      /\ UNCHANGED <<users, rows, buffer, decisions, saved>>
  BY DEF AckLost, SaveThrows, store, history
<1>2. /\ \A j \in Keys : lostAcks[j] \in Nat
      /\ \A d \in Decision : rows[d] \in Nat
      /\ lostAcks'[k] = lostAcks[k] + 1
      /\ \A j \in Keys \ {k} : /\ lostAcks'[j] = lostAcks[j]
                              /\ flush'[j] = flush[j]
                              /\ Batch(j)' = Batch(j)
  BY <1>1, GrainAssumption DEF TypeInv, TypeOK, Batch
<1>3. \A d \in DOMAIN decisions : d \in Decision /\ decisions[d].key \in Keys
  BY DecisionsTyped
<1>4. WaitingCopies'
  <2>1. ASSUME NEW d \in Range(buffer[k])
        PROVE  rows[d] <= lostAcks'[k]
    <3>1. d \in DOMAIN decisions /\ decisions[d].key = k
      BY DEF LedgerInv, ListsOwned
    <3>2. rows[d] <= 1 + lostAcks[k]
      BY <3>1 DEF TableInv, DuplicatesOnlyFromLostAcks
    <3> QED
      BY <1>2, <1>3, <3>1, <3>2
  <2> QED
    BY <1>1, <1>2, <2>1 DEF TableInv, WaitingCopies
<1>5. DuplicatesOnlyFromLostAcks'
  <2>1. ASSUME NEW d \in DOMAIN decisions
        PROVE  rows[d] <= 1 + lostAcks'[decisions[d].key]
    <3>1. rows[d] <= 1 + lostAcks[decisions[d].key]
      BY DEF TableInv, DuplicatesOnlyFromLostAcks
    <3>2. d \in Decision /\ decisions[d].key \in Keys
      BY <1>3
    <3> QED
      BY <1>2, <3>1, <3>2
  <2> QED
    BY <1>1, <2>1 DEF DuplicatesOnlyFromLostAcks
<1> QED
  BY <1>1, <1>4, <1>5
     DEF TableInv, NotYetStored, HistoryKeptWithRequester

LEMMA DeleteUserTableInv ==
  ASSUME TypeInv, LedgerInv, TableInv, NEW u \in UserIds, DeleteUser(u)
  PROVE  TableInv'
<1>1. /\ users' = users \ {u}
      /\ rows' = [d \in Decision |-> IF d \in RequestedBy(u) THEN 0 ELSE rows[d]]
      /\ UNCHANGED <<buffer, flush, count, decisions, saved, lostAcks>>
  BY DEF DeleteUser, history
<1>2. /\ \A j \in Keys : lostAcks[j] \in Nat /\ Range(buffer[j]) \subseteq Decision
      /\ \A d \in DOMAIN decisions : d \in Decision /\ decisions[d].key \in Keys
      /\ saved \subseteq DOMAIN decisions
  BY GrainAssumption, BatchInList, DecisionsTyped
     DEF TypeInv, TypeOK, LedgerInv, SavedOrLostOnce
<1>3. \A d \in Decision : rows'[d] = 0 \/ rows'[d] = rows[d]
  BY <1>1
<1>4. NotYetStored'
  BY <1>1, <1>3 DEF TableInv, NotYetStored
<1>5. WaitingCopies'
  <2>1. \A j \in Keys : Batch(j)' = Batch(j)
    BY <1>1 DEF Batch
  <2> QED
    BY <1>1, <1>2, <1>3, <2>1 DEF TableInv, WaitingCopies
<1>6. DuplicatesOnlyFromLostAcks'
  BY <1>1, <1>2, <1>3 DEF TableInv, DuplicatesOnlyFromLostAcks
<1>7. HistoryKeptWithRequester'
  BY <1>1, <1>2 DEF TableInv, HistoryKeptWithRequester, RequestedBy
<1> QED
  BY <1>4, <1>5, <1>6, <1>7 DEF TableInv

(* Cutting a list, or dropping it, leaves the table alone.                 *)
LEMMA SaveReturnTableInv ==
  ASSUME TypeInv, LedgerInv, TableInv, NEW k \in Keys, SaveReturn(k)
  PROVE  TableInv'
<1>1. /\ Range(buffer'[k]) = Range(buffer[k]) \ Range(Batch(k))
      /\ \A j \in Keys \ {k} : /\ buffer'[j] = buffer[j]
                              /\ flush'[j] = flush[j]
                              /\ Batch(j)' = Batch(j)
      /\ UNCHANGED <<users, rows, decisions, saved, lostAcks>>
  BY SaveReturnLists DEF LedgerInv, ListsIncrease
<1>2. WaitingCopies'
  BY <1>1 DEF TableInv, WaitingCopies
<1> QED
  BY <1>1, <1>2
     DEF TableInv, NotYetStored, DuplicatesOnlyFromLostAcks,
         HistoryKeptWithRequester

LEMMA ForgetTableInv ==
  ASSUME TypeInv, LedgerInv, TableInv, NEW K \in SUBSET Keys, Forget(K)
  PROVE  TableInv'
<1>1. /\ \A k \in K : Range(buffer'[k]) = {}
      /\ \A k \in Keys \ K : /\ buffer'[k] = buffer[k]
                            /\ flush'[k] = flush[k]
                            /\ Batch(k)' = Batch(k)
      /\ UNCHANGED <<users, rows, decisions, saved, lostAcks>>
  BY ForgetLists
<1>2. WaitingCopies'
  BY <1>1 DEF TableInv, WaitingCopies
<1> QED
  BY <1>1, <1>2
     DEF TableInv, NotYetStored, DuplicatesOnlyFromLostAcks,
         HistoryKeptWithRequester

(* Every step preserves the invariant of the table.                        *)
LEMMA NextTableInv ==
  TypeInv /\ LedgerInv /\ TableInv /\ [Next]_vars => TableInv'
<1> SUFFICES ASSUME TypeInv, LedgerInv, TableInv, [Next]_vars PROVE TableInv'
  OBVIOUS
<1>1. ASSUME QuietStep PROVE TableInv'
  <2>1. ASSUME NEW k \in Keys, AckLost(k) PROVE TableInv'
    BY <2>1, AckLostTableInv
  <2>2. ASSUME NEW u \in UserIds, DeleteUser(u) PROVE TableInv'
    BY <2>2, DeleteUserTableInv
  <2>3. CASE /\ \A k \in Keys : ~AckLost(k)
             /\ \A u \in UserIds : ~DeleteUser(u)
    <3>1. UNCHANGED <<users, rows, lostAcks>>
      BY <1>1, <2>3
         DEF QuietStep, Activate, Activated, ActivateFailed,
             RequestUnknownLock, TimerTick, SaveReject, SaveFail, SaveThrows,
             Deactivate, DeleteRole, store, vars
    <3>2. UNCHANGED <<buffer, decisions, saved>>
      BY <1>1, QuietLists
    <3>3. ASSUME NEW k \in Keys, flush[k] = "committed"
          PROVE  flush'[k] = "committed" /\ Batch(k)' = Batch(k)
      BY <1>1, <2>3, <3>2, <3>3
         DEF QuietStep, Activate, Activated, ActivateFailed,
             RequestUnknownLock, TimerTick, SaveReject, SaveFail, SaveThrows,
             Deactivate, DeleteRole, vars, Batch, TypeInv, TypeOK
    <3>4. WaitingCopies'
      BY <3>1, <3>2, <3>3 DEF TableInv, WaitingCopies
    <3> QED
      BY <3>1, <3>2, <3>4
         DEF TableInv, NotYetStored, DuplicatesOnlyFromLostAcks,
             HistoryKeptWithRequester
  <2> QED
    BY <2>1, <2>2, <2>3
<1>2. ASSUME NEW k \in Keys, NEW requester \in UserIds,
             NEW claims \in SUBSET Roles, NEW employee \in UserIds \cup {NoUser},
             Decide(k, requester, claims, employee)
      PROVE  TableInv'
  BY <1>2, DecideTableInv
<1>3. ASSUME NEW k \in Keys, SaveCommit(k) PROVE TableInv'
  BY <1>3, SaveCommitTableInv
<1>4. ASSUME NEW k \in Keys, SaveReturn(k) PROVE TableInv'
  BY <1>4, SaveReturnTableInv
<1>5. ASSUME NEW K \in SUBSET Keys, Forget(K) PROVE TableInv'
  BY <1>5, ForgetTableInv
<1> QED
  BY <1>1, <1>2, <1>3, <1>4, <1>5, StepKinds

THEOREM TableInvariant == Spec => []TableInv
<1>1. Init => TableInv
  BY InitTableInv
<1>2. TypeInv /\ LedgerInv /\ TableInv /\ [Next]_vars => TableInv'
  BY NextTableInv
<1> QED
  BY <1>1, <1>2, LedgerInvariant, PTL DEF Spec

(* A second row of one decision is always the work of a commit that looked  *)
(* like a failure, never of a tick that reads the list too early.          *)
THEOREM DuplicatesAreLostAcks == Spec => []DuplicatesOnlyFromLostAcks
<1>1. TableInv => DuplicatesOnlyFromLostAcks
  BY DEF TableInv
<1> QED
  BY <1>1, TableInvariant, PTL

(* Saved history outlives grains, roles and the employees it names.        *)
THEOREM HistoryIsKept == Spec => []HistoryKeptWithRequester
<1>1. TableInv => HistoryKeptWithRequester
  BY DEF TableInv
<1> QED
  BY <1>1, TableInvariant, PTL

-----------------------------------------------------------------------------
(* The list as the backlog of the saves.  While no commit of a grain has    *)
(* looked like a failure, the only saved entries in its list are those of   *)
(* the batch whose commit is about to be answered.                         *)
SavedIsAnswered ==
  \A k \in Keys : lostAcks[k] = 0 =>
    \A d \in Range(buffer[k]) \cap saved :
      flush[k] = "committed" /\ d \in Range(Batch(k))

LEMMA InitSavedIsAnswered == Init => SavedIsAnswered
BY DEF Init, SavedIsAnswered

LEMMA DecideSavedIsAnswered ==
  ASSUME TypeInv, LedgerInv, SavedIsAnswered, NEW k \in Keys,
         NEW requester \in UserIds, NEW claims \in SUBSET Roles,
         NEW employee \in UserIds \cup {NoUser},
         Decide(k, requester, claims, employee)
  PROVE  SavedIsAnswered'
<1> DEFINE n == Len(decisions) + 1
<1>1. /\ \A d \in DOMAIN decisions : d < n
      /\ n \in Decision
      /\ Range(buffer'[k]) = Range(buffer[k]) \cup {n}
      /\ \A j \in Keys \ {k} : buffer'[j] = buffer[j]
      /\ \A j \in Keys : Range(Batch(j)') = Range(Batch(j))
      /\ UNCHANGED <<flush, saved, lostAcks>>
  BY DecideLists
<1> HIDE DEF n
<1>2. n \notin saved
  BY <1>1, DecisionsTyped DEF LedgerInv, SavedOrLostOnce
<1> QED
  BY <1>1, <1>2 DEF SavedIsAnswered

LEMMA SaveCommitSavedIsAnswered ==
  ASSUME TypeInv, LedgerInv, SavedIsAnswered, NEW k \in Keys, SaveCommit(k)
  PROVE  SavedIsAnswered'
<1> DEFINE B == Range(Batch(k))
<1>1. /\ saved' = saved \cup B
      /\ flush[k] = "writing"
      /\ flush' = [flush EXCEPT ![k] = "committed"]
      /\ UNCHANGED <<buffer, count, lostAcks>>
  BY DEF SaveCommit
<1>2. /\ B \subseteq Range(buffer[k])
      /\ \A j \in Keys : Batch(j)' = Batch(j)
      /\ flush'[k] = "committed"
      /\ \A j \in Keys \ {k} : flush'[j] = flush[j]
  BY <1>1, BatchInList DEF Batch, TypeInv, TypeOK
<1> HIDE DEF B
<1>3. ASSUME NEW j \in Keys \ {k}
      PROVE  Range(buffer[j]) \cap B = {}
  BY <1>2 DEF LedgerInv, ListsOwned
<1>4. lostAcks[k] = 0 => Range(buffer[k]) \cap saved = {}
  BY <1>1 DEF SavedIsAnswered
<1> QED
  BY <1>1, <1>2, <1>3, <1>4 DEF SavedIsAnswered, B

LEMMA SaveReturnSavedIsAnswered ==
  ASSUME TypeInv, LedgerInv, SavedIsAnswered, NEW k \in Keys, SaveReturn(k)
  PROVE  SavedIsAnswered'
<1>1. /\ Range(buffer'[k]) = Range(buffer[k]) \ Range(Batch(k))
      /\ \A j \in Keys \ {k} : /\ buffer'[j] = buffer[j]
                              /\ flush'[j] = flush[j]
                              /\ Batch(j)' = Batch(j)
      /\ UNCHANGED <<saved, lostAcks>>
  BY SaveReturnLists DEF LedgerInv, ListsIncrease
<1> QED
  BY <1>1 DEF SavedIsAnswered

LEMMA ForgetSavedIsAnswered ==
  ASSUME TypeInv, SavedIsAnswered, NEW K \in SUBSET Keys, Forget(K)
  PROVE  SavedIsAnswered'
<1>1. /\ \A k \in K : Range(buffer'[k]) = {}
      /\ \A k \in Keys \ K : /\ buffer'[k] = buffer[k]
                            /\ flush'[k] = flush[k]
                            /\ Batch(k)' = Batch(k)
      /\ UNCHANGED <<saved, lostAcks>>
  BY ForgetLists
<1> QED
  BY <1>1 DEF SavedIsAnswered

(* A commit whose answer was lost ends the promise for its grain; no other  *)
(* quiet step takes "committed" back.                                      *)
LEMMA QuietSavedIsAnswered ==
  ASSUME TypeInv, SavedIsAnswered, QuietStep
  PROVE  SavedIsAnswered'
<1>1. UNCHANGED <<buffer, saved>>
  BY QuietLists
<1>2. ASSUME NEW k \in Keys, AckLost(k)
      PROVE  SavedIsAnswered'
  <2>1. /\ lostAcks'[k] # 0
        /\ \A j \in Keys \ {k} : /\ lostAcks'[j] = lostAcks[j]
                                /\ flush'[j] = flush[j]
                                /\ Batch(j)' = Batch(j)
    BY <1>2, GrainAssumption DEF AckLost, SaveThrows, Batch, TypeInv, TypeOK
  <2> QED
    BY <1>1, <2>1 DEF SavedIsAnswered
<1>3. CASE \A k \in Keys : ~AckLost(k)
  <2>1. UNCHANGED lostAcks
    BY <1>3 DEF QuietStep, Activate, Activated, ActivateFailed,
                RequestUnknownLock, TimerTick, SaveReject, SaveFail, Deactivate,
                DeleteRole, DeleteUser, vars
  <2>2. ASSUME NEW k \in Keys, flush[k] = "committed"
        PROVE  flush'[k] = "committed" /\ Batch(k)' = Batch(k)
    BY <1>1, <1>3, <2>2
       DEF QuietStep, Activate, Activated, ActivateFailed,
           RequestUnknownLock, TimerTick, SaveReject, SaveFail, SaveThrows,
           Deactivate, DeleteRole, DeleteUser, vars, Batch, TypeInv, TypeOK
  <2> QED
    BY <1>1, <2>1, <2>2 DEF SavedIsAnswered
<1> QED
  BY <1>2, <1>3

LEMMA NextSavedIsAnswered ==
  TypeInv /\ LedgerInv /\ SavedIsAnswered /\ [Next]_vars => SavedIsAnswered'
<1> SUFFICES ASSUME TypeInv, LedgerInv, SavedIsAnswered, [Next]_vars
             PROVE  SavedIsAnswered'
  OBVIOUS
<1> QED
  BY DecideSavedIsAnswered, SaveCommitSavedIsAnswered, SaveReturnSavedIsAnswered,
     ForgetSavedIsAnswered, QuietSavedIsAnswered, StepKinds

(* A list in the order of its decisions names none of them twice.          *)
LEMMA IncreasingIsInjective ==
  ASSUME NEW buf \in Seq(Nat), Increasing(buf)
  PROVE  IsInjective(buf)
<1>1. DOMAIN buf = 1..Len(buf) /\ Len(buf) \in Nat
  BY LenProperties
<1>2. \A i \in 1..Len(buf) : buf[i] \in Nat
  BY ElementOfSeq
<1>3. ASSUME NEW i \in 1..Len(buf), NEW j \in 1..Len(buf), buf[i] = buf[j]
      PROVE  i = j
  <2>1. ~(i < j) /\ ~(j < i)
    BY <1>2, <1>3 DEF Increasing
  <2> QED
    BY <1>1, <2>1
<1> QED
  BY <1>1, <1>3 DEF IsInjective

(* The memory of a grain is the backlog of its saves: no entry twice, and   *)
(* none that is saved or lost, unless a commit looked like a failure.      *)
THEOREM ListIsBacklog == Spec => []ListHoldsOnlyBacklog
<1>1. Init => SavedIsAnswered
  BY InitSavedIsAnswered
<1>2. TypeInv /\ LedgerInv /\ SavedIsAnswered /\ [Next]_vars => SavedIsAnswered'
  BY NextSavedIsAnswered
<1>3. TypeInv /\ LedgerInv /\ SavedIsAnswered => ListHoldsOnlyBacklog
  <2> SUFFICES ASSUME TypeInv, LedgerInv, SavedIsAnswered, NEW k \in Keys,
                      lostAcks[k] = 0, flush[k] # "committed"
               PROVE  IsInjective(buffer[k])
                        /\ Range(buffer[k]) \cap (saved \cup lost) = {}
    BY DEF ListHoldsOnlyBacklog
  <2>1. buffer[k] \in Seq(Nat)
    <3>1. Decision \subseteq Nat /\ buffer[k] \in Seq(Decision)
      BY DEF Decision, TypeInv, TypeOK
    <3> QED
      BY <3>1, SeqMonotonic
  <2>2. IsInjective(buffer[k])
    BY <2>1, IncreasingIsInjective DEF LedgerInv, ListsIncrease
  <2>3. Range(buffer[k]) \cap saved = {}
    BY DEF SavedIsAnswered
  <2> QED
    BY <2>2, <2>3 DEF LedgerInv, SavedOrLostOnce
<1> QED
  BY <1>1, <1>2, <1>3, LedgerInvariant, PTL DEF Spec

-----------------------------------------------------------------------------
(* Entries the foreign keys reject.  Users are only ever deleted, and the   *)
(* entry of a decision never changes: once rejected, always rejected.      *)

LEMMA RejectedForGood ==
  ASSUME TypeInv, [Next]_vars, NEW d \in DOMAIN decisions, ~Insertable(d)
  PROVE  ~Insertable(d)'
<1>1. users' \subseteq users
  <2>1. ASSUME NEW u \in UserIds, DeleteUser(u) PROVE users' \subseteq users
    BY <2>1 DEF DeleteUser
  <2>2. ASSUME NEW k \in Keys,
               \/ Activate(k) \/ Activated(k) \/ ActivateFailed(k)
               \/ RequestUnknownLock(k) \/ TimerTick(k) \/ SaveReject(k)
               \/ SaveFail(k) \/ AckLost(k) \/ Deactivate(k)
               \/ SaveCommit(k) \/ SaveReturn(k)
        PROVE  UNCHANGED users
    BY <2>2 DEF Activate, Activated, ActivateFailed, RequestUnknownLock,
                TimerTick, SaveReject, SaveFail, AckLost, SaveThrows, Deactivate,
                SaveCommit, SaveReturn, store
  <2>3. ASSUME NEW r \in Roles, DeleteRole(r) PROVE UNCHANGED users
    BY <2>3 DEF DeleteRole
  <2>4. ASSUME NEW K \in SUBSET Keys, Forget(K) PROVE UNCHANGED users
    BY <2>4 DEF Forget, store
  <2>5. ASSUME NEW k \in Keys, NEW requester \in UserIds,
               NEW claims \in SUBSET Roles, NEW employee \in UserIds \cup {NoUser},
               Decide(k, requester, claims, employee)
        PROVE  UNCHANGED users
    BY <2>5 DEF Decide, DecideUnchecked, store
  <2>6. UNCHANGED vars => UNCHANGED users
    BY DEF vars, store
  <2> QED
    BY <2>1, <2>2, <2>3, <2>4, <2>5, <2>6, StepKinds DEF QuietStep
<1>2. decisions'[d] = decisions[d]
  <2>1. CASE \E k \in Keys, requester \in UserIds, claims \in SUBSET Roles,
               employee \in UserIds \cup {NoUser} :
                 Decide(k, requester, claims, employee)
    BY <2>1, DecideLists
  <2>2. CASE UNCHANGED decisions
    BY <2>2
  <2>3. ASSUME NEW k \in Keys, SaveCommit(k) \/ SaveReturn(k)
        PROVE  UNCHANGED decisions
    BY <2>3 DEF SaveCommit, SaveReturn, history
  <2>4. ASSUME NEW K \in SUBSET Keys, Forget(K) PROVE UNCHANGED decisions
    BY <2>4 DEF Forget, history
  <2>5. QuietStep => UNCHANGED decisions
    BY QuietLists
  <2> QED
    BY <2>1, <2>2, <2>3, <2>4, <2>5, StepKinds
<1> QED
  BY <1>1, <1>2 DEF Insertable

(* What no save moves: an entry that is unsaved now is in the list and      *)
(* unsaved after every step but its own commit and the end of its           *)
(* activation.                                                             *)
LEMMA UnsavedMoves ==
  ASSUME TypeInv, LedgerInv, [Next]_vars, NEW k \in Keys, NEW d \in Unsaved(k)
  PROVE  \/ d \in Unsaved(k)'
         \/ SaveCommit(k) /\ d \in Range(Batch(k))
         \/ d \in lost' /\ phase'[k] = "none"
<1>0. d \in Range(buffer[k]) /\ d \notin saved
  BY DEF Unsaved
<1>1. CASE QuietStep
  BY <1>0, <1>1, QuietLists DEF Unsaved
<1>2. ASSUME NEW j \in Keys, NEW requester \in UserIds,
             NEW claims \in SUBSET Roles, NEW employee \in UserIds \cup {NoUser},
             Decide(j, requester, claims, employee)
      PROVE  d \in Unsaved(k)'
  <2>1. Range(buffer[k]) \subseteq Range(buffer'[k]) /\ saved' = saved
    BY <1>2, DecideLists
  <2> QED
    BY <1>0, <2>1 DEF Unsaved
<1>3. ASSUME NEW j \in Keys, SaveCommit(j), d \notin Range(Batch(j))
      PROVE  d \in Unsaved(k)'
  BY <1>0, <1>3 DEF SaveCommit, Unsaved
<1>4. ASSUME NEW j \in Keys, SaveCommit(j), d \in Range(Batch(j))
      PROVE  j = k
  BY <1>0, <1>4, BatchInList DEF LedgerInv, ListsOwned
<1>5. ASSUME NEW j \in Keys, SaveReturn(j)
      PROVE  d \in Unsaved(k)'
  <2>1. /\ Range(buffer'[j]) = Range(buffer[j]) \ Range(Batch(j))
        /\ \A i \in Keys \ {j} : buffer'[i] = buffer[i]
        /\ flush[j] = "committed"
        /\ saved' = saved
    BY <1>5, SaveReturnLists DEF LedgerInv, ListsIncrease
  <2>2. Range(Batch(j)) \subseteq saved
    BY <2>1 DEF LedgerInv, CommittedIsSaved
  <2> QED
    BY <1>0, <2>1, <2>2 DEF Unsaved
<1>6. ASSUME NEW K \in SUBSET Keys, Forget(K)
      PROVE  d \in Unsaved(k)' \/ (d \in lost' /\ phase'[k] = "none")
  <2>1. CASE k \in K
    BY <1>6, <2>1 DEF Forget
  <2>2. CASE k \notin K
    BY <1>0, <1>6, <2>2, ForgetLists DEF Unsaved
  <2> QED
    BY <2>1, <2>2
<1> QED
  BY <1>1, <1>2, <1>3, <1>4, <1>5, <1>6, StepKinds

(* An entry of a user that does not exist stays in its list, whatever else  *)
(* happens, until the activation ends and takes it down.                   *)
THEOREM RejectedEntriesStay == Spec => RejectedStays
<1>1. TypeInv /\ LedgerInv /\ [Next]_vars =>
        \A k \in Keys : \A d \in Unsaved(k) :
          ~Insertable(d) =>
            \/ d \in Unsaved(k)' /\ ~Insertable(d)'
            \/ d \in lost' /\ phase'[k] = "none"
  <2> SUFFICES ASSUME TypeInv, LedgerInv, [Next]_vars,
                      NEW k \in Keys, NEW d \in Unsaved(k), ~Insertable(d)
               PROVE  \/ d \in Unsaved(k)' /\ ~Insertable(d)'
                      \/ d \in lost' /\ phase'[k] = "none"
    OBVIOUS
  <2>1. d \in DOMAIN decisions
    BY DEF Unsaved, LedgerInv, ListsOwned
  <2>2. ~Insertable(d)'
    BY <2>1, RejectedForGood
  <2>3. ~(SaveCommit(k) /\ d \in Range(Batch(k)))
    BY DEF SaveCommit
  <2> QED
    BY <2>2, <2>3, UnsavedMoves
<1> QED
  BY <1>1, LedgerInvariant, PTL DEF Spec, RejectedStays

-----------------------------------------------------------------------------
(* The safety half of WriteBehindProgress: what the ticks bring nearer,     *)
(* fairness then carries to the end.                                       *)

(* A list is never without its timer: it has entries only in an activation  *)
(* that found its row, and that may still tick or is about to end.         *)
ListsAreServed ==
  \A k \in Keys :
    /\ cached[k].lock = IF phase[k] = "none" THEN NoLock ELSE LockOf[k]
    /\ buffer[k] # <<>> =>
         phase[k] \in {"active", "deactivating"} /\ LockOf[k] # NoLock

(* A waiting entry goes on waiting, and is in the batch of the save that    *)
(* the next tick starts until that save has ended, until a commit of such a *)
(* batch saves it or its activation takes it down.                         *)
WaitingStep(k, d) ==
  d \in Unsaved(k) =>
    \/ /\ d \in Unsaved(k)'
       /\ /\ flush'[k] = "writing"
          /\ flush[k] = "writing" => d \in Range(Batch(k))
          => d \in Range(Batch(k))'
    \/ SaveCommit(k) /\ d \in Range(Batch(k))
    \/ d \in lost' /\ phase'[k] = "none"

LEMMA NextListsAreServed ==
  TypeInv /\ ListsAreServed /\ [Next]_vars => ListsAreServed'
<1> SUFFICES ASSUME TypeInv, ListsAreServed, [Next]_vars PROVE ListsAreServed'
  OBVIOUS
<1> USE DEF TypeInv, TypeOK
<1>1. ASSUME NEW k \in Keys, Activate(k) PROVE ListsAreServed'
  <2>1. /\ phase'[k] = "activating" /\ cached'[k].lock = LockOf[k]
        /\ buffer[k] = <<>> /\ buffer' = buffer
        /\ \A j \in Keys \ {k} : phase'[j] = phase[j] /\ cached'[j] = cached[j]
    BY <1>1 DEF Activate, NullLock, ListsAreServed
  <2> QED
    BY <2>1 DEF ListsAreServed
<1>2. ASSUME NEW k \in Keys, Activated(k) PROVE ListsAreServed'
  BY <1>2 DEF Activated, ListsAreServed
<1>3. ASSUME NEW k \in Keys, ActivateFailed(k) PROVE ListsAreServed'
  BY <1>3 DEF ActivateFailed, NullLock, ListsAreServed
<1>4. ASSUME NEW k \in Keys, Deactivate(k) PROVE ListsAreServed'
  BY <1>4 DEF Deactivate, ListsAreServed
<1>5. ASSUME NEW k \in Keys, NEW requester \in UserIds,
             NEW claims \in SUBSET Roles, NEW employee \in UserIds \cup {NoUser},
             Decide(k, requester, claims, employee)
      PROVE  ListsAreServed'
  <2>1. /\ phase[k] = "active" /\ cached[k].lock # NoLock
        /\ UNCHANGED <<phase, cached>>
        /\ \A j \in Keys \ {k} : buffer'[j] = buffer[j]
    BY <1>5 DEF Decide, DecideUnchecked
  <2> QED
    BY <2>1 DEF ListsAreServed
<1>6. ASSUME NEW k \in Keys, SaveReturn(k) PROVE ListsAreServed'
  <2>1. buffer[k] # <<>>
    <3>1. count[k] \in 1..Len(buffer[k])
      BY <1>6 DEF SaveReturn, CountInList
    <3>2. Len(<<>>) = 0
      BY EmptySeq
    <3> QED
      BY <3>1, <3>2
  <2>2. /\ UNCHANGED <<phase, cached>>
        /\ \A j \in Keys \ {k} : buffer'[j] = buffer[j]
    BY <1>6 DEF SaveReturn
  <2> QED
    BY <2>1, <2>2 DEF ListsAreServed
<1>7. ASSUME NEW K \in SUBSET Keys, Forget(K) PROVE ListsAreServed'
  BY <1>7 DEF Forget, NullLock, ListsAreServed
<1>8. CASE UNCHANGED <<phase, cached, buffer>>
  BY <1>8 DEF ListsAreServed
<1>9. ASSUME NEW k \in Keys,
             \/ RequestUnknownLock(k) \/ TimerTick(k) \/ SaveCommit(k)
             \/ SaveReject(k) \/ SaveFail(k) \/ AckLost(k)
      PROVE  UNCHANGED <<phase, cached, buffer>>
  BY <1>9 DEF RequestUnknownLock, TimerTick, SaveCommit, SaveReject, SaveFail,
              AckLost, SaveThrows
<1>10. ASSUME \/ \E r \in Roles : DeleteRole(r)
              \/ \E u \in UserIds : DeleteUser(u)
              \/ UNCHANGED vars
       PROVE  UNCHANGED <<phase, cached, buffer>>
  BY <1>10 DEF DeleteRole, DeleteUser, vars
<1> HIDE DEF TypeInv, TypeOK
<1> QED
  BY <1>1, <1>2, <1>3, <1>4, <1>5, <1>6, <1>7, <1>8, <1>9, <1>10, StepKinds
     DEF QuietStep

(* What is in the list of a grain can always be saved by its next tick: the *)
(* activation is there, has its row, and is not about to begin only.       *)
THEOREM ListsStayServed == Spec => []ListsAreServed
<1>1. Init => ListsAreServed
  BY DEF Init, ListsAreServed, NullLock
<1>2. TypeInv /\ ListsAreServed /\ [Next]_vars => ListsAreServed'
  BY NextListsAreServed
<1> QED
  BY <1>1, <1>2, TypeInvariant, PTL DEF Spec

(* A tick takes the whole list.                                            *)
LEMMA TickTakesAll ==
  ASSUME TypeInv, NEW k \in Keys, TimerTick(k)
  PROVE  Range(Batch(k))' = Range(buffer[k])
<1>1. buffer[k] \in Seq(Decision) /\ Len(buffer[k]) \in Nat
  BY LenProperties DEF TypeInv, TypeOK
<1>2. buffer'[k] = buffer[k] /\ count'[k] = Len(buffer[k])
  BY DEF TimerTick, TypeInv, TypeOK
<1>3. Range(SubSeq(buffer[k], 1, Len(buffer[k]))) =
        {buffer[k][i] : i \in 1..Len(buffer[k])}
  BY <1>1, RangeOfBatch
<1>4. Range(buffer[k]) = {buffer[k][i] : i \in 1..Len(buffer[k])}
  BY <1>1, RangeEquality
<1>5. Batch(k)' = SubSeq(buffer[k], 1, Len(buffer[k]))
  BY <1>2 DEF Batch
<1> QED
  BY <1>3, <1>4, <1>5

(* A save that is written after a step is that of a tick, or was written    *)
(* before the step and has the same batch.                                 *)
LEMMA WritingMoves ==
  ASSUME TypeInv, LedgerInv, [Next]_vars, NEW k \in Keys, flush'[k] = "writing"
  PROVE  \/ TimerTick(k)
         \/ flush[k] = "writing" /\ Range(Batch(k))' = Range(Batch(k))
<1> USE DEF TypeInv, TypeOK
<1>1. ASSUME NEW j \in Keys,
             \/ Activate(j) \/ Activated(j) \/ ActivateFailed(j)
             \/ RequestUnknownLock(j) \/ Deactivate(j)
      PROVE  UNCHANGED <<buffer, flush, count>>
  BY <1>1 DEF Activate, Activated, ActivateFailed, RequestUnknownLock, Deactivate
<1>2. ASSUME NEW j \in Keys,
             \/ TimerTick(j) \/ SaveCommit(j) \/ SaveReject(j) \/ SaveFail(j)
             \/ AckLost(j)
      PROVE  /\ j = k => TimerTick(k)
             /\ j # k => /\ flush'[k] = flush[k] /\ count'[k] = count[k]
                         /\ buffer'[k] = buffer[k]
  BY <1>2 DEF TimerTick, SaveCommit, SaveReject, SaveFail, AckLost, SaveThrows
<1>3. ASSUME NEW j \in Keys, SaveReturn(j)
      PROVE  j # k /\ flush'[k] = flush[k] /\ Batch(k)' = Batch(k)
  BY <1>3, SaveReturnLists DEF LedgerInv, ListsIncrease
<1>4. ASSUME NEW K \in SUBSET Keys, Forget(K)
      PROVE  k \notin K /\ flush'[k] = flush[k] /\ Batch(k)' = Batch(k)
  BY <1>4, ForgetLists
<1>5. ASSUME NEW j \in Keys, NEW requester \in UserIds,
             NEW claims \in SUBSET Roles, NEW employee \in UserIds \cup {NoUser},
             Decide(j, requester, claims, employee)
      PROVE  flush'[k] = flush[k] /\ Range(Batch(k))' = Range(Batch(k))
  BY <1>5, DecideLists
<1>6. ASSUME \/ \E r \in Roles : DeleteRole(r)
             \/ \E u \in UserIds : DeleteUser(u)
             \/ UNCHANGED vars
      PROVE  UNCHANGED <<buffer, flush, count>>
  BY <1>6 DEF DeleteRole, DeleteUser, vars
<1> HIDE DEF TypeInv, TypeOK
<1>7. CASE flush'[k] = flush[k] /\ count'[k] = count[k] /\ buffer'[k] = buffer[k]
  BY <1>7 DEF Batch
<1>8. CASE flush'[k] = flush[k] /\ Range(Batch(k))' = Range(Batch(k))
  BY <1>8
<1> QED
  BY <1>1, <1>2, <1>3, <1>4, <1>5, <1>6, <1>7, <1>8, StepKinds DEF QuietStep

(* For every number of grains and of entries: whoever waits is in the next  *)
(* batch, and leaves the list only saved or with the activation.           *)
THEOREM WaitingAdvances == Spec => [][\A k \in Keys, d \in Decision : WaitingStep(k, d)]_vars
<1>1. ASSUME TypeInv, LedgerInv, [Next]_vars, NEW k \in Keys, NEW d \in Unsaved(k)
      PROVE  WaitingStep(k, d)
  <2>1. d \in Range(buffer[k])
    BY DEF Unsaved
  <2>2. ASSUME flush'[k] = "writing", flush[k] = "writing" => d \in Range(Batch(k))
        PROVE  d \in Range(Batch(k))'
    BY <1>1, <2>1, <2>2, WritingMoves, TickTakesAll DEF TimerTick
  <2> QED
    BY <1>1, <2>2, UnsavedMoves DEF WaitingStep
<1>2. TypeInv /\ LedgerInv /\ [Next]_vars =>
        \A k \in Keys, d \in Decision : WaitingStep(k, d)
  BY <1>1 DEF WaitingStep
<1> QED
  BY <1>2, LedgerInvariant, PTL DEF Spec

-----------------------------------------------------------------------------
(* The role cache of an activation never lacks a role the table admits,    *)
(* whatever roles are deleted between its query and its end.               *)
THEOREM CacheIsCovering == Spec => []CacheCoversStore
<1>1. Init => CacheCoversStore
  BY DEF Init, CacheCoversStore
<1>2. TypeInv /\ CacheCoversStore /\ [Next]_vars => CacheCoversStore'
  <2> SUFFICES ASSUME TypeInv, CacheCoversStore, [Next]_vars
               PROVE  CacheCoversStore'
    OBVIOUS
  <2> USE DEF TypeInv, TypeOK
  <2>1. ASSUME NEW k \in Keys, Activate(k) PROVE CacheCoversStore'
    <3>1. /\ \A j \in Keys \ {k} : phase'[j] = phase[j] /\ cached'[j] = cached[j]
          /\ lockRoles' = lockRoles
          /\ LockOf[k] # NoLock => cached'[k].roles = lockRoles[LockOf[k]]
      BY <2>1 DEF Activate, CachedRoles, store
    <3> QED
      BY <3>1 DEF CacheCoversStore
  <2>2. ASSUME NEW k \in Keys, Activated(k) PROVE CacheCoversStore'
    BY <2>2 DEF Activated, CacheCoversStore, store
  <2>3. ASSUME NEW k \in Keys, ActivateFailed(k) PROVE CacheCoversStore'
    BY <2>3 DEF ActivateFailed, CacheCoversStore, store
  <2>4. ASSUME NEW k \in Keys, Deactivate(k) PROVE CacheCoversStore'
    BY <2>4 DEF Deactivate, CacheCoversStore, store
  <2>5. ASSUME NEW r \in Roles, DeleteRole(r) PROVE CacheCoversStore'
    <3>1. /\ UNCHANGED <<phase, cached>>
          /\ \A l \in Locks : lockRoles'[l] \subseteq lockRoles[l]
      BY <2>5 DEF DeleteRole
    <3>2. \A k \in Keys : LockOf[k] # NoLock => LockOf[k] \in Locks
      BY GrainAssumption
    <3> QED
      BY <3>1, <3>2 DEF CacheCoversStore
  <2>6. ASSUME NEW K \in SUBSET Keys, Forget(K) PROVE CacheCoversStore'
    BY <2>6 DEF Forget, CacheCoversStore, store
  <2>7. CASE UNCHANGED <<phase, cached, lockRoles>>
    BY <2>7 DEF CacheCoversStore
  <2>8. ASSUME NEW k \in Keys, NEW requester \in UserIds,
               NEW claims \in SUBSET Roles, NEW employee \in UserIds \cup {NoUser},
               Decide(k, requester, claims, employee)
        PROVE  UNCHANGED <<phase, cached, lockRoles>>
    BY <2>8 DEF Decide, DecideUnchecked, store
  <2>9. ASSUME NEW k \in Keys,
               \/ RequestUnknownLock(k) \/ TimerTick(k) \/ SaveCommit(k)
               \/ SaveReturn(k) \/ SaveReject(k) \/ SaveFail(k) \/ AckLost(k)
        PROVE  UNCHANGED <<phase, cached, lockRoles>>
    BY <2>9 DEF RequestUnknownLock, TimerTick, SaveCommit, SaveReturn,
                SaveReject, SaveFail, AckLost, SaveThrows, store
  <2>10. ASSUME NEW u \in UserIds, DeleteUser(u)
         PROVE  UNCHANGED <<phase, cached, lockRoles>>
    BY <2>10 DEF DeleteUser
  <2>11. CASE UNCHANGED vars
    BY <2>11 DEF vars, store, CacheCoversStore
  <2> HIDE DEF TypeInv, TypeOK
  <2> QED
    BY <2>1, <2>2, <2>3, <2>4, <2>5, <2>6, <2>7, <2>8, <2>9, <2>10, <2>11,
       StepKinds DEF QuietStep
<1> QED
  BY <1>1, <1>2, TypeInvariant, PTL DEF Spec
=============================================================================
