------------------------------ MODULE AccessLog ------------------------------
(***************************************************************************)
(* What the write-behind access history of the lock grains promises, apart *)
(* from timers, transactions and buffers: each key accepts decisions, which *)
(* reach the store in the order they were accepted, or are lost, and none   *)
(* of them is ever forgotten while it is neither.  A decision is a number;  *)
(* numbers grow in the order of acceptance.                                 *)
(*                                                                         *)
(* LockGrain implements this specification (LockGrain!Log).                *)
(***************************************************************************)
EXTENDS Naturals

CONSTANTS
  Keys,         \* the strings grains are called with
  Decisions     \* the numbers decisions are given, naturals

VARIABLES
  accepted,     \* the decisions each key has accepted
  stored,       \* the decisions that were written to the store
  lost          \* the decisions dropped before they were written

vars == <<accepted, stored, lost>>

(* What a key has still to store.                                          *)
Pending(k) == accepted[k] \ (stored \cup lost)

Init ==
  /\ accepted = [k \in Keys |-> {}]
  /\ stored = {}
  /\ lost = {}

(* A key accepts a decision younger than all the accepted ones.            *)
Accept(k, d) ==
  /\ \A j \in Keys : \A c \in accepted[j] : c < d
  /\ accepted' = [accepted EXCEPT ![k] = @ \cup {d}]
  /\ UNCHANGED <<stored, lost>>

(* The oldest pending decisions of a key are stored, all in one step.      *)
Store(k, S) ==
  /\ S # {}
  /\ S \subseteq Pending(k)
  /\ \A d \in S, c \in Pending(k) : c < d => c \in S
  /\ stored' = stored \cup S
  /\ UNCHANGED <<accepted, lost>>

(* The memory of some keys is gone, and with it all they had pending.      *)
Drop(K) ==
  /\ lost' = lost \cup UNION {Pending(k) : k \in K}
  /\ UNCHANGED <<accepted, stored>>

Next ==
  \/ \E k \in Keys, d \in Decisions : Accept(k, d)
  \/ \E k \in Keys : \E S \in SUBSET Pending(k) : Store(k, S)
  \/ \E K \in SUBSET Keys : Drop(K)

Spec == Init /\ [][Next]_vars
=============================================================================
