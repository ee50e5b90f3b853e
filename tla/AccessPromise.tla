---------------------------- MODULE AccessPromise ----------------------------
(***************************************************************************)
(* What who asks a lock for access is promised, apart from hosts, messages  *)
(* and sessions: a request is decided at most once, for good; its caller is *)
(* told the decision, after it was made, or that the request failed, and    *)
(* never anything else afterwards.  A request may be given up undecided; a  *)
(* caller who was told of a failure knows nothing of the decision.         *)
(*                                                                         *)
(* DoorAccess implements this specification (DoorAccess!Promise).           *)
(***************************************************************************)
EXTENDS Sequences

CONSTANT Results

VARIABLE outcomes   \* of all requests so far, oldest first

Asked == [decision |-> "open", told |-> "nothing"]

Init == outcomes = <<>>

Ask == outcomes' = Append(outcomes, Asked)

(* One request may go from outcome p to outcome q in one step.             *)
Decided(p, q) ==
  \/ q.decision = p.decision
  \/ p.decision = "open" /\ q.decision \in Results \cup {"never"}

Told(p, q) ==
  \/ q.told = p.told
  \/ p.told = "nothing" /\ q.told = "failed"
  \/ p.told = "nothing" /\ p.decision \in Results /\ q.told = p.decision

(* Some requests go on, each on its own account.                           *)
GoOn ==
  /\ DOMAIN outcomes' = DOMAIN outcomes
  /\ \A i \in DOMAIN outcomes :
       Decided(outcomes[i], outcomes'[i]) /\ Told(outcomes[i], outcomes'[i])

Next == Ask \/ GoOn

Spec == Init /\ [][Next]_outcomes
=============================================================================
