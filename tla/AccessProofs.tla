----------------------------- MODULE AccessProofs -----------------------------
(***************************************************************************)
(* For every set of accounts, roles, tokens, keys and callers, and for      *)
(* every lifetime of a token: Access is made of steps of LockGrain, a grant *)
(* at the API rests on a role held within the lifetime of a token, and no   *)
(* denial on an old cache.                                                 *)
(***************************************************************************)
EXTENDS Access, LockGrainProofs

-----------------------------------------------------------------------------
(* Types, and what the grains do on their own.                             *)

LEMMA InitAccessType == AccessInit => AccessTypeOK
<1> SUFFICES ASSUME AccessInit
             PROVE  AccessTypeOK
  OBVIOUS
<1>1. 0 \in Time
  BY AccessAssumption DEF Time
<1>2. held \in [UserIds -> SUBSET Roles] /\ \A u \in UserIds \ users : held[u] = {}
  BY AccessAssumption DEF AccessInit, Init
<1>3. token \in [Tags -> Token \cup {NoToken}] /\ now \in Time
  BY <1>1 DEF AccessInit
<1>4. call \in [Callers -> Called \cup {Ended(o) : o \in Outcomes}]
  BY DEF AccessInit, Outcomes
<1>5. revoked \in [UserIds -> [Roles -> Time]]
  BY <1>1 DEF AccessInit
<1> QED
  BY <1>2, <1>3, <1>4, <1>5 DEF AccessTypeOK

LEMMA GrainKeepsUsers ==
  ASSUME GrainStep
  PROVE  UNCHANGED users
BY DEF GrainStep, Activate, Activated, ActivateFailed, TimerTick, SaveCommit,
       SaveReturn, SaveReject, SaveFail, AckLost, SaveThrows, Deactivate,
       Deactivated, Crash, Forget, store

(* A call that comes to the grain of a key carries claims LockGrain knows.  *)
LEMMA CalledTyped ==
  ASSUME AccessTypeOK, NEW c \in Callers, call[c].status = "called"
  PROVE  call[c] \in Called
<1>1. \A o \in Outcomes : Ended(o).status # "called"
  BY DEF Ended, Outcomes, Results
<1> QED
  BY <1>1 DEF AccessTypeOK

LEMMA AnswerTyped ==
  ASSUME AccessTypeOK, NEW c \in Callers, Answer(c)
  PROVE  /\ answer' \in Results
         /\ UNCHANGED users
         /\ call' = [call EXCEPT ![c] = Ended(answer')]
         /\ Next
<1> DEFINE k == call[c].key
<1>1. call[c] \in Called
  BY CalledTyped DEF Answer
<1>2. /\ k \in Keys /\ call[c].user \in UserIds /\ call[c].roles \in SUBSET Roles
      /\ call[c].door \in Doors
  BY <1>1 DEF Called
<1>3. CASE RequestUnknownLock(k)
  <2>1. answer' = "Denied" /\ UNCHANGED users
    BY <1>3 DEF RequestUnknownLock, store
  <2>2. Next
    BY <1>2, <1>3 DEF Next
  <2> QED
    BY <2>1, <2>2 DEF Answer, Results
<1>4. CASE \E employee \in Employees(call[c].door) :
             Decide(k, call[c].user, call[c].roles, employee)
  <2>1. PICK employee \in UserIds \cup {NoUser} :
          Decide(k, call[c].user, call[c].roles, employee)
    BY <1>4 DEF Employees
  <2>2. answer' \in Results /\ UNCHANGED users
    BY <2>1 DEF Decide, DecideUnchecked, AccessResult, Results, store
  <2>3. Next
    BY <1>2, <2>1 DEF Next
  <2> QED
    BY <2>2, <2>3 DEF Answer
<1> QED
  BY <1>3, <1>4 DEF Answer

LEMMA IssueAccessType ==
  ASSUME AccessTypeOK, NEW t \in Tags, NEW u \in UserIds, Issue(t, u)
  PROVE  AccessTypeOK'
<1> DEFINE new == [user |-> u, roles |-> held[u], expires |-> now + Lifetime]
<1>1. now + Lifetime \in 0..(MaxTime + Lifetime) /\ held[u] \in SUBSET Roles
  BY AccessAssumption DEF AccessTypeOK, Time
<1>2. new \in Token
  BY <1>1 DEF Token
<1>3. token' = [token EXCEPT ![t] = new] /\ UNCHANGED <<users, now, held, call, revoked>>
  BY DEF Issue, vars, store
<1> HIDE DEF new
<1> QED
  BY <1>2, <1>3 DEF AccessTypeOK

LEMMA ShowAccessType ==
  ASSUME AccessTypeOK, NEW c \in Callers, NEW door \in Doors, NEW t \in Tags,
         NEW k \in Keys, NEW at \in Time, Show(c, door, t, k, at)
  PROVE  AccessTypeOK'
<1> DEFINE new == [status |-> "called", door |-> door, user |-> token[t].user,
                   roles |-> token[t].roles, key |-> k, at |-> at]
<1>1. token[t] \in Token
  BY DEF AccessTypeOK, Show
<1>2. new \in Called
  BY <1>1 DEF Token, Called
<1>3. call' = [call EXCEPT ![c] = new] /\ UNCHANGED <<users, now, held, token, revoked>>
  BY DEF Show, vars, store
<1> HIDE DEF new
<1> QED
  BY <1>2, <1>3 DEF AccessTypeOK

(* Ending a call, and leaving everything else of this module alone.        *)
LEMMA EndedAccessType ==
  ASSUME AccessTypeOK, NEW c \in Callers, NEW o \in Outcomes,
         call' = [call EXCEPT ![c] = Ended(o)],
         UNCHANGED <<users, now, held, token, revoked>>
  PROVE  AccessTypeOK'
<1>1. call' \in [Callers -> Called \cup {Ended(x) : x \in Outcomes}]
  BY DEF AccessTypeOK
<1> QED
  BY <1>1 DEF AccessTypeOK

(* Accounts and roles that change.                                         *)
LEMMA RolesAccessType ==
  ASSUME AccessTypeOK, UNCHANGED <<now, token, call>>,
         held' \in [UserIds -> SUBSET Roles],
         revoked' \in [UserIds -> [Roles -> Time]],
         \A u \in UserIds \ users' : held'[u] = {}
  PROVE  AccessTypeOK'
BY DEF AccessTypeOK

LEMMA RevokeTyped ==
  ASSUME AccessTypeOK, NEW u \in UserIds, NEW R
  PROVE  Revoke(u, R) \in [UserIds -> [Roles -> Time]]
<1>1. revoked[u] \in [Roles -> Time] /\ now \in Time
  BY DEF AccessTypeOK
<1>2. [r \in Roles |-> IF r \in R THEN now ELSE revoked[u][r]] \in [Roles -> Time]
  BY <1>1
<1> QED
  BY <1>2 DEF Revoke, AccessTypeOK

LEMMA StepAccessType == AccessTypeOK /\ [AccessNext]_accessVars => AccessTypeOK'
<1> SUFFICES ASSUME AccessTypeOK, [AccessNext]_accessVars
             PROVE  AccessTypeOK'
  OBVIOUS
<1>1. CASE Tick
  <2>1. now' \in Time
    BY <1>1, AccessAssumption DEF Tick, Time, AccessTypeOK
  <2> QED
    BY <1>1, <2>1 DEF Tick, AccessTypeOK, vars, store
<1>2. ASSUME NEW t \in Tags, NEW u \in UserIds, Issue(t, u) PROVE AccessTypeOK'
  BY <1>2, IssueAccessType
<1>3. ASSUME NEW c \in Callers, NEW t \in Tags, NEW k \in Keys,
             PostAccess(c, t, k) \/ Publish(c, t, k)
      PROVE  AccessTypeOK'
  <2>1. now \in Time /\ 0 \in Time /\ "api" \in Doors /\ "lock" \in Doors
    BY AccessAssumption DEF AccessTypeOK, Time, Doors
  <2> QED
    BY <1>3, <2>1, ShowAccessType DEF PostAccess, Publish
<1>4. ASSUME NEW c \in Callers, Answer(c) PROVE AccessTypeOK'
  <2>1. answer' \in Outcomes
    BY <1>4, AnswerTyped DEF Outcomes
  <2>2. UNCHANGED <<now, held, token, revoked>>
    BY <1>4 DEF Answer
  <2>3. UNCHANGED users /\ call' = [call EXCEPT ![c] = Ended(answer')]
    BY <1>4, AnswerTyped
  <2> QED
    BY <2>1, <2>2, <2>3, EndedAccessType
<1>5. ASSUME NEW c \in Callers, CallFails(c) PROVE AccessTypeOK'
  <2>1. "failed" \in Outcomes
    BY DEF Outcomes
  <2> QED
    BY <1>5, <2>1, EndedAccessType DEF CallFails, vars, store
<1>6. ASSUME NEW u \in UserIds, NEW R \in SUBSET Roles, AssignRoles(u, R)
      PROVE  AccessTypeOK'
  <2>1. held' \in [UserIds -> SUBSET Roles]
    BY <1>6 DEF AssignRoles, AccessTypeOK
  <2>2. revoked' \in [UserIds -> [Roles -> Time]]
    BY <1>6, RevokeTyped DEF AssignRoles
  <2>3. \A v \in UserIds \ users' : held'[v] = {}
    BY <1>6 DEF AssignRoles, AccessTypeOK, vars, store
  <2> QED
    BY <1>6, <2>1, <2>2, <2>3, RolesAccessType DEF AssignRoles
<1>7. ASSUME NEW u \in UserIds, RemoveAccount(u) PROVE AccessTypeOK'
  <2>1. held' \in [UserIds -> SUBSET Roles]
    BY <1>7 DEF RemoveAccount, AccessTypeOK
  <2>2. revoked' \in [UserIds -> [Roles -> Time]]
    BY <1>7, RevokeTyped DEF RemoveAccount
  <2>3. \A v \in UserIds \ users' : held'[v] = {}
    BY <1>7 DEF RemoveAccount, DeleteUser, AccessTypeOK
  <2> QED
    BY <1>7, <2>1, <2>2, <2>3, RolesAccessType DEF RemoveAccount
<1>8. ASSUME NEW r \in Roles, RemoveRole(r) PROVE AccessTypeOK'
  <2>1. UNCHANGED users
    BY <1>8 DEF RemoveRole, DeleteRole, vars, store
  <2>2. held' \in [UserIds -> SUBSET Roles]
    BY <1>8 DEF RemoveRole, AccessTypeOK
  <2>3. revoked' \in [UserIds -> [Roles -> Time]]
    <3>1. \A u \in UserIds : [revoked[u] EXCEPT ![r] = now] \in [Roles -> Time]
      BY DEF AccessTypeOK
    <3> QED
      BY <1>8, <3>1 DEF RemoveRole, AccessTypeOK
  <2>4. \A v \in UserIds \ users' : held'[v] = {}
    BY <1>8, <2>1 DEF RemoveRole, AccessTypeOK
  <2> QED
    BY <1>8, <2>2, <2>3, <2>4, RolesAccessType DEF RemoveRole
<1>9. CASE GrainStep
  <2>1. UNCHANGED <<now, held, token, call, revoked>>
    BY <1>9 DEF GrainStep
  <2> QED
    BY <1>9, <2>1, GrainKeepsUsers DEF AccessTypeOK
<1>10. CASE UNCHANGED accessVars
  BY <1>10 DEF accessVars, vars, store, AccessTypeOK
<1> QED
  BY <1>1, <1>2, <1>3, <1>4, <1>5, <1>6, <1>7, <1>8, <1>9, <1>10 DEF AccessNext

(* What accounts, tokens, calls and the clock are is what their             *)
(* declarations say; in particular no roles are left of an account that is  *)
(* gone (20230406092519_Initial.cs:129-151).                               *)
THEOREM AccessTypeCorrect == AccessSpec => []AccessTypeOK
<1> QED
  BY InitAccessType, StepAccessType, PTL DEF AccessSpec

-----------------------------------------------------------------------------
(* Accounts and tokens around the grains add nothing to what grains do: all *)
(* that is proved of LockGrain holds here.                                 *)
LEMMA GrainSteps == AccessTypeOK /\ [AccessNext]_accessVars => [Next]_vars
<1> SUFFICES ASSUME AccessTypeOK, [AccessNext]_accessVars
             PROVE  [Next]_vars
  OBVIOUS
<1>1. ASSUME NEW c \in Callers, Answer(c) PROVE Next
  BY <1>1, AnswerTyped
<1>2. ASSUME NEW u \in UserIds, RemoveAccount(u) PROVE Next
  BY <1>2 DEF RemoveAccount, Next
<1>3. ASSUME NEW r \in Roles, RemoveRole(r) PROVE [Next]_vars
  BY <1>3 DEF RemoveRole, Next
<1>4. ASSUME GrainStep PROVE Next
  BY <1>4 DEF GrainStep, Next
<1>5. CASE UNCHANGED vars
  BY <1>5
<1>6. ASSUME \/ Tick
             \/ \E t \in Tags, u \in UserIds : Issue(t, u)
             \/ \E c \in Callers, t \in Tags, k \in Keys :
                  PostAccess(c, t, k) \/ Publish(c, t, k)
             \/ \E c \in Callers : CallFails(c)
             \/ \E u \in UserIds, R \in SUBSET Roles : AssignRoles(u, R)
             \/ UNCHANGED accessVars
      PROVE  UNCHANGED vars
  BY <1>6 DEF Tick, Issue, PostAccess, Publish, Show, CallFails, AssignRoles,
              accessVars
<1> QED
  BY <1>1, <1>2, <1>3, <1>4, <1>5, <1>6 DEF AccessNext

(* The requests of tagged and remote callers are requests LockGrain allows; *)
(* its theorems apply to the whole (LocksController.cs:40-41,              *)
(* MqttHostedService.cs:112-113).                                          *)
THEOREM AccessUsesGrains == AccessSpec => Spec
<1>1. AccessInit => Init
  BY DEF AccessInit
<1> QED
  BY <1>1, GrainSteps, AccessTypeCorrect, PTL DEF AccessSpec, Spec

(* What is proved of the history holds with accounts, tokens and the pages  *)
(* around the grains: however roles and accounts come and go, decisions     *)
(* wait, are saved or are lost with their activation, in order, and what a  *)
(* save was refused for stays with the next (LockGrain.cs:33, :61-68).      *)
THEOREM AccessKeepsHistory ==
  AccessSpec => /\ ImplementsLog
                /\ [](NothingForgotten /\ NoGapsInHistory)
                /\ [](DuplicatesOnlyFromLostAcks /\ HistoryKeptWithRequester)
                /\ RejectedStays
<1>1. Spec => [](NothingForgotten /\ NoGapsInHistory)
  BY NothingIsForgotten, HistoryHasNoGaps, PTL
<1>2. Spec => [](DuplicatesOnlyFromLostAcks /\ HistoryKeptWithRequester)
  BY DuplicatesAreLostAcks, HistoryIsKept, PTL
<1> QED
  BY <1>1, <1>2, AccessUsesGrains, GrainsImplementLog, RejectedEntriesStay, PTL
-----------------------------------------------------------------------------
(* How old the roles of a token, and of a request the API has let pass, may *)
(* be: held still, or lost no longer ago than a token lives.               *)
Held(u, roles, until) ==
  \A r \in roles : r \in held[u] \/ until <= revoked[u][r] + Lifetime

Watched(k) == k.status = "called" /\ k.door = "api"

AgeInv ==
  /\ \A u \in UserIds, r \in Roles : revoked[u][r] <= now
  /\ \A t \in Tags : token[t] # NoToken =>
       /\ token[t].expires <= now + Lifetime
       /\ Held(token[t].user, token[t].roles, token[t].expires)
  /\ \A c \in Callers : Watched(call[c]) =>
       /\ call[c].at <= now
       /\ Held(call[c].user, call[c].roles, call[c].at - Skew)

LEMMA InitAge == AccessInit => AgeInv
<1> SUFFICES ASSUME AccessInit
             PROVE  AgeInv
  OBVIOUS
<1>1. \A c \in Callers : ~Watched(call[c])
  BY DEF AccessInit, Ended, Watched
<1>2. \A t \in Tags : token[t] = NoToken
  BY DEF AccessInit
<1>3. \A u \in UserIds, r \in Roles : revoked[u][r] <= now
  BY DEF AccessInit
<1> QED
  BY <1>1, <1>2, <1>3 DEF AgeInv

(* Roles that are lost at some moment are held until then: what was said of *)
(* them stays true.                                                        *)
LEMMA HeldStays ==
  ASSUME AccessTypeOK, AgeInv, now' = now,
         NEW u \in UserIds, NEW roles \in SUBSET Roles, NEW until \in Int,
         until <= now + Lifetime, Held(u, roles, until),
         \A r \in Roles : r \in held[u] /\ r \notin held'[u] => revoked'[u][r] = now,
         \A r \in Roles : revoked'[u][r] \in {revoked[u][r], now}
  PROVE  Held(u, roles, until)'
<1> SUFFICES ASSUME NEW r \in roles
             PROVE  r \in held'[u] \/ until <= revoked'[u][r] + Lifetime
  BY DEF Held
<1>1. /\ revoked[u][r] \in Nat /\ now \in Nat /\ Lifetime \in Nat
      /\ revoked[u][r] <= now
  BY AccessAssumption DEF AccessTypeOK, Time, AgeInv
<1>2. r \in held[u] \/ until <= revoked[u][r] + Lifetime
  BY DEF Held
<1> QED
  BY <1>1, <1>2

(* A step of the identity or role pages.                                   *)
LEMMA LossKeepsAge ==
  ASSUME AccessTypeOK, AgeInv, UNCHANGED <<now, token, call>>,
         \A u \in UserIds, r \in Roles :
           r \in held[u] /\ r \notin held'[u] => revoked'[u][r] = now,
         \A u \in UserIds, r \in Roles : revoked'[u][r] \in {revoked[u][r], now}
  PROVE  AgeInv'
<1> USE AccessAssumption
<1>1. \A u \in UserIds, r \in Roles : revoked'[u][r] <= now'
  BY DEF AgeInv, AccessTypeOK, Time
<1>2. ASSUME NEW t \in Tags, token'[t] # NoToken
      PROVE  /\ token'[t].expires <= now' + Lifetime
             /\ Held(token[t].user, token[t].roles, token[t].expires)'
  <2>1. token[t] \in Token /\ token[t].expires <= now + Lifetime
        /\ Held(token[t].user, token[t].roles, token[t].expires)
    BY <1>2 DEF AccessTypeOK, AgeInv
  <2>2. token[t].user \in UserIds /\ token[t].roles \in SUBSET Roles
        /\ token[t].expires \in Int
    BY <2>1 DEF Token
  <2>3. (\A r \in token[t].roles : r \in held'[token[t].user]
           \/ token[t].expires <= revoked'[token[t].user][r] + Lifetime)
    BY <2>1, <2>2, HeldStays DEF Held
  <2> QED
    BY <2>1, <2>3 DEF Held
<1>3. ASSUME NEW c \in Callers, Watched(call'[c])
      PROVE  /\ call'[c].at <= now'
             /\ Held(call[c].user, call[c].roles, call[c].at - Skew)'
  <2>1. call[c] \in Called
    BY <1>3, CalledTyped DEF Watched
  <2>2. call[c].user \in UserIds /\ call[c].roles \in SUBSET Roles
        /\ call[c].at \in Nat /\ now \in Nat
    BY <2>1 DEF Called, AccessTypeOK, Time
  <2>3. call[c].at <= now /\ Held(call[c].user, call[c].roles, call[c].at - Skew)
    BY <1>3 DEF AgeInv
  <2>4. call[c].at - Skew \in Int /\ call[c].at - Skew <= now + Lifetime
    BY <2>2, <2>3
  <2>5. (\A r \in call[c].roles : r \in held'[call[c].user]
           \/ call[c].at - Skew <= revoked'[call[c].user][r] + Lifetime)
    BY <2>2, <2>3, <2>4, HeldStays DEF Held
  <2> QED
    BY <2>3, <2>5 DEF Held
<1> QED
  BY <1>1, <1>2, <1>3 DEF AgeInv

(* Time passes, and calls end or are of no interest.                       *)
LEMMA TimeKeepsAge ==
  ASSUME AccessTypeOK, AgeInv, UNCHANGED <<held, revoked, token>>, now <= now',
         now' \in Nat,
         \A c \in Callers : Watched(call'[c]) => call'[c] = call[c]
  PROVE  AgeInv'
<1> USE AccessAssumption
<1>1. \A u \in UserIds, r \in Roles : revoked'[u][r] <= now'
  BY DEF AgeInv, AccessTypeOK, Time
<1>2. ASSUME NEW t \in Tags, token'[t] # NoToken
      PROVE  /\ token'[t].expires <= now' + Lifetime
             /\ Held(token[t].user, token[t].roles, token[t].expires)'
  <2>1. token[t] \in Token /\ token[t].expires <= now + Lifetime
        /\ Held(token[t].user, token[t].roles, token[t].expires)
    BY <1>2 DEF AccessTypeOK, AgeInv
  <2>2. token[t].expires \in Nat /\ now \in Nat
    BY <2>1 DEF Token, AccessTypeOK, Time
  <2> QED
    BY <2>1, <2>2 DEF Held
<1>3. ASSUME NEW c \in Callers, Watched(call'[c])
      PROVE  /\ call'[c].at <= now'
             /\ Held(call[c].user, call[c].roles, call[c].at - Skew)'
  <2>1. call[c] \in Called /\ call'[c] = call[c]
    BY <1>3, CalledTyped DEF Watched
  <2>2. call[c].at \in Nat /\ now \in Nat
    BY <2>1 DEF Called, AccessTypeOK, Time
  <2>3. call[c].at <= now /\ Held(call[c].user, call[c].roles, call[c].at - Skew)
    BY <1>3, <2>1 DEF AgeInv
  <2> QED
    BY <2>1, <2>2, <2>3 DEF Held
<1> QED
  BY <1>1, <1>2, <1>3 DEF AgeInv

LEMMA IssueKeepsAge ==
  ASSUME AccessTypeOK, AgeInv, NEW t \in Tags, NEW u \in UserIds, Issue(t, u)
  PROVE  AgeInv'
<1> USE AccessAssumption
<1> DEFINE new == [user |-> u, roles |-> held[u], expires |-> now + Lifetime]
<1>1. UNCHANGED <<now, held, call, revoked>> /\ token' = [token EXCEPT ![t] = new]
  BY DEF Issue
<1>2. now \in Nat /\ new.expires = now + Lifetime /\ new.user = u /\ new.roles = held[u]
  BY DEF AccessTypeOK, Time
<1> HIDE DEF new
<1>3. Held(new.user, new.roles, new.expires)
  BY <1>2 DEF Held
<1>4. ASSUME NEW s \in Tags, token'[s] # NoToken
      PROVE  /\ token'[s].expires <= now' + Lifetime
             /\ Held(token'[s].user, token'[s].roles, token'[s].expires)
  <2>1. token'[s] = new \/ token'[s] = token[s]
    BY <1>1 DEF AccessTypeOK
  <2> QED
    BY <1>1, <1>2, <1>3, <1>4, <2>1 DEF AgeInv
<1> QED
  BY <1>1, <1>4 DEF AgeInv, Held

(* What the API lets pass has not expired.                                 *)
LEMMA ShowKeepsAge ==
  ASSUME AccessTypeOK, AgeInv, NEW c \in Callers, NEW t \in Tags, NEW k \in Keys,
         PostAccess(c, t, k) \/ Publish(c, t, k)
  PROVE  AgeInv'
<1> USE AccessAssumption
<1>1. PICK new : /\ call' = [call EXCEPT ![c] = new]
                 /\ Watched(new) => /\ PostAccess(c, t, k)
                                    /\ new.user = token[t].user
                                    /\ new.roles = token[t].roles
                                    /\ new.at = now
  <2> DEFINE of(door, at) == [status |-> "called", door |-> door,
                              user |-> token[t].user, roles |-> token[t].roles,
                              key |-> k, at |-> at]
  <2>1. CASE PostAccess(c, t, k)
    <3>1. call' = [call EXCEPT ![c] = of("api", now)]
      BY <2>1 DEF PostAccess, Show
    <3>2. /\ of("api", now).user = token[t].user
          /\ of("api", now).roles = token[t].roles
          /\ of("api", now).at = now
      OBVIOUS
    <3> HIDE DEF of
    <3> QED
      BY <2>1, <3>1, <3>2
  <2>2. CASE Publish(c, t, k)
    <3>1. call' = [call EXCEPT ![c] = of("lock", 0)]
      BY <2>2 DEF Publish, Show
    <3>2. ~Watched(of("lock", 0))
      BY DEF Watched
    <3> QED
      BY <3>1, <3>2
  <2> QED
    BY <2>1, <2>2
<1>2. UNCHANGED <<now, held, token, revoked>> /\ token[t] # NoToken
  BY DEF PostAccess, Publish, Show
<1>3. /\ token[t] \in Token
      /\ Held(token[t].user, token[t].roles, token[t].expires)
  BY <1>2 DEF AgeInv, AccessTypeOK
<1>4. /\ now \in Nat /\ token[t].expires \in Nat
      /\ \A r \in token[t].roles : revoked[token[t].user][r] \in Nat
  BY <1>3 DEF Token, AccessTypeOK, Time
<1>5. ASSUME Watched(new)
      PROVE  new.at <= now /\ Held(new.user, new.roles, new.at - Skew)
  <2>1. now <= token[t].expires + Skew
    BY <1>1, <1>4, <1>5 DEF PostAccess, Expired
  <2>2. now - Skew <= token[t].expires
    BY <1>4, <2>1
  <2>3. Held(token[t].user, token[t].roles, now - Skew)
    BY <1>3, <1>4, <2>2 DEF Held
  <2> QED
    BY <1>1, <1>4, <1>5, <2>3
<1>6. ASSUME NEW d \in Callers, Watched(call'[d])
      PROVE  /\ call'[d].at <= now'
             /\ Held(call'[d].user, call'[d].roles, call'[d].at - Skew)
  <2>1. call'[d] = new \/ call'[d] = call[d]
    BY <1>1 DEF AccessTypeOK
  <2> QED
    BY <1>2, <1>5, <1>6, <2>1 DEF AgeInv
<1> QED
  BY <1>2, <1>6 DEF AgeInv, Held

LEMMA StepAge == AccessTypeOK /\ AgeInv /\ [AccessNext]_accessVars => AgeInv'
<1> SUFFICES ASSUME AccessTypeOK, AgeInv, [AccessNext]_accessVars
             PROVE  AgeInv'
  OBVIOUS
<1>0. now \in Nat /\ now <= now
  BY AccessAssumption DEF AccessTypeOK, Time
<1>1. CASE Tick
  BY <1>0, <1>1, TimeKeepsAge DEF Tick
<1>2. ASSUME NEW t \in Tags, NEW u \in UserIds, Issue(t, u) PROVE AgeInv'
  BY <1>2, IssueKeepsAge
<1>3. ASSUME NEW c \in Callers, NEW t \in Tags, NEW k \in Keys,
             PostAccess(c, t, k) \/ Publish(c, t, k)
      PROVE  AgeInv'
  BY <1>3, ShowKeepsAge
<1>4. ASSUME NEW c \in Callers, Answer(c) \/ CallFails(c) PROVE AgeInv'
  <2>1. PICK o : call' = [call EXCEPT ![c] = Ended(o)] /\ o \in Outcomes
    BY <1>4, AnswerTyped DEF CallFails, Outcomes
  <2>2. \A d \in Callers : call'[d] = Ended(o) \/ call'[d] = call[d]
    BY <2>1 DEF AccessTypeOK
  <2>3. ~Watched(Ended(o))
    BY <2>1 DEF Watched, Ended, Outcomes, Results
  <2>4. UNCHANGED <<now, held, token, revoked>>
    BY <1>4 DEF Answer, CallFails
  <2> QED
    BY <1>0, <2>2, <2>3, <2>4, TimeKeepsAge
<1>5. ASSUME NEW u \in UserIds, NEW R \in SUBSET Roles, AssignRoles(u, R)
      PROVE  AgeInv'
  <2>1. held' = [held EXCEPT ![u] = R] /\ revoked' = Revoke(u, held[u] \ R)
        /\ UNCHANGED <<now, token, call>>
    BY <1>5 DEF AssignRoles
  <2> QED
    BY <2>1, LossKeepsAge DEF Revoke, AccessTypeOK
<1>6. ASSUME NEW u \in UserIds, RemoveAccount(u) PROVE AgeInv'
  <2>1. held' = [held EXCEPT ![u] = {}] /\ revoked' = Revoke(u, held[u])
        /\ UNCHANGED <<now, token, call>>
    BY <1>6 DEF RemoveAccount
  <2> QED
    BY <2>1, LossKeepsAge DEF Revoke, AccessTypeOK
<1>7. ASSUME NEW r \in Roles, RemoveRole(r) PROVE AgeInv'
  <2>1. UNCHANGED <<now, token, call>>
    BY <1>7 DEF RemoveRole
  <2>2. ASSUME NEW u \in UserIds, NEW s \in Roles
        PROVE  /\ s \in held[u] /\ s \notin held'[u] => revoked'[u][s] = now
               /\ revoked'[u][s] \in {revoked[u][s], now}
    <3>1. held'[u] = held[u] \ {r}
      BY <1>7 DEF RemoveRole
    <3>2. revoked'[u] = IF r \in held[u] THEN [revoked[u] EXCEPT ![r] = now]
                        ELSE revoked[u]
      BY <1>7 DEF RemoveRole
    <3>3. revoked[u] \in [Roles -> Time]
      BY DEF AccessTypeOK
    <3> QED
      BY <3>1, <3>2, <3>3
  <2> QED
    BY <2>1, <2>2, LossKeepsAge
<1>8. CASE GrainStep
  BY <1>0, <1>8, TimeKeepsAge DEF GrainStep
<1>9. CASE UNCHANGED accessVars
  BY <1>0, <1>9, TimeKeepsAge DEF accessVars
<1> QED
  BY <1>1, <1>2, <1>3, <1>4, <1>5, <1>6, <1>7, <1>8, <1>9 DEF AccessNext

-----------------------------------------------------------------------------
(* A call is answered by the turn of a grain, and in its words.            *)
LEMMA AnsweredByGrain ==
  ASSUME AccessTypeOK, AccessNext, NEW c \in Callers, NEW result \in Results,
         Answered(c, result)
  PROVE  Answer(c) /\ answer' = result
<1>1. call[c].status = "called" /\ call'[c].status = result /\ result # "called"
      /\ result # "failed"
  BY DEF Answered, Results
<1>2. call'[c] # call[c]
  BY <1>1
<1>3. ASSUME NEW d \in Callers, NEW new, call' = [call EXCEPT ![d] = new]
      PROVE  d = c /\ new.status = result
  BY <1>1, <1>2, <1>3 DEF AccessTypeOK
<1>4. ASSUME NEW d \in Callers, NEW t \in Tags, NEW k \in Keys,
             PostAccess(d, t, k) \/ Publish(d, t, k)
      PROVE  FALSE
  BY <1>1, <1>3, <1>4 DEF PostAccess, Publish, Show
<1>5. ASSUME NEW d \in Callers, CallFails(d)
      PROVE  FALSE
  BY <1>1, <1>3, <1>5 DEF CallFails, Ended
<1>6. ASSUME NEW d \in Callers, Answer(d)
      PROVE  d = c /\ answer' = result
  <2>1. d = c /\ Ended(answer').status = result
    BY <1>3, <1>6 DEF Answer
  <2> QED
    BY <2>1 DEF Ended
<1>7. ASSUME \/ Tick
             \/ \E t \in Tags, u \in UserIds : Issue(t, u)
             \/ \E u \in UserIds, R \in SUBSET Roles : AssignRoles(u, R)
             \/ \E u \in UserIds : RemoveAccount(u)
             \/ \E r \in Roles : RemoveRole(r)
             \/ GrainStep
      PROVE  FALSE
  BY <1>2, <1>7 DEF Tick, Issue, AssignRoles, RemoveAccount, RemoveRole, GrainStep
<1> QED
  BY <1>4, <1>5, <1>6, <1>7 DEF AccessNext

(* The API grants nothing on a role that was taken away longer ago than a   *)
(* token lives and clocks may differ, whoever took it, however old the     *)
(* cache of the grain (JwtTokenGenerator.cs:32, LockGrain.cs:29).           *)
THEOREM RevocationsTakeEffect == AccessSpec => GrantsEndAfterRevocation
<1>1. AccessSpec => [](AccessTypeOK /\ AgeInv)
  BY InitAccessType, StepAccessType, InitAge, StepAge, PTL DEF AccessSpec
<1>2. AccessTypeOK /\ AgeInv /\ [AccessNext]_accessVars
        => [\A c \in Callers :
              Answered(c, "Granted") /\ call[c].door = "api"
                => Current(call[c], cached[call[c].key].roles)]_accessVars
  <2> SUFFICES ASSUME AccessTypeOK, AgeInv, AccessNext, NEW c \in Callers,
                      Answered(c, "Granted"), call[c].door = "api"
               PROVE  Current(call[c], cached[call[c].key].roles)
    OBVIOUS
  <2> DEFINE k == call[c]
  <2>1. Answer(c) /\ answer' = "Granted"
    BY AnsweredByGrain DEF Results
  <2>2. PICK employee : Decide(k.key, k.user, k.roles, employee)
    BY <2>1 DEF Answer, RequestUnknownLock
  <2>3. cached[k.key].roles \cap k.roles # {}
    BY <2>1, <2>2 DEF Decide, DecideUnchecked, AccessResult
  <2>4. PICK r : r \in k.roles \cap cached[k.key].roles
    BY <2>3
  <2>5. k \in Called /\ Watched(k)
    BY <2>1, CalledTyped DEF Answer, Watched
  <2>6. r \in held[k.user] \/ k.at - Skew <= revoked[k.user][r] + Lifetime
    BY <2>4, <2>5 DEF AgeInv, Held
  <2>7. k.at \in Nat /\ Skew \in Nat /\ Lifetime \in Nat /\ revoked[k.user][r] \in Nat
    BY <2>4, <2>5, AccessAssumption DEF Called, Time, AccessTypeOK
  <2>8. r \in held[k.user] \/ k.at <= revoked[k.user][r] + Lifetime + Skew
    BY <2>6, <2>7
  <2> QED
    BY <2>4, <2>8 DEF Current
<1> QED
  BY <1>1, <1>2, PTL DEF AccessSpec, GrantsEndAfterRevocation
-----------------------------------------------------------------------------
(* A live activation has the row of its key.                               *)
CacheOfLock == \A k \in Keys : phase[k] # "none" => cached[k].lock = LockOf[k]

LEMMA CacheOfLockHolds == Spec => []CacheOfLock
<1>1. Init => CacheOfLock
  BY DEF Init, CacheOfLock
<1>2. TypeInv /\ CacheOfLock /\ [Next]_vars => CacheOfLock'
  <2> SUFFICES ASSUME TypeInv, CacheOfLock, [Next]_vars
               PROVE  CacheOfLock'
    OBVIOUS
  <2>1. cached \in [Keys -> CachedLock] /\ phase \in [Keys -> Phases]
    BY DEF TypeInv, TypeOK
  <2>2. ASSUME NEW k \in Keys, Activate(k) PROVE CacheOfLock'
    <3>1. /\ \A j \in Keys \ {k} : phase'[j] = phase[j] /\ cached'[j] = cached[j]
          /\ cached'[k].lock = LockOf[k]
      BY <2>1, <2>2 DEF Activate, NullLock
    <3> QED
      BY <3>1 DEF CacheOfLock
  <2>3. ASSUME NEW k \in Keys, Activated(k) \/ ActivateFailed(k) \/ Deactivate(k)
        PROVE  CacheOfLock'
    BY <2>1, <2>3 DEF Activated, ActivateFailed, Deactivate, CacheOfLock
  <2>4. ASSUME NEW K \in SUBSET Keys, Forget(K) PROVE CacheOfLock'
    BY <2>4 DEF Forget, CacheOfLock
  <2>5. CASE UNCHANGED <<phase, cached>>
    BY <2>5 DEF CacheOfLock
  <2>6. ASSUME NEW k \in Keys, NEW requester \in UserIds,
               NEW claims \in SUBSET Roles, NEW employee \in UserIds \cup {NoUser},
               Decide(k, requester, claims, employee)
        PROVE  UNCHANGED <<phase, cached>>
    BY <2>6 DEF Decide, DecideUnchecked
  <2>7. ASSUME NEW k \in Keys,
               \/ RequestUnknownLock(k) \/ TimerTick(k) \/ SaveCommit(k)
               \/ SaveReturn(k) \/ SaveReject(k) \/ SaveFail(k) \/ AckLost(k)
        PROVE  UNCHANGED <<phase, cached>>
    BY <2>7 DEF RequestUnknownLock, TimerTick, SaveCommit, SaveReturn,
                SaveReject, SaveFail, AckLost, SaveThrows
  <2>8. ASSUME \/ \E r \in Roles : DeleteRole(r)
               \/ \E u \in UserIds : DeleteUser(u)
               \/ UNCHANGED vars
        PROVE  UNCHANGED <<phase, cached>>
    BY <2>8 DEF DeleteRole, DeleteUser, vars
  <2>9. ASSUME NEW k \in Keys, Deactivated(k) PROVE CacheOfLock'
    BY <2>4, <2>9 DEF Deactivated
  <2>10. ASSUME NEW K \in SUBSET Keys, Crash(K) PROVE CacheOfLock'
    BY <2>4, <2>10 DEF Crash
  <2> QED
    BY <2>2, <2>3, <2>5, <2>6, <2>7, <2>8, <2>9, <2>10 DEF Next
<1> QED
  BY <1>1, <1>2, TypeInvariant, PTL DEF Spec

(* A denial means that the token has none of the roles the lock admits,     *)
(* whatever has become of activations, tokens and accounts on the way:     *)
(* caches lack nothing that the table has (LockGrain.cs:29, :46).           *)
THEOREM DenialsHaveCause == AccessSpec => DenialsAreJustified
<1>1. AccessTypeOK /\ CacheOfLock /\ CacheCoversStore /\ [AccessNext]_accessVars
        => [\A c \in Callers :
              Answered(c, "Denied") /\ LockOf[call[c].key] # NoLock
                => call[c].roles \cap lockRoles[LockOf[call[c].key]] = {}]_accessVars
  <2> SUFFICES ASSUME AccessTypeOK, CacheOfLock, CacheCoversStore, AccessNext,
                      NEW c \in Callers, Answered(c, "Denied"),
                      LockOf[call[c].key] # NoLock
               PROVE  call[c].roles \cap lockRoles[LockOf[call[c].key]] = {}
    OBVIOUS
  <2> DEFINE k == call[c].key
  <2>1. Answer(c) /\ answer' = "Denied"
    BY AnsweredByGrain DEF Results
  <2>2. k \in Keys
    BY <2>1, CalledTyped DEF Answer, Called
  <2>3. phase[k] = "active"
    BY <2>1 DEF Answer, RequestUnknownLock, Decide, DecideUnchecked
  <2>4. cached[k].lock = LockOf[k] /\ lockRoles[LockOf[k]] \subseteq cached[k].roles
    BY <2>2, <2>3 DEF CacheOfLock, CacheCoversStore
  <2>5. PICK employee : Decide(k, call[c].user, call[c].roles, employee)
    BY <2>1, <2>4 DEF Answer, RequestUnknownLock
  <2>6. cached[k].roles \cap call[c].roles = {}
    BY <2>1, <2>5 DEF Decide, DecideUnchecked, AccessResult
  <2> QED
    BY <2>4, <2>6
<1> QED
  BY <1>1, AccessTypeCorrect, AccessUsesGrains, CacheOfLockHolds, CacheIsCovering,
     PTL DEF AccessSpec, DenialsAreJustified
=============================================================================
