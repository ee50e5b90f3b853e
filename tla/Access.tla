-------------------------------- MODULE Access --------------------------------
(***************************************************************************)
(* The grains with the accounts and tokens around them.  A login makes a    *)
(* token of the roles the account has; the token is kept (by an app, or on  *)
(* a tag) and shown later, at the API or to a lock, and the grain compares  *)
(* the roles in the token with the roles it has cached.  So two copies may  *)
(* be old when they meet.  The API refuses tokens that have expired.        *)
(*                                                                         *)
(* Login settles how a token comes about; here a login is its last step,    *)
(* the reading of the roles, which is followed by nothing it awaits.        *)
(***************************************************************************)
EXTENDS LockGrain

CONSTANTS
  Tags,      \* places a token is kept
  Callers,   \* requests that may be under way at the same time
  SeedRoles, \* the roles of each account at the start
  Lifetime,  \* JwtOptions.ExpireDays
  Skew,      \* ClockSkew of TokenValidationParameters, not set: its default
  MaxTime    \* bound on the clock

ASSUME AccessAssumption ==
  /\ SeedRoles \in [UserIds -> SUBSET Roles]
  /\ \A u \in UserIds \ SeedUsers : SeedRoles[u] = {}
  /\ Lifetime \in Nat
  /\ Skew \in Nat
  /\ MaxTime \in Nat

VARIABLES
  now,
  held,     \* AspNetUserRoles: the roles of each account
  token,    \* the token kept at each place
  call,     \* the state of each request
  revoked   \* history: when each account last lost each role

accessVars == <<vars, now, held, token, call, revoked>>

-----------------------------------------------------------------------------
Time == 0..MaxTime

(* The claims of a token that the program reads.                           *)
Token == [user: UserIds, roles: SUBSET Roles, expires: 0..(MaxTime + Lifetime)]
NoToken == [user |-> NoUser, roles |-> {}, expires |-> 0]

(* A request on its way to the grain of key, with the claims of its token;   *)
(* at is when the API let the token pass.  Of one that has ended, only the  *)
(* outcome is kept.                                                        *)
Doors == {"api", "lock"}
Outcomes == Results \cup {"none", "failed"}
Called == [status: {"called"}, door: Doors, user: UserIds, roles: SUBSET Roles,
           key: Keys, at: Time]
Ended(outcome) == [status |-> outcome]

AccessInit ==
  /\ Init
  /\ now = 0
  /\ held = SeedRoles
  /\ token = [t \in Tags |-> NoToken]
  /\ call = [c \in Callers |-> Ended("none")]
  /\ revoked = [u \in UserIds |-> [r \in Roles |-> 0]]

-----------------------------------------------------------------------------
Tick ==
  /\ now < MaxTime
  /\ now' = now + 1
  /\ UNCHANGED <<vars, held, token, call, revoked>>

(* GetJwtTokenAsync from GetRolesAsync on, and GenerateJwtToken: the roles  *)
(* of the account, and an expiry counted from now.                         *)
Issue(t, u) ==
  /\ u \in users
  /\ token' = [token EXCEPT ![t] =
       [user |-> u, roles |-> held[u], expires |-> now + Lifetime]]
  /\ UNCHANGED <<vars, now, held, call, revoked>>

(* The middleware with the lifetime not validated, and as it is configured. *)
NeverExpired(k) == FALSE
Expired(k) == k.expires + Skew < now

Idle(c) == call[c].status # "called"

Show(c, door, t, k, at) ==
  /\ Idle(c)
  /\ token[t] # NoToken
  /\ call' = [call EXCEPT ![c] =
       [status |-> "called", door |-> door, user |-> token[t].user,
        roles |-> token[t].roles, key |-> k, at |-> at]]
  /\ UNCHANGED <<vars, now, held, token, revoked>>

(* PostAccessAsync, up to its await.  A token the middleware refuses        *)
(* reaches no grain (401).                                                 *)
PostAccess(c, t, k) ==
  /\ ~Expired(token[t])
  /\ Show(c, "api", t, k, now)

(* HandleInterceptingPublishAsync: the token is read for its claims, and    *)
(* neither its signature nor its expiry is looked at.                      *)
Publish(c, t, k) == Show(c, "lock", t, k, 0)

(* The body of a post must name an employee, a message names none.         *)
Employees(door) == IF door = "api" THEN UserIds ELSE {NoUser}

(* The turn of the grain, however long after.                              *)
Answer(c) ==
  LET k == call[c].key
  IN  /\ call[c].status = "called"
      /\ \/ RequestUnknownLock(k)
         \/ \E employee \in Employees(call[c].door) :
              Decide(k, call[c].user, call[c].roles, employee)
      /\ call' = [call EXCEPT ![c] = Ended(answer')]
      /\ UNCHANGED <<now, held, token, revoked>>

CallFails(c) ==
  /\ call[c].status = "called"
  /\ call' = [call EXCEPT ![c] = Ended("failed")]
  /\ UNCHANGED <<vars, now, held, token, revoked>>

-----------------------------------------------------------------------------
(* The identity and role pages.                                            *)

Revoke(u, R) == [revoked EXCEPT ![u] = [r \in Roles |-> IF r \in R THEN now ELSE @[r]]]

AssignRoles(u, R) ==
  /\ u \in users
  /\ held' = [held EXCEPT ![u] = R]
  /\ revoked' = Revoke(u, held[u] \ R)
  /\ UNCHANGED <<vars, now, token, call>>

(* AspNetUserRoles follows the account and the role, the tokens do not.     *)
RemoveAccountOnly(u) ==
  /\ DeleteUser(u)
  /\ UNCHANGED <<now, held, token, call, revoked>>

RemoveAccount(u) ==
  /\ DeleteUser(u)
  /\ held' = [held EXCEPT ![u] = {}]
  /\ revoked' = Revoke(u, held[u])
  /\ UNCHANGED <<now, token, call>>

RemoveRole(r) ==
  /\ IF \E l \in Locks : r \in lockRoles[l] THEN DeleteRole(r) ELSE UNCHANGED vars
  /\ held' = [u \in UserIds |-> held[u] \ {r}]
  /\ revoked' = [u \in UserIds |->
       IF r \in held[u] THEN [revoked[u] EXCEPT ![r] = now] ELSE revoked[u]]
  /\ UNCHANGED <<now, token, call>>

-----------------------------------------------------------------------------
(* What the grains do on their own.                                        *)
GrainStep ==
  /\ \/ \E k \in Keys : Activate(k) \/ Activated(k) \/ ActivateFailed(k)
     \/ \E k \in Keys : TimerTick(k) \/ SaveCommit(k) \/ SaveReturn(k)
     \/ \E k \in Keys : SaveReject(k) \/ SaveFail(k) \/ AckLost(k)
     \/ \E k \in Keys : Deactivate(k) \/ Deactivated(k)
     \/ \E K \in SUBSET Keys : Crash(K)
  /\ UNCHANGED <<now, held, token, call, revoked>>

AccessNext ==
  \/ Tick
  \/ \E t \in Tags, u \in UserIds : Issue(t, u)
  \/ \E c \in Callers, t \in Tags, k \in Keys : PostAccess(c, t, k) \/ Publish(c, t, k)
  \/ \E c \in Callers : Answer(c) \/ CallFails(c)
  \/ \E u \in UserIds, R \in SUBSET Roles : AssignRoles(u, R)
  \/ \E u \in UserIds : RemoveAccount(u)
  \/ \E r \in Roles : RemoveRole(r)
  \/ GrainStep

AccessSpec == AccessInit /\ [][AccessNext]_accessVars

-----------------------------------------------------------------------------
AccessTypeOK ==
  /\ now \in Time
  /\ held \in [UserIds -> SUBSET Roles]
  /\ \A u \in UserIds \ users : held[u] = {}
  /\ token \in [Tags -> Token \cup {NoToken}]
  /\ call \in [Callers -> Called \cup {Ended(o) : o \in Outcomes}]
  /\ revoked \in [UserIds -> [Roles -> Time]]

Answered(c, result) ==
  call[c].status = "called" /\ call'[c].status = result

(* The grant rests on a role the account has, or has lost no longer ago,    *)
(* when its token was looked at, than a token lives.                       *)
Current(k, roles) ==
  \E r \in k.roles \cap roles :
    \/ r \in held[k.user]
    \/ k.at <= revoked[k.user][r] + Lifetime + Skew

(* Who is granted access through the API has, or had within the lifetime of *)
(* a token before the request, a role that the activation of the lock       *)
(* admits: a role that is taken away, with or without its account, opens no *)
(* door by the API for longer (JwtTokenGenerator.cs:32,                     *)
(* ServiceCollectionExtensions.cs:146, LockGrain.cs:29).                   *)
GrantsEndAfterRevocation ==
  [][\A c \in Callers :
       Answered(c, "Granted") /\ call[c].door = "api"
         => Current(call[c], cached[call[c].key].roles)]_accessVars

(* Who is denied access to a known lock has shown a token with none of the  *)
(* roles the lock admits at that moment, however old the cache of the grain *)
(* is, and whatever became of the activation since the token was looked at  *)
(* (LockGrain.cs:29, :45).                                                 *)
DenialsAreJustified ==
  [][\A c \in Callers :
       Answered(c, "Denied") /\ LockOf[call[c].key] # NoLock
         => call[c].roles \cap lockRoles[LockOf[call[c].key]] = {}]_accessVars
=============================================================================
