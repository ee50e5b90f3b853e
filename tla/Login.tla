-------------------------------- MODULE Login --------------------------------
(***************************************************************************)
(* POST users/token: a login finds the account by its name, checks the      *)
(* password against what it found and reads the roles of the account, each  *)
(* in an awaited call, and makes a token of the three.  Meanwhile accounts  *)
(* are registered, deleted and changed.  An account keeps its id for life;  *)
(* its name may go to another account once it is deleted.                  *)
(***************************************************************************)
EXTENDS Naturals

CONSTANTS
  Logins,     \* requests that may be under way at the same time
  Ids,        \* ids of accounts, each used for one account
  NoAccount,
  Names,
  Passwords,
  Roles

ASSUME LoginAssumption ==
  /\ NoAccount \notin Ids
  /\ Names # {}
  /\ Passwords # {}

VARIABLES
  accounts,  \* AspNetUsers: name and password of the ids that have a row
  roles,     \* AspNetUserRoles
  used,      \* ids that have had a row
  login,     \* the state of each request
  moments    \* history: what has been true of its name since it began

vars == <<accounts, roles, used, login, moments>>

-----------------------------------------------------------------------------
Account == [name: Names, password: Passwords]
Steps == {"idle", "finding", "checking", "reading"}
Statuses == {0, 200, 400, 500}  \* 0: none yet

(* JwtTokenDto: the claims of a token that the program reads again.        *)
Token == [id: Ids, name: Names, roles: SUBSET Roles]
NoToken == [id |-> NoAccount, roles |-> {}]

(* One request: its step, what was posted, the entity it has loaded, and    *)
(* the reply.                                                              *)
NewLogin(name, given) ==
  [at |-> "finding", name |-> name, given |-> given, user |-> NoAccount,
   hash |-> given, status |-> 0, token |-> NoToken]

Named(table, name) == {id \in DOMAIN table : table[id].name = name}

(* What is true of the posted name in the tables given: the ids that bear   *)
(* it with the posted password, whether there are none, and the ids that    *)
(* bear it with their roles.                                               *)
Right(l, table) ==
  {id \in Named(table, l.name) : table[id].password = l.given}
Seen(l, table, held) ==
  [right |-> Right(l, table), refusable |-> Right(l, table) = {},
   held |-> {<<id, held[id]>> : id \in Named(table, l.name)}]
Nothing == [right |-> {}, refusable |-> FALSE, held |-> {}]
Joined(m, n) ==
  [right |-> m.right \cup n.right, refusable |-> m.refusable \/ n.refusable,
   held |-> m.held \cup n.held]

Init ==
  /\ accounts = << >>
  /\ roles = [id \in Ids |-> {}]
  /\ used = {}
  /\ login = [p \in Logins |->
       [at |-> "idle", name |-> CHOOSE n \in Names : TRUE,
        given |-> CHOOSE w \in Passwords : TRUE, user |-> NoAccount,
        hash |-> CHOOSE w \in Passwords : TRUE, status |-> 0,
        token |-> NoToken]]
  /\ moments = [p \in Logins |-> Nothing]

-----------------------------------------------------------------------------
(* ApiExceptionHandlingMiddleware: every exception a bad request, and what  *)
(* it makes of a DomainException and of any other.                         *)
AlwaysBadRequest(exception) == 400
StatusOf(exception) == IF exception = "DomainException" THEN 400 ELSE 500

Throw(p, exception) ==
  login' = [login EXCEPT ![p].at = "idle", ![p].status = StatusOf(exception)]

(* GetTokenAsync of the controller: a request arrives.                     *)
Post(p, name, given) ==
  /\ login[p].at = "idle"
  /\ login' = [login EXCEPT ![p] = NewLogin(name, given)]
  /\ UNCHANGED <<accounts, roles, used>>

(* GetJwtTokenAsync.                                                       *)
FindByName(p) ==
  /\ login[p].at = "finding"
  /\ \E id \in Named(accounts, login[p].name) :
       login' = [login EXCEPT ![p].at = "checking", ![p].user = id,
                              ![p].hash = accounts[id].password]
  /\ UNCHANGED <<accounts, roles, used>>

NameUnknown(p) ==
  /\ login[p].at = "finding"
  /\ Named(accounts, login[p].name) = {}
  /\ Throw(p, "DomainException")
  /\ UNCHANGED <<accounts, roles, used>>

(* The password is compared with the loaded entity, not with the table.    *)
AnyPassword(l) == TRUE
PasswordMatches(l) == l.hash = l.given

CheckPassword(p) ==
  /\ login[p].at = "checking"
  /\ IF PasswordMatches(login[p])
     THEN login' = [login EXCEPT ![p].at = "reading"]
     ELSE Throw(p, "DomainException")
  /\ UNCHANGED <<accounts, roles, used>>

(* GetRolesAsync: the roles of whoever bears the name, and of the id.      *)
RolesOfName(l) == UNION {roles[id] : id \in Named(accounts, l.name)}
RolesOfUser(l) == roles[l.user]

(* The roles are read and the token is made of them and the entity.        *)
GetRoles(p) ==
  /\ login[p].at = "reading"
  /\ login' = [login EXCEPT ![p].at = "idle", ![p].status = 200,
       ![p].token = [id |-> login[p].user, name |-> login[p].name,
                     roles |-> RolesOfUser(login[p])]]
  /\ UNCHANGED <<accounts, roles, used>>

(* A query fails: an exception that is not a DomainException.              *)
QueryFails(p) ==
  /\ login[p].at \in {"finding", "reading"}
  /\ Throw(p, "SqlException")
  /\ UNCHANGED <<accounts, roles, used>>

-----------------------------------------------------------------------------
(* The identity and role pages.                                            *)

Without(id) == [i \in DOMAIN accounts \ {id} |-> accounts[i]]
With(id, entry) ==
  [i \in DOMAIN accounts \cup {id} |-> IF i = id THEN entry ELSE accounts[i]]

(* The index on NormalizedUserName is unique.                              *)
Register(id, entry) ==
  /\ id \notin used
  /\ Named(accounts, entry.name) = {}
  /\ accounts' = With(id, entry)
  /\ used' = used \cup {id}
  /\ UNCHANGED <<roles, login>>

(* The rows of AspNetUserRoles follow the account; without the foreign key  *)
(* they would stay.                                                        *)
DeleteRowOnly(id) ==
  /\ id \in DOMAIN accounts
  /\ accounts' = Without(id)
  /\ UNCHANGED <<roles, used, login>>

DeleteAccount(id) ==
  /\ id \in DOMAIN accounts
  /\ accounts' = Without(id)
  /\ roles' = [roles EXCEPT ![id] = {}]
  /\ UNCHANGED <<used, login>>

ChangePassword(id, password) ==
  /\ id \in DOMAIN accounts
  /\ accounts' = With(id, [accounts[id] EXCEPT !.password = password])
  /\ UNCHANGED <<roles, used, login>>

AssignRoles(id, held) ==
  /\ id \in DOMAIN accounts
  /\ roles' = [roles EXCEPT ![id] = held]
  /\ UNCHANGED <<accounts, used, login>>

-----------------------------------------------------------------------------
LoginStep(p) ==
  \/ FindByName(p) \/ NameUnknown(p) \/ CheckPassword(p) \/ GetRoles(p)

(* The history variable: a request that has begun sees what the step made   *)
(* true, one that begins sees what is true, one that has ended sees no more. *)
Observe ==
  moments' = [p \in Logins |->
    IF login'[p].at = "idle" THEN moments[p]
    ELSE Joined(Seen(login'[p], accounts', roles'),
                IF login[p].at = "idle" THEN Nothing ELSE moments[p])]

Next ==
  /\ \/ \E p \in Logins, name \in Names, given \in Passwords : Post(p, name, given)
     \/ \E p \in Logins : LoginStep(p) \/ QueryFails(p)
     \/ \E id \in Ids, entry \in Account : Register(id, entry)
     \/ \E id \in Ids : DeleteAccount(id)
     \/ \E id \in Ids, password \in Passwords : ChangePassword(id, password)
     \/ \E id \in Ids, held \in SUBSET Roles : AssignRoles(id, held)
  /\ Observe

Spec == Init /\ [][Next]_vars

-----------------------------------------------------------------------------
TypeOK ==
  /\ DOMAIN accounts \subseteq used
  /\ \A id \in DOMAIN accounts : accounts[id] \in Account
  /\ roles \in [Ids -> SUBSET Roles]
  /\ \A id \in Ids \ DOMAIN accounts : roles[id] = {}
  /\ used \in SUBSET Ids
  /\ login \in [Logins ->
       [at: Steps, name: Names, given: Passwords, user: Ids \cup {NoAccount},
        hash: Passwords, status: Statuses, token: Token \cup {NoToken}]]
  /\ moments \in [Logins ->
       [right: SUBSET Ids, refusable: BOOLEAN,
        held: SUBSET (Ids \X SUBSET Roles)]]

(* A token is issued only to a caller whose password was the password of    *)
(* the very account the token names, at some moment of the login: not of    *)
(* an account of the same name before or after it (UserService.cs:20-30).  *)
PasswordWasRight ==
  \A p \in Logins :
    login[p].status = 200 => login[p].token.id \in moments[p].right

(* The roles in a token were, all together, the roles of the account the    *)
(* token names, at some moment of the login.  The account may be deleted    *)
(* before they are read; then there are none, whoever has its name now      *)
(* (UserService.cs:32).                                                    *)
RolesWereHeld ==
  \A p \in Logins :
    login[p].status = 200 =>
      \/ login[p].token.roles = {}
      \/ <<login[p].token.id, login[p].token.roles>> \in moments[p].held

(* A caller hears "Invalid username or password" only if, at some moment of *)
(* the login, no account had the name and the password; a failure of the   *)
(* database is never reported as that (ApiExceptionHandlingMiddleware.cs:33).*)
RefusedForCause ==
  \A p \in Logins :
    login[p].status = 400 => moments[p].refusable
=============================================================================
