----------------------------- MODULE LoginProofs -----------------------------
(***************************************************************************)
(* For every number of logins and accounts: what a token or a refusal says  *)
(* of the account, whatever the pages do between the three awaited reads.   *)
(***************************************************************************)
EXTENDS Login, TLAPS

Underway(p) == login[p].at # "idle"

(* A request that is under way has seen what is true now.                  *)
Watching(p) ==
  /\ Right(login[p], accounts) \subseteq moments[p].right
  /\ Right(login[p], accounts) = {} => moments[p].refusable
  /\ \A id \in Named(accounts, login[p].name) :
       <<id, roles[id]>> \in moments[p].held

(* The index on names: no two accounts have one.                           *)
NamesUnique ==
  \A i, j \in DOMAIN accounts : accounts[i].name = accounts[j].name => i = j

(* What a request has loaded: an account that had the name, and still has   *)
(* it if it is there; ids are not used twice.                              *)
Loaded(p) ==
  /\ login[p].user \in used
  /\ login[p].user \in DOMAIN accounts =>
       accounts[login[p].user].name = login[p].name

(* What the loaded password says of the moments so far.                    *)
Checked(p) ==
  /\ login[p].hash = login[p].given => login[p].user \in moments[p].right
  /\ login[p].hash # login[p].given => moments[p].refusable

(* What was replied.                                                       *)
Justified(p) ==
  /\ login[p].status = 200 =>
       /\ login[p].token.id \in moments[p].right
       /\ \/ login[p].token.roles = {}
          \/ <<login[p].token.id, login[p].token.roles>> \in moments[p].held
  /\ login[p].status = 400 => moments[p].refusable

LoginOK(p) ==
  /\ Underway(p) => Watching(p) /\ login[p].status = 0
  /\ login[p].at \in {"checking", "reading"} => Loaded(p) /\ Checked(p)
  /\ login[p].at = "reading" => login[p].hash = login[p].given
  /\ Justified(p)

LoginInv ==
  /\ TypeOK
  /\ NamesUnique
  /\ \A p \in Logins : LoginOK(p)

-----------------------------------------------------------------------------
Requests ==
  [at: Steps, name: Names, given: Passwords, user: Ids \cup {NoAccount},
   hash: Passwords, status: Statuses, token: Token \cup {NoToken}]

(* The changes the steps make to a request keep it one.                    *)
LEMMA RequestIn ==
  ASSUME TypeOK, NEW p \in Logins, NEW a \in Steps,
         NEW u \in Ids \cup {NoAccount}, NEW h \in Passwords,
         NEW s \in Statuses, NEW t \in Token \cup {NoToken}
  PROVE  /\ [login[p] EXCEPT !.at = a] \in Requests
         /\ [login[p] EXCEPT !.at = a, !.user = u, !.hash = h] \in Requests
         /\ [login[p] EXCEPT !.at = a, !.status = s] \in Requests
         /\ [login[p] EXCEPT !.at = a, !.status = s, !.token = t] \in Requests
<1>1. login[p] \in Requests
  BY DEF TypeOK, Requests
<1>2. [login[p] EXCEPT !.at = a] \in Requests
  BY <1>1 DEF Requests
<1>3. [login[p] EXCEPT !.at = a, !.user = u, !.hash = h] \in Requests
  BY <1>1 DEF Requests
<1>4. [login[p] EXCEPT !.at = a, !.status = s] \in Requests
  BY <1>1 DEF Requests
<1>5. [login[p] EXCEPT !.at = a, !.status = s, !.token = t] \in Requests
  BY <1>1 DEF Requests
<1> QED
  BY <1>2, <1>3, <1>4, <1>5

LEMMA InitLogin == Init => LoginInv
<1> SUFFICES ASSUME Init
             PROVE  LoginInv
  OBVIOUS
<1> USE LoginAssumption
<1>1. /\ (CHOOSE n \in Names : TRUE) \in Names
      /\ (CHOOSE w \in Passwords : TRUE) \in Passwords
  OBVIOUS
<1>2. DOMAIN accounts = {}
  BY DEF Init
<1>3. TypeOK
  BY <1>1, <1>2 DEF Init, TypeOK, Nothing, Steps, Statuses, NoToken
<1>4. \A p \in Logins : login[p].at = "idle" /\ login[p].status = 0
  BY DEF Init
<1> QED
  BY <1>2, <1>3, <1>4 DEF LoginInv, NamesUnique, LoginOK, Underway, Justified

(* What Observe makes of the moments of a request.                         *)
Grown(p) ==
  /\ moments[p].right \subseteq moments'[p].right
  /\ moments[p].refusable => moments'[p].refusable
  /\ moments[p].held \subseteq moments'[p].held

LEMMA Observed ==
  ASSUME Observe, TypeOK, NEW p \in Logins
  PROVE  /\ Underway(p)' => Watching(p)'
         /\ ~Underway(p)' => moments'[p] = moments[p]
         /\ Underway(p) => Grown(p)
<1>1. moments'[p] = IF login'[p].at = "idle" THEN moments[p]
        ELSE Joined(Seen(login'[p], accounts', roles'),
                    IF login[p].at = "idle" THEN Nothing ELSE moments[p])
  BY DEF Observe
<1>2. moments[p] \in [right: SUBSET Ids, refusable: BOOLEAN,
                      held: SUBSET (Ids \X SUBSET Roles)]
  BY DEF TypeOK
<1> DEFINE s == Seen(login'[p], accounts', roles')
           m == IF login[p].at = "idle" THEN Nothing ELSE moments[p]
<1>3. CASE login'[p].at = "idle"
  BY <1>1, <1>3 DEF Underway, Grown
<1>4. CASE login'[p].at # "idle"
  <2>1. /\ moments'[p].right = s.right \cup m.right
        /\ moments'[p].refusable = (s.refusable \/ m.refusable)
        /\ moments'[p].held = s.held \cup m.held
    BY <1>1, <1>4 DEF Joined
  <2>2. /\ s.right = Right(login'[p], accounts')
        /\ s.refusable = (Right(login'[p], accounts') = {})
        /\ s.held = {<<id, roles'[id]>> : id \in Named(accounts', login'[p].name)}
    BY DEF Seen
  <2>3. Watching(p)'
    <3> HIDE DEF s, m
    <3> QED
      BY <2>1, <2>2 DEF Watching, Right, Named
  <2>4. Underway(p) => Grown(p)
    <3>1. Underway(p) => m = moments[p]
      BY DEF Underway
    <3> HIDE DEF s, m
    <3> QED
      BY <2>1, <3>1 DEF Grown
  <2> QED
    BY <1>4, <2>3, <2>4 DEF Underway
<1> QED
  BY <1>3, <1>4

LEMMA MomentsTyped ==
  ASSUME TypeOK, Observe,
         \A p \in Logins : login'[p].name \in Names,
         roles' \in [Ids -> SUBSET Roles], DOMAIN accounts' \subseteq Ids
  PROVE  moments' \in [Logins -> [right: SUBSET Ids, refusable: BOOLEAN,
                                  held: SUBSET (Ids \X SUBSET Roles)]]
<1> DEFINE M == [right: SUBSET Ids, refusable: BOOLEAN,
                 held: SUBSET (Ids \X SUBSET Roles)]
<1>1. ASSUME NEW l PROVE Seen(l, accounts', roles') \in M
  <2>1. Named(accounts', l.name) \subseteq Ids
    BY DEF Named
  <2>2. Right(l, accounts') \subseteq Ids
    BY <2>1 DEF Right
  <2>3. {<<id, roles'[id]>> : id \in Named(accounts', l.name)}
          \subseteq Ids \X SUBSET Roles
    BY <2>1
  <2> QED
    BY <2>2, <2>3 DEF Seen
<1>2. Nothing \in M
  BY DEF Nothing
<1>3. ASSUME NEW m \in M, NEW n \in M PROVE Joined(m, n) \in M
  BY DEF Joined
<1>4. \A p \in Logins : moments[p] \in M
  BY DEF TypeOK
<1> HIDE DEF M
<1>5. ASSUME NEW p \in Logins
      PROVE  (IF login'[p].at = "idle" THEN moments[p]
              ELSE Joined(Seen(login'[p], accounts', roles'),
                     IF login[p].at = "idle" THEN Nothing ELSE moments[p])) \in M
  <2> DEFINE m == IF login[p].at = "idle" THEN Nothing ELSE moments[p]
             s == Seen(login'[p], accounts', roles')
  <2>1. m \in M /\ s \in M
    BY <1>1, <1>2, <1>4
  <2> HIDE DEF m, s
  <2>2. Joined(s, m) \in M
    BY <1>3, <2>1
  <2> QED
    BY <1>4, <2>2 DEF m, s
<1>6. moments' \in [Logins -> M]
  BY <1>5 DEF Observe
<1> QED
  BY <1>6 DEF M

(* What every step does to the accounts: it invents no old id and renames   *)
(* nobody.                                                                 *)
AccountsKept ==
  /\ used \subseteq used'
  /\ \A id \in DOMAIN accounts' :
       id \in used => id \in DOMAIN accounts /\ accounts'[id].name = accounts[id].name

(* A request that does not move is none the worse for what others do.      *)
LEMMA StillOK ==
  ASSUME LoginInv, Observe, AccountsKept,
         NEW p \in Logins, login'[p] = login[p]
  PROVE  LoginOK(p)'
<1>1. LoginOK(p) /\ TypeOK
  BY DEF LoginInv
<1>2. /\ Underway(p)' => Watching(p)'
      /\ ~Underway(p)' => moments'[p] = moments[p]
      /\ Underway(p) => Grown(p)
  BY <1>1, Observed
<1>3. CASE login[p].at = "idle"
  BY <1>1, <1>2, <1>3 DEF LoginOK, Underway, Justified
<1>4. CASE login[p].at # "idle"
  <2>1. Grown(p) /\ Watching(p)'
    BY <1>2, <1>4 DEF Underway
  <2>2. login[p].at \in {"checking", "reading"} => Loaded(p)'
    BY <1>1 DEF LoginOK, Loaded, AccountsKept
  <2>3. login[p].at \in {"checking", "reading"} => Checked(p)'
    BY <1>1, <2>1 DEF LoginOK, Checked, Grown
  <2>4. Justified(p)'
    BY <1>1, <2>1 DEF LoginOK, Justified, Grown
  <2> QED
    BY <1>1, <1>4, <2>1, <2>2, <2>3, <2>4 DEF LoginOK, Underway
<1> QED
  BY <1>3, <1>4

(* A step of one request, which leaves the tables alone.                   *)
Tables == <<accounts, roles, used>>

LEMMA RequestStep ==
  ASSUME LoginInv, Observe, UNCHANGED Tables, NEW p \in Logins,
         NEW l \in Requests,
         login' = [login EXCEPT ![p] = l],
         LoginOK(p)'
  PROVE  LoginInv'
<1>1. TypeOK
  BY DEF LoginInv
<1>2. login' \in [Logins -> Requests]
  BY <1>1 DEF TypeOK, Requests
<1>3. \A q \in Logins : login'[q].name \in Names
  BY <1>2 DEF Requests
<1>4. roles' \in [Ids -> SUBSET Roles] /\ DOMAIN accounts' \subseteq Ids
  BY <1>1 DEF TypeOK, Tables
<1>5. TypeOK'
  BY <1>1, <1>2, <1>3, <1>4, MomentsTyped DEF TypeOK, Tables, Requests
<1>6. NamesUnique'
  BY DEF LoginInv, NamesUnique, Tables
<1>7. AccountsKept
  BY <1>1 DEF AccountsKept, Tables, TypeOK
<1>8. ASSUME NEW q \in Logins, q # p PROVE LoginOK(q)'
  <2>1. login'[q] = login[q]
    BY <1>1, <1>8 DEF TypeOK
  <2> QED
    BY <1>7, <2>1, StillOK
<1> QED
  BY <1>5, <1>6, <1>8 DEF LoginInv

(* A step of the pages, which leaves the requests alone.                   *)
LEMMA PageStep ==
  ASSUME LoginInv, Observe, UNCHANGED login, AccountsKept, NamesUnique',
         DOMAIN accounts' \subseteq used', used' \in SUBSET Ids,
         \A id \in DOMAIN accounts' : accounts'[id] \in Account,
         roles' \in [Ids -> SUBSET Roles],
         \A id \in Ids \ DOMAIN accounts' : roles'[id] = {}
  PROVE  LoginInv'
<1>1. TypeOK
  BY DEF LoginInv
<1>2. \A q \in Logins : login'[q].name \in Names
  BY <1>1 DEF TypeOK
<1>3. TypeOK'
  BY <1>1, <1>2, MomentsTyped DEF TypeOK
<1>4. \A q \in Logins : LoginOK(q)'
  BY StillOK
<1> QED
  BY <1>3, <1>4 DEF LoginInv

-----------------------------------------------------------------------------
(* The steps of a request.                                                 *)

LEMMA PostKeeps ==
  ASSUME LoginInv, Observe, NEW p \in Logins, NEW name \in Names,
         NEW given \in Passwords, Post(p, name, given)
  PROVE  LoginInv'
<1>1. login' = [login EXCEPT ![p] = NewLogin(name, given)] /\ UNCHANGED Tables
  BY DEF Post, Tables
<1>2. NewLogin(name, given) \in
        Requests
  BY DEF NewLogin, Steps, Statuses, Requests
<1>3. login'[p] = NewLogin(name, given)
  BY <1>1 DEF LoginInv, TypeOK
<1>4. Underway(p)' => Watching(p)'
  BY Observed DEF LoginInv
<1>5. LoginOK(p)'
  BY <1>3, <1>4 DEF LoginOK, Underway, NewLogin, Justified
<1> QED
  BY <1>1, <1>2, <1>5, RequestStep

(* A refusal or a failure ends the request with what it has seen.          *)
LEMMA ThrowKeeps ==
  ASSUME LoginInv, Observe, UNCHANGED Tables, NEW p \in Logins,
         NEW exception, Throw(p, exception), Underway(p),
         exception = "DomainException" => moments[p].refusable
  PROVE  LoginInv'
<1> DEFINE l == [login[p] EXCEPT !.at = "idle", !.status = StatusOf(exception)]
<1>1. TypeOK
  BY DEF LoginInv
<1>2. l \in Requests
  <2>1. StatusOf(exception) \in Statuses /\ "idle" \in Steps
    BY DEF StatusOf, Statuses, Steps
  <2>2. NoAccount \in Ids \cup {NoAccount} /\ NoToken \in Token \cup {NoToken}
    OBVIOUS
  <2>3. login[p].hash \in Passwords
    BY <1>1 DEF TypeOK
  <2> QED
    BY <1>1, <2>1, <2>2, <2>3, RequestIn
<1>3. login' = [login EXCEPT ![p] = l]
  BY <1>1 DEF Throw, TypeOK
<1>4. login'[p].at = "idle" /\ login'[p].status = StatusOf(exception)
  BY <1>1 DEF TypeOK, Throw
<1>5. moments'[p] = moments[p]
  BY <1>1, <1>4, Observed DEF Underway
<1>6. LoginOK(p)'
  BY <1>4, <1>5 DEF LoginOK, Underway, Justified, StatusOf
<1> HIDE DEF l
<1> QED
  BY <1>2, <1>3, <1>6, RequestStep

LEMMA FindByNameKeeps ==
  ASSUME LoginInv, Observe, NEW p \in Logins, FindByName(p)
  PROVE  LoginInv'
<1>1. TypeOK /\ LoginOK(p) /\ NamesUnique
  BY DEF LoginInv
<1>2. PICK id \in Named(accounts, login[p].name) :
        login' = [login EXCEPT ![p].at = "checking", ![p].user = id,
                               ![p].hash = accounts[id].password]
  BY DEF FindByName
<1>3. UNCHANGED Tables /\ login[p].at = "finding"
  BY DEF FindByName, Tables
<1>4. id \in DOMAIN accounts /\ id \in used /\ id \in Ids
      /\ accounts[id] \in Account /\ accounts[id].name = login[p].name
  BY <1>1, <1>2 DEF Named, TypeOK
<1> DEFINE l == [login[p] EXCEPT !.at = "checking", !.user = id,
                                 !.hash = accounts[id].password]
<1>5. l \in Requests
  <2>1. id \in Ids /\ accounts[id].password \in Passwords /\ "checking" \in Steps
    BY <1>4 DEF Account, Steps
  <2>2. 0 \in Statuses /\ NoToken \in Token \cup {NoToken}
    BY DEF Statuses
  <2> QED
    BY <1>1, <2>1, <2>2, RequestIn
<1>6. login' = [login EXCEPT ![p] = l] /\ login'[p] = l
  BY <1>1, <1>2 DEF TypeOK
<1>7. /\ login'[p].at = "checking" /\ login'[p].user = id
      /\ login'[p].hash = accounts[id].password
      /\ login'[p].name = login[p].name /\ login'[p].given = login[p].given
      /\ login'[p].status = login[p].status /\ login'[p].token = login[p].token
  BY <1>1, <1>6 DEF TypeOK
<1> HIDE DEF l
<1>8. Watching(p)'
  BY <1>1, <1>7, Observed DEF Underway
<1>9. accounts[id].password = login[p].given => id \in moments'[p].right
  BY <1>3, <1>4, <1>7, <1>8 DEF Watching, Right, Named, Tables
<1>10. accounts[id].password # login[p].given => moments'[p].refusable
  <2>1. Named(accounts, login[p].name) = {id}
    BY <1>1, <1>4 DEF Named, NamesUnique
  <2>2. accounts[id].password # login[p].given => Right(login'[p], accounts') = {}
    BY <1>3, <1>7, <2>1 DEF Right, Tables
  <2> QED
    BY <1>8, <2>2 DEF Watching
<1>11. Loaded(p)' /\ Checked(p)'
  BY <1>3, <1>4, <1>7, <1>9, <1>10 DEF Loaded, Checked, Tables
<1>12. login[p].status = 0
  BY <1>1, <1>3 DEF LoginOK, Underway
<1>13. LoginOK(p)'
  BY <1>7, <1>8, <1>11, <1>12 DEF LoginOK, Justified
<1> QED
  BY <1>3, <1>5, <1>6, <1>13, RequestStep

LEMMA NameUnknownKeeps ==
  ASSUME LoginInv, Observe, NEW p \in Logins, NameUnknown(p)
  PROVE  LoginInv'
<1>1. Underway(p) /\ Watching(p)
  BY DEF NameUnknown, LoginInv, LoginOK, Underway
<1>2. moments[p].refusable
  BY <1>1 DEF NameUnknown, Watching, Right
<1> QED
  BY <1>1, <1>2, ThrowKeeps DEF NameUnknown, Tables

LEMMA CheckPasswordKeeps ==
  ASSUME LoginInv, Observe, NEW p \in Logins, CheckPassword(p)
  PROVE  LoginInv'
<1>1. TypeOK /\ LoginOK(p)
  BY DEF LoginInv
<1>2. UNCHANGED Tables /\ login[p].at = "checking" /\ Underway(p)
  BY DEF CheckPassword, Tables, Underway
<1>3. Loaded(p) /\ Checked(p) /\ login[p].status = 0
  BY <1>1, <1>2 DEF LoginOK
<1>4. CASE login[p].hash = login[p].given
  <2> DEFINE l == [login[p] EXCEPT !.at = "reading"]
  <2>1. l \in Requests
    <3>1. login[p].hash \in Passwords /\ "reading" \in Steps /\ 0 \in Statuses
      BY <1>1 DEF TypeOK, Steps, Statuses
    <3>2. NoAccount \in Ids \cup {NoAccount} /\ NoToken \in Token \cup {NoToken}
      OBVIOUS
    <3> QED
      BY <1>1, <3>1, <3>2, RequestIn
  <2>2. login' = [login EXCEPT ![p] = l] /\ login'[p] = l
    BY <1>1, <1>4 DEF CheckPassword, PasswordMatches, TypeOK
  <2>3. /\ login'[p].at = "reading" /\ login'[p].user = login[p].user
        /\ login'[p].hash = login[p].hash /\ login'[p].name = login[p].name
        /\ login'[p].given = login[p].given /\ login'[p].status = 0
    BY <1>1, <1>3, <2>2 DEF TypeOK
  <2> HIDE DEF l
  <2>4. Watching(p)' /\ Grown(p)
    BY <1>1, <1>2, <2>3, Observed DEF Underway
  <2>5. Loaded(p)' /\ Checked(p)'
    BY <1>2, <1>3, <2>3, <2>4 DEF Loaded, Checked, Grown, Tables
  <2>6. LoginOK(p)'
    BY <1>4, <2>3, <2>4, <2>5 DEF LoginOK, Justified
  <2> QED
    BY <1>2, <2>1, <2>2, <2>6, RequestStep
<1>5. CASE login[p].hash # login[p].given
  BY <1>2, <1>3, <1>5, ThrowKeeps DEF CheckPassword, PasswordMatches, Checked
<1> QED
  BY <1>4, <1>5

LEMMA GetRolesKeeps ==
  ASSUME LoginInv, Observe, NEW p \in Logins, GetRoles(p)
  PROVE  LoginInv'
<1>1. TypeOK /\ LoginOK(p)
  BY DEF LoginInv
<1>2. UNCHANGED Tables /\ login[p].at = "reading" /\ Underway(p)
  BY DEF GetRoles, Tables, Underway
<1>3. Watching(p) /\ Loaded(p) /\ login[p].user \in moments[p].right
  BY <1>1, <1>2 DEF LoginOK, Checked
<1> DEFINE u == login[p].user
           token == [id |-> u, name |-> login[p].name, roles |-> roles[u]]
           l == [login[p] EXCEPT !.at = "idle", !.status = 200, !.token = token]
<1>4. u \in Ids
  BY <1>1, <1>3 DEF Loaded, TypeOK
<1>5. l \in Requests
  <2>1. token \in Token /\ 200 \in Statuses /\ "idle" \in Steps
    BY <1>1, <1>4 DEF TypeOK, Token, Statuses, Steps
  <2>2. login[p].hash \in Passwords 
    BY <1>1 DEF TypeOK
  <2>3. NoAccount \in Ids \cup {NoAccount} /\ token \in Token \cup {NoToken}
    BY <2>1
  <2> HIDE DEF token
  <2>4. \A s \in Statuses :
          [login[p] EXCEPT !.at = "idle", !.status = s, !.token = token] \in Requests
    BY <1>1, <2>1, <2>2, <2>3, RequestIn
  <2> QED
    BY <2>1, <2>4
<1>6. login' = [login EXCEPT ![p] = l] /\ login'[p] = l
  <2>1. PICK s, t : /\ s = 200 /\ t = token
                    /\ login' = [login EXCEPT ![p].at = "idle", ![p].status = s,
                                              ![p].token = t]
    BY DEF GetRoles, RolesOfUser
  <2>2. login \in [Logins -> Requests]
    BY <1>1 DEF TypeOK, Requests
  <2>3. login' = [login EXCEPT ![p] =
                    [login[p] EXCEPT !.at = "idle", !.status = s, !.token = t]]
    <3> DEFINE one == [login[p] EXCEPT !.at = "idle"]
               two == [one EXCEPT !.status = s]
               first == [login EXCEPT ![p] = one]
               second == [first EXCEPT ![p] = two]
    <3>1. first[p] = one /\ second[p] = two
      BY <2>2
    <3>2. login' = [second EXCEPT ![p].token = t]
      BY <2>1, <2>2, <3>1
    <3> QED
      BY <2>2, <3>1, <3>2
  <2> HIDE DEF token
  <2>4. login' = [login EXCEPT ![p] = l]
    BY <2>1, <2>3
  <2> HIDE DEF l
  <2> QED
    BY <2>2, <2>4
<1>7. /\ login'[p].at = "idle" /\ login'[p].status = 200
      /\ login'[p].token.id = u /\ login'[p].token.roles = roles[u]
  BY <1>1, <1>6 DEF TypeOK
<1>8. moments'[p] = moments[p]
  BY <1>1, <1>7, Observed DEF Underway
<1>9. roles[u] = {} \/ <<u, roles[u]>> \in moments[p].held
  <2>1. CASE u \in DOMAIN accounts
    BY <1>3, <2>1 DEF Loaded, Watching, Named
  <2>2. CASE u \notin DOMAIN accounts
    BY <1>1, <1>4, <2>2 DEF TypeOK
  <2> QED
    BY <2>1, <2>2
<1> HIDE DEF l, u
<1>10. LoginOK(p)'
  BY <1>3, <1>7, <1>8, <1>9 DEF LoginOK, Underway, Justified, u
<1> QED
  BY <1>2, <1>5, <1>6, <1>10, RequestStep

LEMMA QueryFailsKeeps ==
  ASSUME LoginInv, Observe, NEW p \in Logins, QueryFails(p)
  PROVE  LoginInv'
  BY ThrowKeeps DEF QueryFails, Tables, Underway

-----------------------------------------------------------------------------
(* The steps of the pages.                                                 *)

LEMMA RegisterKeeps ==
  ASSUME LoginInv, Observe, NEW id \in Ids, NEW entry \in Account,
         Register(id, entry)
  PROVE  LoginInv'
<1>1. TypeOK /\ NamesUnique
  BY DEF LoginInv
<1>2. /\ DOMAIN accounts' = DOMAIN accounts \cup {id}
      /\ accounts'[id] = entry
      /\ \A i \in DOMAIN accounts : i # id => accounts'[i] = accounts[i]
  BY DEF Register, With
<1>3. id \notin used /\ used' = used \cup {id} /\ Named(accounts, entry.name) = {}
      /\ UNCHANGED <<roles, login>>
  BY DEF Register
<1>4. AccountsKept
  BY <1>1, <1>2, <1>3 DEF AccountsKept, TypeOK
<1>5. NamesUnique'
  BY <1>1, <1>2, <1>3 DEF NamesUnique, Named
<1>6. /\ DOMAIN accounts' \subseteq used' /\ used' \in SUBSET Ids
      /\ \A i \in DOMAIN accounts' : accounts'[i] \in Account
      /\ roles' \in [Ids -> SUBSET Roles]
      /\ \A i \in Ids \ DOMAIN accounts' : roles'[i] = {}
  BY <1>1, <1>2, <1>3 DEF TypeOK
<1> QED
  BY <1>3, <1>4, <1>5, <1>6, PageStep

LEMMA DeleteAccountKeeps ==
  ASSUME LoginInv, Observe, NEW id \in Ids, DeleteAccount(id)
  PROVE  LoginInv'
<1>1. TypeOK /\ NamesUnique
  BY DEF LoginInv
<1>2. /\ DOMAIN accounts' = DOMAIN accounts \ {id}
      /\ \A i \in DOMAIN accounts : i # id => accounts'[i] = accounts[i]
  BY DEF DeleteAccount, Without
<1>3. roles' = [roles EXCEPT ![id] = {}] /\ UNCHANGED <<used, login>>
  BY DEF DeleteAccount
<1>4. AccountsKept
  BY <1>2, <1>3 DEF AccountsKept
<1>5. NamesUnique'
  BY <1>1, <1>2 DEF NamesUnique
<1>6. /\ DOMAIN accounts' \subseteq used' /\ used' \in SUBSET Ids
      /\ \A i \in DOMAIN accounts' : accounts'[i] \in Account
      /\ roles' \in [Ids -> SUBSET Roles]
      /\ \A i \in Ids \ DOMAIN accounts' : roles'[i] = {}
  BY <1>1, <1>2, <1>3 DEF TypeOK
<1> QED
  BY <1>3, <1>4, <1>5, <1>6, PageStep

LEMMA ChangePasswordKeeps ==
  ASSUME LoginInv, Observe, NEW id \in Ids, NEW password \in Passwords,
         ChangePassword(id, password)
  PROVE  LoginInv'
<1>1. TypeOK /\ NamesUnique
  BY DEF LoginInv
<1> DEFINE entry == [accounts[id] EXCEPT !.password = password]
<1>2. id \in DOMAIN accounts /\ accounts[id] \in Account
  BY <1>1 DEF ChangePassword, TypeOK
<1>3. entry \in Account /\ entry.name = accounts[id].name
  BY <1>2 DEF Account
<1>4. /\ DOMAIN accounts' = DOMAIN accounts
      /\ accounts'[id] = entry
      /\ \A i \in DOMAIN accounts : i # id => accounts'[i] = accounts[i]
  BY <1>2 DEF ChangePassword, With
<1>5. UNCHANGED <<roles, used, login>>
  BY DEF ChangePassword
<1> HIDE DEF entry
<1>6. \A i \in DOMAIN accounts : accounts'[i].name = accounts[i].name
  BY <1>3, <1>4
<1>7. AccountsKept
  BY <1>4, <1>5, <1>6 DEF AccountsKept
<1>8. NamesUnique'
  BY <1>1, <1>4, <1>6 DEF NamesUnique
<1>9. /\ DOMAIN accounts' \subseteq used' /\ used' \in SUBSET Ids
      /\ \A i \in DOMAIN accounts' : accounts'[i] \in Account
      /\ roles' \in [Ids -> SUBSET Roles]
      /\ \A i \in Ids \ DOMAIN accounts' : roles'[i] = {}
  BY <1>1, <1>3, <1>4, <1>5 DEF TypeOK
<1> QED
  BY <1>5, <1>7, <1>8, <1>9, PageStep

LEMMA AssignRolesKeeps ==
  ASSUME LoginInv, Observe, NEW id \in Ids, NEW held \in SUBSET Roles,
         AssignRoles(id, held)
  PROVE  LoginInv'
<1>1. TypeOK /\ NamesUnique
  BY DEF LoginInv
<1>2. /\ id \in DOMAIN accounts /\ roles' = [roles EXCEPT ![id] = held]
      /\ UNCHANGED <<accounts, used, login>>
  BY DEF AssignRoles
<1>3. AccountsKept /\ NamesUnique'
  BY <1>1, <1>2 DEF AccountsKept, NamesUnique, TypeOK
<1>4. /\ DOMAIN accounts' \subseteq used' /\ used' \in SUBSET Ids
      /\ \A i \in DOMAIN accounts' : accounts'[i] \in Account
      /\ roles' \in [Ids -> SUBSET Roles]
      /\ \A i \in Ids \ DOMAIN accounts' : roles'[i] = {}
  BY <1>1, <1>2 DEF TypeOK
<1> QED
  BY <1>2, <1>3, <1>4, PageStep

-----------------------------------------------------------------------------
LEMMA StepLogin == LoginInv /\ [Next]_vars => LoginInv'
<1> SUFFICES ASSUME LoginInv, [Next]_vars
             PROVE  LoginInv'
  OBVIOUS
<1>1. CASE Next
  BY <1>1, PostKeeps, FindByNameKeeps, NameUnknownKeeps, CheckPasswordKeeps,
     GetRolesKeeps, QueryFailsKeeps, RegisterKeeps, DeleteAccountKeeps,
     ChangePasswordKeeps, AssignRolesKeeps
     DEF Next, LoginStep
<1>2. CASE UNCHANGED vars
  BY <1>2 DEF vars, LoginInv, TypeOK, NamesUnique, LoginOK, Underway, Watching,
              Right, Named, Loaded, Checked, Justified
<1> QED
  BY <1>1, <1>2

LEMMA LoginInvariant == Spec => []LoginInv
  BY InitLogin, StepLogin, PTL DEF Spec

(* Every reachable state is well typed; in particular no roles are left of  *)
(* an account that was deleted.                                            *)
THEOREM LoginTypeCorrect == Spec => []TypeOK
  BY LoginInvariant, PTL DEF LoginInv

(* The password of a login that succeeds was the password of the account    *)
(* its token names.                                                        *)
THEOREM TokensAreEarned == Spec => []PasswordWasRight
<1>1. LoginInv => PasswordWasRight
  BY DEF LoginInv, LoginOK, Justified, PasswordWasRight
<1> QED
  BY <1>1, LoginInvariant, PTL

(* The roles in a token were held together by the account it names.        *)
THEOREM TokenRolesWereHeld == Spec => []RolesWereHeld
<1>1. LoginInv => RolesWereHeld
  BY DEF LoginInv, LoginOK, Justified, RolesWereHeld
<1> QED
  BY <1>1, LoginInvariant, PTL

(* Nobody who bore the name and knew its password throughout the login is   *)
(* told that they do not match.                                            *)
THEOREM RefusalsHaveCause == Spec => []RefusedForCause
<1>1. LoginInv => RefusedForCause
  BY DEF LoginInv, LoginOK, Justified, RefusedForCause
<1> QED
  BY <1>1, LoginInvariant, PTL
=============================================================================
