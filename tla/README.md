# SmartLock: a TLA+ model

SmartLock opens doors.  Employees ask for access through an HTTP API, or hold a
tag with a token to a lock that speaks MQTT; an Orleans grain per lock decides
from the roles in the token, remembers every decision and saves the history to
SQL Server in the background.  This directory models that program, checks it
with TLC and proves what matters most with TLAPS.

## Inventory

| Component | State | Operations | Talks to |
|---|---|---|---|
| Lock grain (`LockGrain.cs`, `GrainBase.cs`) | `_lock` with its roles, `_lockAccesses` | activate, `RequestAccessAsync`, timer `SaveLockAccessAsync`, end of activation | database, MQTT server |
| Database (`Initial.cs`, entities, configurations) | tables Locks, LockEntityRoleEntity, LockAccesses, AspNetUsers, AspNetRoles | queries, one transaction per `SaveChanges`, deletes with cascades | everybody |
| MQTT gateway (`MqttHostedService.cs`) | sessions of the server, calls under way | validate a connection, intercept a publish, inject a result | grain, devices |
| Locks API (`LocksController.cs`, `LockService.cs`) | none, one request at a time | `PostAccessAsync`, `GetHistoryAsync` | grain, database |
| Login (`UserService.cs`, `JwtTokenGenerator.cs`, `UsersController.cs`) | none; tokens carry roles and an expiry | `GetJwtTokenAsync` | identity tables |
| Exception mapping (`ApiExceptionHandlingMiddleware.cs`, `LoggingCallFilter.cs`) | none | 400 for a `DomainException`, 500 otherwise | API callers |
| Start-up (`Program.cs`, `DbMigrationManager.cs`, `DbDataSeeder.cs`) | schema, seeded rows | migrate, seed, run | database |
| Client-side form validation (`jquery.validate.unobtrusive.js` on `jquery.validate.js`) | rules, marks, messages, verdicts of a form | parse, focus, keys, blur, submit, reset | the user, the server that renders the form |
| Registration, pages, Swagger | none | | |

The program's own logic is its C# code.  The validation scripts are third-party
and came with the project template: the partial that loads them
(`Pages/Shared/_ValidationScriptsPartial.cshtml`) is included by no page of the
repository, but is the one the identity pages look for.  They are the largest
state machine that runs in a browser here, and every account goes through such
forms.

What is hard, and where:

* **The timer and the calls of one grain interleave.**  A timer callback is not
  queued behind calls; while it awaits `SaveChangesAsync` requests run and extend
  the list it has counted (`LockGrain.cs:61-68`).  Correct means: nothing is lost
  or repeated by cutting the list, and saved history has no gaps.
* **Saves fail.**  Rejected by a foreign key, failed before the commit, or
  committed with the answer lost.  The list must survive the first two, and only
  the third may duplicate rows.
* **Activations end.**  Idle collection, shutdown and crash all drop the list.
* **The cache ages.**  Roles are read once per activation; locks are found by the
  database's string comparison, so that one lock may have several activations.
* **Deletions race with saves.**  Accounts and roles are deleted while history
  that names them waits in a list.
* **Messages.**  The gateway does not await the grain and the grain does not await
  the gateway: failures are unobserved, results name no request.
* **Paging without an order, 32-bit offsets.**  `LockService.cs:22`.
* **A cluster.**  The grain of a lock and the session of its device may be on
  different hosts.
* **A login is three awaited reads.**  Accounts change between them.
* **Several hosts start at once** on one database, each checking before acting.
* **Old copies meet.**  A token holds a copy of the roles of an account, an
  activation a copy of the roles of a lock; the API looks at the expiry of the
  token once, before the grain has its turn, and the gateway never does.
* **A call times out while it is under way.**  The caller is told of a failure,
  the grain decides all the same.
* **A message beside a field depends on another field** (`equalto`), and which
  event checks a field depends on what was found before.  Two scripts keep marks
  and messages of the same inputs.

`PROJECT.json` lists the hazards at their lines, with the properties that cover
them.

## Plan

| # | Modules | Models | State |
|---|---|---|---|
| 1 | `AccessLog`, `LockGrain`, `LockGrainProofs` | the core: the grain with its database, and the abstract log it implements | checked, proved |
| 2 | `PreparedDatabase`, `Startup`, `StartupProofs` | hosts that migrate and seed one database, fail and start again, and the abstract preparation they implement | checked, proved |
| 3 | `HistoryPaging`, `PagingProofs` | the history endpoint: clamping, 32-bit offset, pages of a query without order, against a reference and a reader of all pages | checked, proved |
| 4 | `Login`, `LoginProofs` | the three awaited reads of a login against changes of the account | checked, proved |
| 5 | `AccessPromise`, `DoorAccess`, `DoorProofs` | gateway, API and results in a cluster of hosts, and the abstract promise they implement; what a grain decides is left open | checked, proved |
| 6 | `Access`, `AccessProofs` | composes 1 with accounts, tokens and requests: tokens that expire (at the API) or not (at the gateway), and the grain's cache; how old the copies are that meet | checked, proved |
| 7 | `FormValidation`, `FormProofs` | a form in the browser: adapters, events, submission, reset, reload | checked, proved |

`LockGrain` implements `AccessLog`, `Startup` implements `PreparedDatabase`, and
`DoorAccess` implements `AccessPromise`.

What is left: what a device may conclude from results that name no request (nothing
in the repository says), the handlers that `StopAsync` removes while connections
are still open, and the other adapters of the validation script.

## LockGrain

The state of the grains of a set of `Keys` (the strings grains are called with)
and of the tables they use.

| Variable | Code |
|---|---|
| `cached[k]` | `_lock` with `RolesAccesses`, read by `OnActivateAsync` |
| `buffer[k]` | `_lockAccesses` |
| `flush[k]`, `count[k]` | where `SaveLockAccessAsync` is, and its local `count`; `"committed"` lies between the database's commit and the return of the `await` |
| `phase[k]` | the activation's life cycle, run by Orleans |
| `users`, `lockRoles`, `rows` | AspNetUsers, LockEntityRoleEntity, LockAccesses (number of rows per decision) |
| `answer`, `notices` | the returned result and what was handed to `SendMessageAsync` |
| `decisions`, `saved`, `lost`, `lostAcks` | history variables: all entries ever recorded, those some transaction committed, those dropped unsaved, commits that looked like failures |

A decision is named by its position in `decisions`, so lists and tables hold
numbers and the order of acceptance is the order of numbers.

| Action | Code |
|---|---|
| `Activate`, `Activated`, `ActivateFailed` | `OnActivateAsync`: the query is one step, the return of its `await` another |
| `RequestUnknownLock`, `Decide` | `RequestAccessAsync` with a null and a found `_lock`; one step, because nothing is awaited |
| `TimerTick` | `SaveLockAccessAsync` up to the `await` |
| `SaveCommit`, `SaveReject`, `SaveFail` | the transaction commits, violates a foreign key, or fails |
| `SaveReturn`, `AckLost` | the `await` returns and the list is cut, or the answer is lost |
| `Deactivate`, `Deactivated`, `Crash` | end of an activation: graceful in two steps (a running callback is awaited), or all at once for any set of keys |
| `DeleteRole`, `DeleteUser` | the identity and role pages, with the cascades of `Initial.cs` |

Assumed of Orleans: a grain runs one turn at a time; calls wait for each other and
for the activation; timer callbacks interleave with calls at awaits; the next tick
follows the end of a callback; an exception is logged and the timer goes on; a
graceful deactivation awaits the running callback.  Assumed of Entity Framework:
one `SaveChanges` is one transaction, and entities of a failed one are inserted
anew.  Left out: access dates, names, logging, a role that is renamed (no code of
the repository does), and duplicate activations of one key.

`AccessLog` is what the history promises without timers and transactions: keys
accept decisions, the oldest pending ones are stored, memory of some keys is
dropped.  `LockGrain!Log` maps `accepted` to the recorded decisions by key, and
`stored` and `lost` to `saved` and `lost`.

## Startup

Each host goes through `pc`: `checking` (the host's own look at the migrations),
`reading` (the second look, inside `MigrateAsync`), `migrating`, `finding` (are
there locks?), `seeding`, `running`; an exception takes it `down`, because
`Wait()` passes it on to `Program`.  `next` is the migration a host applies next,
`applied` how far the schema is, `seeds` how often the default data was
committed, `people` the deletable part of it.

| Action | Code |
|---|---|
| `CheckMigrations`, `ReadApplied`, `Migrate` | `DbMigrationManager.cs:27-35`; one transaction per migration |
| `MigrateCollides`, `MigrateFails` | the catch block, `:37-42`: another host was first, or the database failed |
| `CheckLocks`, `Seed`, `SeedCollides`, `SeedFails` | `DbDataSeeder.cs:19-31`; one transaction, whose keys are the constants of `DefaultData` |
| `Start`, `Stop`, `DeletePerson` | the platform, and the identity pages of a running host |

`PreparedDatabase` says what is promised apart from checks, races and failures: the
migrations are applied in order, none twice, then the default data is filled in once
by a host that from there on serves, and only then does any host serve.
`Startup!Prepared` maps `version` to `applied`, `filled` to `seeds > 0` and `serving`
to the hosts that run.

The table of applied migrations exists (two hosts that create it would be one
more collision of the same kind).  The repository has one migration; the runs have
two, because a schema half way is the interesting case.

## HistoryPaging

`table` holds the rows of LockAccesses; `last` is the last single request with its
reply; `walk` a client that takes page after page until one is not full.  Requests
share nothing but the table, so the model looks at one reader at a time.
`GetHistory` is `LocksController.GetHistoryAsync` with
`LockService.GetLockAccessesAsync`: `AcceptedPage` and `AcceptedSize` are the two
`if`s, `Offset` the 32-bit product, `Selections` what `Where`, `Skip` and `Take`
may select without an order, `RepliesTo` the status.  `Insert` and `Delete` are the
grain's saves and the cascade of a deleted account.  `RepeatsTellGaps` says
how far a client can help itself against the missing order: what it was given twice
tells it that it missed something.  Whether the database really
orders two pages differently is its business (with small tables it seldom does);
the code gives it leave, so the model allows every choice.

## Login

`login[p]` is one request: its step, the posted name and password, the entity it
has loaded (`user`, `hash`) and its reply.  `accounts` and `roles` are the tables;
`used` says that ids are never reused, while a name may be, after its account was
deleted.  `FindByName`, `CheckPassword` and `GetRoles` are the three awaited calls
of `UserService.cs:20-34`; `StatusOf` is `ApiExceptionHandlingMiddleware`.
`Register`, `DeleteAccount`, `ChangePassword` and `AssignRoles` are the pages of the
identity packages; a login may lose any race with them.  `moments` is a history
variable: what has been true of the posted name since the request came.  Passwords
are compared by value; hashing is left out.  Sets of roles change at once, although
the role page may take several transactions: `RolesWereHeld` speaks of sets that
stood together in the table at one moment.

## DoorAccess

`requests` are all requests so far, by message and by HTTP.  `session` and
`topics` are the MQTT sessions and subscriptions, `place` says on which host each
lock's grain is activated.

| Action | Code |
|---|---|
| `Connect`, `Subscribe`, `Disconnect` | the handlers of `MqttHostedService` and MQTTnet's sessions |
| `Publish` | `HandleInterceptingPublishAsync`: a client id that is no Guid, or a payload that cannot be read, makes no call |
| `Post`, `Reply`, `ReplyFails` | `LocksController.PostAccessAsync` up to its `await` and after it |
| `Place`, `Collect` | Orleans |
| `Decide`, `DecideUnknown`, `CallFails` | `LockGrain.RequestAccessAsync`, seen from outside: the answer, and the result that is sent without awaiting it |
| `Inject` | `SendMessageAsync`, which reaches the sessions of its own host |
| `Crash` | a host dies with its sessions, activations, pending results and HTTP connections |

`ReplyFails` is a timeout or a lost answer.  It may come before the decision, which
the grain then takes all the same: Orleans gives up the wait, not the call.

`AccessPromise` says what is promised apart from hosts, messages and sessions: a
request is decided at most once, and its caller is told once, after the decision
and in its words, or that the request failed.  `DoorAccess!Promise` maps a request
that is over without an answer to "never", and any reply but a 200 to "failed".

`owed` is a history: the clients that have listened to the lock, without a break,
since the decision and have not heard of it.  Left out: messages that clients
publish to each other, one client id on two hosts at once, removal of the handlers
in `StopAsync`, and what the decision depends on (`LockGrain`).  Two spellings of one
id, which make two activations, are in `LockGrain` too.

## Access

`Access` extends `LockGrain` with the clock `now`, the roles of accounts `held`, the
tokens kept in places (`token`), requests under way (`call`) and the history
`revoked`, which says when an account last lost a role.

| Action | Code |
|---|---|
| `Issue` | the last step of `GetJwtTokenAsync` with `GenerateJwtToken`: the roles the account has now, and an expiry (`Login` has the steps before it) |
| `PostAccess` | the middleware, which looks at the expiry, and `PostAccessAsync` up to its `await` |
| `Publish` | `HandleInterceptingPublishAsync`, which reads the claims and looks at nothing else |
| `Answer` | the turn of the grain: `LockGrain!Decide` with the claims of the token, or `RequestUnknownLock` |
| `CallFails` | the call, or its activation, fails |
| `AssignRoles`, `RemoveAccount`, `RemoveRole` | the identity and role pages, with the rows of AspNetUserRoles that go along |
| `Tick` | a day goes by, up to `MaxTime` |
| `GrainStep` | what the grains do on their own, as in `LockGrain` |

The body of a post must name an employee, a message names none (`Employees`).  The
clock skew is the middleware's default, because `TokenValidationParameters` sets
none.  `ExpireDays` is 0 in the repository's `appsettings.json`: with that value a
token lives for the skew only.  Of the permission filter in front of the API the
model has nothing: it adds refusals, and no property is about those.  A token that
is shown at a lock opens it however old it is, and nothing in the repository
promises otherwise: `GrantsEndAfterRevocation` speaks of the API.

## FormValidation

One form: `value`, `defaults`, `focus` and `lastActive` are the page's;
`rules`, `submitted`, `invalid` and `bound` the validator's (`settings.rules`,
`submitted`, `invalid`, and the `blur` handlers `equalTo` binds to its target);
`marked`, `message` and `summary` are what the user sees.  `checked` is a history:
the fields checked since the page came or was reset.

| Action | Code |
|---|---|
| `Ready` | `$(document).ready`: `parse`, with `ParseElement` for each field, and `attachValidation` |
| `Enter`, `Change`, `Leave` | `onfocusin`, `onkeyup` (also of the tab key), `onfocusout` and the bound `blur`; a change without keys is seen by nobody until the field is left |
| `Submit`, `SubmitRefused` | `form()`, with `onErrors` and `focusInvalid` when a field is wrong |
| `Reset` | `onReset` with `resetForm` |
| `SubmitEarly`, `Reload` | a submission before the scripts are there, and the page that comes back from the server with its own messages |

`Check` is `check` with `defaultShowErrors`, `onError` and `onSuccess`: marks,
messages and remembered names for a set of fields.  As the code has it, a reset
leaves the texts of messages and only takes their class away, and only a refused
submission refreshes the summary.  Which of several wrong fields `focusInvalid`
goes to, if the last active one is right, is left open.

`equalTo` binds the blur of a target once, to the first field whose check gets that far
(`Bound`; which one comes first in a check of several fields is the order of the page,
and is left open).  Its comment says more: "Bind to the blur event of the target in
order to revalidate whenever the target field is updated" (`jquery.validate.js:1491`).
Of two fields compared with one target only the first is checked again, the other one
keeps an old message or lacks a new one until it is left, corrected or submitted itself.
`MessagesAreCurrent` therefore speaks of a checked field unless the blur of its target
is bound to another one (`Heeded`); the run and the theorems have forms with several
repetitions of one field.  What is submitted is right all the same: `SentIfRight` has no
exception.

## Runs

| Run | Bounds | Shows |
|---|---|---|
| `grain_deep` | a key with a lock and one without, 1 account, 3 decisions, 1 lost answer per key | `TypeOK`, `NothingForgotten`, `DuplicatesOnlyFromLostAcks`, `ListHoldsOnlyBacklog`, `ImplementsLog` |
| `grain_live` | 1 key, 2 accounts, 2 decisions, 1 lost answer, fair | `NoGapsInHistory`, `HistoryKeptWithRequester`, `CacheCoversStore`, `WriteBehindProgress`, `RejectedStays` |
| `grain_poison` | 1 key, 2 user ids of which one has an account, 2 decisions, fair | finding: `HistoryEventuallySaved` (README.md:17) does not hold |
| `grain_shutdown` | 1 key, 1 decision | finding: `GracefulStopKeepsHistory` (README.md:18) does not hold |
| `startup` | 3 hosts, 2 migrations, 1 failure, fair | `TypeOK`, `RunningOnReadyDatabase`, `SeededOnce`, `FirstStartSucceeds`, `RestartSucceeds`, `ImplementsPreparation` |
| `paging` | 5-bit ints, all 32 page numbers, sizes 1 to 4, 5 rows of 2 locks, readers with sizes 2 and 3 | `TypeOK`, `PageIsReference`, `WalkCountsHistory`, `RepeatsTellGaps` |
| `paging_order` | 5 rows of 2 locks, readers with sizes 2 and 3 | finding: `WalkSeesHistory` (LocksController.cs:47) does not hold |
| `login` | 1 login, 2 account ids for 1 name, 2 passwords, 2 roles | `TypeOK`, `PasswordWasRight`, `RolesWereHeld`, `RefusedForCause` |
| `door` | 2 hosts, 1 lock and an unknown id, a device and callers of the API, 2 requests, fair | `TypeOK`, `ListenersHear`, `RepliesAreDecisions`, `ImplementsPromise`, `EveryRequestEnds` |
| `door_opens` | 2 hosts, a device, 1 request | finding: `GrantOpensDoor` (LocksController.cs:19, 28) does not hold |
| `access` | 1 key, account, role, place of a token and request, 1 decision, tokens that live 1 with skew 1, clock up to 3 | `AccessTypeOK`, `GrantsEndAfterRevocation`, `DenialsAreJustified` |
| `forms` | an optional address, a repetition of a length, a required repetition; 3 values, one of them an address and long enough | `TypeOK`, `MessagesAreCurrent`, `MarksMatchMessages`, `SentIfRight` |

Two remarks of the API's documentation are not findings, because no run is needed to
see them: the 204 "When no data found" (`LocksController.cs:50`) is never sent, an
empty list is a 200; and a denied request is a 200 as well, whose body says so
(`LocksController.cs:28` says "Access granted").

Why these bounds.  Three decisions are enough for the interesting case of the
list: one in the batch, one appended while the batch is written, one appended to
what a failed save left behind.  Grains share nothing but the tables, so that one
or two keys are enough.  No run has several spellings of one lock id, which make several
activations of one lock: with two accounts and two decisions the instance is too large.
The theorems cover that case, they hold for every assignment of keys to locks
(`CacheIsCovering`, `HistoryHasNoGaps`).  Two migrations and three hosts have a schema half way, a host that is
behind and one that is ahead.  Five-bit ints with sizes 2 to 3 stand for 32 bits
with 10 to 100: page numbers overflow to negative and to small offsets alike.
Logins share nothing but the tables, so that one is enough, and the second account
is the one that takes the name.  Two requests are one under way while another is
decided.  A lifetime and a skew of 1 with a clock up to 3 have the moment at which
a token is just good and the one at which it no longer is, after a role was lost
at each moment before; one request may be overtaken by any number of changes.
Three fields have each kind the script treats differently: one that may be empty and
that others depend on, and two that depend on it, of which either may be the first; each
of these has a rule of its own besides, so that it can be wrong before it is compared.  The bounds in
guards are `MaxDecisions` (`Decide` of `LockGrain`), `MaxLostAcks` (`AckLost`;
without it a save could fail after every commit for ever), `MaxFaults`
(`MigrateFails`, `SeedFails`), `MaxRequests` (`Post`, `Publish`) and `MaxTime`
(`Tick`).  No run disables the deadlock check.

Fairness.  `LockGrain!FairSpec`: the timer ticks (weak fairness of `TimerTick`), an
awaited save that is rejected or committed returns (`SaveReject`, `SaveReturn`), a
deactivation with nothing to wait for completes (`Deactivated`), and a save that is
possible again and again succeeds in the end (strong fairness of `SaveCommit`: the
database is not down for ever).  `Startup!FairSpec`: a host that has begun goes on,
because nothing in its start-up waits for anybody.  `DoorAccess!FairSpec`: a grain
call ends, because Orleans times it out; a caller has a reply or a timeout; and
injections end.  `Access` and `FormValidation` assume none: nobody must
show a token, and users may leave a form as it is.  Nothing
makes users send requests, Orleans activate or collect, hosts start, or processes
crash.

## Proofs

`LockGrainProofs` proves, for all values of the constants that satisfy
`GrainAssumption`, `Spec => []TypeOK`, `[]NothingForgotten`, `[]NoGapsInHistory`,
`[]DuplicatesOnlyFromLostAcks`, `[]HistoryKeptWithRequester`, `[]CacheCoversStore`,
`[]ListHoldsOnlyBacklog`, the action property `RejectedStays` and the refinement
`Spec => Log!Spec`.

None of the history properties is inductive alone.  The argument runs in three
layers, each using the ones before it:

* `TypeInv`: the types, and `CountInList` - a running save has counted an initial
  part of the list, because between the count and the cut the list only grows.
* `LedgerInv`: lists hold only decisions of their own grain (`ListsOwned`) in
  increasing order (`ListsIncrease`); saved and lost exclude each other
  (`SavedOrLostOnce`); what was committed but not yet cut is saved
  (`CommittedIsSaved`).  With these, cutting the batch forgets nothing, and a
  committed batch, being the oldest part of the list, leaves no gap.
* `TableInv`: `WaitingCopies` - a waiting decision has at most as many rows as its
  grain lost answers, unless it is in a batch whose answer is under way.

The steps are grouped by what they do to the lists (`StepKinds`): record, commit,
cut, forget, or quiet.  Lemmas about sequences (append, batch, rest) are stated
once, before the invariants.  The refinement maps recording to `Accept`, a commit
to `Store` (or to a stutter, when a retry rewrites what is stored), the end of
activations to `Drop`.

`ListIsBacklog` needs one more invariant, `SavedIsAnswered`: a saved entry that is
still in a list is in the batch being answered, unless its grain lost an answer.
`RejectedEntriesStay` rests on two facts: what is rejected once is rejected for good,
because ids of accounts are not used again (`RejectedForGood`), and an unsaved entry
leaves its list only by a commit of a batch with it or with its activation
(`UnsavedMoves`).

`StartupProofs` proves `[]TypeOK`, `[]RunningOnReadyDatabase` and `[]SeededOnce` for
every number of hosts, migrations and failures.  `PlaceInv` says what the place of
a host means for the database: past `migrating` the schema is whole, while serving
the data is there, and no host is about to skip a migration.  It is inductive
because the database never goes back.  With it, `HostsPrepareDatabase` proves the
refinement `Spec => Prepared!Spec`: a commit of a migration is an `Upgrade`, a commit
of the default data a `Fill`, a check that finds locks a `Serve`; checks, collisions
and failures are stutters or, of a host that served, a `Leave`.

`LoginProofs` proves `[]TypeOK`, `[]PasswordWasRight`, `[]RolesWereHeld` and
`[]RefusedForCause` for every number of logins, accounts, names and roles.  The
invariant says of a request under way that it has seen what is true now
(`Watching`), that what it loaded is an account which, if it still exists, still
has the name (`Loaded`: ids are not reused and names of accounts do not change),
and what the loaded password says of the moments so far (`Checked`).  A refusal
for a wrong password needs `NamesUnique`, the index of the table.  One lemma shows
that a request which does not move is none the worse for what others do
(`StillOK`); the steps of the requests and of the pages then are one lemma each.

`DoorProofs` proves `[]TypeOK`, `[]RepliesAreDecisions` and `[]ListenersHear` for
every number of hosts, locks, clients and requests.  `Sound` is what holds of a
single request: before the decision nothing is owed; who is owed something is
connected and subscribed, so that an injection passes over clients of other hosts
only.  The steps that touch one request are reduced to it by `OneRequest`, new
requests by `NewRequestKeeps`, and the steps that cut sessions by `LeaveKeeps`: a
host that dies takes with it exactly the sessions its unsent results were for.

`DoorKeepsPromise` proves the refinement `Spec => Promise!Spec`.  `Sound` says that a
request has an answer from the moment its result is on its way, so that no step
gives it a second one; every other step is one `GoOn` of the requests it touches.
`RequestsAdvance` is about the same requests and says what each step of one brings
nearer (see below).

`AccessProofs` proves `[]AccessTypeOK`, and that the composition simulates the grains
(`AccessUsesGrains`): every step of `Access` is a step of `LockGrain` or leaves the
grains alone, so that `CacheCoversStore`, proved there, holds here, and so does what
is proved of the history (`AccessKeepsHistory`).
`DenialsHaveCause` follows from it, with the fact that the cache of an activation is of
its lock.  `RevocationsTakeEffect` needs `AgeInv`: each role in a token is still held,
or was lost at most a lifetime before the token expires, and what the API let pass
was at most the skew past its expiry then.  That survives revocations because they
are stamped with the present (`HeldStays`, `LossKeepsAge`).

`PagingProofs` proves `[]TypeOK` and `[]PageIsReference` for every width of ints, and
`[]WalkCountsHistory` and `[]RepeatsTellGaps` for tables whose rows can be counted in
an int (`RowsFit`: with more, the offsets of the last pages overflow).  `TakenIsReference` shows that what
`Skip` and `Take` leave is what a division into pages has, by the cardinality of
intervals.  `WalkInv` says that a reader who goes on has counted whole pages only, and
`SeenInv` that what a reader has seen of a table that has not changed is in it: at
the end as many rows are counted as there are, so that a row given twice is another
one not given.

`FormProofs` proves `[]TypeOK`, `[]MarksMatchMessages`, `[]MessagesAreCurrent` and
`SentIfRight` for every form of the modelled kinds.  First, what the rules of a field
find broken is what its attributes ask (`BrokenOfOwn`, `BrokenOfRight`).  Then
`FormInv`: while the user is in a field, the messages of that field and of the one
that repeats it may be out of date (`InDoubt`), and of a second repetition, to which the
blur is not bound, always (`Heeded` leaves it out); no others.  That leaving the field
settles them takes two more conjuncts: errors are remembered in `submitted`
(`ErrorsRemembered`: a field that was wrong is checked again even if it is empty now),
and a repetition whose target is not bound yet was wrong by itself
(`UnboundAreWrong`), so that its message is right whatever the target says.
`OneRepetitionSuffices` is the corollary for forms that repeat no field twice
(`RepeatedOnce`): there a bound blur is bound to the only repetition, and what every
checked field shows is current, without exception.

Liveness itself is out of the prover's reach: it knows neither `ENABLED` nor the
induction over steps that fairness arguments need.  So `WriteBehindProgress`,
`FirstStartSucceeds`, `RestartSucceeds` and `EveryRequestEnds` are model-checked, and
what is proved is the other half of each argument, the part a larger instance could
break: that every step by the fair actions brings the goal nearer and no other step
takes it away again.

| Liveness, by TLC | Proved of every step, for all constants |
|---|---|
| `WriteBehindProgress` | `ListsStayServed`: a list with entries is that of an activation with its row.  `WaitingAdvances`: who waits goes on waiting, in the batch of the next save, until saved or lost with the activation |
| `FirstStartSucceeds` | `FirstStartsAdvance`: a host that no migration has overtaken (`Contender`) stays one and its `Rank` falls with each of its steps, until another one takes the database forward, and is the contender then, or a host serves |
| `RestartSucceeds` | `RestartsAdvance`: on a prepared database a host that has begun is one or two of its own steps from serving, and nobody changes that |
| `EveryRequestEnds` | `RequestsAdvance`: requests are not lost, their `Stage` falls with each step of grain and injection and never rises, a reply is there after `Reply` and `ReplyFails`, and stays |

Every other property of the passing runs is also a theorem.

## Not modelled

The signature of tokens (tokens are the ones the program issued), and the
permission filter in front of the API.  Requests that cannot be bound: a 400 for a
body that is not valid (`LocksController.cs:37`) reaches no grain, a 400 for a page or a
size that is no int reads no row.  The order of decisions and results at a device, and how much memory a
list takes that grows while saves fail (`ListHoldsOnlyBacklog` says what is in it).
Handlers that `StopAsync` removes, messages clients publish to each other, a client that
unsubscribes and stays (in `DoorAccess` it ends a subscription by leaving), and an
exception of the injection nobody awaits (`Inject` does not fail but by a crash).
The roles query and the expiry of a token are one step (`Access!Issue`); `Login` has
the awaits before.  Of the validation script: the adapters `remote`,
`regex`, `range`, `password`, `fileextensions` and `creditcard`, rules read from plain
HTML attributes and classes, check boxes and radio buttons, hidden and disabled fields,
elements parsed later, changes without events, and a reset before the scripts are
ready.  Registration of services, Swagger, Razor
pages and styles keep no state of their own; the identity and role pages come from
packages and appear as steps of the environment.
