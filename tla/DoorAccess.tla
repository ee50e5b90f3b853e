----------------------------- MODULE DoorAccess -----------------------------
(***************************************************************************)
(* The two ways to a lock and the one way back.  A tag is held to a lock    *)
(* device, which publishes the token; the gateway calls the grain without   *)
(* awaiting it.  A colleague posts a request to the API, which awaits the   *)
(* grain.  The grain may live on any host of the cluster.  It answers its   *)
(* caller, and hands the result, without awaiting, to the MQTT server of    *)
(* its own host, which passes it to the sessions there that listen to the   *)
(* topic of the lock.                                                      *)
(*                                                                         *)
(* What a grain decides is left open here; LockGrain settles it.  Requests  *)
(* the identity pages or the filters refuse (401, 403) reach no grain.      *)
(***************************************************************************)
EXTENDS Naturals, Sequences, FiniteSets

CONSTANTS
  Hosts,
  NoHost,
  Locks,        \* ids of the rows of table Locks: also the topics
  NoLock,       \* an id that is no row
  Clients,      \* MQTT client ids
  NotGuid,      \* a client id that does not parse
  LockOf,       \* what the client id names: a row, no row, or not even a Guid
  MaxRequests   \* bound on the requests of a behaviour

ASSUME DoorAssumption ==
  /\ NoHost \notin Hosts
  /\ NoLock \notin Locks
  /\ NotGuid \notin Locks \cup {NoLock}
  /\ LockOf \in [Clients -> Locks \cup {NoLock, NotGuid}]
  /\ MaxRequests \in Nat

VARIABLES
  session,   \* the host each client is connected to
  topics,    \* the topics each client has subscribed to
  place,     \* the host of each lock's activation
  requests   \* all requests so far, oldest first

vars == <<session, topics, place, requests>>

-----------------------------------------------------------------------------
Results == {"Granted", "Denied"}
Answers == Results \cup {"none"}
Nobody == "nobody"

(* What the caller of the API has: nothing yet, a broken connection, or a   *)
(* status.                                                                 *)
Broken == 1
Statuses == {0, Broken, 200, 500}

(* called: on the way to the grain; injecting: decided, its result on the   *)
(* way to the sessions; over.  answer is what the grain returned, reply     *)
(* what an API caller has got.  owed is a history: the clients that listen  *)
(* to the lock since the decision and have not heard of it.                *)
States == {"called", "injecting", "over"}
Request ==
  [from: Clients \cup {Nobody}, lock: Locks \cup {NoLock}, entry: Hosts,
   state: States, host: Hosts \cup {NoHost}, answer: Answers,
   reply: Statuses, said: Answers, owed: SUBSET Clients]

NewRequest(from, lock, entry) ==
  [from |-> from, lock |-> lock, entry |-> entry, state |-> "called",
   host |-> NoHost, answer |-> "none", reply |-> 0, said |-> "none",
   owed |-> {}]

Listeners(l) == {c \in Clients : session[c] # NoHost /\ l \in topics[c]}

Init ==
  /\ session = [c \in Clients |-> NoHost]
  /\ topics = [c \in Clients |-> {}]
  /\ place = [l \in Locks \cup {NoLock} |-> NoHost]
  /\ requests = <<>>

-----------------------------------------------------------------------------
(* Sessions.                                                               *)

(* HandleValidatingConnectionAsync: the user name must be a Guid.  A client *)
(* that connects again takes over from its old session.                    *)
Connect(c, h, userNameIsGuid) ==
  /\ userNameIsGuid
  /\ session[c] = NoHost
  /\ session' = [session EXCEPT ![c] = h]
  /\ UNCHANGED <<topics, place, requests>>

Subscribe(c, l) ==
  /\ session[c] # NoHost
  /\ l \notin topics[c]
  /\ topics' = [topics EXCEPT ![c] = @ \cup {l}]
  /\ UNCHANGED <<session, place, requests>>

(* Who leaves is owed nothing.                                             *)
Forgive(C) ==
  [i \in DOMAIN requests |-> [requests[i] EXCEPT !.owed = @ \ C]]

Leave(C) ==
  /\ session' = [c \in Clients |-> IF c \in C THEN NoHost ELSE session[c]]
  /\ topics' = [c \in Clients |-> IF c \in C THEN {} ELSE topics[c]]

Disconnect(c) ==
  /\ session[c] # NoHost
  /\ Leave({c})
  /\ requests' = Forgive({c})
  /\ UNCHANGED place

-----------------------------------------------------------------------------
(* HandleInterceptingPublishAsync.  The grain is called by the parsed id;   *)
(* the call is not awaited.  A client id that is no Guid, or a payload      *)
(* without a token that can be read, makes no call.  The result that a      *)
(* grain injects passes here, too: its sender is no Guid.                  *)
Publish(c, readable) ==
  /\ session[c] # NoHost
  /\ LockOf[c] # NotGuid
  /\ readable
  /\ Len(requests) < MaxRequests
  /\ requests' = Append(requests, NewRequest(c, LockOf[c], session[c]))
  /\ UNCHANGED <<session, topics, place>>

(* PostAccessAsync, up to the await; and a handler that does not await.    *)
PostWithoutAwait(l, h) ==
  /\ Len(requests) < MaxRequests
  /\ requests' = Append(requests,
       [NewRequest(Nobody, l, h) EXCEPT !.reply = 200, !.said = "Granted"])
  /\ UNCHANGED <<session, topics, place>>

Post(l, h) ==
  /\ Len(requests) < MaxRequests
  /\ requests' = Append(requests, NewRequest(Nobody, l, h))
  /\ UNCHANGED <<session, topics, place>>

-----------------------------------------------------------------------------
(* The grain: Orleans places its activation on some host.                  *)

Place(l, h) ==
  /\ place[l] = NoHost
  /\ \E i \in DOMAIN requests :
       requests[i].lock = l /\ requests[i].state = "called"
  /\ place' = [place EXCEPT ![l] = h]
  /\ UNCHANGED <<session, topics, requests>>

Collect(l) ==
  /\ place[l] # NoHost
  /\ place' = [place EXCEPT ![l] = NoHost]
  /\ UNCHANGED <<session, topics, requests>>

(* RequestAccessAsync: for an id that is no row, denied, and nothing sent.  *)
DecideUnknown(i) ==
  /\ requests[i].state = "called"
  /\ requests[i].lock = NoLock
  /\ place[NoLock] # NoHost
  /\ requests' = [requests EXCEPT ![i].state = "over", ![i].answer = "Denied",
                                  ![i].host = place[NoLock]]
  /\ UNCHANGED <<session, topics, place>>

(* For a row: the answer is returned and the result is on its way.  The     *)
(* first form lacks the null check; in the second, a call is sent again     *)
(* when its answer does not come.                                          *)
DecideUnchecked(i, result) ==
  LET l == requests[i].lock IN
  /\ requests[i].state = "called"
  /\ place[l] # NoHost
  /\ requests' = [requests EXCEPT ![i].state = "injecting",
                                  ![i].answer = result,
                                  ![i].host = place[l],
                                  ![i].owed = Listeners(l)]
  /\ UNCHANGED <<session, topics, place>>

DecideAgain(i, result) ==
  /\ requests[i].lock # NoLock
  /\ \/ DecideUnchecked(i, result)
     \/ /\ requests[i].answer # "none"
        /\ requests[i].reply = 0
        /\ requests' = [requests EXCEPT ![i].answer = result]
        /\ UNCHANGED <<session, topics, place>>

Decide(i, result) ==
  /\ requests[i].lock # NoLock
  /\ DecideUnchecked(i, result)

(* What the caller gets of an exception: nothing, were it observed by none  *)
(* as in the gateway; an empty 200, were it logged and not thrown again by  *)
(* LoggingCallFilter; a 500 of the middleware, if there is a caller.       *)
FailureUnobserved(r) == 0
FailureLoggedOnly(r) == IF r.from = Nobody THEN 200 ELSE 0
FailureStatus(r) == IF r.from = Nobody THEN 500 ELSE 0

(* The call never reaches the grain, or its activation fails.              *)
CallFails(i) ==
  /\ requests[i].state = "called"
  /\ requests' = [requests EXCEPT ![i].state = "over",
                                  ![i].reply =
                IF @ = 0 THEN FailureStatus(requests[i]) ELSE @]
  /\ UNCHANGED <<session, topics, place>>

-----------------------------------------------------------------------------
(* SendMessageAsync, on the host of the grain: the topic is the id of the   *)
(* row, not the client id the request came from.                           *)
OnlyRequester(r) == {r.from} \cap Clients
Subscribed(r) == {c \in Clients : r.lock \in topics[c]}

Inject(i) ==
  /\ requests[i].state = "injecting"
  /\ LET hearing == {c \in Subscribed(requests[i]) :
                       session[c] = requests[i].host}
     IN  requests' = [requests EXCEPT ![i].state = "over",
                                      ![i].owed = @ \ hearing]
  /\ UNCHANGED <<session, topics, place>>

(* Ok(result): the grain's answer reaches the controller.                  *)
Reply(i) ==
  /\ requests[i].from = Nobody
  /\ requests[i].reply = 0
  /\ requests[i].answer # "none"
  /\ requests' = [requests EXCEPT ![i].reply = 200,
                                  ![i].said = requests[i].answer]
  /\ UNCHANGED <<session, topics, place>>

(* The answer is lost, or late: Orleans throws, the middleware replies.  It *)
(* may be so late that the grain has still to decide: it will, all the same. *)
ReplyFails(i) ==
  /\ requests[i].from = Nobody
  /\ requests[i].reply = 0
  /\ requests' = [requests EXCEPT ![i].reply = FailureStatus(requests[i])]
  /\ UNCHANGED <<session, topics, place>>

(* A host dies: with it its sessions and activations, the results it has    *)
(* not passed on, and its HTTP callers' connections.  A call it has begun   *)
(* may still reach a grain elsewhere.                                      *)
Crash(h) ==
  LET gone == {c \in Clients : session[c] = h}
      Unsent(r) == r.state = "injecting" /\ r.host = h
      Cut(r) == r.from = Nobody /\ r.entry = h /\ r.reply = 0
  IN  /\ Leave(gone)
      /\ place' = [l \in DOMAIN place |-> IF place[l] = h THEN NoHost ELSE place[l]]
      /\ requests' = [i \in DOMAIN requests |->
           LET r == Forgive(gone)[i] IN
           [r EXCEPT !.state = IF Unsent(r) THEN "over" ELSE @,
                     !.reply = IF Cut(r) THEN Broken ELSE @]]

-----------------------------------------------------------------------------
RequestStep(i) ==
  \/ DecideUnknown(i)
  \/ \E result \in Results : Decide(i, result)
  \/ CallFails(i)

Next ==
  \/ \E c \in Clients, h \in Hosts, userNameIsGuid \in BOOLEAN :
       Connect(c, h, userNameIsGuid)
  \/ \E c \in Clients, l \in Locks : Subscribe(c, l)
  \/ \E c \in Clients : Disconnect(c)
  \/ \E c \in Clients, readable \in BOOLEAN : Publish(c, readable)
  \/ \E l \in Locks \cup {NoLock}, h \in Hosts : Post(l, h)
  \/ \E l \in Locks \cup {NoLock}, h \in Hosts : Place(l, h)
  \/ \E l \in Locks \cup {NoLock} : Collect(l)
  \/ \E i \in DOMAIN requests : RequestStep(i)
  \/ \E i \in DOMAIN requests : Inject(i) \/ Reply(i) \/ ReplyFails(i)
  \/ \E h \in Hosts : Crash(h)

Spec == Init /\ [][Next]_vars

(* A call is answered or fails (Orleans has a timeout), an injection and a  *)
(* reply that have begun end.                                              *)
FairSpec ==
  /\ Spec
  /\ \A i \in 1..MaxRequests :
       /\ WF_vars(i \in DOMAIN requests /\ RequestStep(i))
       /\ WF_vars(i \in DOMAIN requests /\ Inject(i))
       /\ WF_vars(i \in DOMAIN requests /\ (Reply(i) \/ ReplyFails(i)))

-----------------------------------------------------------------------------
TypeOK ==
  /\ session \in [Clients -> Hosts \cup {NoHost}]
  /\ topics \in [Clients -> SUBSET Locks]
  /\ place \in [Locks \cup {NoLock} -> Hosts \cup {NoHost}]
  /\ requests \in Seq(Request)
  /\ \A i \in DOMAIN requests :
       requests[i].state = "injecting" => requests[i].lock \in Locks

(* A caller of the API is told what the grain decided for this very request *)
(* or nothing: no exception on the way becomes an answer, and no answer is  *)
(* given before there is a decision (LocksController.cs:41-43,             *)
(* LoggingCallFilter.cs:20-24).                                            *)
RepliesAreDecisions ==
  \A i \in DOMAIN requests :
    requests[i].reply = 200 =>
      requests[i].answer # "none" /\ requests[i].said = requests[i].answer

(* Every client on the host of the activation that listens to the lock from *)
(* a decision on hears of it, whoever asked and wherever                   *)
(* (MqttHostedService.cs:54-66, LockGrain.cs:35).                          *)
ListenersHear ==
  \A i \in DOMAIN requests :
    requests[i].state = "over"
      => \A c \in requests[i].owed : session[c] # requests[i].host

(* The requests as AccessPromise sees them.                                *)
Decision(r) == IF r.answer = "none"
               THEN IF r.state = "over" THEN "never" ELSE "open"
               ELSE r.answer
Telling(r) == CASE r.reply = 0 -> "nothing"
                [] r.reply = 200 -> r.said
                [] OTHER -> "failed"

Outcome(r) == [decision |-> Decision(r), told |-> Telling(r)]

Promise == INSTANCE AccessPromise WITH
  outcomes <- [i \in DOMAIN requests |-> Outcome(requests[i])]

(* Callers, grains, sessions and crashing hosts together keep the promise   *)
(* of AccessPromise: timeouts and lost answers included, a request is       *)
(* decided at most once, and its caller is told once, after the decision    *)
(* and in its words, or that the request failed (LocksController.cs:41-43, *)
(* MqttHostedService.cs:113, LoggingCallFilter.cs:20-24).                  *)
ImplementsPromise == Promise!Spec

(* Every post is replied to, whatever happens to the call, the answer, the  *)
(* activation and the sessions, unless its own host dies; every call of the *)
(* gateway ends.                                                           *)
EveryRequestEnds ==
  \A i \in 1..MaxRequests :
    i \in DOMAIN requests
      ~> /\ i \in DOMAIN requests
         /\ requests[i].state = "over"
         /\ requests[i].from = Nobody => requests[i].reply # 0

(* "Opens a door for a user ... 200: Access granted" (LocksController.cs:19 *)
(* and 28): when the caller is told that access is granted and the result  *)
(* has been sent, the device of the lock, connected and listening all the  *)
(* while, has heard of it.                                                 *)
GrantOpensDoor ==
  \A i \in DOMAIN requests :
    requests[i].said = "Granted" /\ requests[i].state = "over"
      => requests[i].owed = {}
=============================================================================
