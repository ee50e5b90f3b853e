------------------------------ MODULE DoorProofs ------------------------------
(***************************************************************************)
(* For every cluster, every set of clients and every number of requests:    *)
(* what callers of the API are told and which listeners hear of a decision. *)
(***************************************************************************)
EXTENDS DoorAccess, SequenceTheorems, TLAPS

(* What is true of a request, given the sessions and the topics.           *)
Sound(r) ==
  /\ r.state = "called" => r.answer = "none" /\ r.owed = {}
  /\ r.state = "injecting" => r.lock \in Locks /\ r.answer # "none"
  /\ r.reply = 200 => r.answer # "none" /\ r.said = r.answer
  /\ \A c \in r.owed : session[c] # NoHost /\ r.lock \in topics[c]
  /\ r.state = "over" => \A c \in r.owed : session[c] # r.host

Types ==
  /\ session \in [Clients -> Hosts \cup {NoHost}]
  /\ topics \in [Clients -> SUBSET Locks]
  /\ place \in [Locks \cup {NoLock} -> Hosts \cup {NoHost}]
  /\ requests \in Seq(Request)

DoorInv ==
  /\ Types
  /\ \A i \in DOMAIN requests : Sound(requests[i])

-----------------------------------------------------------------------------
LEMMA InitDoor == Init => DoorInv
<1> SUFFICES ASSUME Init
             PROVE  DoorInv
  OBVIOUS
<1>1. requests = <<>> /\ DOMAIN requests = {}
  BY DEF Init
<1>2. Types
  BY <1>1 DEF Init, Types
<1> QED
  BY <1>1, <1>2 DEF DoorInv

(* A list of requests that is changed element by element stays one.        *)
LEMMA PointwiseRequests ==
  ASSUME requests \in Seq(Request), NEW list,
         list = [i \in DOMAIN requests |-> list[i]],
         \A i \in DOMAIN requests : list[i] \in Request
  PROVE  list \in Seq(Request) /\ DOMAIN list = DOMAIN requests
<1>1. PICK n \in Nat : DOMAIN requests = 1..n
  BY SeqDef
<1>2. list \in [1..n -> Request]
  BY <1>1
<1> QED
  BY <1>1, <1>2, SeqDef

(* A step that changes one request, and nothing else.                      *)
Elsewhere == <<session, topics, place>>

LEMMA OneRequest ==
  ASSUME DoorInv, UNCHANGED Elsewhere, NEW i \in DOMAIN requests,
         NEW r \in Request, Sound(r), requests' = [requests EXCEPT ![i] = r]
  PROVE  DoorInv'
<1>1. Types /\ requests \in Seq(Request)
  BY DEF DoorInv, Types
<1>2. /\ requests' = [j \in DOMAIN requests |-> requests'[j]]
      /\ requests'[i] = r
      /\ \A j \in DOMAIN requests : j # i => requests'[j] = requests[j]
  OBVIOUS
<1>3. \A j \in DOMAIN requests : requests[j] \in Request
  BY <1>1
<1>4. \A j \in DOMAIN requests : requests'[j] \in Request
  BY <1>2, <1>3
<1>5. requests' \in Seq(Request) /\ DOMAIN requests' = DOMAIN requests
  BY <1>1, <1>2, <1>4, PointwiseRequests
<1>6. Types'
  BY <1>1, <1>5 DEF Types, Elsewhere
<1>7. ASSUME NEW j \in DOMAIN requests' PROVE Sound(requests[j])'
  <2>1. Sound(r) /\ (j # i => Sound(requests[j]))
    BY <1>5 DEF DoorInv
  <2>2. Sound(requests'[j])
    BY <1>2, <1>5, <2>1
  <2> QED
    BY <2>2 DEF Sound, Elsewhere
<1> QED
  BY <1>6, <1>7 DEF DoorInv

(* A new request is called for and nothing more.                           *)
LEMMA NewRequestKeeps ==
  ASSUME DoorInv, UNCHANGED Elsewhere, NEW from \in Clients \cup {Nobody},
         NEW l \in Locks \cup {NoLock}, NEW h \in Hosts,
         requests' = Append(requests, NewRequest(from, l, h))
  PROVE  DoorInv'
<1> DEFINE r == NewRequest(from, l, h)
<1>1. r \in Request
  BY DEF NewRequest, Request, States, Answers, Statuses
<1>2. Sound(r)
  BY DEF NewRequest, Sound
<1> HIDE DEF r
<1>3. requests \in Seq(Request) /\ requests' = Append(requests, r)
  BY DEF DoorInv, Types, r
<1>4. /\ requests' \in Seq(Request)
      /\ Len(requests') = Len(requests) + 1
      /\ \A j \in 1..Len(requests) : requests'[j] = requests[j]
      /\ requests'[Len(requests) + 1] = r
  BY <1>1, <1>3
<1>5. Types'
  BY <1>4 DEF DoorInv, Types, Elsewhere
<1>6. ASSUME NEW j \in DOMAIN requests' PROVE Sound(requests[j])'
  <2>1. j \in 1..Len(requests) \/ j = Len(requests) + 1
    BY <1>3, <1>4
  <2>2. Sound(requests'[j])
    BY <1>2, <1>3, <1>4, <2>1 DEF DoorInv
  <2> QED
    BY <2>2 DEF Sound, Elsewhere
<1> QED
  BY <1>5, <1>6 DEF DoorInv

(* A step that leaves the requests alone and takes nobody from a session    *)
(* or a topic.                                                             *)
LEMMA SessionsGrow ==
  ASSUME DoorInv, UNCHANGED requests, Types',
         \A c \in Clients : session[c] # NoHost
           => session'[c] = session[c] /\ topics[c] \subseteq topics'[c]
  PROVE  DoorInv'
<1>1. ASSUME NEW i \in DOMAIN requests PROVE Sound(requests[i])'
  <2>1. Sound(requests[i]) /\ requests[i] \in Request
    BY DEF DoorInv, Types
  <2>2. requests[i].owed \subseteq Clients
    BY <2>1 DEF Request
  <2> QED
    BY <2>1, <2>2 DEF Sound
<1> QED
  BY <1>1 DEF DoorInv

-----------------------------------------------------------------------------
(* The steps of one request.                                               *)

LEMMA DecideUnknownKeeps ==
  ASSUME DoorInv, NEW i \in DOMAIN requests, DecideUnknown(i)
  PROVE  DoorInv'
<1> DEFINE q == requests[i]
           r == [q EXCEPT !.state = "over", !.answer = "Denied",
                          !.host = place[NoLock]]
<1>1. q \in Request /\ Sound(q) /\ requests \in Seq(Request)
  BY DEF DoorInv, Types
<1>2. q.state = "called" /\ place[NoLock] \in Hosts \cup {NoHost}
  BY DEF DecideUnknown, DoorInv, Types
<1>3. r \in Request
  <2>1. "over" \in States /\ "Denied" \in Answers
    BY DEF States, Answers, Results
  <2> QED
    BY <1>1, <1>2, <2>1 DEF Request
<1>4. r.owed = q.owed /\ r.state = "over" /\ r.reply = q.reply
      /\ r.answer = "Denied" /\ r.lock = q.lock
  BY <1>1 DEF Request
<1>5. requests' = [requests EXCEPT ![i] = r]
  BY <1>1 DEF DecideUnknown
<1> HIDE DEF r
<1>6. Sound(r)
  BY <1>1, <1>2, <1>4 DEF Sound
<1> QED
  BY <1>3, <1>5, <1>6, OneRequest DEF DecideUnknown, Elsewhere

LEMMA DecideKeeps ==
  ASSUME DoorInv, NEW i \in DOMAIN requests, NEW result \in Results,
         Decide(i, result)
  PROVE  DoorInv'
<1> DEFINE q == requests[i]
           r == [q EXCEPT !.state = "injecting", !.answer = result,
                          !.host = place[q.lock], !.owed = Listeners(q.lock)]
<1>1. q \in Request /\ Sound(q) /\ requests \in Seq(Request)
  BY DEF DoorInv, Types
<1>2. /\ q.state = "called" /\ q.lock \in Locks
      /\ place[q.lock] \in Hosts \cup {NoHost}
      /\ Listeners(q.lock) \in SUBSET Clients
  BY <1>1 DEF Decide, DecideUnchecked, DoorInv, Types, Request, Listeners
<1>3. r \in Request
  <2>1. "injecting" \in States /\ result \in Answers
    BY DEF States, Answers
  <2> QED
    BY <1>1, <1>2, <2>1 DEF Request
<1>4. r.owed = Listeners(q.lock) /\ r.state = "injecting" /\ r.reply = q.reply
      /\ r.answer = result /\ r.lock = q.lock
  BY <1>1 DEF Request
<1>5. requests' = [requests EXCEPT ![i] = r]
  BY <1>1 DEF Decide, DecideUnchecked
<1> HIDE DEF r
<1>6. \A c \in r.owed : session[c] # NoHost /\ r.lock \in topics[c]
  BY <1>4 DEF Listeners
<1>7. r.answer # "none"
  BY <1>4 DEF Results
<1>8. Sound(r)
  BY <1>1, <1>2, <1>4, <1>6, <1>7 DEF Sound
<1> QED
  BY <1>3, <1>5, <1>8, OneRequest DEF Decide, DecideUnchecked, Elsewhere

LEMMA CallFailsKeeps ==
  ASSUME DoorInv, NEW i \in DOMAIN requests, CallFails(i)
  PROVE  DoorInv'
<1> DEFINE q == requests[i]
           s == IF q.reply = 0 THEN FailureStatus(q) ELSE q.reply
           r == [q EXCEPT !.state = "over", !.reply = s]
<1>1. q \in Request /\ Sound(q) /\ requests \in Seq(Request)
  BY DEF DoorInv, Types
<1>2. q.state = "called"
  BY DEF CallFails
<1>3. s \in Statuses /\ (s = 200 => q.reply = 200)
  BY <1>1 DEF FailureStatus, Statuses, Request
<1>4. requests' = [requests EXCEPT ![i] = r]
  BY <1>1 DEF CallFails, Request
<1> HIDE DEF s
<1>5. r \in Request
  <2>1. "over" \in States
    BY DEF States
  <2> QED
    BY <1>1, <1>3, <2>1 DEF Request
<1>6. r.owed = q.owed /\ r.state = "over" /\ r.reply = s
      /\ r.answer = q.answer /\ r.lock = q.lock /\ r.said = q.said
  BY <1>1 DEF Request
<1> HIDE DEF r
<1>7. Sound(r)
  BY <1>1, <1>2, <1>3, <1>6 DEF Sound
<1> QED
  BY <1>4, <1>5, <1>7, OneRequest DEF CallFails, Elsewhere

(* Who is passed over by an injection is on another host.                  *)
LEMMA InjectKeeps ==
  ASSUME DoorInv, NEW i \in DOMAIN requests, Inject(i)
  PROVE  DoorInv'
<1> DEFINE q == requests[i]
           hearing == {c \in Subscribed(q) : session[c] = q.host}
           C == q.owed \ hearing
           r == [q EXCEPT !.state = "over", !.owed = C]
<1>1. q \in Request /\ Sound(q) /\ requests \in Seq(Request)
  BY DEF DoorInv, Types
<1>2. q.state = "injecting" /\ q.owed \subseteq Clients
  BY <1>1 DEF Inject, Request
<1>3. requests' = [requests EXCEPT ![i] = r]
  BY <1>1 DEF Inject, Request
<1>4. C \subseteq q.owed /\ \A c \in C : session[c] # q.host
  <2>1. \A c \in q.owed : c \in Subscribed(q)
    BY <1>1, <1>2 DEF Sound, Subscribed
  <2> QED
    BY <2>1
<1> HIDE DEF C
<1>5. r \in Request
  <2>1. "over" \in States /\ C \in SUBSET Clients
    BY <1>2, <1>4 DEF States
  <2> QED
    BY <1>1, <2>1 DEF Request
<1>6. r.owed = C /\ r.state = "over" /\ r.reply = q.reply /\ r.host = q.host
      /\ r.answer = q.answer /\ r.lock = q.lock /\ r.said = q.said
  BY <1>1 DEF Request
<1> HIDE DEF r
<1>7. Sound(r)
  BY <1>1, <1>4, <1>6 DEF Sound
<1> QED
  BY <1>3, <1>5, <1>7, OneRequest DEF Inject, Elsewhere

LEMMA ReplyKeeps ==
  ASSUME DoorInv, NEW i \in DOMAIN requests, Reply(i)
  PROVE  DoorInv'
<1> DEFINE q == requests[i]
<1>1. q \in Request /\ requests \in Seq(Request)
  BY DEF DoorInv, Types
<1>2. Sound(q)
  BY DEF DoorInv
<1>3. PICK a \in Answers : a # "none" /\ a = q.answer
  BY <1>1 DEF Reply, Request
<1>4. PICK s \in Statuses : s = 200
  BY DEF Statuses
<1> DEFINE r == [q EXCEPT !.reply = s, !.said = a]
<1>5. requests' = [requests EXCEPT ![i] = r]
  <2>1. requests' = [requests EXCEPT ![i].reply = s, ![i].said = a]
    BY <1>3, <1>4 DEF Reply
  <2> QED
    BY <1>1, <2>1
<1> HIDE DEF q
<1>6. r \in Request
  BY <1>1 DEF Request
<1>7. r.owed = q.owed /\ r.state = q.state /\ r.host = q.host
      /\ r.answer = q.answer /\ r.lock = q.lock /\ r.said = a
  BY <1>1 DEF Request
<1> HIDE DEF r
<1>8. r.answer # "none" /\ r.said = r.answer
  BY <1>3, <1>7
<1>9. Sound(r)
  BY <1>2, <1>7, <1>8 DEF Sound
<1>10. UNCHANGED Elsewhere
  BY DEF Reply, Elsewhere
<1> QED
  BY <1>5, <1>6, <1>9, <1>10, OneRequest

LEMMA ReplyFailsKeeps ==
  ASSUME DoorInv, NEW i \in DOMAIN requests, ReplyFails(i)
  PROVE  DoorInv'
<1> DEFINE q == requests[i]
           s == FailureStatus(q)
           r == [q EXCEPT !.reply = s]
<1>1. q \in Request /\ Sound(q) /\ requests \in Seq(Request)
  BY DEF DoorInv, Types
<1>2. s \in Statuses /\ s # 200
  BY DEF FailureStatus, Statuses
<1>3. requests' = [requests EXCEPT ![i] = r]
  BY <1>1 DEF ReplyFails
<1> HIDE DEF s
<1>4. r \in Request
  BY <1>1, <1>2 DEF Request
<1>5. r.owed = q.owed /\ r.state = q.state /\ r.reply = s /\ r.host = q.host
      /\ r.answer = q.answer /\ r.lock = q.lock /\ r.said = q.said
  BY <1>1 DEF Request
<1> HIDE DEF r
<1>6. Sound(r)
  BY <1>1, <1>2, <1>5 DEF Sound
<1> QED
  BY <1>3, <1>4, <1>6, OneRequest DEF ReplyFails, Elsewhere

-----------------------------------------------------------------------------
(* Who leaves is owed nothing any more, so what is owed is owed to others.  *)
LEMMA LeaveKeeps ==
  ASSUME DoorInv, NEW C \in SUBSET Clients, Leave(C),
         place' \in [Locks \cup {NoLock} -> Hosts \cup {NoHost}],
         requests' = [i \in DOMAIN requests |-> requests'[i]],
         \A i \in DOMAIN requests :
           /\ requests'[i] \in Request
           /\ requests'[i].lock = requests[i].lock
           /\ requests'[i].host = requests[i].host
           /\ requests'[i].answer = requests[i].answer
           /\ requests'[i].said = requests[i].said
           /\ requests'[i].owed = requests[i].owed \ C
           /\ requests'[i].reply = 200 => requests[i].reply = 200
           /\ \/ requests'[i].state = requests[i].state
              \/ /\ requests'[i].state = "over"
                 /\ requests[i].state = "injecting"
                 /\ \A c \in Clients : session[c] = requests[i].host => c \in C
  PROVE  DoorInv'
<1>1. Types /\ requests \in Seq(Request)
  BY DEF DoorInv, Types
<1>2. requests' \in Seq(Request) /\ DOMAIN requests' = DOMAIN requests
  BY <1>1, PointwiseRequests
<1>3. /\ session' \in [Clients -> Hosts \cup {NoHost}]
      /\ topics' \in [Clients -> SUBSET Locks]
      /\ \A c \in Clients \ C : session'[c] = session[c] /\ topics'[c] = topics[c]
  BY <1>1 DEF Types, Leave
<1>4. Types'
  BY <1>2, <1>3 DEF Types
<1>5. ASSUME NEW i \in DOMAIN requests PROVE Sound(requests[i])'
  <2> DEFINE q == requests[i]
             r == requests'[i]
  <2>1. Sound(q) /\ q \in Request
    BY <1>1 DEF DoorInv
  <2>2. r.owed \subseteq Clients \ C /\ r.owed \subseteq q.owed
    BY <2>1 DEF Request
  <2>3. \A c \in r.owed : session'[c] = session[c] /\ topics'[c] = topics[c]
    BY <2>2, <1>3
  <2>4. /\ r.state = "called" => r.answer = "none" /\ r.owed = {}
        /\ r.state = "injecting" => r.lock \in Locks /\ r.answer # "none"
        /\ r.reply = 200 => r.answer # "none" /\ r.said = r.answer
    BY <2>1, <2>2 DEF Sound
  <2>5. \A c \in r.owed : session'[c] # NoHost /\ r.lock \in topics'[c]
    BY <2>1, <2>2, <2>3 DEF Sound
  <2>6. r.state = "over" => \A c \in r.owed : session'[c] # r.host
    BY <2>1, <2>2, <2>3 DEF Sound
  <2> QED
    BY <2>4, <2>5, <2>6 DEF Sound
<1> QED
  BY <1>2, <1>4, <1>5 DEF DoorInv

LEMMA DisconnectKeeps ==
  ASSUME DoorInv, NEW c \in Clients, Disconnect(c)
  PROVE  DoorInv'
<1>1. /\ Leave({c}) /\ UNCHANGED place /\ Types
      /\ requests' = Forgive({c}) /\ requests \in Seq(Request)
  BY DEF Disconnect, DoorInv, Types
<1>2. requests' = [i \in DOMAIN requests |-> requests'[i]]
  BY <1>1 DEF Forgive
<1>3. ASSUME NEW i \in DOMAIN requests
      PROVE  /\ requests'[i] \in Request
             /\ requests'[i] = [requests[i] EXCEPT !.owed = @ \ {c}]
             /\ requests'[i].lock = requests[i].lock
             /\ requests'[i].host = requests[i].host
             /\ requests'[i].answer = requests[i].answer
             /\ requests'[i].said = requests[i].said
             /\ requests'[i].owed = requests[i].owed \ {c}
             /\ requests'[i].reply = requests[i].reply
             /\ requests'[i].state = requests[i].state
  <2>1. requests[i] \in Request
    BY <1>1
  <2>2. requests'[i] = [requests[i] EXCEPT !.owed = @ \ {c}]
    BY <1>1 DEF Forgive
  <2> QED
    BY <2>1, <2>2 DEF Request
<1>4. place' \in [Locks \cup {NoLock} -> Hosts \cup {NoHost}]
  BY <1>1 DEF Types
<1> QED
  BY <1>1, <1>2, <1>3, <1>4, LeaveKeeps

(* The results a dead host has not passed on were for its own sessions.    *)
LEMMA CrashKeeps ==
  ASSUME DoorInv, NEW h \in Hosts, Crash(h)
  PROVE  DoorInv'
<1> DEFINE gone == {c \in Clients : session[c] = h}
           Unsent(r) == r.state = "injecting" /\ r.host = h
           Cut(r) == r.from = Nobody /\ r.entry = h /\ r.reply = 0
           left(i) == [requests[i] EXCEPT !.owed = @ \ gone]
<1>1. Types /\ requests \in Seq(Request) /\ Leave(gone)
  BY DEF DoorInv, Types, Crash
<1>2. place' \in [Locks \cup {NoLock} -> Hosts \cup {NoHost}]
  BY <1>1 DEF Types, Crash
<1>3. requests' = [i \in DOMAIN requests |->
                     [left(i) EXCEPT !.state = IF Unsent(left(i)) THEN "over" ELSE @,
                                     !.reply = IF Cut(left(i)) THEN Broken ELSE @]]
  <2>1. Forgive(gone) = [i \in DOMAIN requests |-> left(i)]
    BY DEF Forgive
  <2>2. \A i \in DOMAIN requests : Forgive(gone)[i] = left(i)
    BY <2>1
  <2> QED
    BY <2>2 DEF Crash
<1>4. requests' = [i \in DOMAIN requests |-> requests'[i]]
  BY <1>3
<1>5. ASSUME NEW i \in DOMAIN requests
      PROVE  /\ requests'[i] \in Request
             /\ requests'[i].lock = requests[i].lock
             /\ requests'[i].host = requests[i].host
             /\ requests'[i].answer = requests[i].answer
             /\ requests'[i].said = requests[i].said
             /\ requests'[i].owed = requests[i].owed \ gone
             /\ requests'[i].reply = 200 => requests[i].reply = 200
             /\ \/ requests'[i].state = requests[i].state
                \/ /\ requests'[i].state = "over"
                   /\ requests[i].state = "injecting"
                   /\ \A c \in Clients : session[c] = requests[i].host => c \in gone
  <2> DEFINE q == requests[i]
             p == left(i)
  <2>1. q \in Request
    BY <1>1
  <2>2. /\ p \in Request /\ p.lock = q.lock /\ p.host = q.host
        /\ p.answer = q.answer /\ p.said = q.said /\ p.reply = q.reply
        /\ p.state = q.state /\ p.owed = q.owed \ gone
    BY <2>1 DEF Request
  <2>3. PICK s \in States, v \in Statuses :
          /\ s = IF Unsent(p) THEN "over" ELSE p.state
          /\ v = IF Cut(p) THEN Broken ELSE p.reply
    <3>1. p.state \in States /\ p.reply \in Statuses
      BY <2>2 DEF Request
    <3>2. "over" \in States /\ Broken \in Statuses
      BY DEF States, Statuses
    <3> QED
      BY <3>1, <3>2
  <2>4. requests'[i] = [p EXCEPT !.state = s, !.reply = v]
    BY <1>3, <2>3, <2>2
  <2> HIDE DEF p
  <2>5. /\ requests'[i] \in Request
        /\ requests'[i].lock = p.lock /\ requests'[i].host = p.host
        /\ requests'[i].answer = p.answer /\ requests'[i].said = p.said
        /\ requests'[i].owed = p.owed
        /\ requests'[i].state = s /\ requests'[i].reply = v
    BY <2>2, <2>4 DEF Request
  <2>6. v = 200 => p.reply = 200
    BY <2>3 DEF Broken
  <2>7. \/ s = p.state
        \/ /\ s = "over" /\ p.state = "injecting"
           /\ \A c \in Clients : session[c] = p.host => c \in gone
    BY <2>3
  <2> QED
    BY <2>2, <2>5, <2>6, <2>7
<1>6. gone \in SUBSET Clients
  OBVIOUS
<1> HIDE DEF gone
<1> QED
  BY <1>1, <1>2, <1>4, <1>5, <1>6, LeaveKeeps

-----------------------------------------------------------------------------
LEMMA StepDoor == DoorInv /\ [Next]_vars => DoorInv'
<1> SUFFICES ASSUME DoorInv, [Next]_vars
             PROVE  DoorInv'
  OBVIOUS
<1>1. Types
  BY DEF DoorInv
<1>2. ASSUME NEW c \in Clients, NEW h \in Hosts, NEW ok \in BOOLEAN,
             Connect(c, h, ok)
      PROVE  DoorInv'
  <2>1. Types'
    BY <1>1, <1>2 DEF Types, Connect
  <2> QED
    BY <1>1, <1>2, <2>1, SessionsGrow DEF Types, Connect
<1>3. ASSUME NEW c \in Clients, NEW l \in Locks, Subscribe(c, l)
      PROVE  DoorInv'
  <2>1. Types'
    BY <1>1, <1>3 DEF Types, Subscribe
  <2> QED
    BY <1>1, <1>3, <2>1, SessionsGrow DEF Types, Subscribe
<1>4. ASSUME NEW c \in Clients, Disconnect(c)
      PROVE  DoorInv'
  BY <1>4, DisconnectKeeps
<1>5. ASSUME NEW c \in Clients, NEW readable \in BOOLEAN, Publish(c, readable)
      PROVE  DoorInv'
  <2>1. session[c] \in Hosts /\ LockOf[c] \in Locks \cup {NoLock}
    BY <1>1, <1>5, DoorAssumption DEF Types, Publish
  <2> QED
    BY <1>5, <2>1, NewRequestKeeps DEF Publish, Elsewhere
<1>6. ASSUME NEW l \in Locks \cup {NoLock}, NEW h \in Hosts, Post(l, h)
      PROVE  DoorInv'
  BY <1>6, NewRequestKeeps DEF Post, Elsewhere
<1>7. ASSUME NEW l \in Locks \cup {NoLock}, NEW h \in Hosts, Place(l, h)
      PROVE  DoorInv'
  <2>1. Types'
    BY <1>1, <1>7 DEF Types, Place
  <2> QED
    BY <1>7, <2>1, SessionsGrow DEF Place
<1>8. ASSUME NEW l \in Locks \cup {NoLock}, Collect(l)
      PROVE  DoorInv'
  <2>1. Types'
    BY <1>1, <1>8 DEF Types, Collect
  <2> QED
    BY <1>8, <2>1, SessionsGrow DEF Collect
<1>9. ASSUME NEW i \in DOMAIN requests, RequestStep(i)
      PROVE  DoorInv'
  BY <1>9, DecideUnknownKeeps, DecideKeeps, CallFailsKeeps DEF RequestStep
<1>10. ASSUME NEW i \in DOMAIN requests, Inject(i) \/ Reply(i) \/ ReplyFails(i)
       PROVE  DoorInv'
  BY <1>10, InjectKeeps, ReplyKeeps, ReplyFailsKeeps
<1>11. ASSUME NEW h \in Hosts, Crash(h)
       PROVE  DoorInv'
  BY <1>11, CrashKeeps
<1>12. CASE UNCHANGED vars
  <2>1. Types' /\ UNCHANGED requests /\ UNCHANGED Elsewhere
    BY <1>1, <1>12 DEF Types, vars, Elsewhere
  <2> QED
    BY <2>1, SessionsGrow DEF Elsewhere
<1> QED
  BY <1>2, <1>3, <1>4, <1>5, <1>6, <1>7, <1>8, <1>9, <1>10, <1>11, <1>12 DEF Next

LEMMA DoorInvariant == Spec => []DoorInv
<1> QED
  BY InitDoor, StepDoor, PTL DEF Spec

-----------------------------------------------------------------------------
(* The refinement of AccessPromise.                                        *)

(* A request of which the promise sees q before and r after.               *)
GoesOn(q, r) ==
  Promise!Decided(Outcome(q), Outcome(r)) /\ Promise!Told(Outcome(q), Outcome(r))

LEMMA AllGoOn ==
  ASSUME DOMAIN requests' = DOMAIN requests,
         \A i \in DOMAIN requests : GoesOn(requests[i], requests'[i])
  PROVE  Promise!Next
<1> DEFINE old == [i \in DOMAIN requests |-> Outcome(requests[i])]
           new == [i \in DOMAIN requests |-> Outcome(requests'[i])]
<1>1. old' = new
  BY DEF Outcome, Decision, Telling
<1>2. \A i \in DOMAIN old : Promise!Decided(old[i], new[i]) /\ Promise!Told(old[i], new[i])
  BY DEF GoesOn
<1>3. DOMAIN new = DOMAIN old
  OBVIOUS
<1> HIDE DEF new
<1> QED
  BY <1>1, <1>2, <1>3 DEF Promise!Next, Promise!GoOn

(* Whose answer and reply stay is seen as it was.                          *)
LEMMA StaysGoesOn ==
  ASSUME NEW q, NEW r, r.answer = q.answer, r.reply = q.reply, r.said = q.said,
         r.state = q.state \/ q.answer # "none"
  PROVE  GoesOn(q, r)
<1>1. Decision(r) = Decision(q) /\ Telling(r) = Telling(q)
  BY DEF Decision, Telling
<1> QED
  BY <1>1 DEF GoesOn, Outcome, Promise!Decided, Promise!Told

LEMMA OneGoesOn ==
  ASSUME NEW i \in DOMAIN requests, NEW r, GoesOn(requests[i], r),
         requests' = [requests EXCEPT ![i] = r]
  PROVE  Promise!Next
<1>1. /\ DOMAIN requests' = DOMAIN requests
      /\ requests'[i] = r
      /\ \A j \in DOMAIN requests : j # i => requests'[j] = requests[j]
  OBVIOUS
<1>2. ASSUME NEW j \in DOMAIN requests PROVE GoesOn(requests[j], requests'[j])
  BY <1>1, StaysGoesOn
<1> QED
  BY <1>1, <1>2, AllGoOn

LEMMA NewIsAsked ==
  ASSUME requests \in Seq(Request), NEW r, Outcome(r) = Promise!Asked,
         requests' = Append(requests, r)
  PROVE  Promise!Next
<1> DEFINE n == Len(requests)
           old == [i \in DOMAIN requests |-> Outcome(requests[i])]
           new == [i \in 1..(n + 1) |-> IF i = n + 1 THEN Outcome(r) ELSE Outcome(requests[i])]
<1>1. n \in Nat /\ DOMAIN requests = 1..n
  OBVIOUS
<1>2. /\ DOMAIN requests' = 1..(n + 1)
      /\ requests'[n + 1] = r
      /\ \A i \in 1..n : requests'[i] = requests[i]
  BY <1>1
<1>3. old' = [i \in DOMAIN requests' |-> Outcome(requests'[i])]
  BY DEF Outcome, Decision, Telling
<1>4. old' = new
  <2>1. \A i \in 1..(n + 1) : requests'[i] = IF i = n + 1 THEN r ELSE requests[i]
    BY <1>1, <1>2
  <2> QED
    BY <1>2, <1>3, <2>1
<1>5. Append(old, Outcome(r)) = new
  <2>1. old \in Seq({Outcome(requests[i]) : i \in 1..n})
    BY <1>1
  <2>2. Len(old) = n
    BY <1>1
  <2> QED
    BY <1>1, <2>1, <2>2
<1> HIDE DEF old, new
<1>6. old' = Append(old, Promise!Asked)
  BY <1>4, <1>5
<1> QED
  BY <1>6 DEF old, Promise!Next, Promise!Ask

LEMMA DecideGoesOn ==
  ASSUME DoorInv, NEW i \in DOMAIN requests, NEW result \in Results,
         DecideUnknown(i) \/ Decide(i, result)
  PROVE  Promise!Next
<1> DEFINE q == requests[i]
<1>1. q \in Request /\ Sound(q)
  BY DEF DoorInv, Types
<1>2. q.state = "called" /\ q.answer = "none" /\ q.reply # 200
  BY <1>1 DEF DecideUnknown, Decide, DecideUnchecked, Sound
<1>3. PICK r : /\ requests' = [requests EXCEPT ![i] = r]
               /\ r.answer \in Results /\ r.reply = q.reply
  <2>1. CASE DecideUnknown(i)
    <3> DEFINE r == [q EXCEPT !.state = "over", !.answer = "Denied",
                              !.host = place[NoLock]]
    <3>1. requests' = [requests EXCEPT ![i] = r]
      BY <1>1, <2>1 DEF DecideUnknown, Request
    <3>2. r.answer = "Denied" /\ r.reply = q.reply
      BY <1>1 DEF Request
    <3> QED
      BY <3>1, <3>2 DEF Results
  <2>2. CASE Decide(i, result)
    <3> DEFINE r == [q EXCEPT !.state = "injecting", !.answer = result,
                              !.host = place[q.lock], !.owed = Listeners(q.lock)]
    <3>1. requests' = [requests EXCEPT ![i] = r]
      BY <1>1, <2>2 DEF Decide, DecideUnchecked, Request
    <3>2. r.answer = result /\ r.reply = q.reply
      BY <1>1 DEF Request
    <3> QED
      BY <3>1, <3>2
  <2> QED
    BY <2>1, <2>2
<1>4. Decision(q) = "open" /\ Decision(r) \in Results
  BY <1>2, <1>3 DEF Decision, Results
<1>5. Telling(r) = Telling(q)
  BY <1>2, <1>3 DEF Telling
<1>6. GoesOn(q, r)
  BY <1>4, <1>5 DEF GoesOn, Outcome, Promise!Decided, Promise!Told
<1> QED
  BY <1>3, <1>6, OneGoesOn

LEMMA FailureGoesOn ==
  ASSUME DoorInv, NEW i \in DOMAIN requests, CallFails(i) \/ ReplyFails(i)
  PROVE  Promise!Next
<1> DEFINE q == requests[i]
<1>1. q \in Request /\ Sound(q)
  BY DEF DoorInv, Types
<1>2. PICK r : /\ requests' = [requests EXCEPT ![i] = r]
               /\ r.answer = q.answer /\ r.said = q.said
               /\ r.state = q.state \/ (r.state = "over" /\ q.state = "called")
               /\ r.reply = q.reply \/ (q.reply = 0 /\ r.reply = FailureStatus(q))
  <2>1. CASE CallFails(i)
    <3> DEFINE s == IF q.reply = 0 THEN FailureStatus(q) ELSE q.reply
               r == [q EXCEPT !.state = "over", !.reply = s]
    <3>1. requests' = [requests EXCEPT ![i] = r]
      BY <1>1, <2>1 DEF CallFails, Request
    <3>2. /\ r.answer = q.answer /\ r.said = q.said /\ r.state = "over"
          /\ r.reply = s /\ q.state = "called"
      BY <1>1, <2>1 DEF Request, CallFails
    <3> QED
      BY <3>1, <3>2
  <2>2. CASE ReplyFails(i)
    <3> DEFINE r == [q EXCEPT !.reply = FailureStatus(q)]
    <3>1. requests' = [requests EXCEPT ![i] = r] /\ q.reply = 0
      BY <1>1, <2>2 DEF ReplyFails, Request
    <3>2. /\ r.answer = q.answer /\ r.said = q.said /\ r.state = q.state
          /\ r.reply = FailureStatus(q)
      BY <1>1 DEF Request
    <3> QED
      BY <3>1, <3>2
  <2> QED
    BY <2>1, <2>2
<1>3. Decision(r) = Decision(q) \/ (Decision(q) = "open" /\ Decision(r) = "never")
  BY <1>1, <1>2 DEF Decision, Sound
<1>4. Telling(r) = Telling(q) \/ (Telling(q) = "nothing" /\ Telling(r) = "failed")
  BY <1>2 DEF Telling, FailureStatus
<1>5. GoesOn(q, r)
  BY <1>3, <1>4 DEF GoesOn, Outcome, Promise!Decided, Promise!Told
<1> QED
  BY <1>2, <1>5, OneGoesOn

LEMMA InjectGoesOn ==
  ASSUME DoorInv, NEW i \in DOMAIN requests, Inject(i)
  PROVE  Promise!Next
<1> DEFINE q == requests[i]
           hearing == {c \in Subscribed(q) : session[c] = q.host}
           r == [q EXCEPT !.state = "over", !.owed = @ \ hearing]
<1>1. q \in Request /\ Sound(q)
  BY DEF DoorInv, Types
<1>2. requests' = [requests EXCEPT ![i] = r] /\ q.state = "injecting"
  BY <1>1 DEF Inject, Request
<1>3. r.answer = q.answer /\ r.reply = q.reply /\ r.said = q.said
  BY <1>1 DEF Request
<1>4. q.answer # "none"
  BY <1>1, <1>2 DEF Sound
<1> HIDE DEF r
<1>5. GoesOn(q, r)
  BY <1>3, <1>4, StaysGoesOn
<1> QED
  BY <1>2, <1>5, OneGoesOn

LEMMA ReplyGoesOn ==
  ASSUME DoorInv, NEW i \in DOMAIN requests, Reply(i)
  PROVE  Promise!Next
<1> DEFINE q == requests[i]
           r == [q EXCEPT !.reply = 200, !.said = q.answer]
<1>1. q \in Request
  BY DEF DoorInv, Types
<1>2. requests' = [requests EXCEPT ![i] = r]
  <2>1. requests' = [requests EXCEPT ![i].reply = 200, ![i].said = q.answer]
    BY DEF Reply
  <2> QED
    BY <2>1
<1>3. q.reply = 0 /\ q.answer \in Results
  BY <1>1 DEF Reply, Request, Answers
<1>4. r.answer = q.answer /\ r.reply = 200 /\ r.said = q.answer
  BY <1>1 DEF Request
<1> HIDE DEF r
<1>5. Decision(r) = q.answer /\ Decision(q) = q.answer
  BY <1>3, <1>4 DEF Decision, Results
<1>6. Telling(q) = "nothing" /\ Telling(r) = q.answer
  BY <1>3, <1>4 DEF Telling
<1>7. GoesOn(q, r)
  BY <1>3, <1>5, <1>6 DEF GoesOn, Outcome, Promise!Decided, Promise!Told
<1> QED
  BY <1>2, <1>7, OneGoesOn

LEMMA DisconnectGoesOn ==
  ASSUME DoorInv, NEW c \in Clients, Disconnect(c)
  PROVE  Promise!Next
<1>1. DOMAIN requests' = DOMAIN requests
  BY DEF Disconnect, Forgive
<1>2. ASSUME NEW i \in DOMAIN requests PROVE GoesOn(requests[i], requests'[i])
  <2>1. requests[i] \in Request
    BY DEF DoorInv, Types
  <2>2. requests'[i] = [requests[i] EXCEPT !.owed = @ \ {c}]
    BY DEF Disconnect, Forgive
  <2>3. /\ requests'[i].answer = requests[i].answer
        /\ requests'[i].reply = requests[i].reply
        /\ requests'[i].said = requests[i].said
        /\ requests'[i].state = requests[i].state
    BY <2>1, <2>2 DEF Request
  <2> QED
    BY <2>3, StaysGoesOn
<1> QED
  BY <1>1, <1>2, AllGoOn

LEMMA CrashGoesOn ==
  ASSUME DoorInv, NEW h \in Hosts, Crash(h)
  PROVE  Promise!Next
<1> DEFINE gone == {c \in Clients : session[c] = h}
           left(i) == [requests[i] EXCEPT !.owed = @ \ gone]
           state(i) == IF requests[i].state = "injecting" /\ requests[i].host = h
                       THEN "over" ELSE requests[i].state
           reply(i) == IF requests[i].from = Nobody /\ requests[i].entry = h
                          /\ requests[i].reply = 0
                       THEN Broken ELSE requests[i].reply
<1>1. ASSUME NEW i \in DOMAIN requests
      PROVE  /\ Forgive(gone)[i] = left(i)
             /\ left(i).state = requests[i].state /\ left(i).host = requests[i].host
             /\ left(i).from = requests[i].from /\ left(i).entry = requests[i].entry
             /\ left(i).reply = requests[i].reply
             /\ left(i).answer = requests[i].answer /\ left(i).said = requests[i].said
             /\ DOMAIN left(i) = DOMAIN requests[i]
  <2>1. requests[i] \in Request
    BY DEF DoorInv, Types
  <2> QED
    BY <2>1 DEF Forgive, Request
<1>2. requests' = [i \in DOMAIN requests |->
                     [left(i) EXCEPT !.state = state(i), !.reply = reply(i)]]
  <2> DEFINE Unsent(r) == r.state = "injecting" /\ r.host = h
             Cut(r) == r.from = Nobody /\ r.entry = h /\ r.reply = 0
             next(i) == [left(i) EXCEPT !.state = IF Unsent(left(i)) THEN "over" ELSE @,
                                        !.reply = IF Cut(left(i)) THEN Broken ELSE @]
  <2>1. requests' = [i \in DOMAIN requests |-> next(i)]
    <3>1. \A i \in DOMAIN requests : Forgive(gone)[i] = left(i)
      BY <1>1
    <3> QED
      BY <3>1 DEF Crash
  <2> HIDE DEF left
  <2>2. ASSUME NEW i \in DOMAIN requests
        PROVE  next(i) = [left(i) EXCEPT !.state = state(i), !.reply = reply(i)]
    BY <1>1
  <2> HIDE DEF next, state, reply
  <2> QED
    BY <2>1, <2>2
<1> HIDE DEF left
<1>3. DOMAIN requests' = DOMAIN requests
  BY <1>2
<1>4. ASSUME NEW i \in DOMAIN requests PROVE GoesOn(requests[i], requests'[i])
  <2> DEFINE q == requests[i]
             r == requests'[i]
  <2>1. q \in Request /\ Sound(q)
    BY DEF DoorInv, Types
  <2>2. DOMAIN left(i) = {"from", "lock", "entry", "state", "host", "answer",
                          "reply", "said", "owed"}
    BY <1>1, <2>1 DEF Request
  <2>3. r = [left(i) EXCEPT !.state = state(i), !.reply = reply(i)]
    BY <1>2
  <2>4. /\ r.answer = q.answer /\ r.said = q.said
        /\ r.state = state(i) /\ r.reply = reply(i)
    BY <1>1, <2>2, <2>3
  <2>5. Decision(r) = Decision(q)
    BY <2>1, <2>4 DEF Decision, Sound
  <2>6. Telling(r) = Telling(q) \/ (Telling(q) = "nothing" /\ Telling(r) = "failed")
    BY <2>4 DEF Telling, Broken
  <2> QED
    BY <2>5, <2>6 DEF GoesOn, Outcome, Promise!Decided, Promise!Told
<1> QED
  BY <1>3, <1>4, AllGoOn

LEMMA StepKeepsPromise ==
  DoorInv /\ [Next]_vars
    => [Promise!Next]_[i \in DOMAIN requests |-> Outcome(requests[i])]
<1> SUFFICES ASSUME DoorInv, [Next]_vars
             PROVE  Promise!Next
  OBVIOUS
<1>1. requests \in Seq(Request)
  BY DEF DoorInv, Types
<1>2. CASE UNCHANGED requests
  <2>1. \A i \in DOMAIN requests : GoesOn(requests[i], requests'[i])
    BY <1>2, StaysGoesOn
  <2> QED
    BY <1>2, <2>1, AllGoOn
<1>3. ASSUME NEW from, NEW l, NEW h,
             requests' = Append(requests, NewRequest(from, l, h))
      PROVE  Promise!Next
  <2>1. Outcome(NewRequest(from, l, h)) = Promise!Asked
    BY DEF Outcome, Decision, Telling, NewRequest, Promise!Asked
  <2> HIDE DEF NewRequest
  <2> QED
    BY <1>1, <1>3, <2>1, NewIsAsked
<1>4. ASSUME NEW i \in DOMAIN requests, RequestStep(i)
      PROVE  Promise!Next
  <2>1. "Denied" \in Results
    BY DEF Results
  <2> QED
    BY <1>4, <2>1, DecideGoesOn, FailureGoesOn DEF RequestStep
<1>5. ASSUME NEW i \in DOMAIN requests, Inject(i) \/ Reply(i) \/ ReplyFails(i)
      PROVE  Promise!Next
  BY <1>5, InjectGoesOn, ReplyGoesOn, FailureGoesOn
<1>6. ASSUME NEW c \in Clients, NEW h \in Hosts, NEW ok \in BOOLEAN, Connect(c, h, ok)
      PROVE  Promise!Next
  BY <1>2, <1>6 DEF Connect
<1>7. ASSUME NEW c \in Clients, NEW l \in Locks, Subscribe(c, l)
      PROVE  Promise!Next
  BY <1>2, <1>7 DEF Subscribe
<1>8. ASSUME NEW c \in Clients, NEW readable \in BOOLEAN, Publish(c, readable)
      PROVE  Promise!Next
  BY <1>3, <1>8 DEF Publish
<1>9. ASSUME NEW l \in Locks \cup {NoLock}, NEW h \in Hosts, Post(l, h)
      PROVE  Promise!Next
  BY <1>3, <1>9 DEF Post
<1>10. ASSUME NEW l \in Locks \cup {NoLock}, NEW h \in Hosts, Place(l, h)
       PROVE  Promise!Next
  BY <1>2, <1>10 DEF Place
<1>11. ASSUME NEW l \in Locks \cup {NoLock}, Collect(l)
       PROVE  Promise!Next
  BY <1>2, <1>11 DEF Collect
<1>12. CASE UNCHANGED vars
  BY <1>2, <1>12 DEF vars
<1> QED
  BY <1>4, <1>5, <1>6, <1>7, <1>8, <1>9, <1>10, <1>11, <1>12,
     DisconnectGoesOn, CrashGoesOn DEF Next

LEMMA InitKeepsPromise == Init => Promise!Init
<1> SUFFICES ASSUME Init
             PROVE  [i \in DOMAIN requests |-> Outcome(requests[i])] = <<>>
  BY DEF Promise!Init
<1>1. requests = <<>> /\ DOMAIN requests = {}
  BY DEF Init
<1> QED
  BY <1>1

-----------------------------------------------------------------------------
(* Requests only go on: what fairness has to bring about, each step of a    *)
(* request brings nearer, and no other step takes it back.                 *)

Stage(r) == CASE r.state = "called" -> 2
              [] r.state = "injecting" -> 1
              [] OTHER -> 0

Advances(q, r) ==
  /\ r.from = q.from /\ r.lock = q.lock /\ r.entry = q.entry
  /\ Stage(r) <= Stage(q)
  /\ q.state # "called" => r.answer = q.answer
  /\ q.reply # 0 => r.reply = q.reply /\ r.said = q.said

RequestAdvances(i) ==
  /\ i \in DOMAIN requests'
  /\ Advances(requests[i], requests'[i])
  /\ RequestStep(i) \/ Inject(i) => Stage(requests'[i]) < Stage(requests[i])
  /\ Reply(i) \/ ReplyFails(i) => requests'[i].reply # 0

Advancing ==
  \A i \in DOMAIN requests :
    i \in DOMAIN requests' /\ Advances(requests[i], requests'[i])

LEMMA StageStays ==
  ASSUME NEW q, NEW r, r.state = q.state
  PROVE  Stage(r) <= Stage(q)
BY DEF Stage

LEMMA StayingAdvances == \A q : Advances(q, q)
BY StageStays DEF Advances

LEMMA OneAdvances ==
  ASSUME NEW i \in DOMAIN requests, NEW r, Advances(requests[i], r),
         requests' = [requests EXCEPT ![i] = r]
  PROVE  Advancing /\ requests'[i] = r
<1>1. /\ DOMAIN requests' = DOMAIN requests
      /\ requests'[i] = r
      /\ \A j \in DOMAIN requests : j # i => requests'[j] = requests[j]
  OBVIOUS
<1> QED
  BY <1>1, StayingAdvances DEF Advancing

LEMMA AppendAdvances ==
  ASSUME requests \in Seq(Request), NEW r, requests' = Append(requests, r)
  PROVE  Advancing
<1>1. \A j \in DOMAIN requests :
        j \in DOMAIN requests' /\ requests'[j] = requests[j]
  OBVIOUS
<1> QED
  BY <1>1, StayingAdvances DEF Advancing

LEMMA DecideAdvances ==
  ASSUME DoorInv, NEW i \in DOMAIN requests, RequestStep(i)
  PROVE  Advancing /\ Stage(requests'[i]) < Stage(requests[i])
<1> DEFINE q == requests[i]
<1>1. q \in Request /\ q.state = "called"
  <2>1. q \in Request
    BY DEF DoorInv, Types
  <2>2. q.state = "called"
    BY DEF RequestStep, DecideUnknown, Decide, DecideUnchecked, CallFails
  <2> QED
    BY <2>1, <2>2
<1>2. PICK r : /\ requests' = [requests EXCEPT ![i] = r]
               /\ r.from = q.from /\ r.lock = q.lock /\ r.entry = q.entry
               /\ r.state \in {"injecting", "over"}
               /\ q.reply # 0 => r.reply = q.reply
               /\ r.said = q.said
  <2>1. CASE DecideUnknown(i)
    <3> DEFINE r == [q EXCEPT !.state = "over", !.answer = "Denied",
                              !.host = place[NoLock]]
    <3>1. requests' = [requests EXCEPT ![i] = r]
      BY <1>1, <2>1 DEF DecideUnknown, Request
    <3>2. /\ r.from = q.from /\ r.lock = q.lock /\ r.entry = q.entry
          /\ r.state = "over" /\ r.reply = q.reply /\ r.said = q.said
      BY <1>1 DEF Request
    <3> QED
      BY <3>1, <3>2
  <2>2. ASSUME NEW result \in Results, Decide(i, result)
        PROVE  \E r : /\ requests' = [requests EXCEPT ![i] = r]
                      /\ r.from = q.from /\ r.lock = q.lock /\ r.entry = q.entry
                      /\ r.state \in {"injecting", "over"}
                      /\ q.reply # 0 => r.reply = q.reply
                      /\ r.said = q.said
    <3> DEFINE r == [q EXCEPT !.state = "injecting", !.answer = result,
                              !.host = place[q.lock], !.owed = Listeners(q.lock)]
    <3>1. requests' = [requests EXCEPT ![i] = r]
      BY <1>1, <2>2 DEF Decide, DecideUnchecked, Request
    <3>2. /\ r.from = q.from /\ r.lock = q.lock /\ r.entry = q.entry
          /\ r.state = "injecting" /\ r.reply = q.reply /\ r.said = q.said
      BY <1>1 DEF Request
    <3> QED
      BY <3>1, <3>2
  <2>3. CASE CallFails(i)
    <3> DEFINE s == IF q.reply = 0 THEN FailureStatus(q) ELSE q.reply
               r == [q EXCEPT !.state = "over", !.reply = s]
    <3>1. requests' = [requests EXCEPT ![i] = r]
      BY <1>1, <2>3 DEF CallFails, Request
    <3>2. /\ r.from = q.from /\ r.lock = q.lock /\ r.entry = q.entry
          /\ r.state = "over" /\ r.reply = s /\ r.said = q.said
      BY <1>1 DEF Request
    <3> QED
      BY <3>1, <3>2
  <2> QED
    BY <2>1, <2>2, <2>3 DEF RequestStep
<1>3. Stage(q) = 2 /\ Stage(r) \in {0, 1}
  BY <1>1, <1>2 DEF Stage
<1>4. Advances(q, r)
  BY <1>1, <1>2, <1>3 DEF Advances
<1>5. Advancing /\ requests'[i] = r
  BY <1>2, <1>4, OneAdvances
<1> QED
  BY <1>3, <1>5

LEMMA InjectAdvances ==
  ASSUME DoorInv, NEW i \in DOMAIN requests, Inject(i)
  PROVE  Advancing /\ Stage(requests'[i]) < Stage(requests[i])
<1> DEFINE q == requests[i]
           hearing == {c \in Subscribed(q) : session[c] = q.host}
           r == [q EXCEPT !.state = "over", !.owed = @ \ hearing]
<1>1. q \in Request
  BY DEF DoorInv, Types
<1>2. requests' = [requests EXCEPT ![i] = r] /\ q.state = "injecting"
  BY <1>1 DEF Inject, Request
<1>3. /\ r.from = q.from /\ r.lock = q.lock /\ r.entry = q.entry
      /\ r.state = "over" /\ r.answer = q.answer /\ r.reply = q.reply
      /\ r.said = q.said
  BY <1>1 DEF Request
<1> HIDE DEF r
<1>4. Stage(q) = 1 /\ Stage(r) = 0
  BY <1>2, <1>3 DEF Stage
<1>5. Advances(q, r)
  BY <1>3, <1>4 DEF Advances
<1>6. Advancing /\ requests'[i] = r
  BY <1>2, <1>5, OneAdvances
<1> QED
  BY <1>4, <1>6

LEMMA ReplyAdvances ==
  ASSUME DoorInv, NEW i \in DOMAIN requests, Reply(i) \/ ReplyFails(i)
  PROVE  Advancing /\ requests'[i].reply # 0
<1> DEFINE q == requests[i]
<1>1. q \in Request /\ q.reply = 0 /\ q.from = Nobody
  BY DEF DoorInv, Types, Reply, ReplyFails
<1>2. PICK r : /\ requests' = [requests EXCEPT ![i] = r]
               /\ r.from = q.from /\ r.lock = q.lock /\ r.entry = q.entry
               /\ r.state = q.state /\ r.answer = q.answer
               /\ r.reply # 0
  <2>1. CASE Reply(i)
    <3> DEFINE r == [q EXCEPT !.reply = 200, !.said = q.answer]
    <3>1. requests' = [requests EXCEPT ![i] = r]
      <4>1. requests' = [requests EXCEPT ![i].reply = 200, ![i].said = q.answer]
        BY <2>1 DEF Reply
      <4> QED
        BY <4>1
    <3>2. /\ r.from = q.from /\ r.lock = q.lock /\ r.entry = q.entry
          /\ r.state = q.state /\ r.answer = q.answer /\ r.reply = 200
      BY <1>1 DEF Request
    <3> HIDE DEF r
    <3>3. r.reply # 0
      BY <3>2
    <3> QED
      BY <3>1, <3>2, <3>3
  <2>2. CASE ReplyFails(i)
    <3> DEFINE r == [q EXCEPT !.reply = FailureStatus(q)]
    <3>1. requests' = [requests EXCEPT ![i] = r]
      BY <1>1, <2>2 DEF ReplyFails, Request
    <3>2. /\ r.from = q.from /\ r.lock = q.lock /\ r.entry = q.entry
          /\ r.state = q.state /\ r.answer = q.answer
          /\ r.reply = FailureStatus(q)
      BY <1>1 DEF Request
    <3>3. FailureStatus(q) # 0
      BY <1>1 DEF FailureStatus
    <3> QED
      BY <3>1, <3>2, <3>3
  <2> QED
    BY <2>1, <2>2
<1>3. Advances(q, r)
  BY <1>1, <1>2, StageStays DEF Advances
<1> QED
  BY <1>2, <1>3, OneAdvances

LEMMA DisconnectAdvances ==
  ASSUME DoorInv, NEW c \in Clients, Disconnect(c)
  PROVE  Advancing
<1>1. DOMAIN requests' = DOMAIN requests
  BY DEF Disconnect, Forgive
<1>2. ASSUME NEW i \in DOMAIN requests PROVE Advances(requests[i], requests'[i])
  <2> DEFINE q == requests[i]
             r == requests'[i]
  <2>1. q \in Request /\ r = [q EXCEPT !.owed = @ \ {c}]
    BY DEF Disconnect, Forgive, DoorInv, Types
  <2>2. /\ r.from = q.from /\ r.lock = q.lock /\ r.entry = q.entry
        /\ r.state = q.state /\ r.answer = q.answer /\ r.reply = q.reply
        /\ r.said = q.said
    BY <2>1 DEF Request
  <2> QED
    BY <2>2, StageStays DEF Advances
<1> QED
  BY <1>1, <1>2 DEF Advancing

LEMMA CrashAdvances ==
  ASSUME DoorInv, NEW h \in Hosts, Crash(h)
  PROVE  Advancing
<1> DEFINE gone == {c \in Clients : session[c] = h}
           left(i) == [requests[i] EXCEPT !.owed = @ \ gone]
           Unsent(r) == r.state = "injecting" /\ r.host = h
           Cut(r) == r.from = Nobody /\ r.entry = h /\ r.reply = 0
<1>1. requests' = [i \in DOMAIN requests |->
                     [left(i) EXCEPT !.state = IF Unsent(left(i)) THEN "over" ELSE @,
                                     !.reply = IF Cut(left(i)) THEN Broken ELSE @]]
  <2>1. Forgive(gone) = [i \in DOMAIN requests |-> left(i)]
    BY DEF Forgive
  <2>2. \A i \in DOMAIN requests : Forgive(gone)[i] = left(i)
    BY <2>1
  <2> QED
    BY <2>2 DEF Crash
<1>2. DOMAIN requests' = DOMAIN requests
  BY <1>1
<1>3. ASSUME NEW i \in DOMAIN requests PROVE Advances(requests[i], requests'[i])
  <2> DEFINE q == requests[i]
             p == left(i)
             r == requests'[i]
  <2>1. q \in Request
    BY DEF DoorInv, Types
  <2>2. /\ p \in [{"from", "lock", "entry", "state", "host", "answer", "reply",
                   "said", "owed"} -> {p[f] : f \in DOMAIN p}]
        /\ p.from = q.from /\ p.lock = q.lock /\ p.entry = q.entry
        /\ p.state = q.state /\ p.answer = q.answer /\ p.reply = q.reply
        /\ p.said = q.said
    BY <2>1 DEF Request
  <2>3. r = [p EXCEPT !.state = IF Unsent(p) THEN "over" ELSE p.state,
                      !.reply = IF Cut(p) THEN Broken ELSE p.reply]
    BY <1>1, <2>2
  <2> HIDE DEF p
  <2>4. /\ r.from = p.from /\ r.lock = p.lock /\ r.entry = p.entry
        /\ r.answer = p.answer /\ r.said = p.said
        /\ r.state = IF Unsent(p) THEN "over" ELSE p.state
        /\ r.reply = IF Cut(p) THEN Broken ELSE p.reply
    BY <2>2, <2>3
  <2>5. Stage(r) <= Stage(q)
    BY <2>2, <2>4 DEF Stage
  <2>6. q.reply # 0 => r.reply = q.reply
    BY <2>2, <2>4
  <2> QED
    BY <2>2, <2>4, <2>5, <2>6 DEF Advances
<1> QED
  BY <1>2, <1>3 DEF Advancing

LEMMA StepAdvances == DoorInv /\ [Next]_vars => Advancing
<1> SUFFICES ASSUME DoorInv, [Next]_vars
             PROVE  Advancing
  OBVIOUS
<1>1. requests \in Seq(Request)
  BY DEF DoorInv, Types
<1>2. CASE UNCHANGED requests
  BY <1>2, StayingAdvances DEF Advancing
<1>3. ASSUME NEW c \in Clients, NEW readable \in BOOLEAN, Publish(c, readable)
      PROVE  Advancing
  BY <1>1, <1>3, AppendAdvances DEF Publish
<1>4. ASSUME NEW l \in Locks \cup {NoLock}, NEW h \in Hosts, Post(l, h)
      PROVE  Advancing
  BY <1>1, <1>4, AppendAdvances DEF Post
<1>5. ASSUME NEW c \in Clients, NEW h \in Hosts, NEW ok \in BOOLEAN, Connect(c, h, ok)
      PROVE  Advancing
  BY <1>2, <1>5 DEF Connect
<1>6. ASSUME NEW c \in Clients, NEW l \in Locks, Subscribe(c, l)
      PROVE  Advancing
  BY <1>2, <1>6 DEF Subscribe
<1>7. ASSUME NEW l \in Locks \cup {NoLock}, NEW h \in Hosts, Place(l, h)
      PROVE  Advancing
  BY <1>2, <1>7 DEF Place
<1>8. ASSUME NEW l \in Locks \cup {NoLock}, Collect(l)
      PROVE  Advancing
  BY <1>2, <1>8 DEF Collect
<1>9. CASE UNCHANGED vars
  BY <1>2, <1>9 DEF vars
<1> QED
  BY <1>3, <1>4, <1>5, <1>6, <1>7, <1>8, <1>9, DecideAdvances, InjectAdvances,
     ReplyAdvances, DisconnectAdvances, CrashAdvances DEF Next

-----------------------------------------------------------------------------
(* What is sent is about a row of table Locks, and every value is of its    *)
(* kind (LockGrain.cs:28-33, MqttHostedService.cs:54).                      *)
THEOREM DoorTypeCorrect == Spec => []TypeOK
<1>1. DoorInv => TypeOK
  BY DEF DoorInv, Types, Sound, TypeOK
<1> QED
  BY <1>1, DoorInvariant, PTL

(* Nobody is told a result the grain has not decided for the very request.  *)
(* Neither the filter nor the middleware makes an answer of an exception,   *)
(* and the controller awaits (LocksController.cs:41-43,                    *)
(* LoggingCallFilter.cs:20-24).                                            *)
THEOREM AnswersAreDecisions == Spec => []RepliesAreDecisions
<1>1. DoorInv => RepliesAreDecisions
  BY DEF DoorInv, Sound, RepliesAreDecisions
<1> QED
  BY <1>1, DoorInvariant, PTL

(* Whoever listens to a lock on the host of its activation from a decision  *)
(* on has heard of it when the request is over, however many requests and   *)
(* clients there are (MqttHostedService.cs:54-66).                         *)
THEOREM ListenersAreServed == Spec => []ListenersHear
<1>1. DoorInv => ListenersHear
  BY DEF DoorInv, Sound, ListenersHear
<1> QED
  BY <1>1, DoorInvariant, PTL

(* Whatever fails, is late or crashes, hosts, grains and the gateway        *)
(* together keep the promise of AccessPromise: one decision for a request,  *)
(* and one answer, which is that decision or a failure                     *)
(* (LocksController.cs:41-43, MqttHostedService.cs:113).                   *)
THEOREM DoorKeepsPromise == Spec => ImplementsPromise
<1> QED
  BY InitKeepsPromise, StepKeepsPromise, DoorInvariant, PTL
  DEF Spec, ImplementsPromise, Promise!Spec

(* The safety half of EveryRequestEnds, for any number of requests and      *)
(* hosts.  A request is never lost, never goes back a stage, and neither    *)
(* its answer nor its reply changes any more; each call of a grain and each *)
(* injection brings it a stage nearer its end, each reply or failure gives  *)
(* the caller something.  Crashes, timeouts and reconnections undo nothing  *)
(* of it (LocksController.cs:41-43, MqttHostedService.cs:54-66 and 113).    *)
THEOREM RequestsAdvance ==
  Spec => [][\A i \in DOMAIN requests : RequestAdvances(i)]_vars
<1>1. DoorInv /\ [Next]_vars => [\A i \in DOMAIN requests : RequestAdvances(i)]_vars
  <2> SUFFICES ASSUME DoorInv, [Next]_vars, NEW i \in DOMAIN requests
               PROVE  RequestAdvances(i)
    OBVIOUS
  <2> QED
    BY StepAdvances, DecideAdvances, InjectAdvances, ReplyAdvances
    DEF RequestAdvances, Advancing
<1> QED
  BY <1>1, DoorInvariant, PTL DEF Spec
=============================================================================
