---------------------------- MODULE SSEBroadcast ----------------------------
(***************************************************************************)
(* The event stream of the dashboards (app/services/sse_service.py).       *)
(*                                                                         *)
(* A subscriber is registered under its restaurant or as an admin, and has *)
(* a bounded queue.  An event is put into the queues of those it concerns; *)
(* a queue that is full marks its connection as not connected and loses    *)
(* the event.  A generator per subscriber takes events from the queue and  *)
(* hands them to the HTTP response, which blocks for as long as the client *)
(* does not read.                                                          *)
(*                                                                         *)
(* Everything runs on the event loop.  connect, disconnect and a broadcast *)
(* take the service's lock but never suspend while they hold it or while   *)
(* they fill the queues, so each is one step.  The generator suspends at   *)
(* queue.get() and at yield.  An event is its number in order of emission. *)
(***************************************************************************)
EXTENDS Naturals, Sequences

CONSTANTS
  Clients,      \* subscriptions
  Restaurants,
  Admin,        \* stands for the administrators
  Everyone,     \* addressee of an event that is for all connections
  Subscribed,   \* the restaurant of a subscription, or Admin
  Readers,      \* clients that read what they are sent
  Capacity,     \* of a queue: 100
  MaxEvents     \* bound: events emitted

ASSUME SSEAssumption ==
  /\ Subscribed \in [Clients -> Restaurants \cup {Admin}]
  /\ Admin \notin Restaurants /\ Everyone \notin Restaurants /\ Everyone # Admin
  /\ Readers \subseteq Clients
  /\ Capacity \in Nat \ {0}
  /\ MaxEvents \in Nat

(* Whom an event is for: a restaurant, with or without the admins, the      *)
(* admins alone (a bulk kill switch), or everyone (a heartbeat).            *)
Kinds == [to : Restaurants, withAdmins : BOOLEAN]
           \cup [to : {Admin, Everyone}, withAdmins : {TRUE}]

Meant(x, k) == \/ k.to = Everyone
               \/ k.to = Subscribed[x]
               \/ k.withAdmins /\ Subscribed[x] = Admin

VARIABLES
  connections,   \* registered subscriptions
  byRestaurant,  \* restaurant_connections
  admins,        \* admin_connections
  connected,     \* SSEConnection.connected
  queue,         \* SSEConnection.queue
  stream,        \* where the generator of a subscription is
  owed, given,   \* history: events for it while connected; events taken
  count          \* events emitted

registry == <<connections, byRestaurant, admins>>
vars == <<registry, connected, queue, stream, owed, given, count>>

\* lost: the generator never began.  closing: left at a yield, finalized soon.
Streams == {"none", "opened", "waiting", "sending", "closing", "lost", "ended"}

Init ==
  /\ connections = {}
  /\ byRestaurant = [r \in Restaurants |-> {}]
  /\ admins = {}
  /\ connected = [x \in Clients |-> FALSE]
  /\ queue = [x \in Clients |-> <<>>]
  /\ stream = [x \in Clients |-> "none"]
  /\ owed = [x \in Clients |-> <<>>]
  /\ given = [x \in Clients |-> <<>>]
  /\ count = 0

-----------------------------------------------------------------------------
(* The registry. *)

Connect(x) ==
  /\ stream[x] = "none"
  /\ stream' = [stream EXCEPT ![x] = "opened"]
  /\ connections' = connections \cup {x}
  /\ admins' = IF Subscribed[x] = Admin THEN admins \cup {x} ELSE admins
  /\ byRestaurant' = [r \in Restaurants |->
       IF Subscribed[x] = r THEN byRestaurant[r] \cup {x} ELSE byRestaurant[r]]
  /\ connected' = [connected EXCEPT ![x] = TRUE]
  /\ UNCHANGED <<queue, owed, given, count>>

(* Mutant: the connection is forgotten, its index entries stay. *)
ForgetfulDisconnect(X) ==
  /\ connections' = connections \ X
  /\ connected' = [x \in Clients |-> connected[x] /\ x \notin X]
  /\ UNCHANGED <<admins, byRestaurant>>

(* disconnect, of each connection of X. *)
Disconnect(X) ==
  /\ connections' = connections \ X
  /\ connected' = [x \in Clients |-> connected[x] /\ x \notin X]
  /\ admins' = admins \ X
  /\ byRestaurant' = [r \in Restaurants |-> byRestaurant[r] \ X]

-----------------------------------------------------------------------------
(* Emission. *)

Indexed(r) == IF r \in Restaurants THEN byRestaurant[r] ELSE {}

(* Mutant: include_admin is ignored. *)
AdminsToo(k) == IF k.to = Everyone THEN connections
                ELSE Indexed(k.to) \cup admins

(* The connections a broadcast looks up. *)
Addressed(k) ==
  IF k.to = Everyone THEN connections
  ELSE Indexed(k.to) \cup (IF k.withAdmins THEN admins ELSE {})

Full(x) == Len(queue[x]) >= Capacity

(* Mutant: a full queue loses the event and its connection stays. *)
LenientPut(X) ==
  /\ queue' = [x \in Clients |-> IF x \in X /\ ~Full(x)
                                   THEN Append(queue[x], count + 1) ELSE queue[x]]
  /\ UNCHANGED connected

(* SSEConnection.send, to each connection of X. *)
Put(X) ==
  /\ queue' = [x \in Clients |-> IF x \in X /\ ~Full(x)
                                   THEN Append(queue[x], count + 1) ELSE queue[x]]
  /\ connected' = [x \in Clients |-> connected[x] /\ ~(x \in X /\ Full(x))]

(* A broadcast; owed records whom the event concerns. *)
Emit(k) ==
  /\ count < MaxEvents
  /\ count' = count + 1
  /\ Put({x \in Addressed(k) \cap connections : connected[x]})
  /\ owed' = [x \in Clients |-> IF connected[x] /\ Meant(x, k)
                                  THEN Append(owed[x], count + 1) ELSE owed[x]]
  /\ UNCHANGED <<registry, stream, given>>

-----------------------------------------------------------------------------
(* The generator of a subscription: event_stream. *)

Move(x, from, to) ==
  /\ stream[x] = from
  /\ stream' = [stream EXCEPT ![x] = to]

(* The response begins to iterate: the first test of connected. *)
Begin(x) ==
  /\ stream[x] = "opened"
  /\ IF connected[x]
       THEN /\ Move(x, "opened", "waiting")
            /\ UNCHANGED <<registry, connected>>
       ELSE /\ Move(x, "opened", "ended")
            /\ Disconnect({x})
  /\ UNCHANGED <<queue, owed, given, count>>

(* The client has gone before the response iterates: the body of the        *)
(* generator, and with it its finally, never runs.                          *)
NeverBegin(x) ==
  /\ Move(x, "opened", "lost")
  /\ UNCHANGED <<registry, connected, queue, owed, given, count>>

(* Mutant: the generator takes events in pairs. *)
PairTake(x) ==
  /\ Len(queue[x]) > 1
  /\ Move(x, "waiting", "sending")
  /\ given' = [given EXCEPT ![x] = @ \o <<queue[x][1], queue[x][2]>>]
  /\ queue' = [queue EXCEPT ![x] = Tail(Tail(@))]
  /\ UNCHANGED <<registry, connected, owed, count>>

(* queue.get() returns; connected is not tested in between. *)
Take(x) ==
  /\ queue[x] # <<>>
  /\ Move(x, "waiting", "sending")
  /\ given' = [given EXCEPT ![x] = Append(@, Head(queue[x]))]
  /\ queue' = [queue EXCEPT ![x] = Tail(@)]
  /\ UNCHANGED <<registry, connected, owed, count>>

(* Thirty seconds without an event, or an event just too late: a heartbeat  *)
(* of its own, not one of the numbered events.                              *)
Beat(x) ==
  /\ Move(x, "waiting", "sending")
  /\ UNCHANGED <<registry, connected, queue, owed, given, count>>

(* Mutant: a generator that finds itself disconnected leaves its entry. *)
LeavingSent(x) ==
  /\ Move(x, "sending", IF connected[x] THEN "waiting" ELSE "ended")
  /\ UNCHANGED <<registry, connected, queue, owed, given, count>>

(* The client has read: yield returns, connected is tested. *)
Sent(x) ==
  /\ IF connected[x]
       THEN /\ Move(x, "sending", "waiting")
            /\ UNCHANGED <<registry, connected>>
       ELSE /\ Move(x, "sending", "ended")
            /\ Disconnect({x})
  /\ UNCHANGED <<queue, owed, given, count>>

(* The client goes while the generator waits: it is cancelled there. *)
GoneWaiting(x) ==
  /\ Move(x, "waiting", "ended")
  /\ Disconnect({x})
  /\ UNCHANGED <<queue, owed, given, count>>

(* ... or while the response sends: the generator is dropped at its yield   *)
(* and its finally runs when the loop closes it.                            *)
GoneSending(x) ==
  /\ Move(x, "sending", "closing")
  /\ UNCHANGED <<registry, connected, queue, owed, given, count>>

Close(x) ==
  /\ Move(x, "closing", "ended")
  /\ Disconnect({x})
  /\ UNCHANGED <<queue, owed, given, count>>

(* shutdown: every connection is disconnected, the generators are not told. *)
Shutdown ==
  /\ connections # {}
  /\ Disconnect(connections)
  /\ UNCHANGED <<queue, stream, owed, given, count>>

-----------------------------------------------------------------------------
Next ==
  \/ Shutdown
  \/ \E k \in Kinds : Emit(k)
  \/ \E x \in Clients :
       \/ Connect(x) \/ Begin(x) \/ NeverBegin(x) \/ Take(x) \/ Beat(x)
       \/ Sent(x) \/ GoneWaiting(x) \/ GoneSending(x) \/ Close(x)

Spec == Init /\ [][Next]_vars

(* The server iterates or drops every response, the loop runs a generator   *)
(* whose get has an event (a get that finds one does not wait, so the       *)
(* timeout cannot beat it for ever), and a reader reads what it is sent.    *)
(* Nobody else is assumed to read.                                          *)
Fairness ==
  /\ \A x \in Clients : WF_vars(Begin(x) \/ NeverBegin(x)) /\ WF_vars(Close(x))
  /\ \A x \in Clients : WF_vars(Beat(x)) /\ SF_vars(Take(x))
  /\ \A x \in Readers : WF_vars(Sent(x))

FairSpec == Spec /\ Fairness

-----------------------------------------------------------------------------
(* Properties. *)

(* Every variable keeps its type, and no queue outgrows its capacity. *)
TypeOK ==
  /\ connections \subseteq Clients /\ admins \subseteq Clients
  /\ byRestaurant \in [Restaurants -> SUBSET Clients]
  /\ connected \in [Clients -> BOOLEAN]
  /\ queue \in [Clients -> Seq(Nat)]
  /\ stream \in [Clients -> Streams]
  /\ owed \in [Clients -> Seq(Nat)]
  /\ given \in [Clients -> Seq(Nat)]
  /\ count \in 0..MaxEvents
  /\ \A x \in Clients : Len(queue[x]) <= Capacity

(* connections, restaurant_connections and admin_connections always tell    *)
(* the same story, and nothing is connected that is not registered: a       *)
(* broadcast that looks up an index misses nobody and reaches nobody else.  *)
IndexesAgree ==
  /\ admins = {x \in connections : Subscribed[x] = Admin}
  /\ byRestaurant = [r \in Restaurants |-> {x \in connections : Subscribed[x] = r}]
  /\ \A x \in Clients : connected[x] => x \in connections

(* Whoever is no longer served is not in the registry either, but for the   *)
(* subscribers whose generator never began.                                 *)
NoStaleEntry ==
  \A x \in connections : stream[x] \notin {"none", "ended"}

(* The registry has whoever is served in all of its indexes, and nobody who *)
(* no longer is.                                                            *)
RegistryAgrees == IndexesAgree /\ NoStaleEntry

(* What a subscriber was given and what its queue holds is, in order, what  *)
(* it is owed: all of it while it is connected, a prefix once it was        *)
(* dropped.                                                                 *)
QueueIsRest ==
  \A x \in Clients :
    LET n == Len(given[x]) m == Len(queue[x]) IN
    /\ n + m <= Len(owed[x])
    /\ connected[x] => n + m = Len(owed[x])
    /\ \A i \in 1..n : given[x][i] = owed[x][i]
    /\ \A i \in 1..m : queue[x][i] = owed[x][n + i]

(* The service implements EventFeed: a subscriber gets the events that      *)
(* concern it, from its connect on, in order, none skipped, none twice, and *)
(* one that is too slow gets a prefix of them.                              *)
Member == [x \in Clients |-> IF stream[x] = "none" THEN "before"
                             ELSE IF connected[x] THEN "in" ELSE "out"]

Feed == INSTANCE EventFeed WITH member <- Member, got <- given

FeedSpec == Feed!Spec

(* A client that reads is given each event it is owed, or is dropped; its   *)
(* generator does not hang with events in the queue.                        *)
CaughtUp ==
  \A x \in Readers, n \in 1..MaxEvents :
    Len(owed[x]) >= n ~> \/ Len(given[x]) >= n
                         \/ ~connected[x]
                         \/ stream[x] \in {"closing", "lost"}
=============================================================================
