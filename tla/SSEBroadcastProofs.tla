------------------------ MODULE SSEBroadcastProofs --------------------------
(***************************************************************************)
(* SSEBroadcast keeps its registry and its queues in order, for every set  *)
(* of clients, every capacity and every bound, and implements EventFeed.   *)
(***************************************************************************)
EXTENDS SSEBroadcast, TLAPS, SequenceTheorems

(* A subscriber that connects is owed nothing yet.                          *)
Fresh == \A x \in Clients :
  stream[x] = "none" => owed[x] = <<>> /\ queue[x] = <<>> /\ given[x] = <<>>

(* The inductive invariant: no part of it is inductive by itself.  A        *)
(* broadcast appends to the queues of those the indexes name, so that       *)
(* QueueIsRest needs IndexesAgree; that nobody new is connected already     *)
(* is in NoStaleEntry.                                                      *)
Inv ==
  /\ Fresh
  /\ TypeOK
  /\ IndexesAgree
  /\ NoStaleEntry
  /\ QueueIsRest

USE SSEAssumption

LEMMA InitInv == Init => Inv
  BY DEF Init, Inv, Fresh, TypeOK, IndexesAgree, NoStaleEntry, QueueIsRest, Streams

-----------------------------------------------------------------------------
(* The registry part alone: what a step makes of the registry. *)

Registry == /\ connections \subseteq Clients
            /\ connected \in [Clients -> BOOLEAN]
            /\ stream \in [Clients -> Streams]
            /\ IndexesAgree
            /\ NoStaleEntry

(* Disconnecting whoever is to go keeps the indexes together. *)
LEMMA DisconnectKeepsRegistry ==
  ASSUME Registry, NEW X \in SUBSET Clients, Disconnect(X),
         stream' \in [Clients -> Streams],
         \A x \in Clients \ X : stream'[x] \notin {"none", "ended"}
                                  \/ stream'[x] = stream[x]
  PROVE  /\ Registry'
         /\ admins' \subseteq Clients
         /\ byRestaurant' \in [Restaurants -> SUBSET Clients]
<1> USE DEF Registry, Disconnect, IndexesAgree
<1>1. connections' \subseteq Clients /\ connected' \in [Clients -> BOOLEAN]
  OBVIOUS
<1>2. admins' = {x \in connections' : Subscribed[x] = Admin}
  OBVIOUS
<1>3. byRestaurant' = [r \in Restaurants |-> {x \in connections' : Subscribed[x] = r}]
  OBVIOUS
<1>4. \A x \in Clients : connected'[x] => x \in connections'
  OBVIOUS
<1>5. NoStaleEntry'
  BY DEF NoStaleEntry
<1> QED BY <1>1, <1>2, <1>3, <1>4, <1>5

(* A subscriber that is put on record is found by its own index alone. *)
LEMMA ConnectKeepsRegistry ==
  ASSUME Registry, NEW x \in Clients, Connect(x)
  PROVE  /\ Registry'
         /\ admins' \subseteq Clients
         /\ byRestaurant' \in [Restaurants -> SUBSET Clients]
<1> USE DEF Registry, Connect, IndexesAgree
<1>1. /\ connections' \subseteq Clients /\ connected' \in [Clients -> BOOLEAN]
      /\ stream' \in [Clients -> Streams]
  BY DEF Streams
<1>2. admins' = {y \in connections' : Subscribed[y] = Admin}
  OBVIOUS
<1>3. byRestaurant' = [r \in Restaurants |-> {y \in connections' : Subscribed[y] = r}]
  OBVIOUS
<1>4. \A y \in Clients : connected'[y] => y \in connections'
  OBVIOUS
<1>5. NoStaleEntry'
  BY DEF NoStaleEntry
<1> QED BY <1>1, <1>2, <1>3, <1>4, <1>5

(* A step of a generator that leaves the registry alone. *)
LEMMA MoveKeepsRegistry ==
  ASSUME Registry, UNCHANGED registry, UNCHANGED connected,
         NEW x \in Clients, NEW s \in Streams \ {"none", "ended"},
         stream' = [stream EXCEPT ![x] = s]
  PROVE  Registry'
BY DEF Registry, IndexesAgree, NoStaleEntry, registry

-----------------------------------------------------------------------------
(* The queues. *)

(* Whom a broadcast looks up is whom the event concerns. *)
LEMMA AddressedIsMeant ==
  ASSUME Registry, NEW k \in Kinds
  PROVE  {x \in Addressed(k) \cap connections : connected[x]}
           = {x \in Clients : connected[x] /\ Meant(x, k)}
<1> USE DEF Registry, IndexesAgree
<1>1. CASE k.to = Everyone
  BY <1>1 DEF Addressed, Meant
<1>2. CASE k.to = Admin
  <2>1. k.to \notin Restaurants /\ k.to # Everyone /\ k.withAdmins
    BY <1>2 DEF Kinds
  <2>2. Addressed(k) = admins
    BY <2>1 DEF Addressed, Indexed
  <2> QED BY <1>2, <2>2 DEF Meant
<1>3. CASE k.to \in Restaurants
  <2>1. Addressed(k) = byRestaurant[k.to] \cup (IF k.withAdmins THEN admins ELSE {})
    BY <1>3 DEF Addressed, Indexed
  <2>2. \A x \in Clients : Meant(x, k) <=> \/ Subscribed[x] = k.to
                                           \/ k.withAdmins /\ Subscribed[x] = Admin
    BY <1>3 DEF Meant
  <2> QED BY <2>1, <2>2, <1>3
<1> QED BY <1>1, <1>2, <1>3 DEF Kinds

(* What QueueIsRest says of one subscriber: given g, queue q, owed o, and   *)
(* c if it is connected.                                                    *)
Rest(g, q, o, c) ==
  /\ Len(g) + Len(q) <= Len(o)
  /\ c => Len(g) + Len(q) = Len(o)
  /\ \A i \in 1..Len(g) : g[i] = o[i]
  /\ \A i \in 1..Len(q) : q[i] = o[Len(g) + i]

LEMMA RestIsAll ==
  QueueIsRest <=> \A x \in Clients : Rest(given[x], queue[x], owed[x], connected[x])
  BY DEF QueueIsRest, Rest

LEMMA AppendFacts ==
  ASSUME NEW s \in Seq(Nat), NEW e \in Nat
  PROVE  /\ Append(s, e) \in Seq(Nat) /\ Len(s) \in Nat
         /\ Len(Append(s, e)) = Len(s) + 1
         /\ Append(s, e)[Len(s) + 1] = e
         /\ \A i \in 1..Len(s) : Append(s, e)[i] = s[i]
  OBVIOUS

(* An event that is queued as it is owed. *)
LEMMA QueuedRest ==
  ASSUME NEW g \in Seq(Nat), NEW q \in Seq(Nat), NEW o \in Seq(Nat), NEW e \in Nat,
         Rest(g, q, o, TRUE)
  PROVE  Rest(g, Append(q, e), Append(o, e), TRUE)
<1> DEFINE q2 == Append(q, e)
           o2 == Append(o, e)
<1>1. /\ Len(q2) = Len(q) + 1 /\ Len(o2) = Len(o) + 1
      /\ q2[Len(q) + 1] = e /\ o2[Len(o) + 1] = e
      /\ \A i \in 1..Len(q) : q2[i] = q[i]
      /\ \A i \in 1..Len(o) : o2[i] = o[i]
      /\ Len(g) \in Nat /\ Len(q) \in Nat /\ Len(o) \in Nat
  BY AppendFacts
<1> HIDE DEF q2, o2
<1>2. /\ Len(g) + Len(q) = Len(o)
      /\ \A i \in 1..Len(g) : g[i] = o[i]
      /\ \A i \in 1..Len(q) : q[i] = o[Len(g) + i]
  BY DEF Rest
<1>3. \A i \in 1..Len(g) : g[i] = o2[i]
  BY <1>1, <1>2
<1>4. ASSUME NEW i \in 1..Len(q2) PROVE q2[i] = o2[Len(g) + i]
  <2>1. CASE i = Len(q) + 1
    <3>1. Len(g) + i = Len(o) + 1
      BY <1>1, <1>2, <2>1
    <3> QED BY <3>1, <1>1, <2>1
  <2>2. CASE i \in 1..Len(q)
    <3>1. Len(g) + i \in 1..Len(o)
      BY <1>1, <1>2, <2>2
    <3> QED BY <3>1, <1>1, <1>2, <2>2
  <2>3. i = Len(q) + 1 \/ i \in 1..Len(q)
    <3>1. Len(q) \in Nat /\ i \in 1..(Len(q) + 1)
      BY <1>1
    <3> QED BY <3>1
  <2> QED BY <2>1, <2>2, <2>3
<1>5. Rest(g, q2, o2, TRUE)
  BY <1>1, <1>2, <1>3, <1>4 DEF Rest
<1> QED BY <1>5 DEF q2, o2

(* An event that is owed to someone who is dropped. *)
LEMMA DroppedRest ==
  ASSUME NEW g \in Seq(Nat), NEW q \in Seq(Nat), NEW o \in Seq(Nat), NEW e \in Nat,
         NEW c \in BOOLEAN, Rest(g, q, o, c)
  PROVE  Rest(g, q, Append(o, e), FALSE)
<1> DEFINE o2 == Append(o, e)
<1>1. /\ Len(o2) = Len(o) + 1
      /\ \A i \in 1..Len(o) : o2[i] = o[i]
      /\ Len(g) \in Nat /\ Len(q) \in Nat /\ Len(o) \in Nat
  BY AppendFacts
<1> HIDE DEF o2
<1>2. /\ Len(g) + Len(q) <= Len(o)
      /\ \A i \in 1..Len(g) : g[i] = o[i]
      /\ \A i \in 1..Len(q) : q[i] = o[Len(g) + i]
  BY DEF Rest
<1>3. \A i \in 1..Len(g) : g[i] = o2[i]
  BY <1>1, <1>2
<1>4. ASSUME NEW i \in 1..Len(q) PROVE q[i] = o2[Len(g) + i]
  <2>1. Len(g) + i \in 1..Len(o)
    BY <1>1, <1>2
  <2> QED BY <2>1, <1>1, <1>2
<1>5. Rest(g, q, o2, FALSE)
  BY <1>1, <1>2, <1>3, <1>4 DEF Rest
<1> QED BY <1>5 DEF o2

(* An event that moves from the head of the queue to the end of what was    *)
(* given.                                                                   *)
LEMMA TakenRest ==
  ASSUME NEW g \in Seq(Nat), NEW q \in Seq(Nat), NEW o \in Seq(Nat),
         NEW c \in BOOLEAN, Rest(g, q, o, c), q # <<>>
  PROVE  /\ Rest(Append(g, Head(q)), Tail(q), o, c)
         /\ Len(g) < Len(o) /\ Head(q) = o[Len(g) + 1]
<1> DEFINE g2 == Append(g, Head(q))
           q2 == Tail(q)
<1>1. /\ Head(q) \in Nat /\ Head(q) = q[1] /\ Len(q) >= 1
      /\ Len(q2) = Len(q) - 1
      /\ \A i \in 1..Len(q2) : q2[i] = q[i + 1]
  OBVIOUS
<1>2. /\ Len(g2) = Len(g) + 1 /\ g2[Len(g) + 1] = Head(q)
      /\ \A i \in 1..Len(g) : g2[i] = g[i]
      /\ Len(g) \in Nat /\ Len(q) \in Nat /\ Len(o) \in Nat
  BY <1>1, AppendFacts
<1> HIDE DEF g2, q2
<1>3. /\ Len(g) + Len(q) <= Len(o)
      /\ c => Len(g) + Len(q) = Len(o)
      /\ \A i \in 1..Len(g) : g[i] = o[i]
      /\ \A i \in 1..Len(q) : q[i] = o[Len(g) + i]
  BY DEF Rest
<1>4. Len(g) < Len(o) /\ Head(q) = o[Len(g) + 1]
  <2>1. 1 \in 1..Len(q)
    BY <1>1, <1>2
  <2> QED BY <2>1, <1>1, <1>2, <1>3
<1>5. ASSUME NEW i \in 1..Len(g2) PROVE g2[i] = o[i]
  <2>1. CASE i = Len(g) + 1
    BY <2>1, <1>2, <1>4
  <2>2. CASE i \in 1..Len(g)
    BY <2>2, <1>2, <1>3
  <2> QED BY <2>1, <2>2, <1>2
<1>6. ASSUME NEW i \in 1..Len(q2) PROVE q2[i] = o[Len(g2) + i]
  <2>1. i + 1 \in 1..Len(q) /\ Len(g) + (i + 1) = Len(g2) + i
    BY <1>1, <1>2
  <2> QED BY <2>1, <1>1, <1>3
<1>7. Rest(g2, q2, o, c)
  BY <1>1, <1>2, <1>3, <1>5, <1>6 DEF Rest
<1> QED BY <1>4, <1>7 DEF g2, q2

(* A broadcast owes and queues the event, or drops the subscriber. *)
LEMMA EmitKeepsRest ==
  ASSUME Inv, NEW k \in Kinds, Emit(k)
  PROVE  /\ queue' \in [Clients -> Seq(Nat)]
         /\ owed' \in [Clients -> Seq(Nat)]
         /\ connected' \in [Clients -> BOOLEAN]
         /\ \A x \in Clients : connected'[x] => connected[x]
         /\ \A x \in Clients : Len(queue'[x]) <= Capacity
         /\ QueueIsRest'
<1> DEFINE e == count + 1
           L == {x \in Clients : connected[x] /\ Meant(x, k)}
<1>1. /\ queue' = [x \in Clients |-> IF x \in L /\ ~Full(x)
                                       THEN Append(queue[x], e) ELSE queue[x]]
      /\ connected' = [x \in Clients |-> connected[x] /\ ~(x \in L /\ Full(x))]
      /\ owed' = [x \in Clients |-> IF x \in L THEN Append(owed[x], e) ELSE owed[x]]
      /\ given' = given /\ e \in Nat
  BY AddressedIsMeant DEF Emit, Put, Inv, TypeOK, Registry
<1>2. \A x \in L : connected[x] = TRUE
  BY DEF Inv, TypeOK
<1> HIDE DEF L, e
<1>3. /\ queue' \in [Clients -> Seq(Nat)] /\ owed' \in [Clients -> Seq(Nat)]
      /\ connected' \in [Clients -> BOOLEAN]
  BY <1>1 DEF Inv, TypeOK
<1>4. ASSUME NEW x \in Clients
      PROVE  /\ connected'[x] => connected[x]
             /\ Len(queue'[x]) <= Capacity
             /\ Rest(given'[x], queue'[x], owed'[x], connected'[x])
  <2>1. /\ queue[x] \in Seq(Nat) /\ owed[x] \in Seq(Nat) /\ given[x] \in Seq(Nat)
        /\ Len(queue[x]) <= Capacity /\ connected[x] \in BOOLEAN
    BY DEF Inv, TypeOK
  <2>2. Rest(given[x], queue[x], owed[x], connected[x])
    BY RestIsAll DEF Inv
  <2>3. CASE x \notin L
    BY <1>1, <2>1, <2>2, <2>3
  <2>4. CASE x \in L /\ ~Full(x)
    <3>1. /\ queue'[x] = Append(queue[x], e) /\ owed'[x] = Append(owed[x], e)
          /\ given'[x] = given[x] /\ connected'[x] = TRUE /\ connected[x] = TRUE
      BY <1>1, <1>2, <2>4
    <3>2. Len(Append(queue[x], e)) <= Capacity
      BY <1>1, <2>1, <2>4, AppendFacts DEF Full
    <3>3. Rest(given[x], Append(queue[x], e), Append(owed[x], e), TRUE)
      BY <1>1, <2>1, <2>2, <3>1, QueuedRest
    <3> QED BY <3>1, <3>2, <3>3
  <2>5. CASE x \in L /\ Full(x)
    <3>1. /\ queue'[x] = queue[x] /\ owed'[x] = Append(owed[x], e)
          /\ given'[x] = given[x] /\ connected'[x] = FALSE
      BY <1>1, <2>5
    <3>2. Rest(given[x], queue[x], Append(owed[x], e), FALSE)
      BY <1>1, <2>1, <2>2, DroppedRest
    <3> QED BY <3>1, <3>2, <2>1
  <2> QED BY <2>3, <2>4, <2>5
<1> QED BY <1>3, <1>4, RestIsAll DEF QueueIsRest, Rest

LEMMA TakeKeepsRest ==
  ASSUME Inv, NEW x \in Clients, Take(x)
  PROVE  /\ queue' \in [Clients -> Seq(Nat)]
         /\ given' \in [Clients -> Seq(Nat)]
         /\ \A y \in Clients : Len(queue'[y]) <= Capacity
         /\ QueueIsRest'
         /\ Len(given[x]) < Len(owed[x])
         /\ Head(queue[x]) = owed[x][Len(given[x]) + 1]
<1>1. /\ queue' = [queue EXCEPT ![x] = Tail(queue[x])]
      /\ given' = [given EXCEPT ![x] = Append(given[x], Head(queue[x]))]
      /\ owed' = owed /\ connected' = connected /\ queue[x] # <<>>
  BY DEF Take
<1>2. /\ queue[x] \in Seq(Nat) /\ owed[x] \in Seq(Nat) /\ given[x] \in Seq(Nat)
      /\ connected[x] \in BOOLEAN /\ Len(queue[x]) <= Capacity
  BY DEF Inv, TypeOK
<1>3. Head(queue[x]) \in Nat /\ Tail(queue[x]) \in Seq(Nat)
  BY <1>1, <1>2
<1>4. Append(given[x], Head(queue[x])) \in Seq(Nat)
  BY <1>2, <1>3
<1>5. queue' \in [Clients -> Seq(Nat)] /\ given' \in [Clients -> Seq(Nat)]
  BY <1>1, <1>3, <1>4 DEF Inv, TypeOK
<1>6. /\ Rest(Append(given[x], Head(queue[x])), Tail(queue[x]), owed[x], connected[x])
      /\ Len(given[x]) < Len(owed[x])
      /\ Head(queue[x]) = owed[x][Len(given[x]) + 1]
  <2> DEFINE g == given[x]
             q == queue[x]
             o == owed[x]
             c == connected[x]
  <2>1. Rest(g, q, o, c)
    BY RestIsAll DEF Inv
  <2>2. /\ g \in Seq(Nat) /\ q \in Seq(Nat) /\ o \in Seq(Nat) /\ c \in BOOLEAN
        /\ q # <<>>
    BY <1>1, <1>2
  <2> HIDE DEF g, q, o, c
  <2>3. /\ Rest(Append(g, Head(q)), Tail(q), o, c)
        /\ Len(g) < Len(o) /\ Head(q) = o[Len(g) + 1]
    BY ONLY <2>1, <2>2, TakenRest
  <2> QED BY <2>3 DEF g, q, o, c
<1>7. Len(Tail(queue[x])) <= Capacity
  BY <1>1, <1>2
<1>8. ASSUME NEW y \in Clients
      PROVE  /\ Rest(given'[y], queue'[y], owed'[y], connected'[y])
             /\ Len(queue'[y]) <= Capacity
  <2>1. CASE y = x
    BY <2>1, <1>1, <1>6, <1>7 DEF Inv, TypeOK
  <2>2. CASE y # x
    BY <2>2, <1>1, RestIsAll DEF Inv, TypeOK
  <2> QED BY <2>1, <2>2
<1>9. QueueIsRest'
  BY <1>8 DEF QueueIsRest, Rest
<1> QED BY <1>5, <1>6, <1>8, <1>9

(* Whatever is disconnected keeps what it has. *)
LEMMA FewerConnected ==
  ASSUME Inv, UNCHANGED <<queue, owed, given, count>>,
         connected' \in [Clients -> BOOLEAN],
         \A x \in Clients : connected'[x] => connected[x]
  PROVE  QueueIsRest'
BY DEF Inv, TypeOK, QueueIsRest

-----------------------------------------------------------------------------
(* The invariant. *)

(* A step that disconnects X and moves generators, and nothing else. *)
LEMMA LeaveKeepsInv ==
  ASSUME Inv, NEW X \in SUBSET Clients, Disconnect(X),
         stream' \in [Clients -> Streams],
         \A x \in Clients \ X : stream'[x] \notin {"none", "ended"}
                                  \/ stream'[x] = stream[x],
         \A x \in X : stream'[x] = "none" => stream[x] = "none",
         UNCHANGED <<queue, owed, given, count>>
  PROVE  Inv'
<1>1. Registry
  BY DEF Inv, TypeOK, Registry
<1>2. /\ Registry' /\ admins' \subseteq Clients
      /\ byRestaurant' \in [Restaurants -> SUBSET Clients]
  BY <1>1, DisconnectKeepsRegistry
<1>3. /\ connected' \in [Clients -> BOOLEAN]
      /\ \A x \in Clients : connected'[x] => connected[x]
  BY DEF Disconnect, Inv, TypeOK
<1>4. QueueIsRest'
  BY <1>3, FewerConnected
<1>5. TypeOK'
  BY <1>2, <1>3 DEF TypeOK, Inv, Registry
<1>6. \A x \in Clients : stream'[x] = "none" => stream[x] = "none"
  OBVIOUS
<1>7. Fresh'
  BY <1>6 DEF Fresh, Inv
<1> QED BY <1>2, <1>4, <1>5, <1>7 DEF Inv, Registry

(* A step that moves one generator, which goes on, and nothing else. *)
LEMMA GoOnKeepsInv ==
  ASSUME Inv, NEW x \in Clients, NEW s \in Streams \ {"none", "ended"},
         stream' = [stream EXCEPT ![x] = s],
         UNCHANGED <<registry, connected, queue, owed, given, count>>
  PROVE  Inv'
<1>1. Registry'
  BY MoveKeepsRegistry DEF Inv, TypeOK, Registry
<1>2. QueueIsRest'
  BY FewerConnected DEF Inv, TypeOK
<1>3. TypeOK'
  BY <1>1 DEF TypeOK, Inv, Registry, registry
<1>4. Fresh'
  BY DEF Fresh, Inv, TypeOK
<1> QED BY <1>1, <1>2, <1>3, <1>4 DEF Inv, Registry

LEMMA StepInv == Inv /\ [Next]_vars => Inv'
<1> SUFFICES ASSUME Inv, [Next]_vars PROVE Inv'
  OBVIOUS
<1>1. Registry
  BY DEF Inv, TypeOK, Registry
<1>2. CASE Shutdown
  BY <1>2, LeaveKeepsInv DEF Shutdown, Inv, TypeOK
<1>3. ASSUME NEW k \in Kinds, Emit(k) PROVE Inv'
  <2>1. /\ UNCHANGED <<registry, stream, given>> /\ count' = count + 1
        /\ count < MaxEvents
    BY <1>3 DEF Emit
  <2>2. Registry'
    BY <1>3, <2>1, EmitKeepsRest
       DEF Inv, TypeOK, Registry, IndexesAgree, NoStaleEntry, registry
  <2>3. TypeOK'
    BY <1>3, <2>1, EmitKeepsRest DEF Inv, TypeOK, registry
  <2>4. ASSUME NEW x \in Clients, stream[x] = "none"
        PROVE  owed'[x] = owed[x] /\ queue'[x] = queue[x]
    <3>1. ~connected[x]
      BY <1>1, <2>4 DEF Registry, IndexesAgree, NoStaleEntry
    <3> QED BY <1>3, <3>1 DEF Emit, Put, Inv, TypeOK
  <2>5. Fresh'
    BY <2>1, <2>4 DEF Fresh, Inv
  <2> QED BY <1>3, <2>2, <2>3, <2>5, EmitKeepsRest DEF Inv, Registry
<1>4. ASSUME NEW x \in Clients, Connect(x) PROVE Inv'
  <2>1. /\ Registry' /\ admins' \subseteq Clients
        /\ byRestaurant' \in [Restaurants -> SUBSET Clients]
    BY <1>1, <1>4, ConnectKeepsRegistry
  <2>2. TypeOK'
    BY <1>4, <2>1 DEF Connect, Inv, TypeOK, Registry
  <2>3. /\ connected' = [connected EXCEPT ![x] = TRUE]
        /\ UNCHANGED <<queue, owed, given>>
        /\ owed[x] = <<>> /\ queue[x] = <<>> /\ given[x] = <<>>
    BY <1>4 DEF Connect, Inv, Fresh
  <2>4. \A y \in Clients : Rest(given'[y], queue'[y], owed'[y], connected'[y])
    <3>1. Rest(given'[x], queue'[x], owed'[x], connected'[x])
      BY <2>3 DEF Rest
    <3>2. \A y \in Clients \ {x} : connected'[y] = connected[y]
      BY <2>3 DEF Inv, TypeOK
    <3>3. \A y \in Clients : Rest(given[y], queue[y], owed[y], connected[y])
      BY RestIsAll DEF Inv
    <3> QED BY <2>3, <3>1, <3>2, <3>3
  <2>5. QueueIsRest'
    BY <2>4 DEF QueueIsRest, Rest
  <2>6. Fresh'
    BY <1>4, <2>3 DEF Connect, Fresh, Inv, TypeOK
  <2> QED BY <2>1, <2>2, <2>5, <2>6 DEF Inv, Registry
<1>5. ASSUME NEW x \in Clients, Begin(x) PROVE Inv'
  <2>1. CASE connected[x]
    BY <1>5, <2>1, GoOnKeepsInv DEF Begin, Move, Streams
  <2>2. CASE ~connected[x]
    BY <1>5, <2>2, LeaveKeepsInv DEF Begin, Move, Inv, TypeOK, Streams
  <2> QED BY <2>1, <2>2
<1>6. ASSUME NEW x \in Clients, NeverBegin(x) PROVE Inv'
  BY <1>6, GoOnKeepsInv DEF NeverBegin, Move, Streams
<1>7. ASSUME NEW x \in Clients, Take(x) PROVE Inv'
  <2>1. /\ stream' = [stream EXCEPT ![x] = "sending"]
        /\ UNCHANGED <<registry, connected, owed, count>>
    BY <1>7 DEF Take, Move
  <2>2. Registry'
    BY <1>1, <2>1, MoveKeepsRegistry DEF Streams
  <2>3. TypeOK'
    BY <1>7, <2>1, <2>2, TakeKeepsRest DEF Inv, TypeOK, Registry, registry
  <2>4. Fresh'
    BY <1>7, <2>1 DEF Take, Move, Fresh, Inv, TypeOK
  <2> QED BY <1>7, <2>2, <2>3, <2>4, TakeKeepsRest DEF Inv, Registry
<1>8. ASSUME NEW x \in Clients, Beat(x) PROVE Inv'
  BY <1>8, GoOnKeepsInv DEF Beat, Move, Streams
<1>9. ASSUME NEW x \in Clients, Sent(x) PROVE Inv'
  <2>1. CASE connected[x]
    BY <1>9, <2>1, GoOnKeepsInv DEF Sent, Move, Streams
  <2>2. CASE ~connected[x]
    BY <1>9, <2>2, LeaveKeepsInv DEF Sent, Move, Inv, TypeOK, Streams
  <2> QED BY <2>1, <2>2
<1>10. ASSUME NEW x \in Clients, GoneWaiting(x) PROVE Inv'
  BY <1>10, LeaveKeepsInv DEF GoneWaiting, Move, Inv, TypeOK, Streams
<1>11. ASSUME NEW x \in Clients, GoneSending(x) PROVE Inv'
  BY <1>11, GoOnKeepsInv DEF GoneSending, Move, Streams
<1>12. ASSUME NEW x \in Clients, Close(x) PROVE Inv'
  BY <1>12, LeaveKeepsInv DEF Close, Move, Inv, TypeOK, Streams
<1>13. CASE UNCHANGED vars
  BY <1>13 DEF vars, registry, Inv, TypeOK, IndexesAgree, NoStaleEntry, QueueIsRest, Fresh
<1> QED
  BY <1>2, <1>3, <1>4, <1>5, <1>6, <1>7, <1>8, <1>9, <1>10, <1>11, <1>12, <1>13
     DEF Next

(* The three indexes of the service agree with each other, nothing is       *)
(* connected that is not registered, and only subscribers whose generator   *)
(* is alive, or never began, are registered: for any number of clients, any *)
(* capacity and any number of events.                                       *)
THEOREM RegistryCorrect == Spec => []RegistryAgrees
<1>1. Inv => RegistryAgrees
  BY DEF Inv, RegistryAgrees
<1> QED BY <1>1, InitInv, StepInv, PTL DEF Spec

(* The variables keep their types and no queue outgrows its capacity.       *)
THEOREM TypeCorrect == Spec => []TypeOK
<1>1. Inv => TypeOK
  BY DEF Inv
<1> QED BY <1>1, InitInv, StepInv, PTL DEF Spec

(* What a subscriber was given and its queue are, in order, the events it   *)
(* is owed, all of them while it is connected.                              *)
THEOREM QueuesCorrect == Spec => []QueueIsRest
<1>1. Inv => QueueIsRest
  BY DEF Inv
<1> QED BY <1>1, InitInv, StepInv, PTL DEF Spec

-----------------------------------------------------------------------------
(* The refinement.  A step of the service is a step of the feed: connect is *)
(* Join, a broadcast is Publish for those whose queue was full, queue.get() *)
(* is Give, and every other step is Leave for those it disconnects.         *)

(* Whoever connects has not been heard of, whoever is connected has.        *)
LEMMA MemberIn ==
  ASSUME Inv, NEW x \in Clients
  PROVE  Member[x] = "in" <=> connected[x]
BY DEF Inv, IndexesAgree, NoStaleEntry, Member, TypeOK

LEMMA InitFeed == Init => Feed!Init
BY DEF Init, Feed!Init, Member

LEMMA JoinStep ==
  ASSUME Inv, NEW x \in Clients, Connect(x)
  PROVE  Feed!Next
<1>1. Member[x] = "before"
  BY DEF Connect, Member
<1>2. Member' = [Member EXCEPT ![x] = "in"]
  BY DEF Connect, Member, Inv, TypeOK, Streams
<1>3. Feed!Join(x)
  BY <1>1, <1>2 DEF Feed!Join, Connect
<1> QED BY <1>3 DEF Feed!Next

LEMMA PublishStep ==
  ASSUME Inv, NEW k \in Kinds, Emit(k)
  PROVE  Feed!Next
<1> DEFINE L == {x \in Clients : connected[x] /\ Meant(x, k)}
           X == {x \in L : Full(x)}
<1>1. /\ connected' = [x \in Clients |-> connected[x] /\ ~(x \in L /\ Full(x))]
      /\ owed' = [x \in Clients |-> IF connected[x] /\ Meant(x, k)
                                       THEN Append(owed[x], count + 1) ELSE owed[x]]
      /\ UNCHANGED <<stream, given>> /\ count' = count + 1
  BY AddressedIsMeant DEF Emit, Put, Inv, TypeOK, Registry
<1>2. \A x \in Clients : stream[x] = "none" => ~connected[x]
  BY DEF Inv, IndexesAgree, NoStaleEntry
<1>3. \A x \in X : Member[x] = "in"
  BY MemberIn
<1>4. Member' = [x \in Clients |-> IF x \in X THEN "out" ELSE Member[x]]
  BY <1>1, <1>2 DEF Member
<1>5. owed' = [x \in Clients |-> IF Member[x] = "in" /\ Meant(x, k)
                                   THEN Append(owed[x], count + 1) ELSE owed[x]]
  BY <1>1, MemberIn
<1>6. Feed!Publish(k, X)
  BY <1>1, <1>3, <1>4, <1>5 DEF Feed!Publish
<1>7. X \in SUBSET Clients
  OBVIOUS
<1> QED BY <1>6, <1>7 DEF Feed!Next

LEMMA GiveStep ==
  ASSUME Inv, NEW x \in Clients, Take(x)
  PROVE  Feed!Next
<1>1. /\ given' = [given EXCEPT ![x] = Append(given[x], owed[x][Len(given[x]) + 1])]
      /\ Len(given[x]) < Len(owed[x])
      /\ UNCHANGED <<owed, count>>
  BY TakeKeepsRest DEF Take
<1>2. Member' = Member
  BY DEF Take, Move, Member, Inv, TypeOK
<1>3. Feed!Give(x)
  BY <1>1, <1>2 DEF Feed!Give
<1> QED BY <1>3 DEF Feed!Next

(* A step that disconnects X, once none of X is new. *)
LEMMA LeaveStep ==
  ASSUME Inv, NEW X \in SUBSET Clients, Disconnect(X),
         \A x \in Clients : stream'[x] = "none" <=> stream[x] = "none",
         UNCHANGED <<owed, given, count>>
  PROVE  Feed!Next
<1> DEFINE Y == {x \in X : connected[x]}
<1>1. connected' = [x \in Clients |-> connected[x] /\ x \notin X]
  BY DEF Disconnect
<1>2. \A x \in Clients : stream[x] = "none" => ~connected[x]
  BY DEF Inv, IndexesAgree, NoStaleEntry
<1>3. Member' = [x \in Clients |-> IF x \in Y THEN "out" ELSE Member[x]]
  BY <1>1, <1>2 DEF Member
<1>4. \A x \in Y : Member[x] = "in"
  BY MemberIn
<1>5. Feed!Leave(Y)
  BY <1>3, <1>4 DEF Feed!Leave
<1>6. Y \in SUBSET Clients
  OBVIOUS
<1> QED BY <1>5, <1>6 DEF Feed!Next

(* A step that moves a generator that had been opened, and no more.         *)
LEMMA QuietStep ==
  ASSUME Inv, NEW x \in Clients, NEW s \in Streams \ {"none"},
         stream[x] # "none", stream' = [stream EXCEPT ![x] = s],
         UNCHANGED <<connected, owed, given, count>>
  PROVE  UNCHANGED Feed!feed
<1>1. Member' = Member
  BY DEF Member, Inv, TypeOK
<1> QED BY <1>1 DEF Feed!feed

LEMMA StepFeed == Inv /\ [Next]_vars => [Feed!Next]_Feed!feed
<1> SUFFICES ASSUME Inv, [Next]_vars PROVE Feed!Next \/ UNCHANGED Feed!feed
  OBVIOUS
<1> USE DEF Move
<1>1. CASE Shutdown
  BY <1>1, LeaveStep DEF Shutdown, Inv, TypeOK
<1>2. ASSUME NEW k \in Kinds, Emit(k) PROVE Feed!Next
  BY <1>2, PublishStep
<1>3. ASSUME NEW x \in Clients, Connect(x) PROVE Feed!Next
  BY <1>3, JoinStep
<1>4. ASSUME NEW x \in Clients, Take(x) PROVE Feed!Next
  BY <1>4, GiveStep
<1>5. ASSUME NEW x \in Clients, NeverBegin(x) \/ Beat(x) \/ GoneSending(x)
      PROVE  UNCHANGED Feed!feed
  <2>1. CASE NeverBegin(x)
    BY <2>1, QuietStep DEF NeverBegin, Streams
  <2>2. CASE Beat(x)
    BY <2>2, QuietStep DEF Beat, Streams
  <2>3. CASE GoneSending(x)
    BY <2>3, QuietStep DEF GoneSending, Streams
  <2> QED BY <1>5, <2>1, <2>2, <2>3
<1>6. ASSUME NEW x \in Clients, Begin(x) PROVE Feed!Next \/ UNCHANGED Feed!feed
  <2>1. CASE connected[x]
    BY <1>6, <2>1, QuietStep DEF Begin, Streams
  <2>2. CASE ~connected[x]
    BY <1>6, <2>2, LeaveStep DEF Begin, Inv, TypeOK
  <2> QED BY <2>1, <2>2
<1>7. ASSUME NEW x \in Clients, Sent(x) PROVE Feed!Next \/ UNCHANGED Feed!feed
  <2>1. CASE connected[x]
    BY <1>7, <2>1, QuietStep DEF Sent, Streams
  <2>2. CASE ~connected[x]
    BY <1>7, <2>2, LeaveStep DEF Sent, Inv, TypeOK
  <2> QED BY <2>1, <2>2
<1>8. ASSUME NEW x \in Clients, GoneWaiting(x) PROVE Feed!Next
  BY <1>8, LeaveStep DEF GoneWaiting, Inv, TypeOK
<1>9. ASSUME NEW x \in Clients, Close(x) PROVE Feed!Next
  BY <1>9, LeaveStep DEF Close, Inv, TypeOK
<1>10. CASE UNCHANGED vars
  BY <1>10 DEF vars, Feed!feed, Member
<1> QED
  BY <1>1, <1>2, <1>3, <1>4, <1>5, <1>6, <1>7, <1>8, <1>9, <1>10 DEF Next

(* The service implements the feed the dashboards are promised: each        *)
(* subscriber gets, in order, the events that concern it, and no other.     *)
THEOREM ServiceImplementsFeed == Spec => FeedSpec
<1> QED BY InitInv, StepInv, InitFeed, StepFeed, PTL DEF Spec, FeedSpec, Feed!Spec
=============================================================================
