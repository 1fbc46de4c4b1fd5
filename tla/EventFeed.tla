----------------------------- MODULE EventFeed -----------------------------
(***************************************************************************)
(* What the dashboards are promised of the event stream: each subscriber   *)
(* is owed the events that concern it, from the moment it subscribes until *)
(* it is out, and gets them in order, none skipped and none twice.  A      *)
(* subscriber may be dropped at any time: then it gets no more than a      *)
(* prefix of what it was owed.  SSEBroadcast implements this.              *)
(***************************************************************************)
EXTENDS Naturals, Sequences

CONSTANTS Clients, Kinds, Meant(_, _)

VARIABLES member,   \* before, in or out
          owed,     \* the events published for a client while it is in
          got,      \* the events it was given
          count     \* events published so far: an event is its number

feed == <<member, owed, got, count>>

Init ==
  /\ member = [x \in Clients |-> "before"]
  /\ owed = [x \in Clients |-> <<>>]
  /\ got = [x \in Clients |-> <<>>]
  /\ count = 0

Join(x) ==
  /\ member[x] = "before"
  /\ member' = [member EXCEPT ![x] = "in"]
  /\ UNCHANGED <<owed, got, count>>

Leave(X) ==
  /\ \A x \in X : member[x] = "in"
  /\ member' = [x \in Clients |-> IF x \in X THEN "out" ELSE member[x]]
  /\ UNCHANGED <<owed, got, count>>

(* Every member the event is meant for is owed it; some may be dropped,     *)
(* which changes nothing yet of what they are given.                        *)
Publish(k, X) ==
  /\ count' = count + 1
  /\ \A x \in X : member[x] = "in"
  /\ owed' = [x \in Clients |-> IF member[x] = "in" /\ Meant(x, k)
                                 THEN Append(owed[x], count + 1) ELSE owed[x]]
  /\ member' = [x \in Clients |-> IF x \in X THEN "out" ELSE member[x]]
  /\ UNCHANGED got

Give(x) ==
  /\ Len(got[x]) < Len(owed[x])
  /\ got' = [got EXCEPT ![x] = Append(@, owed[x][Len(@) + 1])]
  /\ UNCHANGED <<member, owed, count>>

Next ==
  \/ \E x \in Clients : Join(x) \/ Give(x)
  \/ \E X \in SUBSET Clients : Leave(X)
  \/ \E k \in Kinds, X \in SUBSET Clients : Publish(k, X)

Spec == Init /\ [][Next]_feed
=============================================================================
