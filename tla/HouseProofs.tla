------------------------------ MODULE HouseProofs ------------------------------
(***************************************************************************)
(* Two parts of the house that share no state, each for any number of      *)
(* everything:                                                             *)
(*   accounts, their sessions and the customers: ResetEndsSessions,        *)
(*   SomebodyCanManage and FiledUnderTheCaller of Accounts;                *)
(*   the connections: no thread is handed a connection with another's      *)
(*   transaction in it, and no transaction is seen in part                 *)
(*   (StatementsHold of ConnectionPool).                                   *)
(***************************************************************************)
EXTENDS Accounts, ConnectionPool, FiniteSetTheorems, SequenceTheorems, TLAPS

(***************************************************************************)
(* Accounts.                                                               *)
(***************************************************************************)
AccountRow == [side : Sides, email : Emails, password : Nat]
SessionRow == [who : Uuids, side : Sides, token : Nat, revoked : BOOLEAN,
               live : BOOLEAN, since : Nat]

Apart == \A p, q \in Held :
  accounts[p].side = accounts[q].side /\ accounts[p].email = accounts[q].email => p = q

AccountsInv ==
  /\ accounts \in [Uuids -> AccountRow \cup {NoData}]
  /\ resets \in [Uuids -> Nat]
  /\ Apart

(* A session that renews is of its account as it is since the last reset; the *)
(* uuid of an account that was deleted is known by its resets.                *)
Current(s) ==
  LET x == sessions[s] IN
  /\ ~x.revoked /\ x.live /\ x.who \in Held =>
       x.since = resets[x.who] /\ x.side = accounts[x.who].side
  /\ resets[x.who] = 0 => x.who \in Held

SessionsInv ==
  /\ sessions \in Seq(SessionRow)
  /\ \A s \in DOMAIN sessions : Current(s)
  /\ \A t \in tokens : /\ t \in (DOMAIN sessions) \X Nat
                       /\ t[2] <= sessions[t[1]].token

SignInInv == AccountsInv /\ SessionsInv

-----------------------------------------------------------------------------
(* Accounts. *)

LEMMA NoAccount == NoData \notin AccountRow
  BY AccountsAssumption DEF AccountRow, Sides

LEMMA HeldRows ==
  ASSUME AccountsInv, NEW p \in Held
  PROVE  p \in Uuids /\ accounts[p] \in AccountRow /\ accounts[p].side \in Sides
  BY DEF AccountsInv, Held, AccountRow

LEMMA AccountEdits ==
  ASSUME NEW x \in AccountRow
  PROVE  /\ [x EXCEPT !.password = @ + 1] \in AccountRow
         /\ [x EXCEPT !.password = @ + 1].side = x.side
         /\ [x EXCEPT !.password = @ + 1].email = x.email
         /\ \A e \in Emails : /\ [x EXCEPT !.email = e] \in AccountRow
                              /\ [x EXCEPT !.email = e].side = x.side
                              /\ [x EXCEPT !.email = e].email = e
  BY DEF AccountRow

(* One account is rewritten. *)
LEMMA SetAccount ==
  ASSUME AccountsInv, NEW p \in Held, NEW x \in AccountRow,
         accounts' = [accounts EXCEPT ![p] = x], x.side = accounts[p].side,
         resets' \in [Uuids -> Nat],
         \A q \in StaffOf(x.side) : accounts[q].email = x.email => q = p
  PROVE  /\ AccountsInv' /\ Held' = Held
         /\ \A q \in Held : accounts'[q].side = accounts[q].side
<1>1. /\ p \in Uuids /\ accounts' \in [Uuids -> AccountRow \cup {NoData}]
      /\ \A q \in Uuids : accounts'[q] = IF q = p THEN x ELSE accounts[q]
  BY HeldRows DEF AccountsInv
<1>2. Held' = Held
  BY <1>1, NoAccount DEF Held
<1>3. \A q \in Held : accounts'[q].side = accounts[q].side
  BY <1>1 DEF Held
<1>4. Apart'
  BY <1>1, <1>2, <1>3 DEF AccountsInv, Apart, StaffOf, Held
<1>5. QED BY <1>1, <1>2, <1>3, <1>4 DEF AccountsInv

LEMMA InsertStep ==
  ASSUME AccountsInv, NEW side \in Sides, NEW batch, batch \subseteq Emails,
         InsertAccounts(side, batch)
  PROVE  /\ AccountsInv' /\ resets' = resets /\ Held \subseteq Held'
         /\ \A p \in Held : accounts'[p] = accounts[p]
         /\ \A p \in Held' \ Held : resets[p] = 0
<1> DEFINE New(p, uuid) == \E email \in batch : uuid[email] = p
<1>1. PICK uuid \in [batch -> Uuids \ Held] :
        /\ IsInjective(uuid)
        /\ \A p \in Uuids : New(p, uuid) => resets[p] = 0
        /\ accounts' = [p \in Uuids |->
             IF New(p, uuid) THEN Account(side, CHOOSE email \in batch : uuid[email] = p)
             ELSE accounts[p]]
  BY DEF InsertAccounts
<1>2. ASSUME NEW p \in Uuids, New(p, uuid)
      PROVE  /\ p \notin Held /\ accounts'[p] \in AccountRow
             /\ accounts'[p].side = side
             /\ accounts'[p].email \in batch /\ uuid[accounts'[p].email] = p
  <2> DEFINE e == CHOOSE email \in batch : uuid[email] = p
  <2>1. e \in batch /\ uuid[e] = p
    BY <1>2
  <2>2. accounts'[p] = Account(side, e)
    BY <1>1, <1>2
  <2> HIDE DEF e
  <2>3. p \notin Held
    BY <2>1
  <2>4. QED BY <2>1, <2>2, <2>3 DEF Account, AccountRow
<1>3. ASSUME NEW p \in Uuids, ~New(p, uuid) PROVE accounts'[p] = accounts[p]
  BY <1>1, <1>3
<1>4. \A p \in Held : p \in Uuids /\ ~New(p, uuid)
  BY <1>2 DEF Held
<1>5. accounts' \in [Uuids -> AccountRow \cup {NoData}]
  <2>1. \A p \in Uuids : accounts'[p] \in AccountRow \cup {NoData}
    BY <1>2, <1>3 DEF AccountsInv
  <2>2. accounts' = [p \in Uuids |-> accounts'[p]]
    BY <1>1
  <2>3. QED BY <2>1, <2>2
<1>6. resets' = resets
  BY DEF InsertAccounts
<1>7. \A p \in Held : accounts'[p] = accounts[p]
  BY <1>3, <1>4
<1>8. Held \subseteq Held'
  BY <1>4, <1>7 DEF Held
<1>9. \A p \in Held' \ Held : New(p, uuid)
  BY <1>3 DEF Held
<1>10. \A p \in Held' \ Held : resets[p] = 0
  BY <1>1, <1>9 DEF Held
<1>11. Apart'
  <2> SUFFICES ASSUME NEW p \in Held', NEW q \in Held',
                      accounts'[p].side = accounts'[q].side,
                      accounts'[p].email = accounts'[q].email
               PROVE  p = q
    BY DEF Apart
  <2>0. p \in Uuids /\ q \in Uuids
    BY DEF Held
  <2>1. \A email \in batch : ~EmailTaken(side, email)
    BY DEF InsertAccounts
  <2>2. ASSUME NEW x \in Uuids, NEW y \in Held, New(x, uuid),
               accounts'[x].side = accounts'[y].side, accounts'[x].email = accounts'[y].email
        PROVE  FALSE
    <3>1. accounts[y].side = side /\ accounts[y].email \in batch
      BY <1>2, <1>7, <2>2
    <3>2. EmailTaken(side, accounts[y].email)
      BY <3>1 DEF EmailTaken, StaffOf
    <3>3. QED BY <2>1, <3>1, <3>2
  <2>3. CASE p \in Held /\ q \in Held
    BY <1>7, <2>3 DEF AccountsInv, Apart
  <2>4. CASE p \notin Held /\ q \notin Held
    BY <1>2, <1>9, <2>0, <2>4
  <2>5. CASE p \in Held /\ q \notin Held
    BY <1>9, <2>0, <2>2, <2>5
  <2>6. CASE p \notin Held /\ q \in Held
    BY <1>9, <2>0, <2>2, <2>6
  <2>7. QED BY <2>3, <2>4, <2>5, <2>6
<1>12. QED BY <1>5, <1>6, <1>7, <1>8, <1>10, <1>11 DEF AccountsInv

(* Accounts that go take their place among the resets with them. *)
LEMMA RemoveStep ==
  ASSUME AccountsInv, NEW gone, gone \subseteq Held,
         accounts' = [p \in Uuids |-> IF p \in gone THEN NoData ELSE accounts[p]],
         resets' \in [Uuids -> Nat]
  PROVE  /\ AccountsInv' /\ Held' = Held \ gone
         /\ \A p \in Held' : accounts'[p] = accounts[p]
<1>1. \A p \in Uuids : accounts'[p] = IF p \in gone THEN NoData ELSE accounts[p]
  OBVIOUS
<1>2. accounts' \in [Uuids -> AccountRow \cup {NoData}]
  BY DEF AccountsInv
<1>3. Held' = Held \ gone
  BY <1>1 DEF Held
<1>4. \A p \in Held' : accounts'[p] = accounts[p]
  BY <1>1, <1>3 DEF Held
<1>5. Apart'
  BY <1>3, <1>4 DEF AccountsInv, Apart
<1>6. QED BY <1>2, <1>3, <1>4, <1>5 DEF AccountsInv
-----------------------------------------------------------------------------
(* Sessions. *)

LEMMA SessionRows ==
  ASSUME SessionsInv, NEW s \in DOMAIN sessions
  PROVE  sessions[s] \in SessionRow /\ sessions[s].who \in Uuids
<1>1. sessions \in Seq(SessionRow)
  BY DEF SessionsInv
<1>2. sessions[s] \in SessionRow
  BY <1>1
<1>3. QED BY <1>2 DEF SessionRow

LEMMA SessionEdits ==
  ASSUME NEW x \in SessionRow
  PROVE  /\ LET y == [x EXCEPT !.revoked = TRUE, !.live = FALSE]
            IN /\ y \in SessionRow /\ y.revoked /\ y.who = x.who /\ y.token = x.token
         /\ LET y == [x EXCEPT !.live = FALSE]
            IN /\ y \in SessionRow /\ ~y.live /\ y.who = x.who /\ y.token = x.token
         /\ LET y == [x EXCEPT !.token = @ + 1, !.live = TRUE, !.revoked = FALSE]
            IN /\ y \in SessionRow /\ y.who = x.who /\ y.token = x.token + 1
               /\ y.side = x.side /\ y.since = x.since
<1>1. /\ [x EXCEPT !.revoked = TRUE, !.live = FALSE] \in SessionRow
      /\ [x EXCEPT !.revoked = TRUE, !.live = FALSE].revoked
      /\ [x EXCEPT !.revoked = TRUE, !.live = FALSE].who = x.who
      /\ [x EXCEPT !.revoked = TRUE, !.live = FALSE].token = x.token
  BY DEF SessionRow
<1>2. /\ [x EXCEPT !.live = FALSE] \in SessionRow
      /\ ~[x EXCEPT !.live = FALSE].live
      /\ [x EXCEPT !.live = FALSE].who = x.who
      /\ [x EXCEPT !.live = FALSE].token = x.token
  BY DEF SessionRow
<1>3. /\ [x EXCEPT !.token = @ + 1, !.live = TRUE, !.revoked = FALSE] \in SessionRow
      /\ [x EXCEPT !.token = @ + 1, !.live = TRUE, !.revoked = FALSE].who = x.who
      /\ [x EXCEPT !.token = @ + 1, !.live = TRUE, !.revoked = FALSE].token = x.token + 1
      /\ [x EXCEPT !.token = @ + 1, !.live = TRUE, !.revoked = FALSE].side = x.side
      /\ [x EXCEPT !.token = @ + 1, !.live = TRUE, !.revoked = FALSE].since = x.since
  <2>1. x.token \in Nat /\ x.token + 1 \in Nat
    BY DEF SessionRow
  <2>2. \A n \in Nat :
          LET y == [x EXCEPT !.token = n, !.live = TRUE, !.revoked = FALSE]
          IN /\ y \in SessionRow /\ y.who = x.who /\ y.token = n
             /\ y.side = x.side /\ y.since = x.since
    BY DEF SessionRow
  <2>3. [x EXCEPT !.token = @ + 1, !.live = TRUE, !.revoked = FALSE]
          = [x EXCEPT !.token = x.token + 1, !.live = TRUE, !.revoked = FALSE]
    BY DEF SessionRow
  <2>4. QED BY <2>1, <2>2, <2>3
<1>4. QED BY <1>1, <1>2, <1>3

(* What happens to accounts while no session is written. *)
Fate(p) ==
  \/ p \in Held /\ p \in Held' /\ accounts'[p].side = accounts[p].side /\ resets'[p] = resets[p]
  \/ p \notin Held' /\ resets'[p] # 0
  \/ p \notin Held /\ p \notin Held' /\ resets'[p] = resets[p]
  \/ p \notin Held /\ resets[p] = 0

LEMMA SessionsStay ==
  ASSUME SignInInv, UNCHANGED <<sessions, tokens>>,
         \A s \in DOMAIN sessions : Fate(sessions[s].who)
  PROVE  SessionsInv'
<1>1. ASSUME NEW s \in DOMAIN sessions PROVE Current(s)'
  <2>1. Current(s) /\ Fate(sessions[s].who)
    BY DEF SignInInv, SessionsInv
  <2>2. QED BY <2>1 DEF Current, Fate
<1>2. QED BY <1>1 DEF SignInInv, SessionsInv

(* Those of a reset or a deletion. *)
LEMMA SessionsRevoked ==
  ASSUME SignInInv, NEW p \in Held, sessions' = RevokeSessionsOf(p), UNCHANGED tokens,
         resets' = [resets EXCEPT ![p] = @ + 1],
         Held \ {p} \subseteq Held', Held' \subseteq Held,
         \A q \in Held : q # p => accounts'[q].side = accounts[q].side
  PROVE  SessionsInv'
<1>0. /\ sessions \in Seq(SessionRow) /\ p \in Uuids /\ resets \in [Uuids -> Nat]
      /\ Held' \subseteq Uuids
  BY HeldRows DEF SignInInv, SessionsInv, AccountsInv, Held
<1>1. DOMAIN sessions' = DOMAIN sessions
  BY DEF RevokeSessionsOf
<1>2. ASSUME NEW s \in DOMAIN sessions
      PROVE  /\ sessions'[s] \in SessionRow /\ sessions'[s].who = sessions[s].who
             /\ sessions'[s].token = sessions[s].token
             /\ \/ sessions'[s].revoked
                \/ /\ sessions'[s] = sessions[s]
                   /\ sessions[s].who = p => sessions[s].side # accounts[p].side
  <2>1. sessions[s] \in SessionRow
    BY <1>0
  <2>2. CASE sessions[s].who = p /\ sessions[s].side = accounts[p].side
    <3>1. sessions'[s] = [sessions[s] EXCEPT !.revoked = TRUE, !.live = FALSE]
      BY <2>2 DEF RevokeSessionsOf
    <3>2. QED BY <2>1, <3>1, SessionEdits
  <2>3. CASE ~(sessions[s].who = p /\ sessions[s].side = accounts[p].side)
    BY <2>1, <2>3 DEF RevokeSessionsOf
  <2>4. QED BY <2>2, <2>3
<1>3. sessions' \in Seq(SessionRow)
  <2>1. DOMAIN sessions = 1..Len(sessions) /\ Len(sessions) \in Nat
    BY <1>0
  <2>2. sessions' \in [1..Len(sessions) -> SessionRow]
    BY <1>2, <2>1 DEF RevokeSessionsOf
  <2>3. QED BY <2>1, <2>2
<1>4. ASSUME NEW s \in DOMAIN sessions PROVE Current(s)'
  <2>1. Current(s) /\ sessions[s].who \in Uuids
    BY SessionRows DEF SignInInv, SessionsInv
  <2>2. resets'[sessions[s].who] =
          IF sessions[s].who = p THEN resets[p] + 1 ELSE resets[sessions[s].who]
    BY <1>0, <2>1
  <2>3. CASE sessions[s].who = p
    <3>1. resets'[p] # 0
      BY <1>0, <2>2, <2>3
    <3>2. sessions'[s].revoked \/ sessions[s].revoked \/ ~sessions[s].live
      BY <1>2, <2>1, <2>3 DEF Current
    <3>3. sessions'[s].revoked \/ ~sessions'[s].live
      BY <1>2, <3>2
    <3>4. QED BY <1>2, <2>3, <3>1, <3>3 DEF Current
  <2>4. CASE sessions[s].who # p
    <3>1. resets'[sessions[s].who] = resets[sessions[s].who]
      BY <2>2, <2>4
    <3>2. sessions[s].who \in Held' <=> sessions[s].who \in Held
      BY <2>4
    <3>3. sessions[s].who \in Held =>
            accounts'[sessions[s].who].side = accounts[sessions[s].who].side
      BY <2>4
    <3>4. QED BY <1>2, <2>1, <3>1, <3>2, <3>3 DEF Current
  <2>5. QED BY <2>3, <2>4
<1>5. \A t \in tokens : t \in (DOMAIN sessions) \X Nat /\ t[2] <= sessions'[t[1]].token
  BY <1>2 DEF SignInInv, SessionsInv
<1>6. QED BY <1>1, <1>3, <1>4, <1>5 DEF SessionsInv

(* One session is written; its account and the others are as they were. *)
LEMMA SetSession ==
  ASSUME SignInInv, NEW s \in DOMAIN sessions, NEW x \in SessionRow,
         sessions' = [sessions EXCEPT ![s] = x],
         UNCHANGED <<accounts, resets>>,
         x.who = sessions[s].who,
         \/ x.revoked \/ ~x.live
         \/ /\ ~sessions[s].revoked /\ sessions[s].live
            /\ x.side = sessions[s].side /\ x.since = sessions[s].since,
         sessions[s].token <= x.token,
         tokens' \subseteq tokens \cup {<<s, x.token>>}
  PROVE  SessionsInv'
<1>0. sessions \in Seq(SessionRow) /\ sessions[s] \in SessionRow
  BY DEF SignInInv, SessionsInv
<1>1. /\ sessions' \in Seq(SessionRow) /\ DOMAIN sessions' = DOMAIN sessions
      /\ \A r \in DOMAIN sessions : sessions'[r] = IF r = s THEN x ELSE sessions[r]
  BY <1>0, ExceptSeq
<1>2. Held' = Held
  BY DEF Held
<1>3. ASSUME NEW r \in DOMAIN sessions PROVE Current(r)'
  <2>1. Current(r)
    BY DEF SignInInv, SessionsInv
  <2>2. QED BY <1>1, <1>2, <2>1 DEF Current
<1>4. ASSUME NEW t \in tokens'
      PROVE  t \in (DOMAIN sessions) \X Nat /\ t[2] <= sessions'[t[1]].token
  <2>1. x.token \in Nat /\ sessions[s].token \in Nat
    BY <1>0 DEF SessionRow
  <2>2. CASE t = <<s, x.token>>
    BY <1>1, <2>1, <2>2
  <2>3. CASE t \in tokens
    <3>1. t \in (DOMAIN sessions) \X Nat /\ t[2] <= sessions[t[1]].token
      BY <2>3 DEF SignInInv, SessionsInv
    <3>2. CASE t[1] = s
      BY <1>1, <2>1, <3>1, <3>2
    <3>3. CASE t[1] # s
      BY <1>1, <3>1, <3>3
    <3>4. QED BY <3>2, <3>3
  <2>4. QED BY <2>2, <2>3
<1>5. QED BY <1>1, <1>3, <1>4 DEF SessionsInv

LEMMA CreateSessionStep ==
  ASSUME SignInInv, NEW p \in Held, CreateSession(p)
  PROVE  SignInInv'
<1> DEFINE x == [who |-> p, side |-> accounts[p].side, token |-> 0, revoked |-> FALSE,
                 live |-> TRUE, since |-> resets[p]]
<1>0. /\ sessions \in Seq(SessionRow) /\ Len(sessions) \in Nat
      /\ p \in Uuids /\ accounts[p].side \in Sides /\ resets[p] \in Nat
  <2>1. sessions \in Seq(SessionRow)
    BY DEF SignInInv, SessionsInv
  <2>2. QED BY <2>1, HeldRows DEF SignInInv, AccountsInv
<1>1. PICK y : y = x
  OBVIOUS
<1>2. /\ y \in SessionRow /\ y.who = p /\ y.side = accounts[p].side /\ y.token = 0
      /\ y.since = resets[p]
  BY <1>0, <1>1 DEF SessionRow
<1>3. PICK n : n = Len(sessions) + 1
  OBVIOUS
<1>4. /\ sessions' = Append(sessions, y) /\ tokens' = tokens \cup {<<n, 0>>}
      /\ accounts' = accounts /\ resets' = resets
  BY <1>1, <1>3 DEF CreateSession
<1> HIDE DEF x
<1>5. /\ sessions' \in Seq(SessionRow) /\ DOMAIN sessions' = DOMAIN sessions \cup {n}
      /\ n \notin DOMAIN sessions /\ n \in Nat
      /\ sessions'[n] = y
      /\ \A s \in DOMAIN sessions : sessions'[s] = sessions[s]
  BY <1>0, <1>2, <1>3, <1>4
<1>6. Held' = Held
  BY <1>4 DEF Held
<1>7. ASSUME NEW s \in DOMAIN sessions' PROVE Current(s)'
  <2>1. CASE s = n
    BY <1>2, <1>4, <1>5, <1>6, <2>1 DEF Current
  <2>2. CASE s \in DOMAIN sessions
    <3>1. Current(s)
      BY <2>2 DEF SignInInv, SessionsInv
    <3>2. QED BY <1>4, <1>5, <1>6, <2>2, <3>1 DEF Current
  <2>3. QED BY <1>5, <2>1, <2>2
<1>8. ASSUME NEW t \in tokens'
      PROVE  t \in (DOMAIN sessions') \X Nat /\ t[2] <= sessions'[t[1]].token
  <2>1. CASE t = <<n, 0>>
    BY <1>2, <1>5, <2>1
  <2>2. CASE t \in tokens
    <3>1. t \in (DOMAIN sessions) \X Nat /\ t[2] <= sessions[t[1]].token
      BY <2>2 DEF SignInInv, SessionsInv
    <3>2. QED BY <1>5, <3>1
  <2>3. QED BY <1>4, <2>1, <2>2
<1>9. AccountsInv'
  BY <1>4, <1>6 DEF SignInInv, AccountsInv, Apart
<1>10. QED BY <1>5, <1>7, <1>8, <1>9 DEF SignInInv, SessionsInv

LEMMA SessionSteps ==
  ASSUME SignInInv, NEW s \in DOMAIN sessions,
         Expire(s) \/ Logout(s) \/ \E token : Refresh(s, token)
  PROVE  SignInInv'
<1>0. sessions[s] \in SessionRow /\ sessions[s].token \in Nat
  <2>1. sessions[s] \in SessionRow
    BY SessionRows DEF SignInInv
  <2>2. QED BY <2>1 DEF SessionRow
<1>1. accounts' = accounts /\ resets' = resets
  BY DEF Expire, Logout, Refresh
<1>2. AccountsInv'
  BY <1>1 DEF SignInInv, AccountsInv, Apart, Held
<1>3. SessionsInv'
  <2>1. CASE Expire(s)
    <3>1. /\ sessions' = [sessions EXCEPT ![s] = [sessions[s] EXCEPT !.live = FALSE]]
          /\ tokens' = tokens
      BY <2>1 DEF Expire
    <3>2. PICK x : x = [sessions[s] EXCEPT !.live = FALSE]
      OBVIOUS
    <3>3. x \in SessionRow /\ ~x.live /\ x.who = sessions[s].who /\ x.token = sessions[s].token
      BY <1>0, <3>2, SessionEdits
    <3>4. tokens' \subseteq tokens \cup {<<s, x.token>>} /\ sessions[s].token <= x.token
      BY <1>0, <3>1, <3>3
    <3>5. QED BY <1>0, <1>1, <3>1, <3>2, <3>3, <3>4, SetSession
  <2>2. CASE Logout(s)
    <3>1. /\ sessions' = [sessions EXCEPT ![s] = [sessions[s] EXCEPT !.revoked = TRUE, !.live = FALSE]]
          /\ tokens' = tokens
      BY <2>2 DEF Logout
    <3>2. PICK x : x = [sessions[s] EXCEPT !.revoked = TRUE, !.live = FALSE]
      OBVIOUS
    <3>3. x \in SessionRow /\ x.revoked /\ x.who = sessions[s].who /\ x.token = sessions[s].token
      BY <1>0, <3>2, SessionEdits
    <3>4. tokens' \subseteq tokens \cup {<<s, x.token>>} /\ sessions[s].token <= x.token
      BY <1>0, <3>1, <3>3
    <3>5. QED BY <1>0, <1>1, <3>1, <3>2, <3>3, <3>4, SetSession
  <2>3. ASSUME NEW token, Refresh(s, token) PROVE SessionsInv'
    <3>1. /\ sessions' = [sessions EXCEPT ![s] = [sessions[s] EXCEPT !.token = @ + 1, !.live = TRUE,
                                                                     !.revoked = FALSE]]
          /\ tokens' = tokens \cup {<<s, sessions[s].token + 1>>}
          /\ ~sessions[s].revoked /\ sessions[s].live
      BY <2>3 DEF Refresh, Renews
    <3>2. PICK x : x = [sessions[s] EXCEPT !.token = @ + 1, !.live = TRUE, !.revoked = FALSE]
      OBVIOUS
    <3>3. /\ x \in SessionRow /\ x.who = sessions[s].who /\ x.token = sessions[s].token + 1
          /\ x.side = sessions[s].side /\ x.since = sessions[s].since
      BY <1>0, <3>2, SessionEdits
    <3>4. tokens' \subseteq tokens \cup {<<s, x.token>>} /\ sessions[s].token <= x.token
      BY <1>0, <3>1, <3>3
    <3>5. QED BY <1>0, <1>1, <3>1, <3>2, <3>3, <3>4, SetSession
  <2>4. QED BY <2>1, <2>2, <2>3
<1>4. QED BY <1>2, <1>3 DEF SignInInv

-----------------------------------------------------------------------------
(* Each request keeps the invariant. *)

LEMMA UpdateEmailStep ==
  ASSUME SignInInv, NEW p \in Uuids, NEW email \in Emails, UpdateEmail(p, email)
  PROVE  SignInInv' /\ Held' = Held /\ \A q \in Held : accounts'[q].side = accounts[q].side
<1>0. p \in Held /\ accounts[p] \in AccountRow
  BY HeldRows DEF UpdateEmail, SignInInv
<1>1. PICK x : x = [accounts[p] EXCEPT !.email = email]
  OBVIOUS
<1>2. x \in AccountRow /\ x.side = accounts[p].side /\ x.email = email
  BY <1>0, <1>1, AccountEdits
<1>3. /\ accounts' = [accounts EXCEPT ![p] = x] /\ resets' = resets
      /\ \A q \in StaffOf(x.side) : accounts[q].email = x.email => q = p
      /\ UNCHANGED <<sessions, tokens>>
  BY <1>1, <1>2 DEF UpdateEmail
<1>4. /\ AccountsInv' /\ Held' = Held
      /\ \A q \in Held : accounts'[q].side = accounts[q].side
  BY <1>0, <1>2, <1>3, SetAccount DEF SignInInv, AccountsInv
<1>5. \A s \in DOMAIN sessions : Fate(sessions[s].who)
  BY <1>3, <1>4 DEF Fate
<1>6. QED BY <1>3, <1>4, <1>5, SessionsStay DEF SignInInv

LEMMA UpdatePasswordStep ==
  ASSUME SignInInv, NEW p \in Uuids, UpdatePassword(p)
  PROVE  SignInInv' /\ Held' = Held /\ \A q \in Held : accounts'[q].side = accounts[q].side
<1>0. p \in Held /\ accounts[p] \in AccountRow
  BY HeldRows DEF UpdatePassword, SignInInv
<1>1. PICK x : x = [accounts[p] EXCEPT !.password = @ + 1]
  OBVIOUS
<1>2. x \in AccountRow /\ x.side = accounts[p].side /\ x.email = accounts[p].email
  BY <1>0, <1>1, AccountEdits
<1>3. /\ accounts' = [accounts EXCEPT ![p] = x] /\ resets' = resets
      /\ UNCHANGED <<sessions, tokens>>
  BY <1>1 DEF UpdatePassword
<1>4. \A q \in StaffOf(x.side) : accounts[q].email = x.email => q = p
  BY <1>0, <1>2 DEF StaffOf, SignInInv, AccountsInv, Apart
<1>5. /\ AccountsInv' /\ Held' = Held
      /\ \A q \in Held : accounts'[q].side = accounts[q].side
  BY <1>0, <1>2, <1>3, <1>4, SetAccount DEF SignInInv, AccountsInv
<1>6. \A s \in DOMAIN sessions : Fate(sessions[s].who)
  BY <1>3, <1>5 DEF Fate
<1>7. QED BY <1>3, <1>5, <1>6, SessionsStay DEF SignInInv

LEMMA ResetStep ==
  ASSUME SignInInv, NEW p \in Uuids, ResetPassword(p)
  PROVE  SignInInv' /\ Held' = Held /\ \A q \in Held : accounts'[q].side = accounts[q].side
<1>0. p \in Held /\ accounts[p] \in AccountRow
  BY HeldRows DEF ResetPassword, SignInInv
<1>1. PICK x : x = [accounts[p] EXCEPT !.password = @ + 1]
  OBVIOUS
<1>2. x \in AccountRow /\ x.side = accounts[p].side /\ x.email = accounts[p].email
  BY <1>0, <1>1, AccountEdits
<1>3. /\ accounts' = [accounts EXCEPT ![p] = x] /\ resets' = [resets EXCEPT ![p] = @ + 1]
      /\ sessions' = RevokeSessionsOf(p) /\ tokens' = tokens
  BY <1>1 DEF ResetPassword
<1>4. \A q \in StaffOf(x.side) : accounts[q].email = x.email => q = p
  BY <1>0, <1>2 DEF StaffOf, SignInInv, AccountsInv, Apart
<1>5. resets' \in [Uuids -> Nat]
  BY <1>3 DEF SignInInv, AccountsInv
<1>6. /\ AccountsInv' /\ Held' = Held
      /\ \A q \in Held : accounts'[q].side = accounts[q].side
  BY <1>0, <1>2, <1>3, <1>4, <1>5, SetAccount DEF SignInInv
<1>7. QED BY <1>0, <1>3, <1>6, SessionsRevoked DEF SignInInv

LEMMA DeleteStep ==
  ASSUME SignInInv, NEW p \in Uuids, DeleteAccount(p)
  PROVE  /\ SignInInv' /\ Held' = Held \ {p} /\ \A q \in Held' : accounts'[q] = accounts[q]
         /\ p \in Held
<1>0. p \in Held
  BY DEF DeleteAccount
<1>1. /\ accounts' = [q \in Uuids |-> IF q \in {p} THEN NoData ELSE accounts[q]]
      /\ resets' = [resets EXCEPT ![p] = @ + 1]
      /\ sessions' = RevokeSessionsOf(p) /\ tokens' = tokens
  BY DEF DeleteAccount, SignInInv, AccountsInv
<1>2. resets' \in [Uuids -> Nat]
  BY <1>1 DEF SignInInv, AccountsInv
<1>3. AccountsInv' /\ Held' = Held \ {p} /\ \A q \in Held' : accounts'[q] = accounts[q]
  <2>1. {p} \subseteq Held
    BY <1>0
  <2>2. QED BY <1>1, <1>2, <2>1, RemoveStep DEF SignInInv
<1>4. SessionsInv'
  BY <1>0, <1>1, <1>3, SessionsRevoked
<1>5. QED BY <1>0, <1>3, <1>4 DEF SignInInv

LEMMA CloseStep ==
  ASSUME SignInInv, NEW v \in Venues, CloseVenue(v)
  PROVE  /\ SignInInv' /\ Held' = Held \ StaffOf(v)
         /\ \A q \in Held' : accounts'[q] = accounts[q]
<1> DEFINE gone == StaffOf(v)
<1>1. /\ accounts' = [q \in Uuids |-> IF q \in gone THEN NoData ELSE accounts[q]]
      /\ resets' = [q \in Uuids |-> IF q \in gone THEN resets[q] + 1 ELSE resets[q]]
      /\ UNCHANGED <<sessions, tokens>>
  BY DEF CloseVenue
<1>2. gone \subseteq Held
  BY DEF StaffOf
<1> HIDE DEF gone
<1>3. resets' \in [Uuids -> Nat] /\ resets \in [Uuids -> Nat]
  BY <1>1 DEF SignInInv, AccountsInv
<1>4. AccountsInv' /\ Held' = Held \ gone /\ \A q \in Held' : accounts'[q] = accounts[q]
  BY <1>1, <1>2, <1>3, RemoveStep DEF SignInInv
<1>5. ASSUME NEW s \in DOMAIN sessions PROVE Fate(sessions[s].who)
  <2>1. sessions[s].who \in Uuids
    BY SessionRows DEF SignInInv
  <2>2. CASE sessions[s].who \in gone
    BY <1>1, <1>3, <1>4, <2>1, <2>2 DEF Fate
  <2>3. CASE sessions[s].who \notin gone
    BY <1>1, <1>3, <1>4, <2>1, <2>3 DEF Fate
  <2>4. QED BY <2>2, <2>3
<1>6. SessionsInv'
  BY <1>1, <1>5, SessionsStay
<1>7. QED BY <1>4, <1>6 DEF SignInInv, gone

LEMMA InsertKeeps ==
  ASSUME SignInInv, NEW side \in Sides, NEW batch, batch \subseteq Emails,
         InsertAccounts(side, batch)
  PROVE  SignInInv'
<1>1. /\ AccountsInv' /\ resets' = resets /\ Held \subseteq Held'
      /\ \A p \in Held : accounts'[p] = accounts[p]
      /\ \A p \in Held' \ Held : resets[p] = 0
  BY InsertStep DEF SignInInv
<1>2. UNCHANGED <<sessions, tokens>>
  BY DEF InsertAccounts
<1>3. \A s \in DOMAIN sessions : Fate(sessions[s].who)
  BY <1>1 DEF Fate
<1>4. QED BY <1>1, <1>2, <1>3, SessionsStay DEF SignInInv

LEMMA SidesApart == Ressy \in Sides /\ Venues \subseteq Sides /\ Ressy \notin Venues
  BY AccountsAssumption DEF Sides

(* An unchanged table keeps what is said of it. *)
LEMMA SignInStays ==
  ASSUME SignInInv, UNCHANGED signIn
  PROVE  SignInInv' /\ Held' = Held
<1>1. UNCHANGED <<accounts, sessions, tokens, resets>>
  BY DEF signIn
<1>2. Held' = Held
  BY <1>1 DEF Held
<1>3. AccountsInv'
  BY <1>1, <1>2 DEF SignInInv, AccountsInv, Apart
<1>4. SessionsInv'
  BY <1>1, <1>2 DEF SignInInv, SessionsInv, Current
<1>5. QED BY <1>2, <1>3, <1>4 DEF SignInInv

(* What a step may do to the accounts of a side. *)
Manned(side) == StaffOf(side) # {} => (StaffOf(side) # {})' \/ side \in closed'

LEMMA SameSides ==
  ASSUME Held \subseteq Held', \A q \in Held : accounts'[q].side = accounts[q].side
  PROVE  \A side \in Sides : Manned(side)
  BY DEF Manned, StaffOf

(* The last of a side cannot be deleted. *)
LEMMA DeleteKeepsOne ==
  ASSUME SignInInv, NEW p \in Uuids, DeleteAccount(p)
  PROVE  \A side \in Sides : Manned(side)
<1>1. /\ Held' = Held \ {p} /\ \A q \in Held' : accounts'[q] = accounts[q]
      /\ p \in Held /\ Cardinality(StaffOf(accounts[p].side)) > 1
  BY DeleteStep DEF DeleteAccount
<1>2. IsFiniteSet(StaffOf(accounts[p].side))
  BY AccountsAssumption, FS_Subset DEF StaffOf, Held
<1>3. StaffOf(accounts[p].side) # {p}
  <2>1. Cardinality({p}) = 1
    BY FS_Singleton
  <2>2. QED BY <1>1, <2>1
<1>4. p \in StaffOf(accounts[p].side)
  BY <1>1 DEF StaffOf
<1>5. PICK q \in StaffOf(accounts[p].side) : q # p
  BY <1>3, <1>4
<1>6. ASSUME NEW side \in Sides PROVE Manned(side)
  <2>1. CASE side = accounts[p].side
    BY <1>1, <1>5, <2>1 DEF Manned, StaffOf
  <2>2. CASE side # accounts[p].side
    BY <1>1, <2>2 DEF Manned, StaffOf
  <2>3. QED BY <2>1, <2>2
<1>7. QED BY <1>6

LEMMA CloseClosesOne ==
  ASSUME SignInInv, NEW v \in Venues, CloseVenue(v)
  PROVE  \A side \in Sides : Manned(side)
<1>1. /\ Held' = Held \ StaffOf(v) /\ \A q \in Held' : accounts'[q] = accounts[q]
      /\ v \in closed'
  BY CloseStep DEF CloseVenue
<1>2. QED BY <1>1 DEF Manned, StaffOf

LEMMA StaffingStep ==
  ASSUME SignInInv, Staffing
  PROVE  SignInInv' /\ \A side \in Sides : Manned(side)
<1> DEFINE Goal == SignInInv' /\ \A side \in Sides : Manned(side)
<1> SUFFICES Goal
  OBVIOUS
<1>1. ASSUME NEW side \in Sides, NEW batch, batch \subseteq Emails, InsertAccounts(side, batch)
      PROVE  Goal
  <2>1. Held \subseteq Held' /\ \A q \in Held : accounts'[q].side = accounts[q].side
    BY <1>1, InsertStep DEF SignInInv
  <2>2. QED BY <1>1, <2>1, InsertKeeps, SameSides
<1>2. ASSUME NEW p \in Uuids,
             UpdatePassword(p) \/ ResetPassword(p) \/ \E email \in Emails : UpdateEmail(p, email)
      PROVE  Goal
  BY <1>2, UpdatePasswordStep, ResetStep, UpdateEmailStep, SameSides
<1>3. ASSUME NEW p \in Uuids, DeleteAccount(p) PROVE Goal
  BY <1>3, DeleteStep, DeleteKeepsOne
<1>4. ASSUME NEW v \in Venues, CloseVenue(v) PROVE Goal
  BY <1>4, CloseStep, CloseClosesOne
<1>5. ASSUME NEW p \in Held, CreateSession(p) PROVE Goal
  <2>1. Held' = Held /\ accounts' = accounts
    BY <1>5 DEF CreateSession, Held
  <2>2. QED BY <1>5, <2>1, CreateSessionStep, SameSides
<1>6. ASSUME NEW s \in DOMAIN sessions, Expire(s) \/ Logout(s) \/ \E token : Refresh(s, token)
      PROVE  Goal
  <2>1. Held' = Held /\ accounts' = accounts
    BY <1>6 DEF Expire, Logout, Refresh, Held
  <2>2. QED BY <1>6, <2>1, SessionSteps, SameSides
<1> HIDE DEF Goal
<1>7. CASE \E email \in Emails : CreateAdminUser(email) \/ \E v \in Venues : CreateClientUser(v, email)
  <2>1. \A email \in Emails : {email} \subseteq Emails
    OBVIOUS
  <2>2. QED BY <1>1, <1>7, <2>1, SidesApart DEF CreateAdminUser, CreateClientUser
<1>8. CASE \E batch \in Signups :
             BulkCreateAdminUsers(batch) \/ \E v \in Venues : BulkCreateClientUsers(v, batch)
  BY <1>1, <1>8, SidesApart, AccountsAssumption DEF BulkCreateAdminUsers, BulkCreateClientUsers
<1>9. CASE \E p \in Uuids :
             \/ LoginRessyAdmin(p) \/ UpdateAdminUser(p) \/ ResetAdminUserPassword(p) \/ DeleteAdminUser(p)
             \/ LoginRestaurantAdmin(p)
             \/ \E v \in Venues :
                  UpdateClientUser(v, p) \/ ResetClientUserPassword(v, p) \/ DeleteClientUser(v, p)
  <2>1. PICK p \in Uuids :
          \/ LoginRessyAdmin(p) \/ UpdateAdminUser(p) \/ ResetAdminUserPassword(p) \/ DeleteAdminUser(p)
          \/ LoginRestaurantAdmin(p)
          \/ \E v \in Venues :
               UpdateClientUser(v, p) \/ ResetClientUserPassword(v, p) \/ DeleteClientUser(v, p)
    BY <1>9
  <2>2. CASE LoginRessyAdmin(p) \/ LoginRestaurantAdmin(p)
    BY <1>5, <2>2 DEF LoginRessyAdmin, LoginRestaurantAdmin, StaffOf
  <2>3. CASE UpdateAdminUser(p) \/ ResetAdminUserPassword(p)
    BY <1>2, <2>3 DEF UpdateAdminUser, ResetAdminUserPassword
  <2>4. CASE \E v \in Venues : UpdateClientUser(v, p) \/ ResetClientUserPassword(v, p)
    BY <1>2, <2>4 DEF UpdateClientUser, ResetClientUserPassword
  <2>5. CASE DeleteAdminUser(p) \/ \E v \in Venues : DeleteClientUser(v, p)
    BY <1>3, <2>5 DEF DeleteAdminUser, DeleteClientUser
  <2>6. QED BY <2>1, <2>2, <2>3, <2>4, <2>5
<1>10. CASE \E v \in Venues : CloseVenue(v)
  BY <1>4, <1>10
<1>11. CASE \E s \in DOMAIN sessions : Expire(s) \/ Logout(s)
  BY <1>6, <1>11
<1>12. CASE \E t \in tokens : Refresh(t[1], t[2])
  <2>1. PICK t \in tokens : Refresh(t[1], t[2])
    BY <1>12
  <2>2. t[1] \in DOMAIN sessions
    BY <2>1 DEF SignInInv, SessionsInv
  <2>3. QED BY <1>6, <2>1, <2>2
<1>13. QED BY <1>7, <1>8, <1>9, <1>10, <1>11, <1>12 DEF Staffing

LEMMA ServingKeepsAccounts ==
  ASSUME Serving(Data)
  PROVE  UNCHANGED signIn
  BY DEF Serving, Upsert, InsertOrUpdate, SelectByPhone, SelectByEmail, UpdateByEmail, PlainInsert,
         CreateMapping, Serve, UpdateCustomer

LEMMA SignInInit == AccountsInit => SignInInv
<1> SUFFICES ASSUME AccountsInit PROVE SignInInv
  OBVIOUS
<1>1. Held = {}
  BY DEF AccountsInit, Held
<1>2. AccountsInv
  BY <1>1 DEF AccountsInit, AccountsInv, Apart
<1>3. sessions \in Seq(SessionRow) /\ DOMAIN sessions = {} /\ tokens = {}
  BY DEF AccountsInit
<1>4. SessionsInv
  BY <1>3 DEF SessionsInv
<1>5. QED BY <1>2, <1>4 DEF SignInInv

LEMMA SignInNext ==
  ASSUME SignInInv, [Staffing \/ Serving(Data)]_accountVars
  PROVE  SignInInv' /\ \A side \in Sides : Manned(side)
<1>1. CASE Staffing
  BY <1>1, StaffingStep
<1>2. CASE UNCHANGED signIn
  <2>1. accounts' = accounts
    BY <1>2 DEF signIn
  <2>2. QED BY <1>2, <2>1, SignInStays, SameSides
<1>3. QED BY <1>1, <1>2, ServingKeepsAccounts DEF accountVars

THEOREM SignInCorrect == AccountsSpec => []SignInInv
<1>1. SignInInv /\ [Staffing \/ Serving(Data)]_accountVars => SignInInv'
  BY SignInNext
<1>2. QED BY SignInInit, <1>1, PTL DEF AccountsSpec

(* No token renews a session from before a reset of its account, and of the   *)
(* tokens of a session only the last renews it.                               *)
THEOREM ResetsEndSessions == AccountsSpec => []ResetEndsSessions
<1>1. SignInInv => ResetEndsSessions
  BY DEF SignInInv, SessionsInv, Current, Renews, ResetEndsSessions
<1>2. QED BY <1>1, SignInCorrect, PTL

(* A side that has an account keeps one until it is deleted as a whole, and   *)
(* no two accounts of a side share an email.                                  *)
THEOREM SomebodyAlwaysCan == AccountsSpec => SomebodyCanManage
<1> DEFINE Kept == \A side \in Sides :
                     StaffOf(side) # {} => (StaffOf(side) # {})' \/ side \in closed'
           Unique == \A p, q \in Held :
                       accounts[p].side = accounts[q].side /\ accounts[p].email = accounts[q].email
                         => p = q
<1>1. SignInInv /\ [Staffing \/ Serving(Data)]_accountVars => [Kept]_accountVars
  BY SignInNext DEF Manned
<1>2. SignInInv => Unique
  BY DEF SignInInv, AccountsInv, Apart
<1> HIDE DEF Kept, Unique
<1>3. AccountsSpec => [][Kept]_accountVars /\ []Unique
  BY SignInCorrect, <1>1, <1>2, PTL DEF AccountsSpec
<1>4. QED BY <1>3 DEF SomebodyCanManage, Kept, Unique
-----------------------------------------------------------------------------
(* Customers. *)

Stages == {"idle", "failed", "insert", "select", "email", "update", "plain", "map", "served"}

Writer == [st : Stages, data : Data \cup {NoData}, venue : Venues \cup {NoData}, id : Nat,
           explicit : BOOLEAN]

(* A phone is of one row at most, and so is an email. *)
TableInv ==
  /\ customers \in Seq(Data)
  /\ \A u, v \in Rows : /\ customers[u].phone = customers[v].phone /\ customers[u].phone # NoData => u = v
                        /\ customers[u].email = customers[v].email /\ customers[u].email # NoData => u = v

(* What a writer knows. *)
Filed(w) ==
  LET writer == writers[w] IN
  /\ writer.st \notin {"idle", "failed"} => writer.data \in Data
  /\ writer.st \in {"update", "map", "served"} => writer.id \in Rows
  /\ writer.st \in {"map", "served"} /\ writer.data.phone # NoData =>
       customers[writer.id].phone = writer.data.phone \/ writer.id \in moved
  /\ writer.st = "served" => <<writer.id, writer.venue>> \in mapped \/ writer.venue \in closed

WritersInv ==
  /\ writers \in [Writers -> Writer]
  /\ \A w \in Writers : Filed(w)

CustomersInv == TableInv /\ WritersInv

LEMMA RowEdits ==
  ASSUME NEW x \in Data, NEW d \in Data
  PROVE  /\ LET y == [x EXCEPT !.name = Coalesce(d.name, @), !.email = Coalesce(d.email, @),
                               !.spam = d.spam]
            IN y \in Data /\ y.phone = x.phone /\ y.email = Coalesce(d.email, x.email)
         /\ LET y == [x EXCEPT !.name = Coalesce(d.name, @), !.phone = Coalesce(d.phone, @),
                               !.spam = d.spam]
            IN y \in Data /\ y.phone = Coalesce(d.phone, x.phone) /\ y.email = x.email
         /\ LET y == [x EXCEPT !.phone = Coalesce(d.phone, @), !.email = Coalesce(d.email, @),
                               !.name = Coalesce(d.name, @), !.spam = d.spam]
            IN y \in Data /\ y.phone = Coalesce(d.phone, x.phone)
               /\ y.email = Coalesce(d.email, x.email)
<1>1. /\ Coalesce(d.name, x.name) \in Names \cup {NoData}
      /\ Coalesce(d.phone, x.phone) \in Lines \cup {NoData}
      /\ Coalesce(d.email, x.email) \in Emails \cup {NoData}
      /\ d.spam \in BOOLEAN
  BY DEF Coalesce, Data
<1>2. PICK n \in Names \cup {NoData}, p \in Lines \cup {NoData}, e \in Emails \cup {NoData},
           b \in BOOLEAN :
        /\ n = Coalesce(d.name, x.name) /\ p = Coalesce(d.phone, x.phone)
        /\ e = Coalesce(d.email, x.email) /\ b = d.spam
  BY <1>1
<1>3. /\ [x EXCEPT !.name = n, !.email = e, !.spam = b] \in Data
      /\ [x EXCEPT !.name = n, !.email = e, !.spam = b].phone = x.phone
      /\ [x EXCEPT !.name = n, !.email = e, !.spam = b].email = e
  BY DEF Data
<1>4. /\ [x EXCEPT !.name = n, !.phone = p, !.spam = b] \in Data
      /\ [x EXCEPT !.name = n, !.phone = p, !.spam = b].phone = p
      /\ [x EXCEPT !.name = n, !.phone = p, !.spam = b].email = x.email
  BY DEF Data
<1>5. /\ [x EXCEPT !.phone = p, !.email = e, !.name = n, !.spam = b] \in Data
      /\ [x EXCEPT !.phone = p, !.email = e, !.name = n, !.spam = b].phone = p
      /\ [x EXCEPT !.phone = p, !.email = e, !.name = n, !.spam = b].email = e
  BY DEF Data
<1>6. /\ [x EXCEPT !.name = Coalesce(d.name, @), !.email = Coalesce(d.email, @), !.spam = d.spam]
           = [x EXCEPT !.name = n, !.email = e, !.spam = b]
      /\ [x EXCEPT !.name = Coalesce(d.name, @), !.phone = Coalesce(d.phone, @), !.spam = d.spam]
           = [x EXCEPT !.name = n, !.phone = p, !.spam = b]
      /\ [x EXCEPT !.phone = Coalesce(d.phone, @), !.email = Coalesce(d.email, @),
                   !.name = Coalesce(d.name, @), !.spam = d.spam]
           = [x EXCEPT !.phone = p, !.email = e, !.name = n, !.spam = b]
  BY <1>2 DEF Data
<1>7. QED BY <1>2, <1>3, <1>4, <1>5, <1>6

(* One row is rewritten. *)
LEMMA SetCustomer ==
  ASSUME TableInv, NEW u \in Rows, NEW x \in Data,
         customers' = [customers EXCEPT ![u] = x],
         x.phone # NoData => ByLine(x.phone) \subseteq {u},
         x.email # NoData => ByEmail(x.email) \subseteq {u}
  PROVE  /\ TableInv' /\ Rows' = Rows
         /\ \A v \in Rows : customers'[v] = IF v = u THEN x ELSE customers[v]
<1>1. /\ customers' \in Seq(Data) /\ Rows' = Rows
      /\ \A v \in Rows : customers'[v] = IF v = u THEN x ELSE customers[v]
  BY ExceptSeq DEF TableInv, Rows
<1>2. QED BY <1>1 DEF TableInv, ByLine, ByEmail

(* A row is added. *)
LEMMA AddCustomer ==
  ASSUME TableInv, NEW x \in Data, customers' = Append(customers, x),
         x.phone # NoData => ByLine(x.phone) = {}, x.email # NoData => ByEmail(x.email) = {}
  PROVE  /\ TableInv' /\ Rows \subseteq Rows'
         /\ Len(customers) + 1 \in Rows' /\ customers'[Len(customers) + 1] = x
         /\ \A v \in Rows : customers'[v] = customers[v]
<1>1. PICK n : n = Len(customers) + 1
  OBVIOUS
<1>2. /\ customers' \in Seq(Data) /\ Rows' = Rows \cup {n} /\ n \notin Rows
      /\ customers'[n] = x
      /\ \A v \in Rows : customers'[v] = customers[v]
  <2>1. customers \in Seq(Data)
    BY DEF TableInv
  <2>2. QED BY <1>1, <2>1 DEF Rows
<1>3. ASSUME NEW v \in Rows
      PROVE  /\ x.phone # NoData => customers[v].phone # x.phone
             /\ x.email # NoData => customers[v].email # x.email
  BY DEF ByLine, ByEmail
<1>4. ASSUME NEW u \in Rows', NEW v \in Rows'
      PROVE  /\ customers'[u].phone = customers'[v].phone /\ customers'[u].phone # NoData => u = v
             /\ customers'[u].email = customers'[v].email /\ customers'[u].email # NoData => u = v
  <2>1. CASE u \in Rows /\ v \in Rows
    <3>1. customers'[u] = customers[u] /\ customers'[v] = customers[v]
      BY <1>2, <2>1
    <3>2. /\ customers[u].phone = customers[v].phone /\ customers[u].phone # NoData => u = v
          /\ customers[u].email = customers[v].email /\ customers[u].email # NoData => u = v
      BY <2>1 DEF TableInv
    <3>3. QED BY <3>1, <3>2
  <2>2. CASE u = n \/ v = n
    BY <1>2, <1>3, <2>2
  <2>3. QED BY <1>2, <2>1, <2>2
<1>5. TableInv'
  BY <1>2, <1>4 DEF TableInv
<1>6. QED BY <1>1, <1>2, <1>5

(* A writer that did nothing has lost nothing by what others did. *)
LEMMA OthersFiled ==
  ASSUME NEW w \in Writers, Filed(w), writers'[w] = writers[w],
         Rows \subseteq Rows',
         \A u \in Rows : customers'[u].phone = customers[u].phone \/ u \in moved',
         moved \subseteq moved', closed \subseteq closed',
         \A m \in mapped : m \in mapped' \/ m[2] \in closed'
  PROVE  Filed(w)'
  BY DEF Filed

LEMMA StepTurns ==
  ASSUME writers \in [Writers -> Writer], NEW w \in Writers, NEW st \in Stages, NEW id \in Nat,
         Step(w, st, id)
  PROVE  /\ writers' \in [Writers -> Writer]
         /\ writers'[w].st = st /\ writers'[w].id = id
         /\ writers'[w].data = writers[w].data /\ writers'[w].venue = writers[w].venue
         /\ \A x \in Writers : x # w => writers'[x] = writers[x]
<1>1. writers' = [writers EXCEPT ![w] = [writers[w] EXCEPT !.st = st, !.id = id]]
  BY DEF Step
<1>2. PICK y : y = [writers[w] EXCEPT !.st = st, !.id = id]
  OBVIOUS
<1>3. writers[w] \in Writer
  OBVIOUS
<1>4. /\ y \in Writer /\ y.st = st /\ y.id = id /\ y.data = writers[w].data
      /\ y.venue = writers[w].venue
  BY <1>2, <1>3 DEF Writer
<1>5. QED BY <1>1, <1>2, <1>4

LEMMA FailTurns ==
  ASSUME writers \in [Writers -> Writer], NEW w \in Writers, Fail(w)
  PROVE  /\ writers' \in [Writers -> Writer] /\ writers'[w].st = "failed"
         /\ \A x \in Writers : x # w => writers'[x] = writers[x]
<1>1. Idle \in Writer
  BY DEF Idle, Writer, Stages
<1>2. PICK y : y = [Idle EXCEPT !.st = "failed"]
  OBVIOUS
<1>3. y \in Writer /\ y.st = "failed"
  BY <1>1, <1>2 DEF Writer, Stages
<1>4. writers' = [writers EXCEPT ![w] = y]
  BY <1>2 DEF Fail
<1>5. QED BY <1>3, <1>4

LEMMA FailedIsFiled ==
  ASSUME NEW w, writers'[w].st = "failed"
  PROVE  Filed(w)'
  BY DEF Filed

LEMMA OnlyOneFound ==
  ASSUME TableInv, NEW d \in Data
  PROVE  /\ ByLine(d.phone) # {} => /\ Max(ByLine(d.phone)) \in Rows
                                    /\ customers[Max(ByLine(d.phone))].phone = d.phone
         /\ ByEmail(d.email) # {} => Max(ByEmail(d.email)) \in Rows
<1>1. Rows \subseteq Nat
  BY DEF TableInv, Rows
<1>2. \A n \in Nat : Max({n}) = n
  BY DEF Max
<1>3. ASSUME NEW S, S \subseteq Rows, S # {}, \A u, v \in S : u = v
      PROVE  Max(S) \in S
  <2>1. PICK u \in S : S = {u}
    BY <1>3
  <2>2. QED BY <1>1, <1>2, <1>3, <2>1
<1>4. ByLine(d.phone) # {} => Max(ByLine(d.phone)) \in ByLine(d.phone)
  BY <1>3 DEF TableInv, ByLine
<1>5. ByEmail(d.email) # {} => Max(ByEmail(d.email)) \in ByEmail(d.email)
  BY <1>3 DEF TableInv, ByEmail
<1>6. QED BY <1>4, <1>5 DEF ByLine, ByEmail

(* Whoever writes, the others stay filed. *)
LEMMA WriterTurns ==
  ASSUME CustomersInv, NEW w \in Writers, TableInv', Filed(w)',
         writers' \in [Writers -> Writer],
         \A x \in Writers : x # w => writers'[x] = writers[x],
         Rows \subseteq Rows',
         \A u \in Rows : customers'[u].phone = customers[u].phone \/ u \in moved',
         moved \subseteq moved', closed \subseteq closed', mapped \subseteq mapped'
  PROVE  CustomersInv'
<1>1. ASSUME NEW x \in Writers PROVE Filed(x)'
  <2>1. CASE x = w
    BY <2>1
  <2>2. CASE x # w
    BY <2>2, OthersFiled DEF CustomersInv, WritersInv
  <2>3. QED BY <2>1, <2>2
<1>2. QED BY <1>1 DEF CustomersInv, WritersInv

LEMMA ServeStep ==
  ASSUME CustomersInv, NEW w \in Writers, NEW d \in Data, NEW v \in Venues, NEW explicit \in BOOLEAN,
         Serve(w, d, v, explicit)
  PROVE  CustomersInv'
<1>1. PICK st \in {"insert", "email"} : st = IF d.phone # NoData THEN "insert" ELSE "email"
  OBVIOUS
<1>2. PICK y : y = [st |-> st, data |-> d, venue |-> v, id |-> 0, explicit |-> explicit]
  OBVIOUS
<1>3. y \in Writer /\ y.st \in {"insert", "email"} /\ y.data \in Data
  BY <1>2 DEF Writer, Stages
<1>4. /\ writers' = [writers EXCEPT ![w] = y]
      /\ UNCHANGED <<customers, mapped, moved, closed>>
  BY <1>1, <1>2 DEF Serve, signIn
<1>5. /\ writers' \in [Writers -> Writer] /\ writers'[w] = y
      /\ \A x \in Writers : x # w => writers'[x] = writers[x]
  BY <1>3, <1>4 DEF CustomersInv, WritersInv
<1>6. Filed(w)'
  BY <1>3, <1>5 DEF Filed
<1>7. TableInv' /\ Rows' = Rows
  BY <1>4 DEF CustomersInv, TableInv, Rows
<1>8. QED BY <1>4, <1>5, <1>6, <1>7, WriterTurns

LEMMA InsertOrUpdateStep ==
  ASSUME CustomersInv, NEW w \in Writers, InsertOrUpdate(w)
  PROVE  CustomersInv'
<1> DEFINE d == writers[w].data
           hits == ByLine(d.phone) \cup ByEmail(d.email)
<1>1. /\ writers \in [Writers -> Writer] /\ TableInv /\ d \in Data
      /\ UNCHANGED <<mapped, moved, closed>>
  BY DEF InsertOrUpdate, CustomersInv, WritersInv, Filed, signIn
<1>2. CASE hits = {} /\ customers' = Append(customers, NewCustomer(d)) /\ Step(w, "select", 0)
  <2>1. PICK y : y = NewCustomer(d)
    OBVIOUS
  <2>2. y \in Data /\ y.phone = d.phone /\ y.email = d.email
    BY <1>1, <2>1 DEF NewCustomer, Data
  <2>3. /\ TableInv' /\ Rows \subseteq Rows'
        /\ \A u \in Rows : customers'[u] = customers[u]
    BY <1>1, <1>2, <2>1, <2>2, AddCustomer
  <2>4. /\ writers' \in [Writers -> Writer]
        /\ writers'[w].st = "select" /\ writers'[w].data = writers[w].data
        /\ \A x \in Writers : x # w => writers'[x] = writers[x]
    BY <1>1, <1>2, StepTurns DEF Stages
  <2>5. Filed(w)'
    BY <1>1, <2>4 DEF Filed
  <2>6. QED BY <1>1, <2>3, <2>4, <2>5, WriterTurns
<1>3. ASSUME NEW u \in hits, EmailFree(u, d.email),
             customers' = Rewritten(u, d), Step(w, "select", 0)
      PROVE  CustomersInv'
  <2>1. u \in Rows /\ customers[u] \in Data
    BY <1>1 DEF ByLine, ByEmail, TableInv, Rows
  <2>2. PICK y : y = [customers[u] EXCEPT !.name = Coalesce(d.name, @),
                                          !.email = Coalesce(d.email, @), !.spam = d.spam]
    OBVIOUS
  <2>3. y \in Data /\ y.phone = customers[u].phone /\ y.email = Coalesce(d.email, customers[u].email)
    BY <1>1, <2>1, <2>2, RowEdits
  <2>4. customers' = [customers EXCEPT ![u] = y]
    BY <1>3, <2>2 DEF Rewritten
  <2>5. y.phone # NoData => ByLine(y.phone) \subseteq {u}
    BY <1>1, <2>1, <2>3 DEF TableInv, ByLine
  <2>6. y.email # NoData => ByEmail(y.email) \subseteq {u}
    BY <1>1, <1>3, <2>1, <2>3 DEF TableInv, ByEmail, EmailFree, Coalesce
  <2>7. /\ TableInv' /\ Rows' = Rows
        /\ \A x \in Rows : customers'[x].phone = customers[x].phone
    <3>1. /\ TableInv' /\ Rows' = Rows
          /\ \A x \in Rows : customers'[x] = IF x = u THEN y ELSE customers[x]
      BY <1>1, <2>1, <2>3, <2>4, <2>5, <2>6, SetCustomer
    <3>2. QED BY <2>3, <3>1
  <2>8. /\ writers' \in [Writers -> Writer]
        /\ writers'[w].st = "select" /\ writers'[w].data = writers[w].data
        /\ \A x \in Writers : x # w => writers'[x] = writers[x]
    BY <1>1, <1>3, StepTurns DEF Stages
  <2>9. Filed(w)'
    BY <1>1, <2>8 DEF Filed
  <2>10. QED BY <1>1, <2>7, <2>8, <2>9, WriterTurns
<1>4. CASE UNCHANGED customers /\ Fail(w)
  <2>1. /\ writers' \in [Writers -> Writer] /\ writers'[w].st = "failed"
        /\ \A x \in Writers : x # w => writers'[x] = writers[x]
    BY <1>1, <1>4, FailTurns
  <2>2. TableInv' /\ Rows' = Rows
    BY <1>1, <1>4 DEF TableInv, Rows
  <2>3. Filed(w)'
    BY <2>1, FailedIsFiled
  <2>4. QED BY <1>1, <1>4, <2>1, <2>2, <2>3, WriterTurns
<1>5. QED BY <1>2, <1>3, <1>4 DEF InsertOrUpdate

LEMMA SelectSteps ==
  ASSUME CustomersInv, NEW w \in Writers, SelectByPhone(w) \/ SelectByEmail(w)
  PROVE  CustomersInv'
<1> DEFINE d == writers[w].data
<1>1. /\ writers \in [Writers -> Writer] /\ TableInv /\ d \in Data
      /\ UNCHANGED <<customers, mapped, moved, closed>>
  BY DEF SelectByPhone, SelectByEmail, CustomersInv, WritersInv, Filed, signIn
<1>2. TableInv' /\ Rows' = Rows /\ Rows \subseteq Nat
  BY <1>1 DEF TableInv, Rows
<1>3. PICK st \in {"map", "email", "update", "plain"}, id \in Nat :
        /\ Step(w, st, id)
        /\ st \in {"map", "update"} => id \in Rows
        /\ st = "map" => customers[id].phone = d.phone
  <2>1. CASE SelectByPhone(w)
    <3>1. CASE ByLine(d.phone) # {}
      <4>1. Step(w, "map", Max(ByLine(d.phone)))
        BY <2>1, <3>1 DEF SelectByPhone
      <4>2. QED BY <1>1, <1>2, <3>1, <4>1, OnlyOneFound
    <3>2. CASE ByLine(d.phone) = {}
      BY <2>1, <3>2 DEF SelectByPhone
    <3>3. QED BY <3>1, <3>2
  <2>2. CASE SelectByEmail(w)
    <3>1. CASE ByEmail(d.email) # {}
      <4>1. Step(w, "update", Max(ByEmail(d.email)))
        BY <2>2, <3>1 DEF SelectByEmail
      <4>2. QED BY <1>1, <1>2, <3>1, <4>1, OnlyOneFound
    <3>2. CASE ByEmail(d.email) = {}
      BY <2>2, <3>2 DEF SelectByEmail
    <3>3. QED BY <3>1, <3>2
  <2>3. QED BY <2>1, <2>2
<1>4. st \in Stages
  BY DEF Stages
<1>5. /\ writers' \in [Writers -> Writer]
      /\ writers'[w].st = st /\ writers'[w].data = d /\ writers'[w].id = id
      /\ \A x \in Writers : x # w => writers'[x] = writers[x]
  BY <1>1, <1>3, <1>4, StepTurns
<1>6. Filed(w)'
  BY <1>1, <1>2, <1>3, <1>5 DEF Filed
<1>7. QED BY <1>1, <1>2, <1>5, <1>6, WriterTurns

LEMMA UpdateByEmailStep ==
  ASSUME CustomersInv, NEW w \in Writers, UpdateByEmail(w)
  PROVE  CustomersInv'
<1> DEFINE d == writers[w].data
           u == writers[w].id
<1>1. /\ writers \in [Writers -> Writer] /\ TableInv /\ d \in Data /\ u \in Rows
      /\ UNCHANGED <<mapped, closed>>
  BY DEF UpdateByEmail, CustomersInv, WritersInv, Filed, signIn
<1>2. customers[u] \in Data /\ u \in Nat
  BY <1>1 DEF TableInv, Rows
<1>3. CASE ~ByLine(d.phone) \subseteq {u}
  <2>0. UNCHANGED <<customers, moved>> /\ Fail(w)
    BY <1>3 DEF UpdateByEmail
  <2>1. /\ writers' \in [Writers -> Writer] /\ writers'[w].st = "failed"
        /\ \A x \in Writers : x # w => writers'[x] = writers[x]
    BY <1>1, <2>0, FailTurns
  <2>2. TableInv' /\ Rows' = Rows
    BY <1>1, <2>0 DEF TableInv, Rows
  <2>3. Filed(w)'
    BY <2>1, FailedIsFiled
  <2>4. QED BY <1>1, <2>0, <2>1, <2>2, <2>3, WriterTurns
<1>4. CASE ByLine(d.phone) \subseteq {u}
  <2>1. PICK y : y = [customers[u] EXCEPT !.name = Coalesce(d.name, @),
                                          !.phone = Coalesce(d.phone, @), !.spam = d.spam]
    OBVIOUS
  <2>2. y \in Data /\ y.phone = Coalesce(d.phone, customers[u].phone) /\ y.email = customers[u].email
    BY <1>1, <1>2, <2>1, RowEdits
  <2>3. /\ customers' = [customers EXCEPT ![u] = y] /\ Step(w, "map", u)
        /\ moved' = IF y.phone = customers[u].phone THEN moved ELSE moved \cup {u}
    BY <1>4, <2>1, <2>2 DEF UpdateByEmail
  <2>4. y.phone # NoData => ByLine(y.phone) \subseteq {u}
    BY <1>1, <1>4, <2>2 DEF TableInv, ByLine, Coalesce
  <2>5. y.email # NoData => ByEmail(y.email) \subseteq {u}
    BY <1>1, <2>2 DEF TableInv, ByEmail
  <2>6. /\ TableInv' /\ Rows' = Rows
        /\ \A x \in Rows : customers'[x] = IF x = u THEN y ELSE customers[x]
    BY <1>1, <2>2, <2>3, <2>4, <2>5, SetCustomer
  <2>7. \A x \in Rows : customers'[x].phone = customers[x].phone \/ x \in moved'
    BY <2>3, <2>6
  <2>8. /\ writers' \in [Writers -> Writer]
        /\ writers'[w].st = "map" /\ writers'[w].data = d /\ writers'[w].id = u
        /\ \A x \in Writers : x # w => writers'[x] = writers[x]
    <3>1. "map" \in Stages
      BY DEF Stages
    <3>2. QED BY <1>1, <1>2, <2>3, <3>1, StepTurns
  <2>9. Filed(w)'
    BY <1>1, <2>2, <2>6, <2>8 DEF Filed, Coalesce
  <2>10. moved \subseteq moved'
    BY <2>3
  <2>11. QED BY <1>1, <2>6, <2>7, <2>8, <2>9, <2>10, WriterTurns
<1>5. QED BY <1>3, <1>4

LEMMA PlainInsertStep ==
  ASSUME CustomersInv, NEW w \in Writers, PlainInsert(w)
  PROVE  CustomersInv'
<1> DEFINE d == writers[w].data
<1>1. /\ writers \in [Writers -> Writer] /\ TableInv /\ d \in Data
      /\ UNCHANGED <<mapped, moved, closed>>
  BY DEF PlainInsert, CustomersInv, WritersInv, Filed, signIn
<1>2. CASE ByLine(d.phone) \cup ByEmail(d.email) = {}
  <2>1. PICK y : y = NewCustomer(d)
    OBVIOUS
  <2>2. y \in Data /\ y.phone = d.phone /\ y.email = d.email
    BY <1>1, <2>1 DEF NewCustomer, Data
  <2>3. PICK n : n = Len(customers) + 1
    OBVIOUS
  <2>4. customers' = Append(customers, y) /\ Step(w, "map", n)
    BY <1>2, <2>1, <2>3 DEF PlainInsert
  <2>5. /\ TableInv' /\ Rows \subseteq Rows' /\ n \in Rows' /\ customers'[n] = y
        /\ \A u \in Rows : customers'[u] = customers[u]
    BY <1>1, <1>2, <2>2, <2>3, <2>4, AddCustomer
  <2>6. n \in Nat
    BY <1>1, <2>3 DEF TableInv
  <2>7. /\ writers' \in [Writers -> Writer]
        /\ writers'[w].st = "map" /\ writers'[w].data = d /\ writers'[w].id = n
        /\ \A x \in Writers : x # w => writers'[x] = writers[x]
    BY <1>1, <2>4, <2>6, StepTurns DEF Stages
  <2>8. Filed(w)'
    BY <1>1, <2>2, <2>5, <2>7 DEF Filed
  <2>9. QED BY <1>1, <2>5, <2>7, <2>8, WriterTurns
<1>3. CASE ByLine(d.phone) \cup ByEmail(d.email) # {}
  <2>0. UNCHANGED customers /\ Fail(w)
    BY <1>3 DEF PlainInsert
  <2>1. /\ writers' \in [Writers -> Writer] /\ writers'[w].st = "failed"
        /\ \A x \in Writers : x # w => writers'[x] = writers[x]
    BY <1>1, <2>0, FailTurns
  <2>2. TableInv' /\ Rows' = Rows
    BY <1>1, <2>0 DEF TableInv, Rows
  <2>3. Filed(w)'
    BY <2>1, FailedIsFiled
  <2>4. QED BY <1>1, <2>0, <2>1, <2>2, <2>3, WriterTurns
<1>4. QED BY <1>2, <1>3

LEMMA CreateMappingStep ==
  ASSUME CustomersInv, NEW w \in Writers, CreateMapping(w)
  PROVE  CustomersInv'
<1> DEFINE id == writers[w].id
<1>1. /\ writers \in [Writers -> Writer] /\ TableInv /\ Filed(w) /\ writers[w].st = "map"
      /\ UNCHANGED <<customers, moved, closed>> /\ id \in Nat
      /\ mapped \subseteq mapped'
  <2>1. writers[w] \in Writer
    BY DEF CustomersInv, WritersInv
  <2>2. id \in Nat
    BY <2>1 DEF Writer
  <2>3. QED BY <2>2 DEF CreateMapping, CustomersInv, WritersInv, signIn
<1>2. TableInv' /\ Rows' = Rows
  BY <1>1 DEF TableInv, Rows
<1>3. CASE Step(w, "served", id) /\ (<<id, writers[w].venue>> \in mapped' \/ writers[w].venue \in closed)
  <2>1. /\ writers' \in [Writers -> Writer]
        /\ writers'[w].st = "served" /\ writers'[w].data = writers[w].data
        /\ writers'[w].id = id /\ writers'[w].venue = writers[w].venue
        /\ \A x \in Writers : x # w => writers'[x] = writers[x]
    BY <1>1, <1>3, StepTurns DEF Stages
  <2>2. Filed(w)'
    BY <1>1, <1>2, <1>3, <2>1 DEF Filed
  <2>3. QED BY <1>1, <1>2, <2>1, <2>2, WriterTurns
<1>4. CASE Fail(w)
  <2>1. /\ writers' \in [Writers -> Writer] /\ writers'[w].st = "failed"
        /\ \A x \in Writers : x # w => writers'[x] = writers[x]
    BY <1>1, <1>4, FailTurns
  <2>2. Filed(w)'
    BY <2>1, FailedIsFiled
  <2>3. QED BY <1>1, <1>2, <2>1, <2>2, WriterTurns
<1>5. QED BY <1>3, <1>4 DEF CreateMapping

LEMMA UpdateCustomerStep ==
  ASSUME CustomersInv, NEW u \in Rows, NEW d \in Data, UpdateCustomer(u, d)
  PROVE  CustomersInv'
<1>1. TableInv /\ customers[u] \in Data /\ UNCHANGED <<mapped, closed, writers>>
  BY DEF UpdateCustomer, CustomersInv, TableInv, Rows, signIn
<1>2. PICK y : y = [customers[u] EXCEPT !.phone = Coalesce(d.phone, @), !.email = Coalesce(d.email, @),
                                        !.name  = Coalesce(d.name, @), !.spam = d.spam]
  OBVIOUS
<1>3. /\ y \in Data /\ y.phone = Coalesce(d.phone, customers[u].phone)
      /\ y.email = Coalesce(d.email, customers[u].email)
  BY <1>1, <1>2, RowEdits
<1>4. /\ customers' = [customers EXCEPT ![u] = y]
      /\ moved' = IF y.phone = customers[u].phone THEN moved ELSE moved \cup {u}
      /\ ByLine(d.phone) \subseteq {u} /\ ByEmail(d.email) \subseteq {u}
  BY <1>2, <1>3 DEF UpdateCustomer
<1>5. y.phone # NoData => ByLine(y.phone) \subseteq {u}
  BY <1>1, <1>3, <1>4 DEF TableInv, ByLine, Coalesce
<1>6. y.email # NoData => ByEmail(y.email) \subseteq {u}
  BY <1>1, <1>3, <1>4 DEF TableInv, ByEmail, Coalesce
<1>7. /\ TableInv' /\ Rows' = Rows
      /\ \A x \in Rows : customers'[x] = IF x = u THEN y ELSE customers[x]
  BY <1>1, <1>3, <1>4, <1>5, <1>6, SetCustomer
<1>8. /\ \A x \in Rows : customers'[x].phone = customers[x].phone \/ x \in moved'
      /\ moved \subseteq moved'
  BY <1>4, <1>7
<1>9. ASSUME NEW w \in Writers PROVE Filed(w)'
  BY <1>1, <1>7, <1>8, OthersFiled DEF CustomersInv, WritersInv
<1>10. QED BY <1>1, <1>7, <1>9 DEF CustomersInv, WritersInv

(* The accounts leave the customers alone, except that a restaurant which is  *)
(* deleted takes its part of the mapping along.                               *)
LEMMA StaffingKeepsCustomers ==
  ASSUME CustomersInv, Staffing \/ UNCHANGED accountVars
  PROVE  CustomersInv'
<1>1. \/ UNCHANGED <<served, closed>>
      \/ \E v \in Venues : CloseVenue(v)
  BY DEF Staffing, CreateAdminUser, BulkCreateAdminUsers, CreateClientUser, BulkCreateClientUsers,
         InsertAccounts, UpdateAdminUser, UpdateClientUser, UpdatePassword, UpdateEmail,
         ResetAdminUserPassword, ResetClientUserPassword, ResetPassword, DeleteAdminUser,
         DeleteClientUser, DeleteAccount, LoginRessyAdmin, LoginRestaurantAdmin, CreateSession,
         Refresh, Expire, Logout, accountVars, signIn
<1>2. /\ UNCHANGED <<customers, writers, moved>> /\ closed \subseteq closed'
      /\ \A m \in mapped : m \in mapped' \/ m[2] \in closed'
  BY <1>1 DEF CloseVenue, served
<1>3. TableInv' /\ Rows' = Rows
  BY <1>2 DEF CustomersInv, TableInv, Rows
<1>4. ASSUME NEW w \in Writers PROVE Filed(w)'
  BY <1>2, <1>3, OthersFiled DEF CustomersInv, WritersInv
<1>5. QED BY <1>2, <1>3, <1>4 DEF CustomersInv, WritersInv

LEMMA CustomersInit == AccountsInit => CustomersInv
<1> SUFFICES ASSUME AccountsInit PROVE CustomersInv
  OBVIOUS
<1>1. customers = << >> /\ writers = [w \in Writers |-> Idle]
  BY DEF AccountsInit
<1>2. customers \in Seq(Data) /\ Rows = {}
  BY <1>1 DEF Rows
<1>3. TableInv
  BY <1>2 DEF TableInv
<1>4. Idle \in Writer /\ Idle.st = "idle"
  BY DEF Idle, Writer, Stages
<1>5. QED BY <1>1, <1>3, <1>4 DEF CustomersInv, WritersInv, Filed

LEMMA CustomersNext ==
  ASSUME CustomersInv, [Staffing \/ Serving(Data)]_accountVars
  PROVE  CustomersInv'
<1>1. CASE Staffing \/ UNCHANGED accountVars
  BY <1>1, StaffingKeepsCustomers
<1>2. CASE Serving(Data)
  BY <1>2, ServeStep, InsertOrUpdateStep, SelectSteps, UpdateByEmailStep, PlainInsertStep,
     CreateMappingStep, UpdateCustomerStep DEF Serving, Upsert
<1>3. QED BY <1>1, <1>2

THEOREM CustomersCorrect == AccountsSpec => []CustomersInv
<1>1. CustomersInv /\ [Staffing \/ Serving(Data)]_accountVars => CustomersInv'
  BY CustomersNext
<1>2. QED BY CustomersInit, <1>1, PTL DEF AccountsSpec

(* However many writers interleave, nobody is served under another's row: the *)
(* row has the phone they gave, or was given another on purpose, and it is in *)
(* the list of the restaurant that served them.                               *)
THEOREM CallersAreFiled == AccountsSpec => []FiledUnderTheCaller
<1>1. CustomersInv => FiledUnderTheCaller
  BY DEF CustomersInv, WritersInv, Filed, FiledUnderTheCaller
<1>2. QED BY <1>1, CustomersCorrect, PTL

(***************************************************************************)
(* The connections.                                                        *)
(***************************************************************************)
Steps == {"idle", "constructing", "waiting", "inside", "created", "asking",
          "holding", "failed", "returning"}

(* The lock of the singleton: whoever is past it and has not left is its   *)
(* keeper, and only that thread can have made a pool that is not yet told. *)
Locked ==
  /\ \A t \in Threads : running[t].st \in {"inside", "created"} <=> keeper = t
  /\ pool <= pools
  /\ pools <= closings + 1
  /\ ~initialized /\ (\A t \in Threads : running[t].st # "created") => pools <= closings

(* Each connection of a pool that was made is in the pool's queue or with  *)
(* one thread.                                                             *)
Placed ==
  /\ \A t \in Threads : Out(t) =>
       /\ running[t].cnx \in Connections
       /\ running[t].cnx[1] <= pools
       /\ running[t].cnx \notin free[running[t].cnx[1]]
  /\ \A s, t \in Threads : Out(s) /\ Out(t) /\ running[s].cnx = running[t].cnx => s = t
  /\ \A x \in Connections : x[1] <= pools =>
       x \in free[x[1]] \/ \E t \in Threads : Out(t) /\ running[t].cnx = x
  /\ \A g \in 1..MaxPools : \A x \in free[g] : x[1] = g

(* What a session holds is what its thread has written in it.              *)
Clean ==
  /\ \A x \in Connections : (x[1] <= pools => x \in free[x[1]]) => session[x] = NewSession
  /\ \A t \in Threads : running[t].st = "holding" =>
       LET w == running[t] IN
       /\ session[w.cnx].writes = {w.id} \X (1..w.done)
       /\ ~session[w.cnx].reading

(* A statement has a number of its own, and none of its writes is in the   *)
(* table before it has asked to commit.                                    *)
Before(t) == running[t].st \notin {"idle", "failed", "returning"}

Numbered ==
  /\ \A t \in Threads : running[t].st = "idle" => running[t] = Rest
  /\ \A t \in Threads : running[t].st # "idle" => running[t].id \in 1..statements
  /\ \A s, t \in Threads :
       running[s].st # "idle" /\ running[t].st # "idle" /\ running[s].id = running[t].id => s = t
  /\ \A w \in table : w[1] <= statements /\ w[1] \notin withheld
  /\ withheld \subseteq 1..statements

Told ==
  /\ \A t \in Threads : Before(t) =>
       /\ running[t].id \notin withheld
       /\ \A w \in table : w[1] # running[t].id
       /\ ~running[t].answered
       /\ running[t].done <= running[t].size
  /\ \A t \in Threads : Before(t) /\ running[t].st # "holding" => running[t].done = 0
  /\ \A t \in Threads : running[t].st = "failed" => ~running[t].answered
  /\ \A t \in Threads : WritesOf(running[t]) \subseteq table \/ WritesOf(running[t]) \cap table = {}
  /\ \A t \in Threads : running[t].answered => WritesOf(running[t]) \subseteq table
  /\ \A t \in Threads : running[t].before \subseteq table
  /\ ReadsAreFresh

(* What a thread does, and the types of all that does not belong to one.   *)
Running == [st : Steps, id : 0..MaxStatements, size : 0..BatchSize, done : 0..BatchSize,
            cnx : Connections \cup {NoCnx}, before : SUBSET Writes, saw : SUBSET Writes,
            answered : BOOLEAN]

Runs == running \in [Threads -> Running]

Sessions == [writes : SUBSET Writes, reading : BOOLEAN, view : SUBSET Writes]

Common ==
  /\ allow \in BOOLEAN /\ initialized \in BOOLEAN /\ handle \in BOOLEAN
  /\ pool \in 0..MaxPools /\ pools \in 0..MaxPools /\ keeper \in Threads \cup {0}
  /\ statements \in 0..MaxStatements /\ closings \in Nat
  /\ free \in [1..MaxPools -> SUBSET Connections]
  /\ session \in [Connections -> Sessions]
  /\ table \in SUBSET Writes
  /\ withheld \subseteq 1..MaxStatements

IInv == Common /\ Runs /\ Locked /\ Placed /\ Clean /\ Numbered /\ Told

USE PoolAssumption DEF PoolAssumption

-----------------------------------------------------------------------------
(* The data that statements are made of. *)

LEMMA ConnectionFacts ==
  /\ \A x \in Connections : x[1] \in 1..MaxPools /\ x \in {x[1]} \X (1..PoolSize)
  /\ \A g \in 1..MaxPools : \A x \in {g} \X (1..PoolSize) : x \in Connections /\ x[1] = g
  /\ NoCnx \notin Connections
  BY DEF Connections, NoCnx

LEMMA WritesFacts ==
  ASSUME NEW i \in 1..MaxStatements, NEW n \in 0..BatchSize
  PROVE  /\ {i} \X (1..n) \subseteq Writes
         /\ \A w \in {i} \X (1..n) : w[1] = i
  BY DEF Writes

LEMMA WritesTyped == \A w \in Writes : w[1] \in 1..MaxStatements
  BY DEF Writes

(* Two statements of different numbers write nothing in common. *)
LEMMA WritesApart ==
  ASSUME NEW v \in Running, NEW w \in Running, v.id # w.id
  PROVE  WritesOf(v) \cap WritesOf(w) = {}
  BY DEF WritesOf

LEMMA WritesOfId ==
  ASSUME NEW w \in Running
  PROVE  \A x \in WritesOf(w) : x[1] = w.id
  BY DEF WritesOf

LEMMA RestRuns == /\ Rest \in Running /\ Rest.st = "idle" /\ Rest.id = 0 /\ ~Rest.answered
                  /\ Rest.before = {} /\ Rest.size = 0 /\ WritesOf(Rest) = {}
  BY DEF Rest, Begun, Running, Steps, WritesOf, NoCnx

LEMMA BegunRuns ==
  ASSUME NEW st \in Steps, NEW i \in 0..MaxStatements,
         NEW size \in 0..BatchSize, NEW before \in SUBSET Writes
  PROVE  LET r == Begun(st, i, size, before)
         IN  /\ r \in Running /\ r.st = st /\ r.id = i /\ r.size = size /\ r.before = before
             /\ ~r.answered /\ r.done = 0
  BY DEF Running, Begun

LEMMA NewSessionTyped == /\ NewSession \in Sessions /\ NewSession.writes = {}
                         /\ ~NewSession.reading
  BY DEF NewSession, Sessions

(* A step that only turns to another stage keeps the rest of a thread. *)
Keeps(s) == /\ running'[s].id = running[s].id       /\ running'[s].size = running[s].size
            /\ running'[s].done = running[s].done   /\ running'[s].cnx = running[s].cnx
            /\ running'[s].saw = running[s].saw     /\ running'[s].before = running[s].before
            /\ running'[s].answered = running[s].answered

LEMMA TurnedRuns ==
  ASSUME Runs, NEW t \in Threads, NEW st \in Steps, Turned(t, st)
  PROVE  /\ Runs'
         /\ running'[t].st = st
         /\ \A s \in Threads : Keeps(s)
         /\ \A s \in Threads \ {t} : running'[s] = running[s]
  BY DEF Runs, Running, Turned, Keeps

LEMMA RestedRuns ==
  ASSUME Runs, NEW t \in Threads, running' = [running EXCEPT ![t] = Rest]
  PROVE  /\ Runs'
         /\ running'[t] = Rest
         /\ \A s \in Threads \ {t} : running'[s] = running[s]
  BY RestRuns DEF Runs

LEMMA InitInv == PoolInit => IInv
<1> SUFFICES ASSUME PoolInit PROVE IInv
  OBVIOUS
<1>1. Common
  <2>1. session \in [Connections -> Sessions] /\ free \in [1..MaxPools -> SUBSET Connections]
    BY NewSessionTyped DEF PoolInit
  <2>2. /\ pool \in 0..MaxPools /\ pools \in 0..MaxPools /\ closings \in Nat
        /\ statements \in 0..MaxStatements /\ keeper \in Threads \cup {0}
        /\ table \in SUBSET Writes /\ withheld \subseteq 1..MaxStatements
    BY DEF PoolInit
  <2>3. allow \in BOOLEAN /\ initialized \in BOOLEAN /\ handle \in BOOLEAN
    BY DEF PoolInit
  <2> QED BY <2>1, <2>2, <2>3 DEF Common
<1>2. Runs /\ \A t \in Threads : running[t] = Rest
  BY RestRuns DEF PoolInit, Runs
<1>3. Locked
  BY <1>2, RestRuns DEF PoolInit, Locked
<1>4. Placed
  BY <1>2, RestRuns, ConnectionFacts DEF PoolInit, Placed, Out
<1>5. Clean
  BY <1>2, RestRuns DEF PoolInit, Clean
<1>6. Numbered
  BY <1>2, RestRuns DEF PoolInit, Numbered
<1>7. Told
  BY <1>2, RestRuns DEF PoolInit, Told, Before, ReadsAreFresh
<1> QED BY <1>1, <1>2, <1>3, <1>4, <1>5, <1>6, <1>7 DEF IInv

-----------------------------------------------------------------------------
(* The ways in which a step leaves most of the invariant alone. *)

(* A step of the singleton, which moves no connection and writes nothing. *)
LEMMA QuietTurn ==
  ASSUME Runs, Placed, Clean, Numbered, Told, NEW t \in Threads,
         running[t].st \in {"constructing", "waiting", "inside", "created"},
         NEW st \in {"waiting", "inside", "created", "asking"}, Turned(t, st),
         UNCHANGED <<server, pools, statements, withheld>>
  PROVE  Runs' /\ Placed' /\ Clean' /\ Numbered' /\ Told'
<1>1. /\ Runs' /\ running'[t].st = st
      /\ \A s \in Threads : Keeps(s)
      /\ \A s \in Threads \ {t} : running'[s] = running[s]
  BY TurnedRuns DEF Steps
<1>2. \A s \in Threads : Out(s)' <=> Out(s)
  BY <1>1 DEF Out
<1>3. Placed'
  BY <1>1, <1>2 DEF Placed, Keeps, server
<1>4. Clean'
  BY <1>1 DEF Clean, server
<1>5. Numbered'
  BY <1>1 DEF Numbered, Keeps, server
<1>6. \A s \in Threads : Before(s)' <=> Before(s)
  BY <1>1 DEF Before
<1>7. Told'
  BY <1>1, <1>6 DEF Told, Keeps, server, ReadsAreFresh, WritesOf
<1> QED BY <1>1, <1>3, <1>4, <1>5, <1>7

(* A statement that ends without having asked to commit. *)
LEMMA NothingDone ==
  ASSUME Common, Runs, Placed, Clean, Numbered, Told, NEW t \in Threads,
         running[t].st \in {"inside", "asking"}, DoNothing(t),
         UNCHANGED <<server, pools, statements>>
  PROVE  /\ Runs' /\ Placed' /\ Clean' /\ Numbered' /\ Told'
         /\ withheld' \subseteq 1..MaxStatements
<1>1. /\ Runs' /\ running'[t] = Rest
      /\ \A s \in Threads \ {t} : running'[s] = running[s]
  BY RestedRuns DEF DoNothing
<1>2. \A s \in Threads : Out(s)' <=> Out(s)
  BY <1>1, RestRuns DEF Out
<1>3. Placed'
  BY <1>1, <1>2 DEF Placed, server, Out
<1>4. Clean'
  BY <1>1, RestRuns DEF Clean, server
<1>5. /\ running[t].id \in 1..statements
      /\ withheld' = withheld \cup {running[t].id}
      /\ \A w \in table : w[1] # running[t].id
  BY DEF Numbered, DoNothing, Withhold, Told, Before
<1>6. Numbered'
  BY <1>1, <1>5, RestRuns DEF Numbered, server
<1>7. \A s \in Threads : Before(s)' => s # t /\ Before(s) /\ running[s].id # running[t].id
  BY <1>1, RestRuns DEF Before, Numbered
<1>8. Told'
  BY <1>1, <1>5, <1>7, RestRuns DEF Told, server, ReadsAreFresh
<1>9. withheld' \subseteq 1..MaxStatements
  <2>1. statements \in 0..MaxStatements /\ withheld \subseteq 1..MaxStatements
    BY DEF Common
  <2>2. running[t].id \in 1..MaxStatements
    BY <1>5, <2>1
  <2> QED BY <1>5, <2>1, <2>2
<1> QED BY <1>1, <1>3, <1>4, <1>6, <1>8, <1>9

-----------------------------------------------------------------------------
(* The singleton. *)

LEMMA StartStatementInv ==
  ASSUME IInv, NEW t \in Threads, NEW size \in 0..BatchSize, StartStatement(t, size)
  PROVE  IInv'
<1> USE DEF IInv
<1>1. PICK st \in {"asking", "constructing"} :
        running' = [running EXCEPT ![t] = Begun(st, statements + 1, size, table)]
  BY DEF StartStatement
<1>2. /\ running[t].st = "idle" /\ statements' = statements + 1 /\ statements < MaxStatements
      /\ UNCHANGED <<allow, singleton, server, withheld>>
  BY DEF StartStatement
<1> DEFINE r == Begun(st, statements + 1, size, table)
<1>3. statements \in Nat /\ table \in SUBSET Writes
  BY DEF Common
<1>4. /\ r \in Running /\ r.st = st /\ r.id = statements + 1 /\ r.size = size /\ r.before = table
      /\ ~r.answered /\ r.done = 0
  <2>1. statements + 1 \in 0..MaxStatements
    BY <1>2, <1>3
  <2>2. st \in Steps
    BY DEF Steps
  <2> QED BY <2>1, <2>2, <1>3, BegunRuns
<1> HIDE DEF r
<1>5. /\ Runs' /\ running'[t] = r
      /\ \A s \in Threads \ {t} : running'[s] = running[s]
  BY <1>1, <1>4 DEF Runs, r
<1>6. \A s \in Threads : Out(s)' => s # t /\ Out(s)
  BY <1>4, <1>5 DEF Out
<1>6a. \A s \in Threads : Out(s) => s # t /\ Out(s)'
  BY <1>2, <1>5 DEF Out
<1>7. Common'
  BY <1>2 DEF Common, singleton, server
<1>8. Locked'
  BY <1>2, <1>4, <1>5 DEF Locked, singleton
<1>9. Placed'
  BY <1>2, <1>5, <1>6, <1>6a DEF Placed, singleton, server
<1>10. Clean'
  BY <1>2, <1>4, <1>5 DEF Clean, singleton, server
<1>11. \A s \in Threads \ {t} : running[s].st # "idle" => running[s].id # statements + 1
  BY <1>3 DEF Numbered
<1>12. Numbered'
  <2>1. \A s \in Threads : running'[s].st = "idle" => running'[s] = Rest
    BY <1>4, <1>5 DEF Numbered
  <2>2. \A s \in Threads : running'[s].st # "idle" => running'[s].id \in 1..statements'
    BY <1>2, <1>3, <1>4, <1>5 DEF Numbered
  <2>3. \A r1, s \in Threads : running'[r1].st # "idle" /\ running'[s].st # "idle"
                               /\ running'[r1].id = running'[s].id => r1 = s
    BY <1>4, <1>5, <1>11 DEF Numbered
  <2>4. \A w \in table' : w[1] <= statements' /\ w[1] \notin withheld'
    BY <1>2, <1>3, WritesTyped DEF Numbered, server
  <2>5. withheld' \subseteq 1..statements'
    BY <1>2, <1>3 DEF Numbered
  <2> QED BY <2>1, <2>2, <2>3, <2>4, <2>5 DEF Numbered
<1>13. \A w \in table : w[1] # statements + 1
  BY <1>3, WritesTyped DEF Numbered
<1>14. statements + 1 \notin withheld
  BY <1>3 DEF Numbered
<1>15. WritesOf(r) \cap table = {}
  BY <1>4, <1>13, WritesOfId
<1>16. Told'
  <2>1. \A s \in Threads \ {t} : Before(s)' <=> Before(s)
    BY <1>5 DEF Before
  <2> QED BY <2>1, <1>2, <1>4, <1>5, <1>13, <1>14, <1>15 DEF Told, server, ReadsAreFresh, Before
<1> QED BY <1>5, <1>7, <1>8, <1>9, <1>10, <1>12, <1>16

LEMMA CheckInitializedInv ==
  ASSUME IInv, NEW t \in Threads, CheckInitialized(t)
  PROVE  IInv'
<1> USE DEF IInv
<1>1. PICK st \in {"asking", "waiting"} : Turned(t, st)
  BY DEF CheckInitialized
<1>2. /\ running[t].st = "constructing" /\ handle' \in BOOLEAN
      /\ UNCHANGED <<allow, pool, initialized, keeper, pools, closings, server, statements, withheld>>
  BY DEF CheckInitialized, Common
<1>3. Runs' /\ Placed' /\ Clean' /\ Numbered' /\ Told'
  BY <1>1, <1>2, QuietTurn
<1>4. running'[t].st = st /\ \A s \in Threads \ {t} : running'[s] = running[s]
  BY <1>1, TurnedRuns DEF Steps
<1>5. Common'
  BY <1>2 DEF Common, server
<1>6. Locked'
  BY <1>2, <1>4 DEF Locked
<1> QED BY <1>3, <1>5, <1>6

LEMMA EnterLockInv ==
  ASSUME IInv, NEW t \in Threads, EnterLock(t)
  PROVE  IInv'
<1> USE DEF IInv
<1>1. /\ running[t].st = "waiting" /\ keeper = 0 /\ keeper' = t /\ Turned(t, "inside")
      /\ UNCHANGED <<allow, pool, initialized, handle, pools, closings, server, statements, withheld>>
  BY DEF EnterLock
<1>2. Runs' /\ Placed' /\ Clean' /\ Numbered' /\ Told'
  BY <1>1, QuietTurn
<1>3. running'[t].st = "inside" /\ \A s \in Threads \ {t} : running'[s] = running[s]
  BY <1>1, TurnedRuns DEF Steps
<1>4. Common'
  BY <1>1 DEF Common, server
<1>5. Locked'
  BY <1>1, <1>3 DEF Locked
<1> QED BY <1>2, <1>4, <1>5

(* A pool that is made fills its own queue and no other. *)
LEMMA CreatePoolInv ==
  ASSUME IInv, NEW t \in Threads, CreatePool(t)
  PROVE  IInv'
<1> USE DEF IInv
<1>1. /\ running[t].st = "inside"
      /\ UNCHANGED <<allow, initialized, handle, closings, session, table, statements>>
  BY DEF CreatePool
<1>2. keeper = t /\ \A s \in Threads : running[s].st # "created"
  BY <1>1 DEF Locked
<1>3. CASE initialized /\ Turned(t, "created") /\ UNCHANGED <<pool, pools, free, keeper, withheld>>
  <2>1. Runs' /\ Placed' /\ Clean' /\ Numbered' /\ Told'
    BY <1>1, <1>3, QuietTurn DEF server
  <2>2. running'[t].st = "created" /\ \A s \in Threads \ {t} : running'[s] = running[s]
    BY <1>3, TurnedRuns DEF Steps
  <2>3. Common'
    BY <1>1, <1>3 DEF Common
  <2>4. Locked'
    BY <1>1, <1>2, <1>3, <2>2 DEF Locked
  <2> QED BY <2>1, <2>3, <2>4
<1>4. CASE /\ ~initialized /\ pools < MaxPools
           /\ pool' = pools + 1 /\ pools' = pools + 1
           /\ free' = [free EXCEPT ![pools + 1] = {pools + 1} \X (1..PoolSize)]
           /\ Turned(t, "created") /\ UNCHANGED <<keeper, withheld>>
  <2> DEFINE new == {pools + 1} \X (1..PoolSize)
  <2>1. pools \in Nat /\ pools + 1 \in 1..MaxPools /\ free \in [1..MaxPools -> SUBSET Connections]
    BY <1>4 DEF Common
  <2>2. new \subseteq Connections /\ \A x \in new : x[1] = pools + 1
    BY <2>1, ConnectionFacts
  <2>3. \A x \in Connections : x[1] = pools + 1 => x \in new
    BY ConnectionFacts
  <2> HIDE DEF new
  <2>4. /\ free' \in [1..MaxPools -> SUBSET Connections]
        /\ free'[pools + 1] = new
        /\ \A g \in 1..MaxPools : g # pools + 1 => free'[g] = free[g]
    BY <1>4, <2>1, <2>2 DEF new
  <2>5. /\ Runs' /\ running'[t].st = "created"
        /\ \A s \in Threads : Keeps(s)
        /\ \A s \in Threads \ {t} : running'[s] = running[s]
    BY <1>4, TurnedRuns DEF Steps
  <2>6. Common'
    BY <1>1, <1>4, <2>1, <2>4 DEF Common
  <2>7. Locked'
    BY <1>1, <1>2, <1>4, <2>1, <2>5 DEF Locked, Common
  <2>8. \A s \in Threads : Out(s)' <=> Out(s)
    BY <1>1, <2>5 DEF Out
  <2>9. \A s \in Threads : Out(s) => running[s].cnx[1] \in 1..pools
    BY <2>1, ConnectionFacts DEF Placed
  <2>10. Placed'
    <3>1. \A s \in Threads : Out(s)' =>
            /\ running'[s].cnx \in Connections
            /\ running'[s].cnx[1] <= pools'
            /\ running'[s].cnx \notin free'[running'[s].cnx[1]]
      BY <1>4, <2>1, <2>4, <2>5, <2>8, <2>9 DEF Placed, Keeps
    <3>2. \A r, s \in Threads : Out(r)' /\ Out(s)' /\ running'[r].cnx = running'[s].cnx => r = s
      BY <2>5, <2>8 DEF Placed, Keeps
    <3>3. ASSUME NEW x \in Connections, x[1] <= pools'
          PROVE  x \in free'[x[1]] \/ \E s \in Threads : Out(s)' /\ running'[s].cnx = x
      <4>1. CASE x[1] = pools + 1
        BY <4>1, <2>3, <2>4
      <4>2. CASE x[1] # pools + 1
        <5>1. x[1] \in 1..MaxPools /\ x[1] <= pools
          BY <4>2, <3>3, <1>4, <2>1, ConnectionFacts
        <5> QED BY <5>1, <4>2, <2>4, <2>5, <2>8 DEF Placed, Keeps
      <4> QED BY <4>1, <4>2
    <3>4. \A g \in 1..MaxPools : \A x \in free'[g] : x[1] = g
      BY <2>2, <2>4 DEF Placed
    <3> QED BY <3>1, <3>2, <3>3, <3>4 DEF Placed
  <2>11. Clean'
    <3>1. ASSUME NEW x \in Connections, x[1] <= pools' => x \in free'[x[1]]
          PROVE  session[x] = NewSession
      <4>1. CASE x[1] = pools + 1
        BY <4>1, <2>1 DEF Clean
      <4>2. CASE x[1] # pools + 1
        <5>1. x[1] \in 1..MaxPools
          BY ConnectionFacts
        <5> QED BY <5>1, <4>2, <3>1, <1>4, <2>1, <2>4 DEF Clean
      <4> QED BY <4>1, <4>2
    <3>2. \A s \in Threads : running'[s].st = "holding" => s # t /\ running[s].st = "holding"
      BY <2>5
    <3> QED BY <3>1, <3>2, <1>1, <2>5 DEF Clean
  <2>12. Numbered'
    BY <1>1, <1>4, <2>5 DEF Numbered, Keeps
  <2>13. Told'
    <3>1. \A s \in Threads : Before(s)' <=> Before(s)
      BY <1>1, <2>5 DEF Before
    <3> QED BY <3>1, <1>1, <1>4, <2>5 DEF Told, Keeps, ReadsAreFresh, WritesOf
  <2> QED BY <2>5, <2>6, <2>7, <2>10, <2>11, <2>12, <2>13
<1>5. CASE ~initialized /\ pool' = 0 /\ Turned(t, "created") /\ UNCHANGED <<pools, free, keeper, withheld>>
  <2>1. Runs' /\ Placed' /\ Clean' /\ Numbered' /\ Told'
    BY <1>1, <1>5, QuietTurn DEF server
  <2>2. running'[t].st = "created" /\ \A s \in Threads \ {t} : running'[s] = running[s]
    BY <1>5, TurnedRuns DEF Steps
  <2>3. Common'
    BY <1>1, <1>5 DEF Common
  <2>4. Locked'
    BY <1>1, <1>2, <1>5, <2>2 DEF Locked, Common
  <2> QED BY <2>1, <2>3, <2>4
<1>6. CASE ~initialized /\ keeper' = 0 /\ DoNothing(t) /\ UNCHANGED <<pool, pools, free>>
  <2>1. /\ Runs' /\ Placed' /\ Clean' /\ Numbered' /\ Told'
        /\ withheld' \subseteq 1..MaxStatements
    BY <1>1, <1>6, NothingDone DEF server
  <2>2. running'[t] = Rest /\ \A s \in Threads \ {t} : running'[s] = running[s]
    BY <1>6, RestedRuns DEF DoNothing
  <2>3. Common'
    BY <1>1, <1>6, <2>1 DEF Common
  <2>4. Locked'
    BY <1>1, <1>2, <1>6, <2>2, RestRuns DEF Locked
  <2> QED BY <2>1, <2>3, <2>4
<1> QED BY <1>3, <1>4, <1>5, <1>6 DEF CreatePool

LEMMA LeaveLockInv ==
  ASSUME IInv, NEW t \in Threads, LeaveLock(t)
  PROVE  IInv'
<1> USE DEF IInv
<1>1. /\ running[t].st = "created" /\ Turned(t, "asking")
      /\ initialized' = TRUE /\ keeper' = 0 /\ handle' = TRUE
      /\ UNCHANGED <<allow, pool, pools, closings, server, statements, withheld>>
  BY DEF LeaveLock
<1>2. Runs' /\ Placed' /\ Clean' /\ Numbered' /\ Told'
  BY <1>1, QuietTurn
<1>3. running'[t].st = "asking" /\ \A s \in Threads \ {t} : running'[s] = running[s]
  BY <1>1, TurnedRuns DEF Steps
<1>4. keeper = t
  BY <1>1 DEF Locked
<1>5. Common'
  BY <1>1 DEF Common, server
<1>6. Locked'
  BY <1>1, <1>3, <1>4 DEF Locked
<1> QED BY <1>2, <1>5, <1>6

LEMMA ClosePoolInv ==
  ASSUME IInv, ClosePool
  PROVE  IInv'
<1> USE DEF IInv
<1>1. /\ keeper = 0 /\ pool' = 0 /\ initialized' = FALSE /\ handle' = FALSE
      /\ closings' = closings + 1
      /\ UNCHANGED <<allow, keeper, pools, server, running, statements, withheld>>
  BY DEF ClosePool
<1>2. Common'
  <2>1. closings' \in Nat /\ pool' \in 0..MaxPools
    BY <1>1 DEF Common
  <2>2. initialized' \in BOOLEAN /\ handle' \in BOOLEAN
    BY <1>1
  <2> QED BY <1>1, <2>1, <2>2 DEF Common, server
<1>3. Locked'
  BY <1>1 DEF Locked, Common
<1>4. Runs' /\ Placed' /\ Clean' /\ Numbered' /\ Told'
  BY <1>1 DEF Runs, Placed, Clean, Numbered, Told, Out, Before, ReadsAreFresh, WritesOf, server
<1> QED BY <1>2, <1>3, <1>4

-----------------------------------------------------------------------------
(* A statement. *)

LEMMA NoConnectionInv ==
  ASSUME IInv, NEW t \in Threads, NoConnection(t)
  PROVE  IInv'
<1> USE DEF IInv
<1>1. /\ running[t].st = "asking" /\ DoNothing(t)
      /\ UNCHANGED <<allow, singleton, server, statements>>
  BY DEF NoConnection
<1>2. /\ Runs' /\ Placed' /\ Clean' /\ Numbered' /\ Told'
      /\ withheld' \subseteq 1..MaxStatements
  BY <1>1, NothingDone DEF singleton
<1>3. running'[t] = Rest /\ \A s \in Threads \ {t} : running'[s] = running[s]
  BY <1>1, RestedRuns DEF DoNothing
<1>4. Common'
  BY <1>1, <1>2 DEF Common, singleton, server
<1>5. Locked'
  BY <1>1, <1>3, RestRuns DEF Locked, singleton
<1> QED BY <1>2, <1>4, <1>5

LEMMA BorrowInv ==
  ASSUME IInv, NEW t \in Threads, Borrow(t)
  PROVE  IInv'
<1> USE DEF IInv
<1>1. /\ running[t].st = "asking" /\ pool # 0 /\ pool \in 1..pools /\ pools \in 0..MaxPools
      /\ UNCHANGED <<allow, singleton, session, table, statements, withheld>>
  BY DEF Borrow, Locked, Common
<1>2. PICK x \in free[pool] :
        /\ free' = [free EXCEPT ![pool] = @ \ {x}]
        /\ running' = [running EXCEPT ![t].st = "holding", ![t].cnx = x]
  BY DEF Borrow
<1>3. /\ pool \in 1..MaxPools /\ x \in Connections /\ x[1] = pool
      /\ session[x] = NewSession
  BY <1>1, <1>2 DEF Common, Placed, Clean
<1>4. /\ Runs' /\ running'[t].st = "holding" /\ running'[t].cnx = x
      /\ running'[t].id = running[t].id /\ running'[t].size = running[t].size
      /\ running'[t].done = running[t].done /\ running'[t].answered = running[t].answered
      /\ running'[t].before = running[t].before /\ running'[t].saw = running[t].saw
      /\ \A s \in Threads \ {t} : running'[s] = running[s]
  BY <1>2, <1>3 DEF Runs, Running, Steps
<1>5. /\ free' \in [1..MaxPools -> SUBSET Connections]
      /\ free'[pool] = free[pool] \ {x}
      /\ \A g \in 1..MaxPools : g # pool => free'[g] = free[g]
  BY <1>2, <1>3 DEF Common
<1>6. \A s \in Threads : Out(s)' <=> s = t \/ Out(s)
  BY <1>4 DEF Out
<1>7. Common'
  BY <1>1, <1>5 DEF Common, singleton
<1>8. Locked'
  BY <1>1, <1>4 DEF Locked, singleton
<1>9. \A s \in Threads : Out(s) => s # t /\ running[s].cnx # x /\ running[s].cnx[1] \in 1..MaxPools
  BY <1>1, <1>2, <1>3, ConnectionFacts DEF Placed, Out
<1>10. Placed'
  <2>1. \A s \in Threads : Out(s)' =>
          /\ running'[s].cnx \in Connections
          /\ running'[s].cnx[1] <= pools'
          /\ running'[s].cnx \notin free'[running'[s].cnx[1]]
    BY <1>1, <1>3, <1>4, <1>5, <1>6, <1>9 DEF Placed, singleton
  <2>2. \A r, s \in Threads : Out(r)' /\ Out(s)' /\ running'[r].cnx = running'[s].cnx => r = s
    BY <1>4, <1>6, <1>9 DEF Placed
  <2>3. ASSUME NEW y \in Connections, y[1] <= pools'
        PROVE  y \in free'[y[1]] \/ \E s \in Threads : Out(s)' /\ running'[s].cnx = y
    <3>1. CASE y = x
      BY <3>1, <1>4, <1>6
    <3>2. CASE y # x
      <4>1. y[1] \in 1..MaxPools /\ y[1] <= pools
        BY <2>3, <1>1, ConnectionFacts DEF singleton
      <4>2. y \in free[y[1]] => y \in free'[y[1]]
        BY <4>1, <3>2, <1>5
      <4>3. \A s \in Threads : Out(s) => Out(s)' /\ running'[s].cnx = running[s].cnx
        BY <1>4, <1>6, <1>9
      <4> QED BY <4>1, <4>2, <4>3 DEF Placed
    <3> QED BY <3>1, <3>2
  <2>4. \A g \in 1..MaxPools : \A y \in free'[g] : y[1] = g
    BY <1>5 DEF Placed
  <2> QED BY <2>1, <2>2, <2>3, <2>4 DEF Placed
<1>11. Clean'
  <2>1. ASSUME NEW y \in Connections, y[1] <= pools' => y \in free'[y[1]]
        PROVE  session[y] = NewSession
    <3>1. y[1] \in 1..MaxPools /\ pools' = pools
      BY <1>1, ConnectionFacts DEF singleton
    <3>2. free'[y[1]] \subseteq free[y[1]]
      BY <3>1, <1>5
    <3> QED BY <3>1, <3>2, <2>1 DEF Clean
  <2>2. /\ session[x].writes = {running'[t].id} \X (1..running'[t].done)
        /\ ~session[x].reading
    <3>1. running[t].done = 0
      BY <1>1 DEF Told, Before
    <3> QED BY <3>1, <1>3, <1>4, NewSessionTyped
  <2> QED BY <2>1, <2>2, <1>1, <1>4 DEF Clean
<1>12. Numbered'
  BY <1>1, <1>4 DEF Numbered
<1>13. Told'
  <2>1. \A s \in Threads : Before(s)' <=> Before(s)
    BY <1>1, <1>4 DEF Before
  <2> QED BY <2>1, <1>1, <1>4 DEF Told, ReadsAreFresh, WritesOf
<1> QED BY <1>4, <1>7, <1>8, <1>10, <1>11, <1>12, <1>13

(* A step of a statement that has a connection and keeps it. *)
LEMMA HeldPlaces ==
  ASSUME Common, Runs, Locked, Placed, NEW t \in Threads, Out(t),
         running'[t].st \in {"holding", "failed", "returning"},
         \A s \in Threads : running'[s].cnx = running[s].cnx,
         \A s \in Threads \ {t} : running'[s] = running[s],
         UNCHANGED <<singleton, free>>
  PROVE  Locked' /\ Placed'
<1>1. \A s \in Threads : Out(s)' <=> Out(s)
  BY DEF Out
<1>2. Locked'
  BY DEF Locked, Out, singleton
<1>3. Placed'
  BY <1>1 DEF Placed, singleton
<1> QED BY <1>2, <1>3

(* What such a step may do to sessions: nothing but to its own.            *)
LEMMA HeldClean ==
  ASSUME Placed, Clean, NEW t \in Threads, Out(t),
         \A s \in Threads \ {t} : running'[s] = running[s],
         \A x \in Connections : x # running[t].cnx => session'[x] = session[x],
         running'[t].st = "holding" =>
           /\ session'[running'[t].cnx].writes = {running'[t].id} \X (1..running'[t].done)
           /\ ~session'[running'[t].cnx].reading,
         UNCHANGED <<singleton, free>>
  PROVE  Clean'
<1>1. /\ running[t].cnx \in Connections /\ running[t].cnx[1] <= pools
      /\ running[t].cnx \notin free[running[t].cnx[1]]
  BY DEF Placed
<1>2. \A x \in Connections : (x[1] <= pools' => x \in free'[x[1]]) => session'[x] = NewSession
  BY <1>1 DEF Clean, singleton
<1>3. \A s \in Threads \ {t} : running[s].st = "holding" =>
         running[s].cnx \in Connections /\ running[s].cnx # running[t].cnx
  BY DEF Placed, Out
<1> QED BY <1>2, <1>3 DEF Clean

LEMMA HeldNumbers ==
  ASSUME Numbered, NEW t \in Threads, Out(t),
         running'[t].st \in {"holding", "failed", "returning"}, running'[t].id = running[t].id,
         \A s \in Threads \ {t} : running'[s] = running[s],
         UNCHANGED statements,
         withheld' \subseteq 1..statements, \A w \in table' : w[1] <= statements /\ w[1] \notin withheld'
  PROVE  Numbered'
<1>1. \A s \in Threads : /\ running'[s].st = "idle" => s # t
                         /\ running'[s].st = "idle" <=> running[s].st = "idle"
                         /\ running'[s].id = running[s].id
  BY DEF Out
<1>2. \A s \in Threads : running'[s].st = "idle" => running'[s] = Rest
  BY <1>1 DEF Numbered
<1>3. \A s \in Threads : running'[s].st # "idle" => running'[s].id \in 1..statements'
  BY <1>1 DEF Numbered
<1>4. \A r, s \in Threads : running'[r].st # "idle" /\ running'[s].st # "idle"
                             /\ running'[r].id = running'[s].id => r = s
  BY <1>1 DEF Numbered
<1> QED BY <1>2, <1>3, <1>4 DEF Numbered

LEMMA QueryInv ==
  ASSUME IInv, NEW t \in Threads, Query(t)
  PROVE  IInv'
<1> USE DEF IInv
<1> DEFINE x == running[t].cnx
           view == IF session[x].reading THEN session[x].view ELSE table
<1>1. /\ running[t].st = "holding" /\ running[t].size = 0 /\ Out(t)
      /\ session' = [session EXCEPT ![x].reading = TRUE, ![x].view = view]
      /\ running' = [running EXCEPT ![t].st = "returning", ![t].saw = view, ![t].answered = TRUE]
      /\ UNCHANGED <<allow, singleton, free, table, statements, withheld>>
  BY DEF Query, Out
<1>2. x \in Connections /\ ~session[x].reading /\ session[x] \in Sessions /\ table \in SUBSET Writes
  BY <1>1 DEF Placed, Clean, Common
<1>3. view = table
  BY <1>2
<1> HIDE DEF view, x
<1>4. /\ Runs' /\ running'[t].st = "returning" /\ running'[t].saw = table
      /\ running'[t].id = running[t].id /\ running'[t].size = running[t].size
      /\ running'[t].done = running[t].done /\ running'[t].before = running[t].before
      /\ running'[t].cnx = running[t].cnx
      /\ \A s \in Threads \ {t} : running'[s] = running[s]
  <2> DEFINE r == [running[t] EXCEPT !.st = "returning", !.saw = table, !.answered = TRUE]
  <2>1. running[t] \in Running /\ running \in [Threads -> Running]
    BY DEF Runs
  <2>2. running' = [running EXCEPT ![t] = r]
    BY <1>1, <1>3, <2>1 DEF Running
  <2>3. /\ r \in Running /\ r.st = "returning" /\ r.saw = table
        /\ r.id = running[t].id /\ r.size = running[t].size
        /\ r.done = running[t].done /\ r.before = running[t].before /\ r.cnx = running[t].cnx
    BY <1>2, <2>1 DEF Running, Steps
  <2> HIDE DEF r
  <2> QED BY <2>1, <2>2, <2>3 DEF Runs
<1>5. /\ session' \in [Connections -> Sessions]
      /\ \A y \in Connections : y # x => session'[y] = session[y]
  <2>1. session \in [Connections -> Sessions]
    BY DEF Common
  <2>2. [session[x] EXCEPT !.reading = TRUE, !.view = view] \in Sessions
    BY <1>2, <1>3 DEF Sessions
  <2>3. session' = [session EXCEPT ![x] = [session[x] EXCEPT !.reading = TRUE, !.view = view]]
    BY <1>1, <1>2, <2>1 DEF Sessions
  <2> QED BY <2>1, <2>2, <2>3, <1>2
<1>6. Common'
  BY <1>1, <1>5 DEF Common, singleton
<1>7. Locked' /\ Placed'
  BY <1>1, <1>4, HeldPlaces
<1>8. Clean'
  BY <1>1, <1>4, <1>5, HeldClean DEF x
<1>9. Numbered'
  BY <1>1, <1>4, HeldNumbers DEF Numbered
<1>10. Told'
  <2>1. \A s \in Threads \ {t} : Before(s)' <=> Before(s)
    BY <1>4 DEF Before
  <2>2. WritesOf(running'[t]) = {}
    BY <1>1, <1>4 DEF WritesOf
  <2>3. running'[t].before \subseteq running'[t].saw
    BY <1>4 DEF Told
  <2>4. \A s \in Threads \ {t} : WritesOf(running'[s]) = WritesOf(running[s])
    BY <1>4
  <2>5. \A s \in Threads : WritesOf(running'[s]) \subseteq table' \/ WritesOf(running'[s]) \cap table' = {}
    BY <2>2, <2>4, <1>1 DEF Told
  <2>6. \A s \in Threads : running'[s].answered => WritesOf(running'[s]) \subseteq table'
    BY <2>2, <2>4, <1>1, <1>4 DEF Told
  <2>7. ReadsAreFresh'
    BY <2>3, <1>4 DEF Told, ReadsAreFresh
  <2>8. \A s \in Threads : running'[s].before \subseteq table'
    BY <1>1, <1>4 DEF Told
  <2>9. \A s \in Threads : Before(s)' \/ running'[s].st = "failed" => s # t
    BY <1>4 DEF Before
  <2>10. ASSUME NEW s \in Threads, Before(s)'
         PROVE  /\ running'[s].id \notin withheld'
                /\ \A y \in table' : y[1] # running'[s].id
                /\ ~running'[s].answered
                /\ running'[s].done <= running'[s].size
    <3>1. s # t /\ Before(s)
      BY <2>1, <2>9, <2>10
    <3>2. running'[s] = running[s] /\ withheld' = withheld /\ table' = table
      BY <3>1, <1>1, <1>4
    <3> QED BY <3>1, <3>2 DEF Told
  <2>11. \A s \in Threads : Before(s)' /\ running'[s].st # "holding" => running'[s].done = 0
    BY <2>1, <2>9, <1>4 DEF Told
  <2>12. \A s \in Threads : running'[s].st = "failed" => ~running'[s].answered
    BY <2>9, <1>4 DEF Told
  <2> QED BY <2>5, <2>6, <2>7, <2>8, <2>10, <2>11, <2>12 DEF Told, WritesOf
<1> QED BY <1>4, <1>6, <1>7, <1>8, <1>9, <1>10

LEMMA WriteInv ==
  ASSUME IInv, NEW t \in Threads, Write(t)
  PROVE  IInv'
<1> USE DEF IInv
<1> DEFINE w == running[t]
<1>1. /\ w.st = "holding" /\ w.done < w.size /\ Out(t)
      /\ session' = [session EXCEPT ![w.cnx].writes = @ \cup {<<w.id, w.done + 1>>}]
      /\ running' = [running EXCEPT ![t].done = @ + 1]
      /\ UNCHANGED <<allow, singleton, free, table, statements, withheld>>
  BY DEF Write, Out
<1>2. /\ w.cnx \in Connections /\ ~session[w.cnx].reading
      /\ session[w.cnx].writes = {w.id} \X (1..w.done)
      /\ w.id \in 1..MaxStatements /\ w.done \in Nat /\ w.size \in 0..BatchSize
  BY <1>1 DEF Placed, Clean, Numbered, Common, Runs, Running
<1>3. /\ Runs' /\ running'[t].st = "holding" /\ running'[t].cnx = w.cnx
      /\ running'[t].id = w.id /\ running'[t].size = w.size
      /\ running'[t].done = w.done + 1 /\ running'[t].before = w.before
      /\ running'[t].saw = w.saw /\ running'[t].answered = w.answered
      /\ \A s \in Threads \ {t} : running'[s] = running[s]
  BY <1>1, <1>2 DEF Runs, Running, Steps
<1>4. {w.id} \X (1..w.done + 1) = {w.id} \X (1..w.done) \cup {<<w.id, w.done + 1>>}
  BY <1>2
<1>5. {w.id} \X (1..w.done + 1) \subseteq Writes
  <2>1. w.done + 1 \in 0..BatchSize
    BY <1>1, <1>2
  <2> QED BY <2>1, <1>2, WritesFacts
<1> HIDE DEF w
<1>6. /\ session' \in [Connections -> Sessions]
      /\ session'[w.cnx].writes = {w.id} \X (1..w.done + 1)
      /\ session'[w.cnx].reading = session[w.cnx].reading
      /\ \A y \in Connections : y # w.cnx => session'[y] = session[y]
  <2>1. session \in [Connections -> Sessions]
    BY DEF Common
  <2>2. session' = [session EXCEPT ![w.cnx] =
                      [session[w.cnx] EXCEPT !.writes = {w.id} \X (1..w.done + 1)]]
    BY <1>1, <1>2, <1>4, <2>1 DEF Sessions
  <2>3. [session[w.cnx] EXCEPT !.writes = {w.id} \X (1..w.done + 1)] \in Sessions
    BY <1>2, <1>5, <2>1 DEF Sessions
  <2> QED BY <2>1, <2>2, <2>3, <1>2 DEF Sessions
<1>7. Common'
  BY <1>1, <1>6 DEF Common, singleton
<1>8. Locked' /\ Placed'
  BY <1>1, <1>3, HeldPlaces DEF w
<1>9. Clean'
  BY <1>1, <1>2, <1>3, <1>6, HeldClean DEF w
<1>10. Numbered'
  BY <1>1, <1>3 DEF Numbered, w
<1>11. Told'
  <2>1. \A s \in Threads : Before(s)' <=> Before(s)
    BY <1>1, <1>3 DEF Before, w
  <2>2. running'[t].done <= running'[t].size
    BY <1>1, <1>2, <1>3 DEF w
  <2> QED BY <2>1, <2>2, <1>1, <1>3 DEF Told, ReadsAreFresh, WritesOf, w
<1> QED BY <1>3, <1>7, <1>8, <1>9, <1>10, <1>11

LEMMA StatementFailsInv ==
  ASSUME IInv, NEW t \in Threads, StatementFails(t)
  PROVE  IInv'
<1> USE DEF IInv
<1>1. PICK st \in {"returning", "failed"} : Turned(t, st)
  BY DEF StatementFails
<1>2. /\ running[t].st = "holding" /\ Out(t) /\ withheld' = withheld \cup {running[t].id}
      /\ UNCHANGED <<allow, singleton, server, statements>>
  BY DEF StatementFails, Withhold, Out
<1>3. /\ Runs' /\ running'[t].st = st
      /\ \A s \in Threads : Keeps(s)
      /\ \A s \in Threads \ {t} : running'[s] = running[s]
  BY <1>1, TurnedRuns DEF Steps
<1>4. /\ running[t].id \in 1..statements /\ running[t].id \in 1..MaxStatements
      /\ ~running[t].answered /\ \A w \in table : w[1] # running[t].id
  BY <1>2 DEF Numbered, Told, Before, Common
<1>5. Common'
  <2>1. withheld' \subseteq 1..MaxStatements
    BY <1>2, <1>4 DEF Common
  <2> QED BY <2>1, <1>2 DEF Common, singleton, server
<1>6. Locked' /\ Placed'
  BY <1>2, <1>3, HeldPlaces DEF Keeps, server
<1>7. Clean'
  BY <1>2, <1>3, HeldClean DEF server
<1>8. Numbered'
  <2>1. withheld' \subseteq 1..statements /\ \A w \in table' : w[1] <= statements /\ w[1] \notin withheld'
    BY <1>2, <1>4 DEF Numbered, server
  <2> QED BY <2>1, <1>2, <1>3, HeldNumbers DEF Keeps
<1>9. Told'
  <2>1. \A s \in Threads : Before(s)' => s # t /\ Before(s) /\ running[s].id # running[t].id
    BY <1>2, <1>3 DEF Before, Numbered
  <2> QED BY <2>1, <1>2, <1>3, <1>4 DEF Told, ReadsAreFresh, WritesOf, Keeps, server
<1> QED BY <1>3, <1>5, <1>6, <1>7, <1>8, <1>9

LEMMA RollbackInv ==
  ASSUME IInv, NEW t \in Threads, Rollback(t)
  PROVE  IInv'
<1> USE DEF IInv
<1>1. /\ running[t].st = "failed" /\ Out(t) /\ Turned(t, "returning")
      /\ UNCHANGED <<allow, singleton, free, table, statements, withheld>>
      /\ session' \in {session, [session EXCEPT ![running[t].cnx] = NewSession]}
  BY DEF Rollback, Out
<1>2. /\ Runs' /\ running'[t].st = "returning"
      /\ \A s \in Threads : Keeps(s)
      /\ \A s \in Threads \ {t} : running'[s] = running[s]
  BY <1>1, TurnedRuns DEF Steps
<1>3. /\ session' \in [Connections -> Sessions]
      /\ \A y \in Connections : y # running[t].cnx => session'[y] = session[y]
  BY <1>1, NewSessionTyped DEF Common
<1>4. Common'
  BY <1>1, <1>3 DEF Common, singleton
<1>5. Locked' /\ Placed'
  BY <1>1, <1>2, HeldPlaces DEF Keeps
<1>6. Clean'
  BY <1>1, <1>2, <1>3, HeldClean
<1>7. Numbered'
  BY <1>1, <1>2 DEF Numbered, Keeps
<1>8. Told'
  <2>1. \A s \in Threads : Before(s)' <=> Before(s)
    BY <1>1, <1>2 DEF Before
  <2> QED BY <2>1, <1>1, <1>2 DEF Told, ReadsAreFresh, WritesOf, Keeps
<1> QED BY <1>2, <1>4, <1>5, <1>6, <1>7, <1>8

(* A commit that the server acted on puts all writes of the statement into *)
(* the table; they are none of any other's.                                *)
LEMMA CommitInv ==
  ASSUME IInv, NEW t \in Threads, Commit(t)
  PROVE  IInv'
<1> USE DEF IInv
<1> DEFINE w == running[t]
<1>1. /\ w.st = "holding" /\ 0 < w.size /\ w.done = w.size /\ Out(t)
      /\ UNCHANGED <<allow, singleton, free, statements, withheld>>
  BY DEF Commit, Out
<1>2. /\ w \in Running /\ w.cnx \in Connections /\ session[w.cnx].writes = WritesOf(w)
      /\ w.id \in 1..statements /\ w.id \notin withheld
      /\ ~w.answered /\ \A y \in table : y[1] # w.id
  BY <1>1 DEF Placed, Clean, Numbered, Runs, Told, Before, WritesOf
<1>3. WritesOf(w) \subseteq Writes
  <2>1. w.id \in 1..MaxStatements /\ w.size \in 0..BatchSize
    BY <1>2 DEF Common, Running
  <2> QED BY <2>1, WritesFacts DEF WritesOf
<1>4. /\ Runs' /\ running'[t].st \in {"returning", "failed"}
      /\ \A s \in Threads : /\ running'[s].id = running[s].id /\ running'[s].size = running[s].size
                            /\ running'[s].cnx = running[s].cnx
                            /\ running'[s].saw = running[s].saw
                            /\ running'[s].before = running[s].before
      /\ \A s \in Threads \ {t} : running'[s] = running[s]
  <2>1. CASE Turned(t, "failed")
    BY <2>1, TurnedRuns DEF Steps, Keeps
  <2>2. CASE running' = [running EXCEPT ![t].st = "returning", ![t].answered = TRUE]
    BY <2>2 DEF Runs, Running, Steps
  <2> QED BY <2>1, <2>2 DEF Commit
<1>5. /\ session' \in {session, [session EXCEPT ![w.cnx] = NewSession]}
      /\ table' \in {table, table \cup WritesOf(w)}
      /\ Turned(t, "failed") \/ table' = table \cup WritesOf(w)
  BY <1>2 DEF Commit
<1> HIDE DEF w
<1>6. /\ session' \in [Connections -> Sessions]
      /\ \A y \in Connections : y # w.cnx => session'[y] = session[y]
  BY <1>2, <1>5, NewSessionTyped DEF Common
<1>7. table' \in SUBSET Writes /\ table \subseteq table'
  BY <1>3, <1>5 DEF Common
<1>8. Common'
  BY <1>1, <1>6, <1>7 DEF Common, singleton
<1>9. Locked' /\ Placed'
  BY <1>1, <1>4, HeldPlaces
<1>10. Clean'
  BY <1>1, <1>4, <1>6, HeldClean DEF w
<1>11. Numbered'
  <2>1. \A y \in WritesOf(w) : y[1] = w.id
    BY <1>2, WritesOfId
  <2>2. w.id <= statements
    BY <1>2 DEF Common
  <2>3. withheld' \subseteq 1..statements /\ \A y \in table' : y[1] <= statements /\ y[1] \notin withheld'
    BY <2>1, <2>2, <1>1, <1>2, <1>5 DEF Numbered
  <2> QED BY <2>3, <1>1, <1>4, HeldNumbers
<1>12. Told'
  <2>1. \A s \in Threads : Before(s)' => s # t /\ Before(s) /\ running[s].id # w.id
    BY <1>1, <1>4 DEF Before, Numbered, w
  <2>2. \A y \in WritesOf(w) : y[1] = w.id
    BY <1>2, WritesOfId
  <2>3. \A s \in Threads : WritesOf(running'[s]) = WritesOf(running[s])
    BY <1>4 DEF WritesOf
  <2>4. \A s \in Threads \ {t} : WritesOf(running[s]) \cap WritesOf(w) = {} \/ running[s] = Rest
    <3>1. \A s \in Threads \ {t} : running[s].id # w.id \/ running[s] = Rest
      BY <1>1 DEF Numbered, w
    <3> QED BY <3>1, <1>2, WritesApart DEF Runs
  <2>5. \A s \in Threads : WritesOf(running'[s]) \subseteq table' \/ WritesOf(running'[s]) \cap table' = {}
    <3>1. ASSUME NEW s \in Threads \ {t}
          PROVE  WritesOf(running'[s]) \subseteq table' \/ WritesOf(running'[s]) \cap table' = {}
      <4>1. CASE running[s] = Rest
        BY <4>1, <2>3, RestRuns
      <4>2. CASE WritesOf(running[s]) \cap WritesOf(w) = {}
        BY <4>2, <2>3, <1>5 DEF Told
      <4> QED BY <2>4, <4>1, <4>2
    <3>2. WritesOf(running'[t]) \subseteq table' \/ WritesOf(running'[t]) \cap table' = {}
      BY <2>3, <1>5 DEF Told, w
    <3> QED BY <3>1, <3>2
  <2>6. running'[t].answered => WritesOf(running'[t]) \subseteq table'
    <3>1. CASE Turned(t, "failed")
      <4>1. running'[t].answered = w.answered
        BY <3>1, TurnedRuns DEF Steps, Keeps, w
      <4> QED BY <4>1, <1>2, Zenon
    <3>2. CASE table' = table \cup WritesOf(w)
      BY <3>2, <2>3 DEF w
    <3> QED BY <3>1, <3>2, <1>5
  <2>7. \A s \in Threads \ {t} : running'[s].answered => WritesOf(running'[s]) \subseteq table'
    BY <2>3, <1>4, <1>7 DEF Told
  <2>8. \A s \in Threads : running'[s].before \subseteq table'
    BY <1>4, <1>7 DEF Told
  <2>9. ReadsAreFresh'
    BY <1>1, <1>4 DEF Told, ReadsAreFresh, w
  <2>10. running'[t].st = "failed" => ~running'[t].answered
    <3>1. CASE Turned(t, "failed")
      <4>1. running'[t].answered = w.answered
        BY <3>1, TurnedRuns DEF Steps, Keeps, w
      <4> QED BY <4>1, <1>2, Zenon
    <3>2. CASE running' = [running EXCEPT ![t].st = "returning", ![t].answered = TRUE]
      BY <3>2, <1>1 DEF Runs, Running, w
    <3> QED BY <3>1, <3>2 DEF Commit
  <2>11. \A s \in Threads : Before(s)' =>
           /\ running'[s].id \notin withheld'
           /\ \A y \in table' : y[1] # running'[s].id
           /\ ~running'[s].answered
           /\ running'[s].done <= running'[s].size
    BY <2>1, <2>2, <1>1, <1>4, <1>5 DEF Told
  <2>12. \A s \in Threads : Before(s)' /\ running'[s].st # "holding" => running'[s].done = 0
    BY <2>1, <1>4 DEF Told
  <2>13. \A s \in Threads : running'[s].st = "failed" => ~running'[s].answered
    BY <2>10, <1>4 DEF Told
  <2> QED BY <2>5, <2>6, <2>7, <2>8, <2>9, <2>11, <2>12, <2>13 DEF Told, WritesOf
<1> QED BY <1>4, <1>8, <1>9, <1>10, <1>11, <1>12

LEMMA ReturnConnectionInv ==
  ASSUME IInv, NEW t \in Threads, ReturnConnection(t)
  PROVE  IInv'
<1> USE DEF IInv
<1> DEFINE x == running[t].cnx
<1>1. /\ running[t].st = "returning" /\ Out(t)
      /\ session' = [session EXCEPT ![x] = NewSession]
      /\ free' = [free EXCEPT ![x[1]] = @ \cup {x}]
      /\ running' = [running EXCEPT ![t] = Rest]
      /\ UNCHANGED <<allow, singleton, table, statements, withheld>>
  BY DEF ReturnConnection, Out
<1>2. x \in Connections /\ x[1] <= pools /\ x[1] \in 1..MaxPools
  BY <1>1, ConnectionFacts DEF Placed
<1>3. \A s \in Threads \ {t} : Out(s) => running[s].cnx # x
  BY <1>1 DEF Placed
<1> HIDE DEF x
<1>4. /\ Runs' /\ running'[t] = Rest
      /\ \A s \in Threads \ {t} : running'[s] = running[s]
  BY <1>1, RestedRuns
<1>5. /\ free' \in [1..MaxPools -> SUBSET Connections]
      /\ free'[x[1]] = free[x[1]] \cup {x}
      /\ \A g \in 1..MaxPools : g # x[1] => free'[g] = free[g]
  BY <1>1, <1>2 DEF Common
<1>6. /\ session' \in [Connections -> Sessions]
      /\ session'[x] = NewSession
      /\ \A y \in Connections : y # x => session'[y] = session[y]
  BY <1>1, <1>2, NewSessionTyped DEF Common
<1>7. \A s \in Threads : Out(s)' <=> s # t /\ Out(s)
  BY <1>4, RestRuns DEF Out
<1>8. Common'
  BY <1>1, <1>5, <1>6 DEF Common, singleton
<1>9. Locked'
  BY <1>1, <1>4, RestRuns DEF Locked, singleton
<1>10. Placed'
  <2>1. ASSUME NEW s \in Threads, Out(s)'
        PROVE  /\ running'[s].cnx \in Connections
               /\ running'[s].cnx[1] <= pools'
               /\ running'[s].cnx \notin free'[running'[s].cnx[1]]
    <3>1. s # t /\ Out(s) /\ running'[s] = running[s] /\ running[s].cnx # x
      BY <2>1, <1>3, <1>4, <1>7
    <3>2. running[s].cnx \in Connections /\ running[s].cnx[1] \in 1..MaxPools
      BY <3>1, ConnectionFacts DEF Placed
    <3> QED BY <3>1, <3>2, <1>1, <1>5 DEF Placed, singleton
  <2>2. \A r, s \in Threads : Out(r)' /\ Out(s)' /\ running'[r].cnx = running'[s].cnx => r = s
    BY <1>4, <1>7 DEF Placed
  <2>3. ASSUME NEW y \in Connections, y[1] <= pools'
        PROVE  y \in free'[y[1]] \/ \E s \in Threads : Out(s)' /\ running'[s].cnx = y
    <3>1. CASE y = x
      BY <3>1, <1>5
    <3>2. CASE y # x
      <4>1. y[1] \in 1..MaxPools /\ y[1] <= pools
        BY <2>3, <1>1, ConnectionFacts DEF singleton
      <4>2. y \in free[y[1]] => y \in free'[y[1]]
        BY <4>1, <1>5
      <4>3. \A s \in Threads : Out(s) /\ running[s].cnx = y =>
              Out(s)' /\ running'[s].cnx = running[s].cnx
        BY <3>2, <1>4, <1>7 DEF x
      <4> QED BY <4>1, <4>2, <4>3 DEF Placed
    <3> QED BY <3>1, <3>2
  <2>4. \A g \in 1..MaxPools : \A y \in free'[g] : y[1] = g
    BY <1>2, <1>5 DEF Placed
  <2> QED BY <2>1, <2>2, <2>3, <2>4 DEF Placed
<1>11. Clean'
  <2>1. ASSUME NEW y \in Connections, y[1] <= pools' => y \in free'[y[1]]
        PROVE  session'[y] = NewSession
    <3>1. CASE y = x
      BY <3>1, <1>6
    <3>2. CASE y # x
      <4>1. y[1] \in 1..MaxPools /\ pools' = pools
        BY <1>1, ConnectionFacts DEF singleton
      <4>2. y \in free'[y[1]] => y \in free[y[1]]
        BY <4>1, <3>2, <1>5
      <4> QED BY <4>1, <4>2, <2>1, <3>2, <1>6 DEF Clean
    <3> QED BY <3>1, <3>2
  <2>2. \A s \in Threads : running'[s].st = "holding" =>
           running[s] = running'[s] /\ running[s].cnx # x /\ running[s].cnx \in Connections
    BY <1>3, <1>4, RestRuns DEF Placed, Out
  <2> QED BY <2>1, <2>2, <1>6 DEF Clean
<1>12. Numbered'
  <2>1. \A s \in Threads : running'[s].st # "idle" => s # t
    BY <1>4, RestRuns
  <2> QED BY <2>1, <1>1, <1>4, RestRuns DEF Numbered
<1>13. Told'
  <2>1. \A s \in Threads : Before(s)' => s # t /\ Before(s)
    BY <1>4, RestRuns DEF Before
  <2>2. ReadsAreFresh'
    BY <1>4, RestRuns DEF Told, ReadsAreFresh
  <2> QED BY <2>1, <2>2, <1>1, <1>4, RestRuns DEF Told, WritesOf
<1> QED BY <1>4, <1>8, <1>9, <1>10, <1>11, <1>12, <1>13

-----------------------------------------------------------------------------

LEMMA NextInv == IInv /\ [PoolNext]_poolVars => IInv'
<1> SUFFICES ASSUME IInv, [PoolNext]_poolVars PROVE IInv'
  OBVIOUS
<1>1. CASE UNCHANGED poolVars
  BY <1>1 DEF IInv, poolVars, Common, Runs, Locked, Placed, Clean, Numbered, Told,
              Out, Before, ReadsAreFresh, WritesOf
<1>2. CASE ClosePool
  BY <1>2, ClosePoolInv
<1>3. ASSUME NEW t \in Threads, Statement(t) PROVE IInv'
  BY <1>3, StartStatementInv, CheckInitializedInv, EnterLockInv, CreatePoolInv, LeaveLockInv,
     NoConnectionInv, BorrowInv, QueryInv, WriteInv, CommitInv, StatementFailsInv,
     RollbackInv, ReturnConnectionInv DEF Statement
<1> QED BY <1>1, <1>2, <1>3 DEF PoolNext

LEMMA InvImplies == IInv => PoolTypeOK /\ StatementsHold
<1> SUFFICES ASSUME IInv PROVE PoolTypeOK /\ StatementsHold
  OBVIOUS
<1> USE DEF IInv
<1>1. PoolTypeOK
  BY DEF PoolTypeOK, Common, Runs, Running, Steps, Sessions
<1>2. NoneIsLost
  BY DEF NoneIsLost, Placed
<1>3. NothingIsLeft
  BY ConnectionFacts DEF NothingIsLeft, Clean, Common, Placed
<1>4. AllOrNothing
  BY DEF AllOrNothing, Told, Numbered
<1>5. ReadsAreFresh /\ OnePool
  BY DEF Told, Locked, OnePool
<1> QED BY <1>1, <1>2, <1>3, <1>4, <1>5 DEF StatementsHold

(* The variables of the pool and of the statements keep their types.       *)
THEOREM PoolTypeCorrect == PoolSpec => []PoolTypeOK
  BY InitInv, NextInv, InvImplies, PTL DEF PoolSpec

(* A repository may count on its connection: none is lost or shared, none  *)
(* carries what an earlier borrower left, a transaction is in the table    *)
(* with all its writes or with none, a query sees all that was committed   *)
(* before it, and requests that come at once make one pool.                *)
THEOREM StatementsAreSound == PoolSpec => []StatementsHold
  BY InitInv, NextInv, InvImplies, PTL DEF PoolSpec
===============================================================================
