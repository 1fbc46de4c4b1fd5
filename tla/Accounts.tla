------------------------------ MODULE Accounts ------------------------------
(***************************************************************************)
(* Who signs in, and who is served.  The accounts of Ressy's own           *)
(* administrators and of the restaurants' (app/services/                   *)
(* ressy_admin_service.py, restaurant_admin_service.py), the sessions they *)
(* sign in with (app/services/auth_service.py), and the table of the       *)
(* customers, which the calls, the bookings and the dashboards all write   *)
(* (app/repositories/mysql_user_repo.py, app/services/user_service.py).    *)
(*                                                                         *)
(* The handlers of accounts and sessions do not await, so that each is one *)
(* step of the event loop.  The customers are written from threads too, a  *)
(* statement at a time.                                                    *)
(***************************************************************************)
EXTENDS Naturals, Sequences, FiniteSets, FiniteSetsExt

CONSTANTS
  NoData,        \* None, and a column that is NULL
  Ressy,         \* whose administrators are not a restaurant's
  Venues,        \* the restaurants
  Uuids,         \* bound: the uuids that are drawn
  Emails, Lines, \* email addresses, and the phones of customers
  Names,         \* names of customers
  Writers,       \* the calls, bookings and orders, each of one customer
  Signups,       \* bound: the batches of accounts that are asked for at once
  MaxSessions, MaxRenewals, MaxChanges   \* bounds

ASSUME AccountsAssumption ==
  /\ Ressy \notin Venues /\ NoData \notin Names \cup Emails \cup Lines
  /\ NoData \notin [side : Venues \cup {Ressy}, email : Emails, password : Nat]
  /\ IsFiniteSet(Uuids)
  /\ \A batch \in Signups : IsFiniteSet(batch) /\ batch \subseteq Emails
  /\ MaxSessions \in Nat /\ MaxRenewals \in Nat /\ MaxChanges \in Nat

VARIABLES
  accounts,      \* the tables Ressy_Administrator and Restaurant_Administrators
  sessions,      \* the table Auth_Sessions
  tokens,        \* the refresh tokens that browsers hold: <<session, token>>
  closed,        \* restaurants that were deleted
  customers,     \* the table Users
  mapped,        \* the table User_Restaurant_Metadata: <<customer, restaurant>>
  writers,       \* those that write a customer, and how far they are
  changes,       \* requests of the dashboards so far
  \* for the properties only:
  resets,        \* how often an account's password was reset
  moved          \* customers whose phone another row's email or the staff changed

signIn == <<accounts, sessions, tokens, closed, resets>>
served == <<customers, mapped, writers, moved>>
accountVars == <<signIn, served, changes>>

Change == changes < MaxChanges /\ changes' = changes + 1

(***************************************************************************)
(* Accounts.                                                               *)
(***************************************************************************)
Held == {p \in Uuids : accounts[p] # NoData}
StaffOf(side) == {p \in Held : accounts[p].side = side}

(* get_client_user_by_restaurant_and_email, get_admin_by_email *)
EmailTaken(side, email) == \E p \in StaffOf(side) : accounts[p].email = email

Account(side, email) == [side |-> side, email |-> email, password |-> 0]

(* The uuids are new; bulk_create inserts all rows or none, after checking *)
(* each against the table and against the others in the payload.           *)
InsertAccounts(side, batch) ==
  /\ Change /\ side \notin closed /\ batch # {}
  /\ \A email \in batch : ~EmailTaken(side, email)
  /\ \E uuid \in [batch -> Uuids \ Held] :
       /\ IsInjective(uuid)
       /\ \A p \in Uuids : (\E email \in batch : uuid[email] = p) => resets[p] = 0
       /\ accounts' = [p \in Uuids |->
            IF \E email \in batch : uuid[email] = p
            THEN Account(side, CHOOSE email \in batch : uuid[email] = p) ELSE accounts[p]]
  /\ UNCHANGED <<sessions, tokens, closed, resets, served>>

CreateAdminUser(email)           == InsertAccounts(Ressy, {email})
BulkCreateAdminUsers(batch)      == InsertAccounts(Ressy, batch)
CreateClientUser(v, email)       == InsertAccounts(v, {email})
BulkCreateClientUsers(v, batch)  == InsertAccounts(v, batch)

(* An email stays unique within its side; the others may have it. *)
UpdateEmail(p, email) ==
  /\ Change /\ p \in Held
  /\ \A q \in StaffOf(accounts[p].side) : accounts[q].email = email => q = p
  /\ accounts' = [accounts EXCEPT ![p].email = email]
  /\ UNCHANGED <<sessions, tokens, closed, resets, served>>

(* update_client_user, update_admin_user: the sessions stay. *)
UpdatePassword(p) ==
  /\ Change /\ p \in Held
  /\ accounts' = [accounts EXCEPT ![p].password = @ + 1]
  /\ UNCHANGED <<sessions, tokens, closed, resets, served>>

UpdateAdminUser(p) ==
  /\ p \in StaffOf(Ressy)
  /\ UpdatePassword(p) \/ \E email \in Emails : UpdateEmail(p, email)

UpdateClientUser(v, p) ==
  /\ p \in StaffOf(v)
  /\ UpdatePassword(p) \/ \E email \in Emails : UpdateEmail(p, email)

(* revoke_sessions_for_user: the sessions of this account on its own side. *)
RevokeSessionsOf(p) ==
  [s \in DOMAIN sessions |->
     IF sessions[s].who = p /\ sessions[s].side = accounts[p].side
     THEN [sessions[s] EXCEPT !.revoked = TRUE, !.live = FALSE] ELSE sessions[s]]

(* Mutant: the sessions of administrators are looked for, whoever it is. *)
AdminReset(p) ==
  /\ Change /\ p \in Held
  /\ accounts' = [accounts EXCEPT ![p].password = @ + 1]
  /\ sessions' = IF accounts[p].side = Ressy THEN RevokeSessionsOf(p) ELSE sessions
  /\ resets' = [resets EXCEPT ![p] = @ + 1]
  /\ UNCHANGED <<tokens, closed, served>>

(* More attempts than the limit are refused before anything is done. *)
ResetPassword(p) ==
  /\ Change /\ p \in Held
  /\ accounts' = [accounts EXCEPT ![p].password = @ + 1]
  /\ sessions' = RevokeSessionsOf(p)
  /\ resets' = [resets EXCEPT ![p] = @ + 1]
  /\ UNCHANGED <<tokens, closed, served>>

ResetAdminUserPassword(p)     == p \in StaffOf(Ressy) /\ ResetPassword(p)
ResetClientUserPassword(v, p) == p \in StaffOf(v) /\ ResetPassword(p)

(* Mutant: the accounts of all restaurants are counted together. *)
CrowdDelete(p) ==
  /\ Change /\ p \in Held
  /\ Cardinality(Held) > 1
  /\ accounts' = [accounts EXCEPT ![p] = NoData]
  /\ sessions' = RevokeSessionsOf(p)
  /\ resets' = [resets EXCEPT ![p] = @ + 1]
  /\ UNCHANGED <<tokens, closed, served>>

(* The last of a side is kept. *)
DeleteAccount(p) ==
  /\ Change /\ p \in Held
  /\ Cardinality(StaffOf(accounts[p].side)) > 1
  /\ accounts' = [accounts EXCEPT ![p] = NoData]
  /\ sessions' = RevokeSessionsOf(p)
  /\ resets' = [resets EXCEPT ![p] = @ + 1]
  /\ UNCHANGED <<tokens, closed, served>>

DeleteAdminUser(p)     == p \in StaffOf(Ressy) /\ DeleteAccount(p)
DeleteClientUser(v, p) == p \in StaffOf(v) /\ DeleteAccount(p)

(* Deleting a restaurant takes the rows that refer to it along. *)
CloseVenue(v) ==
  /\ Change /\ v \notin closed
  /\ closed' = closed \cup {v}
  /\ accounts' = [p \in Uuids |-> IF p \in StaffOf(v) THEN NoData ELSE accounts[p]]
  /\ mapped' = {m \in mapped : m[2] # v}
  /\ resets' = [p \in Uuids |-> IF p \in StaffOf(v) THEN resets[p] + 1 ELSE resets[p]]
  /\ UNCHANGED <<sessions, tokens, customers, writers, moved>>

(***************************************************************************)
(* Sessions.                                                               *)
(***************************************************************************)
CreateSession(p) ==
  /\ Len(sessions) < MaxSessions
  /\ sessions' = Append(sessions, [who |-> p, side |-> accounts[p].side, token |-> 0,
                                   revoked |-> FALSE, live |-> TRUE, since |-> resets[p]])
  /\ tokens' = tokens \cup {<<Len(sessions) + 1, 0>>}
  /\ UNCHANGED <<accounts, closed, resets, served, changes>>

LoginRessyAdmin(p) == p \in StaffOf(Ressy) /\ CreateSession(p)

(* The account is looked up by email alone, any that has it, and then the  *)
(* password is compared: whose email is another's too may be turned away.  *)
LoginRestaurantAdmin(p) == p \in Held \ StaffOf(Ressy) /\ CreateSession(p)

(* Mutant: a token is good as long as the session is. *)
AnyTokenRenews(s, token) == ~sessions[s].revoked /\ sessions[s].live /\ sessions[s].who \in Held

Renews(s, token) ==
  /\ ~sessions[s].revoked /\ sessions[s].live
  /\ sessions[s].token = token
  /\ sessions[s].who \in Held

(* A renewed session has a new token, and the time of a new one. *)
Refresh(s, token) ==
  /\ <<s, token>> \in tokens /\ Renews(s, token)
  /\ sessions[s].token < MaxRenewals
  /\ sessions' = [sessions EXCEPT ![s].token = @ + 1, ![s].live = TRUE, ![s].revoked = FALSE]
  /\ tokens' = tokens \cup {<<s, sessions[s].token + 1>>}
  /\ UNCHANGED <<accounts, closed, resets, served, changes>>

Expire(s) ==
  /\ sessions[s].live
  /\ sessions' = [sessions EXCEPT ![s].live = FALSE]
  /\ UNCHANGED <<accounts, tokens, closed, resets, served, changes>>

Logout(s) ==
  /\ sessions[s].live
  /\ sessions' = [sessions EXCEPT ![s].revoked = TRUE, ![s].live = FALSE]
  /\ UNCHANGED <<accounts, tokens, closed, resets, served, changes>>

(***************************************************************************)
(* Customers.  Whoever serves one writes the row by phone, by email, or    *)
(* anew, and then notes that the restaurant has met them.                  *)
(***************************************************************************)
Rows == DOMAIN customers
ByLine(phone)  == {u \in Rows : phone # NoData /\ customers[u].phone = phone}
ByEmail(email) == {u \in Rows : email # NoData /\ customers[u].email = email}

Coalesce(value, old) == IF value = NoData THEN old ELSE value

Idle == [st |-> "idle", data |-> NoData, venue |-> NoData, id |-> 0, explicit |-> FALSE]

Step(w, st, id) == writers' = [writers EXCEPT ![w].st = st, ![w].id = id]
Fail(w)         == writers' = [writers EXCEPT ![w] = [Idle EXCEPT !.st = "failed"]]

(* A call, a booking or an order of a customer; nothing without a phone or *)
(* an email.  From a dashboard the customer may be entered by themselves,  *)
(* which is refused when the restaurant has them.                          *)
Serve(w, data, v, explicit) ==
  /\ writers[w].st = "idle" /\ v \notin closed
  /\ data.phone # NoData \/ data.email # NoData
  /\ explicit => \A u \in ByLine(data.phone) \cup ByEmail(data.email) : <<u, v>> \notin mapped
  /\ writers' = [writers EXCEPT ![w] =
       [st |-> IF data.phone # NoData THEN "insert" ELSE "email",
        data |-> data, venue |-> v, id |-> 0, explicit |-> explicit]]
  /\ UNCHANGED <<signIn, changes, customers, mapped, moved>>

NewCustomer(data) == [phone |-> data.phone, email |-> data.email, name |-> data.name,
                      spam |-> data.spam]

(* ON DUPLICATE KEY UPDATE: a row that has the phone or the email, one of  *)
(* them when two rows do; the phone is not among the columns it writes.    *)
Rewritten(u, data) ==
  [customers EXCEPT ![u].name = Coalesce(data.name, @), ![u].email = Coalesce(data.email, @),
                    ![u].spam = data.spam]

EmailFree(u, email) == email = NoData \/ ByEmail(email) \subseteq {u}

(* Mutant: the row that has the email is taken for the caller's. *)
GreedyInsert(w) ==
  LET data == writers[w].data
      hits == ByLine(data.phone) \cup ByEmail(data.email)
  IN /\ writers[w].st = "insert"
     /\ \/ /\ hits = {}
           /\ customers' = Append(customers, NewCustomer(data))
           /\ Step(w, "map", Len(customers) + 1)
        \/ \E u \in hits : customers' = Rewritten(u, data) /\ Step(w, "map", u)
     /\ UNCHANGED <<signIn, changes, mapped, moved>>

InsertOrUpdate(w) ==
  LET data == writers[w].data
      hits == ByLine(data.phone) \cup ByEmail(data.email)
  IN /\ writers[w].st = "insert"
     /\ \/ /\ hits = {}
           /\ customers' = Append(customers, NewCustomer(data))
           /\ Step(w, "select", 0)
        \/ \E u \in hits :
             IF EmailFree(u, data.email)
             THEN customers' = Rewritten(u, data) /\ Step(w, "select", 0)
             ELSE UNCHANGED customers /\ Fail(w)
     /\ UNCHANGED <<signIn, changes, mapped, moved>>

SelectByPhone(w) ==
  /\ writers[w].st = "select"
  /\ LET found == ByLine(writers[w].data.phone) IN
       IF found # {} THEN Step(w, "map", Max(found)) ELSE Step(w, "email", 0)
  /\ UNCHANGED <<signIn, changes, customers, mapped, moved>>

SelectByEmail(w) ==
  /\ writers[w].st = "email"
  /\ LET found == ByEmail(writers[w].data.email) IN
       IF found # {} THEN Step(w, "update", Max(found)) ELSE Step(w, "plain", 0)
  /\ UNCHANGED <<signIn, changes, customers, mapped, moved>>

(* The row of the email is given the phone, unless another row has it. *)
UpdateByEmail(w) ==
  LET data == writers[w].data  u == writers[w].id IN
  /\ writers[w].st = "update"
  /\ IF ByLine(data.phone) \subseteq {u}
     THEN /\ customers' = [customers EXCEPT ![u].name = Coalesce(data.name, @),
                                            ![u].phone = Coalesce(data.phone, @),
                                            ![u].spam = data.spam]
          /\ moved' = IF Coalesce(data.phone, customers[u].phone) = customers[u].phone
                      THEN moved ELSE moved \cup {u}
          /\ Step(w, "map", u)
     ELSE UNCHANGED <<customers, moved>> /\ Fail(w)
  /\ UNCHANGED <<signIn, changes, mapped>>

PlainInsert(w) ==
  LET data == writers[w].data IN
  /\ writers[w].st = "plain"
  /\ IF ByLine(data.phone) \cup ByEmail(data.email) = {}
     THEN customers' = Append(customers, NewCustomer(data)) /\ Step(w, "map", Len(customers) + 1)
     ELSE UNCHANGED customers /\ Fail(w)
  /\ UNCHANGED <<signIn, changes, mapped, moved>>

(* Mutant: a customer who was met before is not mapped. *)
KnownMapping(w) ==
  /\ writers[w].st = "map"
  /\ mapped' = IF \E m \in mapped : m[1] = writers[w].id THEN mapped
               ELSE mapped \cup {<<writers[w].id, writers[w].venue>>}
  /\ Step(w, "served", writers[w].id)
  /\ UNCHANGED <<signIn, changes, customers, moved>>

(* Who does not need the mapping goes on without it when it fails; a       *)
(* restaurant that is gone cannot be mapped.                               *)
CreateMapping(w) ==
  /\ writers[w].st = "map"
  /\ IF writers[w].venue \in closed
     THEN /\ IF writers[w].explicit THEN Fail(w) ELSE Step(w, "served", writers[w].id)
          /\ UNCHANGED mapped
     ELSE mapped' = mapped \cup {<<writers[w].id, writers[w].venue>>}
          /\ Step(w, "served", writers[w].id)
  /\ UNCHANGED <<signIn, changes, customers, moved>>

(* update_user_dashboard: neither the phone nor the email may be another's. *)
UpdateCustomer(u, data) ==
  /\ Change /\ u \in Rows
  /\ ByLine(data.phone) \subseteq {u} /\ ByEmail(data.email) \subseteq {u}
  /\ customers' = [customers EXCEPT ![u].phone = Coalesce(data.phone, @),
                                    ![u].email = Coalesce(data.email, @),
                                    ![u].name  = Coalesce(data.name, @),
                                    ![u].spam  = data.spam]
  /\ moved' = IF Coalesce(data.phone, customers[u].phone) = customers[u].phone
              THEN moved ELSE moved \cup {u}
  /\ UNCHANGED <<signIn, mapped, writers>>

(***************************************************************************)
(* The specification.                                                      *)
(***************************************************************************)
Sides == Venues \cup {Ressy}
Data == [phone : Lines \cup {NoData}, email : Emails \cup {NoData}, name : Names \cup {NoData},
         spam : BOOLEAN]

AccountsInit ==
  /\ accounts = [p \in Uuids |-> NoData]
  /\ sessions = << >> /\ tokens = {} /\ closed = {}
  /\ customers = << >> /\ mapped = {}
  /\ writers = [w \in Writers |-> Idle]
  /\ changes = 0 /\ moved = {}
  /\ resets = [p \in Uuids |-> 0]

Staffing ==
  \/ \E email \in Emails : CreateAdminUser(email) \/ \E v \in Venues : CreateClientUser(v, email)
  \/ \E batch \in Signups :
       BulkCreateAdminUsers(batch) \/ \E v \in Venues : BulkCreateClientUsers(v, batch)
  \/ \E p \in Uuids :
       \/ LoginRessyAdmin(p) \/ UpdateAdminUser(p) \/ ResetAdminUserPassword(p) \/ DeleteAdminUser(p)
       \/ LoginRestaurantAdmin(p)
       \/ \E v \in Venues :
            UpdateClientUser(v, p) \/ ResetClientUserPassword(v, p) \/ DeleteClientUser(v, p)
  \/ \E v \in Venues : CloseVenue(v)
  \/ \E s \in DOMAIN sessions : Expire(s) \/ Logout(s)
  \/ \E t \in tokens : Refresh(t[1], t[2])

Upsert(w) == InsertOrUpdate(w) \/ SelectByPhone(w) \/ SelectByEmail(w) \/ UpdateByEmail(w)
             \/ PlainInsert(w) \/ CreateMapping(w)

Serving(data) ==
  \/ \E w \in Writers :
       \/ Upsert(w)
       \/ \E d \in data, v \in Venues, explicit \in BOOLEAN : Serve(w, d, v, explicit)
  \/ \E u \in Rows, d \in data : UpdateCustomer(u, d)

AccountsSpec == AccountsInit /\ [][Staffing \/ Serving(Data)]_accountVars

(***************************************************************************)
(* Properties.                                                             *)
(***************************************************************************)
AccountsTypeOK ==
  /\ \A p \in Held : accounts[p].side \in Sides \ closed /\ accounts[p].email \in Emails
  /\ \A t \in tokens : t[1] \in DOMAIN sessions /\ t[2] <= sessions[t[1]].token
  /\ \A u \in Rows : customers[u] \in Data
  /\ \A m \in mapped : m[1] \in Rows /\ m[2] \in Venues \ closed
  /\ \A w \in Writers : writers[w].st \in {"map", "update"} => writers[w].id \in Rows
  /\ changes \in 0..MaxChanges

(* Who signed in before their password was reset, or their account         *)
(* deleted, has to sign in again: none of the tokens that are about renews *)
(* such a session; and of a session's tokens the last one does, no other.  *)
ResetEndsSessions ==
  \A t \in tokens : Renews(t[1], t[2]) =>
    /\ sessions[t[1]].since = resets[sessions[t[1]].who]
    /\ \A later \in tokens : later[1] = t[1] => later[2] <= t[2]

(* On every side the emails are apart, whether accounts come one by one,   *)
(* in batches or by renaming, and a side that had an account keeps one     *)
(* until the restaurant is deleted.                                        *)
SomebodyCanManage ==
  /\ [][\A side \in Sides : StaffOf(side) # {} => (StaffOf(side) # {})' \/ side \in closed']_accountVars
  /\ [](\A p, q \in Held : accounts[p].side = accounts[q].side /\ accounts[p].email = accounts[q].email
          => p = q)

(* Whoever wrote a customer holds the row that has the customer's phone,   *)
(* however the statements of several writers interleave: no call and no    *)
(* booking is filed under somebody else.  A row loses its phone only when  *)
(* the staff, or a request that has its email, gives it another.  And the  *)
(* restaurant that served the customer finds that row in its list.         *)
FiledUnderTheCaller ==
  \A w \in Writers :
    LET writer == writers[w] IN
    /\ writer.st \in {"map", "served"} /\ writer.data.phone # NoData =>
         customers[writer.id].phone = writer.data.phone \/ writer.id \in moved
    /\ writer.st = "served" =>
         <<writer.id, writer.venue>> \in mapped \/ writer.venue \in closed
=============================================================================
