-------------------------------- MODULE Desk --------------------------------
(***************************************************************************)
(* What the dashboards do with an order or a reservation, and who is told: *)
(* the handlers of app/api/dashboard_orders.py and dashboard_reservations  *)
(* .py, the activity history they write (activity_history_service.py), the *)
(* event to the dashboards and the notification they queue, and the text   *)
(* message to the customer (notification_service.py, twilio_client.py)     *)
(* with its row in Notification_Logs.  The voice agent changes the same    *)
(* rows from a thread, and tells of it in tasks of its own.                *)
(*                                                                         *)
(* A handler does not await: it is one step of the loop.  The tasks it     *)
(* queues run after its response, one after the other, and beside those of *)
(* other requests; each statement on the log is a thread's.                *)
(* How the rows of an order and the seats of a reservation come about is   *)
(* in VoiceOrders and Reservations.                                        *)
(***************************************************************************)
EXTENDS Naturals, Sequences, FiniteSets, SequencesExt

CONSTANTS
  None,                                 \* None
  Wanted,                               \* bound: the statuses that are asked for
  MaxRows, MaxRequests, MaxStumbles     \* bounds

ASSUME DeskAssumption ==
  /\ None \notin {"pending", "confirmed", "cancelled", "completed", "preparing", "ready", "no_show"}
  /\ MaxRows \in Nat /\ MaxRequests \in Nat /\ MaxStumbles \in Nat

VARIABLES
  rows,        \* Orders and Reservations: [kind, status, phone, deleted]
  history,     \* User_Activity_History: [row, action, old, new]
  jobs,        \* a request's tasks, or the voice agent's: how far they are
  feed,        \* the events that were sent to the dashboards: [row, subtype, status]
  inbox,       \* Notifications, which the events leave behind
  texts,       \* Notification_Logs: [job, st, retries]
  accepted,    \* external: the texts that Twilio took, in order
  reachable,   \* whether the restaurant has a number to send from
  stumbles,    \* statements that failed so far, and stops of the server
  \* for the properties only:
  troubled,    \* rows with a statement that failed, or whose tasks were lost
  raced,       \* rows that were changed before their tasks had ended
  torn         \* orders that lack items: their creation failed

deskVars == <<rows, history, jobs, feed, inbox, texts, accepted, reachable, stumbles, troubled,
              raced, torn>>

Statuses(kind) == {"pending", "confirmed", "cancelled", "completed"}
                  \cup IF kind = "order" THEN {"preparing", "ready"} ELSE {"no_show"}

WantedOf(kind) == Wanted \cap Statuses(kind)

Active(job) == job.pc \notin {"done", "lost"}
ActiveOf(r) == {j \in DOMAIN jobs : jobs[j].row = r /\ Active(jobs[j])}

Stumble == stumbles < MaxStumbles /\ stumbles' = stumbles + 1

(***************************************************************************)
(* Requests.                                                               *)
(***************************************************************************)
Job(r, old, new, action, subtype, text, pc) ==
  [row |-> r, old |-> old, new |-> new, action |-> action, subtype |-> subtype,
   text |-> text, pc |-> pc, log |-> 0]

(* After the event, a text with the status; none without a phone. *)
AfterNote(job) == IF job.text # None THEN "text" ELSE "done"

StartJob(job) == jobs' = Append(jobs, job)

Requests == {j \in DOMAIN jobs : jobs[j].action # "text"}
Room == Cardinality(Requests) < MaxRequests

Changed(r) == raced' = IF ActiveOf(r) # {} THEN raced \cup {r} ELSE raced

(* A history row is written, or the failure is logged. *)
Logged(entry) ==
  \/ history' = Append(history, entry) /\ UNCHANGED <<stumbles, troubled>>
  \/ Stumble /\ troubled' = troubled \cup {entry.row} /\ UNCHANGED history

(* log_order_created, log_order_updated, log_order_status_changed and     *)
(* log_order_cancelled, and those of a reservation: what each records.    *)
CreatedEntry(r, status)    == [row |-> r, action |-> "created", old |-> None, new |-> status]
UpdatedEntry(r, old, new)  == [row |-> r, action |-> "updated", old |-> old, new |-> new]
ChangedEntry(r, old, new)  == [row |-> r, action |-> "status_changed", old |-> old, new |-> new]
CancelledEntry(r, old)     == [row |-> r, action |-> "cancelled", old |-> old, new |-> "cancelled"]

(* Mutant: the row is read again for the history, after it was changed. *)
LateEntry(job) == [row |-> job.row, action |-> job.action, old |-> job.new, new |-> job.new]

Entry(job) ==
  CASE job.action = "created"        -> CreatedEntry(job.row, job.new)
    [] job.action = "status_changed" -> ChangedEntry(job.row, job.old, job.new)
    [] job.action = "cancelled"      -> CancelledEntry(job.row, job.old)
    [] OTHER                         -> UpdatedEntry(job.row, job.old, job.new)

(* The rows change, and a statement after that fails: the staff is told   *)
(* that the request failed, and nobody else is told anything.             *)
Half(r) ==
  /\ Stumble /\ troubled' = troubled \cup {r}
  /\ UNCHANGED <<history, jobs>>

Told(job) == StartJob(job) /\ Logged(Entry(job))

Tables == <<feed, inbox, texts, accepted, reachable>>

(* _queue_order_sms, _queue_reservation_sms: a row without a phone gets none. *)
OrderText(r, status)       == IF rows[r].phone THEN status ELSE None
ReservationText(r, status) == IF rows[r].phone THEN status ELSE None

OrderNews(status)       == IF status = "cancelled" THEN "order_cancelled" ELSE "order_updated"
ReservationNews(status) == IF status = "cancelled" THEN "reservation_cancelled"
                           ELSE "reservation_updated"

News(kind) == IF kind = "order" THEN "new_order" ELSE "new_reservation"

NewRow(kind, status, phone) ==
  /\ Len(rows) < MaxRows
  /\ rows' = Append(rows, [kind |-> kind, status |-> status, phone |-> phone, deleted |-> FALSE])

(* _check_order_access, _check_reservation_access: the row as it is now. *)
OrderFound(r)       == rows[r].kind = "order" /\ ~rows[r].deleted
ReservationFound(r) == rows[r].kind = "reservation"

SetStatusTo(r, status) == rows' = [rows EXCEPT ![r].status = status]

(***************************************************************************)
(* Orders.                                                                 *)
(***************************************************************************)
(* The row, its items one by one, and then everybody is told. *)
CreateOrder(status, phone) ==
  LET r == Len(rows) + 1 IN
  /\ Room /\ NewRow("order", status, phone)
  /\ \/ /\ Told(Job(r, None, status, "created", "new_order",
                     IF phone THEN status ELSE None, "event"))
        /\ UNCHANGED torn
     \/ Half(r) /\ torn' = torn \cup {r}
  /\ UNCHANGED <<Tables, raced>>

(* A cancelled order can only be made pending again. *)
OrderEditable(r, status) == rows[r].status = "cancelled" => status = "pending"

(* The items are rewritten after the row; a text when the status changes. *)
UpdateOrder(r, status) ==
  LET old == rows[r].status
      new == IF status = None THEN old ELSE status
  IN /\ Room /\ OrderFound(r) /\ OrderEditable(r, status)
     /\ SetStatusTo(r, new)
     /\ \/ Told(Job(r, old, new, "updated", OrderNews(new),
                    IF new # old THEN OrderText(r, new) ELSE None, "event"))
        \/ Half(r)
     /\ Changed(r)
     /\ UNCHANGED <<Tables, torn>>

(* Mutant: the event has the status that was read before. *)
StalePutStatus(r, status) ==
  LET old == rows[r].status IN
  /\ Room /\ OrderFound(r)
  /\ SetStatusTo(r, status)
  /\ Told(Job(r, old, old, "status_changed", OrderNews(status), OrderText(r, status), "event"))
  /\ Changed(r)
  /\ UNCHANGED <<Tables, torn>>

(* update_order_status: any status after any, and always a text. *)
PutStatus(r, status) ==
  LET old == rows[r].status IN
  /\ Room /\ OrderFound(r)
  /\ SetStatusTo(r, status)
  /\ Told(Job(r, old, status, "status_changed", OrderNews(status), OrderText(r, status), "event"))
  /\ Changed(r)
  /\ UNCHANGED <<Tables, torn>>

OrderCancellable(r) == rows[r].status \notin {"cancelled", "completed"}

CancelOrder(r) ==
  LET old == rows[r].status IN
  /\ Room /\ OrderFound(r) /\ OrderCancellable(r)
  /\ SetStatusTo(r, "cancelled")
  /\ Told(Job(r, old, "cancelled", "cancelled", "order_cancelled", OrderText(r, "cancelled"),
              "event"))
  /\ Changed(r)
  /\ UNCHANGED <<Tables, torn>>

(***************************************************************************)
(* Reservations: how their seats are checked is in Reservations.           *)
(***************************************************************************)
CreateReservationDirect ==
  LET r == Len(rows) + 1 IN
  /\ Room /\ NewRow("reservation", "confirmed", TRUE)
  /\ Told(Job(r, None, "confirmed", "created", "new_reservation", "confirmed", "event"))
  /\ UNCHANGED <<Tables, raced, torn>>

(* Any status after any; the row is read again before anybody is told. *)
UpdateReservation(r, status) ==
  LET old == rows[r].status
      new == IF status = None THEN old ELSE status
  IN /\ Room /\ ReservationFound(r)
     /\ SetStatusTo(r, new)
     /\ \/ Told(Job(r, old, new, "updated", ReservationNews(new),
                    IF new # old THEN ReservationText(r, new) ELSE None, "event"))
        \/ Half(r)
     /\ Changed(r)
     /\ UNCHANGED <<Tables, torn>>

ReservationCancellable(r) == rows[r].status \in {"pending", "confirmed"}

(* The slot is released by a second statement. *)
CancelReservation(r) ==
  LET old == rows[r].status IN
  /\ Room /\ ReservationFound(r) /\ ReservationCancellable(r)
  /\ SetStatusTo(r, "cancelled")
  /\ \/ Told(Job(r, old, "cancelled", "cancelled", "reservation_cancelled",
                 ReservationText(r, "cancelled"), "event"))
     \/ Half(r)
  /\ Changed(r)
  /\ UNCHANGED <<Tables, torn>>

Finalizable(r) == rows[r].status = "pending"

(* Writes no history and sends no event. *)
FinalizeReservation(r) ==
  /\ Room /\ ReservationFound(r) /\ Finalizable(r)
  /\ SetStatusTo(r, "confirmed")
  /\ \/ /\ StartJob(Job(r, "pending", "confirmed", "none", "none",
                        ReservationText(r, "confirmed"),
                        IF rows[r].phone THEN "text" ELSE "done"))
        /\ UNCHANGED <<history, stumbles, troubled>>
     \/ Half(r)
  /\ Changed(r)
  /\ UNCHANGED <<Tables, torn>>

(* soft_delete_order, restore_order: nobody is told. *)
SoftDelete(r) ==
  /\ OrderFound(r)
  /\ rows' = [rows EXCEPT ![r].deleted = TRUE]
  /\ UNCHANGED <<Tables, history, jobs, stumbles, troubled, raced, torn>>

Restore(r) ==
  /\ rows[r].deleted
  /\ rows' = [rows EXCEPT ![r].deleted = FALSE]
  /\ UNCHANGED <<Tables, history, jobs, stumbles, troubled, raced, torn>>

(***************************************************************************)
(* The voice agent: the row in one thread, the history in another, then    *)
(* tasks for the event and for the text.                                   *)
(***************************************************************************)
VoiceCreate(kind) ==
  /\ Room /\ NewRow(kind, "pending", TRUE)
  /\ StartJob(Job(Len(rows) + 1, None, "pending", "created", News(kind), "pending", "history"))
  /\ UNCHANGED <<Tables, history, stumbles, troubled, raced, torn>>

(* The status is read, and written later if the caller asks for another. *)
VoiceEdit(r, status) ==
  /\ Room
  /\ StartJob(Job(r, rows[r].status, status, "updated", "none", None, "write"))
  /\ Changed(r)
  /\ UNCHANGED <<Tables, rows, history, stumbles, troubled, torn>>

VoiceWrite(j) ==
  LET job == jobs[j]  r == job.row IN
  /\ job.pc = "write"
  /\ rows' = IF job.new = None \/ rows[r].deleted THEN rows
             ELSE [rows EXCEPT ![r].status = job.new]
  /\ jobs' = [jobs EXCEPT ![j].pc = "reread"]
  /\ UNCHANGED <<Tables, history, stumbles, troubled, raced, torn>>

VoiceReread(j) ==
  LET job == jobs[j]  now == rows[job.row].status IN
  /\ job.pc = "reread"
  /\ jobs' = [jobs EXCEPT ![j].new = now, ![j].pc = "history",
                          ![j].subtype = IF rows[job.row].kind = "order" THEN "order_updated"
                                         ELSE ReservationNews(now)]
  /\ UNCHANGED <<Tables, rows, history, stumbles, troubled, raced, torn>>

(* The text of a new row is a task of its own; it says "pending", whatever *)
(* the row has become when it is sent.                                     *)
VoiceText(job) == [job EXCEPT !.pc = "text", !.action = "text", !.subtype = "none"]

VoiceHistory(j) ==
  LET job == jobs[j] IN
  /\ job.pc = "history"
  /\ Logged(Entry(job))
  /\ jobs' = LET told == [jobs EXCEPT ![j].pc = "event", ![j].text = None] IN
             IF job.text = None THEN told
             ELSE Append(told, VoiceText(job))
  /\ UNCHANGED <<Tables, rows, raced, torn>>

(***************************************************************************)
(* The tasks.  The event is sent, and its notification stored; whatever    *)
(* fails is logged, and the next task runs.                                *)
(***************************************************************************)
EmitEvent(j) ==
  LET job == jobs[j] IN
  /\ job.pc = "event"
  /\ feed' = Append(feed, [row |-> job.row, subtype |-> job.subtype, status |-> job.new])
  /\ jobs' = [jobs EXCEPT ![j].pc = "note"]
  /\ UNCHANGED <<rows, history, inbox, texts, accepted, reachable, stumbles, troubled, raced, torn>>

CreateNotification(j) ==
  LET job == jobs[j] IN
  /\ job.pc = "note"
  /\ jobs' = [jobs EXCEPT ![j].pc = AfterNote(job)]
  /\ \/ inbox' = inbox \cup {j} /\ UNCHANGED <<stumbles, troubled>>
     \/ Stumble /\ troubled' = troubled \cup {job.row} /\ UNCHANGED inbox
  /\ UNCHANGED <<rows, history, feed, texts, accepted, reachable, raced, torn>>

Goto(j, pc) == jobs' = [jobs EXCEPT ![j].pc = pc]

Fails(j, pc) ==
  /\ Stumble /\ troubled' = troubled \cup {jobs[j].row}
  /\ Goto(j, pc)

(* create_log; without the log nothing is sent. *)
CreateLog(j) ==
  /\ jobs[j].pc = "text"
  /\ \/ /\ reachable
        /\ texts' = Append(texts, [job |-> j, st |-> "pending", retries |-> 0])
        /\ jobs' = [jobs EXCEPT ![j].pc = "send", ![j].log = Len(texts) + 1]
        /\ UNCHANGED <<stumbles, troubled>>
     \/ ~reachable /\ Goto(j, "done") /\ UNCHANGED <<texts, stumbles, troubled>>
     \/ reachable /\ Fails(j, "done") /\ UNCHANGED texts
  /\ UNCHANGED <<rows, history, feed, inbox, accepted, reachable, raced, torn>>

(* Mutant: the log is given its status before the answer is there. *)
HastySendText(j) ==
  /\ jobs[j].pc = "send"
  /\ texts' = [texts EXCEPT ![jobs[j].log].st = "sent"]
  /\ \/ accepted' = Append(accepted, jobs[j].log) /\ Goto(j, "done")
     \/ UNCHANGED accepted /\ Goto(j, "refused")
  /\ UNCHANGED <<rows, history, feed, inbox, reachable, stumbles, troubled, raced, torn>>

(* external: Twilio takes the message or refuses it, for good. *)
SendText(j) ==
  /\ jobs[j].pc = "send"
  /\ \/ accepted' = Append(accepted, jobs[j].log) /\ Goto(j, "sent")
     \/ UNCHANGED accepted /\ Goto(j, "refused")
  /\ UNCHANGED <<rows, history, feed, inbox, texts, reachable, stumbles, troubled, raced, torn>>

Mark(j, st) == texts' = [texts EXCEPT ![jobs[j].log].st = st]

(* Mutant: a message that was refused is sent again. *)
StubbornUpdateLog(j) ==
  /\ \/ /\ jobs[j].pc = "sent"
        /\ Mark(j, "sent") /\ Goto(j, "done") /\ UNCHANGED <<stumbles, troubled>>
     \/ /\ jobs[j].pc = "refused"
        /\ Mark(j, "failed") /\ Goto(j, "send") /\ UNCHANGED <<stumbles, troubled>>
  /\ UNCHANGED <<rows, history, feed, inbox, accepted, reachable, raced, torn>>

(* update_status; when it fails, the log is marked failed all the same. *)
UpdateLog(j) ==
  /\ \/ /\ jobs[j].pc = "sent"
        /\ \/ Mark(j, "sent") /\ Goto(j, "done") /\ UNCHANGED <<stumbles, troubled>>
           \/ Fails(j, "give_up") /\ UNCHANGED texts
     \/ /\ jobs[j].pc = "refused"
        /\ \/ Mark(j, "failed") /\ Goto(j, "count") /\ UNCHANGED <<stumbles, troubled>>
           \/ Fails(j, "give_up") /\ UNCHANGED texts
  /\ UNCHANGED <<rows, history, feed, inbox, accepted, reachable, raced, torn>>

IncrementRetryCount(j) ==
  /\ jobs[j].pc = "count"
  /\ \/ /\ texts' = [texts EXCEPT ![jobs[j].log].retries = @ + 1]
        /\ Goto(j, "done") /\ UNCHANGED <<stumbles, troubled>>
     \/ Fails(j, "give_up") /\ UNCHANGED texts
  /\ UNCHANGED <<rows, history, feed, inbox, accepted, reachable, raced, torn>>

GiveUp(j) ==
  /\ jobs[j].pc = "give_up"
  /\ \/ Mark(j, "failed") /\ Goto(j, "done") /\ UNCHANGED <<stumbles, troubled>>
     \/ Fails(j, "done") /\ UNCHANGED texts
  /\ UNCHANGED <<rows, history, feed, inbox, accepted, reachable, raced, torn>>

(* The server stops: the tasks are gone, the tables stay. *)
Stop ==
  /\ Stumble
  /\ jobs' = [j \in DOMAIN jobs |-> IF Active(jobs[j]) THEN [jobs[j] EXCEPT !.pc = "lost"]
                                    ELSE jobs[j]]
  /\ troubled' = troubled \cup {r \in DOMAIN rows : ActiveOf(r) # {}}
  /\ UNCHANGED <<rows, history, feed, inbox, texts, accepted, reachable, raced, torn>>

(***************************************************************************)
(* The specification.                                                      *)
(***************************************************************************)
DeskInit ==
  /\ rows = << >> /\ history = << >> /\ jobs = << >> /\ feed = << >> /\ inbox = {}
  /\ texts = << >> /\ accepted = << >> /\ reachable \in BOOLEAN
  /\ stumbles = 0 /\ troubled = {} /\ raced = {} /\ torn = {}

JobStep(j) ==
  \/ VoiceWrite(j) \/ VoiceReread(j) \/ VoiceHistory(j)
  \/ EmitEvent(j) \/ CreateNotification(j)
  \/ CreateLog(j) \/ SendText(j) \/ UpdateLog(j) \/ IncrementRetryCount(j) \/ GiveUp(j)

DeskNext ==
  \/ \E kind \in {"order", "reservation"} : VoiceCreate(kind)
  \/ \E status \in WantedOf("order"), phone \in BOOLEAN : CreateOrder(status, phone)
  \/ CreateReservationDirect
  \/ \E r \in DOMAIN rows :
       \/ CancelOrder(r) \/ CancelReservation(r) \/ FinalizeReservation(r)
       \/ SoftDelete(r) \/ Restore(r)
       \/ \E status \in WantedOf(rows[r].kind) : PutStatus(r, status)
       \/ \E status \in WantedOf(rows[r].kind) \cup {None} :
            UpdateOrder(r, status) \/ UpdateReservation(r, status)
       \/ \E status \in {None, "cancelled"} : VoiceEdit(r, status)
  \/ \E j \in DOMAIN jobs : JobStep(j)
  \/ Stop

DeskSpec == DeskInit /\ [][DeskNext]_deskVars

(* The loop runs its tasks, and the pool its threads. *)
DeskFairness == \A j \in 1..2 * MaxRequests : WF_deskVars(j \in DOMAIN jobs /\ JobStep(j))

(***************************************************************************)
(* Properties.                                                             *)
(***************************************************************************)
DeskTypeOK ==
  /\ \A r \in DOMAIN rows : rows[r].status \in Statuses(rows[r].kind)
  /\ \A j \in DOMAIN jobs : jobs[j].row \in DOMAIN rows /\ jobs[j].log \in 0..Len(texts)
  /\ \A t \in DOMAIN texts : texts[t].st \in {"pending", "sent", "failed"}
  /\ raced \cup troubled \cup torn \subseteq DOMAIN rows

(* A row of Notification_Logs says what happened: a message that is called *)
(* sent was taken by Twilio, and one that is called failed, or pending     *)
(* after its task has ended, was not, unless a statement on the row failed *)
(* or the server stopped.  No message is taken twice, and a refusal is     *)
(* counted once.                                                           *)
LogTellsTruth ==
  /\ IsInjective(accepted)
  /\ \A t \in DOMAIN texts :
       LET job == jobs[texts[t].job]  taken == Contains(accepted, t) IN
       /\ texts[t].st = "sent" => taken
       /\ job.pc = "done" /\ job.row \notin troubled =>
            texts[t].st = (IF taken THEN "sent" ELSE "failed")
            /\ texts[t].retries = (IF taken THEN 0 ELSE 1)

(* The history of an order or a reservation is a chain: an entry starts at *)
(* the status where the one before ended, as long as nothing failed, no    *)
(* request overtook another's tasks, and for the confirmation that         *)
(* finalize_reservation does not log.  And an order whose creation failed  *)
(* at one of its items, while its row is in the table, is never said to be *)
(* created: not in the history, in no event, and in no text.               *)
EntriesOf(r) == {k \in DOMAIN history : history[k].row = r}

Follows(r, told, status) ==
  \/ status = told
  \/ rows[r].kind = "reservation" /\ told = "pending" /\ status = "confirmed"

HistoryChains ==
  /\ \A r \in DOMAIN rows \ (troubled \cup raced) : \A i, k \in EntriesOf(r) :
       i < k /\ (\A m \in EntriesOf(r) : m <= i \/ k <= m) => Follows(r, history[i].new, history[k].old)
  /\ \A r \in torn :
       /\ \A h \in Range(history) : h.row = r => h.action # "created"
       /\ \A f \in Range(feed) : f.row = r => f.subtype # "new_order"
       /\ \A j \in DOMAIN jobs : jobs[j].row = r => jobs[j].action # "created"

(* Whoever's changes did not overtake each other is told of them in order: *)
(* when all tasks have ended, the last event has the status of the row, but *)
(* for the confirmation that sends none, and so has the last text that was *)
(* taken, when the last change of the status sent one.                     *)
LastChange(r) == Max({j \in DOMAIN jobs : jobs[j].row = r /\ jobs[j].old # jobs[j].new})

ToldInOrder ==
  \A r \in DOMAIN rows \ (troubled \cup raced) :
    ActiveOf(r) = {} =>
      LET e == SelectLastInSeq(feed, LAMBDA f : f.row = r)
          t == SelectLastInSeq(accepted, LAMBDA a : jobs[texts[a].job].row = r)
          last == jobs[LastChange(r)]
      IN /\ e # 0
         /\ Follows(r, feed[e].status, rows[r].status)
         /\ last.log # 0 /\ Contains(accepted, last.log) =>
              jobs[texts[accepted[t]].job].text = rows[r].status

(* Every task ends, whatever fails on its way: when the requests cease,    *)
(* nothing is left running.                                                *)
JobsEnd == <>[](\A j \in DOMAIN jobs : ~Active(jobs[j]))
=============================================================================
