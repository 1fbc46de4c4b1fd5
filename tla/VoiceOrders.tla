----------------------------- MODULE VoiceOrders -----------------------------
(***************************************************************************)
(* The order functions of the voice agent: how a function call of the      *)
(* model becomes rows of the Orders table.                                 *)
(*                                                                         *)
(* Three kinds of actor interleave here.                                   *)
(*  - The event loop runs, for each call, the coroutine that awaits the    *)
(*    function handler under asyncio.wait_for and retries it on a timeout  *)
(*    (app/agent_fc/router.py).  A call has one function call in flight.   *)
(*  - The handlers create_order and update_order_details hand their SQL to *)
(*    asyncio.to_thread (app/agent_fc/functions/orders.py).  A cancelled   *)
(*    await does not stop the thread: its remaining statements still run.  *)
(*    Each statement commits by itself (app/repositories/mysql_base.py).   *)
(*  - The dashboard's handlers are coroutines that call the database       *)
(*    synchronously: the loop does nothing else until they return, the     *)
(*    threads go on (app/services/dashboard_order_service.py).             *)
(*                                                                         *)
(* A job <<c, n, a>> is the thread of attempt a of request n of call c.    *)
(* The content of an order (order_details, its total) is the request that  *)
(* wrote it last; the item rows are counted by the request they belong to. *)
(* The users table, prices, SMS texts and activity history rows are left   *)
(* out; the points where they are written stay as steps.                   *)
(***************************************************************************)
EXTENDS Integers, FiniteSets

CONSTANTS
  Calls,        \* calls the process serves, before and after a restart
  Callers,      \* phone numbers, one Users row each
  CallerOf,     \* the caller of a call
  MaxRequests,  \* bound: order function calls in one call
  MaxRetries,   \* Settings.max_retries
  MaxOrders,    \* bound: rows of Orders
  ItemRows,     \* item rows (with their option rows) of one request
  Workers,      \* threads of the loop's default executor
  MaxRest,      \* bound: dashboard operations
  Statuses,     \* order statuses besides the three the code names
  Asks,         \* what the agent may ask: create or update, with a status or none
  None          \* no order, no request

ASSUME CallsAssumption ==
  /\ CallerOf \in [Calls -> Callers]
  /\ MaxRequests \in Nat
  /\ MaxRetries \in Nat
  /\ MaxOrders \in Nat
  /\ ItemRows \in Nat \ {0}
  /\ Workers \in Nat \ {0}
  /\ MaxRest \in Nat
  /\ Asks \subseteq [kind : {"create", "update"},
                    status : Statuses \cup {"pending", "completed", "cancelled", "keep"}]
  /\ None \notin 1..MaxOrders
  /\ None \notin Calls \X (1..MaxRequests)
  /\ None \notin Callers /\ <<"dashboard", 0>> \notin Callers

Orders   == 1..MaxOrders
Attempts == 1..(MaxRetries + 1)
Requests == Calls \X (1..MaxRequests)
Jobs     == Calls \X (1..MaxRequests) \X Attempts

ReqOf(j) == <<j[1], j[2]>>

(* What order_details may hold: a request of the agent, or a dashboard edit. *)
Dash     == <<"dashboard", 0>>
Contents == Requests \cup {Dash}

AllStatuses == Statuses \cup {"pending", "completed", "cancelled"}
NoAsk       == [kind |-> "none", status |-> "keep"]

VARIABLES
  \* the coroutine of each call
  phase,      \* new, idle, prepare, upsert, log or closed
  req,        \* requests received so far
  attempt,    \* attempt of the current request
  active,     \* order_session_state["active_order_id"]
  ask,        \* the arguments of each request
  reply,      \* the response sent for each request
  \* the threads
  pc, target, mode, left,
  \* the database and what the dashboards were told
  orders, lastId, news,
  \* the handler of the dashboard that occupies the loop
  rest, restOps,
  \* history: what happened to a call, and to an order
  disturbed, torn

callVars == <<phase, req, attempt, active, ask, reply>>
jobVars  == <<pc, target, mode, left>>
dbVars   == <<orders, lastId, news>>
restVars == <<rest, restOps>>
ghosts   == <<disturbed, torn>>
vars     == <<callVars, jobVars, dbVars, restVars, ghosts>>

-----------------------------------------------------------------------------
(* Threads and rows. *)

Writing == {"delete", "insert"}         \* between the first and last row written
Running == {"start", "verify", "create", "update", "status"} \cup Writing
Pending == {"queued", "qlog"}           \* submitted, no worker yet
Busy    == Running \cup {"log"}
Ended   == {"none", "done", "failed", "logged", "over"}

Phases  == {"new", "idle", "prepare", "upsert", "log", "closed"}
Modes   == {"none", "created", "updated", "not_found", "expired"}
Replies == Modes \cup {"refused", "error"}

Exists(o)  == orders[o].by # None
Live(o)    == Exists(o) /\ ~orders[o].deleted
OwnedBy(o) == CallerOf[orders[o].by[1]]

NoRows     == [v \in Contents |-> 0]
RowsOf(v, k) == [w \in Contents |-> IF w = v THEN k ELSE 0]
NoOrder    == [by |-> None, content |-> None, status |-> "pending",
               items |-> NoRows, deleted |-> FALSE, aged |-> FALSE]

Writers(o)  == {j \in Jobs : pc[j] \in Writing /\ target[j] = o}
RestWrites(o) == rest.pc \in Writing /\ rest.order = o
Contended(o)  == Writers(o) # {} \/ RestWrites(o)

Idle     == [pc |-> "idle", order |-> None, status |-> "keep", left |-> 0]
LoopFree == rest.pc = "idle"

Current(c) == <<c, req[c], attempt[c]>>

-----------------------------------------------------------------------------
Init ==
  /\ phase     = [c \in Calls |-> "new"]
  /\ req       = [c \in Calls |-> 0]
  /\ attempt   = [c \in Calls |-> 1]
  /\ active    = [c \in Calls |-> None]
  /\ ask       = [r \in Requests |-> NoAsk]
  /\ reply     = [r \in Requests |-> "none"]
  /\ pc        = [j \in Jobs |-> "none"]
  /\ target    = [j \in Jobs |-> None]
  /\ mode      = [j \in Jobs |-> "none"]
  /\ left      = [j \in Jobs |-> 0]
  /\ orders    = [o \in Orders |-> NoOrder]
  /\ lastId    = 0
  /\ news      = [o \in Orders |-> 0]
  /\ rest      = Idle
  /\ restOps   = 0
  /\ disturbed = [c \in Calls |-> FALSE]
  /\ torn      = [o \in Orders |-> FALSE]

-----------------------------------------------------------------------------
(* The coroutine of a call.  None of its steps runs while the loop is busy  *)
(* with a handler of the dashboard.                                         *)

(* A websocket session begins with an empty order_session_state. *)
StartCall(c) ==
  /\ LoopFree
  /\ phase[c] = "new"
  /\ phase' = [phase EXCEPT ![c] = "idle"]
  /\ active' = [active EXCEPT ![c] = None]
  /\ UNCHANGED <<req, attempt, ask, reply, jobVars, dbVars, restVars, ghosts>>

(* Mutant: frames are handled in tasks of their own, not one after another. *)
EagerRequest(c, a) ==
  /\ LoopFree
  /\ phase[c] \in {"idle", "upsert"}
  /\ req[c] < MaxRequests
  /\ req' = [req EXCEPT ![c] = @ + 1]
  /\ attempt' = [attempt EXCEPT ![c] = 1]
  /\ ask' = [ask EXCEPT ![<<c, req[c] + 1>>] = a]
  /\ phase' = [phase EXCEPT ![c] = "prepare"]
  /\ UNCHANGED <<active, reply, jobVars, dbVars, restVars, ghosts>>

(* handle_frame for a function call of the model.  The receiver awaits it,  *)
(* so the next frame is read only after this one was answered.              *)
Request(c, a) ==
  /\ LoopFree
  /\ phase[c] = "idle"
  /\ req[c] < MaxRequests
  /\ req' = [req EXCEPT ![c] = @ + 1]
  /\ attempt' = [attempt EXCEPT ![c] = 1]
  /\ ask' = [ask EXCEPT ![<<c, req[c] + 1>>] = a]
  /\ phase' = [phase EXCEPT ![c] = "prepare"]
  /\ UNCHANGED <<active, reply, jobVars, dbVars, restVars, ghosts>>

Answer(c, r) ==
  /\ phase' = [phase EXCEPT ![c] = "idle"]
  /\ reply' = [reply EXCEPT ![<<c, req[c]>>] = r]

(* An early return: the restaurant is unknown or closed, an item is         *)
(* invalid, an argument is missing, or a read raised.                       *)
Refuse(c) ==
  /\ LoopFree
  /\ phase[c] = "prepare"
  /\ Answer(c, "refused")
  /\ UNCHANGED <<req, attempt, active, ask, jobVars, dbVars, restVars, ghosts>>

(* asyncio.to_thread(_upsert) or (_update).  The update's _update closes    *)
(* over the id read from the session when the handler began.                *)
Submit(c) ==
  /\ LoopFree
  /\ phase[c] = "prepare"
  /\ phase' = [phase EXCEPT ![c] = "upsert"]
  /\ pc' = [pc EXCEPT ![Current(c)] = "queued"]
  /\ target' = [target EXCEPT ![Current(c)] =
                  IF ask[<<c, req[c]>>].kind = "update" THEN active[c] ELSE None]
  /\ UNCHANGED <<req, attempt, active, ask, reply, mode, left,
                 dbVars, restVars, ghosts>>

(* The await returns a result that names an order: the session remembers    *)
(* it, then the activity log is written by another thread.                  *)
ResumeWritten(c) ==
  LET j == Current(c) IN
  /\ LoopFree
  /\ phase[c] = "upsert"
  /\ pc[j] = "done"
  /\ mode[j] \in {"created", "updated"}
  /\ active' = [active EXCEPT ![c] = target[j]]
  /\ phase' = [phase EXCEPT ![c] = "log"]
  /\ pc' = [pc EXCEPT ![j] = "qlog"]
  /\ UNCHANGED <<req, attempt, ask, reply, target, mode, left,
                 dbVars, restVars, ghosts>>

(* NOT_FOUND and UPDATE_WINDOW_EXPIRED return at once. *)
ResumeUnwritten(c) ==
  LET j == Current(c) IN
  /\ LoopFree
  /\ phase[c] = "upsert"
  /\ pc[j] = "done"
  /\ mode[j] \in {"not_found", "expired"}
  /\ pc' = [pc EXCEPT ![j] = "over"]
  /\ Answer(c, mode[j])
  /\ UNCHANGED <<req, attempt, active, ask, target, mode, left,
                 dbVars, restVars, ghosts>>

(* A statement raised: the router answers with an error and does not retry. *)
ResumeFailed(c) ==
  LET j == Current(c) IN
  /\ LoopFree
  /\ phase[c] = "upsert"
  /\ pc[j] = "failed"
  /\ pc' = [pc EXCEPT ![j] = "over"]
  /\ Answer(c, "error")
  /\ UNCHANGED <<req, attempt, active, ask, target, mode, left,
                 dbVars, restVars, ghosts>>

(* Mutant: new_order is sent for an update in place as well. *)
AnnouncingFinish(c) ==
  LET j == Current(c) IN
  /\ LoopFree
  /\ phase[c] = "log"
  /\ pc[j] = "logged"
  /\ pc' = [pc EXCEPT ![j] = "over"]
  /\ news' = [news EXCEPT ![target[j]] = @ + 1]
  /\ Answer(c, mode[j])
  /\ UNCHANGED <<req, attempt, active, ask, target, mode, left,
                 orders, lastId, restVars, ghosts>>

(* After the log: create_task of the dashboard event and of the SMS, then   *)
(* the response.  Only a handler that created the row announces a new order.*)
Finish(c) ==
  LET j == Current(c) IN
  /\ LoopFree
  /\ phase[c] = "log"
  /\ pc[j] = "logged"
  /\ pc' = [pc EXCEPT ![j] = "over"]
  /\ news' = IF mode[j] = "created" THEN [news EXCEPT ![target[j]] = @ + 1]
                                    ELSE news
  /\ Answer(c, mode[j])
  /\ UNCHANGED <<req, attempt, active, ask, target, mode, left,
                 orders, lastId, restVars, ghosts>>

(* The call awaits a thread that has begun, or whose result it has not seen. *)
MidWork(c) == phase[c] = "upsert" /\ pc[Current(c)] # "queued"

(* Mutant: a cancelled await leaves its job in the executor's queue. *)
ForgetfulAbandon(c) ==
  /\ UNCHANGED pc
  /\ disturbed' = [disturbed EXCEPT ![c] = @ \/ MidWork(c)]

(* What becomes of the thread when its await is cancelled: a job no worker  *)
(* has taken is withdrawn, one that runs keeps running.                     *)
Abandon(c) ==
  /\ pc' = IF phase[c] \in {"upsert", "log"} /\ pc[Current(c)] \in Pending
              THEN [pc EXCEPT ![Current(c)] = "over"] ELSE pc
  /\ disturbed' = [disturbed EXCEPT ![c] = @ \/ MidWork(c)]

(* Mutant: a timeout is retried for ever. *)
EndlessTimeout(c) ==
  /\ LoopFree
  /\ phase[c] \in {"prepare", "upsert", "log"}
  /\ Abandon(c)
  /\ phase' = [phase EXCEPT ![c] = "prepare"]
  /\ UNCHANGED <<req, attempt, reply, active, ask, target, mode, left,
                 dbVars, restVars, torn>>

(* wait_for expires.  The result of a thread that ended meanwhile is lost.  *)
Timeout(c) ==
  /\ LoopFree
  /\ phase[c] \in {"prepare", "upsert", "log"}
  /\ Abandon(c)
  /\ IF attempt[c] <= MaxRetries
       THEN /\ attempt' = [attempt EXCEPT ![c] = @ + 1]
            /\ phase' = [phase EXCEPT ![c] = "prepare"]
            /\ UNCHANGED reply
       ELSE /\ Answer(c, "error")
            /\ UNCHANGED attempt
  /\ UNCHANGED <<req, active, ask, target, mode, left, dbVars, restVars, torn>>

(* The call ends: the receiver task is cancelled, an answer is not sent.    *)
EndCall(c) ==
  /\ LoopFree
  /\ phase[c] \notin {"new", "closed"}
  /\ Abandon(c)
  /\ phase' = [phase EXCEPT ![c] = "closed"]
  /\ UNCHANGED <<req, attempt, active, ask, reply, target, mode, left,
                 dbVars, restVars, torn>>

-----------------------------------------------------------------------------
(* The threads, one SQL statement a step. *)

JobStep(j, from, to) ==
  /\ pc[j] = from
  /\ pc' = [pc EXCEPT ![j] = to]

(* A worker of the executor takes the job. *)
StartJob(j) ==
  /\ Cardinality({k \in Jobs : pc[k] \in Busy}) < Workers
  /\ \/ JobStep(j, "queued", "start")
     \/ JobStep(j, "qlog", "log")
  /\ UNCHANGED <<callVars, target, mode, left, dbVars, restVars, ghosts>>

(* Mutant: create_order without its guardrail. *)
UnguardedReadSession(j) ==
  /\ ask[ReqOf(j)].kind = "create"
  /\ JobStep(j, "start", "create")
  /\ UNCHANGED <<callVars, target, mode, left, dbVars, restVars, ghosts>>

(* _upsert: the user row and the mapping, then the guardrail reads the      *)
(* session's order.                                                         *)
ReadSession(j) ==
  /\ ask[ReqOf(j)].kind = "create"
  /\ JobStep(j, "start", IF active[j[1]] = None THEN "create" ELSE "verify")
  /\ target' = [target EXCEPT ![j] = active[j[1]]]
  /\ UNCHANGED <<callVars, mode, left, dbVars, restVars, ghosts>>

(* Mutant: the user is not part of the query. *)
AnyCaller(j, o) == o # None /\ Live(o)

(* get_order_by_id_with_verification: live, and of this caller. *)
Verified(j, o) == o # None /\ Live(o) /\ OwnedBy(o) = CallerOf[j[1]]

Verify(j) ==
  /\ JobStep(j, "verify", IF Verified(j, target[j]) THEN "update" ELSE "create")
  /\ UNCHANGED <<callVars, target, mode, left, dbVars, restVars, ghosts>>

(* get_latest_order_by_user.  created_at has a resolution of one second;    *)
(* between two rows of one second the model takes the later id.             *)
Latest(j, o) ==
  /\ o # None => Verified(j, o)
  /\ \A p \in Orders : Verified(j, p) => o # None /\ p <= o

(* _update: the session's order, else the caller's latest one, if the       *)
(* update window has not passed.                                            *)
Lookup(j) == \E o \in Orders \cup {None} :
  /\ ask[ReqOf(j)].kind = "update"
  /\ IF Verified(j, target[j]) THEN o = target[j] ELSE Latest(j, o)
  /\ \/ /\ o = None
        /\ JobStep(j, "start", "done")
        /\ mode' = [mode EXCEPT ![j] = "not_found"]
     \/ /\ o # None
        /\ orders[o].aged
        /\ JobStep(j, "start", "done")
        /\ mode' = [mode EXCEPT ![j] = "expired"]
     \/ /\ o # None
        /\ ~orders[o].aged
        /\ JobStep(j, "start", "update")
        /\ UNCHANGED mode
  /\ target' = [target EXCEPT ![j] = o]
  /\ UNCHANGED <<callVars, left, dbVars, restVars, ghosts>>

(* INSERT INTO Orders. *)
InsertOrder(j) ==
  /\ lastId < MaxOrders
  /\ JobStep(j, "create", "insert")
  /\ lastId' = lastId + 1
  /\ orders' = [orders EXCEPT ![lastId + 1] =
                  [NoOrder EXCEPT !.by = ReqOf(j), !.content = ReqOf(j)]]
  /\ target' = [target EXCEPT ![j] = lastId + 1]
  /\ mode' = [mode EXCEPT ![j] = "created"]
  /\ left' = [left EXCEPT ![j] = ItemRows]
  /\ UNCHANGED <<callVars, news, restVars, ghosts>>

(* UPDATE Orders SET order_details, total_amount: the order is torn from    *)
(* here on exactly when somebody else is in the middle of rewriting it.     *)
UpdateOrder(j) ==
  /\ JobStep(j, "update", "delete")
  /\ orders' = [orders EXCEPT ![target[j]].content = ReqOf(j)]
  /\ mode' = [mode EXCEPT ![j] = "updated"]
  /\ torn' = [torn EXCEPT ![target[j]] = Contended(target[j])]
  /\ UNCHANGED <<callVars, target, left, lastId, news, restVars, disturbed>>

(* Mutant: the old item rows stay. *)
KeepItems(j) ==
  /\ JobStep(j, "delete", "insert")
  /\ left' = [left EXCEPT ![j] = ItemRows]
  /\ UNCHANGED <<callVars, target, mode, dbVars, restVars, ghosts>>

DeleteItems(j) ==
  /\ JobStep(j, "delete", "insert")
  /\ orders' = [orders EXCEPT ![target[j]].items = NoRows]
  /\ left' = [left EXCEPT ![j] = ItemRows]
  /\ UNCHANGED <<callVars, target, mode, lastId, news, restVars, ghosts>>

(* After the last item row an update sets the status it was given; a        *)
(* create that updated in place does not.                                   *)
AfterItems(j) ==
  IF ask[ReqOf(j)].kind = "update" /\ ask[ReqOf(j)].status # "keep"
    THEN "status" ELSE "done"

InsertItem(j) ==
  /\ JobStep(j, "insert", IF left[j] = 1 THEN AfterItems(j) ELSE "insert")
  /\ orders' = [orders EXCEPT ![target[j]].items[ReqOf(j)] = @ + 1]
  /\ left' = [left EXCEPT ![j] = @ - 1]
  /\ UNCHANGED <<callVars, target, mode, lastId, news, restVars, ghosts>>

(* update_order_status: any status, whatever the order's status is. *)
SetStatus(j) ==
  /\ JobStep(j, "status", "done")
  /\ orders' = IF orders[target[j]].deleted THEN orders
               ELSE [orders EXCEPT ![target[j]].status = ask[ReqOf(j)].status]
  /\ UNCHANGED <<callVars, target, mode, left, lastId, news, restVars, ghosts>>

(* A statement raises: no connection in the pool, a lost connection, a      *)
(* lock wait.  What was written stays written.                              *)
FailJob(j) ==
  /\ pc[j] \in Running
  /\ pc' = [pc EXCEPT ![j] = "failed"]
  /\ torn' = IF pc[j] \in Writing THEN [torn EXCEPT ![target[j]] = TRUE] ELSE torn
  /\ disturbed' = [disturbed EXCEPT ![j[1]] = TRUE]
  /\ UNCHANGED <<callVars, target, mode, left, dbVars, restVars>>

(* The activity row, or its exception swallowed. *)
WriteLog(j) ==
  /\ JobStep(j, "log", "logged")
  /\ UNCHANGED <<callVars, target, mode, left, dbVars, restVars, ghosts>>

-----------------------------------------------------------------------------
(* The dashboard.  A handler that reads before it writes holds the loop in  *)
(* between; the status endpoint, the soft delete and the restore are one    *)
(* guarded UPDATE each.                                                     *)

RestBegins == LoopFree /\ restOps < MaxRest /\ restOps' = restOps + 1

PutStatus(o, s) ==
  /\ RestBegins
  /\ Live(o)
  /\ orders' = [orders EXCEPT ![o].status = s]
  /\ UNCHANGED <<callVars, jobVars, lastId, news, rest, ghosts>>

(* Mutant: a deletion cancels the order, and a restore does not undo that. *)
CancellingSoftDelete(o) ==
  /\ RestBegins
  /\ Live(o)
  /\ orders' = [orders EXCEPT ![o].deleted = TRUE, ![o].status = "cancelled"]
  /\ disturbed' = [disturbed EXCEPT ![orders[o].by[1]] = TRUE]
  /\ UNCHANGED <<callVars, jobVars, lastId, news, rest, torn>>

SoftDelete(o) ==
  /\ RestBegins
  /\ Live(o)
  /\ orders' = [orders EXCEPT ![o].deleted = TRUE]
  /\ disturbed' = [disturbed EXCEPT ![orders[o].by[1]] = TRUE]
  /\ UNCHANGED <<callVars, jobVars, lastId, news, rest, torn>>

(* There are no more restores than deletions: they need no bound. *)
Restore(o) ==
  /\ LoopFree
  /\ Exists(o) /\ orders[o].deleted
  /\ orders' = [orders EXCEPT ![o].deleted = FALSE]
  /\ UNCHANGED <<callVars, jobVars, lastId, news, restVars, ghosts>>

(* cancel_order and update_order: the checks on the row that was read. *)
OpenCancel(o) ==
  /\ RestBegins
  /\ Live(o)
  /\ orders[o].status \notin {"cancelled", "completed"}
  /\ rest' = [Idle EXCEPT !.pc = "cancel", !.order = o]
  /\ UNCHANGED <<callVars, jobVars, dbVars, ghosts>>

OpenEdit(o, s) ==
  /\ RestBegins
  /\ Live(o)
  /\ orders[o].status = "cancelled" => s = "pending"
  /\ rest' = [Idle EXCEPT !.pc = "update", !.order = o, !.status = s]
  /\ UNCHANGED <<callVars, jobVars, dbVars, ghosts>>

RestCancel ==
  /\ rest.pc = "cancel"
  /\ orders' = [orders EXCEPT ![rest.order].status = "cancelled"]
  /\ rest' = Idle
  /\ UNCHANGED <<callVars, jobVars, lastId, news, restOps, ghosts>>

RestUpdate ==
  LET o == orders[rest.order] IN
  /\ rest.pc = "update"
  /\ orders' = [orders EXCEPT ![rest.order] =
                  [o EXCEPT !.content = Dash,
                            !.status = IF rest.status = "keep" THEN o.status
                                                               ELSE rest.status]]
  /\ rest' = [rest EXCEPT !.pc = "delete"]
  /\ torn' = [torn EXCEPT ![rest.order] = Writers(rest.order) # {}]
  /\ UNCHANGED <<callVars, jobVars, lastId, news, restOps, disturbed>>

RestDelete ==
  /\ rest.pc = "delete"
  /\ orders' = [orders EXCEPT ![rest.order].items = NoRows]
  /\ rest' = [rest EXCEPT !.pc = "insert", !.left = ItemRows]
  /\ UNCHANGED <<callVars, jobVars, lastId, news, restOps, ghosts>>

RestInsert ==
  /\ rest.pc = "insert"
  /\ orders' = [orders EXCEPT ![rest.order].items[Dash] = @ + 1]
  /\ rest' = IF rest.left = 1 THEN Idle ELSE [rest EXCEPT !.left = @ - 1]
  /\ UNCHANGED <<callVars, jobVars, lastId, news, restOps, ghosts>>

(* A statement of the dashboard's handler raises: the handler answers 500.  *)
RestFail ==
  /\ ~LoopFree
  /\ rest' = Idle
  /\ torn' = IF rest.pc \in Writing THEN [torn EXCEPT ![rest.order] = TRUE] ELSE torn
  /\ UNCHANGED <<callVars, jobVars, dbVars, restOps, disturbed>>

-----------------------------------------------------------------------------
(* The world. *)

(* AGENT_UPDATE_WINDOW_SECONDS pass since created_at. *)
Age(o) ==
  /\ Exists(o) /\ ~orders[o].aged
  /\ orders' = [orders EXCEPT ![o].aged = TRUE]
  /\ UNCHANGED <<callVars, jobVars, lastId, news, restVars, ghosts>>

(* The process is killed: threads stop between two statements, sessions are *)
(* gone.  A call that has not begun finds the process restarted.            *)
Crash ==
  /\ \/ \E c \in Calls : phase[c] \notin {"new", "closed"}
     \/ \E j \in Jobs : pc[j] \in Busy \cup Pending
     \/ ~LoopFree
  /\ phase' = [c \in Calls |-> IF phase[c] = "new" THEN "new" ELSE "closed"]
  /\ pc' = [j \in Jobs |-> IF pc[j] \in Busy \cup Pending THEN "over" ELSE pc[j]]
  /\ rest' = Idle
  /\ torn' = [o \in Orders |-> torn[o] \/ Contended(o)]
  /\ disturbed' = [c \in Calls |-> disturbed[c] \/ MidWork(c)]
  /\ UNCHANGED <<req, attempt, active, ask, reply, target, mode, left,
                 dbVars, restOps>>

-----------------------------------------------------------------------------
Loop(c) ==
  \/ StartCall(c) \/ Refuse(c) \/ Submit(c)
  \/ ResumeWritten(c) \/ ResumeUnwritten(c) \/ ResumeFailed(c) \/ Finish(c)

Thread(j) ==
  \/ StartJob(j) \/ ReadSession(j) \/ Verify(j) \/ Lookup(j) \/ InsertOrder(j)
  \/ UpdateOrder(j) \/ DeleteItems(j) \/ InsertItem(j) \/ SetStatus(j)
  \/ WriteLog(j)

Rest == RestCancel \/ RestUpdate \/ RestDelete \/ RestInsert

Next ==
  \/ \E c \in Calls : Loop(c) \/ Timeout(c) \/ EndCall(c)
  \/ \E c \in Calls, a \in Asks : Request(c, a)
  \/ \E j \in Jobs : Thread(j) \/ FailJob(j)
  \/ \E o \in Orders : \/ SoftDelete(o) \/ Restore(o)
                       \/ OpenCancel(o) \/ Age(o)
  \/ \E o \in Orders, s \in AllStatuses : PutStatus(o, s)
  \/ \E o \in Orders, s \in AllStatuses \cup {"keep"} : OpenEdit(o, s)
  \/ Rest \/ RestFail \/ Crash

Spec == Init /\ [][Next]_vars

(* The loop resumes what it can, timers fire, a database statement ends     *)
(* and so does a handler of the dashboard.                                  *)
Fairness ==
  /\ \A c \in Calls : WF_vars(Timeout(c))
  /\ \A j \in Jobs : WF_vars(Thread(j))
  /\ WF_vars(Rest)

FairSpec == Spec /\ Fairness
-----------------------------------------------------------------------------
(* Properties. *)

TypeCalls ==
  /\ phase \in [Calls -> Phases]
  /\ req \in [Calls -> 0..MaxRequests]
  /\ attempt \in [Calls -> Attempts]
  /\ active \in [Calls -> Orders \cup {None}]
  /\ ask \in [Requests -> Asks \cup {NoAsk}]
  /\ reply \in [Requests -> Replies]

TypeJobs ==
  /\ pc \in [Jobs -> Ended \cup Pending \cup Busy]
  /\ target \in [Jobs -> Orders \cup {None}]
  /\ mode \in [Jobs -> Modes]
  /\ left \in [Jobs -> 0..ItemRows]

Rows == [by : Requests \cup {None}, content : Contents \cup {None},
         status : AllStatuses, items : [Contents -> Nat],
         deleted : BOOLEAN, aged : BOOLEAN]

TypeDb ==
  /\ orders \in [Orders -> Rows]
  /\ lastId \in 0..MaxOrders
  /\ news \in [Orders -> Nat]

TypeRest ==
  /\ rest \in [pc : {"idle", "cancel", "update"} \cup Writing,
               order : Orders \cup {None},
               status : AllStatuses \cup {"keep"}, left : 0..ItemRows]
  /\ restOps \in 0..MaxRest

TypeGhosts ==
  /\ disturbed \in [Calls -> BOOLEAN]
  /\ torn \in [Orders -> BOOLEAN]

(* Every variable keeps its type: phases, program counters and row records  *)
(* are the ones the code can produce.                                       *)
TypeOK == TypeCalls /\ TypeJobs /\ TypeDb /\ TypeRest /\ TypeGhosts

OrdersOf(c) == {o \in Orders : Exists(o) /\ orders[o].by[1] = c}

(* The guardrail of create_order: a call makes one order and then updates   *)
(* it, as long as none of its attempts was abandoned in mid-write, none     *)
(* failed, and the staff did not delete the order under it.                 *)
SingleOrder == \A c \in Calls : \A o, p \in OrdersOf(c) : disturbed[c] \/ o = p

(* The item rows an operator sees are exactly those of the content the      *)
(* order shows, whenever nobody is rewriting it and the last rewrite was    *)
(* neither raced nor cut short.  A later rewrite that runs alone repairs    *)
(* an order that was torn.                                                  *)
WholeOrders ==
  \A o \in Orders :
    Exists(o) /\ ~torn[o] /\ ~Contended(o)
      => orders[o].items = RowsOf(orders[o].content, ItemRows)

(* One call alone never tears an order: it takes an attempt that was        *)
(* abandoned, failed or killed in mid-work, a second call of the same       *)
(* caller, or an operation of the dashboard.                                *)
SerialCallsDoNotTear ==
  \A o \in Orders :
    torn[o] => LET its == {c \in Calls : CallerOf[c] = OwnedBy(o) /\ req[c] > 0}
               IN \/ \E c \in its : disturbed[c]
                  \/ \E c, d \in its : c # d
                  \/ restOps > 0

(* new_order is sent once for an order, and never for one whose creating    *)
(* thread still has rows to write.                                          *)
AnnouncedOnce ==
  \A o \in Orders :
    /\ news[o] <= 1
    /\ news[o] = 1 => \A j \in Jobs : target[j] = o /\ mode[j] = "created"
                                        => pc[j] \notin Running

(* A call only ever remembers and rewrites orders of its own caller,        *)
(* whichever way the order was found.                                       *)
OwnOrders ==
  /\ \A c \in Calls : active[c] # None =>
       Exists(active[c]) /\ OwnedBy(active[c]) = CallerOf[c]
  /\ \A j \in Jobs : pc[j] \in Writing \cup {"update", "status"} =>
       Exists(target[j]) /\ OwnedBy(target[j]) = CallerOf[j[1]]

(* What the caller said last wins: the content of an order never goes back  *)
(* to an earlier request of the same call, unless the call was disturbed.   *)
NoStaleContent ==
  [][\A o \in Orders : \A c \in Calls : \A m, n \in 1..MaxRequests :
       orders[o].content = <<c, m>> /\ orders'[o].content = <<c, n>>
         => m <= n \/ disturbed[c]]_vars

(* Every function call is answered, or its call ends: retries are bounded   *)
(* and a timeout needs no thread to cooperate.                              *)
Answered == \A c \in Calls :
  phase[c] \in {"prepare", "upsert", "log"} ~> phase[c] \in {"idle", "closed"}

(* A thread that outlives its await ends, and gives its worker back.        *)
ThreadsEnd == \A j \in Jobs : pc[j] \in Busy \cup Pending ~> pc[j] \in Ended

(* Neither side waits for the other: calls are answered although threads    *)
(* hang on to their workers, and threads end although their calls are gone. *)
Settled == Answered /\ ThreadsEnd

(* What the code says of itself, and what it does otherwise. *)

(* orders.py: "if this call already has an active order, update it in-place *)
(* instead of creating a duplicate order record".                           *)
NoDuplicateOrder == \A c \in Calls : \A o, p \in OrdersOf(c) : o = p

-----------------------------------------------------------------------------
(* The database as the book of its orders.  The page of an order shows its  *)
(* content when the item rows are exactly those of it; the pens at it are   *)
(* the threads between the first and the last row they write, and the       *)
(* dashboard's handler there.                                               *)
Pens == Jobs \cup {Dash}
Shows(o) == IF Exists(o) /\ orders[o].items = RowsOf(orders[o].content, ItemRows)
            THEN orders[o].content ELSE None

PageOf(o) ==
  [owner  |-> IF Exists(o) THEN OwnedBy(o) ELSE None,
   pens   |-> Writers(o) \cup (IF RestWrites(o) THEN {Dash} ELSE {}),
   shows  |-> Shows(o),
   spoilt |-> torn[o],
   mark   |-> orders[o].status,
   struck |-> orders[o].deleted,
   told   |-> news[o] > 0]

Book == INSTANCE OrderBook WITH
  Staff <- Dash, Words <- Contents, Marks <- AllStatuses,
  Holder <- [x \in Pens |-> IF x = Dash THEN Dash ELSE CallerOf[x[1]]],
  Word <- [x \in Pens |-> IF x = Dash THEN Dash ELSE ReqOf(x)],
  book <- [o \in Orders |-> PageOf(o)]

(* Whatever retries, threads that outlive their call, the staff and crashes *)
(* make of them, the orders are such a book: what is on a page is the words *)
(* of its caller or of the staff, whole, unless two rewrote it at once or   *)
(* one did not finish.                                                      *)
BookSpec == Book!Spec

-----------------------------------------------------------------------------
(* What the proofs need beside the types. *)

(* Ids are handed out in order and a row that exists has a content. *)
DbInv ==
  \A o \in Orders : /\ Exists(o) <=> o <= lastId
                    /\ Exists(o) => orders[o].content \in Contents

(* The jobs a call has submitted: at most one for each attempt. *)
Submitted(j) ==
  LET c == j[1] IN
  \/ j[2] < req[c]
  \/ j[2] = req[c] /\ j[3] < attempt[c]
  \/ j[2] = req[c] /\ j[3] = attempt[c] /\ phase[c] # "prepare"

(* A thread that writes, or that has a result, knows an order that exists. *)
JobOk(j) ==
  /\ pc[j] # "none" => Submitted(j)
  /\ pc[j] = "verify" => target[j] \in Orders
  /\ pc[j] \in Writing \cup {"update", "status"}
       => target[j] \in Orders /\ Exists(target[j])
  /\ pc[j] \in Writing \cup {"status"} => mode[j] \in {"created", "updated"}
  /\ pc[j] = "done" /\ mode[j] \in {"created", "updated"}
       => target[j] \in Orders /\ Exists(target[j])
  /\ pc[j] \in {"qlog", "log", "logged"}
       => /\ target[j] \in Orders /\ Exists(target[j])
          /\ mode[j] \in {"created", "updated"}
  /\ pc[j] = "insert" => left[j] >= 1
  /\ pc[j] = "status" => ask[ReqOf(j)].status # "keep"

JobInv == \A j \in Jobs : JobOk(j)

RestInv ==
  /\ rest.pc # "idle" => rest.order \in Orders /\ Exists(rest.order)
  /\ rest.pc = "insert" => rest.left >= 1

CallInv ==
  \A c \in Calls : phase[c] \in {"prepare", "upsert", "log"} => req[c] >= 1

BaseInv == TypeOK /\ DbInv /\ JobInv /\ RestInv /\ CallInv

(* While an order is not torn it has one writer at most, and its rows are   *)
(* where that writer has got to.                                            *)
JobProgress(j, o) ==
  /\ orders[o].content = ReqOf(j)
  /\ pc[j] = "insert" => orders[o].items = RowsOf(ReqOf(j), ItemRows - left[j])

RestProgress(o) ==
  /\ orders[o].content = Dash
  /\ rest.pc = "insert" => orders[o].items = RowsOf(Dash, ItemRows - rest.left)

OneWriter(o) ==
  /\ \A j, k \in Writers(o) : j = k
  /\ RestWrites(o) => Writers(o) = {}
  /\ \A j \in Writers(o) : JobProgress(j, o)
  /\ RestWrites(o) => RestProgress(o)
  /\ ~Contended(o) => orders[o].items = RowsOf(orders[o].content, ItemRows)

WriterInv == \A o \in Orders : Exists(o) /\ ~torn[o] => OneWriter(o)
=============================================================================
