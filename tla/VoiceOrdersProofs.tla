-------------------------- MODULE VoiceOrdersProofs --------------------------
(* Proofs about VoiceOrders, for every set of calls, every bound and every   *)
(* number of retries, workers and item rows: first the types and the item    *)
(* rows of an order, then what a call may do to orders, then that the        *)
(* database is the book of OrderBook.                                        *)
EXTENDS VoiceOrders, TLAPS

(* A job names a call and a request. *)
LEMMA JobParts == \A j \in Jobs : j[1] \in Calls /\ ReqOf(j) \in Requests
  BY DEF Jobs, ReqOf, Requests

(* A call with a request under way has a current job. *)
LEMMA CurrentIsJob ==
  ASSUME TypeCalls, CallInv, NEW c \in Calls,
         phase[c] \in {"prepare", "upsert", "log"}
  PROVE  Current(c) \in Jobs /\ <<c, req[c]>> \in Requests
  BY CallsAssumption DEF TypeCalls, CallInv, Current, Jobs, Requests

(* Rows are added, never taken away: an order that exists goes on existing. *)
LEMMA ExistsStays ==
  ASSUME TypeOK, DbInv, JobInv, RestInv, [Next]_vars, NEW o \in Orders, Exists(o)
  PROVE  Exists(o)'
  <1>1. CASE orders' = orders
    BY <1>1 DEF Exists
  <1>2. ASSUME NEW j \in Jobs, InsertOrder(j) PROVE Exists(o)'
    <2>1. o <= lastId /\ lastId \in Nat
      BY CallsAssumption DEF DbInv, TypeOK, TypeDb
    <2>2. orders'[o] = orders[o]
      BY <1>2, <2>1 DEF InsertOrder, TypeOK, TypeDb, Orders
    <2>3. QED
      BY <2>2 DEF Exists
  <1>3. ASSUME NEW p \in Orders, NEW r,
               orders' = [orders EXCEPT ![p] = r], r.by = orders[p].by
        PROVE  Exists(o)'
    BY <1>3 DEF Exists, TypeOK, TypeDb
  <1>4. \A p \in Orders : \A x :
            /\ [orders[p] EXCEPT !.content = x].by = orders[p].by
            /\ [orders[p] EXCEPT !.status = x].by = orders[p].by
            /\ [orders[p] EXCEPT !.items = x].by = orders[p].by
            /\ [orders[p] EXCEPT !.deleted = x].by = orders[p].by
            /\ [orders[p] EXCEPT !.aged = x].by = orders[p].by
    BY DEF TypeOK, TypeDb, Rows
  <1>5. ASSUME NEW j \in Jobs,
               UpdateOrder(j) \/ DeleteItems(j) \/ InsertItem(j) \/ SetStatus(j)
        PROVE  Exists(o)'
    <2>1. target[j] \in Orders
      BY <1>5 DEF UpdateOrder, DeleteItems, InsertItem, SetStatus, JobStep, JobInv, JobOk, Writing
    <2>2. QED
      BY <1>1, <1>3, <1>4, <1>5, <2>1 DEF UpdateOrder, DeleteItems, InsertItem, SetStatus
  <1>6. ASSUME NEW p \in Orders,
               \/ SoftDelete(p) \/ Restore(p) \/ Age(p)
               \/ \E s \in AllStatuses : PutStatus(p, s)
        PROVE  Exists(o)'
    BY <1>3, <1>4, <1>6 DEF SoftDelete, Restore, Age, PutStatus
  <1>7. ASSUME RestCancel \/ RestUpdate \/ RestDelete \/ RestInsert PROVE Exists(o)'
    <2>1. rest.order \in Orders
      BY <1>7 DEF RestCancel, RestUpdate, RestDelete, RestInsert, RestInv
    <2>2. CASE RestUpdate
      <3>1. [orders[rest.order] EXCEPT !.content = Dash,
               !.status = IF rest.status = "keep" THEN orders[rest.order].status
                                                  ELSE rest.status].by
              = orders[rest.order].by
        BY <2>1 DEF TypeOK, TypeDb, Rows
      <3>2. QED
        BY <1>3, <2>1, <2>2, <3>1 DEF RestUpdate
    <2>3. QED
      BY <1>3, <1>4, <1>7, <2>1, <2>2 DEF RestCancel, RestDelete, RestInsert
  <1>8. QED
    BY <1>1, <1>2, <1>5, <1>6, <1>7
       DEF Next, vars, dbVars, Loop, Thread, Rest, StartCall, Request, Refuse, Submit,
           ResumeWritten, ResumeUnwritten, ResumeFailed, Finish, Timeout, EndCall,
           StartJob, ReadSession, Verify, Lookup, WriteLog, FailJob,
           OpenCancel, OpenEdit, RestFail, Crash

-----------------------------------------------------------------------------
(* Type correctness, one group of variables at a time. *)

LEMMA BaseInit == Init => BaseInv
  BY CallsAssumption, SMTT(30)
     DEF Init, BaseInv, TypeOK, TypeCalls, TypeJobs, TypeDb, TypeRest, TypeGhosts,
         DbInv, JobInv, JobOk, RestInv, CallInv, Idle, NoOrder, NoRows, Rows, Phases,
         Ended, Pending, Busy, Running, Writing, Modes, Replies, AllStatuses,
         Exists, Orders, Attempts, Contents, Requests

LEMMA CallsStep == BaseInv /\ [Next]_vars => TypeCalls' /\ CallInv'
  <1> SUFFICES ASSUME BaseInv, [Next]_vars PROVE TypeCalls' /\ CallInv'
    OBVIOUS
  <1> USE CallsAssumption DEF BaseInv, TypeOK, TypeCalls, CallInv
  <1>1. ASSUME NEW c \in Calls, StartCall(c) PROVE TypeCalls' /\ CallInv'
    BY <1>1 DEF StartCall, Phases
  <1>2. ASSUME NEW c \in Calls, NEW a \in Asks, Request(c, a)
        PROVE TypeCalls' /\ CallInv'
    <2>1. req[c] + 1 \in 0..MaxRequests /\ 1 \in Attempts
      BY <1>2 DEF Request, Attempts
    <2>2. ask' \in [Requests -> Asks \cup {NoAsk}]
      BY <1>2 DEF Request
    <2>3. QED
      BY <1>2, <2>1, <2>2 DEF Request, Phases
  <1>3. ASSUME NEW c \in Calls, Refuse(c) PROVE TypeCalls' /\ CallInv'
    BY <1>3 DEF Refuse, Answer, Phases, Replies
  <1>4. ASSUME NEW c \in Calls, Submit(c) PROVE TypeCalls' /\ CallInv'
    BY <1>4 DEF Submit, Phases
  <1>5. ASSUME NEW c \in Calls, ResumeWritten(c) PROVE TypeCalls' /\ CallInv'
    BY <1>5, CurrentIsJob DEF ResumeWritten, TypeJobs, Phases
  <1>6. ASSUME NEW c \in Calls, ResumeUnwritten(c) \/ ResumeFailed(c) \/ Finish(c)
        PROVE TypeCalls' /\ CallInv'
    BY <1>6, CurrentIsJob
       DEF ResumeUnwritten, ResumeFailed, Finish, Answer, TypeJobs, Phases, Replies, Modes
  <1>7. ASSUME NEW c \in Calls, Timeout(c) PROVE TypeCalls' /\ CallInv'
    BY <1>7 DEF Timeout, Answer, Phases, Replies, Attempts
  <1>8. ASSUME NEW c \in Calls, EndCall(c) PROVE TypeCalls' /\ CallInv'
    BY <1>8 DEF EndCall, Phases
  <1>9. CASE Crash
    BY <1>9 DEF Crash, Phases
  <1>10. CASE UNCHANGED callVars
    BY <1>10 DEF callVars
  <1>11. QED
    BY <1>1, <1>2, <1>3, <1>4, <1>5, <1>6, <1>7, <1>8, <1>9, <1>10
       DEF Next, Loop, Thread, Rest, vars, StartJob, ReadSession, Verify, Lookup,
           InsertOrder, UpdateOrder, DeleteItems, InsertItem, SetStatus, WriteLog,
           FailJob, SoftDelete, Restore, OpenCancel, OpenEdit, Age, PutStatus,
           RestCancel, RestUpdate, RestDelete, RestInsert, RestFail

LEMMA JobsTypeStep == BaseInv /\ [Next]_vars => TypeJobs'
  <1> SUFFICES ASSUME BaseInv, [Next]_vars PROVE TypeJobs'
    OBVIOUS
  <1> USE CallsAssumption DEF BaseInv, TypeOK, TypeJobs
  <1>1. ASSUME NEW c \in Calls,
               Submit(c) \/ ResumeWritten(c) \/ ResumeUnwritten(c) \/ ResumeFailed(c) \/ Finish(c)
        PROVE  TypeJobs'
    <2>1. Current(c) \in Jobs
      BY <1>1, CurrentIsJob DEF Submit, ResumeWritten, ResumeUnwritten, ResumeFailed, Finish
    <2>2. active[c] \in Orders \cup {None}
      BY DEF TypeCalls
    <2>3. QED
      BY <1>1, <2>1, <2>2
         DEF Submit, ResumeWritten, ResumeUnwritten, ResumeFailed, Finish, Ended, Pending
  <1>2. ASSUME NEW c \in Calls, Timeout(c) \/ EndCall(c) PROVE TypeJobs'
    BY <1>2 DEF Timeout, EndCall, Abandon, Ended
  <1>3. ASSUME NEW j \in Jobs, StartJob(j) PROVE TypeJobs'
    BY <1>3 DEF StartJob, JobStep, Busy, Running
  <1>4. ASSUME NEW j \in Jobs, ReadSession(j) PROVE TypeJobs'
    <2>1. active[j[1]] \in Orders \cup {None}
      BY JobParts DEF TypeCalls
    <2>2. QED
      BY <1>4, <2>1 DEF ReadSession, JobStep, Busy, Running
  <1>5. ASSUME NEW j \in Jobs, Verify(j) PROVE TypeJobs'
    BY <1>5 DEF Verify, JobStep, Busy, Running
  <1>6. ASSUME NEW j \in Jobs, Lookup(j) PROVE TypeJobs'
    BY <1>6 DEF Lookup, JobStep, Busy, Running, Ended, Modes
  <1>7. ASSUME NEW j \in Jobs, InsertOrder(j) PROVE TypeJobs'
    <2>1. lastId + 1 \in Orders
      BY <1>7 DEF InsertOrder, TypeDb, Orders
    <2>2. QED
      BY <1>7, <2>1 DEF InsertOrder, JobStep, Busy, Running, Writing, Modes
  <1>8. ASSUME NEW j \in Jobs, UpdateOrder(j) \/ DeleteItems(j) PROVE TypeJobs'
    BY <1>8 DEF UpdateOrder, DeleteItems, JobStep, Busy, Running, Writing, Modes
  <1>9. ASSUME NEW j \in Jobs, InsertItem(j) PROVE TypeJobs'
    <2>1. left[j] - 1 \in 0..ItemRows
      BY <1>9 DEF InsertItem, JobStep, JobInv, JobOk
    <2>2. QED
      BY <1>9, <2>1 DEF InsertItem, JobStep, AfterItems, Ended, Busy, Running, Writing
  <1>10. ASSUME NEW j \in Jobs, SetStatus(j) \/ FailJob(j) \/ WriteLog(j) PROVE TypeJobs'
    BY <1>10 DEF SetStatus, FailJob, WriteLog, JobStep, Ended
  <1>11. CASE Crash
    BY <1>11 DEF Crash, Ended
  <1>12. CASE UNCHANGED jobVars
    BY <1>12 DEF jobVars
  <1>13. QED
    BY <1>1, <1>2, <1>3, <1>4, <1>5, <1>6, <1>7, <1>8, <1>9, <1>10, <1>11, <1>12
       DEF Next, Loop, Thread, Rest, vars, StartCall, Request, Refuse,
           SoftDelete, Restore, OpenCancel, OpenEdit, Age, PutStatus,
           RestCancel, RestUpdate, RestDelete, RestInsert, RestFail

(* A row with one field rewritten is a row, and names the same request. *)
LEMMA RowEdit ==
  ASSUME NEW r \in Rows
  PROVE  /\ \A v \in Contents : [r EXCEPT !.content = v] \in Rows
         /\ \A x \in AllStatuses : [r EXCEPT !.status = x] \in Rows
         /\ \A f \in [Contents -> Nat] : [r EXCEPT !.items = f] \in Rows
         /\ \A b \in BOOLEAN : [r EXCEPT !.deleted = b] \in Rows
         /\ \A b \in BOOLEAN : [r EXCEPT !.aged = b] \in Rows
         /\ \A v \in Contents, x \in AllStatuses :
              [r EXCEPT !.content = v, !.status = x] \in Rows
  BY DEF Rows

LEMMA RowEditKeeps ==
  ASSUME NEW r \in Rows, NEW x
  PROVE  /\ [r EXCEPT !.content = x].by = r.by
         /\ [r EXCEPT !.content = x].content = x
         /\ [r EXCEPT !.status = x].by = r.by
         /\ [r EXCEPT !.status = x].content = r.content
         /\ [r EXCEPT !.items = x].by = r.by
         /\ [r EXCEPT !.items = x].content = r.content
         /\ [r EXCEPT !.deleted = x].by = r.by
         /\ [r EXCEPT !.deleted = x].content = r.content
         /\ [r EXCEPT !.aged = x].by = r.by
         /\ [r EXCEPT !.aged = x].content = r.content
  BY DEF Rows

(* What a step that rewrites the row of one order must show. *)
LEMMA OneRow ==
  ASSUME TypeDb, DbInv, NEW p \in Orders, NEW r \in Rows,
         orders' = [orders EXCEPT ![p] = r], UNCHANGED lastId,
         r.by = orders[p].by, r.content \in Contents \/ r.content = orders[p].content
  PROVE  orders' \in [Orders -> Rows] /\ DbInv'
  BY DEF TypeDb, DbInv, Exists

LEMMA EditContent ==
  ASSUME TypeDb, DbInv, NEW p \in Orders, NEW v \in Contents,
         orders' = [orders EXCEPT ![p].content = v], UNCHANGED lastId
  PROVE  orders' \in [Orders -> Rows] /\ DbInv'
  <1>1. orders[p] \in Rows
    BY DEF TypeDb
  <1>2. QED
    BY <1>1, OneRow, RowEdit, RowEditKeeps

LEMMA EditStatus ==
  ASSUME TypeDb, DbInv, NEW p \in Orders, NEW s \in AllStatuses,
         orders' = [orders EXCEPT ![p].status = s], UNCHANGED lastId
  PROVE  orders' \in [Orders -> Rows] /\ DbInv'
  <1>1. orders[p] \in Rows
    BY DEF TypeDb
  <1>2. QED
    BY <1>1, OneRow, RowEdit, RowEditKeeps

LEMMA EditItems ==
  ASSUME TypeDb, DbInv, NEW p \in Orders, NEW f \in [Contents -> Nat],
         orders' = [orders EXCEPT ![p].items = f], UNCHANGED lastId
  PROVE  orders' \in [Orders -> Rows] /\ DbInv'
  <1>1. orders[p] \in Rows
    BY DEF TypeDb
  <1>2. QED
    BY <1>1, OneRow, RowEdit, RowEditKeeps

LEMMA EditFlag ==
  ASSUME TypeDb, DbInv, NEW p \in Orders, NEW b \in BOOLEAN, UNCHANGED lastId,
         \/ orders' = [orders EXCEPT ![p].deleted = b]
         \/ orders' = [orders EXCEPT ![p].aged = b]
  PROVE  orders' \in [Orders -> Rows] /\ DbInv'
  <1>1. orders[p] \in Rows
    BY DEF TypeDb
  <1>2. QED
    BY <1>1, OneRow, RowEdit, RowEditKeeps

LEMMA DbStep == BaseInv /\ [Next]_vars => TypeDb' /\ DbInv'
  <1> SUFFICES ASSUME BaseInv, [Next]_vars PROVE TypeDb' /\ DbInv'
    OBVIOUS
  <1> USE CallsAssumption DEF BaseInv, TypeOK
  <1>0. /\ \A o \in Orders : orders[o] \in Rows /\ orders[o].items \in [Contents -> Nat]
        /\ \A r \in Requests : r \in Contents
        /\ Dash \in Contents
        /\ NoRows \in [Contents -> Nat]
    BY DEF TypeDb, Rows, Contents, NoRows
  <1>1. ASSUME NEW c \in Calls, Finish(c) PROVE TypeDb' /\ DbInv'
    <2>1. Current(c) \in Jobs /\ target[Current(c)] \in Orders
      BY <1>1, CurrentIsJob DEF Finish, JobInv, JobOk
    <2>2. QED
      BY <1>1, <2>1 DEF Finish, TypeDb, DbInv, Exists
  <1>2. ASSUME NEW j \in Jobs, InsertOrder(j) PROVE TypeDb' /\ DbInv'
    <2> DEFINE r == [NoOrder EXCEPT !.by = ReqOf(j), !.content = ReqOf(j)]
    <2>1. ReqOf(j) \in Requests
      BY JobParts
    <2>2. r \in Rows /\ r.by = ReqOf(j) /\ r.content = ReqOf(j)
      BY <2>1, <1>0 DEF NoOrder, Rows, AllStatuses
    <2>3. lastId + 1 \in Orders /\ lastId \in Nat
      BY <1>2 DEF InsertOrder, TypeDb, Orders
    <2>4. ReqOf(j) # None
      BY <2>1 DEF Requests
    <2>5. orders' = [orders EXCEPT ![lastId + 1] = r] /\ lastId' = lastId + 1 /\ UNCHANGED news
      BY <1>2 DEF InsertOrder
    <2>6. TypeDb'
      BY <2>2, <2>3, <2>5 DEF TypeDb, Orders
    <2>7. DbInv'
      BY <1>0, <2>1, <2>2, <2>3, <2>4, <2>5 DEF DbInv, TypeDb, Exists, Orders
    <2>8. QED
      BY <2>6, <2>7
  <1>3. ASSUME NEW j \in Jobs, UpdateOrder(j) PROVE TypeDb' /\ DbInv'
    <2>1. target[j] \in Orders /\ ReqOf(j) \in Contents
      BY <1>0, <1>3, JobParts DEF UpdateOrder, JobStep, JobInv, JobOk
    <2>2. QED
      BY <1>0, <1>3, <2>1, EditContent DEF UpdateOrder, TypeDb
  <1>4. ASSUME NEW j \in Jobs, DeleteItems(j) PROVE TypeDb' /\ DbInv'
    <2>1. target[j] \in Orders
      BY <1>4 DEF DeleteItems, JobStep, JobInv, JobOk, Writing
    <2>2. QED
      BY <1>0, <1>4, <2>1, EditItems DEF DeleteItems, TypeDb
  <1>5. ASSUME NEW j \in Jobs, InsertItem(j) PROVE TypeDb' /\ DbInv'
    <2>1. target[j] \in Orders
      BY <1>5 DEF InsertItem, JobStep, JobInv, JobOk, Writing
    <2> DEFINE f == [orders[target[j]].items EXCEPT ![ReqOf(j)] = @ + 1]
    <2>2. f \in [Contents -> Nat]
      BY <1>0, <2>1, JobParts
    <2>3. orders' = [orders EXCEPT ![target[j]] = [orders[target[j]] EXCEPT !.items = f]]
      BY <1>5 DEF InsertItem
    <2> HIDE DEF f
    <2>4. QED
      BY <1>0, <1>5, <2>1, <2>2, <2>3, EditItems DEF InsertItem, TypeDb
  <1>6. ASSUME NEW j \in Jobs, SetStatus(j) PROVE TypeDb' /\ DbInv'
    <2>1. target[j] \in Orders
      BY <1>6 DEF SetStatus, JobStep, JobInv, JobOk
    <2>2. ask[ReqOf(j)].status \in AllStatuses
      BY <1>6, JobParts DEF SetStatus, JobStep, JobInv, JobOk, TypeCalls, AllStatuses, NoAsk
    <2>3. CASE orders' = orders
      BY <1>6, <2>3 DEF SetStatus, TypeDb, DbInv, Exists
    <2>4. CASE orders' = [orders EXCEPT ![target[j]].status = ask[ReqOf(j)].status]
      BY <1>0, <1>6, <2>1, <2>2, <2>4, EditStatus DEF SetStatus, TypeDb
    <2>5. QED
      BY <1>6, <2>3, <2>4 DEF SetStatus
  <1>7. ASSUME NEW o \in Orders, NEW s \in AllStatuses, PutStatus(o, s)
        PROVE  TypeDb' /\ DbInv'
    BY <1>0, <1>7, EditStatus DEF PutStatus, TypeDb
  <1>8. ASSUME NEW o \in Orders, SoftDelete(o) \/ Restore(o) PROVE TypeDb' /\ DbInv'
    BY <1>0, <1>8, EditFlag DEF SoftDelete, Restore, TypeDb
  <1>9. ASSUME NEW o \in Orders, Age(o) PROVE TypeDb' /\ DbInv'
    BY <1>0, <1>9, EditFlag DEF Age, TypeDb, dbVars
  <1>10. CASE RestCancel
    <2>1. rest.order \in Orders /\ "cancelled" \in AllStatuses
      BY <1>10 DEF RestCancel, RestInv, AllStatuses
    <2>2. QED
      BY <1>0, <1>10, <2>1, EditStatus DEF RestCancel, TypeDb
  <1>11. CASE RestUpdate
    <2> DEFINE o == orders[rest.order]
               x == IF rest.status = "keep" THEN o.status ELSE rest.status
               r == [o EXCEPT !.content = Dash, !.status = x]
    <2>1. rest.order \in Orders /\ o \in Rows
      BY <1>0, <1>11 DEF RestUpdate, RestInv
    <2>2. x \in AllStatuses
      BY <2>1 DEF TypeRest, Rows
    <2>3. r \in Rows
      BY <1>0, <2>1, <2>2, RowEdit
    <2>4. r.by = o.by /\ r.content = Dash
      BY <2>1 DEF Rows
    <2>5. orders' = [orders EXCEPT ![rest.order] = r] /\ UNCHANGED <<lastId, news>>
      BY <1>11 DEF RestUpdate
    <2> HIDE DEF r
    <2>6. QED
      BY <1>0, <2>1, <2>3, <2>4, <2>5, OneRow DEF TypeDb
  <1>12. CASE RestDelete
    <2>1. rest.order \in Orders
      BY <1>12 DEF RestDelete, RestInv
    <2>2. QED
      BY <1>0, <1>12, <2>1, EditItems DEF RestDelete, TypeDb
  <1>13. CASE RestInsert
    <2> DEFINE f == [orders[rest.order].items EXCEPT ![Dash] = @ + 1]
    <2>1. rest.order \in Orders
      BY <1>13 DEF RestInsert, RestInv
    <2>2. f \in [Contents -> Nat]
      BY <1>0, <2>1
    <2>3. orders' = [orders EXCEPT ![rest.order] = [orders[rest.order] EXCEPT !.items = f]]
      BY <1>13 DEF RestInsert
    <2> HIDE DEF f
    <2>4. QED
      BY <1>0, <1>13, <2>1, <2>2, <2>3, EditItems DEF RestInsert, TypeDb
  <1>14. CASE UNCHANGED dbVars
    BY <1>14 DEF dbVars, TypeDb, DbInv, Exists
  <1>15. QED
    BY <1>1, <1>2, <1>3, <1>4, <1>5, <1>6, <1>7, <1>8, <1>9, <1>10, <1>11, <1>12,
       <1>13, <1>14
       DEF Next, Loop, Thread, Rest, vars, StartCall, Request, Refuse, Submit,
           ResumeWritten, ResumeUnwritten, ResumeFailed, Timeout, EndCall, StartJob,
           ReadSession, Verify, Lookup, WriteLog, FailJob, OpenCancel, OpenEdit,
           RestFail, Crash

LEMMA RestStep == BaseInv /\ [Next]_vars => TypeRest' /\ RestInv'
  <1> SUFFICES ASSUME BaseInv, [Next]_vars PROVE TypeRest' /\ RestInv'
    OBVIOUS
  <1> USE CallsAssumption DEF BaseInv, TypeOK, TypeRest, RestInv
  <1>0. \A o \in Orders : Exists(o) => Exists(o)'
    BY ExistsStays
  <1>1. Idle \in [pc : {"idle", "cancel", "update"} \cup Writing,
                  order : Orders \cup {None},
                  status : AllStatuses \cup {"keep"}, left : 0..ItemRows]
    BY DEF Idle
  <1>2. ASSUME NEW o \in Orders,
               \/ OpenCancel(o)
               \/ \E s \in AllStatuses \cup {"keep"} : OpenEdit(o, s)
        PROVE  TypeRest' /\ RestInv'
    <2>0. RestBegins /\ Exists(o)
      BY <1>2 DEF OpenCancel, OpenEdit, Live
    <2>1. restOps' \in 0..MaxRest /\ Exists(o)'
      BY <1>0, <2>0 DEF RestBegins
    <2>2. \E q \in {"cancel", "update"}, s \in AllStatuses \cup {"keep"} :
            rest' = [pc |-> q, order |-> o, status |-> s, left |-> 0]
      BY <1>2 DEF OpenCancel, OpenEdit, Idle
    <2>3. QED
      BY <2>1, <2>2 DEF Exists
  <1>3. CASE rest' = Idle /\ (UNCHANGED restOps \/ RestBegins)
    BY <1>1, <1>3 DEF RestBegins, Idle
  <1>4. CASE UNCHANGED rest /\ (UNCHANGED restOps \/ RestBegins)
    BY <1>0, <1>4 DEF RestBegins
  <1>5. CASE RestUpdate
    BY <1>0, <1>5 DEF RestUpdate, Writing
  <1>6. CASE RestDelete
    <2>1. /\ rest' \in [pc : {"insert"}, order : {rest.order},
                        status : AllStatuses \cup {"keep"}, left : {ItemRows}]
          /\ rest.order \in Orders /\ Exists(rest.order) /\ UNCHANGED restOps
      BY <1>6 DEF RestDelete
    <2>2. rest'.pc = "insert" /\ rest'.order = rest.order /\ rest'.left = ItemRows
      BY <2>1
    <2>3. QED
      BY <1>0, <2>1, <2>2 DEF Writing, Exists
  <1>7. CASE RestInsert
    BY <1>0, <1>1, <1>7 DEF RestInsert, Writing, Idle
  <1>8. QED
    BY <1>2, <1>3, <1>4, <1>5, <1>6, <1>7
       DEF Next, Loop, Thread, Rest, vars, restVars, StartCall, Request, Refuse, Submit,
           ResumeWritten, ResumeUnwritten, ResumeFailed, Finish, Timeout, EndCall,
           StartJob, ReadSession, Verify, Lookup, InsertOrder, UpdateOrder, DeleteItems,
           InsertItem, SetStatus, WriteLog, FailJob, SoftDelete, Restore, Age, PutStatus,
           RestCancel, RestFail, Crash

LEMMA GhostStep == BaseInv /\ [Next]_vars => TypeGhosts'
  <1> SUFFICES ASSUME BaseInv, [Next]_vars PROVE TypeGhosts'
    OBVIOUS
  <1> USE DEF BaseInv, TypeOK, TypeGhosts
  <1>1. ASSUME NEW c \in Calls, Abandon(c), UNCHANGED torn PROVE TypeGhosts'
    <2>1. MidWork(c) \in BOOLEAN
      BY DEF MidWork
    <2>2. (disturbed[c] \/ MidWork(c)) \in BOOLEAN
      OBVIOUS
    <2>3. disturbed' \in [Calls -> BOOLEAN]
      BY <1>1, <2>2, Zenon DEF Abandon
    <2>4. QED
      BY <1>1, <2>3
  <1>2. ASSUME NEW j \in Jobs, FailJob(j) PROVE TypeGhosts'
    BY <1>2 DEF FailJob
  <1>3. ASSUME NEW j \in Jobs, UpdateOrder(j) PROVE TypeGhosts'
    BY <1>3 DEF UpdateOrder, Contended
  <1>4. ASSUME NEW o \in Orders, SoftDelete(o) PROVE TypeGhosts'
    BY <1>4 DEF SoftDelete
  <1>5. CASE RestUpdate \/ RestFail
    BY <1>5 DEF RestUpdate, RestFail
  <1>6. CASE Crash
    <2>1. \A o \in Orders : (torn[o] \/ Contended(o)) \in BOOLEAN
      OBVIOUS
    <2>2. \A c \in Calls : (disturbed[c] \/ MidWork(c)) \in BOOLEAN
      OBVIOUS
    <2>3. torn' \in [Orders -> BOOLEAN]
      BY <1>6, <2>1, Zenon DEF Crash
    <2>4. disturbed' \in [Calls -> BOOLEAN]
      BY <1>6, <2>2, Zenon DEF Crash
    <2>5. QED
      BY <2>3, <2>4
  <1>7. CASE UNCHANGED ghosts
    BY <1>7 DEF ghosts
  <1>8. QED
    BY <1>1, <1>2, <1>3, <1>4, <1>5, <1>6, <1>7
       DEF Next, Loop, Thread, Rest, vars, StartCall, Request, Refuse, Submit,
           ResumeWritten, ResumeUnwritten, ResumeFailed, Finish, Timeout, EndCall,
           StartJob, ReadSession, Verify, Lookup, InsertOrder, DeleteItems,
           InsertItem, SetStatus, WriteLog, Restore, Age, PutStatus, OpenCancel,
           OpenEdit, RestCancel, RestDelete, RestInsert

(* A job that was submitted stays so: attempts and requests only go up. *)
LEMMA SubmittedStays ==
  ASSUME BaseInv, [Next]_vars, NEW k \in Jobs, Submitted(k)
  PROVE  Submitted(k)'
  <1> USE CallsAssumption DEF BaseInv, TypeOK, TypeCalls, Submitted, Attempts
  <1>1. k[1] \in Calls /\ k[2] \in Nat /\ k[3] \in Nat
    BY DEF Jobs
  <1>2. ASSUME NEW c \in Calls, NEW a \in Asks, Request(c, a) PROVE Submitted(k)'
    BY <1>1, <1>2 DEF Request
  <1>3. ASSUME NEW c \in Calls, Timeout(c) PROVE Submitted(k)'
    BY <1>1, <1>3 DEF Timeout, Answer
  <1>4. ASSUME NEW c \in Calls, UNCHANGED <<req, attempt>>,
               \E p \in Phases \ {"prepare"} : phase' = [phase EXCEPT ![c] = p]
        PROVE  Submitted(k)'
    BY <1>1, <1>4
  <1>5. CASE Crash
    BY <1>1, <1>5 DEF Crash
  <1>6. CASE UNCHANGED <<req, attempt, phase>>
    BY <1>1, <1>6
  <1>7. ASSUME NEW c \in Calls,
               \/ StartCall(c) \/ Refuse(c) \/ Submit(c) \/ ResumeWritten(c) \/ ResumeUnwritten(c)
               \/ ResumeFailed(c) \/ Finish(c) \/ EndCall(c)
        PROVE  Submitted(k)'
    BY <1>4, <1>7
       DEF StartCall, Refuse, Submit, ResumeWritten, ResumeUnwritten, ResumeFailed, Finish,
           EndCall, Answer, Phases
  <1>8. QED
    BY <1>2, <1>3, <1>5, <1>6, <1>7
       DEF Next, Loop, Thread, Rest, vars, callVars, StartJob, ReadSession, Verify, Lookup,
           InsertOrder, UpdateOrder, DeleteItems, InsertItem, SetStatus, WriteLog,
           FailJob, SoftDelete, Restore, Age, PutStatus, OpenCancel, OpenEdit, RestCancel,
           RestUpdate, RestDelete, RestInsert, RestFail

(* A job that no step touches stays as it should be. *)
LEMMA JobFrame ==
  ASSUME BaseInv, [Next]_vars, NEW k \in Jobs,
         pc'[k] = pc[k] \/ pc'[k] \in {"over", "failed"}, target'[k] = target[k],
         mode'[k] = mode[k], left'[k] = left[k],
         pc[k] = "status" => ask'[ReqOf(k)] = ask[ReqOf(k)],
         pc[k] = "none" => pc'[k] = "none"
  PROVE  JobOk(k)'
  <1>1. JobOk(k)
    BY DEF BaseInv, JobInv
  <1>2. target[k] \in Orders /\ Exists(target[k]) => Exists(target[k])'
    BY ExistsStays DEF BaseInv
  <1>3. pc'[k] # "none" => Submitted(k)'
    BY <1>1, SubmittedStays DEF JobOk
  <1>4. QED
    BY <1>1, <1>2, <1>3 DEF JobOk, Exists, Writing

LEMMA JobInvStep == BaseInv /\ [Next]_vars => JobInv'
  <1> SUFFICES ASSUME BaseInv, [Next]_vars, NEW k \in Jobs PROVE JobOk(k)'
    BY DEF JobInv
  <1> USE DEF BaseInv, TypeOK
  <1>1. JobOk(k) /\ k[1] \in Calls /\ ReqOf(k) \in Requests /\ k[2] \in Nat
    BY JobParts, CallsAssumption DEF JobInv, Jobs
  <1>2. /\ req[k[1]] \in Nat
        /\ Submitted(k) => Submitted(k)'
    BY <1>1, SubmittedStays, CallsAssumption DEF TypeCalls
  <1>3. \A o \in Orders : Exists(o) => Exists(o)'
    BY ExistsStays
  <1>4. CASE UNCHANGED <<jobVars, ask>>
    BY <1>1, <1>2, <1>4, JobFrame DEF jobVars
  <1>5. ASSUME NEW c \in Calls, NEW a \in Asks, Request(c, a) PROVE JobOk(k)'
    <2>1. pc[k] = "status" => ReqOf(k) # <<c, req[c] + 1>>
      BY <1>1, <1>2 DEF JobOk, Submitted, ReqOf
    <2>2. pc[k] = "status" => ask'[ReqOf(k)] = ask[ReqOf(k)]
      BY <1>1, <1>5, <2>1 DEF Request, TypeCalls
    <2>3. QED
      BY <1>1, <1>2, <1>5, <2>2, JobFrame DEF Request, jobVars
  <1>6. ASSUME NEW c \in Calls, Submit(c) PROVE JobOk(k)'
    <2>1. CASE k = Current(c)
      <3>1. Submitted(k)'
        BY <1>1, <1>6, <2>1 DEF Current, Submit, Submitted, TypeCalls
      <3>2. QED
        BY <1>1, <1>2, <1>6, <2>1, <3>1 DEF Submit, JobOk, TypeJobs, Writing
    <2>2. CASE k # Current(c)
      BY <1>1, <1>2, <1>6, <2>2, JobFrame DEF Submit, TypeJobs
    <2>3. QED
      BY <2>1, <2>2
  <1>7. ASSUME NEW c \in Calls, ResumeWritten(c) PROVE JobOk(k)'
    <2>1. CASE k = Current(c)
      BY <1>1, <1>2, <1>3, <1>7, <2>1 DEF ResumeWritten, JobOk, TypeJobs, Writing, Exists
    <2>2. CASE k # Current(c)
      BY <1>1, <1>2, <1>7, <2>2, JobFrame DEF ResumeWritten, TypeJobs
    <2>3. QED
      BY <2>1, <2>2
  <1>8. ASSUME NEW c \in Calls, ResumeUnwritten(c) \/ ResumeFailed(c) \/ Finish(c)
        PROVE  JobOk(k)'
    <2>1. /\ pc'[k] = pc[k] \/ pc'[k] = "over"
          /\ pc[k] = "none" => pc'[k] = "none"
          /\ UNCHANGED <<ask, target, mode, left>>
      BY <1>8 DEF ResumeUnwritten, ResumeFailed, Finish, TypeJobs
    <2>2. QED
      BY <1>1, <1>2, <2>1, JobFrame
  <1>9. ASSUME NEW c \in Calls, Timeout(c) \/ EndCall(c) PROVE JobOk(k)'
    <2>1. /\ pc'[k] = pc[k] \/ pc'[k] = "over"
          /\ pc[k] = "none" => pc'[k] = "none"
          /\ UNCHANGED <<ask, target, mode, left>>
      BY <1>9 DEF Timeout, EndCall, Abandon, TypeJobs, Pending
    <2>2. QED
      BY <1>1, <1>2, <2>1, JobFrame
  <1>10. CASE Crash
    <2>1. /\ pc'[k] = pc[k] \/ pc'[k] = "over"
          /\ pc[k] = "none" => pc'[k] = "none"
          /\ UNCHANGED <<ask, target, mode, left>>
      BY <1>10 DEF Crash, TypeJobs, Busy, Running, Writing, Pending
    <2>2. QED
      BY <1>1, <1>2, <2>1, JobFrame
  <1>11. ASSUME NEW j \in Jobs, Thread(j) \/ FailJob(j) PROVE JobOk(k)'
    <2>1. CASE k # j
      <3>1. /\ pc'[k] = pc[k] /\ target'[k] = target[k] /\ mode'[k] = mode[k]
            /\ left'[k] = left[k]
        BY <1>11, <2>1
           DEF Thread, StartJob, ReadSession, Verify, Lookup, InsertOrder, UpdateOrder,
               DeleteItems, InsertItem, SetStatus, WriteLog, FailJob, JobStep, TypeJobs
      <3>2. UNCHANGED ask
        BY <1>11
           DEF Thread, StartJob, ReadSession, Verify, Lookup, InsertOrder, UpdateOrder,
               DeleteItems, InsertItem, SetStatus, WriteLog, FailJob, callVars
      <3>3. QED
        BY <1>1, <1>2, <3>1, <3>2, JobFrame
    <2>2. CASE StartJob(k)
      BY <1>1, <1>2, <1>3, <2>2 DEF StartJob, JobStep, JobOk, TypeJobs, Writing, Exists
    <2>3. CASE ReadSession(k)
      <3>1. active[k[1]] \in Orders \cup {None}
        BY <1>1 DEF TypeCalls
      <3>2. QED
        BY <1>1, <1>2, <2>3, <3>1 DEF ReadSession, JobStep, JobOk, TypeJobs, Writing
    <2>4. CASE Verify(k)
      BY <1>1, <1>2, <1>3, <2>4
         DEF Verify, Verified, Live, JobStep, JobOk, TypeJobs, Writing, Exists
    <2>5. CASE Lookup(k)
      <3>1. PICK o \in Orders \cup {None} :
              /\ pc[k] = "start" /\ pc' = [pc EXCEPT ![k] = pc'[k]]
              /\ \/ pc'[k] = "done" /\ mode'[k] \in {"not_found", "expired"}
                 \/ pc'[k] = "update"
              /\ target'[k] = o
              /\ pc'[k] = "update" => o \in Orders /\ Verified(k, o)
        <4>1. PICK o \in Orders \cup {None} :
                /\ IF Verified(k, target[k]) THEN o = target[k] ELSE Latest(k, o)
                /\ \/ o = None /\ JobStep(k, "start", "done")
                      /\ mode' = [mode EXCEPT ![k] = "not_found"]
                   \/ o # None /\ JobStep(k, "start", "done")
                      /\ mode' = [mode EXCEPT ![k] = "expired"]
                   \/ o # None /\ JobStep(k, "start", "update") /\ UNCHANGED mode
                /\ target' = [target EXCEPT ![k] = o]
          BY <2>5 DEF Lookup
        <4>2. o # None => o \in Orders /\ Verified(k, o)
          BY <4>1 DEF Latest
        <4>3. QED
          BY <4>1, <4>2 DEF JobStep, TypeJobs
      <3>2. UNCHANGED <<ask, left, orders>>
        BY <2>5 DEF Lookup, callVars, dbVars
      <3>3. QED
        BY <1>1, <1>2, <3>1, <3>2 DEF JobOk, Verified, Live, Exists, Writing
    <2>6. CASE InsertOrder(k)
      <3>1. PICK o \in Orders : o = lastId + 1
        BY <2>6, CallsAssumption DEF InsertOrder, TypeDb, Orders
      <3>2. Exists(o)'
        BY <2>6, <3>1, DbStep, CallsAssumption DEF InsertOrder, DbInv, Orders
      <3>3. QED
        BY <1>1, <1>2, <2>6, <3>1, <3>2, CallsAssumption
           DEF InsertOrder, JobStep, JobOk, TypeJobs, Writing, Exists
    <2>7. CASE UpdateOrder(k) \/ DeleteItems(k)
      BY <1>1, <1>2, <1>3, <2>7, CallsAssumption
         DEF UpdateOrder, DeleteItems, JobStep, JobOk, TypeJobs, Writing, Exists
    <2>8. CASE InsertItem(k)
      BY <1>1, <1>2, <1>3, <2>8, CallsAssumption
         DEF InsertItem, AfterItems, callVars, JobStep, JobOk, TypeJobs, Writing, Exists
    <2>9. CASE SetStatus(k)
      BY <1>1, <1>2, <1>3, <2>9 DEF SetStatus, JobStep, JobOk, TypeJobs, Writing, Exists
    <2>10. CASE WriteLog(k)
      BY <1>1, <1>2, <1>3, <2>10 DEF WriteLog, JobStep, JobOk, TypeJobs, Writing, Exists
    <2>11. CASE FailJob(k)
      BY <1>1, <1>2, <2>11, JobFrame
         DEF FailJob, callVars, TypeJobs, Running, Writing
    <2>12. QED
      BY <1>11, <2>1, <2>2, <2>3, <2>4, <2>5, <2>6, <2>7, <2>8, <2>9, <2>10, <2>11
         DEF Thread
  <1>12. QED
    BY <1>4, <1>5, <1>6, <1>7, <1>8, <1>9, <1>10, <1>11
       DEF Next, Loop, Rest, vars, callVars, StartCall, Refuse, SoftDelete, Restore,
           Age, PutStatus, OpenCancel, OpenEdit, RestCancel, RestUpdate, RestDelete,
           RestInsert, RestFail

LEMMA BaseStep == BaseInv /\ [Next]_vars => BaseInv'
  BY CallsStep, JobsTypeStep, DbStep, JobInvStep, RestStep, GhostStep
     DEF BaseInv, TypeOK

(* TypeOK holds in every reachable state, whatever the constants are. *)
THEOREM BaseCorrect == Spec => []BaseInv
  BY BaseInit, BaseStep, PTL DEF Spec

THEOREM TypeCorrect == Spec => []TypeOK
  <1>1. BaseInv => TypeOK
    BY DEF BaseInv
  <1>2. QED
    BY BaseCorrect, <1>1, PTL

-----------------------------------------------------------------------------
(* One writer at a time, unless the order is marked torn. *)

LEMMA RowsZero == \A v : RowsOf(v, 0) = NoRows
  BY DEF RowsOf, NoRows

LEMMA RowsMore ==
  ASSUME NEW v \in Contents, NEW k \in Nat
  PROVE  [RowsOf(v, k) EXCEPT ![v] = @ + 1] = RowsOf(v, k + 1)
  BY DEF RowsOf

(* A step that neither touches the rows of an order nor its writers. *)
LEMMA WriterFrame ==
  ASSUME NEW o \in Orders, OneWriter(o),
         orders'[o].content = orders[o].content, orders'[o].items = orders[o].items,
         \A j \in Jobs : /\ j \in Writers(o)' <=> j \in Writers(o)
                         /\ j \in Writers(o) => pc'[j] = pc[j] /\ left'[j] = left[j],
         RestWrites(o)' <=> RestWrites(o),
         RestWrites(o) => rest' = rest
  PROVE  OneWriter(o)'
  <1>1. Writers(o)' = Writers(o)
    BY DEF Writers
  <1>2. \A j \in Writers(o) : JobProgress(j, o)'
    BY DEF OneWriter, JobProgress, Writers
  <1>3. RestWrites(o) => RestProgress(o)'
    BY DEF OneWriter, RestProgress
  <1>4. Contended(o)' <=> Contended(o)
    BY <1>1 DEF Contended
  <1>5. ~Contended(o)' => orders'[o].items = RowsOf(orders'[o].content, ItemRows)
    BY <1>4 DEF OneWriter
  <1>6. QED
    BY <1>1, <1>2, <1>3, <1>5 DEF OneWriter

(* The same, for a step that leaves rows and threads alone. *)
LEMMA RestFrame ==
  ASSUME NEW o \in Orders, OneWriter(o), UNCHANGED jobVars,
         orders'[o].content = orders[o].content, orders'[o].items = orders[o].items,
         RestWrites(o)' <=> RestWrites(o), RestWrites(o) => rest' = rest
  PROVE  OneWriter(o)'
  BY WriterFrame DEF jobVars, Writers

(* The same, for a step of one thread that was and is not writing. *)
LEMMA JobsFrame ==
  ASSUME NEW o \in Orders, OneWriter(o), UNCHANGED rest,
         orders'[o].content = orders[o].content, orders'[o].items = orders[o].items,
         \A k \in Jobs : \/ /\ pc'[k] = pc[k] /\ target'[k] = target[k]
                            /\ left'[k] = left[k]
                         \/ pc[k] \notin Writing /\ pc'[k] \notin Writing
  PROVE  OneWriter(o)'
  <1>1. \A j \in Jobs : /\ j \in Writers(o)' <=> j \in Writers(o)
                        /\ j \in Writers(o) => pc'[j] = pc[j] /\ left'[j] = left[j]
    BY DEF Writers
  <1>2. RestWrites(o)' <=> RestWrites(o)
    BY DEF RestWrites
  <1>3. QED
    BY <1>1, <1>2, WriterFrame

(* The coroutines and the steps of a thread outside its rewriting. *)
LEMMA CallsKeepWriters ==
  ASSUME BaseInv, NEW o \in Orders, OneWriter(o), NEW c \in Calls,
         \/ Loop(c) \/ Timeout(c) \/ EndCall(c)
         \/ \E a \in Asks : Request(c, a)
  PROVE  OneWriter(o)'
  <1> USE DEF BaseInv, TypeOK, TypeJobs
  <1>1. CASE Submit(c)
    <2>1. Current(c) \in Jobs
      BY <1>1, CurrentIsJob DEF Submit
    <2>2. ~Submitted(Current(c))
      BY <1>1, CallsAssumption DEF Submit, Submitted, Current, TypeCalls, Attempts
    <2>3. pc[Current(c)] = "none"
      BY <2>1, <2>2 DEF JobInv, JobOk
    <2>4. QED
      BY <1>1, <2>1, <2>3, JobsFrame DEF Submit, dbVars, restVars, Writing
  <1>2. CASE ResumeWritten(c) \/ ResumeUnwritten(c) \/ ResumeFailed(c)
    BY <1>2, JobsFrame
       DEF ResumeWritten, ResumeUnwritten, ResumeFailed, dbVars, restVars, Writing
  <1>3. CASE Finish(c)
    BY <1>3, JobsFrame DEF Finish, restVars, Writing
  <1>4. CASE Timeout(c) \/ EndCall(c)
    BY <1>4, JobsFrame
       DEF Timeout, EndCall, Abandon, dbVars, restVars, Writing, Pending
  <1>5. CASE UNCHANGED <<jobVars, orders, rest>>
    BY <1>5, RestFrame DEF RestWrites
  <1>6. QED
    BY <1>1, <1>2, <1>3, <1>4, <1>5
       DEF Loop, StartCall, Refuse, Request, dbVars, restVars

LEMMA ThreadsKeepWriters ==
  ASSUME BaseInv, NEW o \in Orders, OneWriter(o), NEW j \in Jobs,
         \/ StartJob(j) \/ ReadSession(j) \/ Verify(j) \/ Lookup(j) \/ WriteLog(j)
         \/ FailJob(j) /\ (pc[j] \notin Writing \/ target[j] # o)
  PROVE  OneWriter(o)'
  <1> USE DEF BaseInv, TypeOK, TypeJobs, Writing
  <1>1. CASE StartJob(j)
    BY <1>1, JobsFrame DEF StartJob, JobStep, dbVars, restVars
  <1>2. CASE ReadSession(j)
    BY <1>2, JobsFrame DEF ReadSession, JobStep, dbVars, restVars
  <1>3. CASE Verify(j)
    BY <1>3, JobsFrame DEF Verify, JobStep, dbVars, restVars
  <1>4. CASE Lookup(j)
    <2>1. /\ pc[j] \notin Writing /\ pc'[j] \notin Writing
          /\ \A k \in Jobs \ {j} : pc'[k] = pc[k] /\ target'[k] = target[k]
          /\ UNCHANGED <<left, orders, rest>>
      BY <1>4 DEF Lookup, JobStep, dbVars, restVars
    <2>2. QED
      BY <2>1, JobsFrame
  <1>5. CASE WriteLog(j)
    BY <1>5, JobsFrame DEF WriteLog, JobStep, dbVars, restVars
  <1>6. CASE FailJob(j) /\ pc[j] \notin Writing
    BY <1>6, JobsFrame DEF FailJob, dbVars, restVars
  <1>7. CASE FailJob(j) /\ target[j] # o
    <2>1. \A k \in Jobs : /\ k \in Writers(o)' <=> k \in Writers(o)
                          /\ k \in Writers(o) => pc'[k] = pc[k] /\ left'[k] = left[k]
      BY <1>7 DEF FailJob, Writers
    <2>2. QED
      BY <1>7, <2>1, WriterFrame DEF FailJob, RestWrites, dbVars, restVars
  <1>8. QED
    BY <1>1, <1>2, <1>3, <1>4, <1>5, <1>6, <1>7

(* A thread that rewrites another order. *)
LEMMA OtherRow ==
  ASSUME BaseInv, NEW o \in Orders, OneWriter(o), NEW j \in Jobs, target'[j] # o,
         \/ InsertOrder(j)
         \/ /\ target[j] # o
            /\ UpdateOrder(j) \/ DeleteItems(j) \/ InsertItem(j)
  PROVE  OneWriter(o)'
  <1> USE DEF BaseInv, TypeOK, TypeJobs, Writing
  <1>1. orders'[o] = orders[o]
    BY DEF InsertOrder, UpdateOrder, DeleteItems, InsertItem, TypeDb
  <1>2. /\ pc[j] \notin Writing \/ target[j] # o
        /\ \A k \in Jobs \ {j} :
             pc'[k] = pc[k] /\ target'[k] = target[k] /\ left'[k] = left[k]
        /\ UNCHANGED rest
    BY DEF InsertOrder, UpdateOrder, DeleteItems, InsertItem, JobStep, restVars
  <1>3. \A k \in Jobs : /\ k \in Writers(o)' <=> k \in Writers(o)
                        /\ k \in Writers(o) => pc'[k] = pc[k] /\ left'[k] = left[k]
    BY <1>2 DEF Writers
  <1>4. QED
    BY <1>1, <1>2, <1>3, WriterFrame DEF RestWrites

LEMMA InsertOrderWrites ==
  ASSUME BaseInv, WriterInv, NEW o \in Orders, Exists(o)', ~torn'[o],
         NEW j \in Jobs, InsertOrder(j)
  PROVE  OneWriter(o)'
  <1> USE DEF BaseInv, TypeOK, TypeJobs, Writing
  <1>1. target'[j] = lastId + 1 /\ UNCHANGED <<torn, rest>>
    BY DEF InsertOrder, ghosts, restVars
  <1>2. CASE o # lastId + 1
    <2>1. orders'[o] = orders[o]
      BY <1>2 DEF InsertOrder, TypeDb
    <2>2. Exists(o) /\ ~torn[o]
      BY <1>1, <2>1 DEF Exists
    <2>3. QED
      BY <1>1, <1>2, <2>2, OtherRow DEF WriterInv
  <1>3. CASE o = lastId + 1
    <2>1. ~Exists(o)
      BY <1>3, CallsAssumption DEF DbInv, TypeDb
    <2>2. Writers(o) = {} /\ ~RestWrites(o)
      BY <2>1 DEF Writers, RestWrites, JobInv, JobOk, RestInv
    <2>3. Writers(o)' = {j}
      BY <1>3, <2>2 DEF InsertOrder, JobStep, Writers
    <2>4. ~RestWrites(o)'
      BY <1>1, <2>2 DEF RestWrites
    <2>5. left'[j] = ItemRows /\ pc'[j] = "insert"
      BY DEF InsertOrder, JobStep
    <2>6. orders'[o].content = ReqOf(j) /\ orders'[o].items = NoRows
      BY <1>3 DEF InsertOrder, TypeDb, NoOrder
    <2>7. JobProgress(j, o)'
      BY <2>5, <2>6, RowsZero, CallsAssumption DEF JobProgress
    <2>8. QED
      BY <2>3, <2>4, <2>7 DEF OneWriter, Contended
  <1>4. QED
    BY <1>2, <1>3

LEMMA UpdateOrderWrites ==
  ASSUME BaseInv, WriterInv, NEW o \in Orders, Exists(o)', ~torn'[o],
         NEW j \in Jobs, UpdateOrder(j)
  PROVE  OneWriter(o)'
  <1> USE DEF BaseInv, TypeOK, TypeJobs, Writing
  <1>1. target[j] \in Orders /\ target'[j] = target[j] /\ UNCHANGED rest
    BY DEF UpdateOrder, JobStep, JobInv, JobOk, restVars
  <1>2. CASE o # target[j]
    <2>1. orders'[o] = orders[o] /\ torn'[o] = torn[o]
      BY <1>2 DEF UpdateOrder, TypeDb, TypeGhosts
    <2>2. Exists(o) /\ ~torn[o]
      BY <2>1 DEF Exists
    <2>3. QED
      BY <1>1, <1>2, <2>2, OtherRow DEF WriterInv
  <1>3. CASE o = target[j]
    <2>1. torn'[o] = Contended(o)
      BY <1>3 DEF UpdateOrder, TypeGhosts
    <2>2. Writers(o) = {} /\ ~RestWrites(o)
      BY <2>1 DEF Contended
    <2>3. Writers(o)' = {j}
      BY <1>3, <2>2 DEF UpdateOrder, JobStep, Writers
    <2>4. ~RestWrites(o)'
      BY <1>1, <2>2 DEF RestWrites
    <2>5. pc'[j] = "delete" /\ orders'[o].content = ReqOf(j)
      <3>1. orders[o] \in Rows
        BY DEF TypeDb
      <3>2. QED
        BY <1>3, <3>1, RowEditKeeps DEF UpdateOrder, JobStep, TypeDb
    <2>6. JobProgress(j, o)'
      BY <2>5 DEF JobProgress
    <2>7. QED
      BY <2>3, <2>4, <2>6 DEF OneWriter, Contended
  <1>4. QED
    BY <1>2, <1>3

LEMMA DeleteItemsWrites ==
  ASSUME BaseInv, WriterInv, NEW o \in Orders, Exists(o)', ~torn'[o],
         NEW j \in Jobs, DeleteItems(j)
  PROVE  OneWriter(o)'
  <1> USE DEF BaseInv, TypeOK, TypeJobs, Writing
  <1>1. /\ target[j] \in Orders /\ target'[j] = target[j] /\ UNCHANGED <<rest, torn>>
        /\ pc[j] = "delete" /\ pc'[j] = "insert" /\ left'[j] = ItemRows
    BY DEF DeleteItems, JobStep, JobInv, JobOk, restVars, ghosts
  <1>2. orders[o] \in Rows
    BY DEF TypeDb
  <1>3. OneWriter(o)
    <2>1. orders'[o].by = orders[o].by
      BY <1>1, <1>2, RowEditKeeps DEF DeleteItems, TypeDb
    <2>2. QED
      BY <1>1, <2>1 DEF WriterInv, Exists
  <1>4. CASE o # target[j]
    BY <1>1, <1>3, <1>4, OtherRow
  <1>5. CASE o = target[j]
    <2>1. Writers(o) = {j} /\ ~RestWrites(o)
      BY <1>1, <1>3, <1>5 DEF OneWriter, Writers
    <2>2. Writers(o)' = {j}
      BY <1>1, <1>5, <2>1 DEF DeleteItems, JobStep, Writers
    <2>3. ~RestWrites(o)'
      BY <1>1, <2>1 DEF RestWrites
    <2>4. orders'[o].content = ReqOf(j) /\ orders'[o].items = NoRows
      <3>1. orders[o].content = ReqOf(j)
        BY <1>3, <2>1 DEF OneWriter, JobProgress
      <3>2. orders'[o] = [orders[o] EXCEPT !.items = NoRows]
        BY <1>5 DEF DeleteItems, TypeDb
      <3>3. QED
        BY <1>2, <3>1, <3>2 DEF Rows
    <2>5. JobProgress(j, o)'
      BY <1>1, <2>4, RowsZero, CallsAssumption DEF JobProgress
    <2>6. QED
      BY <2>2, <2>3, <2>5 DEF OneWriter, Contended
  <1>6. QED
    BY <1>4, <1>5

LEMMA InsertItemWrites ==
  ASSUME BaseInv, WriterInv, NEW o \in Orders, Exists(o)', ~torn'[o],
         NEW j \in Jobs, InsertItem(j)
  PROVE  OneWriter(o)'
  <1> USE DEF BaseInv, TypeOK, TypeJobs, Writing
  <1>1. /\ target[j] \in Orders /\ target'[j] = target[j] /\ UNCHANGED <<rest, torn>>
        /\ pc[j] = "insert" /\ left[j] \in 1..ItemRows /\ left'[j] = left[j] - 1
        /\ \/ left[j] # 1 /\ pc'[j] = "insert"
           \/ left[j] = 1 /\ pc'[j] \in {"status", "done"}
    BY CallsAssumption DEF InsertItem, AfterItems, JobStep, JobInv, JobOk, restVars, ghosts
  <1>2. orders[o] \in Rows
    BY DEF TypeDb
  <1>3. OneWriter(o)
    <2>1. orders'[o].by = orders[o].by
      BY <1>1, <1>2, RowEditKeeps DEF InsertItem, TypeDb
    <2>2. QED
      BY <1>1, <2>1 DEF WriterInv, Exists
  <1>4. CASE o # target[j]
    BY <1>1, <1>3, <1>4, OtherRow
  <1>5. CASE o = target[j]
    <2>1. Writers(o) = {j} /\ ~RestWrites(o)
      BY <1>1, <1>3, <1>5 DEF OneWriter, Writers
    <2>2. ~RestWrites(o)'
      BY <1>1, <2>1 DEF RestWrites
    <2>3. orders[o].content = ReqOf(j) /\ orders[o].items = RowsOf(ReqOf(j), ItemRows - left[j])
      BY <1>1, <1>3, <2>1 DEF OneWriter, JobProgress
    <2>4. /\ orders'[o].content = orders[o].content
          /\ orders'[o].items = [orders[o].items EXCEPT ![ReqOf(j)] = @ + 1]
      <3>1. orders'[o] = [orders[o] EXCEPT !.items = [orders[o].items EXCEPT ![ReqOf(j)] = @ + 1]]
        BY <1>5 DEF InsertItem, TypeDb
      <3>2. QED
        BY <1>2, <3>1 DEF Rows
    <2>5. orders'[o].items = RowsOf(ReqOf(j), ItemRows - left'[j])
      <3>1. ReqOf(j) \in Contents /\ ItemRows - left[j] \in Nat
        BY <1>1, JobParts, CallsAssumption DEF Contents
      <3>2. (ItemRows - left[j]) + 1 = ItemRows - left'[j]
        BY <1>1, CallsAssumption
      <3>3. QED
        BY <2>3, <2>4, <3>1, <3>2, RowsMore
    <2>6. CASE left[j] # 1
      <3>1. Writers(o)' = {j}
        BY <1>1, <1>5, <2>1, <2>6 DEF InsertItem, JobStep, Writers
      <3>2. JobProgress(j, o)'
        BY <1>1, <2>3, <2>4, <2>5 DEF JobProgress
      <3>3. QED
        BY <2>2, <3>1, <3>2 DEF OneWriter, Contended
    <2>7. CASE left[j] = 1
      <3>1. Writers(o)' = {}
        BY <1>1, <1>5, <2>1, <2>7 DEF InsertItem, JobStep, Writers
      <3>2. ItemRows - left'[j] = ItemRows
        BY <1>1, <2>7, CallsAssumption
      <3>3. QED
        BY <2>2, <2>3, <2>4, <2>5, <3>1, <3>2 DEF OneWriter, Contended
    <2>8. QED
      BY <2>6, <2>7
  <1>6. QED
    BY <1>4, <1>5

(* A status or a flag of a row is rewritten: content and items stay. *)
LEMMA RowEditStays ==
  ASSUME TypeDb, NEW o \in Orders, NEW p \in Orders, NEW x,
         \/ orders' = [orders EXCEPT ![p].status = x]
         \/ orders' = [orders EXCEPT ![p].deleted = x]
         \/ orders' = [orders EXCEPT ![p].aged = x]
  PROVE  orders'[o].content = orders[o].content /\ orders'[o].items = orders[o].items
  <1>1. ASSUME NEW r, orders' = [orders EXCEPT ![p] = r],
               r.content = orders[p].content, r.items = orders[p].items
        PROVE  orders'[o].content = orders[o].content /\ orders'[o].items = orders[o].items
    BY <1>1 DEF TypeDb
  <1>2. orders[p] \in Rows
    BY DEF TypeDb
  <1>3. /\ [orders[p] EXCEPT !.status = x].content = orders[p].content
        /\ [orders[p] EXCEPT !.status = x].items = orders[p].items
        /\ [orders[p] EXCEPT !.deleted = x].content = orders[p].content
        /\ [orders[p] EXCEPT !.deleted = x].items = orders[p].items
        /\ [orders[p] EXCEPT !.aged = x].content = orders[p].content
        /\ [orders[p] EXCEPT !.aged = x].items = orders[p].items
    BY <1>2 DEF Rows
  <1>4. QED
    BY <1>1, <1>3

(* The dashboard and the world, the statements that rewrite an order apart. *)
LEMMA RestKeepsWriters ==
  ASSUME BaseInv, NEW o \in Orders, OneWriter(o),
         \/ \E p \in Orders : \/ SoftDelete(p) \/ Restore(p) \/ OpenCancel(p) \/ Age(p)
                              \/ \E s \in AllStatuses : PutStatus(p, s)
                              \/ \E s \in AllStatuses \cup {"keep"} : OpenEdit(p, s)
         \/ RestCancel
         \/ RestFail /\ ~RestWrites(o)
  PROVE  OneWriter(o)'
  <1> USE DEF BaseInv, TypeOK
  <1>0. \A p \in Orders : orders[p] \in Rows
    BY DEF TypeDb
  <1>1. ASSUME NEW p \in Orders,
               \/ SoftDelete(p) \/ Restore(p) \/ Age(p)
               \/ \E s \in AllStatuses : PutStatus(p, s)
        PROVE  OneWriter(o)'
    <2>1. orders'[o].content = orders[o].content /\ orders'[o].items = orders[o].items
      <3>1. orders[p] \in Rows
        BY <1>0
      <3>2. CASE SoftDelete(p)
        BY <3>1, <3>2, RowEditStays DEF SoftDelete
      <3>3. CASE Restore(p)
        BY <3>1, <3>3, RowEditStays DEF Restore
      <3>4. CASE Age(p)
        BY <3>1, <3>4, RowEditStays DEF Age
      <3>5. ASSUME NEW s \in AllStatuses, PutStatus(p, s)
            PROVE  /\ orders'[o].content = orders[o].content
                   /\ orders'[o].items = orders[o].items
        BY <3>1, <3>5, RowEditStays DEF PutStatus
      <3>6. QED
        BY <1>1, <3>2, <3>3, <3>4, <3>5
    <2>2. UNCHANGED <<jobVars, rest>>
      BY <1>1 DEF SoftDelete, Restore, Age, PutStatus, restVars
    <2>3. QED
      BY <2>1, <2>2, RestFrame DEF RestWrites
  <1>2. ASSUME NEW p \in Orders,
               \/ OpenCancel(p)
               \/ \E s \in AllStatuses \cup {"keep"} : OpenEdit(p, s)
        PROVE  OneWriter(o)'
    <2>1. UNCHANGED <<jobVars, orders>> /\ rest.pc = "idle"
      BY <1>2 DEF OpenCancel, OpenEdit, RestBegins, LoopFree, dbVars
    <2>2. rest'.pc \in {"cancel", "update"}
      BY <1>2 DEF OpenCancel, OpenEdit, Idle
    <2>3. ~RestWrites(o) /\ ~RestWrites(o)'
      BY <2>1, <2>2 DEF RestWrites, Writing
    <2>4. QED
      BY <2>1, <2>3, RestFrame
  <1>3. CASE RestCancel
    <2>1. rest.order \in Orders
      BY <1>3 DEF RestCancel, RestInv
    <2>2. orders'[o].content = orders[o].content /\ orders'[o].items = orders[o].items
      <3>1. \A x : /\ [orders[rest.order] EXCEPT !.status = x].content
                        = orders[rest.order].content
                   /\ [orders[rest.order] EXCEPT !.status = x].items
                        = orders[rest.order].items
        BY <1>0, <2>1 DEF Rows
      <3>2. CASE o = rest.order
        BY <1>3, <3>1, <3>2 DEF RestCancel, TypeDb
      <3>3. CASE o # rest.order
        BY <1>3, <3>3 DEF RestCancel, TypeDb
      <3>4. QED
        BY <3>2, <3>3
    <2>3. ~RestWrites(o) /\ ~RestWrites(o)' /\ UNCHANGED jobVars
      BY <1>3 DEF RestCancel, RestWrites, Writing, Idle
    <2>4. QED
      BY <2>2, <2>3, RestFrame
  <1>4. CASE RestFail /\ ~RestWrites(o)
    <2>1. ~RestWrites(o)' /\ UNCHANGED <<jobVars, orders>>
      BY <1>4 DEF RestFail, RestWrites, Writing, Idle, dbVars
    <2>2. QED
      BY <1>4, <2>1, RestFrame
  <1>5. QED
    BY <1>1, <1>2, <1>3, <1>4

LEMMA RestRewrites ==
  ASSUME BaseInv, WriterInv, NEW o \in Orders, Exists(o)', ~torn'[o],
         RestUpdate \/ RestDelete \/ RestInsert
  PROVE  OneWriter(o)'
  <1> USE DEF BaseInv, TypeOK, Writing
  <1> DEFINE p == rest.order
  <1>1. \/ p \in Orders /\ rest'.order = p /\ UNCHANGED jobVars
        \/ RestInsert
    BY DEF RestUpdate, RestDelete, RestInv, TypeRest
  <1>2. p \in Orders /\ UNCHANGED jobVars /\ orders[o] \in Rows /\ orders[p] \in Rows
    BY DEF RestUpdate, RestDelete, RestInsert, RestInv, TypeDb
  <1>3. CASE o # p
    <2>1. orders'[o] = orders[o] /\ torn'[o] = torn[o]
      BY <1>3 DEF RestUpdate, RestDelete, RestInsert, TypeDb, TypeGhosts, ghosts
    <2>2. OneWriter(o)
      BY <2>1 DEF WriterInv, Exists
    <2>3. ~RestWrites(o)
      BY <1>3 DEF RestWrites
    <2>4. ~RestWrites(o)'
      <3>1. rest'.pc = "idle" \/ rest'.order = p
        <4>1. CASE RestDelete
          <5>1. rest' = [rest EXCEPT !.pc = "insert", !.left = ItemRows]
            BY <4>1 DEF RestDelete
          <5>2. QED
            BY <5>1 DEF TypeRest
        <4>2. CASE RestUpdate
          BY <4>2 DEF RestUpdate, TypeRest
        <4>3. CASE RestInsert
          BY <4>3 DEF RestInsert, Idle, TypeRest
        <4>4. QED
          BY <4>1, <4>2, <4>3
      <3>2. QED
        BY <1>3, <3>1 DEF RestWrites
    <2>5. QED
      BY <1>2, <2>1, <2>2, <2>3, <2>4, RestFrame
  <1>4. CASE o = p /\ RestUpdate
    <2>1. Writers(o) = {}
      BY <1>4 DEF RestUpdate, TypeGhosts
    <2>2. Writers(o)' = {}
      BY <1>2, <2>1 DEF Writers, jobVars
    <2>3. rest'.pc = "delete"
      BY <1>4 DEF RestUpdate, TypeRest
    <2>4. orders'[o].content = Dash
      BY <1>2, <1>4 DEF RestUpdate, TypeDb, Rows
    <2>5. RestProgress(o)'
      BY <2>3, <2>4 DEF RestProgress
    <2>6. RestWrites(o)'
      BY <1>1, <1>4, <2>3 DEF RestWrites, RestUpdate, RestInsert
    <2>7. QED
      BY <2>2, <2>5, <2>6 DEF OneWriter, Contended
  <1>5. CASE o = p /\ RestDelete
    <2>1. OneWriter(o)
      <3>1. orders'[o].by = orders[o].by
        BY <1>2, <1>5, RowEditKeeps DEF RestDelete, TypeDb
      <3>2. QED
        BY <1>5, <3>1 DEF RestDelete, WriterInv, Exists, ghosts
    <2>2. RestWrites(o)
      BY <1>5 DEF RestDelete, RestWrites
    <2>3. Writers(o)' = {}
      BY <1>2, <2>1, <2>2 DEF OneWriter, Writers, jobVars
    <2>4. rest'.pc = "insert" /\ rest'.order = o /\ rest'.left = ItemRows
      <3>1. rest' \in [pc : {"insert"}, order : {rest.order},
                       status : AllStatuses \cup {"keep"}, left : {ItemRows}]
        BY <1>5 DEF RestDelete, TypeRest
      <3>2. QED
        BY <1>5, <3>1
    <2>5. orders'[o].content = Dash /\ orders'[o].items = NoRows
      <3>1. orders[o].content = Dash
        BY <2>1, <2>2 DEF OneWriter, RestProgress
      <3>2. orders'[o] = [orders[o] EXCEPT !.items = NoRows]
        BY <1>5 DEF RestDelete, TypeDb
      <3>3. QED
        BY <1>2, <3>1, <3>2 DEF Rows
    <2>6. RestProgress(o)' /\ RestWrites(o)'
      BY <2>4, <2>5, RowsZero, CallsAssumption DEF RestProgress, RestWrites
    <2>7. QED
      BY <2>3, <2>6 DEF OneWriter, Contended
  <1>6. CASE o = p /\ RestInsert
    <2>1. OneWriter(o)
      <3>1. orders'[o].by = orders[o].by
        BY <1>2, <1>6, RowEditKeeps DEF RestInsert, TypeDb
      <3>2. QED
        BY <1>6, <3>1 DEF RestInsert, WriterInv, Exists, ghosts
    <2>2. RestWrites(o) /\ rest.pc = "insert" /\ rest.left \in 1..ItemRows
      BY <1>6, CallsAssumption DEF RestInsert, RestWrites, TypeRest, RestInv
    <2>3. Writers(o)' = {}
      BY <1>2, <2>1, <2>2 DEF OneWriter, Writers, jobVars
    <2>4. orders[o].content = Dash /\ orders[o].items = RowsOf(Dash, ItemRows - rest.left)
      BY <2>1, <2>2 DEF OneWriter, RestProgress
    <2>5. /\ orders'[o].content = Dash
          /\ orders'[o].items = [orders[o].items EXCEPT ![Dash] = @ + 1]
      <3>1. orders'[o] = [orders[o] EXCEPT !.items = [orders[o].items EXCEPT ![Dash] = @ + 1]]
        BY <1>6 DEF RestInsert, TypeDb
      <3>2. QED
        BY <1>2, <2>4, <3>1 DEF Rows
    <2>6. orders'[o].items = RowsOf(Dash, (ItemRows - rest.left) + 1)
      <3>1. Dash \in Contents /\ ItemRows - rest.left \in Nat
        BY <2>2, CallsAssumption DEF Contents
      <3>2. QED
        BY <2>4, <2>5, <3>1, RowsMore
    <2>7. CASE rest.left = 1
      <3>1. rest'.pc = "idle" /\ (ItemRows - rest.left) + 1 = ItemRows
        BY <1>6, <2>7, CallsAssumption DEF RestInsert, Idle
      <3>2. QED
        BY <2>3, <2>5, <2>6, <3>1 DEF OneWriter, Contended, RestWrites
    <2>8. CASE rest.left # 1
      <3>1. rest'.pc = "insert" /\ rest'.order = o /\ rest'.left = rest.left - 1
        BY <1>6, <2>2, <2>8 DEF RestInsert, TypeRest
      <3>2. (ItemRows - rest.left) + 1 = ItemRows - rest'.left
        BY <2>2, <3>1, CallsAssumption
      <3>3. RestProgress(o)' /\ RestWrites(o)'
        BY <2>5, <2>6, <3>1, <3>2 DEF RestProgress, RestWrites
      <3>4. QED
        BY <2>3, <3>3 DEF OneWriter, Contended
    <2>9. QED
      BY <2>7, <2>8
  <1>7. QED
    BY <1>3, <1>4, <1>5, <1>6

LEMMA CrashKeepsWriters ==
  ASSUME BaseInv, WriterInv, NEW o \in Orders, Exists(o), ~torn'[o], Crash
  PROVE  OneWriter(o)'
  <1> USE DEF BaseInv, TypeOK
  <1>1. torn'[o] = (torn[o] \/ Contended(o))
    BY DEF Crash
  <1>2. ~Contended(o) /\ OneWriter(o)
    BY <1>1 DEF WriterInv
  <1>3. Writers(o)' = {}
    BY DEF Crash, Writers, Writing, Busy, Running, TypeJobs
  <1>4. ~RestWrites(o)' /\ UNCHANGED orders
    BY DEF Crash, RestWrites, Idle, Writing, dbVars
  <1>5. QED
    BY <1>2, <1>3, <1>4 DEF OneWriter, Contended

LEMMA WriterStep == BaseInv /\ WriterInv /\ [Next]_vars => WriterInv'
  <1> SUFFICES ASSUME BaseInv, WriterInv, [Next]_vars,
                      NEW o \in Orders, Exists(o)', ~torn'[o]
               PROVE  OneWriter(o)'
    BY DEF WriterInv
  <1> DEFINE Same == orders'[o].by = orders[o].by /\ torn'[o] = torn[o]
  <1>0. Same => OneWriter(o)
    BY DEF WriterInv, Exists
  <1>1. ASSUME NEW c \in Calls,
               \/ Loop(c) \/ Timeout(c) \/ EndCall(c)
               \/ \E a \in Asks : Request(c, a)
        PROVE  OneWriter(o)'
    <2>1. Same
      BY <1>1
         DEF Loop, StartCall, Refuse, Request, Submit, ResumeWritten, ResumeUnwritten,
             ResumeFailed, Finish, Timeout, EndCall, dbVars, ghosts
    <2>2. QED
      BY <1>0, <1>1, <2>1, CallsKeepWriters
  <1>2. ASSUME NEW j \in Jobs,
               StartJob(j) \/ ReadSession(j) \/ Verify(j) \/ Lookup(j) \/ WriteLog(j)
        PROVE  OneWriter(o)'
    <2>1. Same
      BY <1>2 DEF StartJob, ReadSession, Verify, Lookup, WriteLog, dbVars, ghosts
    <2>2. QED
      BY <1>0, <1>2, <2>1, ThreadsKeepWriters
  <1>3. ASSUME NEW j \in Jobs, FailJob(j) PROVE OneWriter(o)'
    <2>1. pc[j] \notin Writing \/ target[j] # o
      BY <1>3 DEF FailJob, BaseInv, TypeOK, TypeGhosts
    <2>2. Same
      BY <1>3, <2>1 DEF FailJob, dbVars, BaseInv, TypeOK, TypeGhosts
    <2>3. QED
      BY <1>0, <1>3, <2>1, <2>2, ThreadsKeepWriters
  <1>4. ASSUME NEW j \in Jobs, SetStatus(j) PROVE OneWriter(o)'
    <2>1. /\ orders'[o].content = orders[o].content /\ orders'[o].items = orders[o].items
          /\ Same
      <3>1. orders[target[j]] \in Rows /\ target[j] \in Orders
        BY <1>4 DEF SetStatus, JobStep, BaseInv, TypeOK, TypeDb, JobInv, JobOk
      <3>2. \A x : LET r == [orders[target[j]] EXCEPT !.status = x]
                   IN /\ r.content = orders[target[j]].content
                      /\ r.items = orders[target[j]].items
                      /\ r.by = orders[target[j]].by
        BY <3>1 DEF Rows
      <3>3. CASE o = target[j]
        BY <1>4, <3>2, <3>3 DEF SetStatus, BaseInv, TypeOK, TypeDb, ghosts
      <3>4. CASE o # target[j]
        BY <1>4, <3>4 DEF SetStatus, BaseInv, TypeOK, TypeDb, ghosts
      <3>5. QED
        BY <3>3, <3>4
    <2>2. /\ UNCHANGED rest
          /\ \A k \in Jobs : \/ /\ pc'[k] = pc[k] /\ target'[k] = target[k]
                                /\ left'[k] = left[k]
                             \/ pc[k] \notin Writing /\ pc'[k] \notin Writing
      BY <1>4 DEF SetStatus, JobStep, Writing, BaseInv, TypeOK, TypeJobs, restVars
    <2>3. QED
      BY <1>0, <2>1, <2>2, JobsFrame
  <1>5. ASSUME NEW j \in Jobs,
               InsertOrder(j) \/ UpdateOrder(j) \/ DeleteItems(j) \/ InsertItem(j)
        PROVE  OneWriter(o)'
    BY <1>5, InsertOrderWrites, UpdateOrderWrites, DeleteItemsWrites, InsertItemWrites
  <1>6. CASE \/ \E p \in Orders : \/ SoftDelete(p) \/ Restore(p) \/ OpenCancel(p) \/ Age(p)
                                  \/ \E s \in AllStatuses : PutStatus(p, s)
                                  \/ \E s \in AllStatuses \cup {"keep"} : OpenEdit(p, s)
             \/ RestCancel
    <2>1. Exists(o) /\ torn'[o] = torn[o]
      <3>1. UNCHANGED torn
        BY <1>6 DEF SoftDelete, Restore, OpenCancel, Age, PutStatus, OpenEdit, RestCancel, ghosts
      <3>2. UNCHANGED lastId
        BY <1>6 DEF SoftDelete, Restore, OpenCancel, Age, PutStatus, OpenEdit, RestCancel, dbVars
      <3>3. DbInv /\ DbInv'
        BY DbStep DEF BaseInv
      <3>4. QED
        BY <3>1, <3>2, <3>3 DEF DbInv, Exists
    <2>2. OneWriter(o)
      BY <2>1 DEF WriterInv
    <2>3. QED
      BY <1>6, <2>2, RestKeepsWriters
  <1>7. CASE RestUpdate \/ RestDelete \/ RestInsert
    BY <1>7, RestRewrites
  <1>8. CASE RestFail
    <2>1. ~RestWrites(o)
      BY <1>8 DEF RestFail, RestWrites, BaseInv, TypeOK, TypeGhosts
    <2>2. Same
      BY <1>8, <2>1 DEF RestFail, RestWrites, BaseInv, TypeOK, TypeGhosts, TypeRest, dbVars
    <2>3. QED
      BY <1>0, <1>8, <2>1, <2>2, RestKeepsWriters
  <1>9. CASE Crash
    <2>1. Exists(o)
      BY <1>9 DEF Crash, dbVars, Exists
    <2>2. QED
      BY <1>9, <2>1, CrashKeepsWriters
  <1>10. CASE UNCHANGED vars
    BY <1>0, <1>10, RestFrame DEF vars, jobVars, dbVars, restVars, ghosts, RestWrites
  <1>11. QED
    BY <1>1, <1>2, <1>3, <1>4, <1>5, <1>6, <1>7, <1>8, <1>9, <1>10
       DEF Next, Thread, Rest

LEMMA WriterInit == Init => WriterInv
  BY CallsAssumption DEF Init, WriterInv, Exists, NoOrder, Orders

(* While an order is not torn, one writer at most is rewriting it, and its   *)
(* item rows are where that writer has got to.                               *)
THEOREM OneWriterAtATime == Spec => []WriterInv
  <1>1. Init => BaseInv /\ WriterInv
    BY BaseInit, WriterInit
  <1>2. BaseInv /\ WriterInv /\ [Next]_vars => (BaseInv /\ WriterInv)'
    BY BaseStep, WriterStep
  <1>3. QED
    BY <1>1, <1>2, PTL DEF Spec

(* An order at rest that was neither raced nor cut short shows the item rows *)
(* of its content, for every interleaving of the threads of update_order_    *)
(* details and create_order with the dashboard's update_order.               *)
THEOREM OrdersAreWhole == Spec => []WholeOrders
  <1>1. WriterInv => WholeOrders
    BY DEF WriterInv, OneWriter, WholeOrders
  <1>2. QED
    BY OneWriterAtATime, <1>1, PTL

(***************************************************************************)
(* What a call may do to orders: the proofs of OwnOrders, AnnouncedOnce,   *)
(* SingleOrder, NoStaleContent and SerialCallsDoNotTear, over BaseInv.     *)
(***************************************************************************)
Found   == {"created", "updated"}
Awaited == {"queued", "done"} \cup Running

(* A thread that rewrites an order, or has done so and was not heard yet. *)
Holds(j) == \/ pc[j] \in Writing \cup {"update", "status"}
            \/ pc[j] = "done" /\ mode[j] \in Found

Owns(c, o) == Exists(o) /\ OwnedBy(o) = CallerOf[c]

OwnInv ==
  /\ \A c \in Calls : active[c] # None => Owns(c, active[c])
  /\ \A j \in Jobs : Holds(j) => Owns(j[1], target[j])

(* An order has one creator, and is announced when that has nothing left to do. *)
Unwritten == {"none", "queued", "start", "verify", "create", "update"}

NewsInv ==
  /\ \A j \in Jobs : /\ pc[j] \in Unwritten => mode[j] = "none"
                     /\ pc[j] = "delete" => mode[j] = "updated"
                     /\ mode[j] = "created" => target[j] \in Orders /\ Exists(target[j])
  /\ \A j, k \in Jobs :
       mode[j] = "created" /\ mode[k] = "created" /\ target[j] = target[k] => j = k
  /\ \A o \in Orders :
       /\ news[o] <= 1
       /\ news[o] # 0 => \A j \in Jobs :
            mode[j] = "created" /\ target[j] = o => pc[j] = "over"
       /\ news[o] # 0 => Exists(o)

(* The current thread of a call has inserted the order and was not heard yet. *)
Making(c) == /\ phase[c] = "upsert"
             /\ pc[Current(c)] \in {"insert", "status", "done"}
             /\ mode[Current(c)] = "created"

(* What a call that nothing has disturbed knows of its orders. *)
OneThread(c) == \A j \in Jobs :
  j[1] = c /\ pc[j] \in Awaited => j = Current(c) /\ phase[c] = "upsert"

Remembered(c) == \A o \in OrdersOf(c) :
  Live(o) /\ phase[c] # "new" /\ (active[c] = o \/ Making(c))

OneOrder(c) == \A o, p \in OrdersOf(c) : o = p

(* What its thread goes by. *)
Knows(c, j) ==
  /\ pc[j] = "create" => OrdersOf(c) = {}
  /\ pc[j] = "verify" => target[j] = active[c]
  /\ pc[j] \in {"queued", "start"} /\ ask[ReqOf(j)].kind = "update"
       => target[j] = active[c]
  /\ Holds(j) => \A o \in OrdersOf(c) : o = target[j]

Directed(c) == \A j \in Jobs : j[1] = c => Knows(c, j)

Steady(c) == OneThread(c) /\ Remembered(c) /\ OneOrder(c) /\ Directed(c)

SteadyInv == \A c \in Calls : disturbed[c] \/ Steady(c)

(* No order shows a request that was not made. *)
ContentInv ==
  \A o \in Orders, c \in Calls, m \in 1..MaxRequests :
    orders[o].content = <<c, m>> => m <= req[c]

(* What it takes to tear an order. *)
TornInv ==
  /\ rest.pc # "idle" => restOps > 0
  /\ \A o \in Orders : torn[o] => Exists(o)
  /\ SerialCallsDoNotTear

CallsInv == OwnInv /\ NewsInv /\ SteadyInv /\ ContentInv /\ TornInv

-----------------------------------------------------------------------------
(* What a step can do to the row of an order. *)

(* What a row edit leaves of the row, field by field. *)
LEMMA Untouched ==
  ASSUME NEW r \in Rows, NEW x
  PROVE  /\ [r EXCEPT !.content = x].deleted = r.deleted
         /\ [r EXCEPT !.status = x].deleted = r.deleted
         /\ [r EXCEPT !.items = x].deleted = r.deleted
         /\ [r EXCEPT !.aged = x].deleted = r.deleted
  BY DEF Rows

(* The dashboard's UPDATE of content and status. *)
LEMMA DashEdit ==
  ASSUME NEW r \in Rows, NEW v, NEW x
  PROVE  /\ [r EXCEPT !.content = v, !.status = x].by = r.by
         /\ [r EXCEPT !.content = v, !.status = x].deleted = r.deleted
         /\ [r EXCEPT !.content = v, !.status = x].content = v
  BY DEF Rows

SameRow(o) ==
  /\ orders'[o].by = orders[o].by
  /\ orders'[o].deleted = orders[o].deleted
  /\ orders'[o].content = orders[o].content

LEMMA OneRowChanges ==
  ASSUME TypeDb, NEW o \in Orders, NEW p \in Orders, NEW r,
         orders' = [orders EXCEPT ![p] = r]
  PROVE  (o = p /\ orders'[o] = r) \/ (o # p /\ SameRow(o))
  BY DEF TypeDb, SameRow

(* The rewriting of an order: who rewrites it, and what becomes of its row. *)
LEMMA RowStep ==
  ASSUME BaseInv, [Next]_vars, NEW o \in Orders
  PROVE  \/ SameRow(o)
         \/ /\ SoftDelete(o) \/ Restore(o)
            /\ orders'[o].by = orders[o].by
            /\ orders'[o].content = orders[o].content
         \/ /\ \/ \E j \in Jobs : UpdateOrder(j) /\ target[j] = o
                                  /\ orders'[o].content = ReqOf(j)
               \/ RestUpdate /\ orders'[o].content = Dash
            /\ orders'[o].by = orders[o].by
            /\ orders'[o].deleted = orders[o].deleted
         \/ \E j \in Jobs : /\ InsertOrder(j) /\ o = lastId + 1
                            /\ orders'[o].by = ReqOf(j)
                            /\ orders'[o].content = ReqOf(j)
                            /\ ~orders'[o].deleted
  <1> DEFINE Goal == \/ SameRow(o)
                     \/ /\ SoftDelete(o) \/ Restore(o)
                        /\ orders'[o].by = orders[o].by
                        /\ orders'[o].content = orders[o].content
                     \/ /\ \/ \E j \in Jobs : UpdateOrder(j) /\ target[j] = o
                                              /\ orders'[o].content = ReqOf(j)
                           \/ RestUpdate /\ orders'[o].content = Dash
                        /\ orders'[o].by = orders[o].by
                        /\ orders'[o].deleted = orders[o].deleted
                     \/ \E j \in Jobs : /\ InsertOrder(j) /\ o = lastId + 1
                                        /\ orders'[o].by = ReqOf(j)
                                        /\ orders'[o].content = ReqOf(j)
                                        /\ ~orders'[o].deleted
  <1> USE DEF BaseInv, TypeOK
  <1>0. \A p \in Orders : orders[p] \in Rows
    BY DEF TypeDb
  <1>1. CASE orders' = orders
    BY <1>1 DEF SameRow
  <1>2. ASSUME NEW p \in Orders, NEW x,
               \/ orders' = [orders EXCEPT ![p].status = x]
               \/ orders' = [orders EXCEPT ![p].items = x]
               \/ orders' = [orders EXCEPT ![p].aged = x]
        PROVE  SameRow(o)
    <2>1. ASSUME NEW r, orders' = [orders EXCEPT ![p] = r], r.by = orders[p].by,
                 r.deleted = orders[p].deleted, r.content = orders[p].content
          PROVE  SameRow(o)
      BY <2>1, OneRowChanges DEF SameRow
    <2>2. orders[p] \in Rows
      BY <1>0
    <2>3. CASE orders' = [orders EXCEPT ![p].status = x]
      BY <2>1, <2>2, <2>3, RowEditKeeps, Untouched
    <2>4. CASE orders' = [orders EXCEPT ![p].items = x]
      BY <2>1, <2>2, <2>4, RowEditKeeps, Untouched
    <2>5. CASE orders' = [orders EXCEPT ![p].aged = x]
      BY <2>1, <2>2, <2>5, RowEditKeeps, Untouched
    <2>6. QED
      BY <1>2, <2>3, <2>4, <2>5
  <1>3. ASSUME NEW j \in Jobs, InsertOrder(j) PROVE Goal
    <2> DEFINE r == [NoOrder EXCEPT !.by = ReqOf(j), !.content = ReqOf(j)]
    <2>1. r.by = ReqOf(j) /\ r.content = ReqOf(j) /\ ~r.deleted
      BY DEF NoOrder
    <2>2. lastId + 1 \in Orders
      BY <1>3, CallsAssumption DEF InsertOrder, TypeDb, Orders
    <2>3. orders' = [orders EXCEPT ![lastId + 1] = r]
      BY <1>3 DEF InsertOrder
    <2> HIDE DEF r
    <2>4. (o = lastId + 1 /\ orders'[o] = r) \/ SameRow(o)
      BY <2>2, <2>3, OneRowChanges
    <2>5. QED
      BY <1>3, <2>1, <2>4
  <1>4. ASSUME NEW j \in Jobs, UpdateOrder(j) PROVE Goal
    <2>1. target[j] \in Orders
      BY <1>4 DEF UpdateOrder, JobStep, JobInv, JobOk
    <2>2. CASE o = target[j]
      <3>1. orders[o] \in Rows
        BY <1>0
      <3>2. orders'[o] = [orders[o] EXCEPT !.content = ReqOf(j)]
        BY <1>4, <2>2 DEF UpdateOrder, TypeDb
      <3>3. QED
        BY <1>4, <2>2, <3>1, <3>2, RowEditKeeps, Untouched
    <2>3. CASE o # target[j]
      BY <1>4, <2>1, <2>3 DEF UpdateOrder, TypeDb, SameRow
    <2>4. QED
      BY <2>2, <2>3
  <1>5. ASSUME NEW j \in Jobs, DeleteItems(j) \/ InsertItem(j) \/ SetStatus(j)
        PROVE  SameRow(o)
    <2>1. target[j] \in Orders
      BY <1>5 DEF DeleteItems, InsertItem, SetStatus, JobStep, JobInv, JobOk, Writing
    <2>2. CASE DeleteItems(j)
      BY <1>2, <2>1, <2>2 DEF DeleteItems
    <2>3. CASE InsertItem(j)
      BY <1>2, <2>1, <2>3 DEF InsertItem
    <2>4. CASE SetStatus(j)
      BY <1>2, <2>1, <2>4 DEF SetStatus, SameRow
    <2>5. QED
      BY <1>5, <2>2, <2>3, <2>4
  <1>6. ASSUME NEW p \in Orders, SoftDelete(p) \/ Restore(p) PROVE Goal
    <2>1. \E b \in BOOLEAN : orders' = [orders EXCEPT ![p].deleted = b]
      BY <1>6 DEF SoftDelete, Restore
    <2>2. CASE o = p
      BY <1>0, <1>6, <2>1, <2>2, RowEditKeeps DEF TypeDb
    <2>3. CASE o # p
      BY <2>1, <2>3 DEF TypeDb, SameRow
    <2>4. QED
      BY <2>2, <2>3
  <1>7. ASSUME NEW p \in Orders, Age(p) \/ \E s \in AllStatuses : PutStatus(p, s)
        PROVE  SameRow(o)
    BY <1>2, <1>7 DEF Age, PutStatus
  <1>8. CASE RestCancel \/ RestDelete \/ RestInsert
    <2>1. rest.order \in Orders
      BY <1>8 DEF RestCancel, RestDelete, RestInsert, RestInv
    <2>2. QED
      BY <1>2, <1>8, <2>1 DEF RestCancel, RestDelete, RestInsert
  <1>9. CASE RestUpdate
    <2> DEFINE q == orders[rest.order]
               x == IF rest.status = "keep" THEN q.status ELSE rest.status
               r == [q EXCEPT !.content = Dash, !.status = x]
    <2>1. rest.order \in Orders /\ q \in Rows
      BY <1>0, <1>9 DEF RestUpdate, RestInv
    <2>2. r.by = q.by /\ r.deleted = q.deleted /\ r.content = Dash
      BY <2>1, DashEdit
    <2>3. orders' = [orders EXCEPT ![rest.order] = r]
      BY <1>9 DEF RestUpdate
    <2> HIDE DEF r
    <2>4. (o = rest.order /\ orders'[o] = r) \/ SameRow(o)
      BY <2>1, <2>3, OneRowChanges
    <2>5. QED
      BY <1>9, <2>2, <2>4
  <1>10. QED
    BY <1>1, <1>3, <1>4, <1>5, <1>6, <1>7, <1>8, <1>9
       DEF Next, vars, dbVars, Loop, Thread, Rest, StartCall, Request, Refuse, Submit,
           ResumeWritten, ResumeUnwritten, ResumeFailed, Finish, Timeout, EndCall,
           StartJob, ReadSession, Verify, Lookup, WriteLog, FailJob,
           OpenCancel, OpenEdit, RestFail, Crash

(* An order keeps its creator, and with it its caller. *)
LEMMA CreatorStays ==
  ASSUME BaseInv, [Next]_vars, NEW o \in Orders, Exists(o)
  PROVE  /\ orders'[o].by = orders[o].by /\ Exists(o)'
         /\ \A c \in Calls : Owns(c, o) => Owns(c, o)'
  <1>1. ~(o = lastId + 1)
    BY CallsAssumption DEF BaseInv, TypeOK, TypeDb, DbInv
  <1>2. orders'[o].by = orders[o].by
    BY <1>1, RowStep DEF SameRow
  <1>3. QED
    BY <1>2 DEF Exists, Owns, OwnedBy
-----------------------------------------------------------------------------
(* Requests, dashboard operations and disturbances are counted up. *)
LEMMA CountsGrow ==
  ASSUME BaseInv, [Next]_vars, NEW c \in Calls
  PROVE  /\ req[c] <= req'[c] /\ (disturbed[c] => disturbed'[c])
         /\ restOps <= restOps'
  <1> USE CallsAssumption DEF BaseInv, TypeOK
  <1>0. req[c] \in Nat /\ restOps \in Nat /\ disturbed \in [Calls -> BOOLEAN]
    BY DEF TypeCalls, TypeRest, TypeGhosts
  <1>1. req[c] <= req'[c]
    <2>1. UNCHANGED req \/ \E d \in Calls : req' = [req EXCEPT ![d] = @ + 1]
      BY DEF Next, vars, callVars, Loop, Thread, Rest, StartCall, Request, Refuse, Submit,
             ResumeWritten, ResumeUnwritten, ResumeFailed, Finish, Timeout, EndCall, StartJob,
             ReadSession, Verify, Lookup, InsertOrder, UpdateOrder, DeleteItems, InsertItem,
             SetStatus, WriteLog, FailJob, SoftDelete, Restore, Age, PutStatus, OpenCancel,
             OpenEdit, RestCancel, RestUpdate, RestDelete, RestInsert, RestFail, Crash
    <2>2. QED
      BY <1>0, <2>1 DEF TypeCalls
  <1>2. restOps <= restOps'
    <2>1. UNCHANGED restOps \/ restOps' = restOps + 1
      BY DEF Next, vars, restVars, Loop, Thread, Rest, StartCall, Request, Refuse, Submit,
             ResumeWritten, ResumeUnwritten, ResumeFailed, Finish, Timeout, EndCall, StartJob,
             ReadSession, Verify, Lookup, InsertOrder, UpdateOrder, DeleteItems, InsertItem,
             SetStatus, WriteLog, FailJob, SoftDelete, Restore, Age, PutStatus, OpenCancel,
             OpenEdit, RestCancel, RestUpdate, RestDelete, RestInsert, RestFail, Crash, RestBegins
    <2>2. QED
      BY <1>0, <2>1
  <1>3. disturbed[c] => disturbed'[c]
    <2>1. ASSUME NEW d \in Calls, Abandon(d), disturbed[c] PROVE disturbed'[c]
      <3>1. disturbed' = [disturbed EXCEPT ![d] = disturbed[d] \/ MidWork(d)]
        BY <2>1 DEF Abandon
      <3>2. QED
        BY <1>0, <2>1, <3>1, Zenon
    <2>2. ASSUME Crash, disturbed[c] PROVE disturbed'[c]
      <3>1. disturbed' = [d \in Calls |-> disturbed[d] \/ MidWork(d)]
        BY <2>2 DEF Crash
      <3>2. QED
        BY <2>2, <3>1, Zenon
    <2>3. ASSUME NEW d, disturbed' = [disturbed EXCEPT ![d] = TRUE], disturbed[c]
          PROVE  disturbed'[c]
      BY <1>0, <2>3, Zenon
    <2>4. CASE UNCHANGED disturbed
      BY <2>4
    <2>5. QED
      BY <2>1, <2>2, <2>3, <2>4
         DEF Next, vars, ghosts, Loop, Thread, Rest, StartCall, Request, Refuse, Submit,
             ResumeWritten, ResumeUnwritten, ResumeFailed, Finish, Timeout, EndCall, StartJob,
             ReadSession, Verify, Lookup, InsertOrder, UpdateOrder, DeleteItems, InsertItem,
             SetStatus, WriteLog, FailJob, SoftDelete, Restore, Age, PutStatus, OpenCancel,
             OpenEdit, RestCancel, RestUpdate, RestDelete, RestInsert, RestFail
  <1>4. QED
    BY <1>1, <1>2, <1>3

(* What was submitted has been asked for. *)
LEMMA SubmittedAsked ==
  ASSUME BaseInv, NEW j \in Jobs, pc[j] # "none"
  PROVE  j[2] <= req[j[1]] /\ req[j[1]] > 0
  BY CallsAssumption DEF BaseInv, TypeOK, TypeCalls, JobInv, JobOk, Submitted, Jobs

(* A thread that was not submitted before has not begun. *)
LEMMA NotSubmitted ==
  ASSUME BaseInv, NEW c \in Calls, phase[c] = "prepare"
  PROVE  Current(c) \in Jobs /\ pc[Current(c)] = "none"
  <1> USE CallsAssumption DEF BaseInv, TypeOK
  <1>1. Current(c) \in Jobs
    BY CurrentIsJob
  <1>2. ~Submitted(Current(c))
    BY DEF Submitted, Current, TypeCalls, Attempts
  <1>3. QED
    BY <1>1, <1>2 DEF JobInv, JobOk

-----------------------------------------------------------------------------
(* OwnOrders. *)

LEMMA OwnInit == Init => OwnInv
  BY DEF Init, OwnInv, Holds, Writing

LEMMA OwnActive ==
  ASSUME BaseInv, OwnInv, [Next]_vars, NEW c \in Calls, active'[c] # None
  PROVE  Owns(c, active[c])' /\ active'[c] \in Orders
  <1> USE DEF BaseInv, TypeOK
  <1>1. CASE active'[c] = active[c]
    <2>1. active[c] \in Orders /\ Owns(c, active[c])
      BY <1>1 DEF TypeCalls, OwnInv
    <2>2. QED
      BY <1>1, <2>1, CreatorStays DEF Owns, OwnedBy, Exists
  <1>2. CASE ResumeWritten(c)
    <2> DEFINE j == Current(c)
    <2>1. j \in Jobs /\ j[1] = c
      BY <1>2, CurrentIsJob DEF ResumeWritten, Current
    <2>2. Holds(j) /\ target[j] \in Orders /\ active'[c] = target[j] /\ UNCHANGED orders
      BY <1>2, <2>1 DEF ResumeWritten, Holds, Found, JobInv, JobOk, TypeCalls, dbVars
    <2>3. Owns(c, target[j])
      BY <2>1, <2>2 DEF OwnInv
    <2>4. QED
      BY <2>2, <2>3 DEF Owns, OwnedBy, Exists
  <1>3. ASSUME NEW d \in Calls, StartCall(d) PROVE active'[c] = active[c]
    BY <1>3 DEF StartCall, TypeCalls
  <1>4. ASSUME NEW d \in Calls, ResumeWritten(d), d # c PROVE active'[c] = active[c]
    BY <1>4 DEF ResumeWritten, TypeCalls
  <1>5. UNCHANGED active \/ \E d \in Calls : StartCall(d) \/ ResumeWritten(d)
    BY DEF Next, vars, callVars, Loop, Thread, Rest, Request, Refuse, Submit,
           ResumeUnwritten, ResumeFailed, Finish, Timeout, EndCall, StartJob,
           ReadSession, Verify, Lookup, InsertOrder, UpdateOrder, DeleteItems, InsertItem,
           SetStatus, WriteLog, FailJob, SoftDelete, Restore, Age, PutStatus, OpenCancel,
           OpenEdit, RestCancel, RestUpdate, RestDelete, RestInsert, RestFail, Crash
  <1>6. QED
    BY <1>1, <1>2, <1>3, <1>4, <1>5

(* What a thread does to itself, and nothing to the others. *)
LEMMA OtherThreads ==
  ASSUME BaseInv, NEW j \in Jobs, Thread(j) \/ FailJob(j)
  PROVE  /\ UNCHANGED callVars
         /\ \A k \in Jobs \ {j} : pc'[k] = pc[k] /\ target'[k] = target[k] /\ mode'[k] = mode[k]
  BY DEF BaseInv, TypeOK, TypeJobs, callVars, Thread, StartJob, ReadSession, Verify, Lookup,
         InsertOrder, UpdateOrder, DeleteItems, InsertItem, SetStatus, WriteLog, FailJob, JobStep

(* What Lookup finds. *)
LEMMA LookupFinds ==
  ASSUME BaseInv, NEW j \in Jobs, Lookup(j)
  PROVE  /\ ask[ReqOf(j)].kind = "update" /\ pc[j] = "start"
         /\ \/ pc'[j] = "done" /\ mode'[j] \in {"not_found", "expired"}
            \/ pc'[j] = "update" /\ mode'[j] = mode[j] /\ Verified(j, target'[j])
         /\ Verified(j, target[j]) => target'[j] = target[j]
         /\ target'[j] # None => target'[j] \in Orders
         /\ UNCHANGED <<callVars, dbVars, ghosts>>
  <1> USE DEF BaseInv, TypeOK, TypeJobs
  <1>1. PICK o \in Orders \cup {None} :
          /\ ask[ReqOf(j)].kind = "update"
          /\ IF Verified(j, target[j]) THEN o = target[j] ELSE Latest(j, o)
          /\ \/ o = None /\ JobStep(j, "start", "done")
                /\ mode' = [mode EXCEPT ![j] = "not_found"]
             \/ o # None /\ JobStep(j, "start", "done")
                /\ mode' = [mode EXCEPT ![j] = "expired"]
             \/ o # None /\ JobStep(j, "start", "update") /\ UNCHANGED mode
          /\ target' = [target EXCEPT ![j] = o]
          /\ UNCHANGED <<callVars, dbVars, ghosts>>
    BY DEF Lookup
  <1>2. o # None => o \in Orders /\ Verified(j, o)
    BY <1>1 DEF Latest
  <1>3. target'[j] = o
    BY <1>1
  <1>4. QED
    BY <1>1, <1>2, <1>3 DEF JobStep

LEMMA OwnJobs ==
  ASSUME BaseInv, OwnInv, [Next]_vars, NEW j \in Jobs, Holds(j)'
  PROVE  Owns(j[1], target[j])'
  <1> USE DEF BaseInv, TypeOK
  <1>0. j[1] \in Calls
    BY JobParts
  <1>1. CASE Holds(j) /\ target'[j] = target[j]
    <2>1. target[j] \in Orders /\ Owns(j[1], target[j])
      BY <1>1 DEF Holds, Found, JobInv, JobOk, OwnInv
    <2>2. QED
      BY <1>0, <1>1, <2>1, CreatorStays DEF Owns, OwnedBy, Exists
  <1>2. CASE Verify(j)
    BY <1>2 DEF Verify, Verified, Live, Owns, Holds, Found, JobStep, TypeJobs, Writing, Exists,
                OwnedBy, dbVars
  <1>3. CASE Lookup(j)
    BY <1>3, LookupFinds DEF Verified, Live, Owns, Holds, Found, Writing, Exists, OwnedBy, dbVars
  <1>4. CASE InsertOrder(j)
    <2>1. /\ orders' = [orders EXCEPT ![lastId + 1] =
                          [NoOrder EXCEPT !.by = ReqOf(j), !.content = ReqOf(j)]]
          /\ target'[j] = lastId + 1 /\ lastId + 1 \in Orders
      BY <1>4, CallsAssumption DEF InsertOrder, TypeJobs, TypeDb, Orders
    <2>2. orders'[target'[j]].by = ReqOf(j)
      BY <2>1 DEF TypeDb, NoOrder
    <2>3. ReqOf(j) # None /\ ReqOf(j)[1] = j[1]
      BY CallsAssumption, JobParts DEF ReqOf, Requests
    <2>4. QED
      BY <2>2, <2>3 DEF Owns, OwnedBy, Exists
  <1>5. CASE StartJob(j) \/ ReadSession(j) \/ WriteLog(j) \/ FailJob(j)
    BY <1>5 DEF StartJob, ReadSession, WriteLog, FailJob, JobStep, TypeJobs, Holds, Writing
  <1>6. CASE UpdateOrder(j) \/ DeleteItems(j) \/ InsertItem(j) \/ SetStatus(j)
    <2>1. target'[j] = target[j] /\ Holds(j)
      BY <1>6 DEF UpdateOrder, DeleteItems, InsertItem, SetStatus, JobStep, Holds, Writing
    <2>2. QED
      BY <1>1, <2>1
  <1>7. ASSUME NEW k \in Jobs \ {j}, Thread(k) \/ FailJob(k) PROVE Owns(j[1], target[j])'
    BY <1>1, <1>7, OtherThreads DEF Holds
  <1>8. ASSUME NEW c \in Calls, Loop(c) \/ Timeout(c) \/ EndCall(c)
        PROVE  Owns(j[1], target[j])'
    <2>1. CASE Submit(c)
      BY <1>1, <1>8, <2>1 DEF Submit, Holds, TypeJobs, Writing
    <2>2. CASE ~Submit(c)
      <3>1. /\ pc'[j] = pc[j] \/ pc'[j] \in {"qlog", "over"}
            /\ target'[j] = target[j] /\ mode'[j] = mode[j]
        BY <1>8, <2>2
           DEF Loop, StartCall, Refuse, ResumeWritten, ResumeUnwritten, ResumeFailed,
               Finish, Timeout, EndCall, Abandon, TypeJobs, jobVars
      <3>2. QED
        BY <1>1, <3>1 DEF Holds, Writing
    <2>3. QED
      BY <2>1, <2>2
  <1>9. CASE Crash
    <2>1. /\ pc'[j] = pc[j] \/ pc'[j] = "over"
          /\ target'[j] = target[j] /\ mode'[j] = mode[j]
      BY <1>9 DEF Crash
    <2>2. QED
      BY <1>1, <2>1 DEF Holds, Writing
  <1>10. CASE UNCHANGED jobVars
    BY <1>1, <1>10 DEF Holds, jobVars
  <1>11. QED
    BY <1>2, <1>3, <1>4, <1>5, <1>6, <1>7, <1>8, <1>9, <1>10
       DEF Next, vars, Thread, Rest, Request, SoftDelete, Restore, Age, PutStatus,
           OpenCancel, OpenEdit, RestCancel, RestUpdate, RestDelete, RestInsert, RestFail

LEMMA OwnStep == BaseInv /\ OwnInv /\ [Next]_vars => OwnInv'
  BY OwnActive, OwnJobs DEF OwnInv

(* A call remembers and rewrites orders of its own caller only, for all calls, *)
(* callers, retries and operations of the dashboard.                           *)
THEOREM OnlyOwnOrders == Spec => []OwnOrders
  <1>1. OwnInv => OwnOrders
    BY DEF OwnInv, OwnOrders, Owns, Holds
  <1>2. QED
    BY <1>1, BaseInit, BaseStep, OwnInit, OwnStep, PTL DEF Spec
-----------------------------------------------------------------------------
(* AnnouncedOnce. *)

LEMMA NewsInit == Init => NewsInv
  BY DEF Init, NewsInv, Unwritten

(* What a coroutine, the dashboard or the world does to a thread. *)
LEMMA ThreadsAwaited ==
  ASSUME BaseInv, [Next]_vars, NEW j \in Jobs,
         ~ \E k \in Jobs : Thread(k) \/ FailJob(k)
  PROVE  /\ mode'[j] = mode[j]
         /\ \/ target'[j] = target[j] /\ (pc'[j] = pc[j] \/ pc'[j] \in {"qlog", "over"})
            \/ /\ pc[j] = "none" /\ pc'[j] = "queued"
               /\ \E c \in Calls : Submit(c) /\ j = Current(c)
         /\ pc[j] = "over" => pc'[j] = "over"
  <1> USE DEF BaseInv, TypeOK, TypeJobs
  <1>1. ASSUME NEW c \in Calls, Submit(c) PROVE
          /\ mode'[j] = mode[j]
          /\ \/ target'[j] = target[j] /\ pc'[j] = pc[j]
             \/ pc[j] = "none" /\ pc'[j] = "queued" /\ j = Current(c)
    <2>1. pc[Current(c)] = "none"
      BY <1>1, NotSubmitted DEF Submit
    <2>2. QED
      BY <1>1, <2>1 DEF Submit
  <1>2. ASSUME NEW c \in Calls,
               \/ ResumeWritten(c) \/ ResumeUnwritten(c) \/ ResumeFailed(c) \/ Finish(c)
               \/ Timeout(c) \/ EndCall(c)
        PROVE  /\ mode'[j] = mode[j] /\ target'[j] = target[j]
               /\ pc'[j] = pc[j] \/ pc'[j] \in {"qlog", "over"}
               /\ pc[j] = "over" => pc'[j] = "over"
    BY <1>2 DEF ResumeWritten, ResumeUnwritten, ResumeFailed, Finish, Timeout, EndCall, Abandon
  <1>3. CASE Crash
    BY <1>3 DEF Crash
  <1>4. CASE UNCHANGED jobVars
    BY <1>4 DEF jobVars
  <1>5. QED
    BY <1>1, <1>2, <1>3, <1>4
       DEF Next, vars, Loop, Rest, StartCall, Refuse, Request, SoftDelete, Restore, Age,
           PutStatus, OpenCancel, OpenEdit, RestCancel, RestUpdate, RestDelete, RestInsert,
           RestFail

ModeOk(j) == /\ pc[j] \in Unwritten => mode[j] = "none"
             /\ pc[j] = "delete" => mode[j] = "updated"

LEMMA ModeStep ==
  ASSUME BaseInv, NewsInv, [Next]_vars, NEW j \in Jobs
  PROVE  /\ ModeOk(j)'
         /\ mode'[j] = "created" =>
              \/ mode[j] = "created" /\ target'[j] = target[j]
              \/ InsertOrder(j) /\ target'[j] = lastId + 1
         /\ pc[j] = "over" => pc'[j] = "over"
  <1> USE DEF BaseInv, TypeOK, TypeJobs, Unwritten
  <1>0. ModeOk(j)
    BY DEF NewsInv, ModeOk
  <1>1. CASE ~ \E k \in Jobs : Thread(k) \/ FailJob(k)
    BY <1>0, <1>1, ThreadsAwaited DEF ModeOk
  <1>2. ASSUME NEW k \in Jobs \ {j}, Thread(k) \/ FailJob(k)
        PROVE  pc'[j] = pc[j] /\ target'[j] = target[j] /\ mode'[j] = mode[j]
    BY <1>2, OtherThreads
  <1>3. CASE StartJob(j) \/ ReadSession(j) \/ Verify(j)
    BY <1>0, <1>3 DEF StartJob, ReadSession, Verify, JobStep, ModeOk
  <1>4. CASE Lookup(j)
    BY <1>0, <1>4, LookupFinds DEF ModeOk
  <1>5. CASE InsertOrder(j) \/ UpdateOrder(j)
    BY <1>0, <1>5 DEF InsertOrder, UpdateOrder, JobStep, ModeOk
  <1>6. CASE DeleteItems(j) \/ InsertItem(j) \/ SetStatus(j) \/ WriteLog(j) \/ FailJob(j)
    BY <1>0, <1>6
       DEF DeleteItems, InsertItem, AfterItems, SetStatus, WriteLog, FailJob, JobStep, ModeOk,
           Running, Writing
  <1>7. QED
    BY <1>0, <1>1, <1>2, <1>3, <1>4, <1>5, <1>6 DEF Thread, ModeOk

(* new_order is sent by the one that created the order, as its last step. *)
LEMMA NewsChange ==
  ASSUME BaseInv, [Next]_vars, NEW o \in Orders
  PROVE  \/ news'[o] = news[o]
         \/ \E j \in Jobs : /\ pc[j] = "logged" /\ pc'[j] = "over"
                            /\ mode[j] = "created" /\ target[j] = o
                            /\ mode'[j] = mode[j] /\ target'[j] = target[j]
                            /\ news'[o] = news[o] + 1
  <1> USE DEF BaseInv, TypeOK
  <1>1. ASSUME NEW c \in Calls, Finish(c), news'[o] # news[o]
        PROVE  LET j == Current(c)
               IN /\ j \in Jobs
                  /\ pc[j] = "logged" /\ pc'[j] = "over"
                  /\ mode[j] = "created" /\ target[j] = o
                  /\ mode'[j] = mode[j] /\ target'[j] = target[j]
                  /\ news'[o] = news[o] + 1
    <2>1. Current(c) \in Jobs
      BY <1>1, CurrentIsJob DEF Finish
    <2>2. QED
      BY <1>1, <2>1 DEF Finish, TypeDb, TypeJobs
  <1>2. UNCHANGED news \/ \E c \in Calls : Finish(c)
    BY DEF Next, vars, dbVars, Loop, Thread, Rest, StartCall, Request, Refuse, Submit,
           ResumeWritten, ResumeUnwritten, ResumeFailed, Timeout, EndCall, StartJob,
           ReadSession, Verify, Lookup, InsertOrder, UpdateOrder, DeleteItems, InsertItem,
           SetStatus, WriteLog, FailJob, SoftDelete, Restore, Age, PutStatus, OpenCancel,
           OpenEdit, RestCancel, RestUpdate, RestDelete, RestInsert, RestFail, Crash
  <1>3. QED
    BY <1>1, <1>2

LEMMA NewsStep == BaseInv /\ NewsInv /\ [Next]_vars => NewsInv'
  <1> SUFFICES ASSUME BaseInv, NewsInv, [Next]_vars PROVE NewsInv'
    OBVIOUS
  <1>0. BaseInv'
    BY BaseStep
  <1>1. \A j \in Jobs : ModeOk(j)'
    BY ModeStep
  <1>2. lastId \in Nat /\ \A o \in Orders : Exists(o) => o <= lastId /\ o \in Nat
    BY CallsAssumption DEF BaseInv, TypeOK, TypeDb, DbInv, Orders
  <1>3. ASSUME NEW j \in Jobs, mode'[j] = "created"
        PROVE  target'[j] \in Orders /\ Exists(target[j])'
    <2>1. CASE mode[j] = "created" /\ target'[j] = target[j]
      <3>1. target[j] \in Orders /\ Exists(target[j])
        BY <2>1 DEF NewsInv
      <3>2. QED
        BY <2>1, <3>1, CreatorStays DEF Exists
    <2>2. CASE InsertOrder(j)
      <3>1. pc'[j] = "insert"
        BY <2>2 DEF InsertOrder, JobStep, BaseInv, TypeOK, TypeJobs
      <3>2. QED
        BY <1>0, <3>1 DEF BaseInv, JobInv, JobOk, Writing
    <2>3. QED
      BY <1>3, <2>1, <2>2, ModeStep
  <1>4. ASSUME NEW j \in Jobs, NEW k \in Jobs, mode'[j] = "created", mode'[k] = "created",
               target'[j] = target'[k], j # k
        PROVE  FALSE
    <2>1. ASSUME NEW i \in Jobs, mode[i] = "created"
          PROVE  target[i] # lastId + 1
      BY <1>2, <2>1 DEF NewsInv
    <2>2. ~(InsertOrder(j) /\ InsertOrder(k))
      BY <1>4 DEF InsertOrder, JobStep, BaseInv, TypeOK, TypeJobs
    <2>3. CASE mode[j] = "created" /\ target'[j] = target[j]
               /\ mode[k] = "created" /\ target'[k] = target[k]
      BY <1>4, <2>3 DEF NewsInv
    <2>4. QED
      BY <1>4, <2>1, <2>2, <2>3, ModeStep
  <1>5. ASSUME NEW o \in Orders
        PROVE  /\ news'[o] <= 1
               /\ news'[o] # 0 => \A j \in Jobs :
                    mode'[j] = "created" /\ target'[j] = o => pc'[j] = "over"
               /\ news'[o] # 0 => Exists(o)'
    <2>0. news[o] \in Nat
      BY DEF BaseInv, TypeOK, TypeDb
    <2>1. CASE news'[o] = news[o]
      <3>1. news[o] # 0 => Exists(o) /\ Exists(o)'
        BY CreatorStays DEF NewsInv
      <3>2. ASSUME news[o] # 0, NEW j \in Jobs, mode'[j] = "created", target'[j] = o
            PROVE  pc'[j] = "over"
        <4>1. o # lastId + 1
          BY <1>2, <3>1, <3>2
        <4>2. mode[j] = "created" /\ target[j] = o
          BY <3>2, <4>1, ModeStep
        <4>3. pc[j] = "over"
          BY <3>2, <4>2 DEF NewsInv
        <4>4. QED
          BY <4>3, ModeStep
      <3>3. QED
        BY <2>1, <3>1, <3>2 DEF NewsInv
    <2>2. CASE news'[o] # news[o]
      <3>1. PICK j \in Jobs : /\ pc[j] = "logged" /\ pc'[j] = "over"
                              /\ mode[j] = "created" /\ target[j] = o
                              /\ mode'[j] = mode[j] /\ target'[j] = target[j]
                              /\ news'[o] = news[o] + 1
        BY <2>2, NewsChange
      <3>2. news[o] = 0
        BY <3>1 DEF NewsInv
      <3>3. Exists(o)'
        BY <1>3, <3>1
      <3>4. QED
        BY <1>4, <3>1, <3>2, <3>3
    <2>3. QED
      BY <2>1, <2>2
  <1>6. QED
    BY <1>1, <1>3, <1>4, <1>5 DEF NewsInv, ModeOk

(* The dashboards hear of a new order once at most, and not before its rows  *)
(* are written, whatever is retried, abandoned or killed.                    *)
THEOREM NewOrderOnce == Spec => []AnnouncedOnce
  <1>1. NewsInv => AnnouncedOnce
    BY DEF NewsInv, AnnouncedOnce, Running, Writing
  <1>2. QED
    BY <1>1, BaseInit, BaseStep, NewsInit, NewsStep, PTL DEF Spec
-----------------------------------------------------------------------------
(* SingleOrder. *)

LEMMA SteadyInit == Init => SteadyInv
  BY DEF Init, SteadyInv, Steady, OneThread, Remembered, OneOrder, Directed, Knows, OrdersOf, Exists,
         NoOrder, Orders, Awaited, Running, Writing, Holds

(* A step in which the call itself inserts nothing leaves it its orders. *)
LEMMA OrdersKept ==
  ASSUME BaseInv, [Next]_vars, NEW c \in Calls, ~disturbed'[c],
         \A o \in OrdersOf(c) : Live(o),
         \A j \in Jobs : InsertOrder(j) => j[1] # c
  PROVE  OrdersOf(c)' = OrdersOf(c) /\ \A o \in OrdersOf(c) : Live(o)'
  <1>1. ASSUME NEW o \in Orders, Exists(o)
        PROVE  Exists(o)' /\ orders'[o].by = orders[o].by
    BY <1>1, CreatorStays
  <1>2. ASSUME NEW o \in OrdersOf(c) PROVE orders'[o].deleted = orders[o].deleted
    <2>1. o \in Orders /\ Exists(o) /\ orders[o].by[1] = c /\ ~orders[o].deleted
      BY DEF OrdersOf, Live
    <2>2. ~SoftDelete(o)
      BY <2>1 DEF SoftDelete, BaseInv, TypeOK, TypeGhosts
    <2>3. ~Restore(o)
      BY <2>1 DEF Restore
    <2>4. o # lastId + 1
      BY <2>1, CallsAssumption DEF BaseInv, TypeOK, TypeDb, DbInv
    <2>5. QED
      BY <2>1, <2>2, <2>3, <2>4, RowStep DEF SameRow
  <1>3. ASSUME NEW o \in Orders, ~Exists(o), Exists(o)'
        PROVE  orders'[o].by[1] # c
    <2>1. orders'[o].by # orders[o].by
      BY <1>3 DEF Exists
    <2>2. PICK j \in Jobs : InsertOrder(j) /\ orders'[o].by = ReqOf(j)
      BY <2>1, RowStep DEF SameRow
    <2>3. QED
      BY <2>2 DEF ReqOf
  <1>4. OrdersOf(c)' = OrdersOf(c)
    BY <1>1, <1>3 DEF OrdersOf
  <1>5. QED
    BY <1>1, <1>2, <1>4 DEF OrdersOf, Live

(* A step that leaves a call's coroutine and its awaited thread alone. *)
LEMMA SteadyFrame ==
  ASSUME BaseInv, NEW c \in Calls, Steady(c),
         phase'[c] = phase[c], req'[c] = req[c], attempt'[c] = attempt[c],
         active'[c] = active[c], OrdersOf(c)' = OrdersOf(c),
         \A o \in OrdersOf(c) : Live(o)',
         \A j \in Jobs : j[1] = c =>
           \/ /\ pc'[j] = pc[j] /\ target'[j] = target[j] /\ mode'[j] = mode[j]
              /\ pc[j] \in {"queued", "start"} => ask'[ReqOf(j)] = ask[ReqOf(j)]
           \/ pc[j] \notin Awaited /\ pc'[j] \notin Awaited
  PROVE  Steady(c)'
  <1>0. Current(c)' = Current(c) /\ Current(c)[1] = c
    BY DEF Current
  <1>1. OneThread(c)'
    BY <1>0 DEF Steady, OneThread
  <1>2. Making(c) => Making(c)'
    <2> SUFFICES ASSUME Making(c) PROVE Making(c)'
      OBVIOUS
    <2>1. Current(c) \in Jobs
      BY CurrentIsJob DEF Making, BaseInv, TypeOK
    <2>2. pc[Current(c)] \in Awaited
      BY DEF Making, Awaited, Running, Writing
    <2>3. QED
      BY <1>0, <2>1, <2>2 DEF Making
  <1>3. Remembered(c)'
    BY <1>2 DEF Steady, Remembered
  <1>4. OneOrder(c)'
    BY DEF Steady, OneOrder
  <1>5. Directed(c)'
    BY DEF Steady, Directed, Knows, Awaited, Running, Writing, Holds
  <1>6. QED
    BY <1>1, <1>3, <1>4, <1>5 DEF Steady

(* While a call has no thread it awaits, its orders are the one it remembers. *)
LEMMA SteadyAtRest ==
  ASSUME NEW c \in Calls, Steady(c),
         \A j \in Jobs : j[1] = c => pc'[j] \notin Awaited,
         ~Making(c), active'[c] = active[c] \/ OrdersOf(c) = {}, phase'[c] # "new",
         OrdersOf(c)' = OrdersOf(c), \A o \in OrdersOf(c) : Live(o)'
  PROVE  Steady(c)'
  <1>1. OneThread(c)' /\ OneOrder(c)'
    BY DEF OneThread, OneOrder, Steady
  <1>2. Directed(c)'
    BY DEF Directed, Knows, Awaited, Running, Writing, Holds
  <1>3. Remembered(c)'
    BY DEF Remembered, Steady
  <1>4. QED
    BY <1>1, <1>2, <1>3 DEF Steady

(* The coroutine of the call. *)
LEMMA CoroutineKeepsSteady ==
  ASSUME BaseInv, NEW c \in Calls, Steady(c), ~disturbed'[c],
         Loop(c) \/ Timeout(c) \/ EndCall(c) \/ \E a \in Asks : Request(c, a)
  PROVE  Steady(c)'
  <1> USE DEF BaseInv, TypeOK, TypeJobs
  <1>0. OrdersOf(c)' = OrdersOf(c) /\ \A o \in OrdersOf(c) : Live(o)'
    <2>1. UNCHANGED orders
      BY DEF Loop, StartCall, Refuse, Request, Submit, ResumeWritten, ResumeUnwritten,
             ResumeFailed, Finish, Timeout, EndCall, dbVars
    <2>2. QED
      BY <2>1 DEF Steady, Remembered, OrdersOf, Exists, Live
  <1>1. ASSUME phase[c] # "upsert" PROVE /\ \A j \in Jobs : j[1] = c => pc[j] \notin Awaited
                                         /\ ~Making(c)
    BY <1>1 DEF Steady, OneThread, Making
  <1>2. CASE StartCall(c)
    <2>1. phase[c] = "new" /\ phase'[c] = "idle" /\ UNCHANGED pc
      BY <1>2 DEF StartCall, TypeCalls, jobVars
    <2>2. OrdersOf(c) = {}
      BY <2>1 DEF Steady, Remembered
    <2>3. QED
      BY <1>0, <1>1, <2>1, <2>2, SteadyAtRest
  <1>3. ASSUME \/ Refuse(c) \/ Finish(c) \/ \E a \in Asks : Request(c, a) PROVE Steady(c)'
    <2>1. /\ phase[c] # "upsert" /\ phase'[c] # "new" /\ active' = active
          /\ \A j \in Jobs : pc'[j] = pc[j] \/ pc'[j] = "over"
      BY <1>3 DEF Refuse, Finish, Request, Answer, TypeCalls, jobVars
    <2>2. \A j \in Jobs : j[1] = c => pc'[j] \notin Awaited
      BY <1>1, <2>1 DEF Awaited, Running, Writing
    <2>3. QED
      BY <1>0, <1>1, <2>1, <2>2, SteadyAtRest
  <1>4. CASE ResumeUnwritten(c) \/ ResumeFailed(c)
    <2>1. /\ ~Making(c) /\ phase'[c] # "new" /\ active' = active
          /\ \A j \in Jobs : pc'[j] = pc[j]  \/ pc'[j] = "over"
          /\ Current(c) \in Jobs /\ pc'[Current(c)] = "over"
      <3>1. Current(c) \in Jobs
        BY <1>4, CurrentIsJob DEF ResumeUnwritten, ResumeFailed
      <3>2. QED
        BY <1>4, <3>1 DEF ResumeUnwritten, ResumeFailed, Making, Answer, TypeCalls
    <2>2. \A j \in Jobs : j[1] = c => pc'[j] \notin Awaited
      BY <2>1 DEF Steady, OneThread, Awaited, Running, Writing
    <2>3. QED
      BY <1>0, <2>1, <2>2, SteadyAtRest
  <1>5. CASE Timeout(c) \/ EndCall(c)
    <2>1. ~MidWork(c)
      <3>1. disturbed' = [disturbed EXCEPT ![c] = disturbed[c] \/ MidWork(c)]
        BY <1>5 DEF Timeout, EndCall, Abandon
      <3>2. disturbed'[c] = (disturbed[c] \/ MidWork(c))
        BY <3>1 DEF TypeGhosts
      <3>3. QED
        BY <3>2, Zenon
    <2>2. /\ phase'[c] # "new" /\ active' = active
          /\ \A j \in Jobs : pc'[j] = pc[j] \/ pc'[j] = "over"
          /\ phase[c] = "upsert" => pc[Current(c)] = "queued"
      BY <1>5, <2>1 DEF Timeout, EndCall, Abandon, Answer, MidWork, TypeCalls
    <2>3. ~Making(c)
      BY <2>2 DEF Making
    <2>4. phase[c] = "upsert" => Current(c) \in Jobs /\ pc'[Current(c)] = "over"
      <3>1. ASSUME phase[c] = "upsert" PROVE Current(c) \in Jobs
        BY <3>1, CurrentIsJob
      <3>2. QED
        BY <1>5, <2>2, <3>1 DEF Timeout, EndCall, Abandon, Pending
    <2>5. \A j \in Jobs : j[1] = c => pc'[j] \notin Awaited
      BY <1>1, <2>2, <2>4 DEF Steady, OneThread, Awaited, Running, Writing
    <2>6. QED
      BY <1>0, <2>2, <2>3, <2>5, SteadyAtRest
  <1>6. CASE Submit(c)
    <2> DEFINE i == Current(c)
    <2>1. /\ i \in Jobs /\ pc'[i] = "queued" /\ phase[c] = "prepare" /\ phase'[c] = "upsert"
          /\ ask[ReqOf(i)].kind = "update" => target'[i] = active[c]
          /\ UNCHANGED <<active, ask, req, attempt>> /\ i' = i
          /\ \A j \in Jobs : j # i => pc'[j] = pc[j]
      BY <1>6, NotSubmitted DEF Submit, Current, ReqOf, TypeCalls
    <2>2. ASSUME NEW j \in Jobs, j[1] = c, j # i PROVE pc'[j] \notin Awaited
      BY <1>1, <2>1, <2>2
    <2> HIDE DEF i
    <2>3. OneThread(c)'
      BY <2>1, <2>2 DEF OneThread, i
    <2>4. Remembered(c)' /\ OneOrder(c)'
      BY <1>0, <1>1, <2>1 DEF Steady, Remembered, OneOrder
    <2>5. Directed(c)'
      BY <2>1, <2>2 DEF Directed, Knows, Awaited, Running, Writing, Holds
    <2>6. QED
      BY <2>3, <2>4, <2>5 DEF Steady
  <1>7. CASE ResumeWritten(c)
    <2> DEFINE i == Current(c)
    <2>1. /\ i \in Jobs /\ i[1] = c /\ pc'[i] = "qlog" /\ phase'[c] = "log" /\ Holds(i)
          /\ active'[c] = target[i]
          /\ \A j \in Jobs : j # i => pc'[j] = pc[j]
      <3>1. i \in Jobs /\ i[1] = c
        BY <1>7, CurrentIsJob DEF ResumeWritten, Current
      <3>2. QED
        BY <1>7, <3>1 DEF ResumeWritten, TypeCalls, Holds, Found
    <2> HIDE DEF i
    <2>2. \A j \in Jobs : j[1] = c => pc'[j] \notin Awaited
      BY <2>1 DEF Steady, OneThread, Awaited, Running, Writing, i
    <2>3. \A o \in OrdersOf(c) : o = active'[c]
      BY <2>1 DEF Steady, Directed, Knows
    <2>4. OneThread(c)' /\ OneOrder(c)'
      BY <1>0, <2>2 DEF OneThread, OneOrder, Steady
    <2>5. Directed(c)'
      BY <2>2 DEF Directed, Knows, Awaited, Running, Writing, Holds
    <2>6. Remembered(c)'
      BY <1>0, <2>1, <2>3 DEF Remembered
    <2>7. QED
      BY <2>4, <2>5, <2>6 DEF Steady
  <1>8. QED
    BY <1>2, <1>3, <1>4, <1>5, <1>6, <1>7 DEF Loop

LEMMA CrashKeepsSteady ==
  ASSUME BaseInv, NEW c \in Calls, Steady(c), ~disturbed'[c], Crash
  PROVE  Steady(c)'
  <1> USE DEF BaseInv, TypeOK, TypeJobs
  <1>1. ~MidWork(c)
    <2>1. disturbed'[c] = (disturbed[c] \/ MidWork(c))
      BY DEF Crash
    <2>2. QED
      BY <2>1, Zenon
  <1>2. CASE phase[c] = "new"
    <2>1. /\ \A j \in Jobs : j[1] = c => pc[j] \notin Awaited
          /\ OrdersOf(c) = {}
      BY <1>2 DEF Steady, OneThread, Remembered
    <2>2. OrdersOf(c)' = {}
      BY <2>1 DEF Crash, dbVars, OrdersOf, Exists
    <2>3. \A j \in Jobs : j[1] = c => pc'[j] \notin Awaited
      BY <2>1 DEF Crash, Awaited, Running, Writing
    <2>4. QED
      BY <2>2, <2>3 DEF Steady, OneThread, Remembered, OneOrder, Directed, Knows, Awaited, Running,
                        Writing, Holds
  <1>3. CASE phase[c] # "new"
    <2>1. OrdersOf(c)' = OrdersOf(c) /\ \A o \in OrdersOf(c) : Live(o)'
      BY DEF Crash, dbVars, Steady, Remembered, OrdersOf, Exists, Live
    <2>2. phase'[c] # "new" /\ active' = active
      BY <1>3 DEF Crash
    <2>3. ~Making(c)
      BY <1>1 DEF Making, MidWork
    <2>4. ASSUME NEW j \in Jobs, j[1] = c PROVE pc'[j] \notin Awaited
      BY <1>1, <2>4 DEF Crash, Steady, OneThread, MidWork, Awaited, Busy, Pending, Running, Writing
    <2>5. QED
      BY <2>1, <2>2, <2>3, <2>4, SteadyAtRest
  <1>4. QED
    BY <1>2, <1>3

(* A step of the thread that the call awaits. *)
LEMMA AwaitedThread ==
  ASSUME NEW c \in Calls, Steady(c), NEW j \in Jobs, j[1] = c, pc[j] \in Awaited,
         UNCHANGED callVars, \A k \in Jobs \ {j} : pc'[k] = pc[k],
         OrdersOf(c)' = OrdersOf(c), \A o \in OrdersOf(c) : Live(o)',
         Making(c) => Making(c)', Knows(c, j)'
  PROVE  Steady(c)'
  <1>1. j = Current(c) /\ phase[c] = "upsert" /\ Current(c)' = Current(c)
    BY DEF Steady, OneThread, Current, callVars
  <1>2. OneThread(c)'
    BY <1>1 DEF Steady, OneThread, callVars
  <1>3. Remembered(c)' /\ OneOrder(c)'
    BY DEF Steady, Remembered, OneOrder, callVars
  <1>4. ASSUME NEW k \in Jobs \ {j}, k[1] = c PROVE pc'[k] \notin Awaited
    BY <1>1, <1>4 DEF Steady, OneThread
  <1>5. Directed(c)'
    BY <1>4 DEF Directed, Knows, Awaited, Running, Writing, Holds
  <1>6. QED
    BY <1>2, <1>3, <1>5 DEF Steady

(* The thread of the call that inserts an order. *)
LEMMA InsertKeepsSteady ==
  ASSUME BaseInv, [Next]_vars, NEW c \in Calls, Steady(c),
         NEW j \in Jobs, j[1] = c, InsertOrder(j)
  PROVE  Steady(c)'
  <1> USE DEF BaseInv, TypeOK, TypeJobs
  <1>1. /\ pc[j] = "create" /\ pc'[j] = "insert" /\ mode'[j] = "created"
        /\ target'[j] = lastId + 1 /\ lastId + 1 \in Orders
        /\ UNCHANGED callVars /\ \A k \in Jobs \ {j} : pc'[k] = pc[k]
    BY CallsAssumption DEF InsertOrder, JobStep, TypeDb, Orders
  <1>2. j = Current(c) /\ phase[c] = "upsert" /\ Current(c)' = Current(c)
    BY <1>1 DEF Steady, OneThread, Awaited, Running, Current, callVars
  <1>3. OrdersOf(c) = {}
    BY <1>1 DEF Steady, Directed, Knows
  <1>4. ASSUME NEW o \in OrdersOf(c)' PROVE o = lastId + 1 /\ Live(o)'
    <2>1. o \in Orders /\ o \notin OrdersOf(c) /\ Exists(o)' /\ orders'[o].by[1] = c
      BY <1>3 DEF OrdersOf
    <2>2. orders'[o].by # orders[o].by
      BY <2>1 DEF OrdersOf, Exists
    <2>3. o = lastId + 1 /\ ~orders'[o].deleted
      BY <2>1, <2>2, RowStep DEF SameRow
    <2>4. QED
      BY <2>1, <2>3 DEF Live
  <1>5. OneThread(c)'
    BY <1>1, <1>2 DEF Steady, OneThread, callVars
  <1>6. Making(c)'
    BY <1>1, <1>2 DEF Making, callVars
  <1>7. Remembered(c)' /\ OneOrder(c)'
    <2>1. OneOrder(c)'
      BY <1>4 DEF OneOrder
    <2>2. phase'[c] # "new"
      BY <1>1, <1>2 DEF callVars
    <2>3. Remembered(c)'
      BY <1>4, <1>6, <2>2 DEF Remembered
    <2>4. QED
      BY <2>1, <2>3
  <1>8. Knows(c, j)'
    BY <1>1, <1>4 DEF Knows
  <1>9. Directed(c)'
    <2>1. ASSUME NEW k \in Jobs \ {j}, k[1] = c PROVE pc'[k] \notin Awaited
      BY <1>1, <1>2, <2>1 DEF Steady, OneThread
    <2>2. QED
      BY <1>8, <2>1 DEF Directed, Knows, Awaited, Running, Writing, Holds
  <1>10. QED
    BY <1>5, <1>7, <1>9 DEF Steady

(* The other statements of a thread of the call. *)
LEMMA ThreadKeepsSteady ==
  ASSUME BaseInv, NewsInv, [Next]_vars, NEW c \in Calls, Steady(c), ~disturbed'[c],
         NEW j \in Jobs, j[1] = c, Thread(j)
  PROVE  Steady(c)'
  <1> USE DEF BaseInv, TypeOK, TypeJobs
  <1>0. /\ UNCHANGED callVars
        /\ \A k \in Jobs \ {j} : /\ pc'[k] = pc[k] /\ target'[k] = target[k]
                                 /\ mode'[k] = mode[k]
    BY OtherThreads
  <1>1. CASE InsertOrder(j)
    BY <1>1, InsertKeepsSteady
  <1>2. ASSUME ~InsertOrder(j)
        PROVE  OrdersOf(c)' = OrdersOf(c) /\ \A o \in OrdersOf(c) : Live(o)'
    <2>1. ASSUME NEW k \in Jobs, InsertOrder(k) PROVE k[1] # c
      <3>1. pc'[k] = "insert" /\ pc[k] = "create"
        BY <2>1 DEF InsertOrder, JobStep
      <3>2. QED
        BY <1>0, <1>2, <2>1, <3>1
    <2>2. QED
      BY <2>1, OrdersKept DEF Steady, Remembered
  <1>3. ASSUME pc[j] \in Awaited PROVE j = Current(c) /\ phase[c] = "upsert"
    BY <1>3 DEF Steady, OneThread
  <1>4. CASE WriteLog(j) \/ (StartJob(j) /\ pc[j] = "qlog")
    <2>1. pc[j] \notin Awaited /\ pc'[j] \notin Awaited /\ ~InsertOrder(j)
      BY <1>4 DEF WriteLog, StartJob, InsertOrder, JobStep, Awaited, Running, Writing
    <2>2. QED
      BY <1>0, <1>2, <2>1, SteadyFrame DEF callVars
  <1>5. ASSUME ~InsertOrder(j), pc[j] \in Awaited, Making(c) => Making(c)', Knows(c, j)'
        PROVE  Steady(c)'
    BY <1>0, <1>2, <1>5, AwaitedThread
  <1>6. ASSUME pc[j] \in {"queued", "start", "verify", "update"} PROVE ~Making(c)
    BY <1>3, <1>6 DEF Awaited, Running, Making
  <1>7. CASE StartJob(j) /\ pc[j] = "queued"
    <2>1. /\ pc'[j] = "start" /\ target'[j] = target[j] /\ ~InsertOrder(j)
      BY <1>7 DEF StartJob, JobStep, InsertOrder
    <2>2. Knows(c, j)
      BY DEF Steady, Directed
    <2>3. Knows(c, j)'
      BY <1>0, <1>7, <2>1, <2>2 DEF Knows, Holds, Writing, callVars
    <2>4. QED
      BY <1>5, <1>6, <1>7, <2>1, <2>3 DEF Awaited
  <1>8. CASE ReadSession(j)
    <2>1. /\ pc[j] = "start" /\ target'[j] = active[c] /\ ~InsertOrder(j)
          /\ pc'[j] = IF active[c] = None THEN "create" ELSE "verify"
      BY <1>8 DEF ReadSession, JobStep, InsertOrder
    <2>2. active[c] = None => OrdersOf(c) = {}
      BY <1>6, <2>1, CallsAssumption DEF Steady, Remembered, OrdersOf, Orders
    <2>3. Knows(c, j)'
      BY <1>0, <1>2, <2>1, <2>2 DEF Knows, Holds, Writing, callVars
    <2>4. QED
      BY <1>5, <1>6, <2>1, <2>3 DEF Awaited, Running
  <1>9. ASSUME pc[j] \in {"verify", "start"}, target[j] = active[c], NEW o \in OrdersOf(c)
        PROVE  o = target[j] /\ Verified(j, o)
    <2>1. o = active[c] /\ Live(o) /\ o # None /\ orders[o].by[1] = c
      BY <1>6, <1>9, CallsAssumption DEF Steady, Remembered, OrdersOf, Orders
    <2>2. QED
      BY <1>9, <2>1 DEF Verified, OwnedBy
  <1>10. CASE Verify(j)
    <2>1. /\ pc[j] = "verify" /\ target'[j] = target[j] /\ target[j] = active[c]
          /\ pc'[j] = IF Verified(j, target[j]) THEN "update" ELSE "create"
          /\ ~InsertOrder(j)
      BY <1>10 DEF Verify, JobStep, InsertOrder, Steady, Directed, Knows
    <2>2. ~Verified(j, target[j]) => OrdersOf(c) = {}
      BY <1>9, <2>1
    <2>3. Knows(c, j)'
      BY <1>0, <1>2, <1>9, <2>1, <2>2 DEF Knows, Holds, Writing, callVars
    <2>4. QED
      BY <1>5, <1>6, <2>1, <2>3 DEF Awaited, Running
  <1>11. CASE Lookup(j)
    <2>1. /\ pc[j] = "start" /\ target[j] = active[c] /\ ~InsertOrder(j)
          /\ \/ pc'[j] = "done" /\ mode'[j] \in {"not_found", "expired"}
             \/ pc'[j] = "update"
          /\ Verified(j, target[j]) => target'[j] = target[j]
      BY <1>11, LookupFinds DEF InsertOrder, JobStep, Steady, Directed, Knows
    <2>2. Knows(c, j)'
      BY <1>0, <1>2, <1>9, <2>1 DEF Knows, Holds, Found, Writing, callVars
    <2>3. QED
      BY <1>5, <1>6, <2>1, <2>2 DEF Awaited, Running
  <1>12. CASE UpdateOrder(j)
    <2>1. pc[j] = "update" /\ pc'[j] = "delete" /\ target'[j] = target[j] /\ ~InsertOrder(j)
      BY <1>12 DEF UpdateOrder, JobStep, InsertOrder
    <2>2. \A o \in OrdersOf(c) : o = target[j]
      BY <2>1 DEF Steady, Directed, Knows, Holds
    <2>3. Knows(c, j)'
      BY <1>0, <1>2, <2>1, <2>2 DEF Knows
    <2>4. QED
      BY <1>5, <1>6, <2>1, <2>3 DEF Awaited, Running
  <1>13. CASE DeleteItems(j) \/ InsertItem(j) \/ SetStatus(j)
    <2>1. /\ pc[j] \in {"delete", "insert", "status"} /\ target'[j] = target[j]
          /\ pc'[j] \in {"insert", "status", "done"} /\ mode'[j] = mode[j] /\ ~InsertOrder(j)
      BY <1>13 DEF DeleteItems, InsertItem, AfterItems, SetStatus, JobStep, InsertOrder
    <2>2. \A o \in OrdersOf(c) : o = target[j]
      BY <2>1 DEF Steady, Directed, Knows, Holds, Writing
    <2>3. Knows(c, j)'
      BY <1>0, <1>2, <2>1, <2>2 DEF Knows
    <2>4. Making(c) => Making(c)'
      <3>1. j = Current(c) /\ Current(c)' = Current(c)
        BY <1>0, <1>3, <2>1 DEF Awaited, Running, Writing, Current, callVars
      <3>2. QED
        BY <1>0, <2>1, <3>1 DEF Making, callVars
    <2>5. QED
      BY <1>5, <2>1, <2>3, <2>4 DEF Awaited, Running, Writing
  <1>14. QED
    BY <1>1, <1>4, <1>7, <1>8, <1>10, <1>11, <1>12, <1>13 DEF Thread, StartJob, JobStep

LEMMA SteadyStep == BaseInv /\ NewsInv /\ SteadyInv /\ [Next]_vars => SteadyInv'
  <1> SUFFICES ASSUME BaseInv, NewsInv, SteadyInv, [Next]_vars, NEW c \in Calls, ~disturbed'[c]
               PROVE  Steady(c)'
    BY DEF SteadyInv
  <1> USE DEF BaseInv, TypeOK
  <1>1. Steady(c)
    BY CountsGrow DEF SteadyInv
  <1>2. CASE Loop(c) \/ Timeout(c) \/ EndCall(c) \/ \E a \in Asks : Request(c, a)
    BY <1>1, <1>2, CoroutineKeepsSteady
  <1>3. CASE Crash
    BY <1>1, <1>3, CrashKeepsSteady
  <1>4. ASSUME NEW j \in Jobs, j[1] = c, Thread(j) \/ FailJob(j) PROVE Steady(c)'
    <2>1. ~FailJob(j)
      BY <1>4 DEF FailJob, TypeGhosts
    <2>2. QED
      BY <1>1, <1>4, <2>1, ThreadKeepsSteady
  <1>5. ASSUME \A j \in Jobs : InsertOrder(j) => j[1] # c,
               phase'[c] = phase[c], req'[c] = req[c], attempt'[c] = attempt[c],
               active'[c] = active[c],
               \A j \in Jobs : j[1] = c =>
                 /\ pc'[j] = pc[j] /\ target'[j] = target[j] /\ mode'[j] = mode[j]
                 /\ pc[j] \in {"queued", "start"} => ask'[ReqOf(j)] = ask[ReqOf(j)]
        PROVE  Steady(c)'
    <2>1. OrdersOf(c)' = OrdersOf(c) /\ \A o \in OrdersOf(c) : Live(o)'
      BY <1>1, <1>5, OrdersKept DEF Steady, Remembered
    <2>2. QED
      BY <1>1, <1>5, <2>1, SteadyFrame
  <1>6. ASSUME NEW j \in Jobs, j[1] # c, Thread(j) \/ FailJob(j) PROVE Steady(c)'
    <2>1. /\ UNCHANGED callVars
          /\ \A k \in Jobs : k[1] = c => pc'[k] = pc[k] /\ target'[k] = target[k]
                                        /\ mode'[k] = mode[k]
      BY <1>6, OtherThreads
    <2>2. ASSUME NEW k \in Jobs, InsertOrder(k) PROVE k[1] # c
      <3>1. pc'[k] # pc[k]
        BY <2>2 DEF InsertOrder, JobStep, TypeJobs
      <3>2. QED
        BY <2>1, <3>1
    <2>3. QED
      BY <1>5, <2>1, <2>2 DEF callVars
  <1>7. ASSUME NEW d \in Calls, d # c,
               Loop(d) \/ Timeout(d) \/ EndCall(d) \/ \E a \in Asks : Request(d, a)
        PROVE  Steady(c)'
    <2>1. /\ phase'[c] = phase[c] /\ req'[c] = req[c] /\ attempt'[c] = attempt[c]
          /\ active'[c] = active[c]
      BY <1>7 DEF Loop, StartCall, Refuse, Request, Submit, ResumeWritten, ResumeUnwritten,
                  ResumeFailed, Finish, Timeout, EndCall, Answer, TypeCalls
    <2>2. \A j \in Jobs : j[1] = c =>
            /\ pc'[j] = pc[j] /\ target'[j] = target[j] /\ mode'[j] = mode[j]
            /\ ask'[ReqOf(j)] = ask[ReqOf(j)]
      <3>1. Current(d)[1] = d /\ \A j \in Jobs : ReqOf(j)[1] = j[1]
        BY DEF Current, ReqOf
      <3>2. \A j \in Jobs : j[1] = c => j # Current(d) /\ ReqOf(j) # <<d, req[d] + 1>>
        BY <1>7, <3>1
      <3>3. QED
        BY <1>7, <3>2, JobParts
           DEF Loop, StartCall, Refuse, Request, Submit, ResumeWritten, ResumeUnwritten,
               ResumeFailed, Finish, Timeout, EndCall, Abandon, TypeCalls, TypeJobs, jobVars
    <2>3. UNCHANGED orders
      BY <1>7 DEF Loop, StartCall, Refuse, Request, Submit, ResumeWritten, ResumeUnwritten,
                  ResumeFailed, Finish, Timeout, EndCall, dbVars
    <2>4. OrdersOf(c)' = OrdersOf(c) /\ \A o \in OrdersOf(c) : Live(o)'
      BY <1>1, <2>3 DEF Steady, Remembered, OrdersOf, Exists, Live
    <2>5. QED
      BY <1>1, <2>1, <2>2, <2>4, SteadyFrame
  <1>8. CASE UNCHANGED <<callVars, jobVars>>
    <2>1. ASSUME NEW j \in Jobs PROVE ~InsertOrder(j)
      BY <1>8 DEF InsertOrder, JobStep, TypeJobs, jobVars
    <2>2. QED
      BY <1>5, <1>8, <2>1 DEF callVars, jobVars
  <1>9. QED
    BY <1>2, <1>3, <1>4, <1>6, <1>7, <1>8
       DEF Next, vars, Rest, SoftDelete, Restore, Age, PutStatus, OpenCancel, OpenEdit,
           RestCancel, RestUpdate, RestDelete, RestInsert, RestFail

(* The guardrail of create_order: a call that nothing disturbed has one order, *)
(* however many requests it makes and whatever other calls and the staff do.   *)
THEOREM OneOrderForACall == Spec => []SingleOrder
  <1>1. SteadyInv => SingleOrder
    BY DEF SteadyInv, Steady, OneOrder, SingleOrder
  <1>2. QED
    BY <1>1, BaseInit, BaseStep, NewsInit, NewsStep, SteadyInit, SteadyStep, PTL DEF Spec

-----------------------------------------------------------------------------
(* NoStaleContent. *)

LEMMA ContentInit == Init => ContentInv
  BY CallsAssumption DEF Init, ContentInv, NoOrder, Orders

LEMMA ContentStep == BaseInv /\ ContentInv /\ [Next]_vars => ContentInv'
  <1> SUFFICES ASSUME BaseInv, ContentInv, [Next]_vars, NEW o \in Orders, NEW c \in Calls,
                      NEW m \in 1..MaxRequests, orders'[o].content = <<c, m>>
               PROVE  m <= req'[c]
    BY DEF ContentInv
  <1>1. req[c] <= req'[c] /\ req[c] \in Nat /\ req'[c] \in Nat /\ m \in Nat
    <2>1. BaseInv'
      BY BaseStep
    <2>2. QED
      BY <2>1, CountsGrow, CallsAssumption DEF BaseInv, TypeOK, TypeCalls
  <1>2. CASE orders'[o].content = orders[o].content
    BY <1>1, <1>2 DEF ContentInv
  <1>3. ASSUME NEW j \in Jobs, UpdateOrder(j) \/ InsertOrder(j), orders'[o].content = ReqOf(j)
        PROVE  m <= req'[c]
    <2>1. pc[j] # "none"
      BY <1>3 DEF UpdateOrder, InsertOrder, JobStep
    <2>2. j[1] = c /\ j[2] = m
      BY <1>3 DEF ReqOf
    <2>3. QED
      BY <1>1, <2>1, <2>2, SubmittedAsked
  <1>4. Dash # <<c, m>>
    BY CallsAssumption DEF Dash
  <1>5. QED
    BY <1>2, <1>3, <1>4, RowStep DEF SameRow

(* What the caller said last wins: a call that nothing disturbed never writes *)
(* an earlier request over a later one, however long its threads wait.        *)
THEOREM LastWordWins == Spec => NoStaleContent
  <1>1. ASSUME BaseInv, SteadyInv, ContentInv, [Next]_vars, NEW o \in Orders, NEW c \in Calls,
               NEW m \in 1..MaxRequests, NEW n \in 1..MaxRequests,
               orders[o].content = <<c, m>>, orders'[o].content = <<c, n>>
        PROVE  m <= n \/ disturbed[c]
    <2>1. CASE m = n
      BY <2>1, CallsAssumption
    <2>2. ASSUME NEW j \in Jobs, UpdateOrder(j) \/ InsertOrder(j), <<c, n>> = ReqOf(j),
                 ~disturbed[c]
          PROVE  m <= n
      <3>1. pc[j] \in Awaited /\ j[1] = c /\ j[2] = n
        BY <2>2 DEF UpdateOrder, InsertOrder, JobStep, Awaited, Running, ReqOf
      <3>2. n = req[c]
        <4>1. Steady(c)
          BY <1>1, <2>2 DEF SteadyInv
        <4>2. j = Current(c)
          BY <3>1, <4>1 DEF Steady, OneThread
        <4>3. QED
          BY <3>1, <4>2 DEF Current
      <3>3. QED
        BY <1>1, <3>2 DEF ContentInv
    <2>3. Dash # <<c, n>>
      BY CallsAssumption DEF Dash
    <2>4. \/ orders'[o].content = orders[o].content
          \/ \E j \in Jobs : (UpdateOrder(j) \/ InsertOrder(j)) /\ orders'[o].content = ReqOf(j)
          \/ orders'[o].content = Dash
      BY <1>1, RowStep DEF SameRow
    <2>5. CASE orders'[o].content = orders[o].content
      <3>1. <<c, m>> = <<c, n>>
        BY <1>1, <2>5
      <3>2. QED
        BY <2>1, <3>1
    <2>6. QED
      BY <1>1, <2>2, <2>3, <2>4, <2>5
  <1> DEFINE Kept == \A o \in Orders : \A c \in Calls : \A m, n \in 1..MaxRequests :
                       orders[o].content = <<c, m>> /\ orders'[o].content = <<c, n>>
                         => m <= n \/ disturbed[c]
  <1>2. BaseInv /\ SteadyInv /\ ContentInv /\ [Next]_vars => [Kept]_vars
    BY <1>1
  <1> HIDE DEF Kept
  <1>3. Spec => [](BaseInv /\ SteadyInv /\ ContentInv)
    BY BaseInit, BaseStep, NewsInit, NewsStep, SteadyInit, SteadyStep, ContentInit,
       ContentStep, PTL DEF Spec
  <1>4. Spec => [][Kept]_vars
    BY <1>2, <1>3, PTL DEF Spec
  <1>5. QED
    BY <1>4 DEF Kept, NoStaleContent

-----------------------------------------------------------------------------
(* SerialCallsDoNotTear. *)

Involved(o) == {c \in Calls : CallerOf[c] = OwnedBy(o) /\ req[c] > 0}

Blamed(o) == \/ \E c \in Involved(o) : disturbed[c]
             \/ \E c, d \in Involved(o) : c # d
             \/ restOps > 0

LEMMA BlameIsSerial == SerialCallsDoNotTear <=> \A o \in Orders : torn[o] => Blamed(o)
  BY DEF SerialCallsDoNotTear, Blamed, Involved

LEMMA TornInit == Init => TornInv
  BY DEF Init, TornInv, Idle, SerialCallsDoNotTear

LEMMA InvolvedStays ==
  ASSUME BaseInv, [Next]_vars, NEW o \in Orders, Exists(o)
  PROVE  Involved(o) \subseteq Involved(o)'
  <1>1. BaseInv'
    BY BaseStep
  <1>2. OwnedBy(o)' = OwnedBy(o)
    BY CreatorStays DEF OwnedBy
  <1>3. \A c \in Calls : req[c] <= req'[c] /\ req[c] \in Nat /\ req'[c] \in Nat
    BY <1>1, CountsGrow, CallsAssumption DEF BaseInv, TypeOK, TypeCalls
  <1>4. QED
    BY <1>2, <1>3 DEF Involved

LEMMA BlameStays ==
  ASSUME BaseInv, [Next]_vars, NEW o \in Orders, Exists(o), Blamed(o)
  PROVE  Blamed(o)'
  <1>1. Involved(o) \subseteq Involved(o)' /\ Involved(o) \subseteq Calls
    BY InvolvedStays DEF Involved
  <1>2. BaseInv'
    BY BaseStep
  <1>3. CASE restOps > 0
    <2>1. restOps \in Nat /\ restOps' \in Nat
      BY <1>2, CallsAssumption DEF BaseInv, TypeOK, TypeRest
    <2>2. PICK c \in Calls : TRUE
      <3>1. Calls # {}
        <4>1. orders[o].by \in Requests
          BY DEF BaseInv, TypeOK, TypeDb, Rows, Exists
        <4>2. QED
          BY <4>1 DEF Requests
      <3>2. QED
        BY <3>1
    <2>3. restOps <= restOps'
      BY <2>2, CountsGrow
    <2>4. QED
      BY <1>3, <2>1, <2>3 DEF Blamed
  <1>4. CASE \E c \in Involved(o) : disturbed[c]
    <2>1. PICK c \in Involved(o) : disturbed[c]
      BY <1>4
    <2>2. disturbed'[c]
      BY <1>1, <2>1, CountsGrow
    <2>3. QED
      BY <1>1, <2>1, <2>2 DEF Blamed
  <1>5. CASE \E c, d \in Involved(o) : c # d
    BY <1>1, <1>5 DEF Blamed
  <1>6. QED
    BY <1>3, <1>4, <1>5 DEF Blamed

(* Whoever rewrites an order is a call of its caller. *)
LEMMA WriterInvolved ==
  ASSUME BaseInv, OwnInv, NEW j \in Jobs, pc[j] \in Writing \cup {"update", "status"}
  PROVE  /\ j[1] \in Involved(target[j]) /\ j[1] \in Calls
         /\ target[j] \in Orders /\ Exists(target[j])
  <1>1. Owns(j[1], target[j])
    BY DEF OwnInv, Holds
  <1>2. pc[j] # "none" /\ j[1] \in Calls
    BY JobParts DEF Writing
  <1>3. target[j] \in Orders /\ Exists(target[j])
    BY DEF BaseInv, JobInv, JobOk
  <1>4. QED
    BY <1>1, <1>2, <1>3, SubmittedAsked DEF Owns, Involved

(* Two threads at one order: two calls, or one that was disturbed. *)
LEMMA TwoWriters ==
  ASSUME BaseInv, OwnInv, SteadyInv, NEW j \in Jobs, NEW k \in Jobs, j # k,
         target[j] = target[k],
         pc[j] \in Writing \cup {"update"}, pc[k] \in Writing \cup {"update"}
  PROVE  Blamed(target[j])
  <1>1. j[1] \in Involved(target[j]) /\ k[1] \in Involved(target[j]) /\ j[1] \in Calls
    BY WriterInvolved
  <1>2. pc[j] \in Awaited /\ pc[k] \in Awaited
    BY DEF Awaited, Running
  <1>3. CASE j[1] = k[1]
    <2>1. disturbed[j[1]]
      BY <1>1, <1>2, <1>3 DEF SteadyInv, Steady, OneThread
    <2>2. QED
      BY <1>1, <2>1 DEF Blamed
  <1>4. CASE j[1] # k[1]
    BY <1>1, <1>4 DEF Blamed
  <1>5. QED
    BY <1>3, <1>4

(* What tears an order. *)
LEMMA Tearing ==
  ASSUME BaseInv, [Next]_vars, NEW o \in Orders, torn'[o], ~torn[o]
  PROVE  \/ \E j \in Jobs : UpdateOrder(j) /\ target[j] = o /\ Contended(o)
         \/ \E j \in Jobs : FailJob(j) /\ pc[j] \in Writing /\ target[j] = o
         \/ rest.pc # "idle" /\ rest.order = o
         \/ Crash /\ Contended(o)
  <1> USE DEF BaseInv, TypeOK, TypeGhosts
  <1>1. ASSUME NEW j \in Jobs, UpdateOrder(j) PROVE target[j] = o /\ Contended(o)
    <2>1. torn' = [torn EXCEPT ![target[j]] = Contended(target[j])]
      BY <1>1 DEF UpdateOrder
    <2>2. target[j] = o
      BY <2>1
    <2>3. torn'[o] = Contended(o)
      BY <2>1, <2>2
    <2>4. QED
      BY <2>2, <2>3, Zenon
  <1>2. ASSUME NEW j \in Jobs, FailJob(j) PROVE pc[j] \in Writing /\ target[j] = o
    BY <1>2 DEF FailJob
  <1>3. CASE RestUpdate \/ RestFail
    BY <1>3 DEF RestUpdate, RestFail, LoopFree
  <1>4. CASE Crash
    <2>1. torn'[o] = (torn[o] \/ Contended(o))
      BY <1>4 DEF Crash
    <2>2. QED
      BY <1>4, <2>1, Zenon
  <1>5. UNCHANGED torn \/ RestUpdate \/ RestFail \/ Crash
        \/ \E j \in Jobs : UpdateOrder(j) \/ FailJob(j)
    BY DEF Next, vars, ghosts, Loop, Thread, Rest, StartCall, Request, Refuse, Submit,
           ResumeWritten, ResumeUnwritten, ResumeFailed, Finish, Timeout, EndCall, StartJob,
           ReadSession, Verify, Lookup, InsertOrder, DeleteItems, InsertItem,
           SetStatus, WriteLog, SoftDelete, Restore, Age, PutStatus, OpenCancel,
           OpenEdit, RestCancel, RestDelete, RestInsert
  <1>6. QED
    BY <1>1, <1>2, <1>3, <1>4, <1>5

(* The dashboard's handler under way has been counted. *)
LEMMA RestCounted ==
  ASSUME BaseInv, [Next]_vars, rest.pc # "idle" => restOps > 0, rest'.pc # "idle"
  PROVE  restOps' > 0
  <1>0. restOps \in Nat
    BY CallsAssumption DEF BaseInv, TypeOK, TypeRest
  <1>1. ASSUME NEW o \in Orders, NEW s, OpenCancel(o) \/ OpenEdit(o, s) PROVE restOps' > 0
    BY <1>0, <1>1 DEF OpenCancel, OpenEdit, RestBegins
  <1>2. CASE UNCHANGED rest /\ RestBegins
    BY <1>0, <1>2 DEF RestBegins
  <1>3. CASE UNCHANGED restOps /\ rest.pc # "idle"
    BY <1>3
  <1>4. CASE UNCHANGED restVars
    BY <1>4 DEF restVars
  <1>5. CASE RestFail \/ Crash \/ RestCancel
    BY <1>5 DEF RestFail, Crash, RestCancel, Idle
  <1>6. CASE RestUpdate \/ RestDelete \/ RestInsert
    BY <1>3, <1>6 DEF RestUpdate, RestDelete, RestInsert
  <1>7. QED
    BY <1>1, <1>2, <1>4, <1>5, <1>6
       DEF Next, vars, Loop, Thread, Rest, StartCall, Request, Refuse, Submit,
           ResumeWritten, ResumeUnwritten, ResumeFailed, Finish, Timeout, EndCall, StartJob,
           ReadSession, Verify, Lookup, InsertOrder, UpdateOrder, DeleteItems, InsertItem,
           SetStatus, WriteLog, FailJob, SoftDelete, Restore, Age, PutStatus

LEMMA TornStep ==
  BaseInv /\ OwnInv /\ SteadyInv /\ TornInv /\ [Next]_vars => TornInv'
  <1> SUFFICES ASSUME BaseInv, OwnInv, SteadyInv, TornInv, [Next]_vars PROVE TornInv'
    OBVIOUS
  <1> USE DEF BaseInv, TypeOK
  <1>1. rest'.pc # "idle" => restOps' > 0
    BY RestCounted DEF TornInv
  <1>2. ASSUME NEW o \in Orders, torn'[o] PROVE Exists(o) /\ Blamed(o)'
    <2>1. CASE torn[o]
      BY <2>1, BlameIsSerial, BlameStays DEF TornInv
    <2>2. ASSUME NEW j \in Jobs, UpdateOrder(j), target[j] = o, Contended(o)
          PROVE  Exists(o) /\ Blamed(o)'
      <3>1. pc[j] = "update" /\ Exists(o)
        BY <2>2, WriterInvolved DEF UpdateOrder, JobStep
      <3>2. Blamed(o)
        <4>1. CASE RestWrites(o)
          BY <4>1 DEF RestWrites, Writing, TornInv, Blamed
        <4>2. ASSUME NEW k \in Writers(o) PROVE Blamed(o)
          BY <2>2, <3>1, <4>2, TwoWriters DEF Writers, Writing
        <4>3. QED
          BY <2>2, <4>1, <4>2 DEF Contended
      <3>3. QED
        BY <3>1, <3>2, BlameStays
    <2>3. ASSUME NEW j \in Jobs, pc[j] \in Writing, target[j] = o, disturbed'[j[1]]
          PROVE  Exists(o) /\ Blamed(o)'
      <3>1. j[1] \in Involved(o) /\ Exists(o)
        BY <2>3, WriterInvolved
      <3>2. j[1] \in Involved(o)'
        BY <3>1, InvolvedStays
      <3>3. QED
        BY <2>3, <3>1, <3>2 DEF Blamed
    <2>4. ASSUME NEW j \in Jobs, FailJob(j) PROVE disturbed'[j[1]]
      BY <2>4, JobParts DEF FailJob, TypeGhosts
    <2>5. CASE rest.pc # "idle" /\ rest.order = o
      <3>1. Exists(o) /\ Blamed(o)
        BY <2>5 DEF RestInv, TornInv, Blamed
      <3>2. QED
        BY <3>1, BlameStays
    <2>6. ASSUME Crash, Contended(o) PROVE Exists(o) /\ Blamed(o)'
      <3>1. CASE RestWrites(o)
        BY <2>5, <3>1 DEF RestWrites, Writing
      <3>2. ASSUME NEW j \in Writers(o) PROVE Exists(o) /\ Blamed(o)'
        <4>1. j \in Jobs /\ pc[j] \in Writing /\ target[j] = o /\ j[1] \in Calls
          BY <3>2, JobParts DEF Writers
        <4>2. disturbed[j[1]] \/ MidWork(j[1])
          BY <4>1 DEF SteadyInv, Steady, OneThread, Awaited, Running, Writing, MidWork
        <4>3. disturbed'[j[1]] = (disturbed[j[1]] \/ MidWork(j[1]))
          BY <2>6, <4>1 DEF Crash
        <4>4. disturbed'[j[1]]
          BY <4>2, <4>3, Zenon
        <4>5. QED
          BY <2>3, <4>1, <4>4
      <3>3. QED
        BY <2>6, <3>1, <3>2 DEF Contended
    <2>7. QED
      BY <1>2, <2>1, <2>2, <2>3, <2>4, <2>5, <2>6, Tearing
  <1>3. \A o \in Orders : torn'[o] => Exists(o)'
    BY <1>2, CreatorStays
  <1>4. SerialCallsDoNotTear'
    BY <1>2 DEF SerialCallsDoNotTear, Blamed, Involved
  <1>5. QED
    BY <1>1, <1>3, <1>4 DEF TornInv

LEMMA CallsInit == Init => CallsInv
  BY OwnInit, NewsInit, SteadyInit, ContentInit, TornInit DEF CallsInv

LEMMA CallsInvStep == BaseInv /\ CallsInv /\ [Next]_vars => CallsInv'
  BY OwnStep, NewsStep, SteadyStep, ContentStep, TornStep DEF CallsInv

(* A call alone never tears an order: it takes an attempt abandoned, failed or *)
(* killed in mid-work, another call of the same caller, or the dashboard.      *)
THEOREM AloneNothingTears == Spec => []SerialCallsDoNotTear
  <1>1. CallsInv => SerialCallsDoNotTear
    BY DEF CallsInv, TornInv
  <1>2. QED
    BY <1>1, BaseInit, BaseStep, CallsInit, CallsInvStep, PTL DEF Spec

-----------------------------------------------------------------------------
(***************************************************************************)
(* The refinement of OrderBook: every step of the code turns one page of   *)
(* the book, or none, or all leave off at once.                            *)
(***************************************************************************)

(* The dashboard is no thread, and what is neither an order nor a request   *)
(* is no content.                                                           *)
LEMMA DashIsNoJob == \A j \in Jobs : j # Dash
  BY DEF Jobs, Dash, Attempts

(* The dashboard's handler works on an order that is not deleted: nothing   *)
(* on the loop deletes one meanwhile, and no thread does.  An order that    *)
(* does not exist yet has the blank row.                                    *)
PageInv ==
  /\ rest.pc # "idle" => ~orders[rest.order].deleted
  /\ \A o \in Orders : ~Exists(o) => orders[o] = NoOrder

BookInv == BaseInv /\ WriterInv /\ CallsInv /\ PageInv

LEMMA PageInit == Init => PageInv
  BY DEF Init, PageInv, Idle, NoOrder

(* A row that is rewritten exists, or comes to exist. *)
LEMMA OnlyRowsChange ==
  ASSUME BaseInv, [Next]_vars, NEW o \in Orders, ~Exists(o), ~Exists(o)'
  PROVE  orders'[o] = orders[o]
  <1> USE DEF BaseInv, TypeOK
  <1>1. ASSUME NEW p \in Orders, Exists(p), NEW r, orders' = [orders EXCEPT ![p] = r]
        PROVE  orders'[o] = orders[o]
    BY <1>1 DEF TypeDb
  <1>2. CASE UNCHANGED orders
    BY <1>2
  <1>3. ASSUME NEW c \in Calls,
               \/ Loop(c) \/ Timeout(c) \/ EndCall(c)
               \/ \E a \in Asks : Request(c, a)
        PROVE  UNCHANGED orders
    BY <1>3 DEF Loop, StartCall, Refuse, Request, Submit, ResumeWritten, ResumeUnwritten,
             ResumeFailed, Finish, Timeout, EndCall, dbVars
  <1>4. ASSUME NEW j \in Jobs,
               \/ StartJob(j) \/ ReadSession(j) \/ Verify(j) \/ Lookup(j) \/ WriteLog(j)
               \/ FailJob(j)
        PROVE  UNCHANGED orders
    BY <1>4 DEF StartJob, ReadSession, Verify, Lookup, WriteLog, FailJob, dbVars
  <1>5. ASSUME NEW j \in Jobs,
               UpdateOrder(j) \/ DeleteItems(j) \/ InsertItem(j) \/ SetStatus(j)
        PROVE  orders'[o] = orders[o]
    <2>1. target[j] \in Orders /\ Exists(target[j])
      BY <1>5 DEF UpdateOrder, DeleteItems, InsertItem, SetStatus, JobStep, JobInv, JobOk, Writing
    <2>2. QED
      BY <1>1, <1>2, <1>5, <2>1 DEF UpdateOrder, DeleteItems, InsertItem, SetStatus
  <1>6. ASSUME NEW j \in Jobs, InsertOrder(j) PROVE orders'[o] = orders[o]
    <2>1. o # lastId + 1
      <3>1. DbInv' /\ lastId' = lastId + 1
        BY <1>6, DbStep DEF InsertOrder
      <3>2. lastId \in Nat
        BY CallsAssumption DEF TypeDb
      <3>3. QED
        BY <3>1, <3>2 DEF DbInv
    <2>2. QED
      BY <1>6, <2>1 DEF InsertOrder, TypeDb
  <1>7. ASSUME NEW p \in Orders,
               \/ SoftDelete(p) \/ Restore(p) \/ Age(p)
               \/ \E s \in AllStatuses : PutStatus(p, s)
        PROVE  orders'[o] = orders[o]
    BY <1>1, <1>7 DEF SoftDelete, Restore, Age, PutStatus, Live
  <1>8. ASSUME NEW p \in Orders,
               OpenCancel(p) \/ \E s \in AllStatuses \cup {"keep"} : OpenEdit(p, s)
        PROVE  UNCHANGED orders
    BY <1>8 DEF OpenCancel, OpenEdit, dbVars
  <1>9. CASE RestCancel \/ RestUpdate \/ RestDelete \/ RestInsert
    <2>1. rest.order \in Orders /\ Exists(rest.order)
      BY <1>9 DEF RestCancel, RestUpdate, RestDelete, RestInsert, RestInv
    <2>2. QED
      BY <1>1, <1>9, <2>1 DEF RestCancel, RestUpdate, RestDelete, RestInsert
  <1>10. CASE RestFail \/ Crash \/ UNCHANGED vars
    BY <1>2, <1>10 DEF RestFail, Crash, vars, dbVars
  <1>11. QED
    BY <1>2, <1>3, <1>4, <1>5, <1>6, <1>7, <1>8, <1>9, <1>10 DEF Next, Thread, Rest

LEMMA RestOpens ==
  ASSUME BaseInv, [Next]_vars, rest'.pc # "idle"
  PROVE  \/ rest.pc # "idle" /\ rest'.order = rest.order
         \/ /\ \E o \in Orders : Live(o) /\ rest'.order = o
            /\ UNCHANGED orders
  <1> USE DEF BaseInv, TypeOK
  <1>1. CASE UNCHANGED rest
    BY <1>1
  <1>2. ASSUME NEW c \in Calls,
               \/ Loop(c) \/ Timeout(c) \/ EndCall(c)
               \/ \E a \in Asks : Request(c, a)
        PROVE  UNCHANGED rest
    BY <1>2 DEF Loop, StartCall, Refuse, Request, Submit, ResumeWritten, ResumeUnwritten,
             ResumeFailed, Finish, Timeout, EndCall, restVars
  <1>3. ASSUME NEW j \in Jobs, Thread(j) \/ FailJob(j)
        PROVE  UNCHANGED rest
    BY <1>3 DEF Thread, StartJob, ReadSession, Verify, Lookup, WriteLog, FailJob, InsertOrder,
             UpdateOrder, DeleteItems, InsertItem, SetStatus, restVars
  <1>4. ASSUME NEW p \in Orders,
               \/ SoftDelete(p) \/ Restore(p) \/ Age(p)
               \/ \E s \in AllStatuses : PutStatus(p, s)
        PROVE  UNCHANGED rest
    BY <1>4 DEF SoftDelete, Restore, Age, PutStatus, restVars
  <1>5. ASSUME NEW p \in Orders,
               OpenCancel(p) \/ \E s \in AllStatuses \cup {"keep"} : OpenEdit(p, s)
        PROVE  Live(p) /\ rest'.order = p /\ UNCHANGED orders
    BY <1>5 DEF OpenCancel, OpenEdit, Idle, dbVars
  <1>6. CASE RestCancel \/ RestFail \/ Crash
    BY <1>6 DEF RestCancel, RestFail, Crash, Idle
  <1>7. CASE RestUpdate \/ RestDelete \/ RestInsert
    <2>1. rest.pc # "idle"
      BY <1>7 DEF RestUpdate, RestDelete, RestInsert
    <2>2. rest'.order = rest.order
      <3>1. CASE RestUpdate
        BY <3>1 DEF RestUpdate, TypeRest
      <3>2. CASE RestDelete
        <4>1. rest' = [rest EXCEPT !.pc = "insert", !.left = ItemRows]
          BY <3>2 DEF RestDelete
        <4>2. QED
          BY <4>1 DEF TypeRest
      <3>3. CASE RestInsert
        BY <3>3 DEF RestInsert, TypeRest, Idle
      <3>4. QED
        BY <1>7, <3>1, <3>2, <3>3
    <2>3. QED
      BY <2>1, <2>2
  <1>8. QED
    BY <1>1, <1>2, <1>3, <1>4, <1>5, <1>6, <1>7 DEF Next, Rest, vars, restVars

LEMMA PageStep == BaseInv /\ PageInv /\ [Next]_vars => PageInv'
  <1> SUFFICES ASSUME BaseInv, PageInv, [Next]_vars PROVE PageInv'
    OBVIOUS
  <1>1. ASSUME NEW o \in Orders, ~Exists(o)' PROVE orders'[o] = NoOrder
    <2>1. ~Exists(o)
      BY <1>1, ExistsStays DEF BaseInv
    <2>2. QED
      BY <1>1, <2>1, OnlyRowsChange DEF PageInv
  <1>2. ASSUME rest'.pc # "idle" PROVE ~orders'[rest'.order].deleted
    <2>1. CASE UNCHANGED orders /\ \E o \in Orders : Live(o) /\ rest'.order = o
      BY <2>1 DEF Live
    <2>2. CASE rest.pc # "idle" /\ rest'.order = rest.order
      <3> DEFINE o == rest.order
      <3>1. o \in Orders /\ Exists(o) /\ ~orders[o].deleted
        BY <2>2 DEF BaseInv, RestInv, PageInv
      <3>2. ~SoftDelete(o) /\ ~Restore(o)
        BY <2>2 DEF SoftDelete, Restore, RestBegins, LoopFree
      <3>3. \A j \in Jobs : InsertOrder(j) => o # lastId + 1
        BY <3>1, CallsAssumption DEF BaseInv, TypeOK, TypeDb, DbInv
      <3>4. orders'[o].deleted = orders[o].deleted
        BY <3>1, <3>2, <3>3, RowStep DEF SameRow
      <3>5. QED
        BY <2>2, <3>1, <3>4
    <2>3. QED
      BY <1>2, <2>1, <2>2, RestOpens
  <1>3. QED
    BY <1>1, <1>2 DEF PageInv


-----------------------------------------------------------------------------
(* The pages. *)
SamePage(o) == PageOf(o)' = PageOf(o)

Typed == \A o \in Orders : PageOf(o) \in Book!Page

LEMMA PageTyped == BaseInv => Typed
  <1> SUFFICES ASSUME BaseInv, NEW o \in Orders PROVE PageOf(o) \in Book!Page
    BY DEF Typed
  <1> USE DEF BaseInv, TypeOK
  <1>1. orders[o] \in Rows
    BY DEF TypeDb
  <1>2. Exists(o) => OwnedBy(o) \in Callers
    BY <1>1, CallsAssumption DEF Exists, OwnedBy, Rows, Requests
  <1>3. Shows(o) \in Contents \cup {None}
    BY <1>1 DEF Shows, DbInv
  <1>4. Writers(o) \cup (IF RestWrites(o) THEN {Dash} ELSE {}) \in SUBSET Pens
    BY DEF Writers, Pens
  <1>5. /\ torn[o] \in BOOLEAN /\ orders[o].status \in AllStatuses
        /\ orders[o].deleted \in BOOLEAN
    BY <1>1 DEF TypeGhosts, Rows
  <1>6. QED
    BY <1>2, <1>3, <1>4, <1>5 DEF PageOf, Book!Page

LEMMA PagesTyped == BaseInv /\ [Next]_vars => Typed /\ Typed'
  <1>1. BaseInv' => Typed'
    BY PageTyped, PTL
  <1>2. QED
    BY <1>1, PageTyped, BaseStep

(* A step that turns one page, or none, is a step of the book. *)
LEMMA TurnsOnePage ==
  ASSUME BaseInv, [Next]_vars, NEW o \in Orders,
         SamePage(o) \/ Book!Turn(PageOf(o), PageOf(o)'),
         \A p \in Orders \ {o} : SamePage(p)
  PROVE  [Book!Next]_([p \in Orders |-> PageOf(p)])
  <1> DEFINE book == [p \in Orders |-> PageOf(p)]
  <1>1. \A p \in Orders : book[p] = PageOf(p) /\ book'[p] = PageOf(p)'
    OBVIOUS
  <1>2. book' \in [Orders -> Book!Page]
    BY PagesTyped DEF Typed
  <1>3. CASE SamePage(o)
    <2>1. UNCHANGED book
      BY <1>3 DEF SamePage
    <2>2. QED
      BY <2>1
  <1>4. CASE Book!Turn(PageOf(o), PageOf(o)')
    <2>1. Book!Turn(book[o], book'[o])
      BY <1>1, <1>4
    <2>2. \A p \in Orders \ {o} : book'[p] = book[p]
      BY <1>1 DEF SamePage
    <2>3. Book!Write(o)
      BY <2>1, <2>2 DEF Book!Write
    <2>4. QED
      BY <1>2, <2>3 DEF Book!Next
  <1>5. QED
    BY <1>3, <1>4

LEMMA TurnsNone ==
  ASSUME \A o \in Orders : SamePage(o)
  PROVE  [Book!Next]_([p \in Orders |-> PageOf(p)])
  <1>1. UNCHANGED [p \in Orders |-> PageOf(p)]
    BY DEF SamePage
  <1>2. QED
    BY <1>1

(* A step that touches neither the row of an order nor its writers. *)
LEMMA PageFrame ==
  ASSUME NEW o \in Orders, orders'[o].by = orders[o].by,
         orders'[o].content = orders[o].content, orders'[o].items = orders[o].items,
         orders'[o].status = orders[o].status, orders'[o].deleted = orders[o].deleted,
         torn'[o] = torn[o], news'[o] = news[o],
         Writers(o)' = Writers(o), RestWrites(o)' <=> RestWrites(o)
  PROVE  SamePage(o)
  <1>1. Exists(o)' <=> Exists(o)
    BY DEF Exists
  <1>2. OwnedBy(o)' = OwnedBy(o) /\ Shows(o)' = Shows(o)
    BY <1>1 DEF OwnedBy, Shows
  <1>3. QED
    BY <1>1, <1>2 DEF SamePage, PageOf

LEMMA WritersFrame ==
  ASSUME NEW o \in Orders,
         \A k \in Jobs : \/ pc'[k] = pc[k] /\ target'[k] = target[k]
                         \/ pc[k] \notin Writing /\ pc'[k] \notin Writing
  PROVE  Writers(o)' = Writers(o)
  BY DEF Writers

(* A step outside the database. *)
LEMMA QuietStep ==
  ASSUME UNCHANGED <<dbVars, torn>>,
         \A k \in Jobs : \/ pc'[k] = pc[k] /\ target'[k] = target[k]
                         \/ pc[k] \notin Writing /\ pc'[k] \notin Writing,
         \/ UNCHANGED rest
         \/ rest.pc \notin Writing /\ rest'.pc \notin Writing
  PROVE  \A o \in Orders : SamePage(o)
  <1> SUFFICES ASSUME NEW o \in Orders PROVE SamePage(o)
    OBVIOUS
  <1>1. Writers(o)' = Writers(o)
    BY WritersFrame
  <1>2. RestWrites(o)' <=> RestWrites(o)
    BY DEF RestWrites
  <1>3. QED
    BY <1>1, <1>2, PageFrame DEF dbVars

(* A thread that works on one order leaves the pages of the others alone. *)
LEMMA JobAtOne ==
  ASSUME NEW j \in Jobs, NEW p \in Orders,
         target'[j] = p, pc[j] \notin Writing \/ target[j] = p,
         \A k \in Jobs \ {j} : pc'[k] = pc[k] /\ target'[k] = target[k],
         \A o \in Orders \ {p} : orders'[o] = orders[o] /\ torn'[o] = torn[o],
         UNCHANGED <<rest, news>>
  PROVE  /\ \A o \in Orders \ {p} : SamePage(o)
         /\ Writers(p) \ {j} = Writers(p)' \ {j}
         /\ RestWrites(p)' <=> RestWrites(p)
  <1>1. ASSUME NEW o \in Orders \ {p} PROVE SamePage(o)
    <2>1. Writers(o)' = Writers(o)
      BY DEF Writers
    <2>2. RestWrites(o)' <=> RestWrites(o)
      BY DEF RestWrites
    <2>3. QED
      BY <2>1, <2>2, PageFrame
  <1>2. Writers(p) \ {j} = Writers(p)' \ {j}
    BY DEF Writers
  <1>3. QED
    BY <1>1, <1>2 DEF RestWrites

(* Whose pen a thread is, and what it writes. *)
LEMMA Penmanship ==
  ASSUME NEW j \in Jobs
  PROVE  /\ j \in Pens /\ j # Dash
         /\ CallerOf[j[1]] # None /\ CallerOf[j[1]] # Dash
         /\ [x \in Pens |-> IF x = Dash THEN Dash ELSE CallerOf[x[1]]][j] = CallerOf[j[1]]
         /\ [x \in Pens |-> IF x = Dash THEN Dash ELSE ReqOf(x)][j] = ReqOf(j)
  BY JobParts, DashIsNoJob, CallsAssumption DEF Pens, Dash

LEMMA RowUntouched ==
  ASSUME NEW r \in Rows, NEW x
  PROVE  /\ [r EXCEPT !.content = x].items = r.items
         /\ [r EXCEPT !.content = x].status = r.status
         /\ [r EXCEPT !.content = x].deleted = r.deleted
         /\ [r EXCEPT !.content = x].by = r.by
         /\ [r EXCEPT !.items = x].items = x
         /\ [r EXCEPT !.items = x].content = r.content
         /\ [r EXCEPT !.items = x].status = r.status
         /\ [r EXCEPT !.items = x].deleted = r.deleted
         /\ [r EXCEPT !.items = x].by = r.by
         /\ [r EXCEPT !.status = x].items = r.items
         /\ [r EXCEPT !.status = x].content = r.content
         /\ [r EXCEPT !.status = x].status = x
         /\ [r EXCEPT !.status = x].deleted = r.deleted
         /\ [r EXCEPT !.status = x].by = r.by
  BY DEF Rows

(* Pages are equal when their fields are; what the edits of the book make.  *)
LEMMA SameFields ==
  ASSUME NEW p \in Book!Page, NEW q \in Book!Page,
         p.owner = q.owner, p.pens = q.pens, p.shows = q.shows, p.spoilt = q.spoilt,
         p.mark = q.mark, p.struck = q.struck, p.told = q.told
  PROVE  p = q
  BY DEF Book!Page

LEMMA PageEdits ==
  ASSUME NEW p \in Book!Page, NEW q \in Book!Page
  PROVE  /\ /\ q.shows = p.shows /\ q.spoilt = p.spoilt /\ q.mark = p.mark
            /\ q.struck = p.struck /\ q.told = p.told
            => q = [p EXCEPT !.owner = q.owner, !.pens = q.pens]
         /\ q.owner = p.owner /\ q.struck = p.struck /\ q.told = p.told
            => q = [p EXCEPT !.pens = q.pens, !.spoilt = q.spoilt, !.shows = q.shows,
                             !.mark = q.mark]
         /\ /\ q.owner = p.owner /\ q.spoilt = p.spoilt /\ q.mark = p.mark
            /\ q.struck = p.struck /\ q.told = p.told
            => q = [p EXCEPT !.pens = q.pens, !.shows = q.shows]
         /\ /\ q.owner = p.owner /\ q.shows = p.shows /\ q.mark = p.mark
            /\ q.struck = p.struck /\ q.told = p.told
            => q = [p EXCEPT !.pens = q.pens, !.spoilt = q.spoilt]
  <1>1. ASSUME q.shows = p.shows, q.spoilt = p.spoilt, q.mark = p.mark,
               q.struck = p.struck, q.told = p.told
        PROVE  q = [p EXCEPT !.owner = q.owner, !.pens = q.pens]
    <2> DEFINE e == [p EXCEPT !.owner = q.owner, !.pens = q.pens]
    <2>1. e \in Book!Page
      BY DEF Book!Page
    <2>2. /\ e.owner = q.owner /\ e.pens = q.pens /\ e.shows = p.shows /\ e.spoilt = p.spoilt
          /\ e.mark = p.mark /\ e.struck = p.struck /\ e.told = p.told
      BY DEF Book!Page
    <2> HIDE DEF e
    <2>3. q = e
      BY <1>1, <2>1, <2>2, SameFields
    <2>4. QED
      BY <2>3 DEF e
  <1>2. ASSUME q.owner = p.owner, q.struck = p.struck, q.told = p.told
        PROVE  q = [p EXCEPT !.pens = q.pens, !.spoilt = q.spoilt, !.shows = q.shows,
                             !.mark = q.mark]
    <2> DEFINE e == [p EXCEPT !.pens = q.pens, !.spoilt = q.spoilt, !.shows = q.shows,
                              !.mark = q.mark]
    <2>1. e \in Book!Page
      BY DEF Book!Page
    <2>2. /\ e.owner = p.owner /\ e.pens = q.pens /\ e.shows = q.shows /\ e.spoilt = q.spoilt
          /\ e.mark = q.mark /\ e.struck = p.struck /\ e.told = p.told
      BY DEF Book!Page
    <2> HIDE DEF e
    <2>3. q = e
      BY <1>2, <2>1, <2>2, SameFields
    <2>4. QED
      BY <2>3 DEF e
  <1>3. ASSUME q.owner = p.owner, q.spoilt = p.spoilt, q.mark = p.mark,
               q.struck = p.struck, q.told = p.told
        PROVE  q = [p EXCEPT !.pens = q.pens, !.shows = q.shows]
    <2> DEFINE e == [p EXCEPT !.pens = q.pens, !.shows = q.shows]
    <2>1. e \in Book!Page
      BY DEF Book!Page
    <2>2. /\ e.owner = p.owner /\ e.pens = q.pens /\ e.shows = q.shows /\ e.spoilt = p.spoilt
          /\ e.mark = p.mark /\ e.struck = p.struck /\ e.told = p.told
      BY DEF Book!Page
    <2> HIDE DEF e
    <2>3. q = e
      BY <1>3, <2>1, <2>2, SameFields
    <2>4. QED
      BY <2>3 DEF e
  <1>4. ASSUME q.owner = p.owner, q.shows = p.shows, q.mark = p.mark,
               q.struck = p.struck, q.told = p.told
        PROVE  q = [p EXCEPT !.pens = q.pens, !.spoilt = q.spoilt]
    <2> DEFINE e == [p EXCEPT !.pens = q.pens, !.spoilt = q.spoilt]
    <2>1. e \in Book!Page
      BY DEF Book!Page
    <2>2. /\ e.owner = p.owner /\ e.pens = q.pens /\ e.shows = p.shows /\ e.spoilt = q.spoilt
          /\ e.mark = p.mark /\ e.struck = p.struck /\ e.told = p.told
      BY DEF Book!Page
    <2> HIDE DEF e
    <2>3. q = e
      BY <1>4, <2>1, <2>2, SameFields
    <2>4. QED
      BY <2>3 DEF e
  <1>5. QED
    BY <1>1, <1>2, <1>3, <1>4

(* A single field of a page is rewritten. *)
LEMMA PageEdit ==
  ASSUME NEW p \in Book!Page, NEW q \in Book!Page, q.owner = p.owner, q.pens = p.pens,
         q.spoilt = p.spoilt
  PROVE  /\ q.mark = p.mark /\ q.struck = p.struck /\ q.told = p.told
            => q = [p EXCEPT !.shows = q.shows]
         /\ q.shows = p.shows /\ q.struck = p.struck /\ q.told = p.told
            => q = [p EXCEPT !.mark = q.mark]
         /\ q.shows = p.shows /\ q.mark = p.mark /\ q.told = p.told
            => q = [p EXCEPT !.struck = q.struck]
         /\ q.shows = p.shows /\ q.mark = p.mark /\ q.struck = p.struck
            => q = [p EXCEPT !.told = q.told]
  BY DEF Book!Page

(* The fields of a page. *)
LEMMA Fields ==
  ASSUME NEW o \in Orders
  PROVE  /\ PageOf(o).owner = IF Exists(o) THEN OwnedBy(o) ELSE None
         /\ PageOf(o).pens = Writers(o) \cup (IF RestWrites(o) THEN {Dash} ELSE {})
         /\ PageOf(o).shows = Shows(o)
         /\ PageOf(o).spoilt = torn[o]
         /\ PageOf(o).mark = orders[o].status
         /\ PageOf(o).struck = orders[o].deleted
         /\ PageOf(o).told = (news[o] > 0)
         /\ PageOf(o)'.owner = IF Exists(o)' THEN OwnedBy(o)' ELSE None
         /\ PageOf(o)'.pens = Writers(o)' \cup (IF RestWrites(o)' THEN {Dash} ELSE {})
         /\ PageOf(o)'.shows = Shows(o)'
         /\ PageOf(o)'.spoilt = torn'[o]
         /\ PageOf(o)'.mark = orders'[o].status
         /\ PageOf(o)'.struck = orders'[o].deleted
         /\ PageOf(o)'.told = (news'[o] > 0)
  BY DEF PageOf

LEMMA SameTold ==
  ASSUME NEW o \in Orders, news'[o] = news[o]
  PROVE  PageOf(o)'.told = PageOf(o).told
  BY DEF PageOf

(* INSERT INTO Orders begins a page. *)
LEMMA InsertBegins ==
  ASSUME BookInv, [Next]_vars, NEW j \in Jobs, InsertOrder(j), NEW p, p = lastId + 1
  PROVE  [Book!Next]_([o \in Orders |-> PageOf(o)])
  <1> USE DEF BookInv, BaseInv, TypeOK
  <1>1. p \in Orders /\ ~Exists(p)
    BY CallsAssumption DEF InsertOrder, TypeDb, Orders, DbInv
  <1>2. orders[p] = NoOrder /\ ~torn[p] /\ news[p] = 0
    BY <1>1 DEF PageInv, CallsInv, TornInv, NewsInv
  <1>3. Writers(p) = {} /\ ~RestWrites(p)
    BY <1>1 DEF Writers, RestWrites, JobInv, JobOk, RestInv, Writing
  <1>4. /\ target'[j] = p /\ pc'[j] = "insert" /\ pc[j] = "create"
        /\ \A k \in Jobs \ {j} : pc'[k] = pc[k] /\ target'[k] = target[k]
        /\ \A o \in Orders \ {p} : orders'[o] = orders[o]
        /\ orders'[p] = [NoOrder EXCEPT !.by = ReqOf(j), !.content = ReqOf(j)]
        /\ UNCHANGED <<rest, news, torn>>
    BY <1>1 DEF InsertOrder, JobStep, TypeJobs, TypeDb, restVars, ghosts
  <1>5. /\ \A o \in Orders \ {p} : SamePage(o)
        /\ Writers(p)' \ {j} = {} /\ ~RestWrites(p)'
    BY <1>1, <1>3, <1>4, JobAtOne DEF Writing
  <1>6. Writers(p)' = {j}
    BY <1>4, <1>5 DEF Writers, Writing
  <1>7. /\ orders'[p].by = ReqOf(j) /\ orders'[p].content = ReqOf(j)
        /\ orders'[p].items = NoRows /\ orders'[p].status = "pending"
        /\ orders'[p].deleted = FALSE
    BY <1>4 DEF NoOrder
  <1>8. PageOf(p) = Book!Blank
    <2>1. orders[p].status = "pending" /\ orders[p].deleted = FALSE
      BY <1>2 DEF NoOrder
    <2>2. torn[p] = FALSE
      BY <1>1, <1>2 DEF TypeGhosts
    <2>3. Writers(p) \cup (IF RestWrites(p) THEN {Dash} ELSE {}) = {}
      BY <1>3
    <2>4. (IF Exists(p) THEN OwnedBy(p) ELSE None) = None /\ Shows(p) = None
      BY <1>1 DEF Shows
    <2>5. (news[p] > 0) = FALSE
      BY <1>2
    <2>6. QED
      BY <2>1, <2>2, <2>3, <2>4, <2>5 DEF PageOf, Book!Blank
  <1>9. ReqOf(j) \in Requests /\ ReqOf(j) # None
    BY JobParts, CallsAssumption DEF Requests
  <1>10. Shows(p)' = None
    <2>1. ReqOf(j) \in Contents
      BY <1>9 DEF Contents
    <2>2. RowsOf(ReqOf(j), ItemRows)[ReqOf(j)] = ItemRows /\ NoRows[ReqOf(j)] = 0
      BY <2>1 DEF RowsOf, NoRows
    <2>3. NoRows # RowsOf(ReqOf(j), ItemRows)
      BY <2>2, CallsAssumption
    <2>4. QED
      BY <1>7, <2>3 DEF Shows
  <1>11. Exists(p)' /\ OwnedBy(p)' = CallerOf[j[1]]
    BY <1>7, <1>9 DEF Exists, OwnedBy, ReqOf
  <1> DEFINE P == PageOf(p)
  <1>12. P \in Book!Page /\ P' \in Book!Page
    BY <1>1, PagesTyped DEF Typed
  <1>13. /\ P'.shows = P.shows /\ P'.spoilt = P.spoilt /\ P'.mark = P.mark
         /\ P'.struck = P.struck /\ P'.told = P.told
    <2>1. Shows(p)' = Shows(p)
      BY <1>1, <1>10 DEF Shows
    <2>2. orders[p].status = "pending" /\ orders[p].deleted = FALSE
      BY <1>2 DEF NoOrder
    <2>3. P'.told = P.told
      BY <1>1, <1>4, SameTold
    <2>4. P'.shows = P.shows /\ P'.spoilt = P.spoilt
      BY <1>1, <1>4, <2>1, Fields
    <2>5. P'.mark = P.mark /\ P'.struck = P.struck
      BY <1>1, <1>7, <2>2, Fields
    <2>6. QED
      BY <2>3, <2>4, <2>5
  <1>14. P'.owner = CallerOf[j[1]] /\ P'.pens = {j}
    BY <1>1, <1>5, <1>6, <1>11, Fields
  <1>15. P = Book!Blank
    BY <1>8
  <1> HIDE DEF P
  <1>16. P' = [P EXCEPT !.owner = P'.owner, !.pens = P'.pens]
    BY <1>12, <1>13, PageEdits
  <1>17. P' = [Book!Blank EXCEPT !.owner = CallerOf[j[1]], !.pens = {j}]
    BY <1>14, <1>15, <1>16
  <1>18. Book!Begin(P, P')
    BY <1>15, <1>17, Penmanship DEF Book!Begin
  <1>19. Book!Turn(P, P')
    BY <1>18 DEF Book!Turn
  <1>20. QED
    BY <1>1, <1>5, <1>19, TurnsOnePage DEF P

(* The thread that UPDATEs the content takes the page of its caller. *)
LEMMA UpdateTakes ==
  ASSUME BookInv, [Next]_vars, NEW j \in Jobs, UpdateOrder(j), NEW p, p = target[j]
  PROVE  [Book!Next]_([o \in Orders |-> PageOf(o)])
  <1> USE DEF BookInv, BaseInv, TypeOK
  <1>1. p \in Orders /\ Exists(p) /\ OwnedBy(p) = CallerOf[j[1]] /\ orders[p] \in Rows
    BY DEF UpdateOrder, JobStep, JobInv, JobOk, CallsInv, OwnInv, Holds, Owns, TypeDb
  <1>2. /\ target'[j] = p /\ pc'[j] = "delete" /\ pc[j] = "update"
        /\ \A k \in Jobs \ {j} : pc'[k] = pc[k] /\ target'[k] = target[k]
        /\ \A o \in Orders \ {p} : orders'[o] = orders[o] /\ torn'[o] = torn[o]
        /\ orders'[p] = [orders[p] EXCEPT !.content = ReqOf(j)]
        /\ torn'[p] = Contended(p)
        /\ UNCHANGED <<rest, news>>
    BY <1>1 DEF UpdateOrder, JobStep, TypeJobs, TypeDb, TypeGhosts, restVars
  <1>3. /\ \A o \in Orders \ {p} : SamePage(o)
        /\ Writers(p)' \ {j} = Writers(p) \ {j} /\ (RestWrites(p)' <=> RestWrites(p))
    BY <1>1, <1>2, JobAtOne DEF Writing
  <1>4. Writers(p)' = Writers(p) \cup {j} /\ j \notin Writers(p)
    BY <1>2, <1>3 DEF Writers, Writing
  <1>5. /\ orders'[p].by = orders[p].by /\ orders'[p].status = orders[p].status
        /\ orders'[p].deleted = orders[p].deleted
    BY <1>1, <1>2, RowUntouched
  <1>6. Exists(p)' /\ OwnedBy(p)' = OwnedBy(p)
    BY <1>1, <1>5 DEF Exists, OwnedBy
  <1> DEFINE P == PageOf(p)
  <1>7. P \in Book!Page /\ P' \in Book!Page
    BY <1>1, PagesTyped DEF Typed
  <1>8. P'.owner = P.owner /\ P'.struck = P.struck /\ P'.told = P.told /\ P'.mark = P.mark
    <2>1. P'.owner = P.owner
      BY <1>1, <1>6, Fields
    <2>2. P'.struck = P.struck /\ P'.mark = P.mark
      BY <1>1, <1>5, Fields
    <2>3. P'.told = P.told
      BY <1>1, <1>2, SameTold
    <2>4. QED
      BY <2>1, <2>2, <2>3
  <1>9. P'.pens = P.pens \cup {j} /\ j \in Pens \ P.pens
    <2>1. j \in Pens /\ j # Dash
      BY Penmanship
    <2>2. QED
      BY <1>1, <1>3, <1>4, <2>1, Fields
  <1>10. P'.spoilt = (P.pens # {})
    <2>1. (P.pens # {}) = Contended(p)
      BY <1>1, Fields DEF Contended
    <2>2. P'.spoilt = torn'[p]
      BY <1>1, Fields
    <2>3. QED
      BY <1>2, <2>1, <2>2
  <1>11. P.owner = CallerOf[j[1]]
    BY <1>1, Fields
  <1> HIDE DEF P
  <1>12. P' = [P EXCEPT !.pens = P'.pens, !.spoilt = P'.spoilt, !.shows = P'.shows,
                        !.mark = P'.mark]
    BY <1>7, <1>8, PageEdits
  <1>13. Book!Take(P, P')
    BY <1>8, <1>9, <1>10, <1>11, <1>12, Penmanship DEF Book!Take, Book!May, Book!Used
  <1>14. Book!Turn(P, P')
    BY <1>13 DEF Book!Turn
  <1>15. QED
    BY <1>1, <1>3, <1>14, TurnsOnePage DEF P

(* A thread that rewrites item rows. *)
LEMMA ItemRowsChange ==
  ASSUME BookInv, [Next]_vars, NEW j \in Jobs, DeleteItems(j) \/ InsertItem(j),
         NEW p, p = target[j]
  PROVE  /\ p \in Orders /\ Exists(p) /\ j \in Writers(p)
         /\ PageOf(p) \in Book!Page /\ PageOf(p)' \in Book!Page
         /\ \A o \in Orders \ {p} : SamePage(o)
         /\ Writers(p)' \ {j} = Writers(p) \ {j} /\ (RestWrites(p)' <=> RestWrites(p))
         /\ orders'[p].content = orders[p].content /\ Exists(p)'
         /\ PageOf(p)'.owner = PageOf(p).owner /\ PageOf(p)'.spoilt = PageOf(p).spoilt
         /\ PageOf(p)'.mark = PageOf(p).mark /\ PageOf(p)'.struck = PageOf(p).struck
         /\ PageOf(p)'.told = PageOf(p).told
  <1> USE DEF BookInv, BaseInv, TypeOK
  <1>1. /\ p \in Orders /\ Exists(p) /\ orders[p] \in Rows /\ pc[j] \in Writing
    BY DEF DeleteItems, InsertItem, JobStep, JobInv, JobOk, TypeDb, Writing
  <1>2. PageOf(p) \in Book!Page /\ PageOf(p)' \in Book!Page
    BY <1>1, PagesTyped DEF Typed
  <1>3. \E x : orders' = [orders EXCEPT ![p].items = x]
    <2>1. CASE DeleteItems(j)
      BY <2>1 DEF DeleteItems
    <2>2. CASE InsertItem(j)
      <3>1. orders' = [orders EXCEPT ![p].items = [orders[p].items EXCEPT ![ReqOf(j)] = @ + 1]]
        BY <1>1, <2>2 DEF InsertItem, TypeDb
      <3>2. QED
        BY <3>1
    <2>3. QED
      BY <2>1, <2>2
  <1>4. PICK x : orders' = [orders EXCEPT ![p].items = x]
    BY <1>3
  <1>5. /\ \A o \in Orders \ {p} : orders'[o] = orders[o]
        /\ orders'[p] = [orders[p] EXCEPT !.items = x]
    BY <1>1, <1>4 DEF TypeDb
  <1>6. /\ orders'[p].by = orders[p].by /\ orders'[p].content = orders[p].content
        /\ orders'[p].status = orders[p].status /\ orders'[p].deleted = orders[p].deleted
    BY <1>1, <1>5, RowUntouched
  <1>7. /\ target'[j] = p /\ UNCHANGED <<rest, news, torn>>
        /\ \A k \in Jobs \ {j} : pc'[k] = pc[k] /\ target'[k] = target[k]
    BY DEF DeleteItems, InsertItem, JobStep, TypeJobs, restVars, ghosts
  <1>8. /\ \A o \in Orders \ {p} : SamePage(o)
        /\ Writers(p)' \ {j} = Writers(p) \ {j} /\ (RestWrites(p)' <=> RestWrites(p))
    BY <1>1, <1>5, <1>7, JobAtOne
  <1>9. Exists(p)' /\ OwnedBy(p)' = OwnedBy(p)
    BY <1>1, <1>6 DEF Exists, OwnedBy
  <1>10. PageOf(p)'.owner = PageOf(p).owner /\ PageOf(p)'.spoilt = PageOf(p).spoilt
    BY <1>1, <1>7, <1>9, Fields
  <1>11. PageOf(p)'.mark = PageOf(p).mark /\ PageOf(p)'.struck = PageOf(p).struck
    BY <1>1, <1>6, Fields
  <1>12. PageOf(p)'.told = PageOf(p).told
    BY <1>1, <1>7, SameTold
  <1>13. j \in Writers(p)
    BY <1>1 DEF Writers
  <1>14. QED
    BY <1>1, <1>2, <1>6, <1>8, <1>9, <1>10, <1>11, <1>12, <1>13

(* Between its first and its last row a thread may leave the page in any    *)
(* state.                                                                   *)
LEMMA RowsScribble ==
  ASSUME BookInv, [Next]_vars, NEW j \in Jobs,
         DeleteItems(j) \/ (InsertItem(j) /\ left[j] # 1)
  PROVE  [Book!Next]_([o \in Orders |-> PageOf(o)])
  <1>0. PICK p : p = target[j]
    OBVIOUS
  <1> DEFINE P == PageOf(p)
  <1>1. /\ p \in Orders /\ Exists(p) /\ j \in Writers(p)
        /\ \A o \in Orders \ {p} : SamePage(o)
        /\ P \in Book!Page /\ P' \in Book!Page
        /\ P'.owner = P.owner /\ P'.spoilt = P.spoilt /\ P'.mark = P.mark
        /\ P'.struck = P.struck /\ P'.told = P.told
    BY <1>0, ItemRowsChange
  <1>2. Writers(p)' = Writers(p) /\ (RestWrites(p)' <=> RestWrites(p))
    <2>1. pc'[j] = "insert" /\ target'[j] = p
      BY <1>0 DEF BookInv, BaseInv, TypeOK, TypeJobs, DeleteItems, InsertItem, JobStep
    <2>2. j \in Writers(p)'
      BY <2>1 DEF Writers, Writing
    <2>3. QED
      BY <1>0, <1>1, <2>2, ItemRowsChange
  <1>3. P'.pens = P.pens /\ P.pens # {}
    BY <1>1, <1>2, Fields
  <1> HIDE DEF P
  <1>4. P' = [P EXCEPT !.shows = P'.shows]
    BY <1>1, <1>3, PageEdit
  <1>5. Book!Turn(P, P')
    BY <1>3, <1>4 DEF Book!Turn, Book!Scribble
  <1>6. QED
    BY <1>1, <1>5, TurnsOnePage DEF P, BookInv

(* The last item row: the thread is done, and what it wrote stands there    *)
(* unless the order was torn meanwhile.                                     *)
LEMMA LastRowFinishes ==
  ASSUME BookInv, [Next]_vars, NEW j \in Jobs, InsertItem(j), left[j] = 1
  PROVE  [Book!Next]_([o \in Orders |-> PageOf(o)])
  <1>0. PICK p : p = target[j]
    OBVIOUS
  <1> DEFINE P == PageOf(p)
  <1>1. /\ p \in Orders /\ Exists(p) /\ j \in Writers(p) /\ Exists(p)'
        /\ \A o \in Orders \ {p} : SamePage(o)
        /\ P \in Book!Page /\ P' \in Book!Page
        /\ P'.owner = P.owner /\ P'.spoilt = P.spoilt /\ P'.mark = P.mark
        /\ P'.struck = P.struck /\ P'.told = P.told
        /\ orders'[p].content = orders[p].content
    BY <1>0, ItemRowsChange
  <1>2. Writers(p)' = Writers(p) \ {j} /\ (RestWrites(p)' <=> RestWrites(p))
    <2>1. pc'[j] \in {"status", "done"}
      BY DEF BookInv, BaseInv, TypeOK, TypeJobs, InsertItem, JobStep, AfterItems
    <2>2. j \notin Writers(p)'
      BY <2>1 DEF Writers, Writing
    <2>3. QED
      BY <1>0, <1>1, <2>2, ItemRowsChange
  <1>3. P'.pens = P.pens \ {j} /\ j \in P.pens
    <2>1. j # Dash
      BY Penmanship
    <2>2. QED
      BY <1>1, <1>2, <2>1, Fields
  <1>4. ASSUME ~P.spoilt PROVE P'.shows = ReqOf(j)
    <2>1. ~torn[p] /\ ~torn'[p]
      BY <1>1, <1>4, Fields
    <2>2. OneWriter(p) /\ OneWriter(p)'
      BY <1>1, <2>1, InsertItemWrites DEF WriterInv, BookInv
    <2>3. orders[p].content = ReqOf(j)
      BY <1>1, <2>2 DEF OneWriter, JobProgress
    <2>4. Writers(p) = {j} /\ ~RestWrites(p)
      BY <1>1, <2>2 DEF OneWriter, Writers
    <2>5. ~Contended(p)'
      BY <1>2, <2>4 DEF Contended
    <2>6. Shows(p)' = ReqOf(j)
      BY <1>1, <2>2, <2>3, <2>5 DEF OneWriter, Shows
    <2>7. QED
      BY <1>1, <2>6, Fields
  <1> HIDE DEF P
  <1>5. P' = [P EXCEPT !.pens = P'.pens, !.shows = P'.shows]
    BY <1>1, PageEdits
  <1>6. Book!Finish(P, P')
    BY <1>3, <1>4, <1>5, Penmanship DEF Book!Finish
  <1>7. Book!Turn(P, P')
    BY <1>6 DEF Book!Turn
  <1>8. QED
    BY <1>1, <1>7, TurnsOnePage DEF P, BookInv

(* A statement between the first and the last raises: the thread leaves off. *)
LEMMA FailLeavesOff ==
  ASSUME BookInv, [Next]_vars, NEW j \in Jobs, FailJob(j), pc[j] \in Writing
  PROVE  [Book!Next]_([o \in Orders |-> PageOf(o)])
  <1>0. PICK p : p = target[j]
    OBVIOUS
  <1> DEFINE P == PageOf(p)
  <1> USE DEF BookInv, BaseInv, TypeOK
  <1>1. p \in Orders /\ j \in Writers(p) /\ P \in Book!Page /\ P' \in Book!Page
    <2>1. p \in Orders
      BY <1>0 DEF JobInv, JobOk
    <2>2. QED
      BY <1>0, <2>1, PagesTyped DEF Writers, Typed
  <1>2. /\ pc'[j] = "failed" /\ target'[j] = p
        /\ \A k \in Jobs \ {j} : pc'[k] = pc[k] /\ target'[k] = target[k]
        /\ \A o \in Orders \ {p} : torn'[o] = torn[o]
        /\ torn'[p] = TRUE
        /\ UNCHANGED <<rest, news, orders>>
    BY <1>0, <1>1 DEF FailJob, TypeJobs, TypeGhosts, restVars, dbVars
  <1>3. /\ \A o \in Orders \ {p} : SamePage(o)
        /\ Writers(p)' \ {j} = Writers(p) \ {j} /\ (RestWrites(p)' <=> RestWrites(p))
    BY <1>0, <1>1, <1>2, JobAtOne
  <1>4. Writers(p)' = Writers(p) \ {j}
    BY <1>2, <1>3 DEF Writers, Writing
  <1>5. P'.pens = P.pens \ {j} /\ j \in P.pens
    <2>1. j # Dash
      BY Penmanship
    <2>2. QED
      BY <1>1, <1>3, <1>4, <2>1, Fields
  <1>6. P'.owner = P.owner /\ P'.shows = P.shows /\ P'.mark = P.mark /\ P'.struck = P.struck
    BY <1>2 DEF PageOf, Exists, OwnedBy, Shows
  <1>7. P'.told = P.told /\ P'.spoilt = TRUE
    BY <1>1, <1>2, SameTold, Fields
  <1> HIDE DEF P
  <1>8. P' = [P EXCEPT !.pens = P'.pens, !.spoilt = P'.spoilt]
    BY <1>1, <1>6, <1>7, PageEdits
  <1>9. Book!LeaveOff(P, P')
    BY <1>5, <1>7, <1>8 DEF Book!LeaveOff
  <1>10. Book!Turn(P, P')
    BY <1>9 DEF Book!Turn
  <1>11. QED
    BY <1>1, <1>3, <1>10, TurnsOnePage DEF P

(* A status written to an order that is not deleted marks its page. *)
LEMMA StatusMarks ==
  ASSUME BookInv, [Next]_vars, NEW p \in Orders, Live(p), NEW s,
         orders' = [orders EXCEPT ![p].status = s], UNCHANGED <<torn, news>>,
         Writers(p)' = Writers(p), RestWrites(p)' <=> RestWrites(p),
         \A o \in Orders \ {p} : Writers(o)' = Writers(o) /\ (RestWrites(o)' <=> RestWrites(o))
  PROVE  [Book!Next]_([o \in Orders |-> PageOf(o)])
  <1> DEFINE P == PageOf(p)
  <1> USE DEF BookInv, BaseInv, TypeOK
  <1>1. P \in Book!Page /\ P' \in Book!Page /\ orders[p] \in Rows
    BY PagesTyped DEF Typed, TypeDb
  <1>2. /\ \A o \in Orders \ {p} : orders'[o] = orders[o]
        /\ orders'[p] = [orders[p] EXCEPT !.status = s]
    BY DEF TypeDb
  <1>3. /\ orders'[p].by = orders[p].by /\ orders'[p].content = orders[p].content
        /\ orders'[p].items = orders[p].items /\ orders'[p].deleted = orders[p].deleted
    BY <1>1, <1>2, RowUntouched
  <1>4. \A o \in Orders \ {p} : SamePage(o)
    BY <1>2, PageFrame
  <1>5. Exists(p)' /\ Exists(p) /\ OwnedBy(p)' = OwnedBy(p) /\ Shows(p)' = Shows(p)
    BY <1>3 DEF Live, Exists, OwnedBy, Shows
  <1>6. P'.owner = P.owner /\ P'.shows = P.shows /\ P'.pens = P.pens
    BY <1>5, Fields
  <1>7. P'.spoilt = P.spoilt /\ P'.struck = P.struck
    BY <1>3, Fields
  <1>8. P'.told = P.told
    BY SameTold
  <1>9. P.owner # None /\ ~P.struck
    <2>1. OwnedBy(p) \in Callers
      BY <1>1, <1>5, CallsAssumption DEF Exists, OwnedBy, Rows, Requests
    <2>2. QED
      BY <1>5, <2>1, Fields, CallsAssumption DEF Live
  <1> HIDE DEF P
  <1>10. P' = [P EXCEPT !.mark = P'.mark]
    BY <1>1, <1>6, <1>7, <1>8, PageEdit
  <1>11. Book!Turn(P, P')
    BY <1>9, <1>10 DEF Book!Turn, Book!Mark, Book!Used
  <1>12. QED
    BY <1>4, <1>11, TurnsOnePage DEF P

LEMMA ThreadsMark ==
  ASSUME BookInv, [Next]_vars, NEW j \in Jobs, SetStatus(j)
  PROVE  [Book!Next]_([o \in Orders |-> PageOf(o)])
  <1> USE DEF BookInv, BaseInv, TypeOK
  <1>1. target[j] \in Orders /\ Exists(target[j])
    BY DEF SetStatus, JobStep, JobInv, JobOk
  <1>2. /\ UNCHANGED <<rest, news, torn, lastId>>
        /\ \A k \in Jobs : \/ pc'[k] = pc[k] /\ target'[k] = target[k]
                           \/ pc[k] \notin Writing /\ pc'[k] \notin Writing
    BY DEF SetStatus, JobStep, TypeJobs, Writing, restVars, ghosts
  <1>3. \A o \in Orders : Writers(o)' = Writers(o) /\ (RestWrites(o)' <=> RestWrites(o))
    BY <1>2, WritersFrame DEF RestWrites
  <1>4. CASE orders[target[j]].deleted
    <2>1. UNCHANGED orders
      BY <1>4 DEF SetStatus
    <2>2. QED
      BY <1>2, <2>1, QuietStep, TurnsNone DEF dbVars
  <1>5. CASE ~orders[target[j]].deleted
    <2>1. orders' = [orders EXCEPT ![target[j]].status = ask[ReqOf(j)].status]
      BY <1>5 DEF SetStatus
    <2>2. PICK p \in Orders : p = target[j]
      BY <1>1
    <2>3. PICK s : s = ask[ReqOf(j)].status
      OBVIOUS
    <2>4. Live(p)
      BY <1>1, <1>5, <2>2 DEF Live
    <2>5. orders' = [orders EXCEPT ![p].status = s]
      BY <2>1, <2>2, <2>3
    <2>6. QED
      BY <1>2, <1>3, <2>4, <2>5, StatusMarks
  <1>6. QED
    BY <1>4, <1>5

LEMMA StaffMarks ==
  ASSUME BookInv, [Next]_vars,
         RestCancel \/ \E o \in Orders, s \in AllStatuses : PutStatus(o, s)
  PROVE  [Book!Next]_([o \in Orders |-> PageOf(o)])
  <1> USE DEF BookInv, BaseInv, TypeOK
  <1>1. ASSUME NEW o \in Orders, NEW s \in AllStatuses, PutStatus(o, s)
        PROVE  [Book!Next]_([x \in Orders |-> PageOf(x)])
    <2>1. /\ UNCHANGED <<jobVars, rest, news, torn>> /\ Live(o)
          /\ orders' = [orders EXCEPT ![o].status = s]
      BY <1>1 DEF PutStatus, ghosts
    <2>2. \A x \in Orders : Writers(x)' = Writers(x) /\ (RestWrites(x)' <=> RestWrites(x))
      BY <2>1 DEF Writers, RestWrites, jobVars
    <2>3. QED
      BY <2>1, <2>2, StatusMarks
  <1>2. CASE RestCancel
    <2>1. PICK p \in Orders : p = rest.order /\ Live(p)
      BY <1>2 DEF RestCancel, RestInv, PageInv, Live
    <2>2. /\ UNCHANGED <<jobVars, news, torn>>
          /\ orders' = [orders EXCEPT ![p].status = "cancelled"]
      BY <1>2, <2>1 DEF RestCancel, ghosts
    <2>3. rest.pc \notin Writing /\ rest'.pc \notin Writing
      BY <1>2 DEF RestCancel, Idle, Writing
    <2>4. \A x \in Orders : Writers(x)' = Writers(x) /\ (RestWrites(x)' <=> RestWrites(x))
      BY <2>2, <2>3 DEF Writers, RestWrites, jobVars
    <2>5. QED
      BY <2>1, <2>2, <2>4, StatusMarks
  <1>3. QED
    BY <1>1, <1>2

(* The staff strike a page out, or restore it. *)
LEMMA StaffStrike ==
  ASSUME BookInv, [Next]_vars, NEW p \in Orders, SoftDelete(p) \/ Restore(p)
  PROVE  [Book!Next]_([o \in Orders |-> PageOf(o)])
  <1> DEFINE P == PageOf(p)
  <1> USE DEF BookInv, BaseInv, TypeOK
  <1>1. P \in Book!Page /\ P' \in Book!Page /\ orders[p] \in Rows /\ Exists(p)
    BY PagesTyped DEF Typed, TypeDb, SoftDelete, Restore, Live
  <1>2. PICK b \in BOOLEAN : /\ orders' = [orders EXCEPT ![p].deleted = b]
                             /\ orders[p].deleted = ~b
    <2>1. CASE SoftDelete(p)
      <3>1. orders' = [orders EXCEPT ![p].deleted = TRUE] /\ orders[p].deleted = FALSE
        BY <1>1, <2>1 DEF SoftDelete, Live, Rows
      <3>2. QED
        BY <3>1
    <2>2. CASE Restore(p)
      <3>1. orders' = [orders EXCEPT ![p].deleted = FALSE] /\ orders[p].deleted = TRUE
        BY <1>1, <2>2 DEF Restore, Rows
      <3>2. QED
        BY <3>1
    <2>3. QED
      BY <2>1, <2>2
  <1>3. UNCHANGED <<jobVars, rest, news, torn>>
    BY DEF SoftDelete, Restore, restVars, ghosts
  <1>4. \A o \in Orders : Writers(o)' = Writers(o) /\ (RestWrites(o)' <=> RestWrites(o))
    BY <1>3 DEF Writers, RestWrites, jobVars
  <1>5. /\ \A o \in Orders \ {p} : orders'[o] = orders[o]
        /\ orders'[p] = [orders[p] EXCEPT !.deleted = b]
    BY <1>2 DEF TypeDb
  <1>6. /\ orders'[p].by = orders[p].by /\ orders'[p].content = orders[p].content
        /\ orders'[p].items = orders[p].items /\ orders'[p].status = orders[p].status
        /\ orders'[p].deleted = b
    BY <1>1, <1>5 DEF Rows
  <1>7. \A o \in Orders \ {p} : SamePage(o)
    BY <1>3, <1>4, <1>5, PageFrame
  <1>8. Exists(p)' /\ OwnedBy(p)' = OwnedBy(p) /\ Shows(p)' = Shows(p)
    BY <1>1, <1>6 DEF Exists, OwnedBy, Shows
  <1>9. P'.owner = P.owner /\ P'.shows = P.shows /\ P'.pens = P.pens
    BY <1>1, <1>4, <1>8, Fields
  <1>10. P'.spoilt = P.spoilt /\ P'.mark = P.mark /\ P'.told = P.told
    BY <1>3, <1>6, Fields, SameTold
  <1>11. P.struck = ~b /\ P'.struck = b
    BY <1>2, <1>6, Fields
  <1>12. P.owner # None
    <2>1. OwnedBy(p) \in Callers
      BY <1>1, CallsAssumption DEF Exists, OwnedBy, Rows, Requests
    <2>2. QED
      BY <1>1, <2>1, Fields, CallsAssumption
  <1> HIDE DEF P
  <1>13. P' = [P EXCEPT !.struck = b]
    BY <1>1, <1>9, <1>10, <1>11, PageEdit
  <1>14. Book!Strike(P, P') \/ Book!Restore(P, P')
    <2>1. CASE b = TRUE
      BY <1>11, <1>12, <1>13, <2>1 DEF Book!Strike, Book!Used
    <2>2. CASE b = FALSE
      BY <1>11, <1>12, <1>13, <2>2 DEF Book!Restore, Book!Used
    <2>3. QED
      BY <2>1, <2>2
  <1>15. Book!Turn(P, P')
    BY <1>14 DEF Book!Turn
  <1>16. QED
    BY <1>7, <1>15, TurnsOnePage DEF P

(* The creator of an order announces it, and nobody has before. *)
LEMMA FinishAnnounces ==
  ASSUME BookInv, [Next]_vars, NEW c \in Calls, Finish(c)
  PROVE  [Book!Next]_([o \in Orders |-> PageOf(o)])
  <1>0. PICK j : j = Current(c)
    OBVIOUS
  <1> USE DEF BookInv, BaseInv, TypeOK
  <1>1. /\ j \in Jobs /\ target[j] \in Orders /\ Exists(target[j]) /\ pc[j] = "logged"
    <2>1. j \in Jobs /\ pc[j] = "logged"
      BY <1>0, CurrentIsJob DEF Finish
    <2>2. QED
      BY <2>1 DEF JobInv, JobOk
  <1>2. PICK p \in Orders : p = target[j]
    BY <1>1
  <1>3. /\ \A k \in Jobs : \/ pc'[k] = pc[k] /\ target'[k] = target[k]
                           \/ pc[k] \notin Writing /\ pc'[k] \notin Writing
        /\ UNCHANGED <<orders, lastId, rest, torn>>
    BY <1>0, <1>1 DEF Finish, TypeJobs, Writing, restVars, ghosts
  <1>4. CASE mode[j] # "created"
    <2>1. UNCHANGED news
      BY <1>0, <1>4 DEF Finish
    <2>2. QED
      BY <1>3, <2>1, QuietStep, TurnsNone DEF dbVars
  <1>5. CASE mode[j] = "created"
    <2> DEFINE P == PageOf(p)
    <2>1. P \in Book!Page /\ P' \in Book!Page /\ orders[p] \in Rows
      BY PagesTyped DEF Typed, TypeDb
    <2>2. news[p] = 0
      BY <1>1, <1>2, <1>5 DEF CallsInv, NewsInv
    <2>3. news'[p] = 1 /\ \A o \in Orders \ {p} : news'[o] = news[o]
      BY <1>0, <1>2, <1>5, <2>2 DEF Finish, TypeDb
    <2>4. \A o \in Orders : Writers(o)' = Writers(o) /\ (RestWrites(o)' <=> RestWrites(o))
      BY <1>3, WritersFrame DEF RestWrites
    <2>5. \A o \in Orders \ {p} : SamePage(o)
      BY <1>3, <2>3, <2>4, PageFrame
    <2>6. P'.owner = P.owner /\ P'.shows = P.shows
      BY <1>3 DEF PageOf, Exists, OwnedBy, Shows
    <2>7. P'.pens = P.pens /\ P'.spoilt = P.spoilt /\ P'.mark = P.mark /\ P'.struck = P.struck
      BY <1>3, <2>4, Fields
    <2>8. P.told = FALSE /\ P'.told = TRUE
      <3>1. (news[p] > 0) = FALSE /\ (news'[p] > 0) = TRUE
        BY <2>2, <2>3
      <3>2. QED
        BY <3>1 DEF PageOf
    <2>9. P.owner # None
      <3>1. OwnedBy(p) \in Callers /\ Exists(p)
        BY <1>1, <1>2, <2>1, CallsAssumption DEF Exists, OwnedBy, Rows, Requests
      <3>2. QED
        BY <3>1, Fields, CallsAssumption
    <2> HIDE DEF P
    <2>10. P' = [P EXCEPT !.told = TRUE]
      BY <2>1, <2>6, <2>7, <2>8, PageEdit
    <2>11. Book!Turn(P, P')
      BY <2>8, <2>9, <2>10 DEF Book!Turn, Book!Announce, Book!Used
    <2>12. QED
      BY <2>5, <2>11, TurnsOnePage DEF P
  <1>6. QED
    BY <1>4, <1>5

(* All leave off when the process is killed. *)
LEMMA CrashStops ==
  ASSUME BookInv, [Next]_vars, Crash
  PROVE  [Book!Next]_([o \in Orders |-> PageOf(o)])
  <1> DEFINE book == [o \in Orders |-> PageOf(o)]
  <1> USE DEF BookInv, BaseInv, TypeOK
  <1>1. ASSUME NEW o \in Orders
        PROVE  PageOf(o)' = Book!Stopped(PageOf(o))
    <2> DEFINE P == PageOf(o)
    <2>1. P \in Book!Page /\ P' \in Book!Page
      BY PagesTyped DEF Typed
    <2>2. UNCHANGED dbVars /\ torn'[o] = (torn[o] \/ Contended(o))
      BY DEF Crash
    <2>3. Writers(o)' = {} /\ ~RestWrites(o)'
      BY DEF Crash, Writers, Writing, Busy, Running, TypeJobs, RestWrites, Idle
    <2>4. P'.pens = {}
      BY <2>3, Fields
    <2>5. P'.spoilt = (P.spoilt \/ P.pens # {})
      <3>1. (P.pens # {}) = Contended(o)
        BY Fields DEF Contended
      <3>2. P.spoilt = torn[o] /\ P'.spoilt = torn'[o]
        BY Fields
      <3>3. QED
        BY <2>2, <3>1, <3>2
    <2>6. P'.owner = P.owner /\ P'.shows = P.shows /\ P'.mark = P.mark /\ P'.struck = P.struck
      BY <2>2 DEF PageOf, Exists, OwnedBy, Shows, dbVars
    <2>7. P'.told = P.told
      BY <2>2, SameTold DEF dbVars
    <2> HIDE DEF P
    <2>8. P' = [P EXCEPT !.pens = P'.pens, !.spoilt = P'.spoilt]
      BY <2>1, <2>6, <2>7, PageEdits
    <2>9. QED
      BY <2>4, <2>5, <2>8 DEF Book!Stopped, P
  <1>2. Book!Stop
    BY <1>1 DEF Book!Stop
  <1>3. book' \in [Orders -> Book!Page]
    BY PagesTyped DEF Typed
  <1>4. QED
    BY <1>2, <1>3 DEF Book!Next

(* The staff's pen. *)
LEMMA StaffPen ==
  /\ Dash \in Pens
  /\ [x \in Pens |-> IF x = Dash THEN Dash ELSE CallerOf[x[1]]][Dash] = Dash
  /\ [x \in Pens |-> IF x = Dash THEN Dash ELSE ReqOf(x)][Dash] = Dash
  BY DEF Pens

(* The dashboard's handler works on one order. *)
LEMMA StaffAtOne ==
  ASSUME BookInv, [Next]_vars, RestUpdate \/ RestDelete \/ RestInsert \/ RestFail,
         NEW p, p = rest.order, rest.pc # "idle"
  PROVE  /\ p \in Orders /\ Exists(p) /\ ~orders[p].deleted
         /\ PageOf(p) \in Book!Page /\ PageOf(p)' \in Book!Page
         /\ \A o \in Orders \ {p} : SamePage(o)
         /\ Exists(p)' /\ Writers(p)' = Writers(p)
         /\ RestWrites(p) <=> rest.pc \in Writing
         /\ RestWrites(p)' <=> rest'.pc \in Writing
         /\ PageOf(p)'.owner = PageOf(p).owner /\ PageOf(p)'.struck = PageOf(p).struck
         /\ PageOf(p)'.told = PageOf(p).told
         /\ RestDelete \/ RestInsert \/ RestFail =>
              PageOf(p)'.mark = PageOf(p).mark /\ orders'[p].content = orders[p].content
         /\ RestDelete \/ RestInsert => PageOf(p)'.spoilt = PageOf(p).spoilt
  <1> USE DEF BookInv, BaseInv, TypeOK
  <1>1. p \in Orders /\ Exists(p) /\ ~orders[p].deleted /\ orders[p] \in Rows
    BY DEF RestInv, PageInv, TypeDb
  <1>2. PageOf(p) \in Book!Page /\ PageOf(p)' \in Book!Page
    BY <1>1, PagesTyped DEF Typed
  <1>3. /\ UNCHANGED <<jobVars, news>>
        /\ \A o \in Orders \ {p} : orders'[o] = orders[o] /\ torn'[o] = torn[o]
    BY <1>1 DEF RestUpdate, RestDelete, RestInsert, RestFail, TypeDb, TypeGhosts, dbVars, ghosts
  <1>4. \A o \in Orders : Writers(o)' = Writers(o)
    BY <1>3 DEF Writers, jobVars
  <1>5. rest'.pc = "idle" \/ rest'.order = p
    <2>1. CASE rest'.pc = "idle"
      BY <2>1
    <2>2. CASE rest'.pc # "idle"
      <3>1. RestUpdate \/ RestDelete \/ RestInsert
        BY <2>2 DEF RestFail, Idle
      <3>2. CASE RestUpdate
        BY <3>2 DEF RestUpdate, TypeRest
      <3>3. CASE RestDelete
        <4>1. rest' = [rest EXCEPT !.pc = "insert", !.left = ItemRows]
          BY <3>3 DEF RestDelete
        <4>2. QED
          BY <4>1 DEF TypeRest
      <3>4. CASE RestInsert
        BY <2>2, <3>4 DEF RestInsert, TypeRest, Idle
      <3>5. QED
        BY <3>1, <3>2, <3>3, <3>4
    <2>3. QED
      BY <2>1, <2>2
  <1>6. \A o \in Orders \ {p} : ~RestWrites(o) /\ ~RestWrites(o)'
    BY <1>5 DEF RestWrites, Writing
  <1>7. /\ RestWrites(p) <=> rest.pc \in Writing
        /\ RestWrites(p)' <=> rest'.pc \in Writing
    BY <1>5 DEF RestWrites, Writing
  <1>8. \A o \in Orders \ {p} : SamePage(o)
    BY <1>3, <1>4, <1>6, PageFrame
  <1>9. /\ orders'[p].by = orders[p].by /\ orders'[p].deleted = orders[p].deleted
        /\ RestDelete \/ RestInsert \/ RestFail =>
             /\ orders'[p].status = orders[p].status
             /\ orders'[p].content = orders[p].content
    <2>1. CASE RestUpdate
      <3>1. /\ ~RestDelete /\ ~RestInsert
            /\ RestFail => UNCHANGED orders
        BY <2>1 DEF RestUpdate, RestDelete, RestInsert, RestFail, dbVars
      <3>2. \E x : orders'[p] = [orders[p] EXCEPT !.content = Dash, !.status = x]
        BY <1>1, <2>1 DEF RestUpdate, TypeDb
      <3>3. PICK x : orders'[p] = [orders[p] EXCEPT !.content = Dash, !.status = x]
        BY <3>2
      <3>4. orders'[p].by = orders[p].by /\ orders'[p].deleted = orders[p].deleted
        BY <1>1, <3>3, DashEdit
      <3>5. QED
        BY <3>1, <3>4
    <2>2. CASE RestDelete \/ RestInsert
      <3>1. \E x : orders'[p] = [orders[p] EXCEPT !.items = x]
        <4>1. CASE RestDelete
          <5>1. orders'[p] = [orders[p] EXCEPT !.items = NoRows]
            BY <1>1, <4>1 DEF RestDelete, TypeDb
          <5>2. QED
            BY <5>1
        <4>2. CASE RestInsert
          <5>1. orders'[p] = [orders[p] EXCEPT !.items = [orders[p].items EXCEPT ![Dash] = @ + 1]]
            BY <1>1, <4>2 DEF RestInsert, TypeDb
          <5>2. QED
            BY <5>1
        <4>3. QED
          BY <2>2, <4>1, <4>2
      <3>2. PICK x : orders'[p] = [orders[p] EXCEPT !.items = x]
        BY <3>1
      <3>3. QED
        BY <1>1, <3>2, RowUntouched
    <2>3. CASE RestFail
      BY <2>3 DEF RestFail, dbVars
    <2>4. QED
      BY <2>1, <2>2, <2>3
  <1>10. Exists(p)' /\ OwnedBy(p)' = OwnedBy(p)
    BY <1>1, <1>9 DEF Exists, OwnedBy
  <1>11. PageOf(p)'.owner = PageOf(p).owner
    BY <1>1, <1>10, Fields
  <1>12. PageOf(p)'.told = PageOf(p).told
    BY <1>1, <1>3, SameTold
  <1>13. /\ PageOf(p)'.struck = PageOf(p).struck
         /\ RestDelete \/ RestInsert \/ RestFail => PageOf(p)'.mark = PageOf(p).mark
    BY <1>1, <1>9, Fields
  <1>14. RestDelete \/ RestInsert => PageOf(p)'.spoilt = PageOf(p).spoilt
    BY <1>1, Fields DEF RestDelete, RestInsert, ghosts
  <1>15. QED
    BY <1>1, <1>2, <1>4, <1>7, <1>8, <1>9, <1>10, <1>11, <1>12, <1>13, <1>14

(* The dashboard's UPDATE takes a page that is not struck out, and marks it. *)
LEMMA StaffTake ==
  ASSUME BookInv, [Next]_vars, RestUpdate
  PROVE  [Book!Next]_([o \in Orders |-> PageOf(o)])
  <1>0. PICK p : p = rest.order
    OBVIOUS
  <1> DEFINE P == PageOf(p)
  <1> USE DEF BookInv, BaseInv, TypeOK
  <1>1. rest.pc = "update" /\ rest.pc # "idle"
    BY DEF RestUpdate
  <1>2. /\ p \in Orders /\ Exists(p) /\ ~orders[p].deleted
        /\ P \in Book!Page /\ P' \in Book!Page
        /\ \A o \in Orders \ {p} : SamePage(o)
        /\ Writers(p)' = Writers(p)
        /\ RestWrites(p) <=> rest.pc \in Writing
        /\ RestWrites(p)' <=> rest'.pc \in Writing
        /\ P'.owner = P.owner /\ P'.struck = P.struck /\ P'.told = P.told
    BY <1>0, <1>1, StaffAtOne
  <1>3. ~RestWrites(p) /\ RestWrites(p)'
    BY <1>1, <1>2 DEF RestUpdate, TypeRest, Writing
  <1>4. P.pens = Writers(p) /\ P'.pens = P.pens \cup {Dash} /\ Dash \notin P.pens
    <2>1. Dash \notin Writers(p)
      BY DashIsNoJob DEF Writers
    <2>2. QED
      BY <1>2, <1>3, <2>1, Fields
  <1>5. P'.spoilt = (P.pens # {})
    <2>1. torn'[p] = (Writers(p) # {})
      BY <1>0, <1>2 DEF RestUpdate, TypeGhosts
    <2>2. QED
      BY <1>2, <1>4, <2>1, Fields
  <1>6. P.owner # None /\ ~P.struck
    <2>1. OwnedBy(p) \in Callers
      BY <1>2, CallsAssumption DEF Exists, OwnedBy, Rows, Requests, TypeDb
    <2>2. QED
      BY <1>2, <2>1, Fields, CallsAssumption
  <1> HIDE DEF P
  <1>7. P' = [P EXCEPT !.pens = P'.pens, !.spoilt = P'.spoilt, !.shows = P'.shows,
                       !.mark = P'.mark]
    BY <1>2, PageEdits
  <1>8. Book!Take(P, P')
    BY <1>4, <1>5, <1>6, <1>7, StaffPen DEF Book!Take, Book!May, Book!Used
  <1>9. Book!Turn(P, P')
    BY <1>8 DEF Book!Turn
  <1>10. QED
    BY <1>2, <1>9, TurnsOnePage DEF P

(* The statements between the dashboard's first and its last. *)
LEMMA StaffScribble ==
  ASSUME BookInv, [Next]_vars, RestDelete \/ (RestInsert /\ rest.left # 1)
  PROVE  [Book!Next]_([o \in Orders |-> PageOf(o)])
  <1>0. PICK p : p = rest.order
    OBVIOUS
  <1> DEFINE P == PageOf(p)
  <1> USE DEF BookInv, BaseInv, TypeOK
  <1>1. rest.pc \in Writing /\ rest.pc # "idle"
    BY DEF RestDelete, RestInsert, Writing
  <1>2. /\ p \in Orders /\ P \in Book!Page /\ P' \in Book!Page
        /\ \A o \in Orders \ {p} : SamePage(o)
        /\ Writers(p)' = Writers(p)
        /\ RestWrites(p) <=> rest.pc \in Writing
        /\ RestWrites(p)' <=> rest'.pc \in Writing
        /\ P'.owner = P.owner /\ P'.struck = P.struck /\ P'.told = P.told
        /\ P'.mark = P.mark /\ P'.spoilt = P.spoilt
    BY <1>0, <1>1, StaffAtOne
  <1>3. rest'.pc = "insert"
    <2>1. CASE RestDelete
      <3>1. rest' = [rest EXCEPT !.pc = "insert", !.left = ItemRows]
        BY <2>1 DEF RestDelete
      <3>2. QED
        BY <3>1 DEF TypeRest
    <2>2. CASE RestInsert /\ rest.left # 1
      BY <2>2 DEF RestInsert, TypeRest
    <2>3. QED
      BY <2>1, <2>2
  <1>4. P'.pens = P.pens /\ P.pens # {}
    BY <1>1, <1>2, <1>3, Fields DEF Writing
  <1> HIDE DEF P
  <1>5. P' = [P EXCEPT !.shows = P'.shows]
    BY <1>2, <1>4, PageEdit
  <1>6. Book!Turn(P, P')
    BY <1>4, <1>5 DEF Book!Turn, Book!Scribble
  <1>7. QED
    BY <1>2, <1>6, TurnsOnePage DEF P

LEMMA StaffFinish ==
  ASSUME BookInv, [Next]_vars, RestInsert, rest.left = 1
  PROVE  [Book!Next]_([o \in Orders |-> PageOf(o)])
  <1>0. PICK p : p = rest.order
    OBVIOUS
  <1> DEFINE P == PageOf(p)
  <1> USE DEF BookInv, BaseInv, TypeOK
  <1>1. /\ rest.pc \in Writing /\ rest.pc # "idle" /\ rest'.pc = "idle"
    BY DEF RestInsert, Idle, Writing
  <1>2. /\ p \in Orders /\ P \in Book!Page /\ P' \in Book!Page
        /\ Exists(p) /\ Exists(p)'
        /\ \A o \in Orders \ {p} : SamePage(o)
        /\ Writers(p)' = Writers(p)
        /\ RestWrites(p) <=> rest.pc \in Writing
        /\ RestWrites(p)' <=> rest'.pc \in Writing
        /\ P'.owner = P.owner /\ P'.struck = P.struck /\ P'.told = P.told
        /\ P'.mark = P.mark /\ P'.spoilt = P.spoilt
        /\ orders'[p].content = orders[p].content
    BY <1>0, <1>1, StaffAtOne
  <1>3. RestWrites(p) /\ ~RestWrites(p)'
    BY <1>1, <1>2 DEF Writing
  <1>4. P'.pens = P.pens \ {Dash} /\ Dash \in P.pens
    <2>1. Dash \notin Writers(p)
      BY DashIsNoJob DEF Writers
    <2>2. QED
      BY <1>2, <1>3, <2>1, Fields
  <1>5. ASSUME ~P.spoilt PROVE P'.shows = Dash
    <2>1. ~torn[p] /\ ~torn'[p]
      BY <1>2, <1>5, Fields
    <2>2. OneWriter(p) /\ OneWriter(p)'
      BY <1>2, <2>1, RestRewrites DEF WriterInv
    <2>3. orders[p].content = Dash /\ Writers(p) = {}
      BY <1>3, <2>2 DEF OneWriter, RestProgress
    <2>4. ~Contended(p)'
      BY <1>2, <1>3, <2>3 DEF Contended
    <2>5. Shows(p)' = Dash
      BY <1>2, <2>2, <2>3, <2>4 DEF OneWriter, Shows
    <2>6. QED
      BY <1>2, <2>5, Fields
  <1> HIDE DEF P
  <1>6. P' = [P EXCEPT !.pens = P'.pens, !.shows = P'.shows]
    BY <1>2, PageEdits
  <1>7. Book!Finish(P, P')
    BY <1>4, <1>5, <1>6, StaffPen DEF Book!Finish
  <1>8. Book!Turn(P, P')
    BY <1>7 DEF Book!Turn
  <1>9. QED
    BY <1>2, <1>8, TurnsOnePage DEF P

LEMMA StaffLeaveOff ==
  ASSUME BookInv, [Next]_vars, RestFail
  PROVE  [Book!Next]_([o \in Orders |-> PageOf(o)])
  <1>0. PICK p : p = rest.order
    OBVIOUS
  <1> DEFINE P == PageOf(p)
  <1> USE DEF BookInv, BaseInv, TypeOK
  <1>1. rest.pc # "idle" /\ rest'.pc = "idle"
    BY DEF RestFail, LoopFree, Idle
  <1>2. CASE rest.pc \notin Writing
    <2>1. UNCHANGED <<dbVars, torn, jobVars>> /\ rest'.pc \notin Writing
      BY <1>1, <1>2 DEF RestFail, Writing
    <2>2. QED
      BY <1>2, <2>1, QuietStep, TurnsNone DEF jobVars
  <1>3. CASE rest.pc \in Writing
    <2>1. /\ p \in Orders /\ P \in Book!Page /\ P' \in Book!Page
          /\ \A o \in Orders \ {p} : SamePage(o)
          /\ Writers(p)' = Writers(p)
          /\ RestWrites(p) <=> rest.pc \in Writing
          /\ RestWrites(p)' <=> rest'.pc \in Writing
          /\ P'.owner = P.owner /\ P'.struck = P.struck /\ P'.told = P.told
          /\ P'.mark = P.mark
      BY <1>0, <1>1, StaffAtOne
    <2>2. RestWrites(p) /\ ~RestWrites(p)'
      BY <1>1, <1>3, <2>1 DEF Writing
    <2>3. P'.pens = P.pens \ {Dash} /\ Dash \in P.pens
      <3>1. Dash \notin Writers(p)
        BY DashIsNoJob DEF Writers
      <3>2. QED
        BY <2>1, <2>2, <3>1, Fields
    <2>4. P'.spoilt = TRUE
      BY <1>0, <1>3, <2>1, Fields DEF RestFail, TypeGhosts
    <2>5. P'.shows = P.shows
      BY DEF RestFail, dbVars, PageOf, Shows, Exists
    <2> HIDE DEF P
    <2>6. P' = [P EXCEPT !.pens = P'.pens, !.spoilt = P'.spoilt]
      BY <2>1, <2>5, PageEdits
    <2>7. Book!LeaveOff(P, P')
      BY <2>3, <2>4, <2>6 DEF Book!LeaveOff
    <2>8. Book!Turn(P, P')
      BY <2>7 DEF Book!Turn
    <2>9. QED
      BY <2>1, <2>8, TurnsOnePage DEF P
  <1>4. QED
    BY <1>2, <1>3

(* The steps that the book does not see. *)
LEMMA LoopUnseen ==
  ASSUME BookInv, NEW c \in Calls,
         \/ StartCall(c) \/ Refuse(c) \/ Submit(c) \/ ResumeWritten(c)
         \/ ResumeUnwritten(c) \/ ResumeFailed(c) \/ Timeout(c) \/ EndCall(c)
         \/ \E a \in Asks : Request(c, a)
  PROVE  [Book!Next]_([o \in Orders |-> PageOf(o)])
  <1> USE DEF BookInv, BaseInv, TypeOK
  <1>1. UNCHANGED <<dbVars, torn, rest>>
    BY DEF StartCall, Refuse, Request, Submit, ResumeWritten, ResumeUnwritten, ResumeFailed,
           Timeout, EndCall, restVars, ghosts
  <1>2. \A k \in Jobs : \/ pc'[k] = pc[k] /\ target'[k] = target[k]
                        \/ pc[k] \notin Writing /\ pc'[k] \notin Writing
    <2>1. CASE StartCall(c) \/ Refuse(c) \/ \E a \in Asks : Request(c, a)
      BY <2>1 DEF StartCall, Refuse, Request, jobVars
    <2>2. CASE Submit(c)
      <3>1. pc[Current(c)] = "none"
        BY <2>2, NotSubmitted DEF Submit
      <3>2. QED
        BY <2>2, <3>1 DEF Submit, TypeJobs, Writing
    <2>3. CASE ResumeWritten(c) \/ ResumeUnwritten(c) \/ ResumeFailed(c)
      BY <2>3 DEF ResumeWritten, ResumeUnwritten, ResumeFailed, TypeJobs, Writing
    <2>4. CASE Timeout(c) \/ EndCall(c)
      BY <2>4 DEF Timeout, EndCall, Abandon, Pending, TypeJobs, Writing
    <2>5. QED
      BY <2>1, <2>2, <2>3, <2>4
  <1>3. QED
    BY <1>1, <1>2, QuietStep, TurnsNone

LEMMA ThreadUnseen ==
  ASSUME BookInv, NEW j \in Jobs,
         \/ StartJob(j) \/ ReadSession(j) \/ Verify(j) \/ Lookup(j) \/ WriteLog(j)
         \/ FailJob(j) /\ pc[j] \notin Writing
  PROVE  [Book!Next]_([o \in Orders |-> PageOf(o)])
  <1> USE DEF BookInv, BaseInv, TypeOK
  <1>1. UNCHANGED <<dbVars, torn, rest>>
    BY DEF StartJob, ReadSession, Verify, Lookup, WriteLog, FailJob, restVars, ghosts
  <1>2. \A k \in Jobs : \/ pc'[k] = pc[k] /\ target'[k] = target[k]
                        \/ pc[k] \notin Writing /\ pc'[k] \notin Writing
    <2>1. CASE Lookup(j)
      BY <2>1 DEF Lookup, JobStep, TypeJobs, Writing
    <2>2. CASE StartJob(j) \/ ReadSession(j) \/ Verify(j) \/ WriteLog(j)
      BY <2>2 DEF StartJob, ReadSession, Verify, WriteLog, JobStep, TypeJobs, Writing
    <2>3. CASE FailJob(j) /\ pc[j] \notin Writing
      BY <2>3 DEF FailJob, TypeJobs, Writing
    <2>4. QED
      BY <2>1, <2>2, <2>3
  <1>3. QED
    BY <1>1, <1>2, QuietStep, TurnsNone

LEMMA StaffUnseen ==
  ASSUME BookInv, NEW p \in Orders,
         \/ OpenCancel(p) \/ Age(p)
         \/ \E s \in AllStatuses \cup {"keep"} : OpenEdit(p, s)
  PROVE  [Book!Next]_([o \in Orders |-> PageOf(o)])
  <1> USE DEF BookInv, BaseInv, TypeOK
  <1>1. CASE OpenCancel(p) \/ \E s \in AllStatuses \cup {"keep"} : OpenEdit(p, s)
    <2>1. UNCHANGED <<dbVars, torn, jobVars>> /\ rest.pc = "idle"
      BY <1>1 DEF OpenCancel, OpenEdit, RestBegins, LoopFree, ghosts
    <2>2. rest'.pc \in {"cancel", "update"}
      BY <1>1 DEF OpenCancel, OpenEdit, Idle
    <2>3. QED
      BY <2>1, <2>2, QuietStep, TurnsNone DEF jobVars, Writing
  <1>2. CASE Age(p)
    <2>1. /\ UNCHANGED <<jobVars, rest, news, torn>>
          /\ orders' = [orders EXCEPT ![p].aged = TRUE]
      BY <1>2 DEF Age, restVars, ghosts
    <2>2. orders[p] \in Rows /\ orders'[p] = [orders[p] EXCEPT !.aged = TRUE]
      BY <2>1 DEF TypeDb
    <2>3. ASSUME NEW o \in Orders PROVE SamePage(o)
      <3>1. orders'[o].by = orders[o].by /\ orders'[o].content = orders[o].content
            /\ orders'[o].items = orders[o].items /\ orders'[o].status = orders[o].status
            /\ orders'[o].deleted = orders[o].deleted
        <4>1. CASE o = p
          BY <2>2, <4>1 DEF Rows
        <4>2. CASE o # p
          BY <2>1, <4>2 DEF TypeDb
        <4>3. QED
          BY <4>1, <4>2
      <3>2. Writers(o)' = Writers(o) /\ (RestWrites(o)' <=> RestWrites(o))
        BY <2>1 DEF Writers, RestWrites, jobVars
      <3>3. QED
        BY <2>1, <3>1, <3>2, PageFrame
    <2>4. QED
      BY <2>3, TurnsNone
  <1>3. QED
    BY <1>1, <1>2

LEMMA BookInit == Init => Book!Init
  <1> SUFFICES ASSUME Init PROVE Book!Init
    OBVIOUS
  <1>1. ASSUME NEW o \in Orders PROVE PageOf(o) = Book!Blank
    <2>1. orders[o] = NoOrder /\ torn[o] = FALSE /\ news[o] = 0
      BY DEF Init
    <2>2. ~Exists(o)
      BY <2>1 DEF Exists, NoOrder
    <2>3. Writers(o) = {} /\ ~RestWrites(o)
      BY DEF Init, Writers, RestWrites, Writing, Idle
    <2>4. Writers(o) \cup (IF RestWrites(o) THEN {Dash} ELSE {}) = {}
      BY <2>3
    <2>5. Shows(o) = None /\ (IF Exists(o) THEN OwnedBy(o) ELSE None) = None
      BY <2>2 DEF Shows
    <2>6. orders[o].status = "pending" /\ orders[o].deleted = FALSE
      BY <2>1 DEF NoOrder
    <2>7. (news[o] > 0) = FALSE
      BY <2>1
    <2>8. QED
      BY <2>1, <2>4, <2>5, <2>6, <2>7 DEF PageOf, Book!Blank
  <1>2. QED
    BY <1>1 DEF Book!Init

LEMMA BookStep == BookInv /\ [Next]_vars => [Book!Next]_([o \in Orders |-> PageOf(o)])
  <1> SUFFICES ASSUME BookInv, [Next]_vars
               PROVE  [Book!Next]_([o \in Orders |-> PageOf(o)])
    OBVIOUS
  <1>1. CASE UNCHANGED vars
    BY <1>1, QuietStep, TurnsNone DEF vars, jobVars, restVars, ghosts
  <1>2. ASSUME NEW c \in Calls,
               \/ Loop(c) \/ Timeout(c) \/ EndCall(c)
               \/ \E a \in Asks : Request(c, a)
        PROVE  [Book!Next]_([o \in Orders |-> PageOf(o)])
    BY <1>2, LoopUnseen, FinishAnnounces DEF Loop
  <1>3. ASSUME NEW j \in Jobs, Thread(j) \/ FailJob(j)
        PROVE  [Book!Next]_([o \in Orders |-> PageOf(o)])
    <2>1. CASE InsertOrder(j)
      BY <2>1, InsertBegins
    <2>2. CASE UpdateOrder(j)
      BY <2>2, UpdateTakes
    <2>3. CASE DeleteItems(j) \/ InsertItem(j)
      BY <2>3, RowsScribble, LastRowFinishes
    <2>4. CASE SetStatus(j)
      BY <2>4, ThreadsMark
    <2>5. CASE FailJob(j)
      BY <2>5, FailLeavesOff, ThreadUnseen
    <2>6. CASE StartJob(j) \/ ReadSession(j) \/ Verify(j) \/ Lookup(j) \/ WriteLog(j)
      BY <2>6, ThreadUnseen
    <2>7. QED
      BY <1>3, <2>1, <2>2, <2>3, <2>4, <2>5, <2>6 DEF Thread
  <1>4. ASSUME NEW p \in Orders,
               \/ SoftDelete(p) \/ Restore(p) \/ OpenCancel(p) \/ Age(p)
               \/ \E s \in AllStatuses : PutStatus(p, s)
               \/ \E s \in AllStatuses \cup {"keep"} : OpenEdit(p, s)
        PROVE  [Book!Next]_([o \in Orders |-> PageOf(o)])
    BY <1>4, StaffStrike, StaffUnseen, StaffMarks
  <1>5. CASE Rest \/ RestFail
    BY <1>5, StaffMarks, StaffTake, StaffScribble, StaffFinish, StaffLeaveOff DEF Rest
  <1>6. CASE Crash
    BY <1>6, CrashStops
  <1>7. QED
    BY <1>1, <1>2, <1>3, <1>4, <1>5, <1>6 DEF Next

(* The rows of the database, their writers and what the dashboards were told  *)
(* are an order book: retries, threads that outlive their call, the staff and *)
(* crashes included, and for all bounds.                                      *)
THEOREM OrdersAreABook == Spec => BookSpec
  <1>1. Init => BookInv /\ Book!Init
    BY BaseInit, WriterInit, CallsInit, PageInit, BookInit DEF BookInv
  <1>2. BookInv /\ [Next]_vars => BookInv'
    BY BaseStep, WriterStep, CallsInvStep, PageStep DEF BookInv
  <1>3. BookInv /\ [Next]_vars => [Book!Next]_([o \in Orders |-> PageOf(o)])
    BY BookStep
  <1>4. QED
    BY <1>1, <1>2, <1>3, PTL DEF Spec, BookSpec, Book!Spec
=============================================================================
