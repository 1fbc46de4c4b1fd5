------------------------------ MODULE DeskProofs ------------------------------
(* The desk for any number of rows, requests and failures: the proofs of      *)
(* LogTellsTruth, HistoryChains and ToldInOrder of Desk.                      *)
EXTENDS Desk, SequenceTheorems, WellFoundedInduction, TLAPS

Status   == Statuses("order") \cup Statuses("reservation")
Row      == [kind : {"order", "reservation"}, status : Status, phone : BOOLEAN, deleted : BOOLEAN]
Waiting  == {"write", "reread", "history"}      \* the history has yet to be written
Untold   == Waiting \cup {"event"}
Texting  == {"text", "send", "sent", "refused", "count", "give_up"}
Actions  == {"created", "updated", "status_changed", "cancelled", "none", "text"}
Subtypes == {"new_order", "new_reservation", "order_updated", "order_cancelled",
             "reservation_updated", "reservation_cancelled", "none"}
JobRow   == [row : Nat, old : Status \cup {None}, new : Status \cup {None}, action : Actions,
             subtype : Subtypes, text : Status \cup {None},
             pc : Untold \cup Texting \cup {"note", "done", "lost"}, log : Nat]

(***************************************************************************)
(* What the tables and the tasks may hold.                                 *)
(***************************************************************************)
Fits(job, R, n) ==
  /\ job.row \in R /\ job.log \in 0..n
  /\ job.pc \in Untold \cup {"note", "text"} => job.log = 0
  /\ job.pc \in {"write", "reread"} => job.text = None /\ job.action = "updated" /\ job.old \in Status
  /\ job.pc = "write" => job.new \in {None, "cancelled"}
  /\ job.pc \notin {"write", "reread", "lost"} => job.new \in Status
  /\ job.action = "text" => job.pc \notin Untold \cup {"note"}
  /\ job.log # 0 \/ job.pc \in Texting => job.text # None
  /\ job.action \in {"created", "text"} => job.old = None
  /\ job.pc \in Untold /\ job.action # "created" => job.old \in Status
  /\ job.subtype = "new_order" => job.action = "created"
  /\ job.pc \in Untold => job.action \notin {"none", "text"}
  /\ job.pc \in Waiting => job.action \in {"created", "updated"}
  /\ job.pc = "history" /\ job.text # None => job.action = "created"

JobFits(job) == Fits(job, DOMAIN rows, Len(texts))

HistoryRow == [row : Nat, action : Actions, old : Status \cup {None}, new : Status]
EventRow   == [row : Nat, subtype : Subtypes, status : Status]
TextRow    == [job : Nat, st : {"pending", "sent", "failed"}, retries : Nat]

RowsType ==
  /\ rows \in Seq(Row)
  /\ \A r \in DOMAIN rows : rows[r].status \in Statuses(rows[r].kind)
JobsType    == jobs \in Seq(JobRow) /\ \A j \in DOMAIN jobs : JobFits(jobs[j])
HistoryType == history \in Seq(HistoryRow) /\ \A k \in DOMAIN history : history[k].row \in DOMAIN rows
FeedType    == feed \in Seq(EventRow) /\ \A k \in DOMAIN feed : feed[k].row \in DOMAIN rows
TextsType   == texts \in Seq(TextRow) /\ accepted \in Seq(Nat)
MarksType   == /\ raced \cup troubled \cup torn \subseteq DOMAIN rows
               /\ torn \subseteq troubled

TypeInv == RowsType /\ JobsType /\ HistoryType /\ FeedType /\ TextsType /\ MarksType

(***************************************************************************)
(* The texts: what the log and Twilio have of a text, at each place of its *)
(* task.                                                                   *)
(***************************************************************************)
Taken(t) == \E a \in DOMAIN accepted : accepted[a] = t

TextAt(pc, text, taken) ==
  /\ text.st = "sent" => taken
  /\ pc \in {"send", "refused"} => text.st = "pending" /\ text.retries = 0 /\ ~taken
  /\ pc = "sent"    => text.st = "pending" /\ text.retries = 0 /\ taken
  /\ pc = "count"   => text.st = "failed" /\ text.retries = 0 /\ ~taken

Outcome(text, taken) == IF taken THEN text.st = "sent" /\ text.retries = 0
                        ELSE text.st = "failed" /\ text.retries = 1

TextsInv ==
  /\ \A t \in DOMAIN texts : texts[t].job \in DOMAIN jobs /\ jobs[texts[t].job].log = t
  /\ \A j \in DOMAIN jobs :
       /\ jobs[j].pc \in Texting \ {"text"} => jobs[j].log # 0
       /\ jobs[j].pc \in {"give_up", "lost"} => jobs[j].row \in troubled
       /\ jobs[j].log # 0 =>
            LET t == jobs[j].log IN
            /\ texts[t].job = j
            /\ TextAt(jobs[j].pc, texts[t], Taken(t))
            /\ jobs[j].pc = "done" /\ jobs[j].row \notin troubled => Outcome(texts[t], Taken(t))
  /\ \A a \in DOMAIN accepted : accepted[a] \in DOMAIN texts
  /\ \A a, b \in DOMAIN accepted : accepted[a] = accepted[b] => a = b

(***************************************************************************)
(* The rows about which something can be said: nothing failed, and no      *)
(* request overtook another.  A task that runs is then the last of its     *)
(* row, but for the text that the voice agent sends beside its event.      *)
(***************************************************************************)
Calm(r) == r \in DOMAIN rows /\ r \notin troubled \cup raced

Beside(job, other) == other.action = "text" /\ job.text = None /\ job.pc \in {"event", "note"}

QueueInv ==
  /\ \A j, k \in DOMAIN jobs :
       j < k /\ jobs[k].row = jobs[j].row /\ Calm(jobs[j].row) /\ Active(jobs[j]) => Beside(jobs[j], jobs[k])
  /\ \A j \in DOMAIN jobs : Calm(jobs[j].row) =>
       /\ jobs[j].pc = "write" => rows[jobs[j].row].status = jobs[j].old
       /\ jobs[j].pc \in {"history", "event"} => rows[jobs[j].row].status = jobs[j].new

Unwritten(r) == {j \in DOMAIN jobs : jobs[j].row = r /\ jobs[j].pc \in Waiting}
Unsent(r)    == {j \in DOMAIN jobs : jobs[j].row = r /\ jobs[j].pc \in Untold}
NewestEntry(k) == \A m \in DOMAIN history : history[m].row = history[k].row => m <= k
NewestEvent(k) == \A m \in DOMAIN feed : feed[m].row = feed[k].row => m <= k

ChainInv ==
  /\ \A k \in DOMAIN history : Calm(history[k].row) /\ NewestEntry(k) =>
       /\ \A j \in Unwritten(history[k].row) :
            jobs[j].action # "created" /\ Follows(history[k].row, history[k].new, jobs[j].old)
       /\ Unwritten(history[k].row) = {} =>
            Follows(history[k].row, history[k].new, rows[history[k].row].status)
  /\ \A i, k \in DOMAIN history :
       /\ i < k /\ history[i].row = history[k].row /\ Calm(history[k].row)
       /\ \A m \in DOMAIN history : history[m].row = history[k].row => m <= i \/ k <= m
       => Follows(history[k].row, history[i].new, history[k].old)

TornInv ==
  /\ \A j \in DOMAIN jobs : jobs[j].row \in torn => jobs[j].action # "created"
  /\ \A k \in DOMAIN history : history[k].row \in torn => history[k].action # "created"
  /\ \A k \in DOMAIN feed : feed[k].row \in torn => feed[k].subtype # "new_order"

EventInv ==
  /\ \A r \in DOMAIN rows : Calm(r) =>
       \/ Unsent(r) # {}
       \/ \E k \in DOMAIN feed : feed[k].row = r
  /\ \A k \in DOMAIN feed : Calm(feed[k].row) /\ NewestEvent(k) /\ Unsent(feed[k].row) = {} =>
       Follows(feed[k].row, feed[k].status, rows[feed[k].row].status)

(***************************************************************************)
(* A task that has changed the status of its row, as far as it has come.   *)
(***************************************************************************)
Changes(job) ==
  IF job.pc \in {"write", "reread"} THEN rows[job.row].status # job.old ELSE job.new # job.old

NewsInv ==
  /\ \A j \in DOMAIN jobs : Calm(jobs[j].row) /\ jobs[j].text # None =>
       \/ jobs[j].text = rows[jobs[j].row].status
       \/ \E k \in DOMAIN jobs : k > j /\ jobs[k].row = jobs[j].row /\ Changes(jobs[k])
  /\ \A r \in DOMAIN rows : r \notin troubled => \E j \in DOMAIN jobs : jobs[j].row = r /\ jobs[j].action = "created"

TakenInv ==
  \A a, b \in DOMAIN accepted :
    LET j == texts[accepted[a]].job  k == texts[accepted[b]].job IN
    jobs[j].row = jobs[k].row /\ Calm(jobs[j].row) /\ a < b => j < k

IInv == TypeInv /\ TextsInv /\ QueueInv /\ ChainInv /\ TornInv /\ EventInv /\ NewsInv /\ TakenInv
-----------------------------------------------------------------------------
(* Numbers and sequences. *)

LEMMA LeastOf ==
  ASSUME NEW S \in SUBSET Nat, S # {}
  PROVE  \E x \in S : \A y \in S : x <= y
<1>1. PICK x \in S : \A y \in S : <<y, x>> \notin OpToRel(<, Nat)
  BY NatLessThanWellFounded, WFMin
<1>2. \A y \in S : ~(y < x)
  BY <1>1 DEF OpToRel
<1>3. QED BY <1>2

LEMMA GreatestOf ==
  ASSUME NEW n \in Nat, NEW S \in SUBSET (1..n), S # {}
  PROVE  Max(S) \in S /\ \A y \in S : y <= Max(S)
<1> DEFINE T == {m \in Nat : \A y \in S : y <= m}
<1>1. n \in T
  OBVIOUS
<1>2. PICK m \in T : \A k \in T : m <= k
  BY <1>1, LeastOf
<1>3. CASE m = 0
  <2>1. PICK y \in S : TRUE
    OBVIOUS
  <2>2. y <= 0 /\ y \in 1..n
    BY <1>2, <1>3, <2>1
  <2>3. QED BY <2>2
<1>4. CASE m # 0
  <2>1. m - 1 \notin T /\ m - 1 \in Nat
    BY <1>2, <1>4
  <2>2. m \in S
    BY <2>1, <1>2
  <2>3. \E x \in S : \A y \in S : x >= y
    BY <2>2, <1>2
  <2>4. QED BY <2>3 DEF Max
<1>5. QED BY <1>3, <1>4

LEMMA Added ==
  ASSUME NEW S, NEW s \in Seq(S), NEW e \in S
  PROVE  /\ Append(s, e) \in Seq(S) /\ Len(Append(s, e)) = Len(s) + 1
         /\ DOMAIN s = 1..Len(s) /\ DOMAIN Append(s, e) = 1..Len(s) + 1
         /\ Append(s, e)[Len(s) + 1] = e
         /\ \A i \in DOMAIN s : Append(s, e)[i] = s[i]
  OBVIOUS

LEMMA Replaced ==
  ASSUME NEW S, NEW s \in Seq(S), NEW i \in DOMAIN s, NEW e \in S
  PROVE  /\ [s EXCEPT ![i] = e] \in Seq(S)
         /\ DOMAIN [s EXCEPT ![i] = e] = DOMAIN s /\ Len([s EXCEPT ![i] = e]) = Len(s)
         /\ \A k \in DOMAIN s : [s EXCEPT ![i] = e][k] = IF k = i THEN e ELSE s[k]
  OBVIOUS
-----------------------------------------------------------------------------
(***************************************************************************)
(* The kinds of steps, as the invariant sees them.                         *)
(***************************************************************************)
(* No status, no history and no event; the tasks go on after their event,  *)
(* or are lost.                                                            *)
GoesOn(old, new) ==
  /\ new.row = old.row /\ new.old = old.old /\ new.new = old.new /\ new.action = old.action
  /\ new.text = old.text
  /\ \/ new.pc = old.pc
     \/ old.row \in troubled'
     \/ /\ Active(old) /\ old.pc \notin Untold /\ new.pc \notin Untold
        /\ Active(new) => old.text # None

Grows == troubled \subseteq troubled' /\ raced \subseteq raced' /\ DOMAIN rows \subseteq DOMAIN rows'

Quiet ==
  /\ Grows /\ raced' = raced /\ torn' = torn
  /\ DOMAIN rows' = DOMAIN rows
  /\ \A r \in DOMAIN rows : rows'[r].kind = rows[r].kind /\ rows'[r].status = rows[r].status
  /\ history' = history /\ feed' = feed
  /\ DOMAIN jobs' = DOMAIN jobs
  /\ \A j \in DOMAIN jobs : GoesOn(jobs[j], jobs'[j])

(* The row r has the status now, the others keep theirs. *)
Lands(r, status) ==
  /\ Grows /\ RowsType' /\ DOMAIN rows' = DOMAIN rows \cup {r}
  /\ rows'[r].status = status
  /\ \A s \in DOMAIN rows : rows'[s].kind = rows[s].kind /\ (s # r => rows'[s].status = rows[s].status)

Noticed(r) == r \in raced' \/ \A j \in DOMAIN jobs : jobs[j].row = r => ~Active(jobs[j])

(* A change of which nobody is told: a statement failed. *)
Halved(r) ==
  /\ \E status : Lands(r, status)
  /\ r \in troubled' /\ torn \subseteq torn'
  /\ torn' \subseteq torn \cup (IF r \in DOMAIN rows THEN {} ELSE {r})
  /\ UNCHANGED <<history, jobs, feed, texts, accepted>>

(* A request, or the voice agent's, that leaves a task behind. *)
Entered(job) == [row |-> job.row, action |-> job.action, old |-> job.old, new |-> job.new]

Opened(job) ==
  /\ Grows /\ job.log = 0 /\ job.action # "text"
  /\ jobs' = Append(jobs, job) /\ UNCHANGED <<feed, texts, accepted, torn>>
  /\ Noticed(job.row)
  /\ IF job.row \in DOMAIN rows THEN job.action # "created" /\ job.old = rows[job.row].status
     ELSE job.action = "created"
  /\ job.text # None => job.text = rows'[job.row].status
  /\ \/ /\ job.pc = "event" /\ Lands(job.row, job.new)
        /\ history' = Append(history, Entered(job)) \/ (history' = history /\ job.row \in troubled')
     \/ /\ job.pc = "history" /\ Lands(job.row, job.new) /\ job.row \notin DOMAIN rows
        /\ history' = history
     \/ /\ job.pc = "write" /\ Lands(job.row, job.old) /\ job.row \in DOMAIN rows
        /\ history' = history
     \/ /\ job.pc \in {"text", "done"} /\ Lands(job.row, job.new) /\ job.row \in DOMAIN rows
        /\ rows[job.row].kind = "reservation" /\ job.old = "pending" /\ job.new = "confirmed"
        /\ history' = history

(* A task on its way to its event: the write, the reread, the event. *)
Proceeds(j) ==
  LET old == jobs[j]  new == jobs'[j]  r == jobs[j].row IN
  /\ Grows /\ UNCHANGED <<history, raced, torn>>
  /\ DOMAIN jobs' = DOMAIN jobs /\ \A k \in DOMAIN jobs : k # j => jobs'[k] = jobs[k]
  /\ new.row = old.row /\ new.old = old.old /\ new.action = old.action /\ new.text = old.text
  /\ DOMAIN rows' = DOMAIN rows
  /\ \A s \in DOMAIN rows : rows'[s].kind = rows[s].kind /\ (s # r => rows'[s].status = rows[s].status)
  /\ \/ old.pc = "write" /\ new.pc = "reread" /\ feed' = feed
     \/ /\ old.pc = "reread" /\ new.pc = "history" /\ feed' = feed
        /\ rows'[r].status = rows[r].status /\ new.new = rows[r].status
     \/ /\ old.pc = "event" /\ new.pc = "note" /\ rows'[r].status = rows[r].status /\ new.new = old.new
        /\ feed' = Append(feed, [row |-> r, subtype |-> old.subtype, status |-> old.new])

(***************************************************************************)
(* What each kind of step does to the invariant: a quiet step.             *)
(***************************************************************************)
LEMMA QuietQueue ==
  ASSUME TypeInv, QueueInv, Quiet
  PROVE  QueueInv'
<1>1. \A j \in DOMAIN jobs : jobs[j].row \in DOMAIN rows
  BY DEF TypeInv, JobsType, JobFits, Fits
<1>2. \A r \in DOMAIN rows : Calm(r)' => Calm(r)
  BY DEF Quiet, Grows, Calm
<1>3. ASSUME NEW j \in DOMAIN jobs', NEW k \in DOMAIN jobs', j < k, jobs'[k].row = jobs'[j].row,
             Calm(jobs[j].row)', Active(jobs'[j])
      PROVE  Beside(jobs'[j], jobs'[k])
  <2>1. GoesOn(jobs[j], jobs'[j]) /\ GoesOn(jobs[k], jobs'[k]) /\ j \in DOMAIN jobs /\ k \in DOMAIN jobs
    BY DEF Quiet
  <2>2. Calm(jobs[j].row) /\ jobs[k].row = jobs[j].row /\ jobs[j].row \notin troubled'
    BY <1>1, <1>2, <1>3, <2>1 DEF GoesOn, Calm
  <2>3. Active(jobs[j])
    BY <1>3, <2>1, <2>2 DEF GoesOn, Active
  <2>4. Beside(jobs[j], jobs[k])
    BY <1>3, <2>1, <2>2, <2>3 DEF QueueInv
  <2>5. jobs'[j].pc = jobs[j].pc
    BY <1>3, <2>1, <2>2, <2>4 DEF GoesOn, Beside
  <2>6. QED BY <2>1, <2>4, <2>5 DEF GoesOn, Beside
<1>4. ASSUME NEW j \in DOMAIN jobs', Calm(jobs[j].row)'
      PROVE  /\ jobs'[j].pc = "write" => rows'[jobs'[j].row].status = jobs'[j].old
             /\ jobs'[j].pc \in {"history", "event"} => rows'[jobs'[j].row].status = jobs'[j].new
  <2>1. GoesOn(jobs[j], jobs'[j]) /\ j \in DOMAIN jobs /\ jobs[j].row \in DOMAIN rows
    BY <1>1 DEF Quiet
  <2>2. Calm(jobs[j].row) /\ jobs[j].row \notin troubled'
    BY <1>1, <1>2, <1>4, <2>1 DEF GoesOn, Calm
  <2>3. jobs'[j].pc \in Untold => jobs'[j].pc = jobs[j].pc
    BY <2>1, <2>2 DEF GoesOn
  <2>4. rows'[jobs[j].row].status = rows[jobs[j].row].status
    BY <2>1 DEF Quiet
  <2>5. QED BY <2>1, <2>2, <2>3, <2>4 DEF GoesOn, QueueInv, Untold, Waiting
<1>5. QED BY <1>3, <1>4 DEF QueueInv

LEMMA QuietTorn ==
  ASSUME TypeInv, TornInv, Quiet
  PROVE  TornInv'
BY DEF TornInv, Quiet, GoesOn

LEMMA QuietChain ==
  ASSUME TypeInv, ChainInv, Quiet
  PROVE  ChainInv'
<1>1. \A r \in DOMAIN rows : Calm(r)' => Calm(r) /\ Unwritten(r)' = Unwritten(r)
  BY DEF Quiet, GoesOn, Grows, Calm, Unwritten, Waiting, Untold
<1>2. \A r \in DOMAIN rows : \A told, status : Follows(r, told, status)' <=> Follows(r, told, status)
  BY DEF Quiet, Follows
<1>3. \A k \in DOMAIN history : history[k].row \in DOMAIN rows
  BY DEF TypeInv, HistoryType
<1>4. QED BY <1>1, <1>2, <1>3 DEF ChainInv, Quiet, GoesOn, NewestEntry, Unwritten

LEMMA QuietEvent ==
  ASSUME TypeInv, EventInv, Quiet
  PROVE  EventInv'
<1>1. \A r \in DOMAIN rows : Calm(r)' => Calm(r) /\ Unsent(r)' = Unsent(r)
  BY DEF Quiet, GoesOn, Grows, Calm, Unsent, Waiting, Untold
<1>2. \A r \in DOMAIN rows : \A told, status : Follows(r, told, status)' <=> Follows(r, told, status)
  BY DEF Quiet, Follows
<1>3. \A k \in DOMAIN feed : feed[k].row \in DOMAIN rows
  BY DEF TypeInv, FeedType
<1>4. QED BY <1>1, <1>2, <1>3 DEF EventInv, Quiet, NewestEvent

LEMMA QuietNews ==
  ASSUME TypeInv, NewsInv, Quiet
  PROVE  NewsInv'
<1>1. \A j \in DOMAIN jobs : jobs[j].row \in DOMAIN rows
  BY DEF TypeInv, JobsType, JobFits, Fits
<1>2. \A r \in DOMAIN rows : Calm(r)' => Calm(r)
  BY DEF Quiet, Grows, Calm
<1>3. ASSUME NEW j \in DOMAIN jobs, Calm(jobs[j].row)', Changes(jobs[j])
      PROVE  Changes(jobs[j])'
  <2>1. GoesOn(jobs[j], jobs'[j]) /\ jobs[j].row \in DOMAIN rows /\ jobs[j].row \notin troubled'
    BY <1>1, <1>3 DEF Quiet, Calm, GoesOn
  <2>2. jobs'[j].pc \in {"write", "reread"} <=> jobs[j].pc \in {"write", "reread"}
    BY <2>1 DEF GoesOn, Untold, Waiting
  <2>3. rows'[jobs[j].row].status = rows[jobs[j].row].status
    BY <2>1 DEF Quiet
  <2>4. QED BY <1>3, <2>1, <2>2, <2>3 DEF GoesOn, Changes
<1>4. ASSUME NEW j \in DOMAIN jobs', Calm(jobs[j].row)', jobs'[j].text # None
      PROVE  \/ jobs'[j].text = rows'[jobs'[j].row].status
             \/ \E k \in DOMAIN jobs' : k > j /\ jobs'[k].row = jobs'[j].row /\ Changes(jobs[k])'
  <2>1. GoesOn(jobs[j], jobs'[j]) /\ j \in DOMAIN jobs /\ jobs[j].row \in DOMAIN rows
    BY <1>1 DEF Quiet
  <2>2. Calm(jobs[j].row) /\ Calm(jobs[j].row)' /\ jobs[j].text # None
    BY <1>2, <1>4, <2>1 DEF GoesOn
  <2>3. CASE jobs[j].text = rows[jobs[j].row].status
    BY <2>1, <2>3 DEF GoesOn, Quiet
  <2>4. ASSUME NEW k \in DOMAIN jobs, k > j, jobs[k].row = jobs[j].row, Changes(jobs[k])
        PROVE  k \in DOMAIN jobs' /\ jobs'[k].row = jobs'[j].row /\ Changes(jobs[k])'
    BY <1>3, <2>1, <2>2, <2>4 DEF GoesOn, Quiet
  <2>5. QED BY <2>1, <2>2, <2>3, <2>4 DEF NewsInv
<1>5. ASSUME NEW r \in DOMAIN rows', r \notin troubled'
      PROVE  \E j \in DOMAIN jobs' : jobs'[j].row = r /\ jobs'[j].action = "created"
  BY <1>5 DEF NewsInv, Quiet, GoesOn, Grows
<1>6. QED BY <1>4, <1>5 DEF NewsInv

(***************************************************************************)
(* A change of which nobody is told.                                       *)
(***************************************************************************)
LEMMA HalfFacts ==
  ASSUME NEW r, TypeInv, Halved(r)
  PROVE  /\ \A s : Calm(s)' => Calm(s) /\ s \in DOMAIN rows /\ s # r
                               /\ rows'[s].status = rows[s].status /\ rows'[s].kind = rows[s].kind
         /\ UNCHANGED <<history, jobs, feed>>
         /\ \A j \in DOMAIN jobs : jobs[j].row \in DOMAIN rows
BY DEF Halved, Lands, Grows, Calm, TypeInv, JobsType, JobFits, Fits

LEMMA HalfQueue ==
  ASSUME NEW r, TypeInv, QueueInv, Halved(r)
  PROVE  QueueInv'
BY HalfFacts DEF QueueInv

LEMMA HalfTorn ==
  ASSUME NEW r, TypeInv, TornInv, Halved(r)
  PROVE  TornInv'
BY DEF TornInv, Halved, TypeInv, JobsType, JobFits, Fits, HistoryType, FeedType

LEMMA HalfChain ==
  ASSUME NEW r, TypeInv, ChainInv, Halved(r)
  PROVE  ChainInv'
BY HalfFacts DEF ChainInv, NewestEntry, Unwritten, Follows

LEMMA HalfEvent ==
  ASSUME NEW r, TypeInv, EventInv, Halved(r)
  PROVE  EventInv'
BY HalfFacts DEF EventInv, NewestEvent, Unsent, Follows

LEMMA HalfNews ==
  ASSUME NEW r, TypeInv, NewsInv, Halved(r)
  PROVE  NewsInv'
<1>1. \A j \in DOMAIN jobs : Calm(jobs[j].row)' => (Changes(jobs[j])' <=> Changes(jobs[j]))
  BY HalfFacts DEF Changes
<1>2. \A s \in DOMAIN rows' : s \notin troubled' => s \in DOMAIN rows /\ s \notin troubled
  BY DEF Halved, Lands, Grows
<1>3. QED BY <1>1, <1>2, HalfFacts DEF NewsInv

(***************************************************************************)
(* A request that leaves a task.                                           *)
(***************************************************************************)
LEMMA OpenedFacts ==
  ASSUME NEW job \in JobRow, TypeInv, Opened(job)
  PROVE  /\ DOMAIN jobs' = DOMAIN jobs \cup {Len(jobs) + 1} /\ jobs'[Len(jobs) + 1] = job
         /\ \A j \in DOMAIN jobs : jobs'[j] = jobs[j] /\ j < Len(jobs) + 1 /\ j \in Nat
                                   /\ jobs[j].row \in DOMAIN rows
         /\ \A s : Calm(s)' /\ s # job.row => Calm(s) /\ s \in DOMAIN rows
                               /\ rows'[s].status = rows[s].status /\ rows'[s].kind = rows[s].kind
         /\ Calm(job.row)' => \A j \in DOMAIN jobs : jobs[j].row = job.row => ~Active(jobs[j])
         /\ job.row \in DOMAIN rows => (Calm(job.row)' => Calm(job.row))
                                       /\ rows'[job.row].kind = rows[job.row].kind
         /\ job.row \in DOMAIN rows'
<1>1. jobs \in Seq(JobRow) /\ \A j \in DOMAIN jobs : jobs[j].row \in DOMAIN rows
  BY DEF TypeInv, JobsType, JobFits, Fits
<1>2. jobs' = Append(jobs, job) /\ Noticed(job.row) /\ Grows /\ \E status : Lands(job.row, status)
  BY DEF Opened
<1>3. DOMAIN jobs' = DOMAIN jobs \cup {Len(jobs) + 1} /\ jobs'[Len(jobs) + 1] = job
  BY <1>1, <1>2, Added
<1>4. \A j \in DOMAIN jobs : jobs'[j] = jobs[j] /\ j < Len(jobs) + 1 /\ j \in Nat
  BY <1>1, <1>2, Added
<1>5. QED BY <1>1, <1>2, <1>3, <1>4 DEF Lands, Grows, Calm, Noticed

LEMMA OpenedQueue ==
  ASSUME NEW job \in JobRow, TypeInv, QueueInv, Opened(job)
  PROVE  QueueInv'
<1> DEFINE n == Len(jobs) + 1
<1>1. ASSUME NEW j \in DOMAIN jobs', NEW k \in DOMAIN jobs', j < k, jobs'[k].row = jobs'[j].row,
             Calm(jobs[j].row)', Active(jobs'[j])
      PROVE  Beside(jobs'[j], jobs'[k])
  <2>1. CASE k = n
    <3>1. j \in DOMAIN jobs /\ jobs'[j] = jobs[j] /\ jobs[j].row = job.row
      BY <1>1, <2>1, OpenedFacts
    <3>2. QED BY <1>1, <3>1, OpenedFacts
  <2>2. CASE j = n
    BY <1>1, <2>2, OpenedFacts
  <2>3. CASE j # n /\ k # n
    <3>1. j \in DOMAIN jobs /\ jobs'[j] = jobs[j] /\ k \in DOMAIN jobs /\ jobs'[k] = jobs[k]
      BY <2>3, OpenedFacts
    <3>2. CASE jobs[j].row = job.row
      BY <1>1, <3>1, <3>2, OpenedFacts
    <3>3. CASE jobs[j].row # job.row
      <4>1. Calm(jobs[j].row)
        BY <1>1, <3>1, <3>3, OpenedFacts
      <4>2. QED BY <1>1, <3>1, <4>1 DEF QueueInv
    <3>4. QED BY <3>2, <3>3
  <2>4. QED BY <2>1, <2>2, <2>3
<1>2. ASSUME NEW j \in DOMAIN jobs', Calm(jobs[j].row)'
      PROVE  /\ jobs'[j].pc = "write" => rows'[jobs'[j].row].status = jobs'[j].old
             /\ jobs'[j].pc \in {"history", "event"} => rows'[jobs'[j].row].status = jobs'[j].new
  <2>1. CASE j = n
    <3>1. jobs'[j] = job
      BY <2>1, OpenedFacts
    <3>2. QED BY <3>1 DEF Opened, Lands
  <2>2. CASE j # n
    <3>1. j \in DOMAIN jobs /\ jobs'[j] = jobs[j]
      BY <2>2, OpenedFacts
    <3>2. CASE jobs[j].row = job.row
      <4>1. ~Active(jobs[j])
        BY <1>2, <3>1, <3>2, OpenedFacts
      <4>2. QED BY <3>1, <4>1 DEF Active
    <3>3. CASE jobs[j].row # job.row
      <4>1. Calm(jobs[j].row) /\ rows'[jobs[j].row].status = rows[jobs[j].row].status
        BY <1>2, <3>1, <3>3, OpenedFacts
      <4>2. QED BY <3>1, <4>1 DEF QueueInv
    <3>4. QED BY <3>2, <3>3
  <2>3. QED BY <2>1, <2>2
<1>3. QED BY <1>1, <1>2 DEF QueueInv

LEMMA OpenedHistory ==
  ASSUME NEW job \in JobRow, TypeInv, Opened(job), job.pc # "write" => job.new \in Status
  PROVE  /\ Len(history) \in Nat /\ DOMAIN history = 1..Len(history)
         /\ \A k \in DOMAIN history : k \in DOMAIN history' /\ history'[k] = history[k] /\ k < Len(history) + 1
                                      /\ history[k].row \in DOMAIN rows
         /\ \/ DOMAIN history' = DOMAIN history
            \/ /\ DOMAIN history' = DOMAIN history \cup {Len(history) + 1}
               /\ history'[Len(history) + 1] = Entered(job) /\ job.pc = "event" /\ Lands(job.row, job.new)
<1>1. history \in Seq(HistoryRow) /\ \A k \in DOMAIN history : history[k].row \in DOMAIN rows
  BY DEF TypeInv, HistoryType
<1>2. job.pc # "write" => Entered(job) \in HistoryRow
  BY DEF Entered, JobRow, HistoryRow
<1>3. CASE history' = history
  BY <1>1, <1>3
<1>4. CASE history' = Append(history, Entered(job)) /\ job.pc = "event" /\ Lands(job.row, job.new)
  BY <1>1, <1>2, <1>4, Added
<1>5. QED BY <1>3, <1>4 DEF Opened

LEMMA OpenedTorn ==
  ASSUME NEW job \in JobRow, TypeInv, TornInv, Opened(job), job.pc # "write" => job.new \in Status
  PROVE  TornInv'
<1>1. torn' = torn /\ torn \subseteq DOMAIN rows /\ feed' = feed
  BY DEF Opened, TypeInv, MarksType
<1>2. job.row \in torn => job.action # "created"
  BY <1>1 DEF Opened
<1>3. \A j \in DOMAIN jobs' : jobs'[j].row \in torn' => jobs'[j].action # "created"
  BY <1>1, <1>2, OpenedFacts DEF TornInv
<1>4. ASSUME NEW k \in DOMAIN history', history'[k].row \in torn'
      PROVE  history'[k].action # "created"
  <2>1. CASE k \in DOMAIN history
    <3>1. history'[k] = history[k]
      BY <2>1, OpenedHistory
    <3>2. QED BY <1>1, <1>4, <2>1, <3>1 DEF TornInv
  <2>2. CASE k \notin DOMAIN history
    <3>1. history'[k] = Entered(job)
      BY <2>2, OpenedHistory
    <3>2. QED BY <1>1, <1>2, <1>4, <3>1 DEF Entered
  <2>3. QED BY <2>1, <2>2
<1>5. QED BY <1>1, <1>3, <1>4 DEF TornInv

(* The rows that the request leaves alone have the tasks they had. *)
LEMMA OpenedOthers ==
  ASSUME NEW job \in JobRow, TypeInv, Opened(job), NEW s, s # job.row
  PROVE  Unwritten(s)' = Unwritten(s) /\ Unsent(s)' = Unsent(s)
BY OpenedFacts DEF Unwritten, Unsent

(* Its own row had nobody at work. *)
LEMMA OpenedOwn ==
  ASSUME NEW job \in JobRow, TypeInv, Opened(job), Calm(job.row)'
  PROVE  /\ Unwritten(job.row) = {} /\ Unsent(job.row) = {}
         /\ Unwritten(job.row)' = IF job.pc \in Waiting THEN {Len(jobs) + 1} ELSE {}
         /\ Unsent(job.row)' = IF job.pc \in Untold THEN {Len(jobs) + 1} ELSE {}
<1>1. \A j \in DOMAIN jobs : jobs[j].row = job.row => jobs[j].pc \notin Untold
  BY OpenedFacts DEF Active, Untold, Waiting
<1>2. QED BY <1>1, OpenedFacts DEF Unwritten, Unsent, Untold

LEMMA OpenedChain ==
  ASSUME NEW job \in JobRow, TypeInv, ChainInv, Opened(job), job.pc # "write" => job.new \in Status
  PROVE  ChainInv'
<1> DEFINE h == Len(history) + 1
<1>h. /\ h \in Nat /\ DOMAIN history \subseteq Nat
      /\ \A k \in DOMAIN history : k \in DOMAIN history' /\ history'[k] = history[k] /\ k < h
                                   /\ history[k].row \in DOMAIN rows
      /\ \/ DOMAIN history' = DOMAIN history
         \/ /\ DOMAIN history' = DOMAIN history \cup {h}
            /\ history'[h] = Entered(job) /\ job.pc = "event" /\ Lands(job.row, job.new)
  BY OpenedHistory
<1>1. ASSUME NEW k \in DOMAIN history, Calm(job.row)', history[k].row = job.row, NewestEntry(k)
      PROVE  Follows(job.row, history[k].new, rows[job.row].status)
  <2>1. job.row \in DOMAIN rows /\ Calm(job.row)
    BY <1>1, OpenedFacts, <1>h
  <2>2. QED BY <1>1, <2>1, OpenedOwn DEF ChainInv
<1>2. ASSUME NEW r, NEW k \in DOMAIN history', history'[k].row = r, Calm(r)', NewestEntry(k)'
      PROVE  /\ \A j \in Unwritten(r)' :
                  jobs'[j].action # "created" /\ Follows(r, history[k].new, jobs[j].old)'
             /\ Unwritten(r)' = {} => Follows(r, history[k].new, rows[r].status)'
  <2>1. CASE r # job.row
    <3>1. k \in DOMAIN history /\ history'[k] = history[k]
      BY <1>2, <2>1, <1>h DEF Entered
    <3>2. Calm(r) /\ rows'[r].status = rows[r].status /\ rows'[r].kind = rows[r].kind
      BY <1>2, <2>1, OpenedFacts
    <3>3. NewestEntry(k)
      BY <1>2, <3>1, <1>h DEF NewestEntry
    <3>4. Unwritten(r)' = Unwritten(r)
      BY <2>1, OpenedOthers
    <3>5. \A j \in Unwritten(r) : jobs'[j] = jobs[j]
      BY OpenedFacts DEF Unwritten
    <3>6. /\ \A j \in Unwritten(r) : jobs[j].action # "created" /\ Follows(r, history[k].new, jobs[j].old)
          /\ Unwritten(r) = {} => Follows(r, history[k].new, rows[r].status)
      BY <1>2, <3>1, <3>2, <3>3 DEF ChainInv
    <3>7. QED BY <3>1, <3>2, <3>4, <3>5, <3>6 DEF Follows
  <2>2. CASE r = job.row /\ k = h /\ k \notin DOMAIN history
    <3>1. history'[k] = Entered(job) /\ job.pc = "event" /\ Lands(job.row, job.new)
      BY <2>2, <1>h
    <3>2. Unwritten(r)' = {}
      BY <1>2, <2>2, <3>1, OpenedOwn DEF Waiting
    <3>3. QED BY <2>2, <3>1, <3>2 DEF Entered, Lands, Follows
  <2>3. CASE r = job.row /\ k \in DOMAIN history
    <3>1. history'[k] = history[k] /\ DOMAIN history' = DOMAIN history /\ NewestEntry(k)
      <4>1. history'[k] = history[k] /\ k < h /\ NewestEntry(k)
        BY <1>2, <2>3, <1>h DEF NewestEntry
      <4>2. history'[h] = Entered(job) => h \notin DOMAIN history'
        BY <1>2, <2>3, <4>1, <1>h DEF NewestEntry, Entered
      <4>3. QED BY <4>1, <4>2, <1>h
    <3>2. job.row \in DOMAIN rows /\ rows'[r].kind = rows[r].kind
      <4>1. history[k].row \in DOMAIN rows
        BY <2>3, <1>h
      <4>2. QED BY <1>2, <2>3, <3>1, <4>1, OpenedFacts
    <3>3. Follows(job.row, history[k].new, rows[job.row].status)
      BY <1>1, <1>2, <2>3, <3>1
    <3>4. job.action # "created" /\ job.old = rows[job.row].status
      BY <3>2 DEF Opened
    <3>5. job.pc \in Waiting => job.pc = "write"
      BY <3>2 DEF Opened, Waiting
    <3>6. \A j \in Unwritten(r)' :
            jobs'[j].action # "created" /\ Follows(r, history[k].new, jobs[j].old)'
      BY <1>2, <2>3, <3>1, <3>2, <3>3, <3>4, OpenedOwn, OpenedFacts DEF Follows
    <3>7. CASE job.pc \in {"text", "done"}
      <4>1. rows[r].status = "pending" /\ rows[r].kind = "reservation" /\ rows'[r].status = "confirmed"
        BY <2>3, <3>2, <3>4, <3>7 DEF Opened, Lands
      <4>2. QED BY <2>3, <3>1, <3>2, <3>3, <3>6, <4>1 DEF Follows
    <3>8. CASE job.pc = "event"
      <4>1. history' = history /\ job.row \in troubled' 
        BY <3>1, <3>8, OpenedHistory, Added DEF Opened, TypeInv, HistoryType
      <4>2. QED BY <1>2, <2>3, <4>1 DEF Calm
    <3>9. CASE job.pc = "write"
      BY <1>2, <2>3, <3>6, <3>9, OpenedOwn DEF Waiting
    <3>10. QED BY <3>2, <3>7, <3>8, <3>9 DEF Opened
  <2>4. QED BY <2>1, <2>2, <2>3, <1>h
<1>3. ASSUME NEW r, NEW i \in DOMAIN history', NEW k \in DOMAIN history', i < k,
             history'[i].row = r, history'[k].row = r, Calm(r)',
             \A m \in DOMAIN history' : history'[m].row = r => m <= i \/ k <= m
      PROVE  Follows(r, history[i].new, history[k].old)'
  <2>1. i \in DOMAIN history
    BY <1>3, <1>h
  <2>2. history'[i] = history[i] /\ r \in DOMAIN rows
    BY <1>3, <2>1, <1>h
  <2>3. Calm(r) /\ rows'[r].kind = rows[r].kind
    BY <1>3, <2>2, OpenedFacts
  <2>4. CASE k \in DOMAIN history
    <3>1. history'[k] = history[k] /\ \A m \in DOMAIN history : history[m].row = r => m <= i \/ k <= m
      BY <1>3, <2>4, <1>h
    <3>2. QED BY <1>3, <2>1, <2>2, <2>3, <2>4, <3>1 DEF ChainInv, Follows
  <2>5. CASE k \notin DOMAIN history
    <3>1. k = h /\ history'[k] = Entered(job) /\ r = job.row
      BY <1>3, <2>5, <1>h DEF Entered
    <3>2. NewestEntry(i)
      BY <1>3, <2>1, <2>2, <3>1, <1>h DEF NewestEntry
    <3>3. Follows(r, history[i].new, rows[r].status)
      BY <1>1, <1>3, <2>1, <2>2, <3>1, <3>2
    <3>4. job.old = rows[r].status
      BY <2>2, <3>1 DEF Opened
    <3>5. QED BY <2>2, <2>3, <3>1, <3>3, <3>4 DEF Follows, Entered
  <2>6. QED BY <2>4, <2>5
<1>4. QED BY <1>2, <1>3 DEF ChainInv, Calm, NewestEntry, Unwritten, Follows

LEMMA OpenedEvent ==
  ASSUME NEW job \in JobRow, TypeInv, EventInv, Opened(job), job.pc # "write" => job.new \in Status
  PROVE  EventInv'
<1>1. feed' = feed /\ \A k \in DOMAIN feed : feed[k].row \in DOMAIN rows
  BY DEF Opened, TypeInv, FeedType
<1>2. job.pc \in Untold \/ (job.pc \in {"text", "done"} /\ job.row \in DOMAIN rows)
  BY DEF Opened, Untold, Waiting
<1>3. ASSUME NEW r \in DOMAIN rows', Calm(r)'
      PROVE  Unsent(r)' # {} \/ \E k \in DOMAIN feed' : feed'[k].row = r
  <2>1. CASE r # job.row
    <3>1. Calm(r) /\ r \in DOMAIN rows /\ Unsent(r)' = Unsent(r)
      BY <1>3, <2>1, OpenedFacts, OpenedOthers
    <3>2. QED BY <1>1, <3>1 DEF EventInv
  <2>2. CASE r = job.row /\ job.pc \in Untold
    BY <1>3, <2>2, OpenedOwn
  <2>3. CASE r = job.row /\ job.pc \in {"text", "done"} /\ r \in DOMAIN rows
    <3>1. Calm(r) /\ Unsent(r) = {}
      BY <1>3, <2>3, OpenedFacts, OpenedOwn
    <3>2. QED BY <1>1, <2>3, <3>1 DEF EventInv
  <2>4. QED BY <1>2, <2>1, <2>2, <2>3
<1>4. ASSUME NEW r, NEW k \in DOMAIN feed', feed'[k].row = r, Calm(r)', NewestEvent(k)', Unsent(r)' = {}
      PROVE  Follows(r, feed[k].status, rows[r].status)'
  <2>1. k \in DOMAIN feed /\ feed[k].row = r /\ r \in DOMAIN rows /\ NewestEvent(k)
    BY <1>1, <1>4 DEF NewestEvent
  <2>2. Calm(r) /\ rows'[r].kind = rows[r].kind
    BY <1>4, <2>1, OpenedFacts
  <2>3. CASE r # job.row
    <3>1. rows'[r].status = rows[r].status /\ Unsent(r) = {}
      BY <1>4, <2>3, OpenedFacts, OpenedOthers
    <3>2. QED BY <1>1, <2>1, <2>2, <3>1 DEF EventInv, Follows
  <2>4. CASE r = job.row
    <3>1. Unsent(r) = {} /\ job.pc \in {"text", "done"}
      BY <1>2, <1>4, <2>4, OpenedOwn
    <3>2. Follows(r, feed[k].status, rows[r].status)
      BY <2>1, <2>2, <3>1 DEF EventInv
    <3>3. rows[r].status = "pending" /\ rows[r].kind = "reservation" /\ rows'[r].status = "confirmed"
      BY <2>1, <2>4, <3>1 DEF Opened, Lands
    <3>4. QED BY <1>1, <2>2, <3>2, <3>3 DEF Follows
  <2>5. QED BY <2>3, <2>4
<1>5. QED BY <1>3, <1>4 DEF EventInv, Calm, NewestEvent, Unsent, Follows

LEMMA OpenedNews ==
  ASSUME NEW job \in JobRow, TypeInv, NewsInv, Opened(job), job.pc # "write" => job.new \in Status
  PROVE  NewsInv'
<1>n. PICK n : n = Len(jobs) + 1
  OBVIOUS
<1>1. ASSUME NEW j \in DOMAIN jobs, Calm(jobs[j].row)'
      PROVE  Changes(jobs[j])' <=> Changes(jobs[j])
  <2>1. jobs'[j] = jobs[j]
    BY OpenedFacts
  <2>2. CASE jobs[j].row # job.row
    BY <1>1, <2>1, <2>2, OpenedFacts DEF Changes
  <2>3. CASE jobs[j].row = job.row
    BY <1>1, <2>1, <2>3, OpenedFacts DEF Changes, Active
  <2>4. QED BY <2>2, <2>3
<1>2. job.row \in DOMAIN rows /\ rows'[job.row].status # rows[job.row].status => Changes(jobs[n])'
  <2>1. jobs'[n] = job
    BY <1>n, OpenedFacts
  <2>2. QED BY <2>1 DEF Opened, Lands, Changes
<1>3. ASSUME NEW j \in DOMAIN jobs', Calm(jobs[j].row)', jobs'[j].text # None
      PROVE  \/ jobs'[j].text = rows'[jobs'[j].row].status
             \/ \E k \in DOMAIN jobs' : k > j /\ jobs'[k].row = jobs'[j].row /\ Changes(jobs[k])'
  <2>1. CASE j = n
    BY <1>3, <2>1, <1>n, OpenedFacts DEF Opened
  <2>2. CASE j # n
    <3>1. j \in DOMAIN jobs /\ jobs'[j] = jobs[j] /\ jobs[j].row \in DOMAIN rows /\ Calm(jobs[j].row)
      BY <1>3, <2>2, <1>n, OpenedFacts
    <3>2. CASE jobs[j].text = rows[jobs[j].row].status
      <4>1. CASE rows'[jobs[j].row].status = rows[jobs[j].row].status
        BY <3>1, <3>2, <4>1
      <4>2. CASE rows'[jobs[j].row].status # rows[jobs[j].row].status
        <5>1. jobs[j].row = job.row
          BY <1>3, <3>1, <4>2, <1>n, OpenedFacts
        <5>2. n \in DOMAIN jobs' /\ n > j /\ jobs'[n].row = jobs'[j].row /\ Changes(jobs[n])'
          BY <1>2, <3>1, <4>2, <5>1, <1>n, OpenedFacts
        <5>3. QED BY <5>2
      <4>3. QED BY <4>1, <4>2
    <3>3. ASSUME NEW k \in DOMAIN jobs, k > j, jobs[k].row = jobs[j].row, Changes(jobs[k])
          PROVE  k \in DOMAIN jobs' /\ jobs'[k].row = jobs'[j].row /\ Changes(jobs[k])'
      BY <1>1, <1>3, <3>1, <3>3, <1>n, OpenedFacts
    <3>4. QED BY <1>3, <3>1, <3>2, <3>3 DEF NewsInv
  <2>3. QED BY <2>1, <2>2
<1>4. ASSUME NEW r \in DOMAIN rows', r \notin troubled'
      PROVE  \E j \in DOMAIN jobs' : jobs'[j].row = r /\ jobs'[j].action = "created"
  <2>1. CASE r \in DOMAIN rows
    <3>1. PICK j \in DOMAIN jobs : jobs[j].row = r /\ jobs[j].action = "created"
      BY <1>4, <2>1 DEF NewsInv, Opened, Grows
    <3>2. j \in DOMAIN jobs' /\ jobs'[j] = jobs[j]
      BY <1>n, OpenedFacts
    <3>3. QED BY <3>1, <3>2
  <2>2. CASE r \notin DOMAIN rows
    <3>1. r = job.row
      BY <2>2 DEF Opened, Lands
    <3>2. job.action = "created"
      BY <2>2, <3>1 DEF Opened
    <3>3. n \in DOMAIN jobs' /\ jobs'[n] = job
      BY <1>n, OpenedFacts
    <3>4. QED BY <3>1, <3>2, <3>3
  <2>3. QED BY <2>1, <2>2
<1>5. QED BY <1>3, <1>4 DEF NewsInv

(***************************************************************************)
(* A task on its way to its event.                                         *)
(***************************************************************************)
LEMMA Alone ==
  ASSUME TypeInv, QueueInv, NEW j \in DOMAIN jobs, jobs[j].pc \in Untold, Calm(jobs[j].row),
         NEW k \in DOMAIN jobs, k # j, jobs[k].row = jobs[j].row
  PROVE  /\ k < j => ~Active(jobs[k])
         /\ j < k => Beside(jobs[j], jobs[k])
         /\ jobs[j].pc \in Waiting => k < j
         /\ jobs[k].pc \notin Untold
<1>1. j \in Nat /\ k \in Nat
  BY DEF TypeInv, JobsType
<1>2. jobs[j].action # "text" /\ Active(jobs[j])
  BY DEF TypeInv, JobsType, JobFits, Fits, Active, Untold, Waiting
<1>3. k < j => ~Active(jobs[k])
  BY <1>2 DEF QueueInv, Beside
<1>4. j < k => Beside(jobs[j], jobs[k])
  BY <1>2 DEF QueueInv
<1>5. jobs[k].action = "text" => jobs[k].pc \notin Untold
  BY DEF TypeInv, JobsType, JobFits, Fits
<1>6. QED BY <1>1, <1>3, <1>4, <1>5 DEF Active, Beside, Untold, Waiting

LEMMA ProceedsFacts ==
  ASSUME NEW j \in DOMAIN jobs, TypeInv, Proceeds(j)
  PROVE  /\ jobs[j].pc \in Untold /\ Active(jobs[j]) /\ jobs[j].action \notin {"text", "none"}
         /\ DOMAIN jobs' = DOMAIN jobs /\ DOMAIN rows' = DOMAIN rows
         /\ \A k \in DOMAIN jobs : jobs[k].row \in DOMAIN rows /\ (k # j => jobs'[k] = jobs[k]) /\ k \in Nat
         /\ \A k \in DOMAIN jobs : jobs'[k].row = jobs[k].row /\ jobs'[k].old = jobs[k].old
                                   /\ jobs'[k].action = jobs[k].action /\ jobs'[k].text = jobs[k].text
         /\ \A s : Calm(s)' => Calm(s) /\ s \in DOMAIN rows /\ rows'[s].kind = rows[s].kind
                               /\ (s # jobs[j].row => rows'[s].status = rows[s].status)
<1>1. jobs[j].pc \in Untold /\ Active(jobs[j])
  BY DEF Proceeds, Active, Untold, Waiting
<1>2. jobs[j].action \notin {"text", "none"}
  BY <1>1 DEF TypeInv, JobsType, JobFits, Fits
<1>3. \A k \in DOMAIN jobs : jobs[k].row \in DOMAIN rows /\ k \in Nat
  BY DEF TypeInv, JobsType, JobFits, Fits
<1>4. QED BY <1>1, <1>2, <1>3 DEF Proceeds, Grows, Calm

LEMMA ProceedsQueue ==
  ASSUME NEW j \in DOMAIN jobs, TypeInv, QueueInv, Proceeds(j)
  PROVE  QueueInv'
<1>1. ASSUME NEW a \in DOMAIN jobs', NEW b \in DOMAIN jobs', a < b, jobs'[b].row = jobs'[a].row,
             Calm(jobs[a].row)', Active(jobs'[a])
      PROVE  Beside(jobs'[a], jobs'[b])
  <2>1. a \in DOMAIN jobs /\ b \in DOMAIN jobs /\ jobs[b].row = jobs[a].row /\ Calm(jobs[a].row)
    BY <1>1, ProceedsFacts
  <2>2. CASE a = j
    <3>1. Beside(jobs[j], jobs[b])
      BY <1>1, <2>1, <2>2, ProceedsFacts DEF QueueInv
    <3>2. jobs'[j].pc = "note"
      BY <3>1 DEF Beside, Proceeds
    <3>3. QED BY <2>1, <2>2, <3>1, <3>2, ProceedsFacts DEF Beside
  <2>3. CASE b = j
    <3>1. Beside(jobs[a], jobs[j])
      BY <1>1, <2>1, <2>3, ProceedsFacts DEF QueueInv
    <3>2. QED BY <3>1, ProceedsFacts DEF Beside
  <2>4. CASE a # j /\ b # j
    BY <1>1, <2>1, <2>4, ProceedsFacts DEF QueueInv
  <2>5. QED BY <2>2, <2>3, <2>4
<1>2. ASSUME NEW a \in DOMAIN jobs', Calm(jobs[a].row)'
      PROVE  /\ jobs'[a].pc = "write" => rows'[jobs'[a].row].status = jobs'[a].old
             /\ jobs'[a].pc \in {"history", "event"} => rows'[jobs'[a].row].status = jobs'[a].new
  <2>1. a \in DOMAIN jobs /\ Calm(jobs[a].row) /\ jobs'[a].row = jobs[a].row
    BY <1>2, ProceedsFacts
  <2>2. CASE a = j
    BY <2>2 DEF Proceeds
  <2>3. CASE a # j /\ jobs[a].row = jobs[j].row
    BY <2>1, <2>3, ProceedsFacts, Alone DEF Untold, Waiting
  <2>4. CASE jobs[a].row # jobs[j].row
    <3>1. rows'[jobs[a].row].status = rows[jobs[a].row].status /\ jobs'[a] = jobs[a]
      BY <1>2, <2>1, <2>4, ProceedsFacts
    <3>2. QED BY <2>1, <3>1 DEF QueueInv
  <2>5. QED BY <2>2, <2>3, <2>4
<1>3. QED BY <1>1, <1>2 DEF QueueInv

LEMMA ProceedsTorn ==
  ASSUME NEW j \in DOMAIN jobs, TypeInv, TornInv, Proceeds(j)
  PROVE  TornInv'
<1>1. history' = history /\ torn' = torn
  BY DEF Proceeds
<1>2. \A k \in DOMAIN jobs' : jobs'[k].row \in torn' => jobs'[k].action # "created"
  BY <1>1, ProceedsFacts DEF TornInv
<1>3. ASSUME NEW k \in DOMAIN feed', feed'[k].row \in torn'
      PROVE  feed'[k].subtype # "new_order"
  <2>1. CASE feed' = feed
    BY <1>1, <1>3, <2>1 DEF TornInv
  <2>2. CASE feed' = Append(feed, [row |-> jobs[j].row, subtype |-> jobs[j].subtype, status |-> jobs[j].new])
    <3>1. feed \in Seq(EventRow)
      BY DEF TypeInv, FeedType
    <3>2. jobs[j].row \in torn => jobs[j].subtype # "new_order"
      BY DEF TypeInv, JobsType, JobFits, Fits, TornInv
    <3>3. k \in DOMAIN feed => feed'[k] = feed[k]
      BY <2>2, <3>1
    <3>4. k \notin DOMAIN feed => feed'[k] = [row |-> jobs[j].row, subtype |-> jobs[j].subtype, status |-> jobs[j].new]
      BY <2>2, <3>1
    <3>5. QED BY <1>1, <1>3, <3>2, <3>3, <3>4 DEF TornInv
  <2>3. QED BY <2>1, <2>2 DEF Proceeds
<1>4. QED BY <1>1, <1>2, <1>3 DEF TornInv

LEMMA ProceedsChain ==
  ASSUME NEW j \in DOMAIN jobs, TypeInv, ChainInv, Proceeds(j)
  PROVE  ChainInv'
<1>1. \A r : Unwritten(r)' = Unwritten(r)
  BY ProceedsFacts DEF Unwritten, Proceeds, Waiting
<1>2. history' = history
  BY DEF Proceeds
<1>3. \A r \in DOMAIN rows : Unwritten(r) = {} => rows'[r].status = rows[r].status
  BY DEF Unwritten, Proceeds, Waiting
<1>4. \A r : Calm(r)' => \A told, status : Follows(r, told, status)' <=> Follows(r, told, status)
  BY ProceedsFacts DEF Follows
<1>5. ASSUME NEW r, NEW k \in DOMAIN history, history[k].row = r, Calm(r)', NewestEntry(k)
      PROVE  /\ \A i \in Unwritten(r)' : jobs'[i].action # "created" /\ Follows(r, history[k].new, jobs[i].old)'
             /\ Unwritten(r)' = {} => Follows(r, history[k].new, rows[r].status)'
  <2>1. Calm(r) /\ r \in DOMAIN rows
    BY <1>5, ProceedsFacts
  <2>2. \A i \in Unwritten(r) : i \in DOMAIN jobs
    BY DEF Unwritten
  <2>3. QED BY <1>1, <1>2, <1>3, <1>5, <2>1, <2>2, ProceedsFacts DEF ChainInv, Follows
<1>6. ASSUME NEW r, NEW i \in DOMAIN history, NEW k \in DOMAIN history, i < k,
             history[i].row = r, history[k].row = r, Calm(r)',
             \A m \in DOMAIN history : history[m].row = r => m <= i \/ k <= m
      PROVE  Follows(r, history[i].new, history[k].old)'
  BY <1>2, <1>6, ProceedsFacts DEF ChainInv, Follows
<1>7. QED BY <1>2, <1>5, <1>6 DEF ChainInv, Calm, NewestEntry, Unwritten, Follows

LEMMA ProceedsEvent ==
  ASSUME NEW j \in DOMAIN jobs, TypeInv, QueueInv, EventInv, Proceeds(j)
  PROVE  EventInv'
<1>1. feed \in Seq(EventRow) /\ \A k \in DOMAIN feed : feed[k].row \in DOMAIN rows
  BY DEF TypeInv, FeedType
<1>2. CASE feed' = feed /\ jobs[j].pc \in Waiting
  <2>1. \A r : Unsent(r)' = Unsent(r)
    BY <1>2, ProceedsFacts DEF Unsent, Proceeds, Waiting, Untold
  <2>2. \A r \in DOMAIN rows : Unsent(r) = {} => rows'[r].status = rows[r].status
    BY DEF Unsent, Proceeds, Untold, Waiting
  <2>3. \A r \in DOMAIN rows' : Calm(r)' => Unsent(r)' # {} \/ \E k \in DOMAIN feed' : feed'[k].row = r
    BY <1>2, <2>1, ProceedsFacts DEF EventInv
  <2>4. ASSUME NEW r, NEW k \in DOMAIN feed', feed'[k].row = r, Calm(r)', NewestEvent(k)', Unsent(r)' = {}
        PROVE  Follows(r, feed[k].status, rows[r].status)'
    <3>1. Calm(r) /\ r \in DOMAIN rows /\ NewestEvent(k) /\ Unsent(r) = {}
      BY <1>2, <2>1, <2>4, ProceedsFacts DEF NewestEvent
    <3>2. Follows(r, feed[k].status, rows[r].status)
      BY <1>2, <2>4, <3>1 DEF EventInv
    <3>3. rows'[r].kind = rows[r].kind /\ rows'[r].status = rows[r].status
      BY <2>2, <2>4, <3>1, ProceedsFacts
    <3>4. QED BY <1>2, <3>2, <3>3 DEF Follows
  <2>5. QED BY <2>3, <2>4 DEF EventInv, Calm, NewestEvent, Unsent, Follows
<1>3. ASSUME jobs[j].pc = "event",
             feed' = Append(feed, [row |-> jobs[j].row, subtype |-> jobs[j].subtype, status |-> jobs[j].new])
      PROVE  EventInv'
  <2> DEFINE f == Len(feed) + 1
  <2>1. /\ f \in Nat /\ DOMAIN feed \subseteq Nat /\ DOMAIN feed' = DOMAIN feed \cup {f}
        /\ feed'[f].row = jobs[j].row /\ feed'[f].status = jobs[j].new
        /\ \A k \in DOMAIN feed : k < f /\ feed'[k] = feed[k]
    BY <1>1, <1>3
  <2>2. \A r : r # jobs[j].row => Unsent(r)' = Unsent(r)
    BY ProceedsFacts DEF Unsent
  <2>3. \A r \in DOMAIN rows : rows'[r].status = rows[r].status
    BY <1>3, ProceedsFacts DEF Proceeds
  <2>4. \A r \in DOMAIN rows' : Calm(r)' => Unsent(r)' # {} \/ \E k \in DOMAIN feed' : feed'[k].row = r
    BY <2>1, <2>2, ProceedsFacts DEF EventInv
  <2>5. ASSUME NEW r, NEW k \in DOMAIN feed', feed'[k].row = r, Calm(r)', NewestEvent(k)', Unsent(r)' = {}
        PROVE  Follows(r, feed[k].status, rows[r].status)'
    <3>1. CASE r = jobs[j].row
      <4>1. k = f
        BY <2>1, <2>5, <3>1 DEF NewestEvent
      <4>2. rows[r].status = jobs[j].new
        BY <1>3, <2>5, <3>1, ProceedsFacts DEF QueueInv
      <4>3. QED BY <2>1, <2>3, <2>5, <3>1, <4>1, <4>2, ProceedsFacts DEF Follows
    <3>2. CASE r # jobs[j].row
      <4>1. k \in DOMAIN feed /\ feed'[k] = feed[k]
        BY <2>1, <2>5, <3>2
      <4>2. NewestEvent(k)
        BY <2>1, <2>5, <4>1 DEF NewestEvent
      <4>3. Follows(r, feed[k].status, rows[r].status)
        BY <2>2, <2>5, <3>2, <4>1, <4>2, ProceedsFacts DEF EventInv
      <4>4. QED BY <2>3, <2>5, <4>1, <4>3, ProceedsFacts DEF Follows
    <3>3. QED BY <3>1, <3>2
  <2>6. QED BY <2>4, <2>5 DEF EventInv, Calm, NewestEvent, Unsent, Follows
<1>4. QED BY <1>2, <1>3 DEF Proceeds, Waiting

LEMMA ProceedsNews ==
  ASSUME NEW j \in DOMAIN jobs, TypeInv, QueueInv, NewsInv, Proceeds(j), JobsType'
  PROVE  NewsInv'
<1>1. ASSUME NEW k \in DOMAIN jobs, k # j, Calm(jobs[k].row)'
      PROVE  Changes(jobs[k])' <=> Changes(jobs[k])
  <2>1. jobs'[k] = jobs[k] /\ Calm(jobs[k].row)
    BY <1>1, ProceedsFacts
  <2>2. CASE jobs[k].row = jobs[j].row
    <3>1. jobs[k].pc \notin Untold
      BY <1>1, <2>1, <2>2, ProceedsFacts, Alone
    <3>2. QED BY <2>1, <3>1 DEF Changes, Untold, Waiting
  <2>3. CASE jobs[k].row # jobs[j].row
    BY <1>1, <2>1, <2>3, ProceedsFacts DEF Changes
  <2>4. QED BY <2>2, <2>3
<1>2. ASSUME Calm(jobs[j].row)'
      PROVE  Changes(jobs[j])' <=> Changes(jobs[j]) \/ rows'[jobs[j].row].status # rows[jobs[j].row].status
  <2>1. Calm(jobs[j].row) /\ jobs'[j].row = jobs[j].row /\ jobs'[j].old = jobs[j].old
    BY <1>2, ProceedsFacts
  <2>2. CASE jobs[j].pc = "write"
    <3>1. rows[jobs[j].row].status = jobs[j].old
      BY <2>1, <2>2 DEF QueueInv
    <3>2. QED BY <2>1, <2>2, <3>1 DEF Changes, Proceeds
  <2>3. CASE jobs[j].pc # "write"
    BY <2>1, <2>3 DEF Changes, Proceeds
  <2>4. QED BY <2>2, <2>3
<1>3. ASSUME NEW i \in DOMAIN jobs', Calm(jobs[i].row)', jobs'[i].text # None
      PROVE  \/ jobs'[i].text = rows'[jobs'[i].row].status
             \/ \E k \in DOMAIN jobs' : k > i /\ jobs'[k].row = jobs'[i].row /\ Changes(jobs[k])'
  <2>1. i \in DOMAIN jobs /\ jobs'[i].row = jobs[i].row /\ jobs'[i].text = jobs[i].text /\ Calm(jobs[i].row)
    BY <1>3, ProceedsFacts
  <2>2. CASE jobs[i].text = rows[jobs[i].row].status
    <3>1. CASE rows'[jobs[i].row].status = rows[jobs[i].row].status
      BY <2>1, <2>2, <3>1
    <3>2. CASE rows'[jobs[i].row].status # rows[jobs[i].row].status
      <4>1. jobs[i].row = jobs[j].row /\ jobs[j].pc = "write"
        BY <1>3, <2>1, <3>2, ProceedsFacts DEF Proceeds
      <4>2. i # j
        BY <1>3, <2>1, <4>1 DEF TypeInv, JobsType, JobFits, Fits
      <4>3. i < j
        BY <2>1, <4>1, <4>2, ProceedsFacts, Alone DEF Waiting
      <4>4. Changes(jobs[j])'
        BY <1>2, <1>3, <2>1, <3>2, <4>1, ProceedsFacts DEF Calm
      <4>5. QED BY <2>1, <4>1, <4>3, <4>4, ProceedsFacts
    <3>3. QED BY <3>1, <3>2
  <2>3. ASSUME NEW k \in DOMAIN jobs, k > i, jobs[k].row = jobs[i].row, Changes(jobs[k])
        PROVE  k \in DOMAIN jobs' /\ jobs'[k].row = jobs'[i].row /\ Changes(jobs[k])'
    <3>1. jobs'[k].row = jobs[k].row /\ k \in DOMAIN jobs'
      BY ProceedsFacts
    <3>2. Calm(jobs[k].row)'
      BY <1>3, <2>1, <2>3, <3>1 DEF Calm
    <3>3. CASE k = j
      BY <1>2, <2>1, <2>3, <3>1, <3>2, <3>3
    <3>4. CASE k # j
      BY <1>1, <2>1, <2>3, <3>1, <3>2, <3>4
    <3>5. QED BY <3>3, <3>4
  <2>4. QED BY <1>3, <2>1, <2>2, <2>3 DEF NewsInv
<1>4. ASSUME NEW r \in DOMAIN rows', r \notin troubled'
      PROVE  \E k \in DOMAIN jobs' : jobs'[k].row = r /\ jobs'[k].action = "created"
  BY <1>4, ProceedsFacts DEF NewsInv, Proceeds, Grows
<1>5. QED BY <1>3, <1>4 DEF NewsInv

(***************************************************************************)
(* The voice agent's history, and the text of a new row beside its event.  *)
(***************************************************************************)
Records(j) ==
  LET job == jobs[j]  text == VoiceText(job) IN
  /\ Grows /\ UNCHANGED <<rows, feed, raced, torn>>
  /\ job.pc = "history"
  /\ jobs' = LET told == [jobs EXCEPT ![j].pc = "event", ![j].text = None] IN
             IF job.text = None THEN told ELSE Append(told, text)
  /\ history' = Append(history, Entered(job)) \/ (history' = history /\ job.row \in troubled')

LEMMA RecordsFacts ==
  ASSUME NEW j \in DOMAIN jobs, TypeInv, Records(j)
  PROVE  /\ \/ DOMAIN jobs' = DOMAIN jobs /\ jobs[j].text = None
            \/ DOMAIN jobs' = DOMAIN jobs \cup {Len(jobs) + 1} /\ jobs[j].text # None
               /\ jobs'[Len(jobs) + 1] = VoiceText(jobs[j])
         /\ \A k \in DOMAIN jobs : k \in Nat /\ k < Len(jobs) + 1 /\ (k # j => jobs'[k] = jobs[k])
                                   /\ jobs[k].row \in DOMAIN rows
         /\ jobs'[j] = [jobs[j] EXCEPT !.pc = "event", !.text = None]
         /\ VoiceText(jobs[j]).row = jobs[j].row /\ VoiceText(jobs[j]).old = jobs[j].old
         /\ VoiceText(jobs[j]).new = jobs[j].new /\ VoiceText(jobs[j]).text = jobs[j].text
         /\ VoiceText(jobs[j]).pc = "text" /\ VoiceText(jobs[j]).action = "text"
         /\ \A s : Calm(s)' => Calm(s) /\ s \in DOMAIN rows
         /\ Len(jobs) \in Nat /\ jobs[j] \in JobRow
<1> DEFINE told == [jobs EXCEPT ![j] = [jobs[j] EXCEPT !.pc = "event", !.text = None]]
<1>1. jobs \in Seq(JobRow) /\ \A k \in DOMAIN jobs : jobs[k].row \in DOMAIN rows
  BY DEF TypeInv, JobsType, JobFits, Fits
<1>2. jobs[j] \in JobRow
  BY <1>1
<1>3. [jobs[j] EXCEPT !.pc = "event", !.text = None] \in JobRow /\ VoiceText(jobs[j]) \in JobRow
  BY <1>2 DEF JobRow, VoiceText, Untold, Texting, Actions, Subtypes
<1>4. /\ told \in Seq(JobRow) /\ DOMAIN told = DOMAIN jobs /\ Len(told) = Len(jobs)
      /\ \A k \in DOMAIN jobs : told[k] = IF k = j THEN [jobs[j] EXCEPT !.pc = "event", !.text = None] ELSE jobs[k]
  BY <1>1, <1>3, Replaced
<1>5. jobs' = IF jobs[j].text = None THEN told ELSE Append(told, VoiceText(jobs[j]))
  BY DEF Records
<1>6. /\ VoiceText(jobs[j]).row = jobs[j].row /\ VoiceText(jobs[j]).old = jobs[j].old
      /\ VoiceText(jobs[j]).new = jobs[j].new /\ VoiceText(jobs[j]).text = jobs[j].text
      /\ VoiceText(jobs[j]).pc = "text" /\ VoiceText(jobs[j]).action = "text"
  BY <1>2 DEF JobRow, VoiceText
<1>7. \A s : Calm(s)' => Calm(s) /\ s \in DOMAIN rows
  BY DEF Records, Grows, Calm
<1>8. CASE jobs[j].text = None
  <2>1. jobs' = told
    BY <1>5, <1>8
  <2>2. QED BY <1>1, <1>2, <1>4, <1>6, <1>7, <1>8, <2>1
<1>9. CASE jobs[j].text # None
  <2>1. jobs' = Append(told, VoiceText(jobs[j]))
    BY <1>5, <1>9
  <2>2. /\ DOMAIN jobs' = DOMAIN jobs \cup {Len(jobs) + 1} /\ jobs'[Len(jobs) + 1] = VoiceText(jobs[j])
        /\ \A k \in DOMAIN jobs : jobs'[k] = told[k] /\ k \in Nat /\ k < Len(jobs) + 1
    BY <1>1, <1>3, <1>4, <2>1, Added
  <2>3. QED BY <1>1, <1>2, <1>4, <1>6, <1>7, <1>9, <2>2
<1>10. QED BY <1>8, <1>9

RecordedJobs(j, n) ==
  /\ n = Len(jobs) + 1 /\ n \in Nat /\ n \notin DOMAIN jobs
  /\ \A k \in DOMAIN jobs : /\ k \in DOMAIN jobs' /\ k < n /\ k \in Nat
                            /\ jobs'[k].row = jobs[k].row /\ jobs'[k].old = jobs[k].old
                            /\ jobs'[k].new = jobs[k].new /\ jobs'[k].action = jobs[k].action
                            /\ (k # j => jobs'[k] = jobs[k])
  /\ jobs'[j].pc = "event" /\ jobs'[j].text = None
  /\ DOMAIN jobs' \subseteq DOMAIN jobs \cup {n}
  /\ n \in DOMAIN jobs' => /\ jobs'[n].row = jobs[j].row /\ jobs'[n].text = jobs[j].text
                            /\ jobs'[n].pc = "text" /\ jobs'[n].action = "text"
  /\ \A s : Calm(s)' => Calm(s) /\ s \in DOMAIN rows

RecordedHistory(j, h) ==
  /\ h \in Nat /\ DOMAIN history \subseteq Nat
  /\ \A k \in DOMAIN history : k \in DOMAIN history' /\ history'[k] = history[k] /\ k < h
                               /\ history[k].row \in DOMAIN rows
  /\ \/ DOMAIN history' = DOMAIN history /\ jobs[j].row \in troubled'
     \/ DOMAIN history' = DOMAIN history \cup {h} /\ history'[h] = Entered(jobs[j])

LEMMA RecordsJobs ==
  ASSUME NEW j \in DOMAIN jobs, TypeInv, Records(j)
  PROVE  \E n : RecordedJobs(j, n)
<1> DEFINE n == Len(jobs) + 1
<1>1. /\ jobs'[j].row = jobs[j].row /\ jobs'[j].old = jobs[j].old /\ jobs'[j].new = jobs[j].new
      /\ jobs'[j].action = jobs[j].action /\ jobs'[j].pc = "event" /\ jobs'[j].text = None
  BY RecordsFacts DEF JobRow
<1>2. \A k \in DOMAIN jobs : k < n /\ k \in Nat
  BY RecordsFacts
<1>3. n \notin DOMAIN jobs
  BY <1>2
<1>4. /\ DOMAIN jobs' \subseteq DOMAIN jobs \cup {n} /\ DOMAIN jobs \subseteq DOMAIN jobs' /\ n \in Nat
      /\ n \in DOMAIN jobs' => jobs'[n] = VoiceText(jobs[j])
      /\ \A k \in DOMAIN jobs : k # j => jobs'[k] = jobs[k]
  <2>1. \/ DOMAIN jobs' = DOMAIN jobs
        \/ DOMAIN jobs' = DOMAIN jobs \cup {n} /\ jobs'[n] = VoiceText(jobs[j])
    BY RecordsFacts
  <2>2. Len(jobs) \in Nat /\ \A k \in DOMAIN jobs : k # j => jobs'[k] = jobs[k]
    BY RecordsFacts
  <2>3. QED BY <1>3, <2>1, <2>2
<1>5. /\ VoiceText(jobs[j]).row = jobs[j].row /\ VoiceText(jobs[j]).text = jobs[j].text
      /\ VoiceText(jobs[j]).pc = "text" /\ VoiceText(jobs[j]).action = "text"
      /\ \A s : Calm(s)' => Calm(s) /\ s \in DOMAIN rows
  BY RecordsFacts
<1>6. RecordedJobs(j, n)
  BY <1>1, <1>2, <1>3, <1>4, <1>5 DEF RecordedJobs
<1>7. QED BY <1>6

LEMMA RecordsHistory ==
  ASSUME NEW j \in DOMAIN jobs, TypeInv, Records(j)
  PROVE  \E h : RecordedHistory(j, h)
<1> DEFINE h == Len(history) + 1
<1>1. history \in Seq(HistoryRow) /\ \A k \in DOMAIN history : history[k].row \in DOMAIN rows
  BY DEF TypeInv, HistoryType
<1>2. jobs[j].new \in Status
  BY DEF TypeInv, JobsType, JobFits, Fits, Records
<1>3. Entered(jobs[j]) \in HistoryRow
  BY <1>2, RecordsFacts DEF Entered, JobRow, HistoryRow
<1>4. history' = history /\ jobs[j].row \in troubled' => RecordedHistory(j, h)
  BY <1>1 DEF RecordedHistory
<1>5. history' = Append(history, Entered(jobs[j])) => RecordedHistory(j, h)
  BY <1>1, <1>3, Added DEF RecordedHistory
<1>6. QED BY <1>4, <1>5 DEF Records

LEMMA RecordsQueue ==
  ASSUME NEW j \in DOMAIN jobs, TypeInv, QueueInv, Records(j)
  PROVE  QueueInv'
<1> USE DEF RecordedJobs, RecordedHistory
<1>n. PICK n : RecordedJobs(j, n)
  BY RecordsJobs
<1>p. jobs[j].pc = "history" /\ Active(jobs[j]) /\ jobs[j].pc \in Untold /\ jobs[j].pc \in Waiting
      /\ rows' = rows
  BY DEF Records, Active, Untold, Waiting
<1>1. ASSUME NEW a \in DOMAIN jobs', NEW b \in DOMAIN jobs', a < b, jobs'[b].row = jobs'[a].row,
             Calm(jobs[a].row)', Active(jobs'[a])
      PROVE  Beside(jobs'[a], jobs'[b])
  <2>1. CASE b = n
    <3>1. a \in DOMAIN jobs /\ jobs'[a].row = jobs[a].row /\ jobs[a].row = jobs[j].row
      BY <1>n, <1>1, <2>1
    <3>2. Calm(jobs[j].row)
      BY <1>n, <1>1, <3>1
    <3>3. a = j
      BY <1>n, <1>p, <1>1, <3>1, <3>2, Alone
    <3>4. QED BY <1>n, <1>1, <2>1, <3>3 DEF Beside
  <2>2. CASE b # n
    <3>1. a \in DOMAIN jobs /\ b \in DOMAIN jobs /\ jobs'[a].row = jobs[a].row /\ jobs[b].row = jobs[a].row
      BY <1>n, <1>1, <2>2
    <3>2. Calm(jobs[a].row)
      BY <1>n, <1>1, <3>1
    <3>3. Active(jobs[a])
      BY <1>n, <1>p, <1>1, <3>1
    <3>4. Beside(jobs[a], jobs[b])
      BY <1>1, <3>1, <3>2, <3>3 DEF QueueInv
    <3>5. a # j
      BY <1>p, <3>4 DEF Beside
    <3>6. QED BY <1>n, <3>1, <3>4, <3>5 DEF Beside
  <2>3. QED BY <2>1, <2>2
<1>2. ASSUME NEW a \in DOMAIN jobs', Calm(jobs[a].row)'
      PROVE  /\ jobs'[a].pc = "write" => rows'[jobs'[a].row].status = jobs'[a].old
             /\ jobs'[a].pc \in {"history", "event"} => rows'[jobs'[a].row].status = jobs'[a].new
  <2>1. CASE a = n
    BY <1>n, <1>2, <2>1
  <2>2. CASE a # n
    <3>1. a \in DOMAIN jobs /\ Calm(jobs[a].row)
      BY <1>n, <1>2, <2>2
    <3>2. CASE a = j
      BY <1>n, <1>p, <3>1, <3>2 DEF QueueInv
    <3>3. CASE a # j
      BY <1>n, <1>p, <3>1, <3>3 DEF QueueInv
    <3>4. QED BY <3>2, <3>3
  <2>3. QED BY <2>1, <2>2
<1>3. QED BY <1>1, <1>2 DEF QueueInv

LEMMA RecordsTorn ==
  ASSUME NEW j \in DOMAIN jobs, TypeInv, TornInv, Records(j)
  PROVE  TornInv'
<1> USE DEF RecordedJobs, RecordedHistory
<1>n. PICK n : RecordedJobs(j, n)
  BY RecordsJobs
<1>h. PICK h : RecordedHistory(j, h)
  BY RecordsHistory
<1>1. torn' = torn /\ feed' = feed
  BY DEF Records
<1>2. \A k \in DOMAIN jobs' : jobs'[k].row \in torn' => jobs'[k].action # "created"
  BY <1>n, <1>1 DEF TornInv
<1>3. ASSUME NEW k \in DOMAIN history', history'[k].row \in torn'
      PROVE  history'[k].action # "created"
  <2>1. CASE k \in DOMAIN history
    BY <1>h, <1>1, <1>3, <2>1 DEF TornInv
  <2>2. CASE k \notin DOMAIN history
    <3>1. history'[k] = Entered(jobs[j])
      BY <1>h, <2>2
    <3>2. QED BY <1>1, <1>3, <3>1 DEF TornInv, Entered
  <2>3. QED BY <2>1, <2>2
<1>4. QED BY <1>1, <1>2, <1>3 DEF TornInv

LEMMA RecordsChain ==
  ASSUME NEW j \in DOMAIN jobs, TypeInv, QueueInv, ChainInv, Records(j)
  PROVE  ChainInv'
<1> USE DEF RecordedJobs, RecordedHistory
<1>n. PICK n : RecordedJobs(j, n)
  BY RecordsJobs
<1>h. PICK h : RecordedHistory(j, h)
  BY RecordsHistory
<1>p. jobs[j].pc = "history" /\ jobs[j].pc \in Untold /\ rows' = rows
  BY DEF Records, Untold, Waiting
<1>1. \A r, told, status : Follows(r, told, status)' <=> Follows(r, told, status)
  BY <1>p DEF Follows
<1>2. \A r : r # jobs[j].row => Unwritten(r)' = Unwritten(r)
  BY <1>n DEF Unwritten
<1>3. Calm(jobs[j].row) => j \in Unwritten(jobs[j].row)
  BY <1>p DEF Unwritten, Waiting
<1>4. \A r : Calm(r) /\ r = jobs[j].row => Unwritten(r)' = {}
  <2>1. ASSUME NEW k \in DOMAIN jobs, k # j, jobs[k].row = jobs[j].row, Calm(jobs[j].row)
        PROVE  jobs[k].pc \notin Waiting
    BY <1>p, <2>1, Alone DEF Untold
  <2>2. QED BY <1>n, <2>1 DEF Unwritten, Waiting
<1>5. ASSUME NEW r, NEW k \in DOMAIN history', history'[k].row = r, Calm(r)', NewestEntry(k)'
      PROVE  /\ \A i \in Unwritten(r)' : jobs'[i].action # "created" /\ Follows(r, history[k].new, jobs[i].old)'
             /\ Unwritten(r)' = {} => Follows(r, history[k].new, rows[r].status)'
  <2>1. Calm(r) /\ r \notin troubled'
    BY <1>n, <1>5 DEF Calm
  <2>2. CASE r = jobs[j].row
    <3>1. history'[h] = Entered(jobs[j]) /\ h \in DOMAIN history'
      BY <1>h, <2>1, <2>2
    <3>2. k = h
      BY <1>h, <1>5, <2>2, <3>1 DEF NewestEntry, Entered
    <3>3. rows[r].status = jobs[j].new
      BY <1>p, <2>1, <2>2 DEF QueueInv
    <3>4. QED BY <1>p, <1>4, <2>1, <2>2, <3>1, <3>2, <3>3 DEF Follows, Entered
  <2>3. CASE r # jobs[j].row
    <3>1. k \in DOMAIN history /\ history'[k] = history[k]
      BY <1>h, <1>5, <2>3 DEF Entered
    <3>2. NewestEntry(k)
      BY <1>h, <1>5, <3>1 DEF NewestEntry
    <3>3. /\ \A i \in Unwritten(r) : jobs[i].action # "created" /\ Follows(r, history[k].new, jobs[i].old)
          /\ Unwritten(r) = {} => Follows(r, history[k].new, rows[r].status)
      BY <1>5, <2>1, <3>1, <3>2 DEF ChainInv
    <3>4. \A i \in Unwritten(r) : jobs'[i] = jobs[i]
      BY <1>n, <2>3 DEF Unwritten
    <3>5. QED BY <1>p, <1>2, <2>3, <3>1, <3>3, <3>4 DEF Follows
  <2>4. QED BY <2>2, <2>3
<1>6. ASSUME NEW r, NEW i \in DOMAIN history', NEW k \in DOMAIN history', i < k,
             history'[i].row = r, history'[k].row = r, Calm(r)',
             \A m \in DOMAIN history' : history'[m].row = r => m <= i \/ k <= m
      PROVE  Follows(r, history[i].new, history[k].old)'
  <2>1. i \in DOMAIN history /\ history'[i] = history[i] /\ Calm(r)
    BY <1>n, <1>h, <1>6
  <2>2. CASE k \in DOMAIN history
    <3>1. history'[k] = history[k] /\ \A m \in DOMAIN history : history[m].row = r => m <= i \/ k <= m
      BY <1>h, <1>6, <2>2
    <3>2. Follows(r, history[i].new, history[k].old)
      BY <1>6, <2>1, <2>2, <3>1 DEF ChainInv
    <3>3. QED BY <1>p, <2>1, <3>1, <3>2 DEF Follows
  <2>3. CASE k \notin DOMAIN history
    <3>1. k = h /\ history'[k] = Entered(jobs[j]) /\ r = jobs[j].row
      BY <1>h, <1>6, <2>3 DEF Entered
    <3>2. NewestEntry(i)
      BY <1>h, <1>6, <2>1, <3>1 DEF NewestEntry
    <3>3. Follows(r, history[i].new, jobs[j].old)
      BY <1>3, <1>6, <2>1, <3>1, <3>2 DEF ChainInv
    <3>4. QED BY <1>p, <2>1, <3>1, <3>3 DEF Follows, Entered
  <2>4. QED BY <2>2, <2>3
<1>7. QED BY <1>5, <1>6 DEF ChainInv, Calm, NewestEntry, Unwritten, Follows

LEMMA RecordsEvent ==
  ASSUME NEW j \in DOMAIN jobs, TypeInv, EventInv, Records(j)
  PROVE  EventInv'
<1> USE DEF RecordedJobs, RecordedHistory
<1>n. PICK n : RecordedJobs(j, n)
  BY RecordsJobs
<1>p. jobs[j].pc = "history" /\ rows' = rows /\ feed' = feed
  BY DEF Records
<1>1. \A r : Unsent(r)' = Unsent(r)
  BY <1>n, <1>p DEF Unsent, Untold, Waiting
<1>2. \A r \in DOMAIN rows' : Calm(r)' => Unsent(r)' # {} \/ \E k \in DOMAIN feed' : feed'[k].row = r
  BY <1>n, <1>p, <1>1 DEF EventInv
<1>3. ASSUME NEW r, NEW k \in DOMAIN feed', feed'[k].row = r, Calm(r)', NewestEvent(k)', Unsent(r)' = {}
      PROVE  Follows(r, feed[k].status, rows[r].status)'
  <2>1. Calm(r) /\ NewestEvent(k) /\ Unsent(r) = {}
    BY <1>n, <1>p, <1>1, <1>3 DEF NewestEvent
  <2>2. Follows(r, feed[k].status, rows[r].status)
    BY <1>p, <1>3, <2>1 DEF EventInv
  <2>3. QED BY <1>p, <2>2 DEF Follows
<1>4. QED BY <1>2, <1>3 DEF EventInv, Calm, NewestEvent, Unsent, Follows

LEMMA RecordsNews ==
  ASSUME NEW j \in DOMAIN jobs, TypeInv, QueueInv, NewsInv, Records(j)
  PROVE  NewsInv'
<1> USE DEF RecordedJobs, RecordedHistory
<1>n. PICK n : RecordedJobs(j, n)
  BY RecordsJobs
<1>p. jobs[j].pc = "history" /\ jobs[j].pc \in Untold /\ jobs[j].pc \in Waiting /\ rows' = rows
      /\ troubled \subseteq troubled'
  BY DEF Records, Untold, Waiting, Grows
<1>1. ASSUME NEW k \in DOMAIN jobs
      PROVE  Changes(jobs[k])' <=> Changes(jobs[k])
  <2>1. CASE k = j
    BY <1>n, <1>p, <2>1 DEF Changes
  <2>2. CASE k # j
    BY <1>n, <1>p, <2>2 DEF Changes
  <2>3. QED BY <2>1, <2>2
<1>2. ASSUME Calm(jobs[j].row), jobs[j].text # None
      PROVE  jobs[j].text = rows[jobs[j].row].status
  <2>1. \A k \in DOMAIN jobs : k > j => jobs[k].row # jobs[j].row
    BY <1>n, <1>p, <1>2, Alone
  <2>2. QED BY <1>2, <2>1 DEF NewsInv
<1>3. ASSUME NEW i \in DOMAIN jobs', Calm(jobs[i].row)', jobs'[i].text # None
      PROVE  \/ jobs'[i].text = rows'[jobs'[i].row].status
             \/ \E k \in DOMAIN jobs' : k > i /\ jobs'[k].row = jobs'[i].row /\ Changes(jobs[k])'
  <2>1. CASE i = n
    <3>1. jobs'[i].row = jobs[j].row /\ jobs'[i].text = jobs[j].text
      BY <1>n, <1>3, <2>1
    <3>2. Calm(jobs[j].row)
      BY <1>n, <1>3, <3>1
    <3>3. QED BY <1>p, <1>2, <1>3, <3>1, <3>2
  <2>2. CASE i # n
    <3>1. i \in DOMAIN jobs /\ i # j /\ jobs'[i] = jobs[i] /\ Calm(jobs[i].row)
      BY <1>n, <1>3, <2>2
    <3>2. ASSUME NEW k \in DOMAIN jobs, k > i, jobs[k].row = jobs[i].row, Changes(jobs[k])
          PROVE  k \in DOMAIN jobs' /\ jobs'[k].row = jobs'[i].row /\ Changes(jobs[k])'
      BY <1>n, <1>1, <3>1, <3>2
    <3>3. QED BY <1>p, <1>3, <3>1, <3>2 DEF NewsInv
  <2>3. QED BY <2>1, <2>2
<1>4. ASSUME NEW r \in DOMAIN rows', r \notin troubled'
      PROVE  \E k \in DOMAIN jobs' : jobs'[k].row = r /\ jobs'[k].action = "created"
  BY <1>n, <1>p, <1>4 DEF NewsInv
<1>5. QED BY <1>3, <1>4 DEF NewsInv

(***************************************************************************)
(* The texts: a step that leaves them alone.                               *)
(***************************************************************************)
Sending == Texting \ {"text"}

KeepsText(old, new) ==
  /\ new.row = old.row /\ new.log = old.log
  /\ \/ new.pc = old.pc
     \/ new.pc = "lost" /\ old.row \in troubled'
     \/ new.log = 0 /\ new.pc \notin Sending \cup {"lost"}

TextsKept ==
  /\ Grows /\ UNCHANGED <<texts, accepted>> /\ DOMAIN jobs \subseteq DOMAIN jobs'
  /\ \A j \in DOMAIN jobs : KeepsText(jobs[j], jobs'[j])
  /\ \A j \in DOMAIN jobs' \ DOMAIN jobs : jobs'[j].log = 0 /\ jobs'[j].pc \notin Sending \cup {"lost"}

LEMMA KeptTexts ==
  ASSUME TypeInv, TextsInv, TextsKept
  PROVE  TextsInv'
<1>1. \A t : Taken(t)' <=> Taken(t)
  BY DEF TextsKept, Taken
<1>2. \A t \in DOMAIN texts' : texts'[t].job \in DOMAIN jobs' /\ jobs'[texts'[t].job].log = t
  BY DEF TextsKept, KeepsText, TextsInv
<1>3. ASSUME NEW j \in DOMAIN jobs', NEW l, l = jobs'[j].log
      PROVE  /\ jobs'[j].pc \in Sending => l # 0
             /\ jobs'[j].pc \in {"give_up", "lost"} => jobs'[j].row \in troubled'
             /\ l # 0 => /\ texts'[l].job = j
                         /\ TextAt(jobs'[j].pc, texts'[l], Taken(l)')
                         /\ jobs'[j].pc = "done" /\ jobs'[j].row \notin troubled' =>
                              Outcome(texts'[l], Taken(l)')
  <2>1. CASE j \in DOMAIN jobs
    <3>1. KeepsText(jobs[j], jobs'[j]) /\ texts' = texts /\ troubled \subseteq troubled'
      BY <2>1 DEF TextsKept, Grows
    <3>2. /\ jobs[j].pc \in Sending => l # 0
          /\ jobs[j].pc \in {"give_up", "lost"} => jobs[j].row \in troubled
          /\ l # 0 => /\ texts[l].job = j
                      /\ TextAt(jobs[j].pc, texts[l], Taken(l))
                      /\ jobs[j].pc = "done" /\ jobs[j].row \notin troubled => Outcome(texts[l], Taken(l))
      BY <1>3, <2>1, <3>1 DEF KeepsText, TextsInv, Sending
    <3>3. CASE jobs'[j].pc = jobs[j].pc
      BY <1>1, <3>1, <3>2, <3>3 DEF KeepsText, TextAt, Outcome
    <3>4. CASE jobs'[j].pc = "lost" /\ jobs[j].row \in troubled'
      BY <1>1, <3>1, <3>2, <3>4 DEF KeepsText, Sending, Texting, TextAt
    <3>5. CASE jobs'[j].log = 0 /\ jobs'[j].pc \notin Sending \cup {"lost"}
      BY <1>3, <3>5 DEF Sending, Texting
    <3>6. QED BY <3>1, <3>3, <3>4, <3>5 DEF KeepsText
  <2>2. CASE j \notin DOMAIN jobs
    BY <1>3, <2>2 DEF TextsKept, Sending, Texting
  <2>3. QED BY <2>1, <2>2
<1>4. UNCHANGED <<texts, accepted>>
  BY DEF TextsKept
<1>5. QED BY <1>2, <1>3, <1>4 DEF TextsInv, Sending, Taken

(* The messages that were taken stay in the order of their tasks. *)
TakenKept ==
  /\ Grows /\ accepted' = accepted
  /\ \A t \in DOMAIN texts : texts'[t].job = texts[t].job
  /\ \A j \in DOMAIN jobs : jobs'[j].row = jobs[j].row

LEMMA KeptTaken ==
  ASSUME TypeInv, TextsInv, TakenInv, TakenKept
  PROVE  TakenInv'
<1>1. ASSUME NEW a \in DOMAIN accepted', NEW b \in DOMAIN accepted', NEW j, NEW k, NEW r,
             j = texts'[accepted'[a]].job, k = texts'[accepted'[b]].job, r = jobs'[j].row,
             jobs'[j].row = jobs'[k].row, Calm(r)', a < b
      PROVE  j < k
  <2>1. /\ a \in DOMAIN accepted /\ b \in DOMAIN accepted
        /\ j = texts[accepted[a]].job /\ k = texts[accepted[b]].job
        /\ j \in DOMAIN jobs /\ k \in DOMAIN jobs
    BY <1>1 DEF TakenKept, TextsInv
  <2>2. jobs[j].row = jobs[k].row /\ r = jobs[j].row
    BY <1>1, <2>1 DEF TakenKept
  <2>3. r \in DOMAIN rows
    BY <2>1, <2>2 DEF TypeInv, JobsType, JobFits, Fits
  <2>4. Calm(r)
    BY <1>1, <2>3 DEF TakenKept, Grows, Calm
  <2>5. QED BY <1>1, <2>1, <2>2, <2>4 DEF TakenInv
<1>2. QED BY <1>1 DEF TakenInv, Calm

LEMMA KeptTakenToo ==
  ASSUME TextsKept
  PROVE  TakenKept
BY DEF TextsKept, TakenKept, KeepsText

(***************************************************************************)
(* The texts: a step of one text.                                          *)
(***************************************************************************)
TextMoves(j, to, t) ==
  /\ troubled \subseteq troubled' /\ jobs' = [jobs EXCEPT ![j] = to]
  /\ to.row = jobs[j].row /\ to.log = t /\ t # 0
  /\ IF t \in DOMAIN texts THEN jobs[j].log = t ELSE jobs[j].log = 0
  /\ DOMAIN texts' = DOMAIN texts \cup {t} /\ \A s \in DOMAIN texts : s # t => texts'[s] = texts[s]
  /\ texts'[t].job = j
  /\ accepted' = accepted \/ (accepted' = Append(accepted, t) /\ ~Taken(t))
  /\ to.pc # "lost" /\ (to.pc = "give_up" => to.row \in troubled')
  /\ TextAt(to.pc, texts'[t], Taken(t)')
  /\ to.pc = "done" /\ to.row \notin troubled' => Outcome(texts'[t], Taken(t)')

LEMMA MovedTexts ==
  ASSUME NEW j \in DOMAIN jobs, NEW to, NEW t \in Nat, TypeInv, TextsInv, TextMoves(j, to, t)
  PROVE  TextsInv'
<1>1. accepted \in Seq(Nat) /\ jobs \in Seq(JobRow) /\ DOMAIN jobs' = DOMAIN jobs /\ jobs'[j] = to
      /\ \A k \in DOMAIN jobs : (k # j => jobs'[k] = jobs[k]) /\ jobs'[k].row = jobs[k].row
  BY DEF TypeInv, TextsType, JobsType, TextMoves
<1>a. \/ accepted' = accepted
      \/ \E n : /\ n \notin DOMAIN accepted /\ DOMAIN accepted' = DOMAIN accepted \cup {n} /\ ~Taken(t)
               /\ accepted'[n] = t /\ \A a \in DOMAIN accepted : accepted'[a] = accepted[a]
  <2>1. CASE accepted' = accepted
    BY <2>1
  <2>2. CASE accepted' = Append(accepted, t) /\ ~Taken(t)
    <3> DEFINE n == Len(accepted) + 1
    <3>1. /\ n \notin DOMAIN accepted /\ DOMAIN accepted' = DOMAIN accepted \cup {n}
          /\ accepted'[n] = t /\ \A a \in DOMAIN accepted : accepted'[a] = accepted[a]
      BY <1>1, <2>2
    <3>2. QED BY <2>2, <3>1
  <2>3. QED BY <2>1, <2>2 DEF TextMoves
<1>2. \A s : s # t => (Taken(s)' <=> Taken(s))
  BY <1>a DEF Taken
<1>3. \A k \in DOMAIN jobs : jobs[k].log # 0 => jobs[k].log \in DOMAIN texts
  BY DEF TypeInv, JobsType, JobFits, Fits, TextsType
<1>4. ASSUME NEW s \in DOMAIN texts'
      PROVE  texts'[s].job \in DOMAIN jobs' /\ jobs'[texts'[s].job].log = s
  <2>1. CASE s = t
    BY <1>1, <2>1 DEF TextMoves
  <2>2. CASE s # t
    <3>1. s \in DOMAIN texts /\ texts'[s] = texts[s] /\ texts[s].job \in DOMAIN jobs /\ jobs[texts[s].job].log = s
      BY <2>2 DEF TextMoves, TextsInv
    <3>2. texts[s].job # j
      BY <2>2, <3>1 DEF TextMoves, TypeInv, TextsType
    <3>3. QED BY <1>1, <3>1, <3>2
  <2>3. QED BY <2>1, <2>2
<1>5. ASSUME NEW k \in DOMAIN jobs', NEW l, l = jobs'[k].log
      PROVE  /\ jobs'[k].pc \in Texting \ {"text"} => l # 0
             /\ jobs'[k].pc \in {"give_up", "lost"} => jobs'[k].row \in troubled'
             /\ l # 0 => /\ texts'[l].job = k
                         /\ TextAt(jobs'[k].pc, texts'[l], Taken(l)')
                         /\ jobs'[k].pc = "done" /\ jobs'[k].row \notin troubled' =>
                              Outcome(texts'[l], Taken(l)')
  <2>1. CASE k = j
    BY <1>1, <1>5, <2>1 DEF TextMoves
  <2>2. CASE k # j
    <3>1. k \in DOMAIN jobs /\ jobs'[k] = jobs[k]
      BY <1>1, <2>2
    <3>2. l # 0 => l \in DOMAIN texts /\ l # t
      <4>1. l # 0 => l \in DOMAIN texts /\ texts[l].job = k
        BY <1>3, <1>5, <3>1 DEF TextsInv
      <4>2. t \in DOMAIN texts => texts[t].job = j
        BY DEF TextMoves, TextsInv
      <4>3. QED BY <2>2, <4>1, <4>2
    <3>3. l # 0 => texts'[l] = texts[l] /\ (Taken(l)' <=> Taken(l))
      BY <1>2, <3>2 DEF TextMoves
    <3>4. QED BY <1>5, <3>1, <3>2, <3>3 DEF TextMoves, TextsInv, TextAt, Outcome
  <2>3. QED BY <2>1, <2>2
<1>6. \A a \in DOMAIN accepted' : accepted'[a] \in DOMAIN texts'
  BY <1>a DEF TextMoves, TextsInv
<1>7. \A a, b \in DOMAIN accepted' : accepted'[a] = accepted'[b] => a = b
  <2>1. CASE accepted' = accepted
    BY <2>1 DEF TextsInv
  <2>2. ASSUME NEW n, n \notin DOMAIN accepted, DOMAIN accepted' = DOMAIN accepted \cup {n}, ~Taken(t),
               accepted'[n] = t, \A a \in DOMAIN accepted : accepted'[a] = accepted[a]
        PROVE  \A a, b \in DOMAIN accepted' : accepted'[a] = accepted'[b] => a = b
    <3>1. \A a \in DOMAIN accepted : accepted[a] # t
      BY <2>2 DEF Taken
    <3>2. QED BY <2>2, <3>1 DEF TextsInv
  <2>3. QED BY <1>a, <2>1, <2>2
<1>8. QED BY <1>4, <1>5, <1>6, <1>7 DEF TextsInv, Taken

(***************************************************************************)
(* The requests.                                                           *)
(***************************************************************************)
LEMMA OpenedTyped ==
  ASSUME NEW job \in JobRow, TypeInv, Opened(job), job.pc # "write" => job.new \in Status,
         Fits(job, DOMAIN rows', Len(texts')), raced' \cup troubled' \subseteq DOMAIN rows'
  PROVE  TypeInv' /\ TextsKept
<1>1. /\ jobs \in Seq(JobRow) /\ history \in Seq(HistoryRow) /\ jobs' = Append(jobs, job)
      /\ UNCHANGED <<feed, texts, accepted, torn>> /\ Grows /\ job.log = 0
      /\ RowsType' /\ DOMAIN rows \subseteq DOMAIN rows' /\ job.row \in DOMAIN rows'
      /\ job.pc \in {"write", "history", "event", "text", "done"}
  BY DEF Opened, Lands, Grows, TypeInv, JobsType, HistoryType
<1>2. jobs' \in Seq(JobRow)
  BY <1>1, Added
<1>3. \A j \in DOMAIN jobs' : JobFits(jobs[j])'
  <2>1. \A j \in DOMAIN jobs : JobFits(jobs[j])'
    BY <1>1, OpenedFacts DEF TypeInv, JobsType, JobFits, Fits
  <2>2. \A j \in DOMAIN jobs' \ DOMAIN jobs : jobs'[j] = job
    BY OpenedFacts
  <2>3. QED BY <2>1, <2>2 DEF JobFits, Fits
<1>4. HistoryType'
  <2>1. CASE history' = history
    BY <1>1, <2>1 DEF TypeInv, HistoryType
  <2>2. CASE history' = Append(history, Entered(job)) /\ job.pc = "event"
    <3>1. Entered(job) \in HistoryRow /\ Entered(job).row = job.row
      BY <2>2 DEF Entered, JobRow, HistoryRow
    <3>2. QED BY <1>1, <2>2, <3>1, Added DEF TypeInv, HistoryType
  <2>3. QED BY <2>1, <2>2 DEF Opened
<1>5. FeedType' /\ TextsType' /\ MarksType'
  BY <1>1 DEF TypeInv, FeedType, TextsType, MarksType, Grows
<1>6. TypeInv'
  BY <1>1, <1>2, <1>3, <1>4, <1>5 DEF TypeInv, JobsType
<1>7. TextsKept
  BY <1>1, OpenedFacts DEF TextsKept, KeepsText, Sending, Texting
<1>8. QED BY <1>6, <1>7

LEMMA HalvedTyped ==
  ASSUME NEW r, TypeInv, Halved(r), raced' \cup troubled' \subseteq DOMAIN rows'
  PROVE  TypeInv' /\ TextsKept
<1>1. /\ UNCHANGED <<history, jobs, feed, texts, accepted>> /\ Grows /\ RowsType'
      /\ DOMAIN rows \subseteq DOMAIN rows' /\ torn' \subseteq torn \cup {r} /\ r \in troubled'
  BY DEF Halved, Lands
<1>2. JobsType'
  BY <1>1 DEF TypeInv, JobsType, JobFits, Fits
<1>3. HistoryType' /\ FeedType' /\ TextsType' /\ MarksType'
  BY <1>1 DEF TypeInv, HistoryType, FeedType, TextsType, MarksType, Grows
<1>4. TextsKept
  BY <1>1 DEF TextsKept, KeepsText
<1>5. QED BY <1>1, <1>2, <1>3, <1>4 DEF TypeInv

LEMMA Enters ==
  ASSUME TypeInv, NEW kind \in {"order", "reservation"}, NEW status \in Statuses(kind), NEW phone \in BOOLEAN,
         NewRow(kind, status, phone), troubled \subseteq troubled', raced \subseteq raced'
  PROVE  Lands(Len(rows) + 1, status) /\ Len(rows) + 1 \notin DOMAIN rows /\ Len(rows) + 1 \in Nat
<1> DEFINE row == [kind |-> kind, status |-> status, phone |-> phone, deleted |-> FALSE]
<1>1. rows \in Seq(Row) /\ rows' = Append(rows, row)
  BY DEF TypeInv, RowsType, NewRow
<1>2. row \in Row /\ row.kind = kind /\ row.status = status
  BY DEF Row, Status
<1>3. /\ rows' \in Seq(Row) /\ DOMAIN rows' = DOMAIN rows \cup {Len(rows) + 1} /\ rows'[Len(rows) + 1] = row
      /\ \A s \in DOMAIN rows : rows'[s] = rows[s]
  BY <1>1, <1>2, Added
<1>4. RowsType'
  BY <1>2, <1>3 DEF TypeInv, RowsType
<1>5. QED BY <1>1, <1>2, <1>3, <1>4 DEF Lands, Grows

LEMMA Sets ==
  ASSUME TypeInv, NEW r \in DOMAIN rows, NEW status \in Statuses(rows[r].kind),
         SetStatusTo(r, status), troubled \subseteq troubled', raced \subseteq raced'
  PROVE  Lands(r, status)
<1> DEFINE row == [rows[r] EXCEPT !.status = status]
<1>1. rows \in Seq(Row) /\ rows' = [rows EXCEPT ![r] = row] /\ rows[r] \in Row
  BY DEF TypeInv, RowsType, SetStatusTo
<1>2. row \in Row /\ row.kind = rows[r].kind /\ row.status = status
  BY <1>1 DEF Row, Status
<1>3. rows' \in Seq(Row) /\ DOMAIN rows' = DOMAIN rows /\ \A s \in DOMAIN rows : rows'[s] = IF s = r THEN row ELSE rows[s]
  BY <1>1, <1>2, Replaced
<1>4. RowsType'
  BY <1>2, <1>3 DEF TypeInv, RowsType
<1>5. QED BY <1>1, <1>2, <1>3, <1>4 DEF Lands, Grows

(* What a request tells of a row: r, from the status old to new. *)
Announced(r, old, new, action, subtype, text, pc) ==
  LET job == Job(r, old, new, action, subtype, text, pc) IN
  /\ job \in JobRow /\ Opened(job) /\ (pc # "write" => new \in Status)
  /\ Fits(job, DOMAIN rows', Len(texts')) /\ raced' \cup troubled' \subseteq DOMAIN rows'

LEMMA ToldIs ==
  ASSUME NEW job \in JobRow, TypeInv, Told(job), job.action \in {"created", "updated", "status_changed", "cancelled"},
         job.action = "created" => job.old = None, job.action = "cancelled" => job.new = "cancelled",
         job.row \in DOMAIN rows'
  PROVE  /\ jobs' = Append(jobs, job) /\ troubled \subseteq troubled' /\ troubled' \subseteq troubled \cup {job.row}
         /\ history' = Append(history, Entered(job)) \/ (history' = history /\ job.row \in troubled')
<1>1. Entry(job) = Entered(job) /\ Entry(job).row = job.row
  BY DEF Entry, Entered, CreatedEntry, ChangedEntry, CancelledEntry, UpdatedEntry
<1>2. jobs' = Append(jobs, job) /\ Logged(Entered(job))
  BY <1>1 DEF Told, StartJob
<1>3. CASE history' = Append(history, Entered(job)) /\ troubled' = troubled
  BY <1>2, <1>3
<1>4. CASE history' = history /\ troubled' = troubled \cup {Entered(job).row}
  BY <1>1, <1>2, <1>4
<1>5. QED BY <1>2, <1>3, <1>4 DEF Logged

(* A request of the staff: the row, and everybody is told. *)
LEMMA Announces ==
  ASSUME TypeInv, NEW r \in Nat, NEW old \in Status \cup {None}, NEW new \in Status,
         NEW action \in {"created", "updated", "status_changed", "cancelled"},
         NEW subtype \in Subtypes \ {"none"}, NEW text \in {None, new},
         Lands(r, new), Told(Job(r, old, new, action, subtype, text, "event")),
         UNCHANGED <<Tables, torn>>, raced' \subseteq raced \cup {r}, Noticed(r),
         action = "created" => old = None /\ r \notin DOMAIN rows,
         action # "created" => r \in DOMAIN rows /\ old = rows[r].status /\ subtype # "new_order",
         action = "cancelled" => new = "cancelled"
  PROVE  Announced(r, old, new, action, subtype, text, "event")
<1> DEFINE job == Job(r, old, new, action, subtype, text, "event")
<1>1. /\ job \in JobRow /\ job.row = r /\ job.old = old /\ job.new = new /\ job.action = action
      /\ job.subtype = subtype /\ job.text = text /\ job.pc = "event" /\ job.log = 0
  <2>1. action \in Actions /\ subtype \in Subtypes /\ text \in Status \cup {None} /\ new \in Status \cup {None}
    BY DEF Actions
  <2>2. "event" \in Untold \cup Texting \cup {"note", "done", "lost"}
    BY DEF Untold
  <2>3. QED BY <2>1, <2>2 DEF Job, JobRow
<1>2. r \in DOMAIN rows' /\ Grows /\ rows'[r].status = new
  BY DEF Lands
<1>3. /\ jobs' = Append(jobs, job) /\ troubled \subseteq troubled' /\ troubled' \subseteq troubled \cup {r}
      /\ history' = Append(history, Entered(job)) \/ (history' = history /\ r \in troubled')
  BY <1>1, <1>2, ToldIs
<1>4. raced' \cup troubled' \subseteq DOMAIN rows'
  BY <1>2, <1>3 DEF TypeInv, MarksType, Grows
<1>5. UNCHANGED <<feed, texts, accepted, torn>>
  BY DEF Tables
<1>6. Opened(job)
  BY <1>1, <1>2, <1>3, <1>5 DEF Opened
<1>7. \A x \in Statuses("order") \cup Statuses("reservation") : x # None
  BY DeskAssumption DEF Statuses
<1>8. action # "created" => old \in Status
  <2>1. \A s \in DOMAIN rows : rows[s] \in Row
    BY DEF TypeInv, RowsType
  <2>2. \A s \in DOMAIN rows : rows[s].status \in Status
    BY <2>1 DEF Row
  <2>3. QED BY <2>2
<1>9. texts \in Seq(TextRow)
  BY DEF TypeInv, TextsType
<1>10. Fits(job, DOMAIN rows', Len(texts'))
  BY <1>1, <1>2, <1>5, <1>8, <1>9 DEF JobFits, Fits, Untold, Waiting, Texting
<1>11. QED BY <1>1, <1>4, <1>6, <1>10 DEF Announced

LEMMA Unopposed ==
  ASSUME NEW r, Changed(r)
  PROVE  Noticed(r) /\ raced \subseteq raced' /\ raced' \subseteq raced \cup {r}
BY DEF Changed, Noticed, ActiveOf

LEMMA Fresh ==
  ASSUME TypeInv, NEW r, r \notin DOMAIN rows
  PROVE  Noticed(r)
BY DEF TypeInv, JobsType, JobFits, Fits, Noticed

(* What a request does: it is told, or it is not. *)
Request == \/ \E r \in DOMAIN rows' : Halved(r) /\ raced' \cup troubled' \subseteq DOMAIN rows'
           \/ \E r, old, new, action, subtype, text, pc : Announced(r, old, new, action, subtype, text, pc)

LEMMA CreateOrderStep ==
  ASSUME TypeInv, NEW status \in Statuses("order"), NEW phone \in BOOLEAN, CreateOrder(status, phone)
  PROVE  Request
<1> DEFINE r == Len(rows) + 1
<1>1. troubled \subseteq troubled' /\ troubled' \subseteq troubled \cup {r} /\ raced' = raced
  BY DEF CreateOrder, Told, Logged, Half, Job, Entry, CreatedEntry
<1>2. Lands(r, status) /\ r \notin DOMAIN rows /\ r \in Nat
  BY <1>1, Enters DEF CreateOrder
<1>3. CASE Told(Job(r, None, status, "created", "new_order", IF phone THEN status ELSE None, "event")) /\ torn' = torn
  <2>1. Noticed(r)
    BY <1>2, Fresh
  <2>2. Announced(r, None, status, "created", "new_order", IF phone THEN status ELSE None, "event")
    BY <1>1, <1>2, <1>3, <2>1, Announces DEF CreateOrder, Status, Subtypes
  <2>3. QED BY <2>2 DEF Request
<1>4. CASE Half(r) /\ torn' = torn \cup {r}
  <2>1. Halved(r)
    BY <1>2, <1>4 DEF Halved, Half, CreateOrder, Tables
  <2>2. r \in DOMAIN rows' /\ raced' \cup troubled' \subseteq DOMAIN rows'
    BY <1>1, <1>2 DEF TypeInv, MarksType, Lands
  <2>3. QED BY <2>1, <2>2 DEF Request
<1>5. QED BY <1>3, <1>4 DEF CreateOrder

LEMMA ToldMarks ==
  ASSUME NEW r, NEW old, NEW new, NEW action, NEW subtype, NEW text, NEW pc,
         Told(Job(r, old, new, action, subtype, text, pc))
  PROVE  troubled \subseteq troubled'
BY DEF Told, Logged

LEMMA CreateReservationStep ==
  ASSUME TypeInv, CreateReservationDirect
  PROVE  Request
<1> DEFINE r == Len(rows) + 1
<1>1. troubled \subseteq troubled' /\ raced' = raced
  BY ToldMarks DEF CreateReservationDirect
<1>2. "confirmed" \in Statuses("reservation") /\ "reservation" \in {"order", "reservation"} /\ TRUE \in BOOLEAN
  BY DEF Statuses
<1>3. Lands(r, "confirmed") /\ r \notin DOMAIN rows /\ r \in Nat
  BY <1>1, <1>2, Enters DEF CreateReservationDirect
<1>4. Noticed(r)
  BY <1>3, Fresh
<1>5. Announced(r, None, "confirmed", "created", "new_reservation", "confirmed", "event")
  BY <1>1, <1>2, <1>3, <1>4, Announces DEF CreateReservationDirect, Status, Subtypes
<1>6. QED BY <1>5 DEF Request

(* A status that is set, and told of or not. *)
LEMMA Set ==
  ASSUME TypeInv, NEW r \in DOMAIN rows, NEW new \in Statuses(rows[r].kind), NEW text \in {None, new},
         NEW action \in {"updated", "status_changed", "cancelled"}, action = "cancelled" => new = "cancelled",
         NEW subtype \in Subtypes \ {"none", "new_order"},
         SetStatusTo(r, new), Changed(r), UNCHANGED <<Tables, torn>>,
         Told(Job(r, rows[r].status, new, action, subtype, text, "event")) \/ Half(r)
  PROVE  Request
<1>1. troubled \subseteq troubled' /\ r \in Nat
  BY ToldMarks DEF Half, TypeInv, RowsType
<1>2. Lands(r, new) /\ Noticed(r) /\ raced' \subseteq raced \cup {r} /\ DOMAIN rows' = DOMAIN rows
  <2>1. Noticed(r) /\ raced \subseteq raced' /\ raced' \subseteq raced \cup {r}
    BY Unopposed
  <2>2. Lands(r, new)
    BY <1>1, <2>1, Sets
  <2>3. QED BY <2>1, <2>2 DEF Lands
<1>3. new \in Status /\ rows[r].status \in Status
  <2>1. rows[r] \in Row
    BY DEF TypeInv, RowsType
  <2>2. rows[r].kind \in {"order", "reservation"} /\ rows[r].status \in Status
    BY <2>1 DEF Row
  <2>3. QED BY <2>2 DEF Status
<1>4. CASE Told(Job(r, rows[r].status, new, action, subtype, text, "event"))
  <2>1. Announced(r, rows[r].status, new, action, subtype, text, "event")
    BY <1>1, <1>2, <1>3, <1>4, Announces
  <2>2. QED BY <2>1 DEF Request
<1>5. CASE Half(r)
  <2>1. Halved(r)
    BY <1>2, <1>5 DEF Halved, Half, Tables
  <2>2. raced' \cup troubled' \subseteq DOMAIN rows'
    BY <1>2, <1>5 DEF TypeInv, MarksType, Half
  <2>3. QED BY <1>2, <2>1, <2>2 DEF Request
<1>6. QED BY <1>4, <1>5

LEMMA UpdateOrderStep ==
  ASSUME TypeInv, NEW r \in DOMAIN rows, NEW status \in WantedOf(rows[r].kind) \cup {None}, UpdateOrder(r, status)
  PROVE  Request
<1> DEFINE new == IF status = None THEN rows[r].status ELSE status
           text == IF new # rows[r].status THEN OrderText(r, new) ELSE None
<1>1. new \in Statuses(rows[r].kind) /\ text \in {None, new} /\ OrderNews(new) \in Subtypes \ {"none", "new_order"}
  BY DEF TypeInv, RowsType, WantedOf, OrderText, OrderNews, Subtypes
<1>2. /\ SetStatusTo(r, new) /\ Changed(r) /\ UNCHANGED <<Tables, torn>>
      /\ Told(Job(r, rows[r].status, new, "updated", OrderNews(new), text, "event")) \/ Half(r)
  BY DEF UpdateOrder
<1>3. QED BY <1>1, <1>2, Set

LEMMA UpdateReservationStep ==
  ASSUME TypeInv, NEW r \in DOMAIN rows, NEW status \in WantedOf(rows[r].kind) \cup {None},
         UpdateReservation(r, status)
  PROVE  Request
<1> DEFINE new == IF status = None THEN rows[r].status ELSE status
           text == IF new # rows[r].status THEN ReservationText(r, new) ELSE None
<1>1. /\ new \in Statuses(rows[r].kind) /\ text \in {None, new}
      /\ ReservationNews(new) \in Subtypes \ {"none", "new_order"}
  BY DEF TypeInv, RowsType, WantedOf, ReservationText, ReservationNews, Subtypes
<1>2. /\ SetStatusTo(r, new) /\ Changed(r) /\ UNCHANGED <<Tables, torn>>
      /\ Told(Job(r, rows[r].status, new, "updated", ReservationNews(new), text, "event")) \/ Half(r)
  BY DEF UpdateReservation
<1>3. QED BY <1>1, <1>2, Set

LEMMA PutStatusStep ==
  ASSUME TypeInv, NEW r \in DOMAIN rows, NEW status \in WantedOf(rows[r].kind), PutStatus(r, status)
  PROVE  Request
<1>1. /\ status \in Statuses(rows[r].kind) /\ OrderText(r, status) \in {None, status}
      /\ OrderNews(status) \in Subtypes \ {"none", "new_order"}
  BY DEF WantedOf, OrderText, OrderNews, Subtypes
<1>2. /\ SetStatusTo(r, status) /\ Changed(r) /\ UNCHANGED <<Tables, torn>>
      /\ Told(Job(r, rows[r].status, status, "status_changed", OrderNews(status), OrderText(r, status), "event"))
  BY DEF PutStatus
<1>3. QED BY <1>1, <1>2, Set

LEMMA CancelOrderStep ==
  ASSUME TypeInv, NEW r \in DOMAIN rows, CancelOrder(r)
  PROVE  Request
<1>1. /\ "cancelled" \in Statuses(rows[r].kind) /\ OrderText(r, "cancelled") \in {None, "cancelled"}
      /\ "order_cancelled" \in Subtypes \ {"none", "new_order"}
  BY DEF Statuses, OrderText, Subtypes
<1>2. /\ SetStatusTo(r, "cancelled") /\ Changed(r) /\ UNCHANGED <<Tables, torn>>
      /\ Told(Job(r, rows[r].status, "cancelled", "cancelled", "order_cancelled", OrderText(r, "cancelled"), "event"))
  BY DEF CancelOrder
<1>3. QED BY <1>1, <1>2, Set

LEMMA CancelReservationStep ==
  ASSUME TypeInv, NEW r \in DOMAIN rows, CancelReservation(r)
  PROVE  Request
<1>1. /\ "cancelled" \in Statuses(rows[r].kind) /\ ReservationText(r, "cancelled") \in {None, "cancelled"}
      /\ "reservation_cancelled" \in Subtypes \ {"none", "new_order"}
  BY DEF Statuses, ReservationText, Subtypes
<1>2. /\ SetStatusTo(r, "cancelled") /\ Changed(r) /\ UNCHANGED <<Tables, torn>>
      /\ \/ Told(Job(r, rows[r].status, "cancelled", "cancelled", "reservation_cancelled",
                     ReservationText(r, "cancelled"), "event"))
         \/ Half(r)
  BY DEF CancelReservation
<1>3. QED BY <1>1, <1>2, Set

(* The confirmation that nobody is told of but the guest. *)
LEMMA FinalizeStep ==
  ASSUME TypeInv, NEW r \in DOMAIN rows, FinalizeReservation(r)
  PROVE  Request
<1> DEFINE text == ReservationText(r, "confirmed")
           pc   == IF rows[r].phone THEN "text" ELSE "done"
           job  == Job(r, "pending", "confirmed", "none", "none", text, pc)
<1>1. troubled \subseteq troubled' /\ r \in Nat
  BY DEF FinalizeReservation, Half, TypeInv, RowsType
<1>2. /\ rows[r].kind = "reservation" /\ rows[r].status = "pending" /\ SetStatusTo(r, "confirmed") /\ Changed(r)
      /\ UNCHANGED <<feed, texts, accepted, torn>>
  BY DEF FinalizeReservation, ReservationFound, Finalizable, Tables
<1>3. "confirmed" \in Statuses(rows[r].kind) /\ "confirmed" \in Status /\ "pending" \in Status
  BY DEF Statuses, Status
<1>4. /\ Lands(r, "confirmed") /\ Noticed(r) /\ raced' \subseteq raced \cup {r} /\ Grows /\ DOMAIN rows' = DOMAIN rows
      /\ rows'[r].status = "confirmed"
  <2>1. Noticed(r) /\ raced \subseteq raced' /\ raced' \subseteq raced \cup {r}
    BY <1>2, Unopposed
  <2>2. Lands(r, "confirmed")
    BY <1>1, <1>2, <1>3, <2>1, Sets
  <2>3. QED BY <2>1, <2>2 DEF Lands
<1>5. CASE StartJob(job) /\ UNCHANGED <<history, stumbles, troubled>>
  <2>1. /\ job \in JobRow /\ job.row = r /\ job.old = "pending" /\ job.new = "confirmed" /\ job.action = "none"
        /\ job.subtype = "none" /\ job.text = text /\ job.pc = pc /\ job.log = 0
    BY <1>1, <1>3 DEF Job, JobRow, Actions, Subtypes, Texting, ReservationText
  <2>2. "confirmed" # None
    BY DeskAssumption
  <2>3. pc = "text" => text = "confirmed"
    BY DEF ReservationText
  <2>4. Opened(job)
    BY <1>2, <1>4, <1>5, <2>1, <2>3 DEF Opened, StartJob, ReservationText
  <2>5. Fits(job, DOMAIN rows', Len(texts'))
    <3>1. texts' \in Seq(TextRow)
      BY <1>2 DEF TypeInv, TextsType
    <3>2. CASE pc = "text"
      BY <1>3, <1>4, <2>1, <2>2, <2>3, <3>1, <3>2 DEF JobFits, Fits, Untold, Waiting
    <3>3. CASE pc = "done"
      BY <1>3, <1>4, <2>1, <3>1, <3>3 DEF JobFits, Fits, Untold, Waiting, Texting
    <3>4. QED BY <3>2, <3>3
  <2>6. raced' \cup troubled' \subseteq DOMAIN rows'
    BY <1>4, <1>5 DEF TypeInv, MarksType
  <2>7. Announced(r, "pending", "confirmed", "none", "none", text, pc)
    BY <1>3, <2>1, <2>4, <2>5, <2>6 DEF Announced
  <2>8. QED BY <2>7 DEF Request
<1>6. CASE Half(r)
  <2>1. Halved(r)
    BY <1>2, <1>4, <1>6 DEF Halved, Half
  <2>2. raced' \cup troubled' \subseteq DOMAIN rows'
    BY <1>4, <1>6 DEF TypeInv, MarksType, Half
  <2>3. QED BY <1>4, <2>1, <2>2 DEF Request
<1>7. QED BY <1>5, <1>6 DEF FinalizeReservation

LEMMA VoiceCreateStep ==
  ASSUME TypeInv, NEW kind \in {"order", "reservation"}, VoiceCreate(kind)
  PROVE  Request
<1> DEFINE r   == Len(rows) + 1
           job == Job(r, None, "pending", "created", News(kind), "pending", "history")
<1>1. /\ UNCHANGED <<feed, texts, accepted, torn, history, troubled, raced>>
      /\ jobs' = Append(jobs, job) /\ NewRow(kind, "pending", TRUE)
  BY DEF VoiceCreate, Tables, StartJob
<1>2. "pending" \in Statuses(kind) /\ "pending" \in Status /\ "pending" # None
  BY DeskAssumption DEF Statuses, Status
<1>3. Lands(r, "pending") /\ r \notin DOMAIN rows /\ r \in Nat
  BY <1>1, <1>2, Enters
<1>4. Noticed(r)
  BY <1>3, Fresh
<1>5. /\ job \in JobRow /\ job.row = r /\ job.old = None /\ job.new = "pending" /\ job.action = "created"
      /\ job.text = "pending" /\ job.pc = "history" /\ job.log = 0
  BY <1>2, <1>3 DEF Job, JobRow, News, Actions, Subtypes, Untold, Waiting
<1>6. Opened(job)
  BY <1>1, <1>3, <1>4, <1>5 DEF Opened, Lands
<1>7. Fits(job, DOMAIN rows', Len(texts'))
  <2>1. r \in DOMAIN rows' /\ texts \in Seq(TextRow)
    BY <1>3 DEF Lands, TypeInv, TextsType
  <2>2. QED BY <1>1, <1>2, <1>5, <2>1 DEF Fits, Untold, Waiting, Texting
<1>8. raced' \cup troubled' \subseteq DOMAIN rows'
  BY <1>1, <1>3 DEF TypeInv, MarksType, Lands
<1>9. Announced(r, None, "pending", "created", News(kind), "pending", "history")
  BY <1>2, <1>5, <1>6, <1>7, <1>8 DEF Announced
<1>10. QED BY <1>9 DEF Request

LEMMA VoiceEditStep ==
  ASSUME TypeInv, NEW r \in DOMAIN rows, NEW status \in {None, "cancelled"}, VoiceEdit(r, status)
  PROVE  Request
<1>o. PICK old : old = rows[r].status
  OBVIOUS
<1> DEFINE job == Job(r, old, status, "updated", "none", None, "write")
<1>1. UNCHANGED <<feed, texts, accepted, torn, history, troubled, rows>> /\ jobs' = Append(jobs, job) /\ Changed(r)
  BY <1>o DEF VoiceEdit, Tables, StartJob
<1>2. r \in Nat /\ old \in Status /\ status \in Status \cup {None}
  <2>1. rows \in Seq(Row) /\ rows[r] \in Row
    BY DEF TypeInv, RowsType
  <2>2. "cancelled" \in Status
    BY DEF Status, Statuses
  <2>3. QED BY <1>o, <2>1, <2>2 DEF Row
<1>3. Noticed(r) /\ raced \subseteq raced' /\ raced' \subseteq raced \cup {r}
  BY <1>1, Unopposed
<1>4. Lands(r, old)
  BY <1>o, <1>1, <1>3 DEF Lands, Grows, TypeInv, RowsType
<1>5. /\ job \in JobRow /\ job.row = r /\ job.old = old /\ job.new = status /\ job.action = "updated"
      /\ job.subtype = "none" /\ job.text = None /\ job.pc = "write" /\ job.log = 0
  BY <1>2 DEF Job, JobRow, Actions, Subtypes, Untold, Waiting
<1>6. Opened(job)
  BY <1>o, <1>3, <1>4, <1>1, <1>5 DEF Opened, Grows
<1>7. Fits(job, DOMAIN rows', Len(texts'))
  <2>1. texts \in Seq(TextRow)
    BY DEF TypeInv, TextsType
  <2>2. QED BY <1>1, <1>2, <1>5, <2>1 DEF Fits, Untold, Waiting, Texting
<1>8. raced' \cup troubled' \subseteq DOMAIN rows'
  BY <1>1, <1>3 DEF TypeInv, MarksType
<1>9. Announced(r, old, status, "updated", "none", None, "write")
  BY <1>5, <1>6, <1>7, <1>8 DEF Announced
<1>10. QED BY <1>9 DEF Request

LEMMA RequestKeeps ==
  ASSUME IInv, Request
  PROVE  IInv'
<1>1. ASSUME NEW r, Halved(r), raced' \cup troubled' \subseteq DOMAIN rows'
      PROVE  IInv'
  <2>1. TypeInv' /\ TextsKept
    BY <1>1, HalvedTyped DEF IInv
  <2>2. TextsInv' /\ TakenInv'
    BY <2>1, KeptTexts, KeptTaken, KeptTakenToo DEF IInv
  <2>3. QED BY <1>1, <2>1, <2>2, HalfQueue, HalfTorn, HalfChain, HalfEvent, HalfNews DEF IInv
<1>2. ASSUME NEW job \in JobRow, Opened(job), job.pc # "write" => job.new \in Status,
             Fits(job, DOMAIN rows', Len(texts')), raced' \cup troubled' \subseteq DOMAIN rows'
      PROVE  IInv'
  <2>1. TypeInv' /\ TextsKept
    BY <1>2, OpenedTyped DEF IInv
  <2>2. TextsInv' /\ TakenInv'
    BY <2>1, KeptTexts, KeptTaken, KeptTakenToo DEF IInv
  <2>3. QED BY <1>2, <2>1, <2>2, OpenedQueue, OpenedTorn, OpenedChain, OpenedEvent, OpenedNews DEF IInv
<1>3. ASSUME NEW r, NEW old, NEW new, NEW action, NEW subtype, NEW text, NEW pc,
             Announced(r, old, new, action, subtype, text, pc)
      PROVE  IInv'
  <2> DEFINE job == Job(r, old, new, action, subtype, text, pc)
  <2>1. /\ job \in JobRow /\ Opened(job) /\ Fits(job, DOMAIN rows', Len(texts'))
        /\ raced' \cup troubled' \subseteq DOMAIN rows'
    BY <1>3 DEF Announced
  <2>2. job.pc # "write" => job.new \in Status
    BY <1>3 DEF Announced, Job
  <2>3. QED BY <1>2, <2>1, <2>2
<1>4. QED BY <1>1, <1>3 DEF Request

(***************************************************************************)
(* The tasks.                                                              *)
(***************************************************************************)
(* A task that comes further: the other tasks are as they were. *)
LEMMA JobReplaced ==
  ASSUME TypeInv, NEW j \in DOMAIN jobs, NEW to \in JobRow, jobs' = [jobs EXCEPT ![j] = to],
         Fits(to, DOMAIN rows', Len(texts')), DOMAIN rows' = DOMAIN rows, Len(texts') \in Nat, Len(texts') >= Len(texts)
  PROVE  /\ JobsType' /\ DOMAIN jobs' = DOMAIN jobs /\ jobs'[j] = to
         /\ \A k \in DOMAIN jobs : k # j => jobs'[k] = jobs[k]
<1>1. jobs \in Seq(JobRow)
  BY DEF TypeInv, JobsType
<1>2. /\ jobs' \in Seq(JobRow) /\ DOMAIN jobs' = DOMAIN jobs
      /\ \A k \in DOMAIN jobs : jobs'[k] = IF k = j THEN to ELSE jobs[k]
  BY <1>1, Replaced
<1>3. ASSUME NEW k \in DOMAIN jobs'
      PROVE  Fits(jobs'[k], DOMAIN rows', Len(texts'))
  <2>1. CASE k = j
    BY <1>2, <2>1
  <2>2. CASE k # j
    <3>1. jobs'[k] = jobs[k] /\ Fits(jobs[k], DOMAIN rows, Len(texts)) /\ Len(texts) \in Nat
      BY <1>2, <2>2 DEF TypeInv, JobsType, JobFits, TextsType
    <3>2. QED BY <3>1 DEF Fits
  <2>3. QED BY <2>1, <2>2
<1>4. QED BY <1>2, <1>3 DEF JobsType, JobFits

(* A task that is told of no more: its place changes, and the log of its text. *)
LEMMA StepTyped ==
  ASSUME TypeInv, JobsType', DOMAIN rows' = DOMAIN rows, RowsType', TextsType', UNCHANGED <<history, feed, raced, torn>>,
         troubled \subseteq troubled', troubled' \subseteq DOMAIN rows
  PROVE  TypeInv'
BY DEF TypeInv, HistoryType, FeedType, MarksType

LEMMA QuietKeeps ==
  ASSUME IInv, Quiet, TypeInv', TextsInv', TakenInv'
  PROVE  IInv'
BY QuietQueue, QuietTorn, QuietChain, QuietEvent, QuietNews DEF IInv

LEMMA DeletedStep ==
  ASSUME IInv, NEW r \in DOMAIN rows, SoftDelete(r) \/ Restore(r)
  PROVE  IInv'
<1>1. PICK gone \in BOOLEAN : rows' = [rows EXCEPT ![r] = [rows[r] EXCEPT !.deleted = gone]]
  BY DEF SoftDelete, Restore
<1>2. UNCHANGED <<feed, texts, accepted, history, jobs, troubled, raced, torn>>
  BY DEF SoftDelete, Restore, Tables
<1>3. rows \in Seq(Row) /\ rows[r] \in Row /\ TypeInv
  BY DEF IInv, TypeInv, RowsType
<1>4. [rows[r] EXCEPT !.deleted = gone] \in Row
  BY <1>3 DEF Row
<1>5. /\ rows' \in Seq(Row) /\ DOMAIN rows' = DOMAIN rows
      /\ \A s \in DOMAIN rows : rows'[s] = IF s = r THEN [rows[r] EXCEPT !.deleted = gone] ELSE rows[s]
  BY <1>1, <1>3, <1>4, Replaced
<1>6. \A s \in DOMAIN rows : rows'[s].kind = rows[s].kind /\ rows'[s].status = rows[s].status
  BY <1>3, <1>5 DEF Row
<1>7. RowsType'
  BY <1>3, <1>5, <1>6 DEF TypeInv, RowsType
<1>8. TypeInv'
  BY <1>2, <1>3, <1>5, <1>7 DEF TypeInv, JobsType, JobFits, HistoryType, FeedType, TextsType, MarksType
<1>9. Quiet /\ TextsKept
  BY <1>2, <1>5, <1>6 DEF Quiet, GoesOn, Grows, TextsKept, KeepsText
<1>10. TextsInv' /\ TakenInv'
  BY <1>3, <1>9, KeptTexts, KeptTaken, KeptTakenToo DEF IInv
<1>11. QED BY <1>8, <1>9, <1>10, QuietKeeps

LEMMA StopStep ==
  ASSUME IInv, Stop
  PROVE  IInv'
<1> DEFINE Ended(job) == IF Active(job) THEN [job EXCEPT !.pc = "lost"] ELSE job
<1>1. /\ UNCHANGED <<rows, history, feed, texts, accepted, raced, torn>>
      /\ jobs' = [j \in DOMAIN jobs |-> Ended(jobs[j])]
      /\ troubled' = troubled \cup {r \in DOMAIN rows : ActiveOf(r) # {}}
  BY DEF Stop
<1>2. jobs \in Seq(JobRow) /\ TypeInv /\ \A j \in DOMAIN jobs : jobs[j] \in JobRow /\ JobFits(jobs[j])
  BY DEF IInv, TypeInv, JobsType
<1>3. \A job \in JobRow : Ended(job) \in JobRow
  BY DEF JobRow
<1>4. jobs' \in Seq(JobRow) /\ DOMAIN jobs' = DOMAIN jobs /\ \A j \in DOMAIN jobs : jobs'[j] = Ended(jobs[j])
  BY <1>1, <1>2, <1>3
<1>5. \A j \in DOMAIN jobs :
        /\ jobs'[j].row = jobs[j].row /\ jobs'[j].old = jobs[j].old /\ jobs'[j].new = jobs[j].new
        /\ jobs'[j].action = jobs[j].action /\ jobs'[j].subtype = jobs[j].subtype
        /\ jobs'[j].text = jobs[j].text /\ jobs'[j].log = jobs[j].log
        /\ IF Active(jobs[j]) THEN jobs'[j].pc = "lost" ELSE jobs'[j].pc = jobs[j].pc
  BY <1>2, <1>4 DEF JobRow
<1>6. \A j \in DOMAIN jobs : Active(jobs[j]) => jobs[j].row \in troubled'
  BY <1>1, <1>2 DEF ActiveOf, JobFits, Fits
<1>7. \A j \in DOMAIN jobs : Fits(jobs'[j], DOMAIN rows, Len(texts))
  <2>1. ASSUME NEW j \in DOMAIN jobs
        PROVE  Fits(jobs'[j], DOMAIN rows, Len(texts))
    <3>1. Fits(jobs[j], DOMAIN rows, Len(texts))
      BY <1>2 DEF JobFits
    <3>2. CASE ~Active(jobs[j])
      BY <1>4, <3>1, <3>2
    <3>3. CASE Active(jobs[j])
      BY <1>5, <3>1, <3>3 DEF Fits, Untold, Waiting, Texting
    <3>4. QED BY <3>2, <3>3
  <2>2. QED BY <2>1
<1>8. JobsType' /\ RowsType' /\ TextsType' /\ troubled \subseteq troubled' /\ troubled' \subseteq DOMAIN rows
  BY <1>1, <1>2, <1>4, <1>7 DEF TypeInv, JobsType, JobFits, RowsType, TextsType, MarksType
<1>9. TypeInv'
  BY <1>1, <1>2, <1>8, StepTyped
<1>10. Quiet /\ TextsKept
  BY <1>1, <1>4, <1>5, <1>6, <1>8 DEF Quiet, GoesOn, Grows, TextsKept, KeepsText
<1>11. TextsInv' /\ TakenInv'
  BY <1>2, <1>10, KeptTexts, KeptTaken, KeptTakenToo DEF IInv
<1>12. QED BY <1>9, <1>10, <1>11, QuietKeeps

(* The steps after the event: how far the task is, and the log of its text. *)
Advances(j, to) ==
  /\ jobs' = [jobs EXCEPT ![j] = to] /\ to \in JobRow
  /\ to.row = jobs[j].row /\ to.old = jobs[j].old /\ to.new = jobs[j].new /\ to.action = jobs[j].action
  /\ to.subtype = jobs[j].subtype /\ to.text = jobs[j].text
  /\ jobs[j].pc \in Texting \cup {"note"} /\ to.pc \in Texting \cup {"done"}
  /\ (to.pc \in Texting \/ to.log # 0) => to.text # None
  /\ to.pc = "text" => to.log = 0
  /\ to.log \in 0..Len(texts') /\ TextsType' /\ Len(texts') >= Len(texts)
  /\ UNCHANGED <<rows, history, feed, raced, torn>>
  /\ troubled \subseteq troubled' /\ troubled' \subseteq troubled \cup {jobs[j].row}

LEMMA Advanced ==
  ASSUME TypeInv, NEW j \in DOMAIN jobs, NEW to, Advances(j, to)
  PROVE  /\ TypeInv' /\ Quiet /\ DOMAIN jobs' = DOMAIN jobs /\ jobs'[j] = to
         /\ \A k \in DOMAIN jobs : k # j => jobs'[k] = jobs[k]
<1>1. /\ jobs[j] \in JobRow /\ Fits(jobs[j], DOMAIN rows, Len(texts))
      /\ jobs[j].row \in DOMAIN rows
  BY DEF TypeInv, JobsType, JobFits, Fits
<1>2. Fits(to, DOMAIN rows, Len(texts'))
  <2>1. to.pc \notin Untold \cup {"note", "write", "reread", "lost"}
    BY DEF Advances, Untold, Waiting, Texting
  <2>2. jobs[j].pc \notin Untold \cup {"write", "reread", "lost"}
    BY DEF Advances, Untold, Waiting, Texting
  <2>3. QED BY <1>1, <2>1, <2>2 DEF Advances, Fits, Untold, Waiting
<1>3. Len(texts') \in Nat
  BY DEF Advances, TextsType
<1>4. /\ JobsType' /\ DOMAIN jobs' = DOMAIN jobs /\ jobs'[j] = to
      /\ \A k \in DOMAIN jobs : k # j => jobs'[k] = jobs[k]
  BY <1>2, <1>3, JobReplaced DEF Advances
<1>5. TypeInv'
  BY <1>1, <1>4, StepTyped DEF Advances, TypeInv, RowsType, MarksType
<1>6. GoesOn(jobs[j], to)
  BY DEF Advances, GoesOn, Active, Untold, Waiting, Texting
<1>7. Quiet
  BY <1>4, <1>6 DEF Quiet, GoesOn, Grows, Advances
<1>8. QED BY <1>4, <1>5, <1>7

(* A step of a task that touches no text. *)
LEMMA AdvancedAside ==
  ASSUME IInv, NEW j \in DOMAIN jobs, NEW to, Advances(j, to), UNCHANGED <<texts, accepted>>,
         to.log = 0, jobs[j].log = 0, to.pc \notin Sending
  PROVE  IInv'
<1>1. TypeInv
  BY DEF IInv
<1>2. /\ TypeInv' /\ Quiet /\ DOMAIN jobs' = DOMAIN jobs /\ jobs'[j] = to
      /\ \A k \in DOMAIN jobs : k # j => jobs'[k] = jobs[k]
  BY <1>1, Advanced
<1>3. KeepsText(jobs[j], to)
  BY DEF Advances, KeepsText, Sending, Texting
<1>4. TextsKept
  BY <1>2, <1>3 DEF TextsKept, KeepsText, Grows, Advances
<1>5. TextsInv' /\ TakenInv'
  BY <1>1, <1>4, KeptTexts, KeptTaken, KeptTakenToo DEF IInv
<1>6. QED BY <1>2, <1>5, QuietKeeps

(* A step of a text. *)
LEMMA AdvancedText ==
  ASSUME IInv, NEW j \in DOMAIN jobs, NEW to, Advances(j, to), NEW t \in Nat, TextMoves(j, to, t), TakenInv'
  PROVE  IInv'
<1>1. TypeInv /\ TextsInv
  BY DEF IInv
<1>2. TypeInv' /\ Quiet
  BY <1>1, Advanced
<1>3. TextsInv'
  BY <1>1, MovedTexts
<1>4. QED BY <1>2, <1>3, QuietKeeps

LEMMA CreateNotificationStep ==
  ASSUME IInv, NEW j \in DOMAIN jobs, CreateNotification(j)
  PROVE  IInv'
<1> DEFINE to == [jobs[j] EXCEPT !.pc = AfterNote(jobs[j])]
<1>1. /\ jobs[j] \in JobRow /\ Fits(jobs[j], DOMAIN rows, Len(texts)) /\ TextsType /\ Len(texts) \in Nat
  BY DEF IInv, TypeInv, JobsType, JobFits, TextsType
<1>2. jobs[j].pc = "note" /\ jobs[j].log = 0
  BY <1>1 DEF CreateNotification, Fits
<1>3. /\ to \in JobRow /\ to.row = jobs[j].row /\ to.old = jobs[j].old /\ to.new = jobs[j].new
      /\ to.action = jobs[j].action /\ to.subtype = jobs[j].subtype /\ to.text = jobs[j].text
      /\ to.log = 0 /\ to.pc = AfterNote(jobs[j])
  BY <1>1, <1>2 DEF JobRow, AfterNote, Texting
<1>4. UNCHANGED <<texts, accepted>> /\ TextsType'
  BY <1>1 DEF CreateNotification, TextsType
<1>5. Advances(j, to)
  BY <1>1, <1>2, <1>3, <1>4 DEF Advances, CreateNotification, AfterNote, Texting
<1>6. to.pc \notin Sending
  BY <1>3 DEF AfterNote, Sending, Texting
<1>7. QED BY <1>2, <1>3, <1>4, <1>5, <1>6, AdvancedAside

LEMMA TextOf ==
  ASSUME IInv, NEW j \in DOMAIN jobs, jobs[j].pc \in Texting
  PROVE  /\ jobs[j] \in JobRow /\ jobs[j].text # None /\ jobs[j].row \in DOMAIN rows
         /\ texts \in Seq(TextRow) /\ accepted \in Seq(Nat) /\ Len(texts) \in Nat /\ DOMAIN texts = 1..Len(texts)
         /\ jobs[j].pc = "text" => jobs[j].log = 0
         /\ jobs[j].pc # "text" => /\ jobs[j].log \in DOMAIN texts /\ texts[jobs[j].log].job = j /\ jobs[j].log # 0
                                   /\ TextAt(jobs[j].pc, texts[jobs[j].log], Taken(jobs[j].log))
                                   /\ jobs[j].pc = "give_up" => jobs[j].row \in troubled
<1>1. /\ jobs[j] \in JobRow /\ Fits(jobs[j], DOMAIN rows, Len(texts)) /\ texts \in Seq(TextRow) /\ accepted \in Seq(Nat)
  BY DEF IInv, TypeInv, JobsType, JobFits, TextsType
<1>2. QED BY <1>1 DEF IInv, TextsInv, Fits

(* The task at another place, and nothing else of it. *)
LEMMA Goes ==
  ASSUME IInv, NEW j \in DOMAIN jobs, jobs[j].pc \in Texting, NEW pc \in Texting \cup {"done"}, Goto(j, pc),
         pc = "text" => jobs[j].log = 0, TextsType', Len(texts') >= Len(texts),
         UNCHANGED <<rows, history, feed, raced, torn>>,
         troubled \subseteq troubled', troubled' \subseteq troubled \cup {jobs[j].row}
  PROVE  /\ Advances(j, [jobs[j] EXCEPT !.pc = pc])
         /\ [jobs[j] EXCEPT !.pc = pc].pc = pc /\ [jobs[j] EXCEPT !.pc = pc].log = jobs[j].log
         /\ [jobs[j] EXCEPT !.pc = pc].row = jobs[j].row
<1> DEFINE to == [jobs[j] EXCEPT !.pc = pc]
<1>1. /\ jobs[j] \in JobRow /\ jobs[j].text # None /\ jobs[j].log \in 0..Len(texts) /\ Len(texts) \in Nat
      /\ Len(texts') \in Nat
  BY TextOf DEF IInv, TypeInv, JobsType, JobFits, Fits, TextsType
<1>2. /\ to \in JobRow /\ to.row = jobs[j].row /\ to.old = jobs[j].old /\ to.new = jobs[j].new
      /\ to.action = jobs[j].action /\ to.subtype = jobs[j].subtype /\ to.text = jobs[j].text
      /\ to.log = jobs[j].log /\ to.pc = pc
  BY <1>1 DEF JobRow
<1>3. jobs' = [jobs EXCEPT ![j] = to]
  BY DEF Goto
<1>4. QED BY <1>1, <1>2, <1>3 DEF Advances

LEMMA CreateLogStep ==
  ASSUME IInv, NEW j \in DOMAIN jobs, CreateLog(j)
  PROVE  IInv'
<1>1. jobs[j].pc = "text" /\ "text" \in Texting
  BY DEF CreateLog, Texting
<1>2. /\ jobs[j] \in JobRow /\ jobs[j].text # None /\ jobs[j].row \in DOMAIN rows /\ jobs[j].log = 0
      /\ texts \in Seq(TextRow) /\ accepted \in Seq(Nat) /\ Len(texts) \in Nat /\ DOMAIN texts = 1..Len(texts)
  BY <1>1, TextOf
<1>3. UNCHANGED <<rows, history, feed, accepted, raced, torn>>
  BY DEF CreateLog
<1>4. CASE reachable /\ texts' = Append(texts, [job |-> j, st |-> "pending", retries |-> 0])
           /\ jobs' = [jobs EXCEPT ![j].pc = "send", ![j].log = Len(texts) + 1] /\ UNCHANGED <<stumbles, troubled>>
  <2>1. PICK t : t = Len(texts) + 1
    OBVIOUS
  <2>a. PICK to : to = [jobs[j] EXCEPT !.pc = "send", !.log = t]
    OBVIOUS
  <2> DEFINE row == [job |-> j, st |-> "pending", retries |-> 0]
  <2>2. row \in TextRow /\ j \in Nat
    BY DEF IInv, TypeInv, JobsType, TextRow
  <2>3. /\ texts' \in Seq(TextRow) /\ Len(texts') = t /\ t \in Nat /\ t # 0 /\ t \notin DOMAIN texts
        /\ DOMAIN texts' = DOMAIN texts \cup {t} /\ texts'[t] = row /\ \A s \in DOMAIN texts : texts'[s] = texts[s]
    BY <1>2, <1>4, <2>1, <2>2, Added
  <2>4. /\ to \in JobRow /\ to.row = jobs[j].row /\ to.old = jobs[j].old /\ to.new = jobs[j].new
        /\ to.action = jobs[j].action /\ to.subtype = jobs[j].subtype /\ to.text = jobs[j].text
        /\ to.log = t /\ to.pc = "send"
    BY <1>2, <2>3, <2>a DEF JobRow, Texting
  <2>5. jobs' = [jobs EXCEPT ![j] = to]
    BY <1>4, <2>1, <2>a
  <2>6. Advances(j, to)
    <3>1. TextsType' /\ Len(texts') >= Len(texts) /\ t \in 0..Len(texts') /\ troubled' = troubled
      BY <1>2, <1>3, <1>4, <2>1, <2>3 DEF TextsType
    <3>2. QED BY <1>1, <1>2, <1>3, <2>4, <2>5, <3>1 DEF Advances, Texting
  <2>7. ~Taken(t)'
    BY <1>3, <2>3 DEF Taken, IInv, TextsInv
  <2>8. TextMoves(j, to, t)
    <3>1. texts'[t].job = j /\ TextAt("send", texts'[t], Taken(t)') /\ troubled' = troubled
      BY <1>4, <2>3, <2>7 DEF TextAt
    <3>2. QED BY <1>2, <1>3, <2>3, <2>4, <2>5, <3>1 DEF TextMoves
  <2>9. TakenInv'
    <3>1. TakenKept
      BY <1>3, <1>4, <2>3, <2>6, Advanced DEF IInv, TakenKept, Grows, Advances
    <3>2. QED BY <3>1, KeptTaken DEF IInv
  <2>10. QED BY <2>3, <2>6, <2>8, <2>9, AdvancedText
<1>5. CASE Goto(j, "done") /\ texts' = texts /\ troubled \subseteq troubled' /\ troubled' \subseteq troubled \cup {jobs[j].row}
  <2> DEFINE to == [jobs[j] EXCEPT !.pc = "done"]
  <2>1. TextsType' /\ Len(texts') >= Len(texts)
    BY <1>2, <1>3, <1>5 DEF TextsType
  <2>2. Advances(j, to) /\ to.pc = "done" /\ to.log = 0
    BY <1>1, <1>2, <1>3, <1>5, <2>1, Goes
  <2>3. QED BY <1>2, <1>3, <1>5, <2>2, AdvancedAside DEF Sending, Texting
<1>6. QED BY <1>4, <1>5 DEF CreateLog, Fails

LEMMA SendTextStep ==
  ASSUME IInv, NEW j \in DOMAIN jobs, SendText(j)
  PROVE  IInv'
<1>t. PICK t : t = jobs[j].log
  OBVIOUS
<1>1. jobs[j].pc = "send" /\ "send" \in Texting
  BY DEF SendText, Texting
<1>2. /\ jobs[j] \in JobRow /\ jobs[j].row \in DOMAIN rows
      /\ texts \in Seq(TextRow) /\ accepted \in Seq(Nat) /\ Len(texts) \in Nat
      /\ t \in DOMAIN texts /\ texts[t].job = j /\ t # 0 /\ t \in Nat
      /\ texts[t].st = "pending" /\ texts[t].retries = 0 /\ ~Taken(t)
  BY <1>t, <1>1, TextOf DEF TextAt
<1>3. UNCHANGED <<rows, history, feed, texts, troubled, raced, torn>>
  BY DEF SendText
<1>4. TextsType'
  <2>1. accepted' \in Seq(Nat)
    BY <1>t, <1>2 DEF SendText
  <2>2. QED BY <1>2, <1>3, <2>1 DEF TextsType
<1>5. ASSUME accepted' = Append(accepted, t), Goto(j, "sent")
      PROVE  IInv'
  <2> DEFINE to == [jobs[j] EXCEPT !.pc = "sent"]
             n  == Len(accepted) + 1
  <2>1. Advances(j, to) /\ to.pc = "sent" /\ to.log = t /\ to.row = jobs[j].row
    <3>1. "sent" \in Texting \cup {"done"} /\ "sent" # "text" /\ Len(texts') >= Len(texts)
      BY <1>2, <1>3 DEF Texting
    <3>2. QED BY <1>t, <1>1, <1>3, <1>4, <1>5, <3>1, Goes
  <2>2. /\ DOMAIN accepted' = DOMAIN accepted \cup {n} /\ n \in Nat /\ DOMAIN accepted \subseteq Nat
        /\ accepted'[n] = t /\ \A a \in DOMAIN accepted : accepted'[a] = accepted[a] /\ a < n
    BY <1>2, <1>5
  <2>3. Taken(t)'
    BY <2>2 DEF Taken
  <2>4. TextMoves(j, to, t)
    BY <1>t, <1>2, <1>3, <1>5, <2>1, <2>3 DEF TextMoves, TextAt, Advances
  <2>5. DOMAIN jobs' = DOMAIN jobs /\ \A k \in DOMAIN jobs : jobs'[k].row = jobs[k].row
    BY <2>1, Advanced DEF IInv
  <2>6. \A r : Calm(r)' <=> Calm(r)
    BY <1>3 DEF Calm
  <2>7. ASSUME NEW a \in DOMAIN accepted, NEW i, i = texts[accepted[a]].job,
               jobs[i].row = jobs[j].row, Calm(jobs[j].row)
        PROVE  i < j
    <3>1. i \in DOMAIN jobs /\ jobs[i].log = accepted[a] /\ accepted[a] # t
      BY <1>2, <2>7 DEF IInv, TextsInv, Taken
    <3>2. i # j /\ i \in Nat /\ j \in Nat
      BY <1>t, <3>1 DEF IInv, TypeInv, JobsType
    <3>3. ~(j < i)
      BY <1>1, <2>7, <3>1 DEF IInv, QueueInv, Active, Beside
    <3>4. QED BY <3>2, <3>3
  <2>8. ASSUME NEW a \in DOMAIN accepted', NEW b \in DOMAIN accepted', NEW i, NEW k, NEW r,
               i = texts'[accepted'[a]].job, k = texts'[accepted'[b]].job, r = jobs'[i].row,
               jobs'[i].row = jobs'[k].row, Calm(r)', a < b
        PROVE  i < k
    <3>1. a \in DOMAIN accepted /\ accepted'[a] = accepted[a]
      BY <2>2, <2>8
    <3>2. /\ i = texts[accepted[a]].job /\ i \in DOMAIN jobs
      BY <1>3, <2>8, <3>1 DEF IInv, TextsInv
    <3>3. CASE b \in DOMAIN accepted
      <4>1. k = texts[accepted[b]].job /\ k \in DOMAIN jobs
        BY <1>3, <2>2, <2>8, <3>3 DEF IInv, TextsInv
      <4>2. QED BY <2>5, <2>6, <2>8, <3>1, <3>2, <3>3, <4>1 DEF IInv, TakenInv
    <3>4. CASE b \notin DOMAIN accepted
      <4>1. k = j
        BY <1>2, <1>3, <2>2, <2>8, <3>4
      <4>2. QED BY <2>5, <2>6, <2>7, <2>8, <3>1, <3>2, <4>1
    <3>5. QED BY <3>3, <3>4
  <2>9. TakenInv'
    BY <2>8 DEF TakenInv, Calm
  <2>10. QED BY <1>2, <2>1, <2>4, <2>9, AdvancedText
<1>6. ASSUME UNCHANGED accepted, Goto(j, "refused")
      PROVE  IInv'
  <2> DEFINE to == [jobs[j] EXCEPT !.pc = "refused"]
  <2>1. Advances(j, to) /\ to.pc = "refused" /\ to.log = t /\ to.row = jobs[j].row
    <3>1. "refused" \in Texting \cup {"done"} /\ "refused" # "text" /\ Len(texts') >= Len(texts)
      BY <1>2, <1>3 DEF Texting
    <3>2. QED BY <1>t, <1>1, <1>3, <1>4, <1>6, <3>1, Goes
  <2>2. ~Taken(t)'
    BY <1>2, <1>6 DEF Taken
  <2>3. TextMoves(j, to, t)
    BY <1>t, <1>2, <1>3, <1>6, <2>1, <2>2 DEF TextMoves, TextAt, Advances
  <2>4. TakenInv'
    <3>1. TakenKept
      BY <1>3, <1>6, <2>1, Advanced DEF IInv, TakenKept, Grows, Advances
    <3>2. QED BY <3>1, KeptTaken DEF IInv
  <2>5. QED BY <1>2, <2>1, <2>3, <2>4, AdvancedText
<1>7. QED BY <1>t, <1>5, <1>6 DEF SendText

LEMMA LogStep ==
  ASSUME IInv, NEW j \in DOMAIN jobs, jobs[j].pc \in Sending, NEW pc \in {"done", "count", "give_up"}, Goto(j, pc),
         NEW t, t = jobs[j].log, NEW text \in TextRow, text.job = j, texts' = [texts EXCEPT ![t] = text],
         UNCHANGED <<rows, history, feed, accepted, raced, torn>>,
         troubled \subseteq troubled', troubled' \subseteq troubled \cup {jobs[j].row},
         TextAt(pc, text, Taken(t)), pc = "give_up" => jobs[j].row \in troubled',
         pc = "done" /\ jobs[j].row \notin troubled' => Outcome(text, Taken(t))
  PROVE  IInv'
<1>1. jobs[j].pc \in Texting /\ jobs[j].pc # "text" /\ pc \in Texting \cup {"done"} /\ pc \notin {"text", "lost"}
  BY DEF Sending, Texting
<1>2. /\ jobs[j].row \in DOMAIN rows /\ texts \in Seq(TextRow) /\ accepted \in Seq(Nat)
      /\ t \in DOMAIN texts /\ t # 0 /\ t \in Nat
  BY <1>1, TextOf
<1>3. /\ texts' \in Seq(TextRow) /\ DOMAIN texts' = DOMAIN texts /\ Len(texts') = Len(texts)
      /\ \A s \in DOMAIN texts : texts'[s] = IF s = t THEN text ELSE texts[s]
  BY <1>2, Replaced
<1>4. TextsType' /\ Len(texts') >= Len(texts)
  BY <1>2, <1>3 DEF TextsType
<1>5. PICK to : to = [jobs[j] EXCEPT !.pc = pc]
  OBVIOUS
<1>6. Advances(j, to) /\ to.pc = pc /\ to.log = t /\ to.row = jobs[j].row
  BY <1>1, <1>4, <1>5, Goes
<1>7. Taken(t)' <=> Taken(t)
  BY DEF Taken
<1>8. TextMoves(j, to, t)
  <2>1. jobs' = [jobs EXCEPT ![j] = to]
    BY <1>6 DEF Advances
  <2>2. TextAt(to.pc, texts'[t], Taken(t)') /\ (to.pc = "done" /\ to.row \notin troubled' => Outcome(texts'[t], Taken(t)'))
    BY <1>2, <1>3, <1>6, <1>7 DEF TextAt, Outcome
  <2>3. QED BY <1>1, <1>2, <1>3, <1>6, <2>1, <2>2 DEF TextMoves
<1>9. TakenInv'
  <2>1. \A s \in DOMAIN texts : texts'[s].job = texts[s].job
    BY <1>2, <1>1, <1>3, TextOf
  <2>2. TakenKept
    BY <1>6, <2>1, Advanced DEF IInv, TakenKept, Grows, Advances
  <2>3. QED BY <2>2, KeptTaken DEF IInv
<1>10. QED BY <1>2, <1>6, <1>8, <1>9, AdvancedText

(* A statement on the log that fails, and one that does not. *)
LEMMA LogFails ==
  ASSUME IInv, NEW j \in DOMAIN jobs, jobs[j].pc \in Sending, NEW pc \in {"done", "give_up"}, Fails(j, pc),
         UNCHANGED <<rows, history, feed, texts, accepted, raced, torn>>
  PROVE  IInv'
<1>1. jobs[j].pc \in Texting /\ jobs[j].pc # "text"
  BY DEF Sending, Texting
<1>2. PICK t : t = jobs[j].log
  OBVIOUS
<1>3. /\ jobs[j].row \in DOMAIN rows /\ texts \in Seq(TextRow) /\ t \in DOMAIN texts /\ texts[t].job = j
      /\ texts[t].st = "sent" => Taken(t)
  BY <1>1, <1>2, TextOf DEF TextAt
<1>4. texts[t] \in TextRow /\ texts' = [texts EXCEPT ![t] = texts[t]]
  BY <1>3
<1>5. Goto(j, pc) /\ troubled' = troubled \cup {jobs[j].row}
  BY DEF Fails
<1>6. TextAt(pc, texts[t], Taken(t))
  BY <1>3 DEF TextAt
<1>7. PICK text : text = texts[t]
  OBVIOUS
<1>8. /\ text \in TextRow /\ text.job = j /\ texts' = [texts EXCEPT ![t] = text] /\ TextAt(pc, text, Taken(t))
      /\ troubled \subseteq troubled' /\ troubled' \subseteq troubled \cup {jobs[j].row} /\ jobs[j].row \in troubled'
      /\ pc \in {"done", "count", "give_up"}
  BY <1>3, <1>4, <1>5, <1>6, <1>7
<1>9. QED BY <1>2, <1>5, <1>8, LogStep

LEMMA LogMarks ==
  ASSUME IInv, NEW j \in DOMAIN jobs, jobs[j].pc \in Sending, NEW pc \in {"done", "count"}, Goto(j, pc),
         NEW st \in {"sent", "failed"}, Mark(j, st), st = "sent" => Taken(jobs[j].log),
         pc = "count" => st = "failed" /\ jobs[j].pc = "refused",
         pc = "done" => (st = "sent" /\ jobs[j].pc = "sent") \/ jobs[j].row \in troubled,
         UNCHANGED <<rows, history, feed, accepted, raced, torn, troubled>>
  PROVE  IInv'
<1>1. jobs[j].pc \in Texting /\ jobs[j].pc # "text"
  BY DEF Sending, Texting
<1>2. PICK t : t = jobs[j].log
  OBVIOUS
<1>3. /\ texts \in Seq(TextRow) /\ t \in DOMAIN texts /\ texts[t].job = j /\ TextAt(jobs[j].pc, texts[t], Taken(t))
  BY <1>1, <1>2, TextOf
<1>4. PICK text : text = [texts[t] EXCEPT !.st = st]
  OBVIOUS
<1>5. texts[t] \in TextRow
  BY <1>3
<1>6. text \in TextRow /\ text.job = j /\ text.st = st /\ text.retries = texts[t].retries
  BY <1>3, <1>4, <1>5 DEF TextRow
<1>7. texts' = [texts EXCEPT ![t] = text]
  BY <1>2, <1>4 DEF Mark
<1>8. TextAt(pc, text, Taken(t))
  BY <1>2, <1>3, <1>6 DEF TextAt
<1>9. pc = "done" /\ jobs[j].row \notin troubled => Outcome(text, Taken(t))
  BY <1>2, <1>3, <1>6 DEF TextAt, Outcome
<1>10. QED BY <1>2, <1>6, <1>7, <1>8, <1>9, LogStep

LEMMA UpdateLogStep ==
  ASSUME IInv, NEW j \in DOMAIN jobs, UpdateLog(j)
  PROVE  IInv'
<1>1. UNCHANGED <<rows, history, feed, accepted, raced, torn>> /\ jobs[j].pc \in Sending
  BY DEF UpdateLog, Sending, Texting
<1>2. jobs[j].pc = "sent" => Taken(jobs[j].log)
  BY TextOf DEF TextAt, Texting
<1>3. CASE jobs[j].pc = "sent" /\ Mark(j, "sent") /\ Goto(j, "done") /\ UNCHANGED <<stumbles, troubled>>
  BY <1>1, <1>2, <1>3, LogMarks
<1>4. CASE jobs[j].pc = "refused" /\ Mark(j, "failed") /\ Goto(j, "count") /\ UNCHANGED <<stumbles, troubled>>
  BY <1>1, <1>4, LogMarks
<1>5. CASE Fails(j, "give_up") /\ UNCHANGED texts
  BY <1>1, <1>5, LogFails
<1>6. QED BY <1>3, <1>4, <1>5 DEF UpdateLog

LEMMA IncrementStep ==
  ASSUME IInv, NEW j \in DOMAIN jobs, IncrementRetryCount(j)
  PROVE  IInv'
<1>1. UNCHANGED <<rows, history, feed, accepted, raced, torn>> /\ jobs[j].pc \in Sending /\ jobs[j].pc = "count"
  BY DEF IncrementRetryCount, Sending, Texting
<1>2. CASE Fails(j, "give_up") /\ UNCHANGED texts
  BY <1>1, <1>2, LogFails
<1>3. CASE texts' = [texts EXCEPT ![jobs[j].log].retries = @ + 1] /\ Goto(j, "done") /\ UNCHANGED <<stumbles, troubled>>
  <2>1. PICK t : t = jobs[j].log
    OBVIOUS
  <2>2. /\ texts \in Seq(TextRow) /\ t \in DOMAIN texts /\ texts[t].job = j
        /\ texts[t].st = "failed" /\ texts[t].retries = 0 /\ ~Taken(t)
    BY <1>1, <2>1, TextOf DEF TextAt, Texting
  <2>3. PICK text : text = [texts[t] EXCEPT !.retries = @ + 1]
    OBVIOUS
  <2>4. texts[t] \in TextRow
    BY <2>2
  <2>5. text \in TextRow /\ text.job = j /\ text.st = "failed" /\ text.retries = 1
    BY <2>2, <2>3, <2>4 DEF TextRow
  <2>6. texts' = [texts EXCEPT ![t] = text]
    BY <1>3, <2>1, <2>3
  <2>7. TextAt("done", text, Taken(t)) /\ Outcome(text, Taken(t))
    BY <2>2, <2>5 DEF TextAt, Outcome
  <2>8. QED BY <1>1, <1>3, <2>1, <2>5, <2>6, <2>7, LogStep
<1>4. QED BY <1>2, <1>3 DEF IncrementRetryCount

LEMMA GiveUpStep ==
  ASSUME IInv, NEW j \in DOMAIN jobs, GiveUp(j)
  PROVE  IInv'
<1>1. UNCHANGED <<rows, history, feed, accepted, raced, torn>> /\ jobs[j].pc \in Sending /\ jobs[j].pc = "give_up"
  BY DEF GiveUp, Sending, Texting
<1>2. jobs[j].row \in troubled
  BY <1>1 DEF IInv, TextsInv
<1>3. CASE Mark(j, "failed") /\ Goto(j, "done") /\ UNCHANGED <<stumbles, troubled>>
  BY <1>1, <1>2, <1>3, LogMarks
<1>4. CASE Fails(j, "done") /\ UNCHANGED texts
  BY <1>1, <1>4, LogFails
<1>5. QED BY <1>3, <1>4 DEF GiveUp

(***************************************************************************)
(* The voice agent's steps, and the event.                                 *)
(***************************************************************************)
LEMMA ProceedsKeeps ==
  ASSUME IInv, NEW j \in DOMAIN jobs, Proceeds(j), TypeInv', UNCHANGED <<texts, accepted>>
  PROVE  IInv'
<1>1. TypeInv /\ JobsType'
  BY DEF IInv, TypeInv
<1>2. jobs[j].log = 0 /\ jobs'[j].log = 0 /\ jobs'[j].pc \notin Sending \cup {"lost"}
  BY <1>1 DEF TypeInv, JobsType, JobFits, Fits, Proceeds, Untold, Waiting, Sending, Texting
<1>3. TextsKept
  BY <1>1, <1>2, ProceedsFacts DEF TextsKept, KeepsText, Proceeds
<1>4. TextsInv' /\ TakenInv'
  BY <1>1, <1>3, KeptTexts, KeptTaken, KeptTakenToo DEF IInv
<1>5. QED BY <1>1, <1>4, ProceedsQueue, ProceedsTorn, ProceedsChain, ProceedsEvent, ProceedsNews DEF IInv

LEMMA VoiceWriteStep ==
  ASSUME IInv, NEW j \in DOMAIN jobs, VoiceWrite(j)
  PROVE  IInv'
<1> DEFINE job == jobs[j]
           to  == [jobs[j] EXCEPT !.pc = "reread"]
           row == [rows[job.row] EXCEPT !.status = job.new]
<1>1. /\ TypeInv /\ job \in JobRow /\ Fits(job, DOMAIN rows, Len(texts)) /\ rows \in Seq(Row) /\ texts \in Seq(TextRow)
  BY DEF IInv, TypeInv, JobsType, JobFits, RowsType, TextsType
<1>2. /\ job.pc = "write" /\ job.new \in {None, "cancelled"} /\ job.row \in DOMAIN rows
  BY <1>1 DEF VoiceWrite, Fits
<1>3. UNCHANGED <<history, feed, texts, accepted, troubled, raced, torn>> /\ jobs' = [jobs EXCEPT ![j] = to]
  BY DEF VoiceWrite, Tables
<1>4. /\ RowsType' /\ DOMAIN rows' = DOMAIN rows
      /\ \A s \in DOMAIN rows : rows'[s].kind = rows[s].kind /\ (s # job.row => rows'[s].status = rows[s].status)
  <2>1. CASE rows' = rows
    BY <1>1, <2>1 DEF TypeInv, RowsType
  <2>2. CASE rows' = [rows EXCEPT ![job.row] = row] /\ job.new = "cancelled"
    <3>1. rows[job.row] \in Row /\ "cancelled" \in Statuses(rows[job.row].kind) /\ "cancelled" \in Status
      BY <1>1, <1>2 DEF Statuses, Status
    <3>2. row \in Row /\ row.kind = rows[job.row].kind /\ row.status = "cancelled"
      BY <2>2, <3>1 DEF Row
    <3>3. /\ rows' \in Seq(Row) /\ DOMAIN rows' = DOMAIN rows
          /\ \A s \in DOMAIN rows : rows'[s] = IF s = job.row THEN row ELSE rows[s]
      BY <1>1, <1>2, <2>2, <3>2, Replaced
    <3>4. QED BY <1>1, <3>1, <3>2, <3>3 DEF TypeInv, RowsType
  <2>3. QED BY <1>2, <2>1, <2>2 DEF VoiceWrite
<1>5. /\ to \in JobRow /\ to.row = job.row /\ to.old = job.old /\ to.new = job.new /\ to.action = job.action
      /\ to.subtype = job.subtype /\ to.text = job.text /\ to.log = job.log /\ to.pc = "reread"
  BY <1>1 DEF JobRow, Untold, Waiting
<1>6. Fits(to, DOMAIN rows', Len(texts'))
  BY <1>1, <1>2, <1>3, <1>4, <1>5 DEF Fits, Untold, Waiting, Texting
<1>7. /\ JobsType' /\ DOMAIN jobs' = DOMAIN jobs /\ jobs'[j] = to
      /\ \A k \in DOMAIN jobs : k # j => jobs'[k] = jobs[k]
  <2>1. Len(texts') \in Nat /\ Len(texts') >= Len(texts) /\ DOMAIN rows' = DOMAIN rows
    BY <1>1, <1>3, <1>4, <1>5, <1>6
  <2>2. QED BY <1>1, <1>3, <1>4, <1>5, <1>6, <2>1, JobReplaced
<1>8. TypeInv'
  BY <1>1, <1>3, <1>4, <1>7, StepTyped DEF TypeInv, TextsType, MarksType
<1>9. Proceeds(j)
  BY <1>2, <1>3, <1>4, <1>5, <1>7 DEF Proceeds, Grows
<1>10. QED BY <1>3, <1>8, <1>9, ProceedsKeeps

LEMMA VoiceRereadStep ==
  ASSUME IInv, NEW j \in DOMAIN jobs, VoiceReread(j)
  PROVE  IInv'
<1> DEFINE job == jobs[j]
           now == rows[job.row].status
           subtype == IF rows[job.row].kind = "order" THEN "order_updated" ELSE ReservationNews(now)
<1>1. /\ TypeInv /\ job \in JobRow /\ Fits(job, DOMAIN rows, Len(texts)) /\ rows \in Seq(Row) /\ texts \in Seq(TextRow)
  BY DEF IInv, TypeInv, JobsType, JobFits, RowsType, TextsType
<1>2. /\ job.pc = "reread" /\ job.row \in DOMAIN rows /\ job.text = None /\ job.action = "updated" /\ job.old \in Status
  BY <1>1 DEF VoiceReread, Fits
<1>t. PICK to : to = [jobs[j] EXCEPT !.new = now, !.pc = "history", !.subtype = subtype]
  OBVIOUS
<1>3. UNCHANGED <<rows, history, feed, texts, accepted, troubled, raced, torn>> /\ jobs' = [jobs EXCEPT ![j] = to]
  BY <1>t DEF VoiceReread, Tables
<1>4. rows[job.row] \in Row
  BY <1>1, <1>2
<1>5. /\ to \in JobRow /\ to.row = job.row /\ to.old = job.old /\ to.new = now /\ to.action = job.action
      /\ to.text = job.text /\ to.log = job.log /\ to.pc = "history" /\ to.subtype = subtype
  BY <1>t, <1>1, <1>4 DEF JobRow, Row, Untold, Waiting, Subtypes, ReservationNews
<1>6. Fits(to, DOMAIN rows', Len(texts'))
  <2>1. subtype # "new_order" /\ now \in Status
    BY <1>4 DEF ReservationNews, Row
  <2>2. QED BY <1>1, <1>2, <1>3, <1>5, <2>1 DEF Fits, Untold, Waiting, Texting
<1>7. /\ JobsType' /\ DOMAIN jobs' = DOMAIN jobs /\ jobs'[j] = to
      /\ \A k \in DOMAIN jobs : k # j => jobs'[k] = jobs[k]
  <2>1. Len(texts') \in Nat /\ Len(texts') >= Len(texts) /\ DOMAIN rows' = DOMAIN rows
    BY <1>1, <1>3, <1>5, <1>6
  <2>2. QED BY <1>1, <1>3, <1>5, <1>6, <2>1, JobReplaced
<1>8. TypeInv'
  BY <1>1, <1>3, <1>7, StepTyped DEF TypeInv, RowsType, TextsType, MarksType
<1>9. Proceeds(j)
  BY <1>2, <1>3, <1>5, <1>7 DEF Proceeds, Grows
<1>10. QED BY <1>3, <1>8, <1>9, ProceedsKeeps

LEMMA EmitEventStep ==
  ASSUME IInv, NEW j \in DOMAIN jobs, EmitEvent(j)
  PROVE  IInv'
<1> DEFINE job == jobs[j]
           event == [row |-> job.row, subtype |-> job.subtype, status |-> job.new]
<1>1. /\ TypeInv /\ job \in JobRow /\ Fits(job, DOMAIN rows, Len(texts)) /\ texts \in Seq(TextRow)
      /\ feed \in Seq(EventRow)
  BY DEF IInv, TypeInv, JobsType, JobFits, TextsType, FeedType
<1>2. job.pc = "event" /\ job.row \in DOMAIN rows /\ job.new \in Status
  BY <1>1 DEF EmitEvent, Fits
<1>t. PICK to : to = [jobs[j] EXCEPT !.pc = "note"]
  OBVIOUS
<1>3. /\ UNCHANGED <<rows, history, texts, accepted, troubled, raced, torn>> /\ jobs' = [jobs EXCEPT ![j] = to]
      /\ feed' = Append(feed, event)
  BY <1>t DEF EmitEvent
<1>4. /\ to \in JobRow /\ to.row = job.row /\ to.old = job.old /\ to.new = job.new /\ to.action = job.action
      /\ to.subtype = job.subtype /\ to.text = job.text /\ to.log = job.log /\ to.pc = "note"
  BY <1>t, <1>1 DEF JobRow
<1>5. Fits(to, DOMAIN rows', Len(texts'))
  BY <1>1, <1>2, <1>3, <1>4 DEF Fits, Untold, Waiting, Texting
<1>6. /\ JobsType' /\ DOMAIN jobs' = DOMAIN jobs /\ jobs'[j] = to
      /\ \A k \in DOMAIN jobs : k # j => jobs'[k] = jobs[k]
  <2>1. Len(texts') \in Nat /\ Len(texts') >= Len(texts) /\ DOMAIN rows' = DOMAIN rows
    BY <1>1, <1>3, <1>4, <1>5
  <2>2. QED BY <1>1, <1>3, <1>4, <1>5, <2>1, JobReplaced
<1>7. FeedType'
  <2>1. event \in EventRow
    BY <1>1, <1>2 DEF EventRow, JobRow
  <2>2. \A k \in DOMAIN feed' : feed'[k].row \in DOMAIN rows
    BY <1>1, <1>2, <1>3, <2>1, Added DEF TypeInv, FeedType
  <2>3. QED BY <1>1, <1>3, <2>1, <2>2, Added DEF FeedType
<1>8. TypeInv'
  BY <1>1, <1>3, <1>6, <1>7 DEF TypeInv, RowsType, HistoryType, TextsType, MarksType
<1>9. Proceeds(j)
  BY <1>2, <1>3, <1>4, <1>6 DEF Proceeds, Grows
<1>10. QED BY <1>3, <1>8, <1>9, ProceedsKeeps

LEMMA VoiceHistoryStep ==
  ASSUME IInv, NEW j \in DOMAIN jobs, VoiceHistory(j)
  PROVE  IInv'
<1> DEFINE job == jobs[j]
<1>1. /\ TypeInv /\ job \in JobRow /\ Fits(job, DOMAIN rows, Len(texts)) /\ texts \in Seq(TextRow)
      /\ history \in Seq(HistoryRow) /\ jobs \in Seq(JobRow)
  BY DEF IInv, TypeInv, JobsType, JobFits, TextsType, HistoryType
<1>2. /\ job.pc = "history" /\ job.row \in DOMAIN rows /\ job.new \in Status /\ job.action \in {"created", "updated"}
      /\ job.action = "created" => job.old = None
  BY <1>1 DEF VoiceHistory, Fits, Waiting
<1>3. Entry(job) = Entered(job)
  BY <1>2 DEF Entry, Entered, CreatedEntry, UpdatedEntry
<1>4. /\ UNCHANGED <<rows, feed, texts, accepted, raced, torn>> /\ troubled \subseteq troubled'
      /\ troubled' \subseteq troubled \cup {job.row}
      /\ history' = Append(history, Entered(job)) \/ (history' = history /\ job.row \in troubled')
  <2>1. Logged(Entered(job)) /\ Entered(job).row = job.row
    BY <1>3 DEF VoiceHistory, Entered
  <2>2. QED BY <2>1 DEF VoiceHistory, Tables, Logged
<1>5. Records(j)
  BY <1>2, <1>4 DEF Records, VoiceHistory, Grows
<1>6. HistoryType'
  <2>1. Entered(job) \in HistoryRow /\ Entered(job).row = job.row
    BY <1>1, <1>2 DEF Entered, HistoryRow, JobRow
  <2>2. CASE history' = history
    BY <1>1, <1>4, <2>2 DEF TypeInv, HistoryType
  <2>3. CASE history' = Append(history, Entered(job))
    BY <1>1, <1>2, <1>4, <2>1, <2>3, Added DEF TypeInv, HistoryType
  <2>4. QED BY <1>4, <2>2, <2>3
<1>7. JobsType'
  <2> DEFINE to   == [job EXCEPT !.pc = "event", !.text = None]
             text == VoiceText(job)
             told == [jobs EXCEPT ![j] = to]
  <2>1. /\ to \in JobRow /\ to.row = job.row /\ to.old = job.old /\ to.new = job.new /\ to.action = job.action
        /\ to.subtype = job.subtype /\ to.text = None /\ to.log = job.log /\ to.pc = "event"
    BY <1>1 DEF JobRow, Untold
  <2>2. /\ text \in JobRow /\ text.row = job.row /\ text.old = job.old /\ text.new = job.new /\ text.action = "text"
        /\ text.subtype = "none" /\ text.text = job.text /\ text.log = job.log /\ text.pc = "text"
    BY <1>1 DEF JobRow, VoiceText, Actions, Subtypes, Texting
  <2>3. Fits(to, DOMAIN rows, Len(texts))
    BY <1>1, <1>2, <2>1 DEF Fits, Untold, Waiting, Texting
  <2>4. job.text # None => Fits(text, DOMAIN rows, Len(texts))
    <3>1. job.text # None => job.old = None
      BY <1>1, <1>2 DEF Fits
    <3>2. QED BY <1>1, <1>2, <2>2, <3>1 DEF Fits, Untold, Waiting, Texting
  <2>5. /\ told \in Seq(JobRow) /\ DOMAIN told = DOMAIN jobs /\ Len(told) = Len(jobs)
        /\ \A k \in DOMAIN jobs : told[k] = IF k = j THEN to ELSE jobs[k]
    BY <1>1, <2>1, Replaced
  <2>6. \A k \in DOMAIN told : Fits(told[k], DOMAIN rows, Len(texts))
    BY <1>1, <2>3, <2>5 DEF TypeInv, JobsType, JobFits
  <2>7. jobs' = IF job.text = None THEN told ELSE Append(told, text)
    BY DEF VoiceHistory
  <2>8. jobs' \in Seq(JobRow) /\ \A k \in DOMAIN jobs' : Fits(jobs'[k], DOMAIN rows, Len(texts))
    <3>1. CASE job.text = None
      BY <2>5, <2>6, <2>7, <3>1
    <3>2. CASE job.text # None
      BY <2>2, <2>4, <2>5, <2>6, <2>7, <3>2, Added
    <3>3. QED BY <3>1, <3>2
  <2>9. QED BY <1>4, <2>8 DEF JobsType, JobFits
<1>8. TypeInv'
  BY <1>1, <1>2, <1>4, <1>6, <1>7 DEF TypeInv, RowsType, FeedType, TextsType, MarksType
<1>n. PICK n : RecordedJobs(j, n)
  BY <1>1, <1>5, RecordsJobs
<1>9. TextsKept
  <2>1. /\ DOMAIN jobs \subseteq DOMAIN jobs' /\ \A k \in DOMAIN jobs : k # j => jobs'[k] = jobs[k]
        /\ jobs'[j].row = job.row /\ jobs'[j].pc = "event"
        /\ \A k \in DOMAIN jobs' \ DOMAIN jobs : jobs'[k].pc = "text"
    BY <1>n DEF RecordedJobs
  <2>2. job.log = 0 /\ \A k \in DOMAIN jobs' : jobs'[k].pc \in {"event", "text"} => jobs'[k].log = 0
    BY <1>1, <1>2, <1>7 DEF JobsType, JobFits, Fits, Untold, Waiting
  <2>3. \A k \in DOMAIN jobs : KeepsText(jobs[k], jobs'[k])
    BY <2>1, <2>2 DEF KeepsText, Sending, Texting
  <2>4. QED BY <1>4, <2>1, <2>2, <2>3 DEF TextsKept, Grows, Sending, Texting
<1>10. TextsInv' /\ TakenInv'
  BY <1>1, <1>9, KeptTexts, KeptTaken, KeptTakenToo DEF IInv
<1>11. QED BY <1>1, <1>5, <1>8, <1>10, RecordsQueue, RecordsTorn, RecordsChain, RecordsEvent, RecordsNews DEF IInv

(***************************************************************************)
(* The invariant.                                                          *)
(***************************************************************************)
LEMMA InitInv == DeskInit => IInv
BY DEF DeskInit, IInv, TypeInv, RowsType, JobsType, HistoryType, FeedType, TextsType, MarksType, TextsInv, QueueInv,
       ChainInv, TornInv, EventInv, NewsInv, TakenInv

LEMMA StutterInv ==
  ASSUME IInv, UNCHANGED deskVars
  PROVE  IInv'
<1>1. UNCHANGED <<rows, history, jobs, feed, texts, accepted, troubled, raced, torn>>
  BY DEF deskVars
<1>2. TypeInv /\ TypeInv'
  BY <1>1 DEF IInv, TypeInv, RowsType, JobsType, JobFits, HistoryType, FeedType, TextsType, MarksType
<1>3. Quiet /\ TextsKept
  BY <1>1 DEF Quiet, GoesOn, Grows, TextsKept, KeepsText
<1>4. TextsInv' /\ TakenInv'
  BY <1>2, <1>3, KeptTexts, KeptTaken, KeptTakenToo DEF IInv
<1>5. QED BY <1>2, <1>3, <1>4, QuietKeeps

LEMMA NextInv ==
  ASSUME IInv, DeskNext
  PROVE  IInv'
<1>1. TypeInv
  BY DEF IInv
<1>2. ASSUME NEW kind \in {"order", "reservation"}, VoiceCreate(kind)
      PROVE  IInv'
  BY <1>1, <1>2, VoiceCreateStep, RequestKeeps
<1>3. ASSUME NEW status \in WantedOf("order"), NEW phone \in BOOLEAN, CreateOrder(status, phone)
      PROVE  IInv'
  BY <1>1, <1>3, CreateOrderStep, RequestKeeps DEF WantedOf
<1>4. CASE CreateReservationDirect
  BY <1>1, <1>4, CreateReservationStep, RequestKeeps
<1>5. ASSUME NEW r \in DOMAIN rows, CancelOrder(r) \/ CancelReservation(r) \/ FinalizeReservation(r)
      PROVE  IInv'
  BY <1>1, <1>5, CancelOrderStep, CancelReservationStep, FinalizeStep, RequestKeeps
<1>6. ASSUME NEW r \in DOMAIN rows, SoftDelete(r) \/ Restore(r)
      PROVE  IInv'
  BY <1>6, DeletedStep
<1>7. ASSUME NEW r \in DOMAIN rows, NEW status \in WantedOf(rows[r].kind), PutStatus(r, status)
      PROVE  IInv'
  BY <1>1, <1>7, PutStatusStep, RequestKeeps
<1>8. ASSUME NEW r \in DOMAIN rows, NEW status \in WantedOf(rows[r].kind) \cup {None},
             UpdateOrder(r, status) \/ UpdateReservation(r, status)
      PROVE  IInv'
  BY <1>1, <1>8, UpdateOrderStep, UpdateReservationStep, RequestKeeps
<1>9. ASSUME NEW r \in DOMAIN rows, NEW status \in {None, "cancelled"}, VoiceEdit(r, status)
      PROVE  IInv'
  BY <1>1, <1>9, VoiceEditStep, RequestKeeps
<1>10. ASSUME NEW j \in DOMAIN jobs, JobStep(j)
       PROVE  IInv'
  BY <1>10, VoiceWriteStep, VoiceRereadStep, VoiceHistoryStep, EmitEventStep, CreateNotificationStep, CreateLogStep,
     SendTextStep, UpdateLogStep, IncrementStep, GiveUpStep DEF JobStep
<1>11. CASE Stop
  BY <1>11, StopStep
<1>12. QED BY <1>2, <1>3, <1>4, <1>5, <1>6, <1>7, <1>8, <1>9, <1>10, <1>11 DEF DeskNext

LEMMA Invariant == DeskSpec => []IInv
<1>1. IInv /\ [DeskNext]_deskVars => IInv'
  BY NextInv, StutterInv
<1>2. QED BY InitInv, <1>1, PTL DEF DeskSpec

(***************************************************************************)
(* The theorems.                                                           *)
(***************************************************************************)
LEMMA TruthFollows ==
  ASSUME IInv
  PROVE  LogTellsTruth
<1>1. accepted \in Seq(Nat) /\ TextsInv
  BY DEF IInv, TypeInv, TextsType
<1>2. IsInjective(accepted)
  BY <1>1 DEF IsInjective, TextsInv
<1>3. \A t : Contains(accepted, t) <=> Taken(t)
  BY <1>1 DEF Contains, Taken
<1>4. ASSUME NEW t \in DOMAIN texts
      PROVE  /\ texts[t].st = "sent" => Taken(t)
             /\ jobs[texts[t].job].pc = "done" /\ jobs[texts[t].job].row \notin troubled =>
                  /\ texts[t].st = (IF Taken(t) THEN "sent" ELSE "failed")
                  /\ texts[t].retries = (IF Taken(t) THEN 0 ELSE 1)
  <2>1. texts[t].job \in DOMAIN jobs /\ jobs[texts[t].job].log = t /\ t # 0
    BY <1>1 DEF TextsInv, IInv, TypeInv, TextsType
  <2>2. QED BY <1>1, <2>1 DEF TextsInv, TextAt, Outcome
<1>5. QED BY <1>2, <1>3, <1>4 DEF LogTellsTruth

LEMMA ChainsFollow ==
  ASSUME IInv
  PROVE  HistoryChains
<1>1. history \in Seq(HistoryRow) /\ feed \in Seq(EventRow)
  BY DEF IInv, TypeInv, HistoryType, FeedType
<1>2. ASSUME NEW r \in DOMAIN rows \ (troubled \cup raced), NEW i \in EntriesOf(r), NEW k \in EntriesOf(r), i < k,
             \A m \in EntriesOf(r) : m <= i \/ k <= m
      PROVE  Follows(r, history[i].new, history[k].old)
  BY <1>2 DEF IInv, ChainInv, EntriesOf, Calm
<1>3. ASSUME NEW r \in torn
      PROVE  /\ \A h \in Range(history) : h.row = r => h.action # "created"
             /\ \A f \in Range(feed) : f.row = r => f.subtype # "new_order"
             /\ \A j \in DOMAIN jobs : jobs[j].row = r => jobs[j].action # "created"
  BY <1>1 DEF IInv, TornInv, Range
<1>4. QED BY <1>2, <1>3 DEF HistoryChains

LEMMA OrderFollows ==
  ASSUME IInv
  PROVE  ToldInOrder
<1>1. /\ feed \in Seq(EventRow) /\ accepted \in Seq(Nat) /\ jobs \in Seq(JobRow) /\ texts \in Seq(TextRow)
      /\ \A j \in DOMAIN jobs : Fits(jobs[j], DOMAIN rows, Len(texts))
  BY DEF IInv, TypeInv, FeedType, TextsType, JobsType, JobFits
<1>0. /\ DOMAIN feed = 1..Len(feed) /\ Len(feed) \in Nat
      /\ DOMAIN accepted = 1..Len(accepted) /\ Len(accepted) \in Nat
      /\ DOMAIN jobs = 1..Len(jobs) /\ Len(jobs) \in Nat
      /\ DOMAIN texts = 1..Len(texts) /\ Len(texts) \in Nat
  BY <1>1
<1>2. ASSUME NEW r \in DOMAIN rows \ (troubled \cup raced), ActiveOf(r) = {}
      PROVE  LET e == SelectLastInSeq(feed, LAMBDA f : f.row = r)
                 t == SelectLastInSeq(accepted, LAMBDA a : jobs[texts[a].job].row = r)
                 last == jobs[LastChange(r)]
             IN /\ e # 0
                /\ Follows(r, feed[e].status, rows[r].status)
                /\ last.log # 0 /\ Contains(accepted, last.log) =>
                     jobs[texts[accepted[t]].job].text = rows[r].status
  <2> DEFINE E == {i \in 1..Len(feed) : feed[i].row = r}
             A == {i \in 1..Len(accepted) : jobs[texts[accepted[i]].job].row = r}
             C == {j \in DOMAIN jobs : jobs[j].row = r /\ jobs[j].old # jobs[j].new}
             last == jobs[Max(C)]
  <2>1. Calm(r)
    BY <1>2 DEF Calm
  <2>2. \A j \in DOMAIN jobs : jobs[j].row = r => jobs[j].pc = "done"
    <3>1. \A j \in DOMAIN jobs : jobs[j].row = r => jobs[j].pc \in {"done", "lost"}
      BY <1>2 DEF ActiveOf, Active
    <3>2. QED BY <1>2, <3>1 DEF IInv, TextsInv
  <2>3. Unsent(r) = {}
    BY <2>2 DEF Unsent, Untold, Waiting
  <2>4. E # {} /\ Len(feed) \in Nat /\ E \subseteq 1..Len(feed)
    <3>1. PICK k \in DOMAIN feed : feed[k].row = r
      BY <1>2, <2>1, <2>3 DEF IInv, EventInv
    <3>2. k \in E
      BY <1>0, <3>1
    <3>3. QED BY <1>0, <3>2
  <2>5. Max(E) \in E /\ \A y \in E : y <= Max(E)
    BY <2>4, GreatestOf
  <2>6. Max(E) # 0 /\ Follows(r, feed[Max(E)].status, rows[r].status)
    <3>1. NewestEvent(Max(E))
      BY <1>1, <2>5 DEF NewestEvent
    <3>2. QED BY <1>1, <2>1, <2>3, <2>5, <3>1 DEF IInv, EventInv
  <2>7. C # {} /\ Len(jobs) \in Nat /\ C \subseteq 1..Len(jobs)
    <3>1. PICK j \in DOMAIN jobs : jobs[j].row = r /\ jobs[j].action = "created"
      BY <1>2 DEF IInv, NewsInv
    <3>2. jobs[j].old = None /\ jobs[j].new \in Status
      BY <1>1, <2>2, <3>1 DEF Fits
    <3>3. None \notin Status
      BY DeskAssumption DEF Status, Statuses
    <3>4. QED BY <1>1, <3>1, <3>2, <3>3
  <2>8. Max(C) \in C /\ \A y \in C : y <= Max(C)
    BY <2>7, GreatestOf
  <2>9. ASSUME last.log # 0, Contains(accepted, last.log)
        PROVE  jobs[texts[accepted[Max(A)]].job].text = rows[r].status
    <3>1. PICK a \in DOMAIN accepted : accepted[a] = last.log
      BY <1>0, <2>9 DEF Contains
    <3>2. texts[accepted[a]].job = Max(C)
      BY <2>8, <2>9, <3>1 DEF IInv, TextsInv
    <3>3. a \in A /\ Len(accepted) \in Nat /\ A \subseteq 1..Len(accepted)
      BY <1>1, <2>8, <3>1, <3>2
    <3>4. Max(A) \in A /\ a <= Max(A)
      BY <3>3, GreatestOf
    <3>5. PICK m : m = Max(A)
      OBVIOUS
    <3>6. PICK j : j = texts[accepted[m]].job
      OBVIOUS
    <3>7. m \in DOMAIN accepted /\ jobs[j].row = r /\ accepted[m] \in DOMAIN texts
      <4>1. m \in 1..Len(accepted) /\ jobs[texts[accepted[m]].job].row = r
        BY <3>4, <3>5
      <4>2. QED BY <1>0, <3>6, <4>1 DEF IInv, TextsInv
    <3>8. j \in DOMAIN jobs /\ jobs[j].log = accepted[m] /\ accepted[m] # 0
      BY <1>1, <3>6, <3>7 DEF IInv, TextsInv
    <3>9. Max(C) <= j
      <4>1. CASE a = m
        BY <1>1, <2>8, <3>2, <3>6, <4>1
      <4>2. CASE a # m
        <5>1. a < m
          <6>1. a \in Nat /\ m \in Nat
            BY <1>0, <3>1, <3>7
          <6>2. a <= m
            BY <3>4, <3>5
          <6>3. QED BY <4>2, <6>1, <6>2
        <5>2. Max(C) < j
          BY <2>1, <2>8, <3>2, <3>6, <3>7, <5>1 DEF IInv, TakenInv
        <5>3. QED BY <1>1, <2>8, <3>8, <5>2
      <4>3. QED BY <4>1, <4>2
    <3>10. jobs[j].text # None
      BY <1>1, <3>8 DEF Fits
    <3>11. \A k \in DOMAIN jobs : k > j /\ jobs[k].row = r => ~Changes(jobs[k])
      <4>1. SUFFICES ASSUME NEW k \in DOMAIN jobs, k > j, jobs[k].row = r, Changes(jobs[k])
                     PROVE  FALSE
        OBVIOUS
      <4>2. k \in C
        BY <2>2, <4>1 DEF Changes
      <4>3. k <= Max(C) /\ Max(C) \in Nat /\ k \in Nat /\ j \in Nat
        <5>1. k <= Max(C)
          BY <2>8, <4>2
        <5>2. Max(C) \in DOMAIN jobs
          BY <2>8
        <5>3. QED BY <1>0, <3>8, <4>1, <5>1, <5>2
      <4>4. QED BY <3>9, <4>1, <4>3
    <3>12. jobs[j].text = rows[r].status
      BY <2>1, <3>7, <3>8, <3>10, <3>11 DEF IInv, NewsInv
    <3>13. QED BY <3>5, <3>6, <3>12
  <2>10. SelectLastInSeq(feed, LAMBDA f : f.row = r) = Max(E)
    BY <2>4 DEF SelectLastInSeq
  <2>11. A # {} => SelectLastInSeq(accepted, LAMBDA a : jobs[texts[a].job].row = r) = Max(A)
    BY DEF SelectLastInSeq
  <2>12. last.log # 0 /\ Contains(accepted, last.log) => A # {}
    <3>1. ASSUME last.log # 0, NEW a \in 1..Len(accepted), accepted[a] = last.log
          PROVE  a \in A
      BY <2>8, <3>1 DEF IInv, TextsInv
    <3>2. QED BY <3>1 DEF Contains
  <2>13. LastChange(r) = Max(C)
    BY DEF LastChange
  <2>14. QED BY <2>6, <2>9, <2>10, <2>11, <2>12, <2>13
<1>3. QED BY <1>2 DEF ToldInOrder

(* What the rows, the tasks and the tables hold, and that a task's row and *)
(* log exist: the type invariant of the desk.                              *)
THEOREM DeskTypes == DeskSpec => []DeskTypeOK
<1>1. IInv => DeskTypeOK
  <2> SUFFICES ASSUME IInv PROVE DeskTypeOK
    OBVIOUS
  <2>1. \A r \in DOMAIN rows : rows[r].status \in Statuses(rows[r].kind)
    BY DEF IInv, TypeInv, RowsType
  <2>2. \A j \in DOMAIN jobs : jobs[j].row \in DOMAIN rows /\ jobs[j].log \in 0..Len(texts)
    BY DEF IInv, TypeInv, JobsType, JobFits, Fits
  <2>3. \A t \in DOMAIN texts : texts[t].st \in {"pending", "sent", "failed"}
    <3>1. texts \in Seq(TextRow)
      BY DEF IInv, TypeInv, TextsType
    <3>2. \A t \in DOMAIN texts : texts[t] \in TextRow
      BY <3>1
    <3>3. QED BY <3>2 DEF TextRow
  <2>4. raced \cup troubled \cup torn \subseteq DOMAIN rows
    BY DEF IInv, TypeInv, MarksType
  <2>5. QED BY <2>1, <2>2, <2>3, <2>4 DEF DeskTypeOK
<1>2. QED BY Invariant, <1>1, PTL

(* A row of Notification_Logs says what happened to its message, and no    *)
(* message is taken twice: send_and_log_sms, for any number of messages.   *)
THEOREM LogTold == DeskSpec => []LogTellsTruth
BY Invariant, TruthFollows, PTL

(* The history of a row is a chain, and an order whose creation failed is  *)
(* never said to be created: the handlers of dashboard_orders.py and       *)
(* dashboard_reservations.py and the voice agent's edits, together.        *)
THEOREM HistoryChained == DeskSpec => []HistoryChains
BY Invariant, ChainsFollow, PTL

(* The last event and the last text that was taken have the status of the  *)
(* row, when no request overtook another and nothing failed.               *)
THEOREM ToldOrder == DeskSpec => []ToldInOrder
BY Invariant, OrderFollows, PTL
===============================================================================
