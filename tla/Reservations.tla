---------------------------- MODULE Reservations ----------------------------
(***************************************************************************)
(* In-house reservations: Slot_Bookings and Reservations rows, written by  *)
(* the voice agent's threads (app/agent_fc/functions/reservations.py) and  *)
(* by the dashboard's and the public booking handlers                      *)
(* (app/services/reservation_service.py), which share the seats of a slot. *)
(*                                                                         *)
(* As in VoiceOrders the router awaits a handler under a timeout and       *)
(* retries it, a cancelled await does not stop its thread, each statement  *)
(* commits by itself, and a REST handler holds the loop from its first     *)
(* statement to its last while the threads go on.  The capacity of a slot  *)
(* is read in one statement and used in a later one, by everybody.         *)
(*                                                                         *)
(* A job <<c, k>> is the k-th attempt of call c, whichever request it is   *)
(* of.  The executor is not bounded here: a thread may begin late, or not  *)
(* at all once its await was cancelled.  Left out: users, opening hours,   *)
(* the advance booking limit and the update window (they refuse a request, *)
(* as Refuse and LookupRefused do), activity rows, texts.                  *)
(***************************************************************************)
EXTENDS Integers, FiniteSets, FiniteSetsExt

CONSTANTS
  Calls,       \* calls the process serves
  Callers,     \* phone numbers
  CallerOf,    \* the caller of a call
  MaxJobs,     \* bound: attempts made in one call
  Times,       \* date_time values of a booking
  MinuteOf,    \* a time without its seconds: what the capacity is read for
  Seats,       \* reservation_seating_capacity
  Parties,     \* party sizes
  Asks,        \* what the agent may ask
  Edits,       \* what a dashboard edit may carry
  MaxRows,     \* bound: rows of Slot_Bookings, and of Reservations
  MaxRest,     \* bound: operations of the REST handlers
  None         \* no row, no value

ASSUME ReservationsAssumption ==
  /\ CallerOf \in [Calls -> Callers]
  /\ MaxJobs \in Nat /\ MaxRows \in Nat /\ MaxRest \in Nat
  /\ MinuteOf \in [Times -> Times]
  /\ \A t \in Times : MinuteOf[MinuteOf[t]] = MinuteOf[t]
  /\ Seats \in Nat
  /\ Parties \subseteq Nat \ {0}
  /\ None \notin Times \cup Parties \cup (1..MaxRows)

Jobs     == Calls \X (1..MaxJobs)
Rows     == 1..MaxRows
Statuses == {"pending", "confirmed", "cancelled", "completed", "no_show"}
Changes  == [time : Times \cup {None}, party : Parties \cup {None},
             status : Statuses \cup {None}]

ASSUME InputsAssumption ==
  /\ Asks \subseteq [kind : {"create", "update"}, change : Changes]
  /\ \A a \in Asks : a.kind = "create" => a.change.time # None /\ a.change.party # None
  /\ Edits \subseteq Changes

VARIABLES
  \* the coroutine of each call
  phase,      \* idle, waiting for a thread, or closed
  job,        \* number of the attempt awaited
  \* the threads
  pc, ask, target, seen,
  \* the database
  bookings, reservations,
  \* the REST handler that occupies the loop
  rest, restOps

callVars == <<phase, job>>
jobVars  == <<pc, ask, target, seen>>
dbVars   == <<bookings, reservations>>
restVars == <<rest, restOps>>
vars     == <<callVars, jobVars, dbVars, restVars>>

-----------------------------------------------------------------------------
(* Rows, and what the handlers read of them. *)

NoBooking == [time |-> None, status |-> "none", party |-> None,
              token |-> FALSE, expired |-> FALSE]
\* agent: an update of the voice agent wrote to it.
\* half: a dashboard edit moved it and has not resized it yet, or dropped the
\*       seconds of its time, with which no check had counted its party.
NoReservation == [booking |-> None, status |-> "none", party |-> None,
                  user |-> None, agent |-> FALSE, half |-> FALSE]

Booked(b)   == bookings[b].time # None
Exists(r)   == reservations[r].booking # None
TimeOf(r)   == bookings[reservations[r].booking].time
FreeBooking == {b \in Rows : ~Booked(b) /\ \A d \in Rows : d < b => Booked(d)}
FreeRow     == {r \in Rows : ~Exists(r) /\ \A q \in Rows : q < r => Exists(q)}

Guests(rs) == MapThenSumSet(LAMBDA r : reservations[r].party, rs)

Confirmed(t) ==
  {r \in Rows : Exists(r) /\ reservations[r].status = "confirmed" /\ TimeOf(r) = t}

(* get_slot_confirmed_capacity: only confirmed reservations count. *)
Used(t) == Guests(Confirmed(t))

Fits(t, p) == p <= Seats - Used(MinuteOf[t])

(* A row as a SELECT returned it: the row itself may change afterwards. *)
Snapshot(r) == [res |-> r, booking |-> reservations[r].booking, time |-> TimeOf(r),
                party |-> reservations[r].party, status |-> reservations[r].status]
NoSnapshot  == [res |-> None, booking |-> None, time |-> None, party |-> None,
                status |-> None]

NoChange == [time |-> None, party |-> None, status |-> None]
NoAsk    == [kind |-> "none", change |-> NoChange]
Idle     == [pc |-> "idle", seen |-> NoSnapshot, change |-> NoChange, user |-> None]
LoopFree == rest.pc = "idle"
Or(v, w) == IF v = None THEN w ELSE v

Current(c) == <<c, job[c]>>

Init ==
  /\ phase = [c \in Calls |-> "idle"]
  /\ job = [c \in Calls |-> 0]
  /\ pc = [j \in Jobs |-> "none"]
  /\ ask = [j \in Jobs |-> NoAsk]
  /\ target = [j \in Jobs |-> None]
  /\ seen = [j \in Jobs |-> NoSnapshot]
  /\ bookings = [b \in Rows |-> NoBooking]
  /\ reservations = [r \in Rows |-> NoReservation]
  /\ rest = Idle
  /\ restOps = 0

-----------------------------------------------------------------------------
(* The coroutine of a call. *)

(* A function call of the agent; the validations that pass have no effect.  *)
(* A retry of the router is a request that asks the same again.             *)
Request(c, a) ==
  /\ LoopFree
  /\ phase[c] = "idle"
  /\ job[c] < MaxJobs
  /\ job' = [job EXCEPT ![c] = @ + 1]
  /\ ask' = [ask EXCEPT ![<<c, job[c] + 1>>] = a]
  /\ phase' = [phase EXCEPT ![c] = "waiting"]
  /\ pc' = [pc EXCEPT ![<<c, job[c] + 1>>] =
              IF a.kind = "create" THEN "capacity" ELSE "lookup"]
  /\ UNCHANGED <<target, seen, dbVars, restVars>>

(* create_reservation: the thread that read the capacity found room. *)
ResumeFits(c) ==
  LET j == Current(c) IN
  /\ LoopFree
  /\ phase[c] = "waiting" /\ pc[j] = "fits"
  /\ pc' = [pc EXCEPT ![j] = "slot"]
  /\ UNCHANGED <<callVars, ask, target, seen, dbVars, restVars>>

(* The answer: a result, a refusal, or the exception of a statement.  The   *)
(* activity row that precedes a result is left out, the await of it is not. *)
Resume(c) ==
  LET j == Current(c) IN
  /\ LoopFree
  /\ phase[c] = "waiting" /\ pc[j] \in {"done", "refused", "failed"}
  /\ pc' = [pc EXCEPT ![j] = IF @ = "failed" THEN "failed" ELSE "over"]
  /\ phase' = [phase EXCEPT ![c] = "idle"]
  /\ UNCHANGED <<job, ask, target, seen, dbVars, restVars>>

(* Mutant: the timeout takes the thread with it. *)
KillingAbandoned(c) == {[pc EXCEPT ![Current(c)] = "over"]}

(* What a cancelled await leaves: a thread that has begun is not stopped,   *)
(* one that is still queued is withdrawn.                                   *)
Abandoned(c) ==
  {pc} \cup {[pc EXCEPT ![j] = "over"] :
               j \in {Current(c)} \cap {i \in Jobs : pc[i] \in {"capacity", "lookup", "slot"}}}

(* wait_for expires: the router asks again, or answers with an error. *)
Timeout(c) ==
  /\ LoopFree
  /\ phase[c] = "waiting"
  /\ pc' \in Abandoned(c)
  /\ phase' = [phase EXCEPT ![c] = "idle"]
  /\ UNCHANGED <<job, ask, target, seen, dbVars, restVars>>

(* The call ends; the receiver that awaits the handler is cancelled. *)
EndCall(c) ==
  /\ LoopFree
  /\ phase[c] # "closed"
  /\ pc' \in IF phase[c] = "waiting" THEN Abandoned(c) ELSE {pc}
  /\ phase' = [phase EXCEPT ![c] = "closed"]
  /\ UNCHANGED <<job, ask, target, seen, dbVars, restVars>>

-----------------------------------------------------------------------------
(* The threads of create_reservation: _check_capacity, then _create. *)

Asked(j) == ask[j].change

ThreadStep(j, from, to) ==
  /\ pc[j] = from
  /\ pc' = [pc EXCEPT ![j] = to]

CheckCapacity(j) ==
  /\ ThreadStep(j, "capacity",
                IF Fits(Asked(j).time, Asked(j).party) THEN "fits" ELSE "refused")
  /\ UNCHANGED <<callVars, ask, target, seen, dbVars, restVars>>

NewBooking(b, t, p, isLock) ==
  bookings' = [bookings EXCEPT ![b] = [NoBooking EXCEPT
                 !.time = t, !.status = "reserved", !.party = p, !.token = isLock]]

NewReservation(r, b, p, s, u) ==
  reservations' = [reservations EXCEPT ![r] = [NoReservation EXCEPT
                     !.booking = b, !.status = s, !.party = p, !.user = u]]

(* create_slot_booking: one statement, committed by itself. *)
InsertSlot(j, b) ==
  /\ ThreadStep(j, "slot", "row")
  /\ NewBooking(b, Asked(j).time, Asked(j).party, FALSE)
  /\ target' = [target EXCEPT ![j] = b]
  /\ UNCHANGED <<callVars, ask, seen, reservations, restVars>>

InsertReservation(j, r) ==
  /\ ThreadStep(j, "row", "done")
  /\ NewReservation(r, target[j], Asked(j).party, "pending", CallerOf[j[1]])
  /\ UNCHANGED <<callVars, ask, target, seen, bookings, restVars>>

-----------------------------------------------------------------------------
(* The thread of update_reservation: _update. *)

(* get_latest_by_user: the last reservation made for this phone number, by  *)
(* whomever and whatever its status.                                        *)
LatestOf(u) == LET its == {r \in Rows : Exists(r) /\ reservations[r].user = u}
               IN {r \in its : \A q \in its : q <= r}

(* The row is read; the capacity is read only for a new time or party. *)
Lookup(j, r) ==
  /\ r \in LatestOf(CallerOf[j[1]])
  /\ ThreadStep(j, "lookup", IF Asked(j).time = None /\ Asked(j).party = None
                               THEN "write" ELSE "check")
  /\ seen' = [seen EXCEPT ![j] = Snapshot(r)]
  /\ UNCHANGED <<callVars, ask, target, dbVars, restVars>>

(* No reservation, the update window has passed, or out of hours. *)
LookupRefused(j) ==
  /\ ThreadStep(j, "lookup", "refused")
  /\ UNCHANGED <<callVars, ask, target, seen, dbVars, restVars>>

(* The party of a confirmed reservation is taken off the seats used at the  *)
(* requested time, whether or not that is the time it is booked for.        *)
UpdateFits(j) ==
  LET own == IF seen[j].status = "confirmed" THEN seen[j].party ELSE 0
  IN Or(Asked(j).party, seen[j].party)
       <= Seats - (Used(MinuteOf[Or(Asked(j).time, seen[j].time)]) - own)

CheckUpdate(j) ==
  /\ ThreadStep(j, "check", IF UpdateFits(j) THEN "write" ELSE "refused")
  /\ UNCHANGED <<callVars, ask, target, seen, dbVars, restVars>>

(* update_reservation of the repository: the fields that were given, no     *)
(* condition on what the row holds by now.                                  *)
Changed(row, change) ==
  [row EXCEPT !.party = Or(change.party, row.party),
              !.status = Or(change.status, row.status)]

WriteUpdate(j) ==
  LET r == seen[j].res IN
  /\ ThreadStep(j, "write", IF Asked(j).time = None THEN "done" ELSE "move")
  /\ reservations' = [reservations EXCEPT ![r] =
                        [Changed(reservations[r], Asked(j)) EXCEPT !.agent = TRUE]]
  /\ UNCHANGED <<callVars, ask, target, seen, bookings, restVars>>

(* update_slot_booking_datetime: of every reservation on the booking. *)
MoveUpdate(j) ==
  /\ ThreadStep(j, "move", "done")
  /\ bookings' = [bookings EXCEPT ![seen[j].booking].time = Asked(j).time]
  /\ UNCHANGED <<callVars, ask, target, seen, reservations, restVars>>

Working == {"capacity", "slot", "row", "lookup", "check", "write", "move"}

(* A statement raises.  What was committed stays. *)
FailThread(j) ==
  /\ pc[j] \in Working
  /\ pc' = [pc EXCEPT ![j] = "failed"]
  /\ UNCHANGED <<callVars, ask, target, seen, dbVars, restVars>>

-----------------------------------------------------------------------------
(* The REST handlers.  Each holds the loop from its first read to its last  *)
(* write; a check that refuses ends it with nothing changed.                *)

Open(next, read, change, u) ==
  /\ LoopFree
  /\ restOps < MaxRest
  /\ restOps' = restOps + 1
  /\ rest' = [pc |-> next, seen |-> read, change |-> change, user |-> u]
  /\ UNCHANGED <<callVars, jobVars, dbVars>>

RestStep(from, next) ==
  /\ rest.pc = from
  /\ rest' = IF next = "idle" THEN Idle ELSE [rest EXCEPT !.pc = next]
  /\ UNCHANGED <<callVars, jobVars, restOps>>

OnMinute(t) == MinuteOf[t] = t
Wanted(t, p) == [NoChange EXCEPT !.time = t, !.party = p]

(* Mutant: the party itself is not counted. *)
ShortOpenDirect(t, p, u) ==
  /\ OnMinute(t)
  /\ Fits(t, 0)
  /\ Open("direct", NoSnapshot, Wanted(t, p), u)

(* create_reservation_direct: capacity, user, then one transaction that     *)
(* inserts the booking and a confirmed reservation.                         *)
OpenDirect(t, p, u) ==
  /\ OnMinute(t)
  /\ Fits(t, p)
  /\ Open("direct", NoSnapshot, Wanted(t, p), u)

InsertDirect(b, r) ==
  /\ RestStep("direct", "idle")
  /\ NewBooking(b, rest.change.time, rest.change.party, FALSE)
  /\ NewReservation(r, b, rest.change.party, "confirmed", rest.user)

(* lock_slot: capacity, then a booking whose token the client is given. *)
OpenLock(t, p) ==
  /\ OnMinute(t)
  /\ Fits(t, p)
  /\ Open("lock", NoSnapshot, Wanted(t, p), None)

InsertLock(b) ==
  /\ RestStep("lock", "idle")
  /\ NewBooking(b, rest.change.time, rest.change.party, TRUE)
  /\ UNCHANGED reservations

(* The token of a slot lock that is reserved and has not expired. *)
Usable(b) == /\ Booked(b) /\ bookings[b].token /\ ~bookings[b].expired
             /\ bookings[b].status = "reserved"

(* create_reservation of the service: the token is not used up by it. *)
OpenToken(b, u) ==
  /\ Usable(b)
  /\ Open("token", [NoSnapshot EXCEPT !.booking = b], NoChange, u)

InsertToken(r) ==
  LET b == rest.seen.booking IN
  /\ RestStep("token", "idle")
  /\ NewReservation(r, b, bookings[b].party, "pending", rest.user)
  /\ UNCHANGED bookings

(* finalize_reservation: the row, the capacity, then a guarded UPDATE. *)
OpenFinalize(r) ==
  /\ Exists(r) /\ reservations[r].status = "pending"
  /\ Open("confirm", Snapshot(r), NoChange, None)

CheckFinalize ==
  /\ RestStep("confirm", IF Fits(rest.seen.time, rest.seen.party)
                           THEN "finalize" ELSE "idle")
  /\ UNCHANGED dbVars

(* Mutant: the UPDATE without its AND status = 'pending'. *)
UnguardedFinalize ==
  LET r == rest.seen.res IN
  /\ RestStep("finalize", "idle")
  /\ reservations' = [reservations EXCEPT ![r].status = "confirmed"]
  /\ UNCHANGED bookings

WriteFinalize ==
  LET r == rest.seen.res IN
  /\ RestStep("finalize", "idle")
  /\ reservations' = IF reservations[r].status = "pending"
                       THEN [reservations EXCEPT ![r].status = "confirmed"]
                       ELSE reservations
  /\ UNCHANGED bookings

(* cancel_reservation: the row, a guarded UPDATE, then the slot. *)
OpenCancel(r) ==
  /\ Exists(r) /\ reservations[r].status \notin {"cancelled", "completed"}
  /\ Open("cancel", Snapshot(r), NoChange, None)

WriteCancel ==
  LET r == rest.seen.res
      guard == reservations[r].status \in {"pending", "confirmed"}
  IN /\ RestStep("cancel", IF guard THEN "release" ELSE "idle")
     /\ reservations' = IF guard THEN [reservations EXCEPT ![r].status = "cancelled"]
                                 ELSE reservations
     /\ UNCHANGED bookings

ReleaseSlot ==
  /\ RestStep("release", "idle")
  /\ bookings' = [bookings EXCEPT ![rest.seen.booking].status = "available"]
  /\ UNCHANGED reservations

(* update_reservation of the service: the row, the capacity if the result   *)
(* is to be confirmed, the booking if it moves, then the row.               *)
AfterCheck(e) == IF e.time # None THEN "move" ELSE "edit"

OpenEdit(r, e) ==
  /\ Exists(r)
  /\ e # NoChange
  /\ e.time # None => OnMinute(e.time)
  /\ Open(IF Or(e.status, reservations[r].status) = "confirmed" THEN "check"
          ELSE AfterCheck(e), Snapshot(r), e, None)

EditFits ==
  LET t == MinuteOf[Or(rest.change.time, rest.seen.time)]
      own == IF rest.seen.status = "confirmed" /\ t = MinuteOf[rest.seen.time]
             THEN rest.seen.party ELSE 0
  IN Or(rest.change.party, rest.seen.party) <= Seats - (Used(t) - own)

CheckEdit ==
  /\ RestStep("check", IF EditFits THEN AfterCheck(rest.change) ELSE "idle")
  /\ UNCHANGED dbVars

(* The edit puts a confirmed booking on its minute that was not there yet:   *)
(* EditFits took its party off the seats of a minute it was not counted in.  *)
Strays == /\ rest.seen.status = "confirmed" /\ ~OnMinute(rest.seen.time)
          /\ rest.change.time = MinuteOf[rest.seen.time]

(* The booking moves first, with the party the reservation still has. *)
MoveEdit ==
  LET more == rest.change.party # None \/ rest.change.status # None IN
  /\ RestStep("move", IF more THEN "edit" ELSE "idle")
  /\ bookings' = [bookings EXCEPT ![rest.seen.booking].time = rest.change.time]
  /\ reservations' = [reservations EXCEPT ![rest.seen.res].half = more \/ Strays]

WriteEdit ==
  LET r == rest.seen.res IN
  /\ RestStep("edit", "idle")
  /\ reservations' = [reservations EXCEPT ![r] =
                        [Changed(reservations[r], rest.change) EXCEPT !.half = Strays]]
  /\ UNCHANGED bookings

(* A statement of the handler raises: it answers 400 or 500. *)
RestFail ==
  /\ ~LoopFree
  /\ rest' = Idle
  /\ UNCHANGED <<callVars, jobVars, dbVars, restOps>>

-----------------------------------------------------------------------------
(* The world. *)

(* SLOT_EXPIRY_MINUTES pass since the lock. *)
Expire(b) ==
  /\ Booked(b) /\ bookings[b].token /\ ~bookings[b].expired
  /\ bookings' = [bookings EXCEPT ![b].expired = TRUE]
  /\ UNCHANGED <<callVars, jobVars, reservations, restVars>>

(* The process is killed; calls that come after it find it restarted. *)
Crash ==
  /\ \/ \E j \in Jobs : pc[j] \in Working
     \/ ~LoopFree
  /\ phase' = [c \in Calls |-> IF job[c] = 0 THEN phase[c] ELSE "closed"]
  /\ pc' = [j \in Jobs |-> IF pc[j] \in Working THEN "failed" ELSE pc[j]]
  /\ rest' = Idle
  /\ UNCHANGED <<job, ask, target, seen, dbVars, restOps>>

-----------------------------------------------------------------------------
Loop(c) == ResumeFits(c) \/ Resume(c) \/ Timeout(c) \/ EndCall(c)

Thread(j) ==
  \/ CheckCapacity(j) \/ LookupRefused(j) \/ CheckUpdate(j)
  \/ WriteUpdate(j) \/ MoveUpdate(j)
  \/ \E b \in FreeBooking : InsertSlot(j, b)
  \/ \E r \in FreeRow : InsertReservation(j, r)
  \/ \E r \in Rows : Lookup(j, r)

Dashboard ==
  \/ \E t \in Times, p \in Parties, u \in Callers : OpenDirect(t, p, u)
  \/ \E b \in FreeBooking, r \in FreeRow : InsertDirect(b, r)
  \/ \E r \in Rows : OpenFinalize(r) \/ OpenCancel(r)
  \/ \E r \in Rows, e \in Edits : OpenEdit(r, e)
  \/ CheckFinalize \/ WriteFinalize \/ WriteCancel \/ ReleaseSlot
  \/ CheckEdit \/ MoveEdit \/ WriteEdit \/ RestFail

Booking ==
  \/ \E t \in Times, p \in Parties : OpenLock(t, p)
  \/ \E b \in FreeBooking : InsertLock(b)
  \/ \E b \in Rows, u \in Callers : OpenToken(b, u)
  \/ \E r \in FreeRow : InsertToken(r)

Next ==
  \/ \E c \in Calls : Loop(c)
  \/ \E c \in Calls, a \in Asks : Request(c, a)
  \/ \E j \in Jobs : Thread(j) \/ FailThread(j)
  \/ Dashboard \/ Booking \/ Crash
  \/ \E b \in Rows : Expire(b)

Spec == Init /\ [][Next]_vars
-----------------------------------------------------------------------------
(* Properties. *)

Snapshots == [res : Rows \cup {None}, booking : Rows \cup {None},
              time : Times \cup {None}, party : Parties \cup {None},
              status : Statuses \cup {None}]

TypeThreads ==
  /\ phase \in [Calls -> {"idle", "waiting", "closed"}]
  /\ job \in [Calls -> 0..MaxJobs]
  /\ pc \in [Jobs -> Working \cup {"none", "fits", "refused", "done", "failed", "over"}]
  /\ ask \in [Jobs -> Asks \cup {NoAsk}]
  /\ target \in [Jobs -> Rows \cup {None}]
  /\ seen \in [Jobs -> Snapshots]

TypeRows ==
  /\ bookings \in [Rows ->
       [time : Times, status : {"reserved", "available"}, party : Parties,
        token : BOOLEAN, expired : BOOLEAN] \cup {NoBooking}]
  /\ reservations \in [Rows ->
       [booking : Rows, status : Statuses, party : Parties, user : Callers,
        agent : BOOLEAN, half : BOOLEAN] \cup {NoReservation}]

(* Every variable keeps its type, and a reservation that exists has a       *)
(* booking that exists.                                                     *)
TypeOK ==
  /\ TypeThreads
  /\ TypeRows
  /\ restOps \in 0..MaxRest
  /\ \A r \in Rows : Exists(r) => Booked(reservations[r].booking)

Shared(r) == \E q \in Rows \ {r} : reservations[q].booking = reservations[r].booking

(* Those the checks of the handlers answer for: the voice agent never       *)
(* updated it, no other reservation moves with its booking, and the         *)
(* dashboard has not moved it without resizing it or to the minute of a     *)
(* time with seconds.                                                       *)
Vouched(r) == ~reservations[r].agent /\ ~Shared(r) /\ ~reservations[r].half

(* The confirmed guests of a slot fit in the restaurant, as far as the      *)
(* handlers' checks answer for them, although every check reads the seats   *)
(* in one statement and confirms in a later one, with threads in between.   *)
SeatsKept == \A t \in Times :
  OnMinute(t) => Guests({r \in Confirmed(t) : Vouched(r)}) <= Seats

(* A cancellation is final for a finalize that was already under way: only  *)
(* a status that someone asked for brings a cancelled reservation back.     *)
CancelSticks ==
  [][\A r \in Rows :
       reservations[r].status = "cancelled" /\ reservations'[r].status # "cancelled"
         => \/ rest.pc = "edit" /\ rest.change.status # None
            \/ \E j \in Jobs : /\ pc[j] = "write" /\ pc'[j] # "write"
                               /\ Asked(j).status # None]_vars

(* A booking made by the agent has its reservation, or its thread is about  *)
(* to insert it, or that thread failed or was killed between the two.       *)
Orphan(b) == /\ Booked(b) /\ ~bookings[b].token
             /\ \A r \in Rows : reservations[r].booking # b

OrphansAreFailures ==
  \A b \in Rows : Orphan(b) =>
    \E j \in Jobs : target[j] = b /\ pc[j] \in {"row", "failed"}

(* What the code says of itself, and what it does otherwise. *)

(* api/restaurants.py: reservation_seating_capacity is the "Total seating   *)
(* capacity for reservations", and a slot is a minute: reservations.py      *)
(* means to "Normalize datetime to minute precision for slot matching".     *)
NoOverbooking == \A t \in Times :
  Guests(UNION {Confirmed(u) : u \in {u \in Times : MinuteOf[u] = t}}) <= Seats
=============================================================================
