-------------------------- MODULE ReservationsProofs --------------------------
(* What holds of reservations for any number of calls, rows and operations of *)
(* the staff: the proofs of TypeOK, OrphansAreFailures and CancelSticks of    *)
(* Reservations, and, from the middle on, of SeatsKept; in the last part      *)
(* what callers and dashboards are told of free tables, for any hours, zone   *)
(* and windows: the proof of ToldTruly of Availability.                       *)
EXTENDS Reservations, Availability, FiniteSetTheorems, NaturalsInduction, WellFoundedInduction,
        TLAPS

BookRow == [time : Times, status : {"reserved", "available"}, party : Parties,
            token : BOOLEAN, expired : BOOLEAN]
ResRow  == [booking : Rows, status : Statuses, party : Parties, user : Callers,
            agent : BOOLEAN, half : BOOLEAN]

(* A row as it was read, of a reservation that is still there. *)
Known(s) ==
  /\ s.res \in Rows /\ Exists(s.res)
  /\ s.booking \in Rows /\ Booked(s.booking)
  /\ s.time \in Times /\ s.party \in Parties /\ s.status \in Statuses

RowsInv ==
  /\ TypeRows
  /\ \A r \in Rows : Exists(r) => Booked(reservations[r].booking)

(* What a thread goes by at each of its statements. *)
Ready(j) ==
  /\ job[j[1]] < j[2] => pc[j] = "none"
  /\ pc[j] \in {"capacity", "fits", "slot", "row"}
       => Asked(j).time # None /\ Asked(j).party # None
  /\ pc[j] = "move" => Asked(j).time # None
  /\ pc[j] \in {"check", "write", "move"} => Known(seen[j])
  /\ pc[j] = "row" => target[j] \in Rows /\ Booked(target[j])

ThreadsInv == TypeThreads /\ \A j \in Jobs : Ready(j)

(* What a handler of the dashboard goes by. *)
OnRow    == {"confirm", "finalize", "cancel", "release", "check", "move", "edit"}
Handlers == OnRow \cup {"idle", "direct", "lock", "token"}

RestInv ==
  /\ rest \in [pc : Handlers, seen : Snapshots, change : Changes,
               user : Callers \cup {None}]
  /\ restOps \in 0..MaxRest
  /\ rest.pc \in {"direct", "lock"}
       => rest.change.time # None /\ rest.change.party # None
  /\ rest.pc \in {"direct", "token"} => rest.user \in Callers
  /\ rest.pc = "token" => rest.seen.booking \in Rows /\ Booked(rest.seen.booking)
  /\ rest.pc = "move" => rest.change.time # None
  /\ rest.pc \in OnRow => Known(rest.seen)

IInv == RowsInv /\ ThreadsInv /\ RestInv

(* What no step takes back: a booking and the booking of a reservation. *)
Kept ==
  /\ \A b \in Rows : Booked(b) =>
       bookings'[b].time # None /\ bookings'[b].token = bookings[b].token
  /\ \A r \in Rows : Exists(r) => reservations'[r].booking = reservations[r].booking

-----------------------------------------------------------------------------
(* The rows. *)

LEMMA RowTypes ==
  ASSUME RowsInv
  PROVE  /\ bookings \in [Rows -> BookRow \cup {NoBooking}]
         /\ reservations \in [Rows -> ResRow \cup {NoReservation}]
         /\ \A b \in Rows : Booked(b) => bookings[b] \in BookRow
         /\ \A b \in Rows : ~Booked(b) => bookings[b] = NoBooking
         /\ \A r \in Rows : Exists(r) => reservations[r] \in ResRow
         /\ \A r \in Rows : ~Exists(r) => reservations[r] = NoReservation
<1>1. /\ bookings \in [Rows -> BookRow \cup {NoBooking}]
      /\ reservations \in [Rows -> ResRow \cup {NoReservation}]
  BY DEF RowsInv, TypeRows, BookRow, ResRow
<1>2. \A x \in BookRow : x.time # None
  BY ReservationsAssumption DEF BookRow
<1>3. \A x \in ResRow : x.booking # None
  BY ReservationsAssumption DEF ResRow, Rows
<1>4. NoBooking.time = None /\ NoReservation.booking = None
  BY DEF NoBooking, NoReservation
<1>5. QED BY <1>1, <1>2, <1>3, <1>4 DEF Booked, Exists

(* One row of Slot_Bookings is written. *)
LEMMA SetBooking ==
  ASSUME RowsInv, NEW b \in Rows, NEW x \in BookRow,
         bookings' = [bookings EXCEPT ![b] = x],
         UNCHANGED reservations,
         Booked(b) => x.token = bookings[b].token
  PROVE  RowsInv' /\ Kept
<1>1. x.time # None
  BY ReservationsAssumption DEF BookRow
<1>2. /\ bookings' \in [Rows -> BookRow \cup {NoBooking}]
      /\ \A d \in Rows : bookings'[d] = IF d = b THEN x ELSE bookings[d]
  BY RowTypes
<1>3. Kept
  BY <1>1, <1>2 DEF Kept, Booked
<1>4. TypeRows'
  BY <1>2 DEF RowsInv, TypeRows, BookRow
<1>5. \A r \in Rows : Exists(r)' => Booked(reservations[r].booking)'
  <2> TAKE r \in Rows
  <2> HAVE Exists(r)'
  <2>1. Exists(r)
    BY DEF Exists
  <2>2. reservations[r].booking \in Rows /\ Booked(reservations[r].booking)
    BY <2>1, RowTypes DEF RowsInv, ResRow
  <2>3. QED BY <2>2, <1>3 DEF Kept, Booked
<1>6. QED BY <1>3, <1>4, <1>5 DEF RowsInv

(* One row of Reservations is written. *)
LEMMA SetReservation ==
  ASSUME RowsInv, NEW r \in Rows, NEW x \in ResRow,
         reservations' = [reservations EXCEPT ![r] = x],
         UNCHANGED bookings,
         Exists(r) => x.booking = reservations[r].booking,
         Booked(x.booking)
  PROVE  RowsInv' /\ Kept
<1>1. /\ reservations' \in [Rows -> ResRow \cup {NoReservation}]
      /\ \A q \in Rows : reservations'[q] = IF q = r THEN x ELSE reservations[q]
  BY RowTypes
<1>2. Kept
  BY <1>1 DEF Kept, Booked, Exists
<1>3. TypeRows'
  BY <1>1 DEF RowsInv, TypeRows, ResRow
<1>4. \A q \in Rows : Exists(q)' => Booked(reservations[q].booking)'
  BY <1>1 DEF RowsInv, Exists, Booked
<1>5. QED BY <1>2, <1>3, <1>4 DEF RowsInv

LEMMA NothingWritten ==
  ASSUME RowsInv, UNCHANGED dbVars
  PROVE  RowsInv' /\ Kept
  BY DEF RowsInv, TypeRows, Kept, dbVars, Exists, Booked

(* The fields an UPDATE sets. *)
LEMMA BookFields ==
  ASSUME NEW x \in BookRow
  PROVE  /\ \A t \in Times : /\ [x EXCEPT !.time = t] \in BookRow
                             /\ [x EXCEPT !.time = t].token = x.token
         /\ /\ [x EXCEPT !.status = "available"] \in BookRow
            /\ [x EXCEPT !.status = "available"].token = x.token
         /\ /\ [x EXCEPT !.expired = TRUE] \in BookRow
            /\ [x EXCEPT !.expired = TRUE].token = x.token
  BY DEF BookRow

LEMMA ResFields ==
  ASSUME NEW x \in ResRow
  PROVE  /\ \A s \in Statuses : /\ [x EXCEPT !.status = s] \in ResRow
                                /\ [x EXCEPT !.status = s].booking = x.booking
                                /\ [x EXCEPT !.status = s].status = s
         /\ \A d \in BOOLEAN : /\ [x EXCEPT !.half = d] \in ResRow
                               /\ [x EXCEPT !.half = d].booking = x.booking
                               /\ [x EXCEPT !.half = d].status = x.status
         /\ \A d \in BOOLEAN : /\ [x EXCEPT !.agent = d] \in ResRow
                               /\ [x EXCEPT !.agent = d].booking = x.booking
                               /\ [x EXCEPT !.agent = d].status = x.status
  BY DEF ResRow

(* The UPDATE of the repository. *)
LEMMA ChangedRow ==
  ASSUME NEW x \in ResRow, NEW e \in Changes
  PROVE  /\ Changed(x, e) \in ResRow
         /\ Changed(x, e).booking = x.booking
         /\ e.status = None => Changed(x, e).status = x.status
<1> DEFINE p == Or(e.party, x.party)
           s == Or(e.status, x.status)
<1>1. p \in Parties /\ s \in Statuses
  BY DEF Or, Changes, ResRow
<1>2. e.status = None => s = x.status
  BY DEF Or
<1>3. Changed(x, e) = [x EXCEPT !.party = p, !.status = s]
  BY DEF Changed
<1> HIDE DEF p, s
<1>4. QED BY <1>1, <1>2, <1>3 DEF ResRow

-----------------------------------------------------------------------------
(* What each statement that writes does to the rows. *)

LEMMA AskedTypes ==
  ASSUME ThreadsInv, NEW j \in Jobs
  PROVE  /\ Asked(j) \in Changes
         /\ Asked(j).time # None => Asked(j).time \in Times
         /\ Asked(j).party # None => Asked(j).party \in Parties
<1>1. NoChange \in Changes
  BY DEF NoChange, Changes
<1>2. ask[j] \in Asks \cup {NoAsk}
  BY DEF ThreadsInv, TypeThreads
<1>3. ask[j].change \in Changes
  BY <1>1, <1>2, InputsAssumption DEF NoAsk
<1>4. QED BY <1>3 DEF Asked, Changes

LEMMA RestTypes ==
  ASSUME RestInv
  PROVE  /\ rest.change \in Changes
         /\ rest.change.time # None => rest.change.time \in Times
         /\ rest.change.party # None => rest.change.party \in Parties
  BY DEF RestInv, Changes

(* A row that an INSERT fills. *)
BlankBooking == [time : {None}, status : {"none"}, party : {None},
                 token : BOOLEAN, expired : BOOLEAN]
BlankRes     == [booking : {None}, status : {"none"}, party : {None},
                 user : {None}, agent : BOOLEAN, half : BOOLEAN]

LEMMA FreshBooking ==
  ASSUME RowsInv, NEW b \in FreeBooking, NEW t \in Times, NEW p \in Parties,
         NEW isLock \in BOOLEAN, NewBooking(b, t, p, isLock)
  PROVE  /\ b \in Rows /\ ~Booked(b)
         /\ bookings' = [bookings EXCEPT ![b] = bookings'[b]]
         /\ bookings'[b] \in BookRow
         /\ bookings'[b].token = isLock
         /\ bookings'[b].time = t
<1> DEFINE x == [NoBooking EXCEPT !.time = t, !.status = "reserved", !.party = p,
                                  !.token = isLock]
<1>1. NoBooking \in BlankBooking
  BY DEF NoBooking, BlankBooking
<1>2. x \in BookRow /\ x.token = isLock /\ x.time = t
  BY <1>1 DEF BlankBooking, BookRow
<1>3. bookings' = [bookings EXCEPT ![b] = x]
  BY DEF NewBooking
<1>4. b \in Rows /\ ~Booked(b)
  BY DEF FreeBooking
<1> HIDE DEF x
<1>5. bookings'[b] = x
  BY <1>3, <1>4, RowTypes
<1>6. QED BY <1>2, <1>3, <1>4, <1>5

LEMMA FreshReservation ==
  ASSUME RowsInv, NEW r \in FreeRow, NEW b \in Rows, NEW p \in Parties,
         NEW s \in Statuses, NEW u \in Callers, NewReservation(r, b, p, s, u)
  PROVE  /\ r \in Rows /\ ~Exists(r)
         /\ reservations' = [reservations EXCEPT ![r] = reservations'[r]]
         /\ reservations'[r] \in ResRow
         /\ reservations'[r].booking = b
<1> DEFINE x == [NoReservation EXCEPT !.booking = b, !.status = s, !.party = p,
                                      !.user = u]
<1>1. NoReservation \in BlankRes
  BY DEF NoReservation, BlankRes
<1>2. x \in ResRow /\ x.booking = b
  BY <1>1 DEF BlankRes, ResRow
<1>3. reservations' = [reservations EXCEPT ![r] = x]
  BY DEF NewReservation
<1>4. r \in Rows /\ ~Exists(r)
  BY DEF FreeRow
<1> HIDE DEF x
<1>5. reservations'[r] = x
  BY <1>3, <1>4, RowTypes
<1>6. QED BY <1>2, <1>3, <1>4, <1>5

LEMMA FreshBookingRows ==
  ASSUME RowsInv, NEW b \in FreeBooking, NEW t \in Times, NEW p \in Parties,
         NEW isLock \in BOOLEAN, NewBooking(b, t, p, isLock), UNCHANGED reservations
  PROVE  RowsInv' /\ Kept /\ b \in Rows /\ ~Booked(b) /\ Booked(b)'
<1>1. RowsInv' /\ Kept
  BY FreshBooking, SetBooking
<1>2. bookings'[b].time # None
  BY FreshBooking, ReservationsAssumption
<1>3. QED BY <1>1, <1>2, FreshBooking DEF Booked

LEMMA FreshReservationRows ==
  ASSUME RowsInv, NEW r \in FreeRow, NEW b \in Rows, NEW p \in Parties,
         NEW s \in Statuses, NEW u \in Callers, NewReservation(r, b, p, s, u),
         UNCHANGED bookings, Booked(b)
  PROVE  RowsInv' /\ Kept
  BY FreshReservation, SetReservation

(* create_reservation_direct writes both rows in one transaction. *)
LEMMA BothRows ==
  ASSUME RowsInv, NEW b \in FreeBooking, NEW r \in FreeRow, NEW t \in Times,
         NEW p \in Parties, NEW u \in Callers,
         NewBooking(b, t, p, FALSE), NewReservation(r, b, p, "confirmed", u)
  PROVE  RowsInv' /\ Kept
<1>1. b \in Rows /\ r \in Rows /\ ~Booked(b) /\ ~Exists(r)
  BY DEF FreeBooking, FreeRow
<1>2. /\ bookings' = [bookings EXCEPT ![b] = bookings'[b]]
      /\ bookings'[b] \in BookRow /\ bookings'[b].time = t
  BY FreshBooking
<1>3. /\ reservations' = [reservations EXCEPT ![r] = reservations'[r]]
      /\ reservations'[r] \in ResRow /\ reservations'[r].booking = b
  BY <1>1, FreshReservation DEF Statuses
<1>4. t # None
  BY ReservationsAssumption
<1>5. \A d \in Rows : d # b => bookings'[d] = bookings[d]
  BY <1>2, RowTypes
<1>6. \A q \in Rows : q # r => reservations'[q] = reservations[q]
  BY <1>3, RowTypes
<1>7. Kept
  BY <1>1, <1>2, <1>4, <1>5, <1>6 DEF Kept, Booked
<1>8. TypeRows'
  <2>1. bookings' \in [Rows -> BookRow \cup {NoBooking}]
    BY <1>2, RowTypes
  <2>2. reservations' \in [Rows -> ResRow \cup {NoReservation}]
    BY <1>3, RowTypes
  <2>3. QED BY <2>1, <2>2 DEF TypeRows, BookRow, ResRow
<1>9. \A q \in Rows : Exists(q)' => Booked(reservations[q].booking)'
  <2> TAKE q \in Rows
  <2> HAVE Exists(q)'
  <2>1. CASE q = r
    BY <2>1, <1>2, <1>3, <1>4 DEF Booked
  <2>2. CASE q # r
    <3>1. Exists(q) /\ reservations'[q] = reservations[q]
      BY <2>2, <1>6 DEF Exists
    <3>2. reservations[q].booking \in Rows /\ Booked(reservations[q].booking)
      BY <3>1, RowTypes DEF RowsInv, ResRow
    <3>3. bookings'[reservations[q].booking].time # None
      BY <3>2, <1>7 DEF Kept
    <3>4. QED BY <3>1, <3>3 DEF Booked
  <2>3. QED BY <2>1, <2>2
<1>10. QED BY <1>7, <1>8, <1>9 DEF RowsInv

(* The threads' statements. *)
LEMMA ThreadWrites ==
  ASSUME IInv, NEW j \in Jobs
  PROVE  /\ \A b \in FreeBooking : InsertSlot(j, b) => RowsInv' /\ Kept
         /\ \A r \in FreeRow : InsertReservation(j, r) => RowsInv' /\ Kept
         /\ WriteUpdate(j) => RowsInv' /\ Kept
         /\ MoveUpdate(j) => RowsInv' /\ Kept
<1> USE DEF IInv
<1>0. Ready(j) /\ pc \in [Jobs -> Working \cup
                       {"none", "fits", "refused", "done", "failed", "over"}]
  BY DEF ThreadsInv, TypeThreads
<1>1. ASSUME NEW b \in FreeBooking, InsertSlot(j, b) PROVE RowsInv' /\ Kept
  <2>1. Asked(j).time \in Times /\ Asked(j).party \in Parties
    BY <1>0, <1>1, AskedTypes DEF InsertSlot, ThreadStep, Ready
  <2>2. QED BY <1>1, <2>1, FreshBookingRows DEF InsertSlot
<1>2. ASSUME NEW r \in FreeRow, InsertReservation(j, r) PROVE RowsInv' /\ Kept
  <2>1. /\ Asked(j).party \in Parties
        /\ target[j] \in Rows /\ Booked(target[j])
    BY <1>0, <1>2, AskedTypes DEF InsertReservation, ThreadStep, Ready
  <2>2. CallerOf[j[1]] \in Callers /\ "pending" \in Statuses
    BY ReservationsAssumption DEF Jobs, Statuses
  <2>3. QED BY <1>2, <2>1, <2>2, FreshReservationRows DEF InsertReservation
<1>3. ASSUME WriteUpdate(j) PROVE RowsInv' /\ Kept
  <2> DEFINE r == seen[j].res
             x == [Changed(reservations[r], Asked(j)) EXCEPT !.agent = TRUE]
  <2>1. Known(seen[j])
    BY <1>0, <1>3 DEF WriteUpdate, ThreadStep, Ready
  <2>2. r \in Rows /\ Exists(r) /\ reservations[r] \in ResRow
    BY <2>1, RowTypes DEF Known
  <2>3. /\ Changed(reservations[r], Asked(j)) \in ResRow
        /\ Changed(reservations[r], Asked(j)).booking = reservations[r].booking
    BY <2>2, ChangedRow, AskedTypes
  <2>4. x \in ResRow /\ x.booking = reservations[r].booking
    BY <2>3, ResFields
  <2>5. Booked(x.booking)
    BY <2>2, <2>4 DEF RowsInv
  <2>6. reservations' = [reservations EXCEPT ![r] = x] /\ UNCHANGED bookings
    BY <1>3 DEF WriteUpdate
  <2> HIDE DEF r, x
  <2>7. QED BY <2>2, <2>4, <2>5, <2>6, SetReservation
<1>4. ASSUME MoveUpdate(j) PROVE RowsInv' /\ Kept
  <2> DEFINE b == seen[j].booking
             x == [bookings[b] EXCEPT !.time = Asked(j).time]
  <2>1. Known(seen[j]) /\ Asked(j).time \in Times
    BY <1>0, <1>4, AskedTypes DEF MoveUpdate, ThreadStep, Ready
  <2>2. b \in Rows /\ Booked(b) /\ bookings[b] \in BookRow
    BY <2>1, RowTypes DEF Known
  <2>3. x \in BookRow /\ x.token = bookings[b].token
    BY <2>1, <2>2, BookFields
  <2>4. bookings' = [bookings EXCEPT ![b] = x] /\ UNCHANGED reservations
    BY <1>4 DEF MoveUpdate
  <2> HIDE DEF b, x
  <2>5. QED BY <2>2, <2>3, <2>4, SetBooking
<1>5. QED BY <1>1, <1>2, <1>3, <1>4

(* The statements of the dashboard and of the public booking. *)
LEMMA InsertDirectRows ==
  ASSUME IInv, NEW b \in FreeBooking, NEW r \in FreeRow, InsertDirect(b, r)
  PROVE  RowsInv' /\ Kept
<1>1. /\ rest.change.time \in Times /\ rest.change.party \in Parties
      /\ rest.user \in Callers
  BY RestTypes DEF InsertDirect, RestStep, IInv, RestInv
<1>2. /\ NewBooking(b, rest.change.time, rest.change.party, FALSE)
      /\ NewReservation(r, b, rest.change.party, "confirmed", rest.user)
  BY DEF InsertDirect
<1>3. QED BY <1>1, <1>2, BothRows DEF IInv

LEMMA InsertLockRows ==
  ASSUME IInv, NEW b \in FreeBooking, InsertLock(b)
  PROVE  /\ RowsInv' /\ Kept
         /\ b \in Rows /\ bookings' = [bookings EXCEPT ![b] = bookings'[b]]
         /\ bookings'[b].token = TRUE
<1>1. rest.change.time \in Times /\ rest.change.party \in Parties
  BY RestTypes DEF InsertLock, RestStep, IInv, RestInv
<1>2. /\ NewBooking(b, rest.change.time, rest.change.party, TRUE)
      /\ UNCHANGED reservations
  BY DEF InsertLock
<1>3. QED BY <1>1, <1>2, FreshBooking, FreshBookingRows DEF IInv

LEMMA InsertTokenRows ==
  ASSUME IInv, NEW r \in FreeRow, InsertToken(r)
  PROVE  RowsInv' /\ Kept
<1> DEFINE b == rest.seen.booking
<1>1. b \in Rows /\ Booked(b) /\ rest.user \in Callers
  BY DEF InsertToken, RestStep, IInv, RestInv
<1>2. bookings[b].party \in Parties /\ "pending" \in Statuses
  BY <1>1, RowTypes DEF IInv, BookRow, Statuses
<1>3. /\ NewReservation(r, b, bookings[b].party, "pending", rest.user)
      /\ UNCHANGED bookings
  BY DEF InsertToken
<1> HIDE DEF b
<1>4. QED BY <1>1, <1>2, <1>3, FreshReservationRows DEF IInv

(* A handler that read a reservation writes a row in its place. *)
LEMMA RowEdited ==
  ASSUME IInv, rest.pc \in OnRow, NEW x \in ResRow,
         x.booking = reservations[rest.seen.res].booking,
         reservations' = [reservations EXCEPT ![rest.seen.res] = x],
         UNCHANGED bookings
  PROVE  RowsInv' /\ Kept
<1>1. rest.seen.res \in Rows /\ Exists(rest.seen.res)
  BY DEF IInv, RestInv, Known
<1>2. Booked(x.booking)
  BY <1>1 DEF IInv, RowsInv
<1>3. QED BY <1>1, <1>2, SetReservation DEF IInv

LEMMA OnRowTypes ==
  ASSUME IInv, rest.pc \in OnRow
  PROVE  /\ rest.seen.res \in Rows /\ Exists(rest.seen.res)
         /\ reservations[rest.seen.res] \in ResRow
         /\ rest.seen.booking \in Rows /\ Booked(rest.seen.booking)
         /\ bookings[rest.seen.booking] \in BookRow
  BY RowTypes DEF IInv, RestInv, Known

LEMMA FinalizeRows ==
  ASSUME IInv, WriteFinalize
  PROVE  RowsInv' /\ Kept
<1> DEFINE r == rest.seen.res
           x == [reservations[r] EXCEPT !.status = "confirmed"]
<1>1. rest.pc = "finalize" /\ rest.pc \in OnRow
  BY DEF WriteFinalize, RestStep, OnRow
<1>2. x \in ResRow /\ x.booking = reservations[r].booking
  BY <1>1, OnRowTypes, ResFields DEF Statuses
<1>3. CASE reservations[r].status = "pending"
  <2>1. reservations' = [reservations EXCEPT ![r] = x] /\ UNCHANGED bookings
    BY <1>3 DEF WriteFinalize
  <2> HIDE DEF x
  <2>2. QED BY <1>1, <1>2, <2>1, RowEdited
<1>4. CASE reservations[r].status # "pending"
  BY <1>4, NothingWritten DEF WriteFinalize, dbVars, IInv
<1>5. QED BY <1>3, <1>4

LEMMA CancelRows ==
  ASSUME IInv, WriteCancel
  PROVE  RowsInv' /\ Kept
<1> DEFINE r == rest.seen.res
           x == [reservations[r] EXCEPT !.status = "cancelled"]
<1>1. rest.pc = "cancel" /\ rest.pc \in OnRow
  BY DEF WriteCancel, RestStep, OnRow
<1>2. x \in ResRow /\ x.booking = reservations[r].booking
  BY <1>1, OnRowTypes, ResFields DEF Statuses
<1>3. CASE reservations[r].status \in {"pending", "confirmed"}
  <2>1. reservations' = [reservations EXCEPT ![r] = x] /\ UNCHANGED bookings
    BY <1>3 DEF WriteCancel
  <2> HIDE DEF x
  <2>2. QED BY <1>1, <1>2, <2>1, RowEdited
<1>4. CASE reservations[r].status \notin {"pending", "confirmed"}
  BY <1>4, NothingWritten DEF WriteCancel, dbVars, IInv
<1>5. QED BY <1>3, <1>4

LEMMA ReleaseRows ==
  ASSUME IInv, ReleaseSlot
  PROVE  RowsInv' /\ Kept
<1> DEFINE b == rest.seen.booking
           x == [bookings[b] EXCEPT !.status = "available"]
<1>1. b \in Rows /\ bookings[b] \in BookRow
  BY OnRowTypes DEF ReleaseSlot, RestStep, OnRow
<1>2. x \in BookRow /\ x.token = bookings[b].token
  BY <1>1, BookFields
<1>3. bookings' = [bookings EXCEPT ![b] = x] /\ UNCHANGED reservations
  BY DEF ReleaseSlot
<1> HIDE DEF b, x
<1>4. QED BY <1>1, <1>2, <1>3, SetBooking DEF IInv

LEMMA EditRows ==
  ASSUME IInv, WriteEdit
  PROVE  RowsInv' /\ Kept
<1> DEFINE r == rest.seen.res
           y == Changed(reservations[r], rest.change)
           x == [y EXCEPT !.half = Strays]
<1>1. rest.pc \in OnRow
  BY DEF WriteEdit, RestStep, OnRow
<1>2. y \in ResRow /\ y.booking = reservations[r].booking
  BY <1>1, OnRowTypes, ChangedRow, RestTypes DEF IInv
<1>3. Strays \in BOOLEAN
  BY DEF Strays
<1>4. reservations' = [reservations EXCEPT ![r] = x] /\ UNCHANGED bookings
  BY DEF WriteEdit
<1> HIDE DEF y
<1>5. x \in ResRow /\ x.booking = reservations[r].booking
  BY <1>2, <1>3, ResFields
<1> HIDE DEF x
<1>6. QED BY <1>1, <1>4, <1>5, RowEdited

(* The dashboard moves the booking; the row that waits for its size is the    *)
(* one it read.                                                               *)
LEMMA MoveEditRows ==
  ASSUME IInv, MoveEdit
  PROVE  RowsInv' /\ Kept
<1> DEFINE r == rest.seen.res
           b == rest.seen.booking
           more == rest.change.party # None \/ rest.change.status # None
           x == [reservations[r] EXCEPT !.half = more \/ Strays]
           y == [bookings[b] EXCEPT !.time = rest.change.time]
<1>1. rest.pc \in OnRow /\ rest.pc = "move"
  BY DEF MoveEdit, RestStep, OnRow
<1>2. /\ r \in Rows /\ Exists(r) /\ reservations[r] \in ResRow
      /\ b \in Rows /\ Booked(b) /\ bookings[b] \in BookRow
  BY <1>1, OnRowTypes
<1>3. rest.change.time \in Times
  BY <1>1, RestTypes DEF IInv, RestInv
<1>4. x \in ResRow /\ x.booking = reservations[r].booking
  BY <1>2, ResFields
<1>5. y \in BookRow /\ y.token = bookings[b].token
  BY <1>2, <1>3, BookFields
<1>6. /\ reservations' = [reservations EXCEPT ![r] = x]
      /\ bookings' = [bookings EXCEPT ![b] = y]
  <2>1. reservations' = [reservations EXCEPT ![r].half = more \/ Strays]
    BY DEF MoveEdit
  <2>2. QED BY <2>1 DEF MoveEdit
<1> HIDE DEF r, b, x, y
<1>7. \A d \in Rows : bookings'[d] = IF d = b THEN y ELSE bookings[d]
  BY <1>6, RowTypes DEF IInv
<1>8. \A q \in Rows : reservations'[q] = IF q = r THEN x ELSE reservations[q]
  BY <1>6, RowTypes DEF IInv
<1>9. y.time # None
  BY <1>5, ReservationsAssumption DEF BookRow
<1>10. Kept
  BY <1>2, <1>4, <1>5, <1>7, <1>8, <1>9 DEF Kept, Booked
<1>11. TypeRows'
  <2>1. bookings' \in [Rows -> BookRow \cup {NoBooking}]
    BY <1>5, <1>6, RowTypes DEF IInv
  <2>2. reservations' \in [Rows -> ResRow \cup {NoReservation}]
    BY <1>4, <1>6, RowTypes DEF IInv
  <2>3. QED BY <2>1, <2>2 DEF TypeRows, BookRow, ResRow
<1>12. \A q \in Rows : Exists(q)' => Booked(reservations[q].booking)'
  <2> TAKE q \in Rows
  <2> HAVE Exists(q)'
  <2>1. reservations'[q].booking = reservations[q].booking
    BY <1>4, <1>8
  <2>2. Exists(q)
    BY <2>1 DEF Exists
  <2>3. reservations[q].booking \in Rows /\ Booked(reservations[q].booking)
    BY <2>2, RowTypes DEF IInv, RowsInv, ResRow
  <2>4. bookings'[reservations[q].booking].time # None
    BY <2>3, <1>10 DEF Kept
  <2>5. QED BY <2>1, <2>4 DEF Booked
<1>13. QED BY <1>10, <1>11, <1>12 DEF RowsInv

LEMMA ExpireRows ==
  ASSUME IInv, NEW b \in Rows, Expire(b)
  PROVE  RowsInv' /\ Kept
<1> DEFINE x == [bookings[b] EXCEPT !.expired = TRUE]
<1>1. bookings[b] \in BookRow
  BY RowTypes DEF Expire, IInv
<1>2. x \in BookRow /\ x.token = bookings[b].token
  BY <1>1, BookFields
<1>3. bookings' = [bookings EXCEPT ![b] = x] /\ UNCHANGED reservations
  BY DEF Expire
<1> HIDE DEF x
<1>4. QED BY <1>2, <1>3, SetBooking DEF IInv

LEMMA RowStep ==
  ASSUME IInv, [Next]_vars
  PROVE  RowsInv' /\ Kept
<1> USE DEF IInv
<1>1. ASSUME UNCHANGED dbVars PROVE RowsInv' /\ Kept
  BY <1>1, NothingWritten
<1>2. ASSUME NEW c \in Calls, Loop(c) PROVE RowsInv' /\ Kept
  BY <1>1, <1>2 DEF Loop, ResumeFits, Resume, Timeout, EndCall
<1>3. ASSUME NEW c \in Calls, NEW a \in Asks, Request(c, a) PROVE RowsInv' /\ Kept
  BY <1>1, <1>3 DEF Request
<1>4. ASSUME NEW j \in Jobs, Thread(j) PROVE RowsInv' /\ Kept
  <2>1. ASSUME CheckCapacity(j) \/ LookupRefused(j) \/ CheckUpdate(j)
        PROVE  RowsInv' /\ Kept
    BY <1>1, <2>1 DEF CheckCapacity, LookupRefused, CheckUpdate
  <2>2. ASSUME \E r \in Rows : Lookup(j, r) PROVE RowsInv' /\ Kept
    BY <1>1, <2>2 DEF Lookup
  <2>3. QED BY <1>4, <2>1, <2>2, ThreadWrites DEF Thread
<1>5. ASSUME NEW j \in Jobs, FailThread(j) PROVE RowsInv' /\ Kept
  BY <1>1, <1>5 DEF FailThread
<1>6. ASSUME Dashboard PROVE RowsInv' /\ Kept
  <2>1. ASSUME \/ \E t \in Times, p \in Parties, u \in Callers : OpenDirect(t, p, u)
               \/ \E r \in Rows : OpenFinalize(r) \/ OpenCancel(r)
               \/ \E r \in Rows, e \in Edits : OpenEdit(r, e)
               \/ CheckFinalize \/ CheckEdit \/ RestFail
        PROVE  UNCHANGED dbVars
    BY <2>1 DEF OpenDirect, OpenFinalize, OpenCancel, OpenEdit, Open, CheckFinalize,
                CheckEdit, RestFail
  <2>2. QED BY <1>1, <1>6, <2>1, InsertDirectRows, FinalizeRows, CancelRows,
               ReleaseRows, MoveEditRows, EditRows DEF Dashboard
<1>7. ASSUME Booking PROVE RowsInv' /\ Kept
  <2>1. ASSUME \/ \E t \in Times, p \in Parties : OpenLock(t, p)
               \/ \E b \in Rows, u \in Callers : OpenToken(b, u)
        PROVE  UNCHANGED dbVars
    BY <2>1 DEF OpenLock, OpenToken, Open
  <2>2. QED BY <1>1, <1>7, <2>1, InsertLockRows, InsertTokenRows DEF Booking
<1>8. ASSUME Crash PROVE RowsInv' /\ Kept
  BY <1>1, <1>8 DEF Crash
<1>9. ASSUME UNCHANGED vars PROVE RowsInv' /\ Kept
  BY <1>1, <1>9 DEF vars
<1>10. QED BY <1>2, <1>3, <1>4, <1>5, <1>6, <1>7, <1>8, <1>9, ExpireRows DEF Next

-----------------------------------------------------------------------------
(* What the threads know stays true. *)

LEMMA KnownStays ==
  ASSUME Kept, NEW s, Known(s)
  PROVE  /\ s.res \in Rows /\ Exists(s.res)'
         /\ s.booking \in Rows /\ Booked(s.booking)'
         /\ s.time \in Times /\ s.party \in Parties /\ s.status \in Statuses
  BY DEF Kept, Known, Exists, Booked

SameGoods(j) == ask'[j] = ask[j] /\ target'[j] = target[j] /\ seen'[j] = seen[j]

Resting == {"done", "refused", "failed", "over"}

LEMMA ReadyStays ==
  ASSUME Kept, NEW j \in Jobs, Ready(j), SameGoods(j),
         job'[j[1]] < j[2] => job[j[1]] < j[2],
         \/ pc'[j] = pc[j]
         \/ pc[j] # "none" /\ pc'[j] \in Resting
  PROVE  Ready(j)'
<1>1. Asked(j)' = Asked(j)
  BY DEF SameGoods, Asked
<1>2. CASE pc'[j] = pc[j]
  <2>1. Known(seen[j]) => Known(seen[j])'
    BY KnownStays DEF SameGoods, Known
  <2>2. target[j] \in Rows /\ Booked(target[j]) => Booked(target[j])'
    BY DEF Kept, Booked, SameGoods
  <2>3. QED BY <1>1, <1>2, <2>1, <2>2 DEF Ready, SameGoods
<1>3. CASE pc[j] # "none" /\ pc'[j] \in Resting
  BY <1>3 DEF Ready, Resting
<1>4. QED BY <1>2, <1>3

LEMMA ThreadsApart ==
  ASSUME IInv, Kept, UNCHANGED <<callVars, jobVars>>
  PROVE  ThreadsInv'
<1>1. TypeThreads'
  BY DEF IInv, ThreadsInv, TypeThreads, callVars, jobVars
<1>2. \A j \in Jobs : Ready(j)'
  BY ReadyStays DEF IInv, ThreadsInv, SameGoods, callVars, jobVars
<1>3. QED BY <1>1, <1>2 DEF ThreadsInv

(* One thread makes a step. *)
LEMMA OneThread ==
  ASSUME IInv, Kept, NEW j \in Jobs, NEW from, NEW to, ThreadStep(j, from, to),
         from # "none", UNCHANGED <<callVars, ask>>,
         TypeThreads',
         \A i \in Jobs : i # j => target'[i] = target[i] /\ seen'[i] = seen[i],
         to \in Resting \/ Ready(j)'
  PROVE  ThreadsInv'
<1>1. /\ job' = job /\ pc[j] = from /\ pc'[j] = to
      /\ \A i \in Jobs : i # j => pc'[i] = pc[i]
  BY DEF ThreadStep, IInv, ThreadsInv, TypeThreads, callVars
<1>2. ASSUME NEW i \in Jobs, i # j PROVE Ready(i)'
  BY <1>1, <1>2, ReadyStays DEF IInv, ThreadsInv, SameGoods
<1>3. to \in Resting => Ready(j)'
  BY <1>1 DEF IInv, ThreadsInv, Ready, Resting
<1>4. QED BY <1>2, <1>3 DEF ThreadsInv

PCs == Working \cup {"none", "fits", "refused", "done", "failed", "over"}

(* A thread that only moves on. *)
LEMMA TypeMoved ==
  ASSUME IInv, NEW j \in Jobs, NEW from, NEW to \in PCs, ThreadStep(j, from, to),
         UNCHANGED <<callVars, ask>>
  PROVE  /\ phase' \in [Calls -> {"idle", "waiting", "closed"}]
         /\ job' \in [Calls -> 0..MaxJobs]
         /\ pc' \in [Jobs -> PCs]
         /\ ask' \in [Jobs -> Asks \cup {NoAsk}]
         /\ (from # "none" => ~(job'[j[1]] < j[2]))
         /\ pc'[j] = to /\ ask'[j] = ask[j]
  BY DEF IInv, ThreadsInv, TypeThreads, ThreadStep, callVars, PCs, Ready

LEMMA CheckCapacityThreads ==
  ASSUME IInv, Kept, NEW j \in Jobs, CheckCapacity(j)
  PROVE  ThreadsInv'
<1> DEFINE to == IF Fits(Asked(j).time, Asked(j).party) THEN "fits" ELSE "refused"
<1>1. ThreadStep(j, "capacity", to) /\ UNCHANGED <<callVars, ask, target, seen>>
  BY DEF CheckCapacity
<1>2. to \in {"fits", "refused"} /\ to \in PCs
  BY DEF PCs
<1> HIDE DEF to
<1>3. TypeThreads' /\ pc'[j] = to /\ ~(job'[j[1]] < j[2]) /\ pc[j] = "capacity"
  BY <1>1, <1>2, TypeMoved DEF TypeThreads, PCs, IInv, ThreadsInv, ThreadStep
<1>4. Ready(j)'
  <2>1. Asked(j).time # None /\ Asked(j).party # None
    BY <1>3 DEF IInv, ThreadsInv, Ready
  <2>2. Asked(j)' = Asked(j)
    BY <1>1 DEF Asked
  <2>3. QED BY <1>2, <1>3, <2>1, <2>2 DEF Ready
<1>5. QED BY <1>1, <1>3, <1>4, OneThread

LEMMA InsertSlotThreads ==
  ASSUME IInv, Kept, RowsInv', NEW j \in Jobs, NEW b \in FreeBooking, InsertSlot(j, b)
  PROVE  ThreadsInv' /\ Booked(b)'
<1>1. /\ ThreadStep(j, "slot", "row")
      /\ target' = [target EXCEPT ![j] = b]
      /\ UNCHANGED <<callVars, ask, seen, reservations>>
  BY DEF InsertSlot
<1>2. b \in Rows /\ Booked(b)'
  <2>1. Asked(j).time \in Times /\ Asked(j).party \in Parties
    BY <1>1, AskedTypes DEF ThreadStep, Ready, IInv, ThreadsInv
  <2>2. NewBooking(b, Asked(j).time, Asked(j).party, FALSE)
    BY DEF InsertSlot
  <2>3. QED BY <1>1, <2>1, <2>2, FreshBookingRows DEF IInv
<1>3. TypeThreads' /\ pc'[j] = "row" /\ ~(job'[j[1]] < j[2]) /\ pc[j] = "slot"
      /\ target'[j] = b /\ \A i \in Jobs : i # j => target'[i] = target[i]
  <2>1. target' \in [Jobs -> Rows \cup {None}]
    BY <1>1, <1>2 DEF IInv, ThreadsInv, TypeThreads
  <2>2. target'[j] = b /\ \A i \in Jobs : i # j => target'[i] = target[i]
    BY <1>1 DEF IInv, ThreadsInv, TypeThreads
  <2>3. "row" \in PCs
    BY DEF PCs, Working
  <2>4. seen' \in [Jobs -> Snapshots]
    BY <1>1 DEF IInv, ThreadsInv, TypeThreads
  <2>5. QED BY <1>1, <2>1, <2>2, <2>3, <2>4, TypeMoved DEF TypeThreads, PCs, ThreadStep
<1>4. Ready(j)'
  <2>1. Asked(j).time # None /\ Asked(j).party # None
    BY <1>3 DEF IInv, ThreadsInv, Ready
  <2>2. Asked(j)' = Asked(j)
    BY <1>1 DEF Asked
  <2>3. target'[j] \in Rows /\ Booked(target[j])'
    BY <1>2, <1>3 DEF Booked
  <2>4. QED BY <1>3, <2>1, <2>2, <2>3 DEF Ready
<1>5. QED BY <1>1, <1>2, <1>3, <1>4, OneThread

LEMMA SnapshotKnown ==
  ASSUME IInv, NEW r \in Rows, Exists(r)
  PROVE  Snapshot(r) \in Snapshots /\ Known(Snapshot(r))
<1>1. reservations[r] \in ResRow /\ Booked(reservations[r].booking)
  BY RowTypes DEF IInv, RowsInv
<1>2. reservations[r].booking \in Rows
  BY <1>1 DEF ResRow
<1>3. bookings[reservations[r].booking] \in BookRow
  BY <1>1, <1>2, RowTypes DEF IInv
<1>4. TimeOf(r) \in Times
  BY <1>3 DEF TimeOf, BookRow
<1>5. reservations[r].party \in Parties /\ reservations[r].status \in Statuses
  BY <1>1 DEF ResRow
<1>6. Snapshot(r) \in Snapshots
  BY <1>2, <1>4, <1>5 DEF Snapshot, Snapshots
<1>7. QED BY <1>1, <1>2, <1>4, <1>5, <1>6 DEF Snapshot, Known

LEMMA LookupThreads ==
  ASSUME IInv, Kept, NEW j \in Jobs, NEW r \in Rows, Lookup(j, r)
  PROVE  ThreadsInv'
<1> DEFINE to == IF Asked(j).time = None /\ Asked(j).party = None
                   THEN "write" ELSE "check"
<1>1. /\ ThreadStep(j, "lookup", to)
      /\ seen' = [seen EXCEPT ![j] = Snapshot(r)]
      /\ UNCHANGED <<callVars, ask, target>>
      /\ UNCHANGED dbVars
  BY DEF Lookup
<1>2. Exists(r)
  BY DEF Lookup, LatestOf
<1>3. to \in {"write", "check"} /\ to \in PCs
  BY DEF PCs, Working
<1> HIDE DEF to
<1>4. /\ seen' \in [Jobs -> Snapshots] /\ seen'[j] = Snapshot(r)
      /\ \A i \in Jobs : i # j => seen'[i] = seen[i]
  BY <1>1, <1>2, SnapshotKnown DEF IInv, ThreadsInv, TypeThreads
<1>5. target' \in [Jobs -> Rows \cup {None}]
  BY <1>1 DEF IInv, ThreadsInv, TypeThreads
<1>6. TypeThreads' /\ pc'[j] = to /\ ~(job'[j[1]] < j[2]) /\ pc[j] = "lookup"
  BY <1>1, <1>3, <1>4, <1>5, TypeMoved DEF TypeThreads, PCs, ThreadStep
<1>7. Known(seen[j])'
  <2>1. Known(Snapshot(r))
    BY <1>2, SnapshotKnown
  <2>2. QED BY <2>1, <1>4, KnownStays DEF Known
<1>8. Ready(j)'
  BY <1>3, <1>6, <1>7 DEF Ready
<1>9. QED BY <1>1, <1>4, <1>6, <1>8, OneThread

LEMMA CheckUpdateThreads ==
  ASSUME IInv, Kept, NEW j \in Jobs, CheckUpdate(j)
  PROVE  ThreadsInv'
<1> DEFINE to == IF UpdateFits(j) THEN "write" ELSE "refused"
<1>1. ThreadStep(j, "check", to) /\ UNCHANGED <<callVars, ask, target, seen>>
  BY DEF CheckUpdate
<1>2. to \in {"write", "refused"} /\ to \in PCs
  BY DEF PCs, Working
<1> HIDE DEF to
<1>3. TypeThreads' /\ pc'[j] = to /\ ~(job'[j[1]] < j[2]) /\ pc[j] = "check"
  BY <1>1, <1>2, TypeMoved DEF TypeThreads, PCs, IInv, ThreadsInv, ThreadStep
<1>4. Ready(j)'
  <2>1. Known(seen[j])
    BY <1>3 DEF IInv, ThreadsInv, Ready
  <2>2. Known(seen[j])'
    BY <1>1, <2>1, KnownStays DEF Known
  <2>3. QED BY <1>2, <1>3, <2>2 DEF Ready
<1>5. QED BY <1>1, <1>3, <1>4, OneThread

LEMMA WriteUpdateThreads ==
  ASSUME IInv, Kept, NEW j \in Jobs, WriteUpdate(j)
  PROVE  ThreadsInv'
<1> DEFINE to == IF Asked(j).time = None THEN "done" ELSE "move"
<1>1. ThreadStep(j, "write", to) /\ UNCHANGED <<callVars, ask, target, seen>>
  BY DEF WriteUpdate
<1>2. /\ to \in {"done", "move"} /\ to \in PCs
      /\ to = "move" => Asked(j).time # None
  BY DEF PCs, Working
<1> HIDE DEF to
<1>3. TypeThreads' /\ pc'[j] = to /\ ~(job'[j[1]] < j[2]) /\ pc[j] = "write"
  BY <1>1, <1>2, TypeMoved DEF TypeThreads, PCs, IInv, ThreadsInv, ThreadStep
<1>4. Ready(j)'
  <2>1. Known(seen[j])
    BY <1>3 DEF IInv, ThreadsInv, Ready
  <2>2. Known(seen[j])'
    BY <1>1, <2>1, KnownStays DEF Known
  <2>3. Asked(j)' = Asked(j)
    BY <1>1 DEF Asked
  <2>4. QED BY <1>2, <1>3, <2>2, <2>3 DEF Ready
<1>5. QED BY <1>1, <1>3, <1>4, OneThread

(* The statements after which a thread is at rest. *)
LEMMA LastStepThreads ==
  ASSUME IInv, Kept, NEW j \in Jobs,
         \/ LookupRefused(j) \/ MoveUpdate(j)
         \/ \E r \in FreeRow : InsertReservation(j, r)
  PROVE  ThreadsInv'
<1>1. PICK from \in {"lookup", "move", "row"}, to \in {"refused", "done"} :
        ThreadStep(j, from, to) /\ UNCHANGED <<callVars, ask, target, seen>>
  BY DEF LookupRefused, MoveUpdate, InsertReservation
<1>2. to \in PCs /\ to \in Resting
  BY DEF PCs, Resting
<1>3. TypeThreads'
  BY <1>1, <1>2, TypeMoved DEF TypeThreads, PCs, IInv, ThreadsInv
<1>4. QED BY <1>1, <1>2, <1>3, OneThread

(* A thread that was queued, has failed, or was killed. *)
LEMMA ThreadsStop ==
  ASSUME IInv, Kept, UNCHANGED <<job, ask, target, seen>>,
         phase' \in [Calls -> {"idle", "waiting", "closed"}],
         pc' \in [Jobs -> PCs],
         \A j \in Jobs : \/ pc'[j] = pc[j]
                         \/ pc[j] # "none" /\ pc'[j] \in Resting
  PROVE  ThreadsInv'
<1>1. TypeThreads'
  BY DEF IInv, ThreadsInv, TypeThreads, PCs
<1>2. \A j \in Jobs : Ready(j)'
  BY ReadyStays DEF IInv, ThreadsInv, SameGoods
<1>3. QED BY <1>1, <1>2 DEF ThreadsInv

LEMMA FailThreadThreads ==
  ASSUME IInv, Kept, NEW j \in Jobs, FailThread(j)
  PROVE  ThreadsInv'
<1>1. /\ pc' \in [Jobs -> PCs]
      /\ \A i \in Jobs : \/ pc'[i] = pc[i]
                         \/ pc[i] # "none" /\ pc'[i] \in Resting
  BY DEF FailThread, IInv, ThreadsInv, TypeThreads, PCs, Resting, Working
<1>2. phase' \in [Calls -> {"idle", "waiting", "closed"}]
  BY DEF FailThread, callVars, IInv, ThreadsInv, TypeThreads
<1>3. QED BY <1>1, <1>2, ThreadsStop DEF FailThread, callVars

LEMMA CrashThreads ==
  ASSUME IInv, Kept, Crash
  PROVE  ThreadsInv'
<1>1. /\ pc' \in [Jobs -> PCs]
      /\ \A i \in Jobs : \/ pc'[i] = pc[i]
                         \/ pc[i] # "none" /\ pc'[i] \in Resting
  BY DEF Crash, IInv, ThreadsInv, TypeThreads, PCs, Resting, Working
<1>2. phase' \in [Calls -> {"idle", "waiting", "closed"}]
  BY DEF Crash, IInv, ThreadsInv, TypeThreads
<1>3. QED BY <1>1, <1>2, ThreadsStop DEF Crash

(* The cancelled await: the thread it waited for goes on or is withdrawn. *)
LEMMA AbandonedThreads ==
  ASSUME IInv, NEW c \in Calls, pc' \in Abandoned(c)
  PROVE  /\ pc' \in [Jobs -> PCs]
         /\ \A i \in Jobs : \/ pc'[i] = pc[i]
                            \/ pc[i] \in {"capacity", "lookup", "slot"} /\ pc'[i] = "over"
<1>1. pc \in [Jobs -> PCs]
  BY DEF IInv, ThreadsInv, TypeThreads, PCs
<1>2. CASE pc' = pc
  BY <1>1, <1>2
<1>3. CASE \E j \in Jobs : /\ pc[j] \in {"capacity", "lookup", "slot"}
                           /\ pc' = [pc EXCEPT ![j] = "over"]
  BY <1>1, <1>3 DEF PCs
<1>4. QED BY <1>2, <1>3 DEF Abandoned

LEMMA LoopThreads ==
  ASSUME IInv, Kept, NEW c \in Calls, Loop(c)
  PROVE  ThreadsInv'
<1> DEFINE j == Current(c)
<1>0. /\ job \in [Calls -> 0..MaxJobs] /\ pc \in [Jobs -> PCs]
      /\ phase \in [Calls -> {"idle", "waiting", "closed"}]
  BY DEF IInv, ThreadsInv, TypeThreads, PCs
<1>1. CASE ResumeFits(c)
  (* A coroutine that waits in `fits` awaits a job that was made. *)
  <2>1. /\ pc[j] = "fits" /\ pc' = [pc EXCEPT ![j] = "slot"]
        /\ UNCHANGED <<callVars, ask, target, seen>>
    BY <1>1 DEF ResumeFits
  <2>2. CASE j \in Jobs
    <3>1. PICK k \in Jobs : k = j
      BY <2>2
    <3>2. ThreadStep(k, "fits", "slot") /\ "slot" \in PCs
      BY <2>1, <3>1 DEF ThreadStep, PCs, Working
    <3> HIDE DEF j
    <3>3. TypeThreads' /\ pc'[k] = "slot" /\ ~(job'[k[1]] < k[2])
      BY <2>1, <3>2, TypeMoved DEF TypeThreads, PCs, IInv, ThreadsInv
    <3>4. Ready(k)'
      <4>1. Asked(k).time # None /\ Asked(k).party # None
        BY <2>1, <3>1 DEF IInv, ThreadsInv, Ready
      <4>2. Asked(k)' = Asked(k)
        BY <2>1 DEF Asked
      <4>3. QED BY <3>3, <4>1, <4>2 DEF Ready
    <3>5. QED BY <2>1, <3>2, <3>3, <3>4, OneThread
  <2>3. CASE j \notin Jobs
    <3>1. pc' = pc
      BY <1>0, <2>1, <2>3
    <3>2. QED BY <2>1, <3>1, ThreadsApart DEF jobVars
  <2>4. QED BY <2>2, <2>3
<1>2. CASE Resume(c)
  <2>1. /\ pc[j] \in {"done", "refused", "failed"}
        /\ pc' = [pc EXCEPT ![j] = IF @ = "failed" THEN "failed" ELSE "over"]
    BY <1>2 DEF Resume
  <2>2. pc' \in [Jobs -> PCs]
    BY <1>0, <2>1 DEF PCs
  <2>3. ASSUME NEW i \in Jobs
        PROVE  \/ pc'[i] = pc[i]
               \/ pc[i] # "none" /\ pc'[i] \in Resting
    <3> HIDE DEF j
    <3>1. CASE i = j
      BY <1>0, <2>1, <3>1 DEF Resting
    <3>2. CASE i # j
      BY <1>0, <2>1, <3>2
    <3>3. QED BY <3>1, <3>2
  <2>4. phase' \in [Calls -> {"idle", "waiting", "closed"}]
    BY <1>0, <1>2 DEF Resume
  <2>5. QED BY <1>2, <2>2, <2>3, <2>4, ThreadsStop DEF Resume
<1>3. CASE Timeout(c)
  <2>1. pc' \in Abandoned(c)
    BY <1>3 DEF Timeout
  <2>2. phase' \in [Calls -> {"idle", "waiting", "closed"}]
    BY <1>0, <1>3 DEF Timeout
  <2>3. QED BY <1>3, <2>1, <2>2, AbandonedThreads, ThreadsStop DEF Timeout, Resting
<1>4. CASE EndCall(c)
  <2>1. pc' = pc \/ pc' \in Abandoned(c)
    BY <1>4 DEF EndCall
  <2>2. phase' \in [Calls -> {"idle", "waiting", "closed"}]
    BY <1>0, <1>4 DEF EndCall
  <2>3. /\ pc' \in [Jobs -> PCs]
        /\ \A i \in Jobs : \/ pc'[i] = pc[i]
                           \/ pc[i] # "none" /\ pc'[i] \in Resting
    <3>1. CASE pc' = pc
      BY <1>0, <3>1
    <3>2. CASE pc' \in Abandoned(c)
      BY <3>2, AbandonedThreads DEF Resting
    <3>3. QED BY <2>1, <3>1, <3>2
  <2>4. QED BY <1>4, <2>2, <2>3, ThreadsStop DEF EndCall
<1>5. QED BY <1>1, <1>2, <1>3, <1>4 DEF Loop

LEMMA RequestThreads ==
  ASSUME IInv, Kept, NEW c \in Calls, NEW a \in Asks, Request(c, a)
  PROVE  ThreadsInv'
<1> DEFINE j == <<c, job[c] + 1>>
           to == IF a.kind = "create" THEN "capacity" ELSE "lookup"
<1>0. /\ job \in [Calls -> 0..MaxJobs] /\ pc \in [Jobs -> PCs]
      /\ phase \in [Calls -> {"idle", "waiting", "closed"}]
      /\ ask \in [Jobs -> Asks \cup {NoAsk}]
      /\ MaxJobs \in Nat
  BY ReservationsAssumption DEF IInv, ThreadsInv, TypeThreads, PCs
<1>1. /\ job[c] < MaxJobs
      /\ job' = [job EXCEPT ![c] = job[c] + 1]
      /\ ask' = [ask EXCEPT ![j] = a]
      /\ phase' = [phase EXCEPT ![c] = "waiting"]
      /\ pc' = [pc EXCEPT ![j] = to]
      /\ target' = target /\ seen' = seen
  BY DEF Request
<1>2. j \in Jobs
  BY <1>0, <1>1 DEF Jobs
<1>3. to \in {"capacity", "lookup"} /\ to \in PCs
  BY DEF PCs, Working
<1>4. to = "capacity" => a.change.time # None /\ a.change.party # None
  BY InputsAssumption
<1> HIDE DEF to
<1>5. /\ job' \in [Calls -> 0..MaxJobs] /\ job'[c] = job[c] + 1
      /\ \A d \in Calls : d # c => job'[d] = job[d]
      /\ job[c] \in Nat
  BY <1>0, <1>1
<1>6. /\ pc' \in [Jobs -> PCs] /\ pc'[j] = to
      /\ \A i \in Jobs : i # j => pc'[i] = pc[i]
  BY <1>0, <1>1, <1>2, <1>3
<1>7. /\ ask' \in [Jobs -> Asks \cup {NoAsk}] /\ ask'[j] = a
      /\ \A i \in Jobs : i # j => ask'[i] = ask[i]
  BY <1>0, <1>1, <1>2
<1>8. phase' \in [Calls -> {"idle", "waiting", "closed"}]
  BY <1>0, <1>1
<1>9. TypeThreads'
  BY <1>1, <1>5, <1>6, <1>7, <1>8 DEF IInv, ThreadsInv, TypeThreads, PCs
<1>10. ASSUME NEW i \in Jobs, i # j PROVE Ready(i)'
  <2>1. job'[i[1]] < i[2] => job[i[1]] < i[2]
    <3>1. i[1] \in Calls /\ i[2] \in 1..MaxJobs
      BY DEF Jobs
    <3>2. QED BY <1>0, <1>5, <3>1
  <2>2. QED BY <1>1, <1>6, <1>7, <1>10, <2>1, ReadyStays DEF IInv, ThreadsInv, SameGoods
<1>11. ASSUME NEW i \in Jobs, i = j PROVE Ready(i)'
  <2>1. i[1] = c /\ i[2] = job[c] + 1
    BY <1>11
  <2>2. ~(job'[i[1]] < i[2])
    BY <1>5, <2>1
  <2>3. Asked(i)' = a.change
    BY <1>7, <1>11 DEF Asked
  <2>4. pc'[i] = to
    BY <1>6, <1>11
  <2> HIDE DEF j
  <2>5. QED BY <1>3, <1>4, <2>2, <2>3, <2>4 DEF Ready
<1>12. QED BY <1>9, <1>10, <1>11 DEF ThreadsInv

LEMMA ThreadsStep ==
  ASSUME IInv, [Next]_vars
  PROVE  ThreadsInv'
<1>0. Kept /\ RowsInv'
  BY RowStep
<1>1. ASSUME UNCHANGED <<callVars, jobVars>> PROVE ThreadsInv'
  BY <1>0, <1>1, ThreadsApart
<1>2. ASSUME NEW j \in Jobs, Thread(j) PROVE ThreadsInv'
  BY <1>0, <1>2, CheckCapacityThreads, InsertSlotThreads, LookupThreads,
     CheckUpdateThreads, WriteUpdateThreads, LastStepThreads DEF Thread
<1>3. ASSUME Dashboard \/ Booking PROVE UNCHANGED <<callVars, jobVars>>
  <2>1. ASSUME Dashboard PROVE UNCHANGED <<callVars, jobVars>>
    BY <2>1 DEF Dashboard, OpenDirect, InsertDirect, OpenFinalize, OpenCancel, OpenEdit,
                Open, CheckFinalize, WriteFinalize, WriteCancel, ReleaseSlot, CheckEdit,
                MoveEdit, WriteEdit, RestFail, RestStep
  <2>2. ASSUME Booking PROVE UNCHANGED <<callVars, jobVars>>
    BY <2>2 DEF Booking, OpenLock, InsertLock, OpenToken, InsertToken, Open, RestStep
  <2>3. QED BY <1>3, <2>1, <2>2
<1>4. ASSUME NEW b \in Rows, Expire(b) PROVE UNCHANGED <<callVars, jobVars>>
  BY <1>4 DEF Expire
<1>5. ASSUME UNCHANGED vars PROVE UNCHANGED <<callVars, jobVars>>
  BY <1>5 DEF vars
<1>6. QED BY <1>0, <1>1, <1>2, <1>3, <1>4, <1>5, LoopThreads, RequestThreads,
             FailThreadThreads, CrashThreads DEF Next

-----------------------------------------------------------------------------
(* What a handler knows stays true. *)

LEMMA RestApart ==
  ASSUME IInv, Kept, UNCHANGED restVars
  PROVE  RestInv'
<1>1. Known(rest.seen) => Known(rest.seen)'
  BY KnownStays DEF Known, restVars
<1>2. rest.seen.booking \in Rows /\ Booked(rest.seen.booking)
        => Booked(rest.seen.booking)'
  BY DEF Kept, Booked, restVars
<1>3. QED BY <1>1, <1>2 DEF IInv, RestInv, restVars

LEMMA RestIdle ==
  ASSUME IInv, rest' = Idle, UNCHANGED restOps
  PROVE  RestInv'
<1>1. Idle.pc = "idle" /\ Idle \in [pc : Handlers, seen : Snapshots, change : Changes,
                                    user : Callers \cup {None}]
  BY DEF Idle, Handlers, Snapshots, NoSnapshot, Changes, NoChange
<1>2. QED BY <1>1 DEF IInv, RestInv, OnRow

(* A handler opens: next is its first statement. *)
LEMMA RestOpens ==
  ASSUME IInv, Kept, NEW next \in Handlers, NEW read \in Snapshots,
         NEW change \in Changes, NEW u \in Callers \cup {None},
         Open(next, read, change, u),
         next \in {"direct", "lock"} => change.time # None /\ change.party # None,
         next \in {"direct", "token"} => u \in Callers,
         next = "token" => read.booking \in Rows /\ Booked(read.booking),
         next = "move" => change.time # None,
         next \in OnRow => Known(read)
  PROVE  RestInv'
<1>1. /\ rest' = [pc |-> next, seen |-> read, change |-> change, user |-> u]
      /\ restOps < MaxRest /\ restOps' = restOps + 1
  BY DEF Open
<1>2. restOps' \in 0..MaxRest
  BY <1>1, ReservationsAssumption DEF IInv, RestInv
<1>3. /\ rest' \in [pc : Handlers, seen : Snapshots, change : Changes,
                    user : Callers \cup {None}]
      /\ rest'.pc = next /\ rest'.seen = read /\ rest'.change = change /\ rest'.user = u
  BY <1>1
<1>4. Known(read) => Known(read)'
  BY KnownStays DEF Known
<1>5. read.booking \in Rows /\ Booked(read.booking) => Booked(read.booking)'
  BY DEF Kept, Booked
<1>6. (Known(rest.seen))' <=> Known(read)'
  BY <1>3 DEF Known
<1>7. (Booked(rest.seen.booking))' <=> Booked(read.booking)'
  BY <1>3 DEF Booked
<1>8. QED BY <1>2, <1>3, <1>4, <1>5, <1>6, <1>7 DEF RestInv

(* A handler goes on with the row it read. *)
LEMMA RestMoves ==
  ASSUME IInv, Kept, NEW from \in OnRow, NEW next \in OnRow, RestStep(from, next),
         next = "move" => rest.change.time # None
  PROVE  RestInv'
<1>1. rest.pc = from /\ rest' = [rest EXCEPT !.pc = next] /\ restOps' = restOps
  BY DEF RestStep, OnRow
<1>2. /\ rest'.pc = next /\ rest'.seen = rest.seen /\ rest'.change = rest.change
      /\ rest' \in [pc : Handlers, seen : Snapshots, change : Changes,
                    user : Callers \cup {None}]
  BY <1>1 DEF IInv, RestInv, Handlers
<1>3. Known(rest.seen)
  BY <1>1 DEF IInv, RestInv
<1>4. Known(rest.seen)'
  BY <1>2, <1>3, KnownStays DEF Known
<1>5. QED BY <1>1, <1>2, <1>4 DEF IInv, RestInv, OnRow

LEMMA DashboardRest ==
  ASSUME IInv, [Next]_vars, Dashboard
  PROVE  RestInv'
<1>0. Kept
  BY RowStep
<1>a. NoSnapshot \in Snapshots /\ NoChange \in Changes
  BY DEF NoSnapshot, Snapshots, NoChange, Changes
<1>b. {"direct", "confirm", "cancel", "check", "move", "edit"} \subseteq Handlers
  BY DEF Handlers, OnRow
<1>1. ASSUME NEW t \in Times, NEW p \in Parties, NEW u \in Callers, OpenDirect(t, p, u)
      PROVE  RestInv'
  <2>1. Wanted(t, p) \in Changes /\ Wanted(t, p).time = t /\ Wanted(t, p).party = p
    BY <1>a DEF Wanted, Changes
  <2>2. t # None /\ p # None
    BY ReservationsAssumption
  <2>3. Open("direct", NoSnapshot, Wanted(t, p), u)
    BY <1>1 DEF OpenDirect
  <2>4. QED BY <1>0, <1>a, <1>b, <2>1, <2>2, <2>3, RestOpens DEF OnRow
<1>2. ASSUME NEW r \in Rows, OpenFinalize(r) \/ OpenCancel(r)
      PROVE  RestInv'
  <2>1. Exists(r)
    BY <1>2 DEF OpenFinalize, OpenCancel
  <2>2. PICK next \in {"confirm", "cancel"} : Open(next, Snapshot(r), NoChange, None)
    BY <1>2 DEF OpenFinalize, OpenCancel
  <2>3. QED BY <1>0, <1>a, <1>b, <2>1, <2>2, SnapshotKnown, RestOpens
<1>3. ASSUME NEW r \in Rows, NEW e \in Edits, OpenEdit(r, e)
      PROVE  RestInv'
  <2>1. Exists(r) /\ e \in Changes
    BY <1>3, InputsAssumption DEF OpenEdit
  <2>2. PICK next \in {"check", "move", "edit"} :
          Open(next, Snapshot(r), e, None) /\ (next = "move" => e.time # None)
    BY <1>3 DEF OpenEdit, AfterCheck
  <2>3. QED BY <1>0, <1>b, <2>1, <2>2, SnapshotKnown, RestOpens
<1>4. ASSUME CheckFinalize \/ WriteCancel \/ CheckEdit \/ MoveEdit
      PROVE  RestInv'
  <2>1. PICK from \in {"confirm", "cancel", "check", "move"},
             next \in {"finalize", "release", "move", "edit", "idle"} :
          /\ RestStep(from, next)
          /\ next = "move" => rest.change.time # None
    BY <1>4 DEF CheckFinalize, WriteCancel, CheckEdit, MoveEdit, AfterCheck
  <2>2. CASE next = "idle"
    BY <2>1, <2>2, RestIdle DEF RestStep
  <2>3. CASE next # "idle"
    BY <1>0, <2>1, <2>3, RestMoves DEF OnRow
  <2>4. QED BY <2>2, <2>3
<1>5. ASSUME \/ WriteFinalize \/ ReleaseSlot \/ WriteEdit \/ RestFail
             \/ \E b \in FreeBooking, r \in FreeRow : InsertDirect(b, r)
      PROVE  RestInv'
  <2>1. rest' = Idle /\ restOps' = restOps
    BY <1>5 DEF WriteFinalize, ReleaseSlot, WriteEdit, RestFail, InsertDirect, RestStep
  <2>2. QED BY <2>1, RestIdle
<1>6. QED BY <1>1, <1>2, <1>3, <1>4, <1>5 DEF Dashboard

LEMMA BookingRest ==
  ASSUME IInv, [Next]_vars, Booking
  PROVE  RestInv'
<1>0. Kept
  BY RowStep
<1>a. NoSnapshot \in Snapshots /\ NoChange \in Changes
  BY DEF NoSnapshot, Snapshots, NoChange, Changes
<1>b. {"lock", "token"} \subseteq Handlers
  BY DEF Handlers
<1>1. ASSUME NEW t \in Times, NEW p \in Parties, OpenLock(t, p)
      PROVE  RestInv'
  <2>1. Wanted(t, p) \in Changes /\ Wanted(t, p).time = t /\ Wanted(t, p).party = p
    BY <1>a DEF Wanted, Changes
  <2>2. t # None /\ p # None
    BY ReservationsAssumption
  <2>3. Open("lock", NoSnapshot, Wanted(t, p), None)
    BY <1>1 DEF OpenLock
  <2>4. QED BY <1>0, <1>a, <1>b, <2>1, <2>2, <2>3, RestOpens DEF OnRow
<1>2. ASSUME NEW b \in Rows, NEW u \in Callers, OpenToken(b, u)
      PROVE  RestInv'
  <2> DEFINE read == [NoSnapshot EXCEPT !.booking = b]
  <2>1. read \in Snapshots /\ read.booking = b
    BY <1>a DEF Snapshots
  <2>2. Booked(b) /\ Open("token", read, NoChange, u)
    BY <1>2 DEF OpenToken, Usable
  <2> HIDE DEF read
  <2>3. QED BY <1>0, <1>a, <1>b, <2>1, <2>2, RestOpens DEF OnRow
<1>3. ASSUME \/ \E b \in FreeBooking : InsertLock(b)
             \/ \E r \in FreeRow : InsertToken(r)
      PROVE  RestInv'
  <2>1. rest' = Idle /\ restOps' = restOps
    BY <1>3 DEF InsertLock, InsertToken, RestStep
  <2>2. QED BY <2>1, RestIdle
<1>4. QED BY <1>1, <1>2, <1>3 DEF Booking

LEMMA RestStays ==
  ASSUME IInv, [Next]_vars
  PROVE  RestInv'
<1>0. Kept
  BY RowStep
<1>1. ASSUME NEW c \in Calls, Loop(c) \/ \E a \in Asks : Request(c, a)
      PROVE  UNCHANGED restVars
  BY <1>1 DEF Loop, ResumeFits, Resume, Timeout, EndCall, Request
<1>2. ASSUME NEW j \in Jobs, Thread(j) \/ FailThread(j)
      PROVE  UNCHANGED restVars
  <2>1. ASSUME Thread(j) PROVE UNCHANGED restVars
    BY <2>1 DEF Thread, CheckCapacity, LookupRefused, CheckUpdate, WriteUpdate,
                MoveUpdate, InsertSlot, InsertReservation, Lookup
  <2>2. ASSUME FailThread(j) PROVE UNCHANGED restVars
    BY <2>2 DEF FailThread
  <2>3. QED BY <1>2, <2>1, <2>2
<1>3. ASSUME \/ \E b \in Rows : Expire(b)
             \/ UNCHANGED vars
      PROVE  UNCHANGED restVars
  BY <1>3 DEF Expire, vars, restVars
<1>4. ASSUME Crash PROVE RestInv'
  BY <1>4, RestIdle DEF Crash
<1>5. QED BY <1>0, <1>1, <1>2, <1>3, <1>4, RestApart, DashboardRest, BookingRest DEF Next

-----------------------------------------------------------------------------
(* The invariant. *)

LEMMA InitIInv == Init => IInv
<1> SUFFICES ASSUME Init PROVE IInv
  OBVIOUS
<1>1. RowsInv
  <2>1. TypeRows
    BY DEF Init, TypeRows
  <2>2. \A r \in Rows : ~Exists(r)
    BY DEF Init, Exists, NoReservation
  <2>3. QED BY <2>1, <2>2 DEF RowsInv
<1>2. ThreadsInv
  <2>1. TypeThreads
    <3>1. NoSnapshot \in Snapshots
      BY DEF NoSnapshot, Snapshots
    <3>2. 0 \in 0..MaxJobs
      BY ReservationsAssumption
    <3>3. QED BY <3>1, <3>2 DEF Init, TypeThreads
  <2>2. \A j \in Jobs : Ready(j)
    BY DEF Init, Ready
  <2>3. QED BY <2>1, <2>2 DEF ThreadsInv
<1>3. RestInv
  <2>1. Idle.pc = "idle" /\ Idle \in [pc : Handlers, seen : Snapshots,
                                      change : Changes, user : Callers \cup {None}]
    BY DEF Idle, Handlers, Snapshots, NoSnapshot, Changes, NoChange
  <2>2. restOps \in 0..MaxRest
    BY ReservationsAssumption DEF Init
  <2>3. rest = Idle
    BY DEF Init
  <2>4. QED BY <2>1, <2>2, <2>3 DEF RestInv, OnRow
<1>4. QED BY <1>1, <1>2, <1>3 DEF IInv

LEMMA StepIInv == IInv /\ [Next]_vars => IInv'
  BY RowStep, ThreadsStep, RestStays DEF IInv

LEMMA IInvTypes == IInv => TypeOK
  BY DEF IInv, RowsInv, ThreadsInv, RestInv, TypeOK

LEMMA InvariantHolds == Spec => []IInv
  BY InitIInv, StepIInv, PTL DEF Spec

(* Every variable keeps its type, and a reservation always has a booking that *)
(* exists: no step of another actor takes from a thread or a handler the row  *)
(* it has read.                                                               *)
THEOREM TypeCorrect == Spec => []TypeOK
  BY InvariantHolds, IInvTypes, PTL
-----------------------------------------------------------------------------
(* A booking without a reservation. *)

(* The rows that appear. *)
LEMMA BookingsFrom ==
  ASSUME IInv, [Next]_vars, NEW b \in Rows, ~Booked(b), Booked(b)'
  PROVE  \/ \E j \in Jobs : InsertSlot(j, b)
         \/ \E r \in FreeRow : InsertDirect(b, r)
         \/ InsertLock(b)
<1>0. bookings'[b] # bookings[b] /\ bookings' # bookings
  BY DEF Booked
<1>1. ASSUME NEW d \in Rows, Booked(d), NEW x, bookings' = [bookings EXCEPT ![d] = x]
      PROVE  FALSE
  BY <1>0, <1>1, RowTypes DEF IInv
<1>2. ASSUME NEW d \in FreeBooking, NEW x, bookings' = [bookings EXCEPT ![d] = x]
      PROVE  d = b
  BY <1>0, <1>2, RowTypes DEF IInv, FreeBooking
<1>3. ASSUME NEW j \in Jobs, MoveUpdate(j) PROVE FALSE
  <2>1. seen[j].booking \in Rows /\ Booked(seen[j].booking)
    BY <1>3 DEF MoveUpdate, ThreadStep, IInv, ThreadsInv, Ready, Known
  <2>2. PICK x : bookings' = [bookings EXCEPT ![seen[j].booking] = x]
    BY <1>3 DEF MoveUpdate
  <2>3. QED BY <2>1, <2>2, <1>1
<1>4. ASSUME ReleaseSlot \/ MoveEdit PROVE FALSE
  <2>1. rest.seen.booking \in Rows /\ Booked(rest.seen.booking)
    BY <1>4, OnRowTypes DEF ReleaseSlot, MoveEdit, RestStep, OnRow
  <2>2. PICK x : bookings' = [bookings EXCEPT ![rest.seen.booking] = x]
    BY <1>4 DEF ReleaseSlot, MoveEdit
  <2>3. QED BY <2>1, <2>2, <1>1
<1>5. ASSUME NEW d \in Rows, Expire(d) PROVE FALSE
  <2>1. PICK x : bookings' = [bookings EXCEPT ![d] = x]
    BY <1>5 DEF Expire
  <2>2. QED BY <2>1, <1>1, <1>5 DEF Expire
<1>6. ASSUME NEW j \in Jobs, Thread(j) PROVE InsertSlot(j, b)
  <2>1. ASSUME NEW d \in FreeBooking, InsertSlot(j, d) PROVE d = b
    <3>1. PICK x : bookings' = [bookings EXCEPT ![d] = x]
      BY <2>1 DEF InsertSlot, NewBooking
    <3>2. QED BY <3>1, <1>2
  <2>2. ASSUME \/ CheckCapacity(j) \/ LookupRefused(j) \/ CheckUpdate(j) \/ WriteUpdate(j)
               \/ \E r \in FreeRow : InsertReservation(j, r)
               \/ \E r \in Rows : Lookup(j, r)
        PROVE  FALSE
    BY <1>0, <2>2 DEF CheckCapacity, LookupRefused, CheckUpdate, WriteUpdate,
                      InsertReservation, Lookup, dbVars
  <2>3. QED BY <1>3, <1>6, <2>1, <2>2 DEF Thread
<1>7. ASSUME Dashboard PROVE \E r \in FreeRow : InsertDirect(b, r)
  <2>1. ASSUME NEW d \in FreeBooking, NEW r \in FreeRow, InsertDirect(d, r) PROVE d = b
    <3>1. PICK x : bookings' = [bookings EXCEPT ![d] = x]
      BY <2>1 DEF InsertDirect, NewBooking
    <3>2. QED BY <3>1, <1>2
  <2>2. ASSUME \/ \E t \in Times, p \in Parties, u \in Callers : OpenDirect(t, p, u)
               \/ \E r \in Rows : OpenFinalize(r) \/ OpenCancel(r)
               \/ \E r \in Rows, e \in Edits : OpenEdit(r, e)
               \/ CheckFinalize \/ CheckEdit \/ RestFail
               \/ WriteFinalize \/ WriteCancel \/ WriteEdit
        PROVE  FALSE
    BY <1>0, <2>2 DEF OpenDirect, OpenFinalize, OpenCancel, OpenEdit, Open, CheckFinalize,
                      CheckEdit, RestFail, WriteFinalize, WriteCancel, WriteEdit, dbVars
  <2>3. QED BY <1>4, <1>7, <2>1, <2>2 DEF Dashboard
<1>8. ASSUME Booking PROVE InsertLock(b)
  <2>1. ASSUME NEW d \in FreeBooking, InsertLock(d) PROVE d = b
    <3>1. PICK x : bookings' = [bookings EXCEPT ![d] = x]
      BY <2>1 DEF InsertLock, NewBooking
    <3>2. QED BY <3>1, <1>2
  <2>2. ASSUME \/ \E t \in Times, p \in Parties : OpenLock(t, p)
               \/ \E d \in Rows, u \in Callers : OpenToken(d, u)
               \/ \E r \in FreeRow : InsertToken(r)
        PROVE  FALSE
    BY <1>0, <2>2 DEF OpenLock, OpenToken, Open, InsertToken, dbVars
  <2>3. QED BY <1>8, <2>1, <2>2 DEF Booking
<1>9. ASSUME \/ \E c \in Calls : Loop(c)
             \/ \E c \in Calls, a \in Asks : Request(c, a)
             \/ \E j \in Jobs : FailThread(j)
             \/ Crash \/ UNCHANGED vars
      PROVE  FALSE
  BY <1>0, <1>9 DEF Loop, ResumeFits, Resume, Timeout, EndCall, Request, FailThread,
                    Crash, vars, dbVars
<1>10. QED BY <1>5, <1>6, <1>7, <1>8, <1>9 DEF Next

(* The thread that answers for a booking goes on to do so. *)
LEMMA WitnessStays ==
  ASSUME IInv, [Next]_vars, NEW j \in Jobs, pc[j] \in {"row", "failed"}
  PROVE  \/ pc'[j] \in {"row", "failed"} /\ target'[j] = target[j]
         \/ \E r \in FreeRow : InsertReservation(j, r)
<1>0. pc \in [Jobs -> PCs] /\ target \in [Jobs -> Rows \cup {None}]
  BY DEF IInv, ThreadsInv, TypeThreads, PCs
<1>1. ASSUME UNCHANGED jobVars PROVE pc'[j] = pc[j] /\ target'[j] = target[j]
  BY <1>1 DEF jobVars
<1>2. ASSUME NEW i \in Jobs, NEW from, NEW to, ThreadStep(i, from, to),
             from \notin {"row", "failed"}
      PROVE  pc'[j] = pc[j] /\ i # j
  BY <1>0, <1>2 DEF ThreadStep
<1>3. ASSUME NEW i \in Jobs, Thread(i), ~\E r \in FreeRow : InsertReservation(j, r)
      PROVE  pc'[j] = pc[j] /\ target'[j] = target[j]
  <2>1. ASSUME NEW d \in FreeBooking, InsertSlot(i, d)
        PROVE  pc'[j] = pc[j] /\ target'[j] = target[j]
    <3>1. pc'[j] = pc[j] /\ i # j
      BY <1>2, <2>1 DEF InsertSlot
    <3>2. target'[j] = target[j]
      BY <1>0, <2>1, <3>1 DEF InsertSlot
    <3>3. QED BY <3>1, <3>2
  <2>2. ASSUME NEW r \in FreeRow, InsertReservation(i, r)
        PROVE  pc'[j] = pc[j] /\ target'[j] = target[j]
    <3>1. i # j
      BY <1>3, <2>2
    <3>2. QED BY <1>0, <2>2, <3>1 DEF InsertReservation, ThreadStep
  <2>3. ASSUME \/ CheckCapacity(i) \/ LookupRefused(i) \/ CheckUpdate(i)
               \/ WriteUpdate(i) \/ MoveUpdate(i)
               \/ \E r \in Rows : Lookup(i, r)
        PROVE  pc'[j] = pc[j] /\ target'[j] = target[j]
    <3>1. PICK from \in {"capacity", "lookup", "check", "write", "move"} :
            \E to : ThreadStep(i, from, to)
      BY <2>3 DEF CheckCapacity, LookupRefused, CheckUpdate, WriteUpdate, MoveUpdate, Lookup
    <3>2. target' = target
      BY <2>3 DEF CheckCapacity, LookupRefused, CheckUpdate, WriteUpdate, MoveUpdate, Lookup
    <3>3. QED BY <1>2, <3>1, <3>2
  <2>4. QED BY <1>3, <2>1, <2>2, <2>3 DEF Thread
<1>4. ASSUME NEW c \in Calls, Loop(c)
      PROVE  pc'[j] \in {"row", "failed"} /\ target'[j] = target[j]
  <2>1. ASSUME ResumeFits(c) \/ Resume(c)
        PROVE  pc'[j] \in {"row", "failed"}
    BY <1>0, <2>1 DEF ResumeFits, Resume
  <2>2. ASSUME Timeout(c) \/ EndCall(c)
        PROVE  pc'[j] = pc[j]
    <3>1. pc' = pc \/ pc' \in Abandoned(c)
      BY <2>2 DEF Timeout, EndCall
    <3>2. CASE pc' \in Abandoned(c)
      BY <3>2, AbandonedThreads
    <3>3. QED BY <3>1, <3>2
  <2>3. target' = target
    BY <1>4 DEF Loop, ResumeFits, Resume, Timeout, EndCall
  <2>4. QED BY <1>4, <2>1, <2>2, <2>3 DEF Loop
<1>5. ASSUME NEW c \in Calls, NEW a \in Asks, Request(c, a)
      PROVE  pc'[j] = pc[j] /\ target'[j] = target[j]
  <2>1. j # <<c, job[c] + 1>>
    <3>1. ~(job[j[1]] < j[2])
      BY DEF IInv, ThreadsInv, Ready
    <3>2. job[c] \in 0..MaxJobs /\ MaxJobs \in Nat
      BY ReservationsAssumption DEF IInv, ThreadsInv, TypeThreads
    <3>3. QED BY <3>1, <3>2
  <2>2. QED BY <1>0, <1>5, <2>1 DEF Request
<1>6. ASSUME \/ \E i \in Jobs : FailThread(i)
             \/ Crash
      PROVE  pc'[j] \in {"row", "failed"} /\ target'[j] = target[j]
  BY <1>0, <1>6 DEF FailThread, Crash, Working
<1>7. ASSUME Dashboard PROVE UNCHANGED jobVars
  BY <1>7 DEF Dashboard, OpenDirect, InsertDirect, OpenFinalize, OpenCancel, OpenEdit,
              Open, CheckFinalize, WriteFinalize, WriteCancel, ReleaseSlot, CheckEdit,
              MoveEdit, WriteEdit, RestFail, RestStep
<1>8. ASSUME \/ Booking
             \/ \E b \in Rows : Expire(b)
             \/ UNCHANGED vars
      PROVE  UNCHANGED jobVars
  BY <1>8 DEF Booking, OpenLock, InsertLock, OpenToken, InsertToken, Open, RestStep,
              Expire, vars
<1>9. QED BY <1>1, <1>3, <1>4, <1>5, <1>6, <1>7, <1>8 DEF Next

LEMMA OrphanStep ==
  ASSUME IInv, [Next]_vars, OrphansAreFailures
  PROVE  OrphansAreFailures'
<1>0. Kept /\ RowsInv'
  BY RowStep
<1> SUFFICES ASSUME NEW b \in Rows, Orphan(b)'
             PROVE  \E j \in Jobs : target'[j] = b /\ pc'[j] \in {"row", "failed"}
  BY DEF OrphansAreFailures
<1>1. Booked(b)' /\ bookings'[b].token # TRUE
  BY DEF Orphan
<1>2. \A r \in Rows : reservations'[r].booking # b
  BY DEF Orphan
<1>3. CASE Booked(b)
  <2>1. bookings'[b].token = bookings[b].token
    BY <1>0, <1>3 DEF Kept
  <2>2. ASSUME NEW r \in Rows PROVE reservations[r].booking # b
    <3>1. b # None
      BY ReservationsAssumption DEF Rows
    <3>2. CASE Exists(r)
      BY <1>0, <1>2, <3>2 DEF Kept
    <3>3. CASE ~Exists(r)
      BY <3>1, <3>3 DEF Exists
    <3>4. QED BY <3>2, <3>3
  <2>3. bookings[b] \in BookRow
    BY <1>3, RowTypes DEF IInv
  <2>4. Orphan(b)
    BY <1>1, <1>3, <2>1, <2>2, <2>3 DEF Orphan, BookRow
  <2>5. PICK j \in Jobs : target[j] = b /\ pc[j] \in {"row", "failed"}
    BY <2>4 DEF OrphansAreFailures
  <2>6. ASSUME NEW r \in FreeRow, InsertReservation(j, r) PROVE FALSE
    <3>1. Asked(j).party \in Parties /\ pc[j] = "row"
      BY <2>6, AskedTypes DEF InsertReservation, ThreadStep, IInv, ThreadsInv, Ready
    <3>2. CallerOf[j[1]] \in Callers /\ "pending" \in Statuses
      BY ReservationsAssumption DEF Jobs, Statuses
    <3>3. NewReservation(r, b, Asked(j).party, "pending", CallerOf[j[1]])
      BY <2>5, <2>6 DEF InsertReservation
    <3>4. r \in Rows /\ reservations'[r].booking = b
      BY <3>1, <3>2, <3>3, FreshReservation DEF IInv
    <3>5. QED BY <1>2, <3>4
  <2>7. QED BY <2>5, <2>6, WitnessStays
<1>4. CASE ~Booked(b)
  <2>1. ASSUME NEW j \in Jobs, InsertSlot(j, b)
        PROVE  target'[j] = b /\ pc'[j] \in {"row", "failed"}
    <3>1. /\ pc \in [Jobs -> PCs] /\ target \in [Jobs -> Rows \cup {None}]
      BY DEF IInv, ThreadsInv, TypeThreads, PCs
    <3>2. QED BY <2>1, <3>1 DEF InsertSlot, ThreadStep
  <2>2. ASSUME NEW r \in FreeRow, InsertDirect(b, r) PROVE FALSE
    <3>1. /\ rest.change.party \in Parties /\ rest.user \in Callers
      BY <2>2, RestTypes DEF InsertDirect, RestStep, IInv, RestInv
    <3>2. NewReservation(r, b, rest.change.party, "confirmed", rest.user)
      BY <2>2 DEF InsertDirect
    <3>3. r \in Rows /\ reservations'[r].booking = b
      BY <3>1, <3>2, FreshReservation DEF IInv, Statuses
    <3>4. QED BY <1>2, <3>3
  <2>3. ASSUME InsertLock(b) PROVE FALSE
    <3>1. rest.change.time \in Times /\ rest.change.party \in Parties
      BY <2>3, RestTypes DEF InsertLock, RestStep, IInv, RestInv
    <3>2. bookings' = [bookings EXCEPT ![b] =
             [NoBooking EXCEPT !.time = rest.change.time, !.status = "reserved",
                               !.party = rest.change.party, !.token = TRUE]]
      BY <2>3 DEF InsertLock, NewBooking
    <3>3. NoBooking \in BlankBooking
      BY DEF NoBooking, BlankBooking
    <3>4. bookings'[b].token = TRUE
      BY <3>2, <3>3, RowTypes DEF IInv, BlankBooking
    <3>5. QED BY <1>1, <3>4
  <2>4. QED BY <1>1, <1>4, <2>1, <2>2, <2>3, BookingsFrom
<1>5. QED BY <1>3, <1>4

(* A booking of the agent without its reservation is the trace of a thread    *)
(* that is about to insert it or has failed in between: no dashboard step, no *)
(* retry, no cancelled await and no crash makes another.                      *)
THEOREM OrphansExplained == Spec => []OrphansAreFailures
<1>1. Init => OrphansAreFailures
  <2> SUFFICES ASSUME Init, NEW b \in Rows PROVE ~Orphan(b)
    BY DEF OrphansAreFailures
  <2>1. bookings[b].time = None
    BY DEF Init, NoBooking
  <2>2. QED BY <2>1 DEF Orphan, Booked
<1>2. IInv /\ OrphansAreFailures /\ [Next]_vars => OrphansAreFailures'
  BY OrphanStep
<1>3. QED BY <1>1, <1>2, InvariantHolds, PTL DEF Spec

-----------------------------------------------------------------------------
(* A cancellation. *)

Asking == \/ rest.pc = "edit" /\ rest.change.status # None
          \/ \E j \in Jobs : /\ pc[j] = "write" /\ pc'[j] # "write"
                             /\ Asked(j).status # None

(* A row is cancelled only if it exists. *)
LEMMA CancelledExists ==
  ASSUME IInv, NEW r \in Rows, reservations[r].status = "cancelled"
  PROVE  Exists(r) /\ r \notin FreeRow /\ reservations[r] \in ResRow
<1>1. NoReservation.status # "cancelled"
  BY DEF NoReservation
<1>2. QED BY <1>1, RowTypes DEF IInv, FreeRow

(* The writers of reservations. *)
LEMMA CancelStep ==
  ASSUME IInv, [Next]_vars, NEW r \in Rows, reservations[r].status = "cancelled",
         reservations'[r].status # "cancelled"
  PROVE  Asking
<1>0. reservations' # reservations /\ r \notin FreeRow /\ reservations[r] \in ResRow
  BY CancelledExists
<1>1. ASSUME NEW q \in Rows, NEW x, reservations' = [reservations EXCEPT ![q] = x],
             q # r \/ x.status = "cancelled"
      PROVE  FALSE
  BY <1>1, RowTypes DEF IInv
<1>2. ASSUME NEW q \in FreeRow, NEW x, reservations' = [reservations EXCEPT ![q] = x]
      PROVE  FALSE
  BY <1>0, <1>1, <1>2 DEF FreeRow
<1>3. ASSUME NEW j \in Jobs, WriteUpdate(j) PROVE Asking
  <2> DEFINE q == seen[j].res
             y == Changed(reservations[q], Asked(j))
             x == [y EXCEPT !.agent = TRUE]
  <2>1. q \in Rows /\ Exists(q)
    BY <1>3 DEF WriteUpdate, ThreadStep, IInv, ThreadsInv, Ready, Known
  <2>2. reservations' = [reservations EXCEPT ![q] = x]
    BY <1>3 DEF WriteUpdate
  <2>3. reservations[q] \in ResRow /\ Asked(j) \in Changes
    BY <2>1, RowTypes, AskedTypes DEF IInv
  <2>4. y \in ResRow /\ (Asked(j).status = None => y.status = reservations[q].status)
    BY <2>3, ChangedRow
  <2>5. x.status = y.status
    BY <2>4, ResFields
  <2> HIDE DEF x, y, q
  <2>6. Asked(j).status # None
    BY <2>1, <2>2, <2>4, <2>5, <1>1
  <2>7. pc[j] = "write" /\ pc'[j] # "write"
    BY <1>3 DEF WriteUpdate, ThreadStep, IInv, ThreadsInv, TypeThreads
  <2>8. QED BY <2>6, <2>7 DEF Asking
<1>4. ASSUME WriteFinalize PROVE FALSE
  <2> DEFINE q == rest.seen.res
  <2>1. q \in Rows
    BY <1>4, OnRowTypes DEF WriteFinalize, RestStep, OnRow
  <2>2. /\ reservations[q].status = "pending"
        /\ \E x : reservations' = [reservations EXCEPT ![q] = x]
    BY <1>0, <1>4 DEF WriteFinalize
  <2>3. q # r
    BY <2>2
  <2> HIDE DEF q
  <2>4. QED BY <2>1, <2>2, <2>3, <1>1
<1>5. ASSUME WriteCancel PROVE FALSE
  <2> DEFINE q == rest.seen.res
             x == [reservations[q] EXCEPT !.status = "cancelled"]
  <2>1. q \in Rows /\ reservations[q] \in ResRow
    BY <1>5, OnRowTypes DEF WriteCancel, RestStep, OnRow
  <2>2. reservations' = [reservations EXCEPT ![q] = x]
    BY <1>0, <1>5 DEF WriteCancel
  <2>3. x.status = "cancelled"
    BY <2>1, ResFields DEF Statuses
  <2> HIDE DEF q, x
  <2>4. QED BY <2>1, <2>2, <2>3, <1>1
<1>6. ASSUME MoveEdit PROVE FALSE
  <2> DEFINE q == rest.seen.res
             more == rest.change.party # None \/ rest.change.status # None
             x == [reservations[q] EXCEPT !.half = more \/ Strays]
  <2>1. q \in Rows /\ reservations[q] \in ResRow
    BY <1>6, OnRowTypes DEF MoveEdit, RestStep, OnRow
  <2>2. reservations' = [reservations EXCEPT ![q] = x]
    BY <1>6 DEF MoveEdit
  <2>3. x.status = reservations[q].status
    BY <2>1, ResFields
  <2> HIDE DEF q, x
  <2>4. QED BY <2>1, <2>2, <2>3, <1>1
<1>7. ASSUME WriteEdit PROVE Asking
  <2> DEFINE q == rest.seen.res
             y == Changed(reservations[q], rest.change)
             x == [y EXCEPT !.half = Strays]
  <2>1. q \in Rows /\ reservations[q] \in ResRow /\ rest.pc = "edit"
    BY <1>7, OnRowTypes DEF WriteEdit, RestStep, OnRow
  <2>2. reservations' = [reservations EXCEPT ![q] = x]
    BY <1>7 DEF WriteEdit
  <2>3. y \in ResRow /\ (rest.change.status = None => y.status = reservations[q].status)
    BY <2>1, ChangedRow, RestTypes DEF IInv
  <2>4. x.status = y.status
    BY <2>3, ResFields
  <2> HIDE DEF x, y, q
  <2>5. rest.change.status # None
    BY <2>1, <2>2, <2>3, <2>4, <1>1
  <2>6. QED BY <2>1, <2>5 DEF Asking
<1>8. ASSUME NEW j \in Jobs, Thread(j) PROVE Asking
  <2>1. ASSUME NEW q \in FreeRow, InsertReservation(j, q) PROVE FALSE
    <3>1. PICK x : reservations' = [reservations EXCEPT ![q] = x]
      BY <2>1 DEF InsertReservation, NewReservation
    <3>2. QED BY <3>1, <1>2
  <2>2. ASSUME \/ CheckCapacity(j) \/ LookupRefused(j) \/ CheckUpdate(j) \/ MoveUpdate(j)
               \/ \E b \in FreeBooking : InsertSlot(j, b)
               \/ \E q \in Rows : Lookup(j, q)
        PROVE  FALSE
    BY <1>0, <2>2 DEF CheckCapacity, LookupRefused, CheckUpdate, MoveUpdate,
                      InsertSlot, Lookup, dbVars
  <2>3. QED BY <1>3, <1>8, <2>1, <2>2 DEF Thread
<1>9. ASSUME Dashboard PROVE Asking
  <2>1. ASSUME NEW b \in FreeBooking, NEW q \in FreeRow, InsertDirect(b, q) PROVE FALSE
    <3>1. PICK x : reservations' = [reservations EXCEPT ![q] = x]
      BY <2>1 DEF InsertDirect, NewReservation
    <3>2. QED BY <3>1, <1>2
  <2>2. ASSUME \/ \E t \in Times, p \in Parties, u \in Callers : OpenDirect(t, p, u)
               \/ \E q \in Rows : OpenFinalize(q) \/ OpenCancel(q)
               \/ \E q \in Rows, e \in Edits : OpenEdit(q, e)
               \/ CheckFinalize \/ CheckEdit \/ ReleaseSlot \/ RestFail
        PROVE  FALSE
    BY <1>0, <2>2 DEF OpenDirect, OpenFinalize, OpenCancel, OpenEdit, Open, CheckFinalize,
                      CheckEdit, ReleaseSlot, RestFail, dbVars
  <2>3. QED BY <1>4, <1>5, <1>6, <1>7, <1>9, <2>1, <2>2 DEF Dashboard
<1>10. ASSUME Booking PROVE FALSE
  <2>1. ASSUME NEW q \in FreeRow, InsertToken(q) PROVE FALSE
    <3>1. PICK x : reservations' = [reservations EXCEPT ![q] = x]
      BY <2>1 DEF InsertToken, NewReservation
    <3>2. QED BY <3>1, <1>2
  <2>2. ASSUME \/ \E t \in Times, p \in Parties : OpenLock(t, p)
               \/ \E b \in FreeBooking : InsertLock(b)
               \/ \E b \in Rows, u \in Callers : OpenToken(b, u)
        PROVE  FALSE
    BY <1>0, <2>2 DEF OpenLock, OpenToken, Open, InsertLock, dbVars
  <2>3. QED BY <1>10, <2>1, <2>2 DEF Booking
<1>11. ASSUME \/ \E c \in Calls : Loop(c)
              \/ \E c \in Calls, a \in Asks : Request(c, a)
              \/ \E j \in Jobs : FailThread(j)
              \/ \E b \in Rows : Expire(b)
              \/ Crash \/ UNCHANGED vars
       PROVE  FALSE
  BY <1>0, <1>11 DEF Loop, ResumeFits, Resume, Timeout, EndCall, Request, FailThread,
                     Expire, Crash, vars, dbVars
<1>12. QED BY <1>8, <1>9, <1>10, <1>11 DEF Next

(* A finalize that read a pending reservation does not bring it back once it  *)
(* was cancelled, and neither does an edit of its time or party: only a       *)
(* status that was asked for does.                                            *)
THEOREM CancellationSticks == Spec => CancelSticks
<1> DEFINE Sticks ==
             \A r \in Rows :
               reservations[r].status = "cancelled" /\ reservations'[r].status # "cancelled"
                 => \/ rest.pc = "edit" /\ rest.change.status # None
                    \/ \E j \in Jobs : /\ pc[j] = "write" /\ pc'[j] # "write"
                                       /\ Asked(j).status # None
<1>1. IInv /\ [Next]_vars => [Sticks]_vars
  BY CancelStep DEF Asking
<1> HIDE DEF Sticks
<1>2. Spec => [][Sticks]_vars
  BY <1>1, InvariantHolds, PTL DEF Spec
<1>3. QED BY <1>2 DEF Sticks, CancelSticks
-----------------------------------------------------------------------------
(* The sum that Guests takes, one row at a time.  Facts about all sets of     *)
(* rows are proved from a smallest counterexample.                            *)

LEMMA LeastNat ==
  ASSUME NEW N \in SUBSET Nat, N # {}
  PROVE  \E n \in N : \A m \in N : n <= m
<1>1. PICK n \in N : \A m \in N : <<m, n>> \notin OpToRel(<, Nat)
  BY NatLessThanWellFounded, WFMin
<1>2. \A m \in N : ~(m < n)
  BY <1>1 DEF OpToRel
<1>3. QED BY <1>2

LEMMA RowsFinite ==
  ASSUME NEW S \in SUBSET Rows
  PROVE  IsFiniteSet(S) /\ Cardinality(S) \in Nat
<1>1. IsFiniteSet(Rows)
  BY FS_Interval, ReservationsAssumption DEF Rows
<1>2. QED BY <1>1, FS_Subset, FS_CardinalityType

LEMMA SmallestSet ==
  ASSUME NEW bad \in SUBSET (SUBSET Rows), bad # {}
  PROVE  \E s \in bad : \A x \in s : s \ {x} \notin bad
<1> DEFINE sizes == {Cardinality(s) : s \in bad}
<1>1. sizes \in SUBSET Nat /\ sizes # {}
  BY RowsFinite
<1> HIDE DEF sizes
<1>2. PICK n \in sizes : \A m \in sizes : n <= m
  BY <1>1, LeastNat
<1>3. PICK s \in bad : n = Cardinality(s)
  BY <1>2 DEF sizes
<1>4. ASSUME NEW x \in s PROVE s \ {x} \notin bad
  <2>1. Cardinality(s \ {x}) = Cardinality(s) - 1
    BY <1>4, RowsFinite, FS_RemoveElement
  <2>2. Cardinality(s) \in Nat
    BY RowsFinite
  <2>3. s \ {x} \in bad => Cardinality(s) <= Cardinality(s \ {x})
    BY <1>2, <1>3 DEF sizes
  <2>4. QED BY <2>1, <2>2, <2>3
<1>5. QED BY <1>4

One(s) == CHOOSE x \in s : TRUE

(* h adds up the parties of every subset of S. *)
Adds(res, S, h) ==
  h = [s \in SUBSET S |-> IF s = {} THEN 0 ELSE res[One(s)].party + h[s \ {One(s)}]]

Adder(res, S) == CHOOSE h : Adds(res, S, h)
Sum(res, S)   == Adder(res, S)[S]

LEMMA OneOf ==
  ASSUME NEW s, s # {}
  PROVE  One(s) \in s
  BY DEF One

LEMMA AddsAt ==
  ASSUME NEW res, NEW S, NEW h, Adds(res, S, h), NEW s \in SUBSET S
  PROVE  h[s] = IF s = {} THEN 0 ELSE res[One(s)].party + h[s \ {One(s)}]
<1> DEFINE body(t) == IF t = {} THEN 0 ELSE res[One(t)].party + h[t \ {One(t)}]
<1>1. h = [t \in SUBSET S |-> body(t)]
  BY DEF Adds
<1>2. h[s] = body(s)
  BY <1>1
<1>3. QED BY <1>2

LEMMA AddersAgree ==
  ASSUME NEW res, NEW S \in SUBSET Rows, NEW T \in SUBSET Rows, NEW g, NEW h,
         Adds(res, S, g), Adds(res, T, h), NEW s \in SUBSET (S \cap T)
  PROVE  g[s] = h[s]
<1> DEFINE bad == {u \in SUBSET (S \cap T) : g[u] # h[u]}
<1>1. SUFFICES ASSUME bad # {} PROVE FALSE
  OBVIOUS
<1>2. bad \in SUBSET (SUBSET Rows)
  OBVIOUS
<1>3. PICK u \in bad : \A x \in u : u \ {x} \notin bad
  BY <1>1, <1>2, SmallestSet
<1>4. u \in SUBSET S /\ u \in SUBSET T /\ g[u] # h[u]
  BY <1>3
<1>5. CASE u = {}
  BY <1>4, <1>5, AddsAt
<1>6. CASE u # {}
  <2>1. One(u) \in u
    BY <1>6, OneOf
  <2>2. g[u \ {One(u)}] = h[u \ {One(u)}]
    BY <1>3, <1>4, <2>1
  <2>3. /\ g[u] = res[One(u)].party + g[u \ {One(u)}]
        /\ h[u] = res[One(u)].party + h[u \ {One(u)}]
    BY <1>4, <1>6, AddsAt
  <2>4. QED BY <1>4, <2>2, <2>3
<1>7. QED BY <1>5, <1>6

(* A sum of one row more, where there are adders below it. *)
LEMMA AdderAbove ==
  ASSUME NEW res, NEW S \in SUBSET Rows, S # {},
         \A T \in SUBSET S : T # S => Adds(res, T, Adder(res, T))
  PROVE  \E h : Adds(res, S, h)
<1> DEFINE x == One(S)
           h == [s \in SUBSET S |-> IF s = S THEN res[x].party + Sum(res, S \ {x})
                                             ELSE Sum(res, s)]
           body(t) == IF t = {} THEN 0 ELSE res[One(t)].party + h[t \ {One(t)}]
<1>1. x \in S /\ S \ {x} # S
  BY OneOf
<1>2. ASSUME NEW s \in SUBSET S PROVE h[s] = body(s)
  <2>1. CASE s = S
    <3>1. h[S \ {x}] = Sum(res, S \ {x})
      BY <1>1
    <3>2. h[S] = res[x].party + Sum(res, S \ {x})
      OBVIOUS
    <3>3. body(S) = res[x].party + h[S \ {x}]
      OBVIOUS
    <3>4. QED BY <2>1, <3>1, <3>2, <3>3
  <2>2. CASE s # S
    <3>1. h[s] = Adder(res, s)[s]
      BY <2>2 DEF Sum
    <3>2. Adds(res, s, Adder(res, s))
      BY <2>2
    <3>3. CASE s = {}
      BY <3>1, <3>2, <3>3, AddsAt
    <3>4. CASE s # {}
      <4> DEFINE y == One(s)
      <4>1. y \in s /\ s \ {y} # S /\ s \ {y} \in SUBSET S
        BY <3>4, OneOf
      <4>2. Adder(res, s)[s] = res[y].party + Adder(res, s)[s \ {y}]
        BY <3>2, <3>4, AddsAt
      <4>3. Adds(res, s \ {y}, Adder(res, s \ {y}))
        BY <4>1
      <4>4. Adder(res, s)[s \ {y}] = Sum(res, s \ {y})
        <5>1. s \in SUBSET Rows /\ s \ {y} \in SUBSET Rows
              /\ s \ {y} \in SUBSET (s \cap (s \ {y}))
          OBVIOUS
        <5>2. Adds(res, s \ {y}, Adder(res, s \ {y})) /\ Adds(res, s, Adder(res, s))
          BY <3>2, <4>3
        <5> HIDE DEF y, h, body, x
        <5>3. Adder(res, s)[s \ {y}] = Adder(res, s \ {y})[s \ {y}]
          BY <5>1, <5>2, AddersAgree
        <5>4. QED BY <5>3 DEF Sum
      <4>5. h[s \ {y}] = Sum(res, s \ {y})
        BY <4>1
      <4>6. body(s) = res[y].party + h[s \ {y}]
        BY <3>4
      <4> HIDE DEF h, body, y
      <4>7. QED BY <3>1, <4>2, <4>4, <4>5, <4>6
    <3>5. QED BY <3>3, <3>4
  <2>3. QED BY <2>1, <2>2
<1>3. h = [s \in SUBSET S |-> body(s)]
  <2>1. [s \in SUBSET S |-> h[s]] = [s \in SUBSET S |-> body(s)]
    BY <1>2
  <2>2. h = [s \in SUBSET S |-> h[s]]
    OBVIOUS
  <2>3. QED BY <2>1, <2>2
<1>4. Adds(res, S, h)
  BY <1>3 DEF Adds
<1>5. QED BY <1>4

LEMMA AdderExists ==
  ASSUME NEW res, NEW S \in SUBSET Rows
  PROVE  Adds(res, S, Adder(res, S))
<1> DEFINE bad == {T \in SUBSET S : ~Adds(res, T, Adder(res, T))}
<1>1. SUFFICES ASSUME bad # {} PROVE FALSE
  OBVIOUS
<1>3. PICK T \in bad : \A u \in SUBSET T : u # T => u \notin bad
  <2> DEFINE sizes == {Cardinality(u) : u \in bad}
  <2>1. sizes \in SUBSET Nat /\ sizes # {}
    BY <1>1, RowsFinite
  <2> HIDE DEF sizes
  <2>2. PICK n \in sizes : \A m \in sizes : n <= m
    BY <2>1, LeastNat
  <2>3. PICK T \in bad : n = Cardinality(T)
    BY <2>2 DEF sizes
  <2>4. ASSUME NEW u \in SUBSET T, u # T, u \in bad PROVE FALSE
    <3>1. Cardinality(T) <= Cardinality(u)
      BY <2>2, <2>3, <2>4 DEF sizes
    <3>2. Cardinality(u) <= Cardinality(T) /\ Cardinality(u) # Cardinality(T)
      BY <2>4, RowsFinite, FS_Subset
    <3>3. QED BY <3>1, <3>2, RowsFinite
  <2>5. QED BY <2>4
<1>4. \A u \in SUBSET T : u # T => Adds(res, u, Adder(res, u))
  BY <1>3
<1>5. \E h : Adds(res, T, h)
  <2>1. CASE T = {}
    <3> DEFINE h == [s \in SUBSET {} |-> 0]
    <3>1. h = [s \in SUBSET {} |-> IF s = {} THEN 0
                                   ELSE res[One(s)].party + h[s \ {One(s)}]]
      OBVIOUS
    <3>2. QED BY <2>1, <3>1 DEF Adds
  <2>2. CASE T # {}
    BY <1>4, <2>2, AdderAbove
  <2>3. QED BY <2>1, <2>2
<1>6. Adds(res, T, Adder(res, T))
  BY <1>5 DEF Adder
<1>7. QED BY <1>6, <1>3

LEMMA SumStep ==
  ASSUME NEW res, NEW S \in SUBSET Rows, S # {}
  PROVE  Sum(res, S) = res[One(S)].party + Sum(res, S \ {One(S)})
<1> DEFINE x == One(S)
<1>1. Adds(res, S, Adder(res, S)) /\ Adds(res, S \ {x}, Adder(res, S \ {x}))
  BY AdderExists
<1>2. Adder(res, S)[S \ {x}] = Adder(res, S \ {x})[S \ {x}]
  <2>1. S \ {x} \in SUBSET Rows /\ S \ {x} \in SUBSET (S \cap (S \ {x}))
    OBVIOUS
  <2> HIDE DEF x
  <2>2. QED BY <1>1, <2>1, AddersAgree
<1>3. Adder(res, S)[S] = res[x].party + Adder(res, S)[S \ {x}]
  BY <1>1, AddsAt
<1>4. QED BY <1>2, <1>3 DEF Sum

LEMMA SumNone ==
  ASSUME NEW res
  PROVE  Sum(res, {}) = 0
<1>1. {} \in SUBSET Rows
  OBVIOUS
<1>2. QED BY <1>1, AdderExists, AddsAt DEF Sum

Counts(res, S) == \A r \in S : res[r].party \in Nat

LEMMA SumNat ==
  ASSUME NEW res, NEW S \in SUBSET Rows, Counts(res, S)
  PROVE  Sum(res, S) \in Nat
<1> DEFINE bad == {s \in SUBSET S : Sum(res, s) \notin Nat}
<1>1. SUFFICES ASSUME bad # {} PROVE FALSE
  OBVIOUS
<1>2. PICK s \in bad : \A x \in s : s \ {x} \notin bad
  <2>1. bad \in SUBSET (SUBSET Rows)
    OBVIOUS
  <2>2. QED BY <1>1, <2>1, SmallestSet
<1>3. s \in SUBSET Rows /\ s \in SUBSET S /\ Sum(res, s) \notin Nat
  BY <1>2
<1>4. s # {}
  BY <1>3, SumNone
<1>5. One(s) \in s /\ Sum(res, s) = res[One(s)].party + Sum(res, s \ {One(s)})
  BY <1>3, <1>4, OneOf, SumStep
<1>6. res[One(s)].party \in Nat /\ Sum(res, s \ {One(s)}) \in Nat
  BY <1>2, <1>3, <1>5 DEF Counts
<1>7. QED BY <1>3, <1>5, <1>6

(* Any row may be added last. *)
LEMMA SumSplit ==
  ASSUME NEW res, NEW S \in SUBSET Rows, Counts(res, S), NEW r \in S
  PROVE  Sum(res, S) = res[r].party + Sum(res, S \ {r})
<1> DEFINE bad == {s \in SUBSET S : \E x \in s : Sum(res, s) # res[x].party + Sum(res, s \ {x})}
<1>1. SUFFICES ASSUME bad # {} PROVE FALSE
  BY <1>1
<1>2. PICK s \in bad : \A x \in s : s \ {x} \notin bad
  <2>1. bad \in SUBSET (SUBSET Rows)
    OBVIOUS
  <2>2. QED BY <1>1, <2>1, SmallestSet
<1>3. PICK x \in s : Sum(res, s) # res[x].party + Sum(res, s \ {x})
  BY <1>2
<1> DEFINE y == One(s)
<1>4. /\ s \in SUBSET Rows /\ s \in SUBSET S /\ y \in s
      /\ Sum(res, s) = res[y].party + Sum(res, s \ {y})
  BY <1>2, <1>3, OneOf, SumStep
<1> HIDE DEF y
<1>5. x # y
  BY <1>3, <1>4
<1> DEFINE z == s \ {x, y}
<1>6. (s \ {x}) \ {y} = z /\ (s \ {y}) \ {x} = z
  OBVIOUS
<1>7. /\ Sum(res, s \ {y}) = res[x].party + Sum(res, z)
      /\ Sum(res, s \ {x}) = res[y].party + Sum(res, z)
  <2>1. s \ {y} \notin bad /\ s \ {x} \notin bad
    BY <1>2, <1>3, <1>4
  <2>2. s \ {y} \in SUBSET S /\ s \ {x} \in SUBSET S /\ x \in s \ {y} /\ y \in s \ {x}
    BY <1>3, <1>4, <1>5
  <2> HIDE DEF z
  <2>3. Sum(res, s \ {y}) = res[x].party + Sum(res, (s \ {y}) \ {x})
    BY <2>1, <2>2
  <2>4. Sum(res, s \ {x}) = res[y].party + Sum(res, (s \ {x}) \ {y})
    BY <2>1, <2>2
  <2>5. QED BY <2>3, <2>4, <1>6
<1>8. /\ res[x].party \in Nat /\ res[y].party \in Nat /\ Sum(res, z) \in Nat
  <2>1. z \in SUBSET Rows /\ Counts(res, z)
    BY <1>4 DEF Counts
  <2>2. QED BY <1>3, <1>4, <2>1, SumNat DEF Counts
<1> HIDE DEF z
<1>9. QED BY <1>3, <1>4, <1>7, <1>8

(* Fewer rows of the same parties hold no more guests. *)
LEMMA SumShrinks ==
  ASSUME NEW new, NEW old, NEW A \in SUBSET Rows, NEW B \in SUBSET Rows,
         A \subseteq B, Counts(old, B), \A r \in A : new[r].party = old[r].party
  PROVE  Sum(new, A) <= Sum(old, B)
<1> DEFINE bad == {s \in SUBSET B : ~(Sum(new, A \cap s) <= Sum(old, s))}
<1>0. A \cap B = A
  OBVIOUS
<1>1. SUFFICES ASSUME bad # {} PROVE FALSE
  BY <1>0, <1>1
<1>2. PICK s \in bad : \A x \in s : s \ {x} \notin bad
  <2>1. bad \in SUBSET (SUBSET Rows)
    OBVIOUS
  <2>2. QED BY <1>1, <2>1, SmallestSet
<1>3. s \in SUBSET Rows /\ s \in SUBSET B /\ ~(Sum(new, A \cap s) <= Sum(old, s))
  BY <1>2
<1>4. s # {}
  <2>1. ASSUME s = {} PROVE FALSE
    <3>1. A \cap s = {} /\ s = {}
      BY <2>1
    <3>2. Sum(new, A \cap s) = 0 /\ Sum(old, s) = 0
      BY <3>1, SumNone
    <3>3. QED BY <1>3, <3>2
  <2>2. QED BY <2>1
<1>5. PICK x \in s : TRUE
  BY <1>4
<1> DEFINE t == s \ {x}
<1>6. Sum(new, A \cap t) <= Sum(old, t)
  BY <1>2, <1>3
<1>7. Counts(old, s) /\ Counts(old, t) /\ Counts(new, A \cap s) /\ Counts(new, A \cap t)
  BY <1>3 DEF Counts
<1>8. Sum(old, s) = old[x].party + Sum(old, t)
  BY <1>3, <1>7, SumSplit
<1>9. /\ Sum(old, t) \in Nat /\ Sum(new, A \cap t) \in Nat /\ old[x].party \in Nat
  <2>1. t \in SUBSET Rows /\ A \cap t \in SUBSET Rows
    BY <1>3
  <2>2. QED BY <1>3, <1>7, <2>1, SumNat DEF Counts
<1>10. CASE x \in A
  <2>1. (A \cap s) \ {x} = A \cap t /\ x \in A \cap s
    BY <1>10
  <2>2. A \cap s \in SUBSET Rows
    BY <1>3
  <2> HIDE DEF t
  <2>3. Sum(new, A \cap s) = new[x].party + Sum(new, A \cap t)
    BY <1>7, <2>1, <2>2, SumSplit
  <2>4. new[x].party = old[x].party
    BY <1>10
  <2>5. QED BY <1>3, <1>6, <1>8, <1>9, <2>3, <2>4
<1>11. CASE x \notin A
  <2>1. A \cap s = A \cap t
    BY <1>11
  <2> HIDE DEF t
  <2>2. Sum(new, A \cap s) = Sum(new, A \cap t)
    BY <2>1
  <2>3. QED BY <1>3, <1>6, <1>8, <1>9, <2>2
<1>12. QED BY <1>10, <1>11

LEMMA GuestsSum ==
  ASSUME NEW rs
  PROVE  Guests(rs) = Sum(reservations, rs)
  BY DEF Guests, MapThenSumSet, MapThenFoldSet, Sum, Adder, Adds, One
-----------------------------------------------------------------------------
(* The seats.  What is counted at a time can grow in four statements only: a  *)
(* direct insert, a finalize, and the two writes of an edit.  Each of them    *)
(* was checked earlier in its handler; meanwhile only threads write, and they *)
(* take reservations out of the count but put none in.                        *)

Counted(t) == {r \in Confirmed(t) : Vouched(r)}

(* What a handler has read of it is still so. *)
Sound(r) == ~reservations[r].agent /\ ~Shared(r)

(* The thread of an update moves the booking of the row it marked. *)
MoversInv == \A j \in Jobs :
  /\ pc[j] \in {"check", "write", "move"}
       => reservations[seen[j].res].booking = seen[j].booking
  /\ pc[j] = "move" => reservations[seen[j].res].agent

Reader  == {"confirm", "finalize", "check", "move", "edit"}
NewTime == Or(rest.change.time, rest.seen.time)

ReadInv ==
  LET r == rest.seen.res IN
  /\ rest.pc \in OnRow => reservations[r].booking = rest.seen.booking
  /\ rest.pc \in Reader /\ Sound(r) =>
       /\ reservations[r].party = rest.seen.party
       /\ reservations[r].status = rest.seen.status
       /\ TimeOf(r) = IF rest.pc = "edit" THEN NewTime ELSE rest.seen.time
  /\ rest.pc \in {"confirm", "finalize"} => rest.seen.status = "pending"
  /\ rest.pc \in {"check", "move", "edit"} /\ rest.change.time # None
       => OnMinute(rest.change.time)

(* The room that a check found is still there. *)
RoomInv ==
  /\ rest.pc = "direct" =>
       /\ OnMinute(rest.change.time)
       /\ Guests(Counted(rest.change.time)) + rest.change.party <= Seats
  /\ rest.pc = "finalize" /\ OnMinute(rest.seen.time) =>
       Guests(Counted(rest.seen.time)) + rest.seen.party <= Seats
  /\ /\ rest.pc \in {"move", "edit"}
     /\ Or(rest.change.status, rest.seen.status) = "confirmed"
     /\ OnMinute(NewTime) /\ ~Strays /\ Sound(rest.seen.res)
     => Guests(Counted(NewTime) \ {rest.seen.res})
          + Or(rest.change.party, rest.seen.party) <= Seats

SeatsInv == MoversInv /\ ReadInv /\ RoomInv /\ SeatsKept

(* A row whose count no statement of another actor raises. *)
Still(r) == Sound(r)' =>
  /\ Sound(r)
  /\ reservations'[r].party = reservations[r].party
  /\ reservations'[r].status = reservations[r].status
  /\ reservations'[r].half = reservations[r].half
  /\ TimeOf(r)' = TimeOf(r)

Quiet(r) == \A t \in Times : r \in Counted(t)' =>
  r \in Counted(t) /\ reservations'[r].party = reservations[r].party

Calm == \A r \in Rows :
  /\ Exists(r) => Still(r)
  /\ ~Exists(r) => reservations'[r].status # "confirmed"

LEMMA CalmQuiet ==
  ASSUME Kept, NEW r \in Rows,
         Exists(r) => Still(r), ~Exists(r) => reservations'[r].status # "confirmed"
  PROVE  Quiet(r)
<1> SUFFICES ASSUME NEW t \in Times, r \in Counted(t)'
             PROVE  r \in Counted(t) /\ reservations'[r].party = reservations[r].party
  BY DEF Quiet
<1>1. /\ reservations'[r].status = "confirmed" /\ TimeOf(r)' = t
      /\ ~reservations'[r].half /\ Sound(r)'
  BY DEF Counted, Confirmed, Vouched, Sound
<1>2. Exists(r) /\ Still(r)
  BY <1>1
<1>3. QED BY <1>1, <1>2 DEF Still, Counted, Confirmed, Vouched, Sound

LEMMA CountedTypes ==
  ASSUME RowsInv, NEW t
  PROVE  /\ Confirmed(t) \in SUBSET Rows /\ Counted(t) \subseteq Confirmed(t)
         /\ Counts(reservations, Confirmed(t))
         /\ \A S \in SUBSET Confirmed(t) : Guests(S) \in Nat
<1>1. Confirmed(t) \in SUBSET Rows /\ Counted(t) \subseteq Confirmed(t)
  BY DEF Confirmed, Counted
<1>2. \A r \in Confirmed(t) : reservations[r].party \in Nat
  BY RowTypes, ReservationsAssumption DEF Confirmed, ResRow
<1>3. ASSUME NEW S \in SUBSET Confirmed(t) PROVE Guests(S) \in Nat
  <2>1. S \in SUBSET Rows /\ Counts(reservations, S)
    BY <1>1, <1>2 DEF Counts
  <2>2. QED BY <2>1, SumNat, GuestsSum
<1>4. QED BY <1>1, <1>2, <1>3 DEF Counts

(* Guests of fewer rows. *)
LEMMA FewerGuests ==
  ASSUME RowsInv, NEW t, NEW S \in SUBSET Confirmed(t), NEW T \in SUBSET S
  PROVE  Guests(T) <= Guests(S)
<1>1. S \in SUBSET Rows /\ T \in SUBSET Rows /\ Counts(reservations, S)
  BY CountedTypes DEF Counts
<1>2. Sum(reservations, T) <= Sum(reservations, S)
  BY <1>1, SumShrinks
<1>3. QED BY <1>2, GuestsSum

(* What a step does to the guests of a time, one row X apart. *)
LEMMA GuestsShrink ==
  ASSUME RowsInv, NEW t \in Times, NEW X, \A r \in Rows : r \notin X => Quiet(r)
  PROVE  /\ Guests(Counted(t) \ X)' <= Guests(Counted(t) \ X)
         /\ Guests(Counted(t) \ X)' \in Nat /\ Guests(Counted(t) \ X) \in Nat
<1> DEFINE old == Counted(t) \ X
           new == Counted(t)' \ X
<1>1. old \in SUBSET Rows /\ Counts(reservations, old)
  BY CountedTypes DEF Counts
<1>2. new \in SUBSET Rows
  BY DEF Counted, Confirmed
<1>3. \A r \in new : r \in old /\ reservations'[r].party = reservations[r].party
  BY <1>2 DEF Quiet
<1> HIDE DEF old, new
<1>4. Sum(reservations', new) <= Sum(reservations, old)
  BY <1>1, <1>2, <1>3, SumShrinks
<1>5. Guests(Counted(t) \ X)' = Sum(reservations', new)
  BY DEF Guests, MapThenSumSet, MapThenFoldSet, Sum, Adder, Adds, One, new
<1>6. Guests(Counted(t) \ X) = Sum(reservations, old)
  BY GuestsSum DEF old
<1>7. Counts(reservations', new)
  BY <1>1, <1>3 DEF Counts
<1>8. Sum(reservations', new) \in Nat /\ Sum(reservations, old) \in Nat
  BY <1>1, <1>2, <1>7, SumNat
<1>9. QED BY <1>4, <1>5, <1>6, <1>8

LEMMA GuestsFewer ==
  ASSUME RowsInv, NEW t \in Times, \A r \in Rows : Quiet(r)
  PROVE  /\ Guests(Counted(t))' <= Guests(Counted(t))
         /\ Guests(Counted(t))' \in Nat /\ Guests(Counted(t)) \in Nat
<1> DEFINE X == {}
<1>1. /\ Guests(Counted(t) \ X)' <= Guests(Counted(t) \ X)
      /\ Guests(Counted(t) \ X)' \in Nat /\ Guests(Counted(t) \ X) \in Nat
  BY GuestsShrink
<1>2. Counted(t) \ X = Counted(t) /\ Counted(t)' \ X = Counted(t)'
  OBVIOUS
<1>3. /\ Guests(Counted(t) \ X) = Guests(Counted(t))
      /\ Guests(Counted(t) \ X)' = Guests(Counted(t))'
  BY <1>2
<1>4. QED BY <1>1, <1>3

(* One row x enters the count of t with a party for which there is room. *)
LEMMA GuestsEnter ==
  ASSUME RowsInv, RowsInv', NEW t \in Times, NEW x \in Rows,
         \A r \in Rows : r # x => Quiet(r)
  PROVE  /\ x \notin Counted(t)' => Guests(Counted(t))' <= Guests(Counted(t))
         /\ x \in Counted(t)' =>
              Guests(Counted(t))' <= Guests(Counted(t) \ {x}) + reservations'[x].party
<1> DEFINE less == Guests(Counted(t) \ {x})
<1>1. Guests(Counted(t) \ {x})' <= less
  BY GuestsShrink
<1>2. less \in Nat /\ Guests(Counted(t)) \in Nat /\ less <= Guests(Counted(t))
  BY CountedTypes, FewerGuests
<1>3. /\ Guests(Counted(t) \ {x})' = Sum(reservations', Counted(t)' \ {x})
      /\ Guests(Counted(t))' = Sum(reservations', Counted(t)')
  BY DEF Guests, MapThenSumSet, MapThenFoldSet, Sum, Adder, Adds, One
<1>4. /\ Counted(t)' \in SUBSET Rows /\ Counts(reservations', Counted(t)')
      /\ Counts(reservations', Counted(t)' \ {x})
  <2>1. Counted(t)' \in SUBSET Rows /\ \A r \in Counted(t)' : Exists(r)'
    BY DEF Counted, Confirmed
  <2>2. \A r \in Counted(t)' : reservations'[r].party \in Nat
    <3> TAKE r \in Counted(t)'
    <3>1. reservations' \in [Rows -> ResRow \cup {NoReservation}]
      BY DEF RowsInv, TypeRows, ResRow
    <3>2. reservations'[r].booking # None
      BY <2>1 DEF Exists
    <3>3. reservations'[r] \in ResRow
      BY <2>1, <3>1, <3>2 DEF NoReservation
    <3>4. QED BY <3>3, ReservationsAssumption DEF ResRow
  <2>3. QED BY <2>1, <2>2 DEF Counts
<1>5. CASE x \notin Counted(t)'
  <2>1. Counted(t)' \ {x} = Counted(t)'
    BY <1>5
  <2>2. Guests(Counted(t))' = Guests(Counted(t) \ {x})'
    BY <1>3, <2>1
  <2>3. Guests(Counted(t))' \in Nat
    BY <1>3, <1>4, SumNat
  <2> HIDE DEF less
  <2>4. QED BY <1>1, <1>2, <1>5, <2>2, <2>3
<1>6. CASE x \in Counted(t)'
  <2>1. Sum(reservations', Counted(t)') =
          reservations'[x].party + Sum(reservations', Counted(t)' \ {x})
    BY <1>4, <1>6, SumSplit
  <2>2. reservations'[x].party \in Nat /\ Sum(reservations', Counted(t)' \ {x}) \in Nat
    BY <1>4, <1>6, SumNat DEF Counts
  <2> HIDE DEF less
  <2>3. Guests(Counted(t))' <= less + reservations'[x].party
    BY <1>1, <1>2, <1>3, <2>1, <2>2
  <2>4. QED BY <1>6, <2>3 DEF less
<1>7. QED BY <1>5, <1>6

-----------------------------------------------------------------------------
(* The statements of the other actors. *)

LEMMA SoundStays ==
  ASSUME Kept, NEW r \in Rows, Exists(r), Sound(r)',
         reservations[r].agent => reservations'[r].agent
  PROVE  Sound(r)
<1>1. ASSUME Shared(r) PROVE Shared(r)'
  <2>1. PICK q \in Rows \ {r} : reservations[q].booking = reservations[r].booking
    BY <1>1 DEF Shared
  <2>2. Exists(q)
    BY <2>1 DEF Exists
  <2>3. /\ reservations'[q].booking = reservations[q].booking
        /\ reservations'[r].booking = reservations[r].booking
    BY <2>2 DEF Kept
  <2>4. QED BY <2>1, <2>3 DEF Shared
<1>2. QED BY <1>1 DEF Sound

(* A row that stays, of a booking whose time stays. *)
LEMMA SameStill ==
  ASSUME Kept, NEW r \in Rows, Exists(r), reservations'[r] = reservations[r],
         Sound(r)' => TimeOf(r)' = TimeOf(r)
  PROVE  Still(r)
  BY SoundStays DEF Still

LEMMA BooksCalm ==
  ASSUME RowsInv, Kept, UNCHANGED reservations,
         \A b \in Rows : Booked(b) => bookings'[b].time = bookings[b].time
  PROVE  Calm
<1>1. ASSUME NEW r \in Rows, Exists(r) PROVE Still(r)
  <2>1. reservations[r].booking \in Rows /\ Booked(reservations[r].booking)
    BY <1>1, RowTypes DEF RowsInv, ResRow
  <2>2. TimeOf(r)' = TimeOf(r)
    BY <2>1 DEF TimeOf
  <2>3. QED BY <1>1, <2>2, SameStill
<1>2. ASSUME NEW r \in Rows, ~Exists(r) PROVE reservations'[r].status # "confirmed"
  BY <1>2, RowTypes DEF NoReservation
<1>3. QED BY <1>1, <1>2 DEF Calm

LEMMA ReadCalm ==
  ASSUME RowsInv, UNCHANGED dbVars
  PROVE  Calm
  BY NothingWritten, BooksCalm DEF dbVars

LEMMA NewBookingCalm ==
  ASSUME RowsInv, NEW b \in FreeBooking, NEW t \in Times, NEW p \in Parties,
         NEW isLock \in BOOLEAN, NewBooking(b, t, p, isLock), UNCHANGED reservations
  PROVE  Calm
<1>1. Kept /\ ~Booked(b) /\ bookings' = [bookings EXCEPT ![b] = bookings'[b]]
  BY FreshBooking, FreshBookingRows
<1>2. \A d \in Rows : Booked(d) => bookings'[d].time = bookings[d].time
  BY <1>1, RowTypes
<1>3. QED BY <1>1, <1>2, BooksCalm

LEMMA NewReservationCalm ==
  ASSUME RowsInv, NEW r \in FreeRow, NEW b \in Rows, NEW p \in Parties,
         NEW u \in Callers, NewReservation(r, b, p, "pending", u),
         UNCHANGED bookings, Booked(b)
  PROVE  Calm
<1>0. "pending" \in Statuses
  BY DEF Statuses
<1>1. Kept /\ ~Exists(r) /\ reservations' = [reservations EXCEPT ![r] = reservations'[r]]
  BY <1>0, FreshReservation, FreshReservationRows
<1>2. reservations'[r].status = "pending"
  <2>1. reservations'[r] = [NoReservation EXCEPT !.booking = b, !.status = "pending",
                                                 !.party = p, !.user = u]
    BY RowTypes DEF NewReservation, FreeRow
  <2>2. QED BY <2>1 DEF NoReservation
<1>3. ASSUME NEW q \in Rows, Exists(q) PROVE Still(q)
  <2>1. reservations'[q] = reservations[q]
    BY <1>1, <1>3, RowTypes
  <2>2. TimeOf(q)' = TimeOf(q)
    BY <2>1 DEF TimeOf
  <2>3. QED BY <1>1, <1>3, <2>1, <2>2, SameStill
<1>4. ASSUME NEW q \in Rows, ~Exists(q) PROVE reservations'[q].status # "confirmed"
  <2>1. CASE q = r
    BY <1>2, <2>1
  <2>2. CASE q # r
    <3>1. reservations'[q] = NoReservation
      BY <1>1, <1>4, <2>2, RowTypes
    <3>2. QED BY <3>1 DEF NoReservation
  <2>3. QED BY <2>1, <2>2
<1>5. QED BY <1>3, <1>4 DEF Calm

LEMMA WriteUpdateCalm ==
  ASSUME IInv, NEW j \in Jobs, WriteUpdate(j)
  PROVE  Calm
<1> DEFINE q == seen[j].res
           x == [Changed(reservations[q], Asked(j)) EXCEPT !.agent = TRUE]
<1>1. q \in Rows /\ Exists(q) /\ Kept
  BY ThreadWrites DEF WriteUpdate, ThreadStep, IInv, ThreadsInv, Ready, Known
<1>2. reservations' = [reservations EXCEPT ![q] = x] /\ UNCHANGED bookings
  BY DEF WriteUpdate
<1>3. x.agent = TRUE
  <2>1. reservations[q] \in ResRow
    BY <1>1, RowTypes DEF IInv
  <2>2. Changed(reservations[q], Asked(j)) \in ResRow
    BY <2>1, ChangedRow, AskedTypes DEF IInv
  <2> DEFINE y == Changed(reservations[q], Asked(j))
  <2>3. y \in ResRow
    BY <2>2
  <2> HIDE DEF y
  <2>4. [y EXCEPT !.agent = TRUE].agent = TRUE
    BY <2>3 DEF ResRow
  <2>5. QED BY <2>4 DEF y
<1> HIDE DEF x, q
<1>4. ASSUME NEW r \in Rows, Exists(r) PROVE Still(r)
  <2>1. CASE r = q
    <3>1. reservations'[r].agent
      BY <1>1, <1>2, <1>3, <2>1, RowTypes DEF IInv
    <3>2. QED BY <3>1 DEF Still, Sound
  <2>2. CASE r # q
    <3>1. reservations'[r] = reservations[r]
      BY <1>1, <1>2, <2>2, RowTypes DEF IInv
    <3>2. TimeOf(r)' = TimeOf(r)
      BY <1>2, <3>1 DEF TimeOf
    <3>3. QED BY <1>1, <1>4, <3>1, <3>2, SameStill
  <2>3. QED BY <2>1, <2>2
<1>5. ASSUME NEW r \in Rows, ~Exists(r) PROVE reservations'[r].status # "confirmed"
  <2>1. reservations'[r] = NoReservation
    BY <1>1, <1>2, <1>5, RowTypes DEF IInv
  <2>2. QED BY <2>1 DEF NoReservation
<1>6. QED BY <1>4, <1>5 DEF Calm

(* The booking that an update moves is of a row it marked, or is shared. *)
LEMMA MoveUpdateCalm ==
  ASSUME IInv, MoversInv, NEW j \in Jobs, MoveUpdate(j)
  PROVE  Calm
<1> DEFINE q == seen[j].res
           b == seen[j].booking
<1>1. /\ q \in Rows /\ Exists(q) /\ Kept /\ b \in Rows
      /\ reservations[q].booking = b /\ reservations[q].agent
  BY ThreadWrites DEF MoveUpdate, ThreadStep, IInv, ThreadsInv, Ready, Known, MoversInv
<1>2. /\ bookings' = [bookings EXCEPT ![b].time = Asked(j).time]
      /\ UNCHANGED reservations
  BY DEF MoveUpdate
<1> HIDE DEF q, b
<1>3. ASSUME NEW r \in Rows, Exists(r) PROVE Still(r)
  <2>1. CASE r = q
    BY <1>1, <1>2, <2>1 DEF Still, Sound
  <2>2. CASE r # q /\ reservations[r].booking = b
    <3>1. Shared(r)'
      BY <1>1, <1>2, <2>2 DEF Shared
    <3>2. QED BY <3>1 DEF Still, Sound
  <2>3. CASE reservations[r].booking # b
    <3>1. reservations[r].booking \in Rows
      BY <1>3, RowTypes DEF IInv, ResRow
    <3>2. bookings'[reservations[r].booking] = bookings[reservations[r].booking]
      BY <1>1, <1>2, <2>3, <3>1, RowTypes DEF IInv
    <3>3. TimeOf(r)' = TimeOf(r)
      BY <1>2, <3>2 DEF TimeOf
    <3>4. QED BY <1>1, <1>2, <1>3, <3>3, SameStill
  <2>4. QED BY <2>1, <2>2, <2>3
<1>4. ASSUME NEW r \in Rows, ~Exists(r) PROVE reservations'[r].status # "confirmed"
  BY <1>2, <1>4, RowTypes DEF NoReservation, IInv
<1>5. QED BY <1>3, <1>4 DEF Calm

LEMMA ThreadCalm ==
  ASSUME IInv, MoversInv, NEW j \in Jobs, Thread(j)
  PROVE  Calm
<1>1. ASSUME \/ CheckCapacity(j) \/ LookupRefused(j) \/ CheckUpdate(j)
             \/ \E r \in Rows : Lookup(j, r)
      PROVE  Calm
  BY <1>1, ReadCalm DEF CheckCapacity, LookupRefused, CheckUpdate, Lookup, IInv
<1>2. ASSUME NEW b \in FreeBooking, InsertSlot(j, b) PROVE Calm
  <2>1. Asked(j).time \in Times /\ Asked(j).party \in Parties
    BY <1>2, AskedTypes DEF InsertSlot, ThreadStep, Ready, IInv, ThreadsInv
  <2>2. QED BY <1>2, <2>1, NewBookingCalm DEF InsertSlot, IInv
<1>3. ASSUME NEW r \in FreeRow, InsertReservation(j, r) PROVE Calm
  <2>1. /\ Asked(j).party \in Parties
        /\ target[j] \in Rows /\ Booked(target[j])
    BY <1>3, AskedTypes DEF InsertReservation, ThreadStep, Ready, IInv, ThreadsInv
  <2>2. CallerOf[j[1]] \in Callers
    BY ReservationsAssumption DEF Jobs
  <2>3. QED BY <1>3, <2>1, <2>2, NewReservationCalm DEF InsertReservation, IInv
<1>4. QED BY <1>1, <1>2, <1>3, WriteUpdateCalm, MoveUpdateCalm DEF Thread

(* Everybody but the four writers. *)
LEMMA RestCalm ==
  ASSUME IInv,
         \/ \E b \in FreeBooking : InsertLock(b)
         \/ \E r \in FreeRow : InsertToken(r)
         \/ ReleaseSlot
         \/ \E b \in Rows : Expire(b)
  PROVE  Calm
<1>1. ASSUME NEW b \in FreeBooking, InsertLock(b) PROVE Calm
  <2>1. rest.change.time \in Times /\ rest.change.party \in Parties
    BY <1>1, RestTypes DEF InsertLock, RestStep, IInv, RestInv
  <2>2. QED BY <1>1, <2>1, NewBookingCalm DEF InsertLock, IInv
<1>2. ASSUME NEW r \in FreeRow, InsertToken(r) PROVE Calm
  <2> DEFINE b == rest.seen.booking
  <2>1. b \in Rows /\ Booked(b) /\ rest.user \in Callers
    BY <1>2 DEF InsertToken, RestStep, IInv, RestInv
  <2>2. bookings[b].party \in Parties
    BY <2>1, RowTypes DEF IInv, BookRow
  <2>3. NewReservation(r, b, bookings[b].party, "pending", rest.user) /\ UNCHANGED bookings
    BY <1>2 DEF InsertToken
  <2> HIDE DEF b
  <2>4. QED BY <2>1, <2>2, <2>3, NewReservationCalm DEF IInv
<1>3. ASSUME ReleaseSlot PROVE Calm
  <2>1. UNCHANGED reservations
    BY <1>3 DEF ReleaseSlot
  <2>2. \A b \in Rows : Booked(b) => bookings'[b].time = bookings[b].time
    <3> TAKE b \in Rows
    <3> HAVE Booked(b)
    <3>1. bookings[b] \in BookRow
      BY RowTypes DEF IInv
    <3>2. bookings' = [bookings EXCEPT ![rest.seen.booking].status = "available"]
      BY <1>3 DEF ReleaseSlot
    <3>3. QED BY <3>1, <3>2, RowTypes DEF IInv, BookRow
  <2>3. QED BY <1>3, <2>1, <2>2, ReleaseRows, BooksCalm DEF IInv
<1>4. ASSUME NEW d \in Rows, Expire(d) PROVE Calm
  <2>1. UNCHANGED reservations
    BY <1>4 DEF Expire
  <2>2. \A b \in Rows : Booked(b) => bookings'[b].time = bookings[b].time
    <3> TAKE b \in Rows
    <3> HAVE Booked(b)
    <3>1. bookings[b] \in BookRow
      BY RowTypes DEF IInv
    <3>2. bookings' = [bookings EXCEPT ![d].expired = TRUE]
      BY <1>4 DEF Expire
    <3>3. QED BY <3>1, <3>2, RowTypes DEF IInv, BookRow
  <2>3. QED BY <1>4, <2>1, <2>2, ExpireRows, BooksCalm DEF IInv
<1>5. QED BY <1>1, <1>2, <1>3, <1>4
-----------------------------------------------------------------------------
(* The four writers. *)

(* The one row that a handler of the dashboard writes. *)
Apart(x) == \A r \in Rows : r # x => reservations'[r] = reservations[r]

LEMMA FinalizeWrites ==
  ASSUME IInv, WriteFinalize, NEW x \in Rows, x = rest.seen.res
  PROVE  /\ Exists(x) /\ Kept /\ Apart(x) /\ UNCHANGED bookings
         /\ reservations'[x].booking = reservations[x].booking
         /\ reservations'[x].party = reservations[x].party
         /\ reservations'[x].agent = reservations[x].agent
         /\ reservations'[x].half = reservations[x].half
<1>1. rest.pc \in OnRow /\ Kept /\ UNCHANGED bookings
  BY FinalizeRows DEF WriteFinalize, RestStep, OnRow
<1>2. Exists(x) /\ reservations[x] \in ResRow
  BY <1>1, OnRowTypes
<1>3. CASE reservations[x].status = "pending"
  <2> DEFINE y == [reservations[x] EXCEPT !.status = "confirmed"]
  <2>1. reservations' = [reservations EXCEPT ![x] = y]
    BY <1>3 DEF WriteFinalize
  <2>2. /\ y.booking = reservations[x].booking /\ y.party = reservations[x].party
        /\ y.agent = reservations[x].agent /\ y.half = reservations[x].half
    BY <1>2 DEF ResRow
  <2> HIDE DEF y
  <2>3. reservations'[x] = y /\ Apart(x)
    BY <2>1, RowTypes DEF IInv, Apart
  <2>4. QED BY <1>1, <1>2, <2>2, <2>3
<1>4. CASE reservations[x].status # "pending"
  BY <1>1, <1>2, <1>4 DEF WriteFinalize, Apart
<1>5. QED BY <1>3, <1>4

LEMMA CancelWrites ==
  ASSUME IInv, WriteCancel, NEW x \in Rows, x = rest.seen.res
  PROVE  /\ Exists(x) /\ Kept /\ Apart(x) /\ UNCHANGED bookings
         /\ reservations'[x].agent = reservations[x].agent
         /\ \/ reservations'[x] = reservations[x]
            \/ reservations'[x].status = "cancelled"
<1>1. rest.pc \in OnRow /\ Kept /\ UNCHANGED bookings
  BY CancelRows DEF WriteCancel, RestStep, OnRow
<1>2. Exists(x) /\ reservations[x] \in ResRow
  BY <1>1, OnRowTypes
<1>3. CASE reservations[x].status \in {"pending", "confirmed"}
  <2> DEFINE y == [reservations[x] EXCEPT !.status = "cancelled"]
  <2>1. reservations' = [reservations EXCEPT ![x] = y]
    BY <1>3 DEF WriteCancel
  <2>2. y.status = "cancelled" /\ y.agent = reservations[x].agent
    BY <1>2 DEF ResRow
  <2> HIDE DEF y
  <2>3. reservations'[x] = y /\ Apart(x)
    BY <2>1, RowTypes DEF IInv, Apart
  <2>4. QED BY <1>1, <1>2, <2>2, <2>3
<1>4. CASE reservations[x].status \notin {"pending", "confirmed"}
  BY <1>1, <1>2, <1>4 DEF WriteCancel, Apart
<1>5. QED BY <1>3, <1>4

LEMMA EditWrites ==
  ASSUME IInv, WriteEdit, NEW x \in Rows, x = rest.seen.res
  PROVE  /\ Exists(x) /\ Kept /\ Apart(x) /\ UNCHANGED bookings
         /\ reservations'[x].booking = reservations[x].booking
         /\ reservations'[x].party = Or(rest.change.party, reservations[x].party)
         /\ reservations'[x].status = Or(rest.change.status, reservations[x].status)
         /\ reservations'[x].agent = reservations[x].agent
         /\ reservations'[x].half = Strays
<1>1. rest.pc \in OnRow /\ Kept /\ UNCHANGED bookings
  BY EditRows DEF WriteEdit, RestStep, OnRow
<1>2. Exists(x) /\ reservations[x] \in ResRow
  BY <1>1, OnRowTypes
<1> DEFINE p == Or(rest.change.party, reservations[x].party)
           s == Or(rest.change.status, reservations[x].status)
           y == [reservations[x] EXCEPT !.party = p, !.status = s]
           z == [y EXCEPT !.half = Strays]
<1>3. reservations' = [reservations EXCEPT ![x] = z]
  BY DEF WriteEdit, Changed
<1> HIDE DEF p, s
<1>4. /\ y.party = p /\ y.status = s /\ y.agent = reservations[x].agent
      /\ y.booking = reservations[x].booking
      /\ DOMAIN y = DOMAIN reservations[x]
  BY <1>2 DEF ResRow
<1> HIDE DEF y
<1>5. /\ z.party = p /\ z.status = s /\ z.agent = reservations[x].agent
      /\ z.booking = reservations[x].booking
      /\ z.half = Strays
  BY <1>2, <1>4 DEF ResRow
<1> HIDE DEF z
<1>6. reservations'[x] = z /\ Apart(x)
  BY <1>3, RowTypes DEF IInv, Apart
<1>7. QED BY <1>1, <1>2, <1>5, <1>6 DEF p, s

LEMMA MoveWrites ==
  ASSUME IInv, MoveEdit, NEW x \in Rows, x = rest.seen.res
  PROVE  /\ Exists(x) /\ Kept /\ Apart(x)
         /\ reservations'[x].booking = reservations[x].booking
         /\ reservations'[x].party = reservations[x].party
         /\ reservations'[x].status = reservations[x].status
         /\ reservations'[x].agent = reservations[x].agent
         /\ reservations'[x].half =
              (rest.change.party # None \/ rest.change.status # None \/ Strays)
         /\ bookings'[rest.seen.booking].time = rest.change.time
         /\ \A b \in Rows : b # rest.seen.booking => bookings'[b] = bookings[b]
<1>1. rest.pc \in OnRow /\ Kept
  BY MoveEditRows DEF MoveEdit, RestStep, OnRow
<1>2. /\ Exists(x) /\ reservations[x] \in ResRow
      /\ rest.seen.booking \in Rows /\ bookings[rest.seen.booking] \in BookRow
  BY <1>1, OnRowTypes
<1> DEFINE h == (rest.change.party # None \/ rest.change.status # None) \/ Strays
           y == [reservations[x] EXCEPT !.half = h]
<1>3. reservations' = [reservations EXCEPT ![x] = y]
  BY DEF MoveEdit
<1>4. h = (rest.change.party # None \/ rest.change.status # None \/ Strays)
  BY DEF Strays
<1> HIDE DEF h
<1>5. /\ y.party = reservations[x].party /\ y.status = reservations[x].status
      /\ y.agent = reservations[x].agent /\ y.booking = reservations[x].booking
      /\ y.half = h
  BY <1>2 DEF ResRow
<1> HIDE DEF y
<1>6. reservations'[x] = y /\ Apart(x)
  BY <1>3, RowTypes DEF IInv, Apart
<1>7. bookings' = [bookings EXCEPT ![rest.seen.booking].time = rest.change.time]
  BY DEF MoveEdit
<1>8. /\ bookings'[rest.seen.booking].time = rest.change.time
      /\ \A b \in Rows : b # rest.seen.booking => bookings'[b] = bookings[b]
  BY <1>2, <1>7, RowTypes DEF IInv, BookRow
<1>9. QED BY <1>1, <1>2, <1>4, <1>5, <1>6, <1>8

(* The agent's mark stays. *)
LEMMA AgentKept ==
  ASSUME IInv, [Next]_vars, NEW r \in Rows, Exists(r), reservations[r].agent
  PROVE  reservations'[r].agent
<1>1. ASSUME NEW q \in FreeRow, NEW y, reservations' = [reservations EXCEPT ![q] = y]
      PROVE  reservations'[r].agent
  BY <1>1, RowTypes DEF FreeRow, IInv
<1>2. ASSUME UNCHANGED reservations PROVE reservations'[r].agent
  BY <1>2
<1>3. ASSUME NEW j \in Jobs, WriteUpdate(j) PROVE reservations'[r].agent
  <2> DEFINE q == seen[j].res
             y == Changed(reservations[q], Asked(j))
             x == [y EXCEPT !.agent = TRUE]
  <2>1. q \in Rows /\ Exists(q) /\ reservations[q] \in ResRow
    BY <1>3, RowTypes DEF WriteUpdate, ThreadStep, IInv, ThreadsInv, Ready, Known
  <2>2. y \in ResRow
    BY <2>1, ChangedRow, AskedTypes DEF IInv
  <2>3. reservations' = [reservations EXCEPT ![q] = x]
    BY <1>3 DEF WriteUpdate
  <2> HIDE DEF y
  <2>4. x.agent = TRUE
    BY <2>2 DEF ResRow
  <2> HIDE DEF x, q
  <2>5. QED BY <2>1, <2>3, <2>4, RowTypes DEF IInv
<1>4. ASSUME NEW j \in Jobs, Thread(j) PROVE reservations'[r].agent
  <2>1. ASSUME NEW q \in FreeRow, InsertReservation(j, q) PROVE reservations'[r].agent
    <3>1. PICK y : reservations' = [reservations EXCEPT ![q] = y]
      BY <2>1 DEF InsertReservation, NewReservation
    <3>2. QED BY <3>1, <1>1
  <2>2. ASSUME \/ CheckCapacity(j) \/ LookupRefused(j) \/ CheckUpdate(j) \/ MoveUpdate(j)
               \/ \E b \in FreeBooking : InsertSlot(j, b)
               \/ \E q \in Rows : Lookup(j, q)
        PROVE  UNCHANGED reservations
    BY <2>2 DEF CheckCapacity, LookupRefused, CheckUpdate, MoveUpdate, InsertSlot,
                Lookup, dbVars
  <2>3. QED BY <1>2, <1>3, <1>4, <2>1, <2>2 DEF Thread
<1>5. ASSUME WriteFinalize \/ WriteCancel \/ WriteEdit \/ MoveEdit
      PROVE  reservations'[r].agent
  <2>1. rest.pc \in OnRow
    BY <1>5 DEF WriteFinalize, WriteCancel, WriteEdit, MoveEdit, RestStep, OnRow
  <2>2. PICK x \in Rows : x = rest.seen.res
    BY <2>1, OnRowTypes
  <2>3. Apart(x) /\ reservations'[x].agent = reservations[x].agent
    BY <1>5, <2>2, FinalizeWrites, CancelWrites, EditWrites, MoveWrites
  <2>4. QED BY <2>3 DEF Apart
<1>6. ASSUME NEW b \in FreeBooking, NEW q \in FreeRow, InsertDirect(b, q)
      PROVE  reservations'[r].agent
  <2>1. PICK y : reservations' = [reservations EXCEPT ![q] = y]
    BY <1>6 DEF InsertDirect, NewReservation
  <2>2. QED BY <2>1, <1>1
<1>7. ASSUME NEW q \in FreeRow, InsertToken(q)
      PROVE  reservations'[r].agent
  <2>1. PICK y : reservations' = [reservations EXCEPT ![q] = y]
    BY <1>7 DEF InsertToken, NewReservation
  <2>2. QED BY <2>1, <1>1
<1>8. ASSUME Dashboard PROVE reservations'[r].agent
  <2>1. ASSUME \/ \E t \in Times, p \in Parties, u \in Callers : OpenDirect(t, p, u)
               \/ \E q \in Rows : OpenFinalize(q) \/ OpenCancel(q)
               \/ \E q \in Rows, e \in Edits : OpenEdit(q, e)
               \/ CheckFinalize \/ CheckEdit \/ ReleaseSlot \/ RestFail
        PROVE  UNCHANGED reservations
    BY <2>1 DEF OpenDirect, OpenFinalize, OpenCancel, OpenEdit, Open, CheckFinalize,
                CheckEdit, ReleaseSlot, RestFail, dbVars
  <2>2. QED BY <1>2, <1>5, <1>6, <1>8, <2>1 DEF Dashboard
<1>9. ASSUME Booking PROVE reservations'[r].agent
  <2>1. ASSUME \/ \E t \in Times, p \in Parties : OpenLock(t, p)
               \/ \E b \in FreeBooking : InsertLock(b)
               \/ \E b \in Rows, u \in Callers : OpenToken(b, u)
        PROVE  UNCHANGED reservations
    BY <2>1 DEF OpenLock, InsertLock, OpenToken, Open, dbVars
  <2>2. QED BY <1>2, <1>7, <1>9, <2>1 DEF Booking
<1>10. ASSUME \/ \E c \in Calls : Loop(c)
              \/ \E c \in Calls, a \in Asks : Request(c, a)
              \/ \E j \in Jobs : FailThread(j)
              \/ \E b \in Rows : Expire(b)
              \/ Crash \/ UNCHANGED vars
       PROVE  UNCHANGED reservations
  BY <1>10 DEF Loop, ResumeFits, Resume, Timeout, EndCall, Request, FailThread,
               Expire, Crash, vars, dbVars
<1>11. QED BY <1>2, <1>4, <1>8, <1>9, <1>10 DEF Next

(* What a thread goes by when another step is taken. *)
Moves(j) ==
  /\ pc[j] \in {"check", "write", "move"}
       => reservations[seen[j].res].booking = seen[j].booking
  /\ pc[j] = "move" => reservations[seen[j].res].agent

LEMMA MovesStay ==
  ASSUME IInv, Kept, [Next]_vars, NEW j \in Jobs, Moves(j), seen'[j] = seen[j],
         pc'[j] = pc[j] \/ pc'[j] \notin {"check", "write", "move"}
  PROVE  Moves(j)'
<1>1. CASE pc'[j] = pc[j] /\ pc[j] \in {"check", "write", "move"}
  <2>1. seen[j].res \in Rows /\ Exists(seen[j].res)
    BY <1>1 DEF IInv, ThreadsInv, Ready, Known
  <2>2. reservations'[seen[j].res].booking = reservations[seen[j].res].booking
    BY <2>1 DEF Kept
  <2>3. reservations[seen[j].res].agent => reservations'[seen[j].res].agent
    BY <2>1, AgentKept
  <2>4. QED BY <1>1, <2>2, <2>3 DEF Moves
<1>2. CASE pc'[j] \notin {"check", "write", "move"}
  BY <1>2 DEF Moves
<1>3. QED BY <1>1, <1>2

LEMMA MoversStep ==
  ASSUME IInv, MoversInv, [Next]_vars
  PROVE  MoversInv'
<1>0. Kept /\ pc \in [Jobs -> PCs] /\ seen \in [Jobs -> Snapshots]
  BY RowStep DEF IInv, ThreadsInv, TypeThreads, PCs
<1> SUFFICES ASSUME NEW j \in Jobs PROVE Moves(j)'
  BY DEF MoversInv, Moves
<1>1. Moves(j)
  BY DEF MoversInv, Moves
<1>2. ASSUME UNCHANGED seen,
             pc'[j] = pc[j] \/ pc'[j] \notin {"check", "write", "move"}
      PROVE  Moves(j)'
  BY <1>0, <1>1, <1>2, MovesStay
<1>3. ASSUME NEW i \in Jobs, Thread(i) PROVE Moves(j)'
  <2>1. PICK from \in PCs, to \in PCs : ThreadStep(i, from, to)
    BY <1>3 DEF Thread, CheckCapacity, LookupRefused, CheckUpdate, WriteUpdate,
                MoveUpdate, InsertSlot, InsertReservation, Lookup, PCs, Working
  <2>2. pc'[i] = to /\ pc[i] = from /\ (i # j => pc'[j] = pc[j])
    BY <1>0, <2>1 DEF ThreadStep
  <2>3. CASE i # j
    <3>1. seen'[j] = seen[j]
      BY <1>0, <1>3, <2>3 DEF Thread, CheckCapacity, LookupRefused, CheckUpdate,
                  WriteUpdate, MoveUpdate, InsertSlot, InsertReservation, Lookup
    <3>2. QED BY <1>0, <1>1, <2>2, <2>3, <3>1, MovesStay
  <2>4. CASE i = j
    <3>1. ASSUME NEW r \in Rows, Lookup(j, r) PROVE Moves(j)'
      <4>1. /\ seen'[j] = Snapshot(r) /\ UNCHANGED reservations /\ pc'[j] # "move"
        BY <1>0, <3>1 DEF Lookup, ThreadStep, dbVars
      <4>2. Snapshot(r).res = r /\ Snapshot(r).booking = reservations[r].booking
        BY DEF Snapshot
      <4>3. QED BY <4>1, <4>2 DEF Moves
    <3>2. ASSUME CheckUpdate(j) PROVE Moves(j)'
      <4>1. pc[j] = "check" /\ pc'[j] # "move" /\ UNCHANGED <<seen, reservations>>
        BY <1>0, <3>2 DEF CheckUpdate, ThreadStep, dbVars
      <4>2. QED BY <1>1, <4>1 DEF Moves
    <3>3. ASSUME WriteUpdate(j) PROVE Moves(j)'
      <4> DEFINE q == seen[j].res
                 y == Changed(reservations[q], Asked(j))
                 x == [y EXCEPT !.agent = TRUE]
      <4>1. /\ pc[j] = "write" /\ UNCHANGED seen
            /\ reservations' = [reservations EXCEPT ![q] = x]
        BY <3>3 DEF WriteUpdate, ThreadStep
      <4>2. q \in Rows /\ Exists(q) /\ reservations[q] \in ResRow
        BY <4>1, RowTypes DEF IInv, ThreadsInv, Ready, Known
      <4>3. y \in ResRow /\ y.booking = reservations[q].booking
        BY <4>2, ChangedRow, AskedTypes DEF IInv
      <4> HIDE DEF y
      <4>4. x.agent = TRUE /\ x.booking = y.booking
        BY <4>3 DEF ResRow
      <4> HIDE DEF x
      <4>5. reservations'[q] = x
        BY <4>1, <4>2, RowTypes DEF IInv
      <4>6. QED BY <1>1, <4>1, <4>3, <4>4, <4>5 DEF Moves
    <3>4. ASSUME \/ CheckCapacity(j) \/ LookupRefused(j) \/ MoveUpdate(j)
                 \/ \E b \in FreeBooking : InsertSlot(j, b)
                 \/ \E r \in FreeRow : InsertReservation(j, r)
          PROVE  Moves(j)'
      <4>1. UNCHANGED seen /\ pc'[j] \notin {"check", "write", "move"}
        BY <1>0, <3>4 DEF CheckCapacity, LookupRefused, MoveUpdate, InsertSlot,
                          InsertReservation, ThreadStep
      <4>2. QED BY <4>1, <1>2
    <3>5. QED BY <1>3, <2>4, <3>1, <3>2, <3>3, <3>4 DEF Thread
  <2>5. QED BY <2>3, <2>4
<1>4. ASSUME NEW c \in Calls, Loop(c) PROVE Moves(j)'
  <2>1. UNCHANGED seen
    BY <1>4 DEF Loop, ResumeFits, Resume, Timeout, EndCall
  <2>2. pc'[j] = pc[j] \/ pc'[j] \notin {"check", "write", "move"}
    <3>1. ASSUME ResumeFits(c) \/ Resume(c)
          PROVE  pc'[j] = pc[j] \/ pc'[j] \notin {"check", "write", "move"}
      BY <1>0, <3>1 DEF ResumeFits, Resume
    <3>2. ASSUME Timeout(c) \/ EndCall(c)
          PROVE  pc'[j] = pc[j] \/ pc'[j] \notin {"check", "write", "move"}
      <4>1. pc' = pc \/ pc' \in Abandoned(c)
        BY <3>2 DEF Timeout, EndCall
      <4>2. QED BY <4>1, AbandonedThreads
    <3>3. QED BY <1>4, <3>1, <3>2 DEF Loop
  <2>3. QED BY <2>1, <2>2, <1>2
<1>5. ASSUME NEW c \in Calls, NEW a \in Asks, Request(c, a) PROVE Moves(j)'
  <2>1. UNCHANGED seen
    BY <1>5 DEF Request
  <2>2. pc'[j] = pc[j] \/ pc'[j] \notin {"check", "write", "move"}
    BY <1>0, <1>5 DEF Request
  <2>3. QED BY <2>1, <2>2, <1>2
<1>6. ASSUME (\E i \in Jobs : FailThread(i)) \/ Crash PROVE Moves(j)'
  <2>1. UNCHANGED seen
    BY <1>6 DEF FailThread, Crash
  <2>2. pc'[j] = pc[j] \/ pc'[j] \notin {"check", "write", "move"}
    BY <1>0, <1>6 DEF FailThread, Crash
  <2>3. QED BY <2>1, <2>2, <1>2
<1>7. ASSUME Dashboard \/ Booking \/ (\E b \in Rows : Expire(b)) \/ UNCHANGED vars
      PROVE  Moves(j)'
  <2>1. ASSUME Dashboard PROVE UNCHANGED jobVars
    BY <2>1 DEF Dashboard, OpenDirect, InsertDirect, OpenFinalize, OpenCancel, OpenEdit,
                Open, CheckFinalize, WriteFinalize, WriteCancel, ReleaseSlot, CheckEdit,
                MoveEdit, WriteEdit, RestFail, RestStep
  <2>2. ASSUME Booking PROVE UNCHANGED jobVars
    BY <2>2 DEF Booking, OpenLock, InsertLock, OpenToken, InsertToken, Open, RestStep
  <2>3. ASSUME (\E b \in Rows : Expire(b)) \/ UNCHANGED vars PROVE UNCHANGED jobVars
    BY <2>3 DEF Expire, vars, jobVars
  <2>4. UNCHANGED seen /\ pc'[j] = pc[j]
    BY <1>7, <2>1, <2>2, <2>3 DEF jobVars
  <2>5. QED BY <2>4, <1>2
<1>8. QED BY <1>3, <1>4, <1>5, <1>6, <1>7 DEF Next

LEMMA NextGuests ==
  ASSUME RowsInv', NEW t
  PROVE  /\ Guests(Counted(t))' \in Nat
         /\ \A r \in Counted(t)' : reservations'[r].party \in Nat
<1>1. Counted(t)' \in SUBSET Rows /\ \A r \in Counted(t)' : Exists(r)'
  BY DEF Counted, Confirmed
<1>2. \A r \in Counted(t)' : reservations'[r].party \in Nat
  <2> TAKE r \in Counted(t)'
  <2>1. reservations' \in [Rows -> ResRow \cup {NoReservation}]
    BY DEF RowsInv, TypeRows, ResRow
  <2>2. reservations'[r].booking # None
    BY <1>1 DEF Exists
  <2>3. reservations'[r] \in ResRow
    BY <1>1, <2>1, <2>2 DEF NoReservation
  <2>4. QED BY <2>3, ReservationsAssumption DEF ResRow
<1>3. Guests(Counted(t))' = Sum(reservations', Counted(t)')
  BY DEF Guests, MapThenSumSet, MapThenFoldSet, Sum, Adder, Adds, One
<1>4. Counts(reservations', Counted(t)')
  BY <1>2 DEF Counts
<1>5. QED BY <1>1, <1>2, <1>3, <1>4, SumNat

(* What an edit writes. *)
LEMMA EditTypes ==
  ASSUME IInv, rest.pc \in {"check", "move", "edit"}
  PROVE  /\ NewTime \in Times
         /\ Or(rest.change.party, rest.seen.party) \in Nat
<1>1. rest.seen.time \in Times /\ rest.seen.party \in Parties
  BY DEF IInv, RestInv, OnRow, Known
<1>2. /\ rest.change.time # None => rest.change.time \in Times
      /\ rest.change.party # None => rest.change.party \in Parties
  BY RestTypes DEF IInv
<1>3. QED BY <1>1, <1>2, ReservationsAssumption DEF NewTime, Or
-----------------------------------------------------------------------------
(* What a step leaves of the invariant. *)

LEMMA SeatsCalm ==
  ASSUME RowsInv, SeatsKept, \A r \in Rows : Quiet(r)
  PROVE  SeatsKept'
<1> SUFFICES ASSUME NEW t \in Times, OnMinute(t)
             PROVE  Guests(Counted(t))' <= Seats
  BY DEF SeatsKept, Counted, OnMinute
<1>1. Guests(Counted(t)) <= Seats
  BY DEF SeatsKept, Counted
<1>2. QED BY <1>1, GuestsFewer, ReservationsAssumption

(* Row x enters the count where there is room for it. *)
LEMMA SeatsEnter ==
  ASSUME RowsInv, RowsInv', SeatsKept, NEW x \in Rows,
         \A r \in Rows : r # x => Quiet(r),
         \A t \in Times : OnMinute(t) /\ x \in Counted(t)' =>
           Guests(Counted(t) \ {x}) + reservations'[x].party <= Seats
  PROVE  SeatsKept'
<1> SUFFICES ASSUME NEW t \in Times, OnMinute(t)
             PROVE  Guests(Counted(t))' <= Seats
  BY DEF SeatsKept, Counted, OnMinute
<1>1. Guests(Counted(t)) <= Seats
  BY DEF SeatsKept, Counted
<1>2. CASE x \notin Counted(t)'
  <2>1. \A r \in Rows : Quiet(r) \/ r = x
    OBVIOUS
  <2>2. Guests(Counted(t))' <= Guests(Counted(t))
    BY <1>2, GuestsEnter
  <2>3. Guests(Counted(t)) \in Nat /\ Guests(Counted(t))' \in Nat
    BY CountedTypes, NextGuests
  <2>4. QED BY <1>1, <2>2, <2>3, ReservationsAssumption
<1>3. CASE x \in Counted(t)'
  <2>1. Guests(Counted(t))' <= Guests(Counted(t) \ {x}) + reservations'[x].party
    BY <1>3, GuestsEnter
  <2>2. Guests(Counted(t) \ {x}) + reservations'[x].party <= Seats
    BY <1>3
  <2>3. Guests(Counted(t))' \in Nat
    BY NextGuests
  <2>4. Guests(Counted(t) \ {x}) \in Nat /\ reservations'[x].party \in Nat
    BY <1>3, CountedTypes, NextGuests
  <2>5. QED BY <2>1, <2>2, <2>3, <2>4, ReservationsAssumption
<1>4. QED BY <1>2, <1>3

LEMMA ReadStays ==
  ASSUME IInv, Kept, Calm, ReadInv, rest'.seen = rest.seen, rest'.change = rest.change,
         \/ rest'.pc = rest.pc
         \/ rest.pc = "confirm" /\ rest'.pc = "finalize"
         \/ rest.pc = "check" /\ rest'.pc = AfterCheck(rest.change)
  PROVE  ReadInv'
<1>1. CASE rest.pc \notin OnRow
  BY <1>1 DEF ReadInv, Reader, OnRow
<1>2. CASE rest.pc \in OnRow
  <2>1. PICK x \in Rows : x = rest.seen.res
    BY <1>2, OnRowTypes
  <2>2. Exists(x) /\ rest'.seen.res = x
    BY <1>2, <2>1, OnRowTypes
  <2>3. reservations'[x].booking = rest'.seen.booking
    BY <1>2, <2>1, <2>2 DEF ReadInv, Kept
  <2>4. rest'.pc \in Reader => rest.pc \in Reader
    BY DEF Reader, AfterCheck
  <2>5. ASSUME rest'.pc \in Reader, Sound(x)'
        PROVE  /\ reservations'[x].party = rest'.seen.party
               /\ reservations'[x].status = rest'.seen.status
               /\ TimeOf(x)' = IF rest'.pc = "edit" THEN NewTime ELSE rest.seen.time
    <3>1. /\ Sound(x) /\ reservations'[x].party = reservations[x].party
          /\ reservations'[x].status = reservations[x].status
          /\ TimeOf(x)' = TimeOf(x)
      BY <2>2, <2>5 DEF Calm, Still
    <3>2. /\ reservations[x].party = rest.seen.party
          /\ reservations[x].status = rest.seen.status
          /\ TimeOf(x) = IF rest.pc = "edit" THEN NewTime ELSE rest.seen.time
      BY <2>1, <2>4, <2>5, <3>1 DEF ReadInv
    <3>3. rest.pc # "edit" /\ rest'.pc = "edit" => NewTime = rest.seen.time
      BY DEF AfterCheck, NewTime, Or
    <3>4. rest.pc = "edit" => rest'.pc = "edit"
      OBVIOUS
    <3>5. QED BY <3>1, <3>2, <3>3, <3>4
  <2>6. NewTime' = NewTime
    BY DEF NewTime
  <2>7. /\ rest'.pc \in {"confirm", "finalize"} => rest'.seen.status = "pending"
        /\ rest'.pc \in {"check", "move", "edit"} /\ rest'.change.time # None
             => OnMinute(rest'.change.time)
    BY DEF ReadInv, AfterCheck
  <2>8. /\ (Sound(rest.seen.res))' <=> Sound(x)'
        /\ (TimeOf(rest.seen.res))' = TimeOf(x)'
        /\ (OnMinute(rest.change.time))' <=> OnMinute(rest'.change.time)
    BY <2>2 DEF Sound, TimeOf, Shared, OnMinute
  <2>9. QED BY <2>2, <2>3, <2>5, <2>6, <2>7, <2>8 DEF ReadInv
<1>3. QED BY <1>1, <1>2

(* The room is found by a check and stays. *)
LEMMA RoomStays ==
  ASSUME IInv, Kept, Calm, ReadInv, RoomInv, UNCHANGED rest
  PROVE  RoomInv'
<1>0. \A r \in Rows : Quiet(r)
  BY CalmQuiet DEF Calm
<1>1. ASSUME rest'.pc = "direct"
      PROVE  /\ OnMinute(rest'.change.time)
             /\ Guests(Counted(rest.change.time))' + rest'.change.party <= Seats
  <2>1. PICK t \in Times : t = rest.change.time
    BY <1>1, RestTypes DEF IInv, RestInv
  <2>2. rest.change.party \in Nat
    BY <1>1, RestTypes, ReservationsAssumption DEF IInv, RestInv
  <2>3. Guests(Counted(t)) + rest.change.party <= Seats /\ OnMinute(t)
    BY <1>1, <2>1 DEF RoomInv
  <2>4. /\ Guests(Counted(t))' <= Guests(Counted(t))
        /\ Guests(Counted(t))' \in Nat /\ Guests(Counted(t)) \in Nat
    BY <1>0, GuestsFewer DEF IInv
  <2>5. Guests(Counted(t))' + rest.change.party <= Seats
    BY <2>2, <2>3, <2>4, ReservationsAssumption
  <2>6. Guests(Counted(rest.change.time))' = Guests(Counted(t))'
    BY <2>1
  <2>7. QED BY <2>1, <2>3, <2>5, <2>6
<1>2. ASSUME rest'.pc = "finalize", OnMinute(rest'.seen.time)
      PROVE  Guests(Counted(rest.seen.time))' + rest'.seen.party <= Seats
  <2>1. PICK t \in Times : t = rest.seen.time
    BY <1>2 DEF IInv, RestInv, OnRow, Known
  <2>2. rest.seen.party \in Nat
    BY <1>2, ReservationsAssumption DEF IInv, RestInv, OnRow, Known
  <2>3. Guests(Counted(t)) + rest.seen.party <= Seats
    BY <1>2, <2>1 DEF RoomInv
  <2>4. /\ Guests(Counted(t))' <= Guests(Counted(t))
        /\ Guests(Counted(t))' \in Nat /\ Guests(Counted(t)) \in Nat
    BY <1>0, GuestsFewer DEF IInv
  <2>5. Guests(Counted(t))' + rest.seen.party <= Seats
    BY <2>2, <2>3, <2>4, ReservationsAssumption
  <2>6. Guests(Counted(rest.seen.time))' = Guests(Counted(t))'
    BY <2>1
  <2>7. QED BY <2>1, <2>5, <2>6
<1>3. ASSUME rest'.pc \in {"move", "edit"},
             Or(rest.change.status, rest.seen.status)' = "confirmed",
             OnMinute(NewTime)', ~Strays', Sound(rest.seen.res)'
      PROVE  Guests(Counted(NewTime) \ {rest.seen.res})'
               + Or(rest.change.party, rest.seen.party)' <= Seats
  <2>1. PICK t \in Times : t = NewTime
    BY <1>3, EditTypes
  <2>2. PICK x \in Rows : x = rest.seen.res
    BY <1>3, OnRowTypes DEF OnRow
  <2>3. Exists(x)
    BY <1>3, <2>2, OnRowTypes DEF OnRow
  <2> DEFINE p == Or(rest.change.party, rest.seen.party)
  <2>4. p \in Nat /\ p' = p
    BY <1>3, EditTypes
  <2>5. Sound(x)' /\ Sound(x)
    <3>1. Sound(x)'
      BY <1>3, <2>2 DEF Sound, Shared
    <3>2. QED BY <2>3, <3>1 DEF Calm, Still
  <2>6. Guests(Counted(t) \ {x}) + p <= Seats
    <3>1. Or(rest.change.status, rest.seen.status) = "confirmed"
      BY <1>3 DEF Or
    <3>2. OnMinute(NewTime) /\ ~Strays
      BY <1>3 DEF OnMinute, NewTime, Or, Strays
    <3>3. QED BY <1>3, <2>1, <2>2, <2>5, <3>1, <3>2 DEF RoomInv
  <2>7. /\ Guests(Counted(t) \ {x})' <= Guests(Counted(t) \ {x})
        /\ Guests(Counted(t) \ {x})' \in Nat /\ Guests(Counted(t) \ {x}) \in Nat
    BY <1>0, GuestsShrink DEF IInv
  <2> HIDE DEF p
  <2>8. Guests(Counted(t) \ {x})' + p <= Seats
    BY <2>4, <2>6, <2>7, ReservationsAssumption
  <2>9. t = NewTime' /\ x = rest'.seen.res
    BY <2>1, <2>2 DEF NewTime
  <2>10. Guests(Counted(NewTime) \ {rest.seen.res})' = Guests(Counted(t) \ {x})'
    BY <2>9
  <2>11. QED BY <2>4, <2>8, <2>10 DEF p
<1>4. QED BY <1>1, <1>2, <1>3 DEF RoomInv, OnMinute
-----------------------------------------------------------------------------
(* The handlers of the dashboard, one by one. *)

(* The rows a handler does not write, when no booking moves. *)
LEMMA ApartQuiet ==
  ASSUME RowsInv, Kept, NEW x \in Rows, Apart(x), UNCHANGED bookings
  PROVE  \A r \in Rows : r # x => Quiet(r)
<1> SUFFICES ASSUME NEW r \in Rows, r # x PROVE Quiet(r)
  OBVIOUS
<1>1. reservations'[r] = reservations[r]
  BY DEF Apart
<1>2. TimeOf(r)' = TimeOf(r)
  BY <1>1 DEF TimeOf
<1>3. Exists(r) => Still(r)
  BY <1>1, <1>2, SameStill
<1>4. ~Exists(r) => reservations'[r].status # "confirmed"
  BY <1>1, RowTypes DEF NoReservation
<1>5. QED BY <1>3, <1>4, CalmQuiet

LEMMA IdleInv ==
  ASSUME rest'.pc = "idle"
  PROVE  ReadInv' /\ RoomInv'
  BY DEF ReadInv, RoomInv, OnRow, Reader

LEMMA InsertDirectSeats ==
  ASSUME IInv, IInv', SeatsInv, NEW b \in FreeBooking, NEW x \in FreeRow, InsertDirect(b, x)
  PROVE  SeatsKept'
<1> DEFINE T == rest.change.time
           p == rest.change.party
<1>1. /\ T \in Times /\ p \in Parties /\ rest.user \in Callers /\ p \in Nat
      /\ rest.pc = "direct"
  BY RestTypes, ReservationsAssumption DEF InsertDirect, RestStep, IInv, RestInv
<1>2. /\ NewBooking(b, T, p, FALSE)
      /\ NewReservation(x, b, p, "confirmed", rest.user)
  BY DEF InsertDirect
<1>3. OnMinute(T) /\ Guests(Counted(T)) + p <= Seats
  BY <1>1 DEF SeatsInv, RoomInv
<1> HIDE DEF T, p
<1>4. /\ b \in Rows /\ ~Booked(b) /\ bookings'[b].time = T
      /\ bookings' = [bookings EXCEPT ![b] = bookings'[b]]
  BY <1>1, <1>2, FreshBooking DEF IInv
<1>5. /\ x \in Rows /\ ~Exists(x) /\ reservations'[x].booking = b
      /\ reservations' = [reservations EXCEPT ![x] = reservations'[x]]
  BY <1>1, <1>2, <1>4, FreshReservation DEF IInv, Statuses
<1>6. reservations'[x].party = p
  <2>1. reservations'[x] = [NoReservation EXCEPT !.booking = b, !.status = "confirmed",
                                                 !.party = p, !.user = rest.user]
    BY <1>2, <1>5, RowTypes DEF NewReservation, IInv
  <2>2. QED BY <2>1 DEF NoReservation
<1>7. Kept
  BY InsertDirectRows
<1>8. ASSUME NEW r \in Rows, r # x PROVE Quiet(r)
  <2>1. reservations'[r] = reservations[r]
    BY <1>5, <1>8, RowTypes DEF IInv
  <2>2. ASSUME Exists(r) PROVE Still(r)
    <3>1. reservations[r].booking \in Rows /\ reservations[r].booking # b
      BY <1>4, <2>2, RowTypes DEF IInv, RowsInv, ResRow
    <3>2. TimeOf(r)' = TimeOf(r)
      BY <1>4, <2>1, <3>1, RowTypes DEF TimeOf, IInv
    <3>3. QED BY <1>7, <2>1, <2>2, <3>2, SameStill
  <2>3. ~Exists(r) => reservations'[r].status # "confirmed"
    BY <2>1, RowTypes DEF NoReservation, IInv
  <2>4. QED BY <1>7, <2>2, <2>3, CalmQuiet
<1>9. ASSUME NEW t \in Times, OnMinute(t), x \in Counted(t)'
      PROVE  Guests(Counted(t) \ {x}) + reservations'[x].party <= Seats
  <2>1. t = T
    BY <1>4, <1>5, <1>9 DEF Counted, Confirmed, TimeOf
  <2>2. /\ Guests(Counted(t) \ {x}) <= Guests(Counted(t))
        /\ Guests(Counted(t) \ {x}) \in Nat /\ Guests(Counted(t)) \in Nat
    BY CountedTypes, FewerGuests DEF IInv
  <2>3. QED BY <1>1, <1>3, <1>6, <2>1, <2>2, ReservationsAssumption
<1>10. QED BY <1>5, <1>8, <1>9, SeatsEnter DEF IInv, SeatsInv

LEMMA FinalizeSeats ==
  ASSUME IInv, IInv', SeatsInv, WriteFinalize
  PROVE  SeatsKept'
<1>1. rest.pc = "finalize"
  BY DEF WriteFinalize, RestStep
<1>2. PICK x \in Rows : x = rest.seen.res
  BY <1>1, OnRowTypes DEF OnRow
<1>3. /\ Exists(x) /\ Kept /\ Apart(x) /\ UNCHANGED bookings
      /\ reservations'[x].booking = reservations[x].booking
      /\ reservations'[x].party = reservations[x].party
      /\ reservations'[x].agent = reservations[x].agent
      /\ reservations'[x].half = reservations[x].half
  BY <1>2, FinalizeWrites
<1>4. \A r \in Rows : r # x => Quiet(r)
  BY <1>3, ApartQuiet DEF IInv
<1>5. ASSUME NEW t \in Times, OnMinute(t), x \in Counted(t)'
      PROVE  Guests(Counted(t) \ {x}) + reservations'[x].party <= Seats
  <2>1. Sound(x)
    BY <1>3, <1>5, SoundStays DEF Counted, Vouched, Sound
  <2>2. TimeOf(x) = t
    BY <1>3, <1>5 DEF Counted, Confirmed, TimeOf
  <2>3. reservations[x].party = rest.seen.party /\ TimeOf(x) = rest.seen.time
    BY <1>1, <1>2, <2>1 DEF SeatsInv, ReadInv, Reader
  <2>4. Guests(Counted(t)) + rest.seen.party <= Seats
    BY <1>1, <1>5, <2>2, <2>3 DEF SeatsInv, RoomInv
  <2>5. /\ Guests(Counted(t) \ {x}) <= Guests(Counted(t))
        /\ Guests(Counted(t) \ {x}) \in Nat /\ Guests(Counted(t)) \in Nat
    BY CountedTypes, FewerGuests DEF IInv
  <2>6. rest.seen.party \in Nat
    BY <1>1, ReservationsAssumption DEF IInv, RestInv, OnRow, Known
  <2>7. QED BY <1>3, <2>3, <2>4, <2>5, <2>6, ReservationsAssumption
<1>6. QED BY <1>4, <1>5, SeatsEnter DEF IInv, SeatsInv

LEMMA CancelSeats ==
  ASSUME IInv, SeatsInv, WriteCancel
  PROVE  SeatsKept' /\ ReadInv' /\ RoomInv'
<1>1. rest.pc = "cancel"
  BY DEF WriteCancel, RestStep
<1>2. PICK x \in Rows : x = rest.seen.res
  BY <1>1, OnRowTypes DEF OnRow
<1>3. /\ Exists(x) /\ Kept /\ Apart(x) /\ UNCHANGED bookings
      /\ reservations'[x].agent = reservations[x].agent
      /\ \/ reservations'[x] = reservations[x]
         \/ reservations'[x].status = "cancelled"
  BY <1>2, CancelWrites
<1>4. \A r \in Rows : r # x => Quiet(r)
  BY <1>3, ApartQuiet DEF IInv
<1>5. Quiet(x)
  <2>1. CASE reservations'[x].status = "cancelled"
    BY <2>1 DEF Quiet, Counted, Confirmed
  <2>2. CASE reservations'[x] = reservations[x]
    <3>1. TimeOf(x)' = TimeOf(x)
      BY <1>3, <2>2 DEF TimeOf
    <3>2. Still(x)
      BY <1>3, <2>2, <3>1, SameStill
    <3>3. QED BY <1>3, <3>2, CalmQuiet
  <2>3. QED BY <1>3, <2>1, <2>2
<1>6. SeatsKept'
  BY <1>4, <1>5, SeatsCalm DEF IInv, SeatsInv
<1>7. rest' = Idle \/ rest' = [rest EXCEPT !.pc = "release"]
  BY DEF WriteCancel, RestStep
<1>8. CASE rest' = Idle
  <2>1. rest'.pc = "idle"
    BY <1>8 DEF Idle
  <2>2. QED BY <1>6, <2>1, IdleInv
<1>9. CASE rest' = [rest EXCEPT !.pc = "release"]
  <2>1. rest'.pc = "release" /\ rest'.seen = rest.seen
    BY <1>9 DEF IInv, RestInv
  <2>2. reservations'[x].booking = rest.seen.booking
    BY <1>1, <1>2, <1>3 DEF Kept, SeatsInv, ReadInv, OnRow
  <2>3. ReadInv' /\ RoomInv'
    BY <1>2, <2>1, <2>2 DEF ReadInv, RoomInv, Reader
  <2>4. QED BY <1>6, <2>3
<1>10. QED BY <1>7, <1>8, <1>9

LEMMA EditSeats ==
  ASSUME IInv, IInv', SeatsInv, WriteEdit
  PROVE  SeatsKept'
<1>1. rest.pc = "edit"
  BY DEF WriteEdit, RestStep
<1>2. PICK x \in Rows : x = rest.seen.res
  BY <1>1, OnRowTypes DEF OnRow
<1>3. /\ Exists(x) /\ Kept /\ Apart(x) /\ UNCHANGED bookings
      /\ reservations'[x].booking = reservations[x].booking
      /\ reservations'[x].party = Or(rest.change.party, reservations[x].party)
      /\ reservations'[x].status = Or(rest.change.status, reservations[x].status)
      /\ reservations'[x].agent = reservations[x].agent
      /\ reservations'[x].half = Strays
  BY <1>2, EditWrites
<1>4. \A r \in Rows : r # x => Quiet(r)
  BY <1>3, ApartQuiet DEF IInv
<1>5. ASSUME NEW t \in Times, OnMinute(t), x \in Counted(t)'
      PROVE  Guests(Counted(t) \ {x}) + reservations'[x].party <= Seats
  <2>1. /\ Sound(x) /\ ~Strays /\ TimeOf(x) = t
        /\ Or(rest.change.status, reservations[x].status) = "confirmed"
    <3>1. Sound(x)' /\ ~Strays
      BY <1>3, <1>5 DEF Counted, Vouched, Sound
    <3>2. Sound(x)
      BY <1>3, <3>1, SoundStays
    <3>3. QED BY <1>3, <1>5, <3>1, <3>2 DEF Counted, Confirmed, TimeOf
  <2>2. /\ reservations[x].party = rest.seen.party
        /\ reservations[x].status = rest.seen.status
        /\ t = NewTime
    BY <1>1, <1>2, <2>1 DEF SeatsInv, ReadInv, Reader
  <2>3. OnMinute(NewTime)
    BY <1>5, <2>2
  <2>4. Guests(Counted(t) \ {x}) + Or(rest.change.party, rest.seen.party) <= Seats
    BY <1>1, <1>2, <2>1, <2>2, <2>3 DEF SeatsInv, RoomInv
  <2>5. QED BY <1>3, <2>2, <2>4
<1>6. QED BY <1>4, <1>5, SeatsEnter DEF IInv, SeatsInv

(* The booking that an edit moves is of the row it read, or is shared. *)
LEMMA MoveEditSeats ==
  ASSUME IInv, IInv', SeatsInv, MoveEdit
  PROVE  SeatsKept' /\ ReadInv' /\ RoomInv'
<1>1. rest.pc = "move"
  BY DEF MoveEdit, RestStep
<1>2. PICK x \in Rows : x = rest.seen.res
  BY <1>1, OnRowTypes DEF OnRow
<1> DEFINE b == rest.seen.booking
           more == rest.change.party # None \/ rest.change.status # None
<1>3. /\ Exists(x) /\ Kept /\ Apart(x)
      /\ reservations'[x].booking = reservations[x].booking
      /\ reservations'[x].party = reservations[x].party
      /\ reservations'[x].status = reservations[x].status
      /\ reservations'[x].agent = reservations[x].agent
      /\ reservations'[x].half =
           (rest.change.party # None \/ rest.change.status # None \/ Strays)
      /\ bookings'[b].time = rest.change.time
      /\ \A d \in Rows : d # b => bookings'[d] = bookings[d]
  BY <1>2, MoveWrites
<1>4. reservations[x].booking = b /\ rest.change.time # None
  BY <1>1, <1>2 DEF SeatsInv, ReadInv, OnRow, IInv, RestInv
<1>5. NewTime = rest.change.time /\ TimeOf(x)' = NewTime
  BY <1>3, <1>4 DEF NewTime, Or, TimeOf
<1> HIDE DEF b
<1>6. ASSUME NEW r \in Rows, r # x PROVE Quiet(r)
  <2>1. reservations'[r] = reservations[r]
    BY <1>3, <1>6 DEF Apart
  <2>2. ASSUME Exists(r) PROVE Still(r)
    <3>1. CASE reservations[r].booking = b
      <4>1. Shared(r)'
        BY <1>3, <1>4, <1>6, <2>1, <3>1 DEF Shared
      <4>2. QED BY <4>1 DEF Still, Sound
    <3>2. CASE reservations[r].booking # b
      <4>1. reservations[r].booking \in Rows
        BY <2>2, RowTypes DEF IInv, ResRow
      <4>2. TimeOf(r)' = TimeOf(r)
        BY <1>3, <2>1, <3>2, <4>1 DEF TimeOf
      <4>3. QED BY <1>3, <2>1, <2>2, <4>2, SameStill
    <3>3. QED BY <3>1, <3>2
  <2>3. ~Exists(r) => reservations'[r].status # "confirmed"
    BY <2>1, RowTypes DEF NoReservation, IInv
  <2>4. QED BY <1>3, <2>2, <2>3, CalmQuiet
<1>7. Sound(x)' => Sound(x)
  BY <1>3, SoundStays
<1>8. Sound(x) => /\ reservations[x].party = rest.seen.party
                  /\ reservations[x].status = rest.seen.status
  BY <1>1, <1>2 DEF SeatsInv, ReadInv, Reader
<1>9. ASSUME Sound(x), ~Strays,
             Or(rest.change.status, rest.seen.status) = "confirmed"
      PROVE  Guests(Counted(NewTime) \ {x})
               + Or(rest.change.party, rest.seen.party) <= Seats
  <2>1. OnMinute(NewTime)
    BY <1>1, <1>4, <1>5 DEF SeatsInv, ReadInv, OnMinute
  <2>2. QED BY <1>1, <1>2, <1>9, <2>1 DEF SeatsInv, RoomInv
<1>10. ASSUME NEW t \in Times, OnMinute(t), x \in Counted(t)'
       PROVE  Guests(Counted(t) \ {x}) + reservations'[x].party <= Seats
  <2>1. /\ Sound(x)' /\ ~Strays /\ ~more /\ t = NewTime
        /\ reservations[x].status = "confirmed"
    BY <1>3, <1>5, <1>10 DEF Counted, Confirmed, Vouched, Sound
  <2>3. /\ Or(rest.change.status, rest.seen.status) = "confirmed"
        /\ Or(rest.change.party, rest.seen.party) = reservations'[x].party
    BY <1>3, <1>7, <1>8, <2>1 DEF Or
  <2>4. QED BY <1>7, <1>9, <2>1, <2>3
<1>11. SeatsKept'
  BY <1>6, <1>10, SeatsEnter DEF IInv, SeatsInv
<1>12. rest' = Idle \/ (more /\ rest' = [rest EXCEPT !.pc = "edit"])
  BY DEF MoveEdit, RestStep
<1>13. CASE rest' = Idle
  <2>1. rest'.pc = "idle"
    BY <1>13 DEF Idle
  <2>2. QED BY <1>11, <2>1, IdleInv
<1>14. CASE rest' = [rest EXCEPT !.pc = "edit"]
  <2>1. rest'.pc = "edit" /\ rest'.seen = rest.seen /\ rest'.change = rest.change
    BY <1>14 DEF IInv, RestInv
  <2>2. NewTime' = NewTime
    BY <2>1 DEF NewTime
  <2>3. (Sound(rest.seen.res))' <=> Sound(x)'
    BY <1>2, <2>1 DEF Sound, Shared
  <2>4. (TimeOf(rest.seen.res))' = TimeOf(x)'
    BY <1>2, <2>1 DEF TimeOf
  <2>5. OnMinute(rest.change.time)
    BY <1>1, <1>4 DEF SeatsInv, ReadInv
  <2>6. ReadInv'
    BY <1>2, <1>3, <1>4, <1>5, <1>7, <1>8, <2>1, <2>2, <2>3, <2>4, <2>5
       DEF ReadInv, OnMinute, b
  <2>7. ASSUME Or(rest.change.status, rest.seen.status) = "confirmed",
               ~Strays, Sound(x)'
        PROVE  Guests(Counted(NewTime) \ {rest.seen.res})'
                 + Or(rest.change.party, rest.seen.party) <= Seats
    <3>1. PICK t \in Times : t = NewTime
      BY <1>1, EditTypes
    <3> DEFINE p == Or(rest.change.party, rest.seen.party)
    <3>2. p \in Nat
      BY <1>1, EditTypes
    <3>3. Guests(Counted(t) \ {x}) + p <= Seats
      BY <1>7, <1>9, <2>7, <3>1
    <3>4. /\ Guests(Counted(t) \ {x})' <= Guests(Counted(t) \ {x})
          /\ Guests(Counted(t) \ {x})' \in Nat /\ Guests(Counted(t) \ {x}) \in Nat
      BY <1>6, GuestsShrink DEF IInv
    <3> HIDE DEF p
    <3>5. Guests(Counted(t) \ {x})' + p <= Seats
      BY <3>2, <3>3, <3>4, ReservationsAssumption
    <3>6. t = NewTime' /\ x = rest'.seen.res
      BY <1>2, <2>1, <2>2, <3>1
    <3>7. Guests(Counted(NewTime) \ {rest.seen.res})' = Guests(Counted(t) \ {x})'
      BY <3>6
    <3>8. QED BY <3>5, <3>7 DEF p
  <2>8. RoomInv'
    <3>1. /\ Or(rest.change.status, rest.seen.status)'
               = Or(rest.change.status, rest.seen.status)
          /\ Or(rest.change.party, rest.seen.party)'
               = Or(rest.change.party, rest.seen.party)
          /\ Strays' <=> Strays
      BY <2>1 DEF Or, OnMinute, Strays
    <3>2. QED BY <2>1, <2>3, <2>7, <3>1 DEF RoomInv
  <2>9. QED BY <1>11, <2>6, <2>8
<1>15. QED BY <1>12, <1>13, <1>14

(* A handler opens with what it has read. *)
LEMMA OpenSeats ==
  ASSUME IInv, NEW next, NEW read, NEW change, NEW u, Open(next, read, change, u)
  PROVE  /\ rest'.pc = next /\ rest'.seen = read /\ rest'.change = change
         /\ \A r \in Rows : Quiet(r)
         /\ UNCHANGED dbVars
<1>1. Kept /\ Calm
  BY NothingWritten, ReadCalm DEF Open, IInv
<1>2. QED BY <1>1, CalmQuiet DEF Open, Calm

LEMMA OpenDirectSeats ==
  ASSUME IInv, NEW t \in Times, NEW p \in Parties, NEW u \in Callers, OpenDirect(t, p, u)
  PROVE  ReadInv' /\ RoomInv'
<1>1. /\ OnMinute(t) /\ p <= Seats - Guests(Confirmed(MinuteOf[t]))
      /\ Open("direct", NoSnapshot, Wanted(t, p), u)
  BY DEF OpenDirect, Fits, Used
<1>2. MinuteOf[t] = t /\ p \in Nat /\ Seats \in Nat
  BY <1>1, ReservationsAssumption DEF OnMinute
<1>3. /\ Guests(Counted(t)) <= Guests(Confirmed(t))
      /\ Guests(Counted(t)) \in Nat /\ Guests(Confirmed(t)) \in Nat
  BY CountedTypes, FewerGuests DEF IInv
<1>4. Guests(Counted(t)) + p <= Seats
  BY <1>1, <1>2, <1>3
<1>5. /\ rest'.pc = "direct" /\ rest'.change = Wanted(t, p)
      /\ \A r \in Rows : Quiet(r)
  BY <1>1, OpenSeats
<1>6. /\ Guests(Counted(t))' <= Guests(Counted(t)) /\ Guests(Counted(t))' \in Nat
  BY <1>5, GuestsFewer DEF IInv
<1>7. Guests(Counted(t))' + p <= Seats
  BY <1>2, <1>3, <1>4, <1>6
<1>8. rest'.change.time = t /\ rest'.change.party = p
  BY <1>5 DEF Wanted, NoChange
<1>9. Guests(Counted(rest.change.time))' = Guests(Counted(t))'
  BY <1>8
<1>10. QED BY <1>1, <1>5, <1>7, <1>8, <1>9 DEF ReadInv, RoomInv, OnRow, Reader, OnMinute

(* The row that is read is the row that is there. *)
LEMMA OpenRowSeats ==
  ASSUME IInv, NEW r \in Rows, Exists(r), NEW next \in {"confirm", "cancel", "check", "move", "edit"},
         NEW e \in Changes, Open(next, Snapshot(r), e, None),
         next = "confirm" => reservations[r].status = "pending",
         next = "edit" => e.time = None,
         next \in {"check", "move", "edit"} /\ e.time # None => OnMinute(e.time),
         next \in {"move", "edit"} => Or(e.status, reservations[r].status) # "confirmed"
  PROVE  ReadInv' /\ RoomInv'
<1>1. /\ rest'.pc = next /\ rest'.seen = Snapshot(r) /\ rest'.change = e
      /\ UNCHANGED dbVars
  BY OpenSeats
<1>2. /\ rest'.seen.res = r /\ rest'.seen.booking = reservations[r].booking
      /\ rest'.seen.time = TimeOf(r) /\ rest'.seen.party = reservations[r].party
      /\ rest'.seen.status = reservations[r].status
  BY <1>1 DEF Snapshot
<1>3. reservations' = reservations /\ TimeOf(r)' = TimeOf(r)
  BY <1>1 DEF dbVars, TimeOf
<1>4. (TimeOf(rest.seen.res))' = TimeOf(r)
  BY <1>2, <1>3 DEF TimeOf
<1>5. next = "edit" => NewTime' = TimeOf(r)
  BY <1>1, <1>2 DEF NewTime, Or
<1>6. ReadInv'
  BY <1>1, <1>2, <1>3, <1>4, <1>5 DEF ReadInv, OnMinute, OnRow
<1>7. next \in {"move", "edit"} => Or(rest.change.status, rest.seen.status)' # "confirmed"
  BY <1>1, <1>2 DEF Or
<1>8. RoomInv'
  BY <1>1, <1>7 DEF RoomInv
<1>9. QED BY <1>6, <1>8

LEMMA OpenEditSeats ==
  ASSUME IInv, NEW r \in Rows, NEW e \in Edits, OpenEdit(r, e)
  PROVE  ReadInv' /\ RoomInv'
<1> DEFINE next == IF Or(e.status, reservations[r].status) = "confirmed" THEN "check"
                   ELSE AfterCheck(e)
<1>1. /\ Exists(r) /\ (e.time # None => OnMinute(e.time))
      /\ Open(next, Snapshot(r), e, None)
  BY DEF OpenEdit
<1>2. /\ next \in {"check", "move", "edit"} /\ (next = "edit" => e.time = None)
      /\ next \in {"move", "edit"} => Or(e.status, reservations[r].status) # "confirmed"
  BY DEF AfterCheck
<1>3. e \in Changes
  BY InputsAssumption
<1> HIDE DEF next
<1>4. QED BY <1>1, <1>2, <1>3, OpenRowSeats

(* The checks. *)
LEMMA CheckFinalizeSeats ==
  ASSUME IInv, SeatsInv, CheckFinalize
  PROVE  SeatsKept' /\ ReadInv' /\ RoomInv'
<1>1. rest.pc = "confirm" /\ UNCHANGED dbVars
  BY DEF CheckFinalize, RestStep
<1>2. Kept /\ Calm /\ \A r \in Rows : Quiet(r)
  BY <1>1, NothingWritten, ReadCalm, CalmQuiet DEF IInv, Calm
<1>3. SeatsKept'
  BY <1>2, SeatsCalm DEF IInv, SeatsInv
<1>4. CASE ~Fits(rest.seen.time, rest.seen.party)
  <2>1. rest'.pc = "idle"
    BY <1>4 DEF CheckFinalize, RestStep, Idle
  <2>2. QED BY <1>3, <2>1, IdleInv
<1>5. CASE Fits(rest.seen.time, rest.seen.party)
  <2>1. rest'.pc = "finalize" /\ rest'.seen = rest.seen /\ rest'.change = rest.change
    BY <1>5 DEF CheckFinalize, RestStep, IInv, RestInv
  <2>2. ReadInv'
    BY <1>1, <1>2, <2>1, ReadStays DEF SeatsInv
  <2>3. ASSUME OnMinute(rest.seen.time)
        PROVE  Guests(Counted(rest.seen.time))' + rest.seen.party <= Seats
    <3>1. PICK t \in Times : t = rest.seen.time
      BY <1>1 DEF IInv, RestInv, OnRow, Known
    <3>2. rest.seen.party \in Nat /\ Seats \in Nat
      BY <1>1, ReservationsAssumption DEF IInv, RestInv, OnRow, Known
    <3>3. rest.seen.party <= Seats - Guests(Confirmed(t))
      BY <1>5, <2>3, <3>1 DEF Fits, Used, OnMinute
    <3>4. /\ Guests(Counted(t)) <= Guests(Confirmed(t))
          /\ Guests(Counted(t)) \in Nat /\ Guests(Confirmed(t)) \in Nat
      BY CountedTypes, FewerGuests DEF IInv
    <3>5. /\ Guests(Counted(t))' <= Guests(Counted(t)) /\ Guests(Counted(t))' \in Nat
      BY <1>2, GuestsFewer DEF IInv
    <3>6. Guests(Counted(t))' + rest.seen.party <= Seats
      BY <3>2, <3>3, <3>4, <3>5
    <3>7. t = rest'.seen.time
      BY <2>1, <3>1
    <3>8. Guests(Counted(rest.seen.time))' = Guests(Counted(t))'
      BY <3>7
    <3>9. QED BY <3>6, <3>8
  <2>4. RoomInv'
    BY <2>1, <2>3 DEF RoomInv, OnMinute
  <2>5. QED BY <1>3, <2>2, <2>4
<1>6. QED BY <1>4, <1>5

(* What EditFits finds: room beside the others, for a row that is still what  *)
(* was read, unless the edit drops the seconds of its time.                   *)
LEMMA EditFitsRoom ==
  ASSUME IInv, SeatsInv, rest.pc = "check", EditFits, ~Strays,
         NEW x \in Rows, x = rest.seen.res, Sound(x),
         NEW t \in Times, t = NewTime, OnMinute(t)
  PROVE  Guests(Counted(t) \ {x}) + Or(rest.change.party, rest.seen.party) <= Seats
<1> DEFINE p == Or(rest.change.party, rest.seen.party)
<1>1. p \in Nat /\ Seats \in Nat /\ rest.seen.party \in Nat
  BY EditTypes, ReservationsAssumption DEF IInv, RestInv, OnRow, Known
<1>2. MinuteOf[t] = t
  BY DEF OnMinute
<1>3. rest.seen.status = "confirmed" =>
        (t = MinuteOf[rest.seen.time] <=> t = rest.seen.time)
  <2>1. CASE rest.change.time = None
    BY <1>2, <2>1 DEF NewTime, Or
  <2>2. CASE rest.change.time # None
    BY <1>2, <2>2 DEF NewTime, Or, Strays, OnMinute
  <2>3. QED BY <2>1, <2>2
<1>4. /\ reservations[x].party = rest.seen.party
      /\ reservations[x].status = rest.seen.status
      /\ TimeOf(x) = rest.seen.time
  BY DEF SeatsInv, ReadInv, Reader
<1>5. Exists(x)
  BY OnRowTypes DEF OnRow
<1> DEFINE own == IF rest.seen.status = "confirmed" /\ t = rest.seen.time
                  THEN rest.seen.party ELSE 0
<1>6. p <= Seats - (Guests(Confirmed(t)) - own)
  BY <1>2, <1>3 DEF EditFits, Used, NewTime
<1> HIDE DEF p
<1>7. /\ Guests(Confirmed(t)) \in Nat /\ Guests(Counted(t) \ {x}) \in Nat
      /\ Guests(Confirmed(t) \ {x}) \in Nat
      /\ Guests(Counted(t) \ {x}) <= Guests(Confirmed(t) \ {x})
      /\ Guests(Counted(t) \ {x}) <= Guests(Confirmed(t))
  BY CountedTypes, FewerGuests DEF IInv
<1>8. CASE rest.seen.status = "confirmed" /\ t = rest.seen.time
  <2>1. x \in Confirmed(t)
    BY <1>4, <1>5, <1>8 DEF Confirmed
  <2>2. Guests(Confirmed(t)) = reservations[x].party + Guests(Confirmed(t) \ {x})
    BY <2>1, CountedTypes, SumSplit, GuestsSum DEF IInv
  <2>3. own = rest.seen.party
    BY <1>8
  <2> HIDE DEF own
  <2>4. Guests(Counted(t) \ {x}) + p <= Seats
    BY <1>1, <1>4, <1>6, <1>7, <2>2, <2>3
  <2>5. QED BY <2>4 DEF p
<1>9. CASE ~(rest.seen.status = "confirmed" /\ t = rest.seen.time)
  <2>1. own = 0
    BY <1>9
  <2> HIDE DEF own
  <2>2. Guests(Counted(t) \ {x}) + p <= Seats
    BY <1>1, <1>6, <1>7, <2>1
  <2>3. QED BY <2>2 DEF p
<1>10. QED BY <1>8, <1>9

LEMMA CheckEditSeats ==
  ASSUME IInv, SeatsInv, CheckEdit
  PROVE  SeatsKept' /\ ReadInv' /\ RoomInv'
<1>1. rest.pc = "check" /\ UNCHANGED dbVars
  BY DEF CheckEdit, RestStep
<1>2. Kept /\ Calm /\ \A r \in Rows : Quiet(r)
  BY <1>1, NothingWritten, ReadCalm, CalmQuiet DEF IInv, Calm
<1>3. SeatsKept'
  BY <1>2, SeatsCalm DEF IInv, SeatsInv
<1>4. CASE ~EditFits
  <2>1. rest'.pc = "idle"
    BY <1>4 DEF CheckEdit, RestStep, Idle
  <2>2. QED BY <1>3, <2>1, IdleInv
<1>5. CASE EditFits
  <2>1. /\ rest'.pc = AfterCheck(rest.change) /\ rest'.pc \in {"move", "edit"}
        /\ rest'.seen = rest.seen /\ rest'.change = rest.change
    BY <1>5 DEF CheckEdit, RestStep, IInv, RestInv, AfterCheck
  <2>2. ReadInv'
    BY <1>1, <1>2, <2>1, ReadStays DEF SeatsInv
  <2>3. PICK x \in Rows : x = rest.seen.res
    BY <1>1, OnRowTypes DEF OnRow
  <2>4. (Sound(rest.seen.res))' <=> Sound(x)
    BY <1>1, <2>1, <2>3 DEF Sound, Shared, dbVars
  <2>5. ASSUME OnMinute(NewTime), ~Strays, Sound(x)
        PROVE  Guests(Counted(NewTime) \ {rest.seen.res})'
                 + Or(rest.change.party, rest.seen.party) <= Seats
    <3>1. PICK t \in Times : t = NewTime
      BY <1>1, EditTypes
    <3> DEFINE p == Or(rest.change.party, rest.seen.party)
    <3>2. p \in Nat
      BY <1>1, EditTypes
    <3>3. Guests(Counted(t) \ {x}) + p <= Seats
      BY <1>1, <1>5, <2>3, <2>5, <3>1, EditFitsRoom
    <3>4. /\ Guests(Counted(t) \ {x})' <= Guests(Counted(t) \ {x})
          /\ Guests(Counted(t) \ {x})' \in Nat /\ Guests(Counted(t) \ {x}) \in Nat
      BY <1>2, GuestsShrink DEF IInv
    <3> HIDE DEF p
    <3>5. Guests(Counted(t) \ {x})' + p <= Seats
      BY <3>2, <3>3, <3>4, ReservationsAssumption
    <3>6. t = NewTime' /\ x = rest'.seen.res
      BY <2>1, <2>3, <3>1 DEF NewTime
    <3>7. Guests(Counted(NewTime) \ {rest.seen.res})' = Guests(Counted(t) \ {x})'
      BY <3>6
    <3>8. QED BY <3>5, <3>7 DEF p
  <2>6. /\ Or(rest.change.party, rest.seen.party)'
             = Or(rest.change.party, rest.seen.party)
        /\ (OnMinute(NewTime))' <=> OnMinute(NewTime)
        /\ Strays' <=> Strays
    BY <2>1 DEF Or, OnMinute, Strays, NewTime
  <2>7. RoomInv'
    BY <2>1, <2>4, <2>5, <2>6 DEF RoomInv
  <2>8. QED BY <1>3, <2>2, <2>7
<1>6. QED BY <1>4, <1>5

-----------------------------------------------------------------------------
(* The invariant of the seats. *)

LEMMA InitSeats == Init => SeatsInv
<1> SUFFICES ASSUME Init PROVE SeatsInv
  OBVIOUS
<1>1. rest.pc = "idle" /\ \A j \in Jobs : pc[j] = "none"
  BY DEF Init, Idle
<1>2. MoversInv /\ ReadInv /\ RoomInv
  BY <1>1 DEF MoversInv, ReadInv, RoomInv, OnRow, Reader
<1>3. SeatsKept
  <2>1. \A t \in Times : Counted(t) = {}
    BY DEF Init, Counted, Confirmed, Exists, NoReservation
  <2>2. Guests({}) = 0
    BY GuestsSum, SumNone
  <2>3. \A t \in Times : Guests(Counted(t)) <= Seats
    BY <2>1, <2>2, ReservationsAssumption
  <2>4. QED BY <2>3 DEF SeatsKept, Counted
<1>4. QED BY <1>2, <1>3 DEF SeatsInv

(* Whoever does not stand in a handler takes guests away at most. *)
LEMMA CalmSeats ==
  ASSUME IInv, SeatsInv, Kept, Calm
  PROVE  /\ SeatsKept'
         /\ UNCHANGED rest => ReadInv' /\ RoomInv'
         /\ rest'.pc = "idle" => ReadInv' /\ RoomInv'
<1>1. \A r \in Rows : Quiet(r)
  BY CalmQuiet DEF Calm
<1>2. SeatsKept'
  BY <1>1, SeatsCalm DEF IInv, SeatsInv
<1>3. UNCHANGED rest => ReadInv' /\ RoomInv'
  BY ReadStays, RoomStays DEF SeatsInv
<1>4. QED BY <1>2, <1>3, IdleInv

LEMMA DashboardSeats ==
  ASSUME IInv, IInv', SeatsInv, [Next]_vars, Dashboard
  PROVE  SeatsKept' /\ ReadInv' /\ RoomInv'
<1>0. Kept
  BY RowStep
<1>1. ASSUME UNCHANGED dbVars PROVE SeatsKept'
  BY <1>0, <1>1, ReadCalm, CalmSeats DEF IInv
<1>2. ASSUME NEW t \in Times, NEW p \in Parties, NEW u \in Callers, OpenDirect(t, p, u)
      PROVE  SeatsKept' /\ ReadInv' /\ RoomInv'
  BY <1>1, <1>2, OpenDirectSeats DEF OpenDirect, Open
<1>3. ASSUME NEW r \in Rows, OpenFinalize(r) \/ OpenCancel(r)
      PROVE  SeatsKept' /\ ReadInv' /\ RoomInv'
  <2>1. Exists(r) /\ UNCHANGED dbVars /\ NoChange \in Changes
    BY <1>3 DEF OpenFinalize, OpenCancel, Open, NoChange, Changes
  <2>2. PICK next \in {"confirm", "cancel"} :
          /\ Open(next, Snapshot(r), NoChange, None)
          /\ next = "confirm" => reservations[r].status = "pending"
    BY <1>3 DEF OpenFinalize, OpenCancel
  <2>3. QED BY <1>1, <2>1, <2>2, OpenRowSeats
<1>4. ASSUME NEW r \in Rows, NEW e \in Edits, OpenEdit(r, e)
      PROVE  SeatsKept' /\ ReadInv' /\ RoomInv'
  BY <1>1, <1>4, OpenEditSeats DEF OpenEdit, Open
<1>5. ASSUME RestFail \/ ReleaseSlot PROVE SeatsKept' /\ ReadInv' /\ RoomInv'
  <2>1. rest'.pc = "idle"
    BY <1>5 DEF RestFail, ReleaseSlot, RestStep, Idle
  <2>2. Calm
    BY <1>5, ReadCalm, RestCalm DEF RestFail, IInv
  <2>3. QED BY <1>0, <2>1, <2>2, CalmSeats
<1>6. ASSUME \/ \E b \in FreeBooking, r \in FreeRow : InsertDirect(b, r)
             \/ WriteFinalize \/ WriteEdit
      PROVE  SeatsKept' /\ ReadInv' /\ RoomInv'
  <2>1. rest' = Idle
    <3>1. ASSUME NEW b \in FreeBooking, NEW r \in FreeRow, InsertDirect(b, r)
          PROVE  rest' = Idle
      BY <3>1 DEF InsertDirect, RestStep
    <3>2. WriteFinalize => rest' = Idle
      BY DEF WriteFinalize, RestStep
    <3>3. WriteEdit => rest' = Idle
      BY DEF WriteEdit, RestStep
    <3>4. QED BY <1>6, <3>1, <3>2, <3>3
  <2>2. rest'.pc = "idle"
    BY <2>1 DEF Idle
  <2>3. QED BY <1>6, <2>2, IdleInv, InsertDirectSeats, FinalizeSeats, EditSeats
<1>7. QED BY <1>2, <1>3, <1>4, <1>5, <1>6, CheckFinalizeSeats, CheckEditSeats,
             CancelSeats, MoveEditSeats DEF Dashboard

LEMMA BookingSeats ==
  ASSUME IInv, SeatsInv, [Next]_vars, Booking
  PROVE  SeatsKept' /\ ReadInv' /\ RoomInv'
<1>0. Kept
  BY RowStep
<1>1. ASSUME NEW next \in {"lock", "token"}, NEW read, NEW change, NEW u,
             Open(next, read, change, u)
      PROVE  SeatsKept' /\ ReadInv' /\ RoomInv'
  <2>1. rest'.pc = next /\ UNCHANGED dbVars
    BY <1>1, OpenSeats
  <2>2. SeatsKept'
    BY <1>0, <2>1, ReadCalm, CalmSeats DEF IInv
  <2>3. QED BY <2>1, <2>2 DEF ReadInv, RoomInv, OnRow, Reader
<1>2. ASSUME NEW t \in Times, NEW p \in Parties, OpenLock(t, p)
      PROVE  SeatsKept' /\ ReadInv' /\ RoomInv'
  BY <1>1, <1>2 DEF OpenLock
<1>3. ASSUME NEW b \in Rows, NEW u \in Callers, OpenToken(b, u)
      PROVE  SeatsKept' /\ ReadInv' /\ RoomInv'
  BY <1>1, <1>3 DEF OpenToken
<1>4. ASSUME \/ \E b \in FreeBooking : InsertLock(b)
             \/ \E r \in FreeRow : InsertToken(r)
      PROVE  SeatsKept' /\ ReadInv' /\ RoomInv'
  <2>0. rest' = Idle
    <3>1. ASSUME NEW b \in FreeBooking, InsertLock(b) PROVE rest' = Idle
      BY <3>1 DEF InsertLock, RestStep
    <3>2. ASSUME NEW r \in FreeRow, InsertToken(r) PROVE rest' = Idle
      BY <3>2 DEF InsertToken, RestStep
    <3>3. QED BY <1>4, <3>1, <3>2
  <2>1. rest'.pc = "idle"
    BY <2>0 DEF Idle
  <2>2. Calm
    BY <1>4, RestCalm
  <2>3. QED BY <1>0, <2>1, <2>2, CalmSeats
<1>5. QED BY <1>2, <1>3, <1>4 DEF Booking

LEMMA SeatsStep ==
  ASSUME IInv, IInv', SeatsInv, [Next]_vars
  PROVE  SeatsInv'
<1>0. Kept /\ MoversInv'
  BY RowStep, MoversStep DEF SeatsInv
<1>1. ASSUME NEW j \in Jobs, Thread(j) PROVE SeatsKept' /\ ReadInv' /\ RoomInv'
  <2>1. UNCHANGED rest
    BY <1>1 DEF Thread, CheckCapacity, LookupRefused, CheckUpdate, WriteUpdate,
                MoveUpdate, InsertSlot, InsertReservation, Lookup, restVars
  <2>2. QED BY <1>0, <1>1, <2>1, ThreadCalm, CalmSeats DEF SeatsInv
<1>2. ASSUME \/ \E c \in Calls : Loop(c)
             \/ \E c \in Calls, a \in Asks : Request(c, a)
             \/ \E j \in Jobs : FailThread(j)
             \/ UNCHANGED vars
      PROVE  SeatsKept' /\ ReadInv' /\ RoomInv'
  <2>1. UNCHANGED dbVars /\ UNCHANGED rest
    BY <1>2 DEF Loop, ResumeFits, Resume, Timeout, EndCall, Request, FailThread,
                vars, dbVars, restVars
  <2>2. QED BY <1>0, <2>1, ReadCalm, CalmSeats DEF IInv
<1>3. ASSUME NEW b \in Rows, Expire(b) PROVE SeatsKept' /\ ReadInv' /\ RoomInv'
  BY <1>0, <1>3, RestCalm, CalmSeats DEF Expire, restVars
<1>4. ASSUME Crash PROVE SeatsKept' /\ ReadInv' /\ RoomInv'
  <2>1. UNCHANGED dbVars /\ rest'.pc = "idle"
    BY <1>4 DEF Crash, Idle
  <2>2. QED BY <1>0, <2>1, ReadCalm, CalmSeats DEF IInv
<1>5. QED BY <1>0, <1>1, <1>2, <1>3, <1>4, DashboardSeats, BookingSeats
          DEF Next, SeatsInv

(* The confirmed guests of a slot fit in the restaurant, as far as the checks *)
(* answer for them: between the statement that reads the seats and the one    *)
(* that confirms, no thread of the agent, failed statement or crash puts in a *)
(* guest whom the check did not count.                                        *)
THEOREM SeatsAreKept == Spec => []SeatsKept
<1>1. SeatsInv /\ IInv /\ IInv' /\ [Next]_vars => SeatsInv'
  BY SeatsStep
<1>2. SeatsInv => SeatsKept
  BY DEF SeatsInv
<1>3. QED BY <1>1, <1>2, InitSeats, InvariantHolds, PTL DEF Spec
-----------------------------------------------------------------------------
(***************************************************************************)
(* The tables.  Minutes, slots and days are multiples of a length.         *)
(***************************************************************************)
LEMMA Divided ==
  ASSUME NEW n \in Nat, n > 0, NEW q \in Int, NEW t \in 0..(n - 1)
  PROVE  (q * n + t) % n = t /\ (q * n + t) \div n = q
<1>1. PICK a \in Int : a = q * n + t
  OBVIOUS
<1>2. PICK p, u \in Int : p = a \div n /\ u = a % n
  BY <1>1
<1>3. a = n * p + u /\ 0 <= u /\ u < n
  BY <1>1, <1>2
<1>4. (q - p) * n = u - t
  BY <1>1, <1>3
<1>5. ~(q - p >= 1)
  <2>1. q - p >= 1 => (q - p) * n >= n
    OBVIOUS
  <2>2. QED BY <1>3, <1>4, <2>1
<1>6. ~(q - p <= -1)
  <2>1. q - p <= -1 => (q - p) * n <= -n
    OBVIOUS
  <2>2. QED BY <1>3, <1>4, <2>1
<1>7. q = p
  BY <1>5, <1>6
<1>8. u = t
  BY <1>4, <1>7
<1>9. QED BY <1>1, <1>2, <1>7, <1>8

LEMMA Division ==
  ASSUME NEW n \in Nat, n > 0, NEW a \in Int
  PROVE  \E q, r, m \in Int : /\ a \div n = q /\ a % n = r /\ m = q * n
                              /\ a = m + r /\ 0 <= r /\ r < n
<1>1. PICK p, u \in Int : p = a \div n /\ u = a % n
  OBVIOUS
<1>2. a = n * p + u /\ 0 <= u /\ u < n
  BY <1>1
<1>3. n * p = p * n /\ p * n \in Int
  OBVIOUS
<1>4. QED BY <1>1, <1>2, <1>3

LEMMA Multiple ==
  ASSUME NEW n \in Nat, n > 0, NEW x \in Int
  PROVE  x % n = 0 <=> \E k \in Int : x = k * n
<1>1. ASSUME x % n = 0
      PROVE  \E k \in Int : x = k * n
  <2>1. PICK q, r, m \in Int : x % n = r /\ m = q * n /\ x = m + r
    BY Division
  <2>2. QED BY <1>1, <2>1
<1>2. ASSUME NEW k \in Int, x = k * n
      PROVE  x % n = 0
  <2>1. (k * n + 0) % n = 0
    BY Divided
  <2>2. k * n + 0 = x
    BY <1>2
  <2>3. QED BY <2>1, <2>2
<1>3. QED BY <1>1, <1>2

LEMMA Sums ==
  ASSUME NEW n \in Nat, n > 0, NEW x \in Int, NEW y \in Int, y % n = 0
  PROVE  /\ (x + y) % n = x % n /\ (x - y) % n = x % n
<1>1. PICK q, r, m \in Int : x % n = r /\ m = q * n /\ x = m + r /\ 0 <= r /\ r < n
  BY Division
<1>2. PICK k \in Int : y = k * n
  BY Multiple
<1>3. x + y = (q + k) * n + r /\ x - y = (q - k) * n + r
  BY <1>1, <1>2
<1>4. r \in 0..(n - 1) /\ q + k \in Int /\ q - k \in Int
  BY <1>1
<1>5. ((q + k) * n + r) % n = r /\ ((q - k) * n + r) % n = r
  BY <1>4, Divided
<1>6. QED BY <1>1, <1>3, <1>5

LEMMA Coarser ==
  ASSUME NEW n \in Nat, n > 0, NEW l \in Nat, l > 0, l % n = 0, NEW x \in Int, x % l = 0
  PROVE  x % n = 0
<1>1. PICK j \in Int : l = j * n
  BY Multiple
<1>2. PICK k \in Int : x = k * l
  BY Multiple
<1>3. x = (k * j) * n /\ k * j \in Int
  BY <1>1, <1>2
<1>4. QED BY <1>3, Multiple

LEMMA NextMultiple ==
  ASSUME NEW n \in Nat, n > 0, NEW x \in Int, NEW y \in Int, x % n = 0, y % n = 0, x < y
  PROVE  x + n <= y
<1>1. PICK k \in Int : x = k * n
  BY Multiple
<1>2. PICK j \in Int : y = j * n
  BY Multiple
<1>3. (j - k) * n = y - x
  BY <1>1, <1>2
<1>4. ~(j - k <= 0)
  <2>1. j - k <= 0 => (j - k) * n <= 0
    OBVIOUS
  <2>2. QED BY <1>3, <2>1
<1>5. j - k >= 1 => (j - k) * n >= n
  OBVIOUS
<1>6. QED BY <1>3, <1>4, <1>5

LEMMA RoundedDown ==
  ASSUME NEW n \in Nat, n > 0, NEW t \in Int
  PROVE  /\ t % n \in Int /\ t - (t % n) \in Int
         /\ (t - (t % n)) % n = 0 /\ t - (t % n) <= t /\ t < t - (t % n) + n
<1>1. PICK q, r, m \in Int : t % n = r /\ m = q * n /\ t = m + r /\ 0 <= r /\ r < n
  BY Division
<1>2. t - r = q * n
  BY <1>1
<1>3. (t - r) % n = 0
  BY <1>1, <1>2, Multiple
<1>4. QED BY <1>1, <1>3

LEMMA Lengths ==
  /\ Grain \in Nat /\ Grain > 0 /\ SlotLength \in Nat /\ SlotLength > 0
  /\ DayLength \in Nat /\ DayLength > 0 /\ Week \in Nat /\ Week > 0
  /\ Zone \in Int /\ Zone % Grain = 0 /\ SlotLength % Grain = 0
  /\ Capacity \in Nat /\ Advance \in Nat /\ ForwardMinutes \in Nat
BY AvailabilityAssumption, SettingsAssumption DEF ForwardMinutes

LEMMA Minutes ==
  ASSUME NEW t \in Int
  PROVE  /\ Minute(t) \in Int /\ Minute(t) % Grain = 0 /\ Minute(t) <= t /\ t < Minute(t) + Grain
         /\ Minute(Local(t)) = Local(Minute(t)) /\ Local(t) \in Int
         /\ t % Grain = 0 => Minute(t) = t
<1>1. /\ Minute(t) \in Int /\ Minute(t) % Grain = 0 /\ Minute(t) <= t /\ t < Minute(t) + Grain
      /\ t % Grain \in Int
  BY Lengths, RoundedDown DEF Minute
<1>2. (t + Zone) % Grain = t % Grain
  BY Lengths, Sums
<1>3. Minute(Local(t)) = Local(Minute(t)) /\ Local(t) \in Int
  BY <1>1, <1>2, Lengths DEF Minute, Local
<1>4. t % Grain = 0 => Minute(t) = t
  BY DEF Minute
<1>5. QED BY <1>1, <1>3, <1>4

(* A whole minute is not before the minute of t just if t is before its end. *)
LEMMA SameMinute ==
  ASSUME NEW t \in Int, NEW x \in Int, x % Grain = 0
  PROVE  /\ Minute(t) <= x <=> t < x + Grain
         /\ x <= t <=> x <= Minute(t)
<1>1. Minute(t) \in Int /\ Minute(t) % Grain = 0 /\ Minute(t) <= t /\ t < Minute(t) + Grain
  BY Minutes
<1>2. Minute(t) < x => Minute(t) + Grain <= x
  BY <1>1, Lengths, NextMultiple
<1>3. x < Minute(t) => x + Grain <= Minute(t)
  BY <1>1, Lengths, NextMultiple
<1>4. QED BY <1>1, <1>2, <1>3, Lengths

LEMMA Boundaries ==
  ASSUME NEW x \in Int, OnBoundary(x)
  PROVE  x % Grain = 0 /\ Minute(x) = x
<1>1. x % Grain = 0
  BY Lengths, Coarser DEF OnBoundary
<1>2. QED BY <1>1, Minutes

LEMMA Snapped ==
  ASSUME NEW t \in Int
  PROVE  /\ SnapFloor(t) \in Int /\ SnapCeil(t) \in Int
         /\ OnBoundary(SnapFloor(t)) /\ OnBoundary(SnapCeil(t))
         /\ \A x \in Int : OnBoundary(x) => /\ x <= t <=> x <= SnapFloor(t)
                                            /\ Minute(t) <= x <=> SnapCeil(t) <= x
<1> DEFINE m == Minute(t)
<1>1. m \in Int
  BY Minutes
<1>2. /\ SnapFloor(t) \in Int /\ OnBoundary(SnapFloor(t)) /\ SnapFloor(t) <= m
      /\ m < SnapFloor(t) + SlotLength
  BY <1>1, Lengths, RoundedDown DEF SnapFloor, OnBoundary
<1>3. ASSUME NEW x \in Int, OnBoundary(x)
      PROVE  x <= t <=> x <= SnapFloor(t)
  <2>1. x <= t <=> x <= m
    BY <1>3, Boundaries, SameMinute
  <2>2. SnapFloor(t) < x => SnapFloor(t) + SlotLength <= x
    BY <1>2, <1>3, Lengths, NextMultiple DEF OnBoundary
  <2> HIDE DEF m
  <2>3. QED BY <1>1, <1>2, <2>1, <2>2, Lengths
<1>4. CASE OnBoundary(m)
  <2>1. SnapCeil(t) = m
    BY <1>4 DEF SnapCeil
  <2>2. QED BY <1>1, <1>2, <1>3, <1>4, <2>1
<1>5. CASE ~OnBoundary(m)
  <2>1. SnapCeil(t) = SnapFloor(t) + SlotLength
    BY <1>5 DEF SnapCeil
  <2>2. SnapFloor(t) + SlotLength \in Int /\ OnBoundary(SnapFloor(t) + SlotLength)
    <3>1. PICK k \in Int : SnapFloor(t) = k * SlotLength
      BY <1>2, Lengths, Multiple DEF OnBoundary
    <3>2. SnapFloor(t) + SlotLength = (k + 1) * SlotLength /\ k + 1 \in Int
      BY <3>1, Lengths
    <3>3. SnapFloor(t) + SlotLength \in Int
      BY <1>2, Lengths
    <3>4. QED BY <3>2, <3>3, Lengths, Multiple DEF OnBoundary
  <2>3. ASSUME NEW x \in Int, OnBoundary(x)
        PROVE  m <= x <=> SnapFloor(t) + SlotLength <= x
    <3>1. SnapFloor(t) < m
      BY <1>1, <1>2, <1>5
    <3>2. SnapFloor(t) < x => SnapFloor(t) + SlotLength <= x
      BY <1>2, <2>3, Lengths, NextMultiple DEF OnBoundary
    <3> HIDE DEF m
    <3>3. QED BY <1>1, <1>2, <2>3, <3>1, <3>2, Lengths
  <2>4. QED BY <1>2, <1>3, <2>1, <2>2, <2>3
<1>6. QED BY <1>4, <1>5

LEMMA LeastIsOne ==
  ASSUME NEW S \in SUBSET Int, S # {}, NEW a \in Int, \A s \in S : a <= s
  PROVE  Least(S) \in S /\ \A s \in S : Least(S) <= s
<1>1. {s - a : s \in S} \in SUBSET Nat /\ {s - a : s \in S} # {}
  <2>1. \A s \in S : s - a \in Nat
    <3> SUFFICES ASSUME NEW s \in S PROVE s - a \in Nat
      OBVIOUS
    <3>1. s \in Int /\ a <= s
      OBVIOUS
    <3>2. QED BY <3>1
  <2>2. QED BY <2>1
<1>2. PICK n \in {s - a : s \in S} : \A m \in {s - a : s \in S} : n <= m
  BY <1>1, LeastNat
<1>3. PICK l \in S : n = l - a
  BY <1>2
<1>4. \A s \in S : l <= s
  <2> SUFFICES ASSUME NEW s \in S PROVE l <= s
    OBVIOUS
  <2>1. l - a <= s - a
    BY <1>2, <1>3
  <2>2. QED BY <2>1
<1>5. QED BY <1>4 DEF Least

LEMMA GreatestIsOne ==
  ASSUME NEW S \in SUBSET Int, S # {}, NEW a \in Int, \A s \in S : s <= a
  PROVE  Greatest(S) \in S
<1>1. {a - s : s \in S} \in SUBSET Nat /\ {a - s : s \in S} # {}
  <2>1. \A s \in S : a - s \in Nat
    <3> SUFFICES ASSUME NEW s \in S PROVE a - s \in Nat
      OBVIOUS
    <3>1. s \in Int /\ s <= a
      OBVIOUS
    <3>2. QED BY <3>1
  <2>2. QED BY <2>1
<1>2. PICK n \in {a - s : s \in S} : \A m \in {a - s : s \in S} : n <= m
  BY <1>1, LeastNat
<1>3. PICK l \in S : n = a - l
  BY <1>2
<1>4. \A s \in S : l >= s
  <2> SUFFICES ASSUME NEW s \in S PROVE l >= s
    OBVIOUS
  <2>1. a - l <= a - s
    BY <1>2, <1>3
  <2>2. QED BY <2>1
<1>5. QED BY <1>4 DEF Greatest

(***************************************************************************)
(* The nearest slot after a request.                                       *)
(***************************************************************************)
AvailabilityTypes == now \in Nat /\ week \in Weeks /\ booked \in [TableTimes -> Nat]

LEMMA SeatsRead ==
  ASSUME AvailabilityTypes, NEW from \in Int, NEW to \in Int, NEW s \in Int, s <= to
  PROVE  /\ SlotConfirmedCapacity(s) \in Nat
         /\ Left(ConfirmedCapacityBySlot(from, to), Local(s)) =
              IF from <= s THEN Capacity - SlotConfirmedCapacity(s) ELSE Capacity
<1> DEFINE map == ConfirmedCapacityBySlot(from, to)
           rows == {r \in DOMAIN booked : booked[r] > 0 /\ from <= r /\ r <= to}
<1>1. booked \in [TableTimes -> Nat] /\ DOMAIN booked = TableTimes
  BY DEF AvailabilityTypes
<1>2. SlotConfirmedCapacity(s) = IF s \in TableTimes THEN booked[s] ELSE 0
  BY <1>1 DEF SlotConfirmedCapacity, Get
<1>3. SlotConfirmedCapacity(s) \in Nat
  BY <1>1, <1>2
<1>4. map = [t \in rows |-> booked[t]]
  BY DEF ConfirmedCapacityBySlot
<1>5. Utc(Local(s)) = s
  BY Lengths DEF Utc, Local
<1>6. Left(map, Local(s)) = Capacity - Get(map, s, 0)
  BY <1>5 DEF Left
<1>7. Get(map, s, 0) = IF s \in rows THEN booked[s] ELSE 0
  <2> HIDE DEF rows
  <2>1. DOMAIN map = rows /\ \A r \in rows : map[r] = booked[r]
    BY <1>4
  <2> HIDE DEF map
  <2>2. QED BY <2>1 DEF Get
<1>8. s \in rows => s \in TableTimes /\ from <= s
  BY <1>1
<1>9. from <= s /\ s \in TableTimes /\ s \notin rows => booked[s] = 0
  BY <1>1
<1> HIDE DEF map, rows
<1>10. Get(map, s, 0) = IF from <= s THEN SlotConfirmedCapacity(s) ELSE 0
  BY <1>2, <1>7, <1>8, <1>9
<1>11. QED BY <1>3, <1>6, <1>10, Lengths DEF map

LEMMA NextSlot ==
  ASSUME AvailabilityTypes, NEW t \in Int, NEW size \in Nat, NEW from \in Int
  PROVE  LET to == Local(t) + ForwardMinutes IN
         NearestForward(Local(t), size, to, ConfirmedCapacityBySlot(from, Utc(to))) = FirstAfter(t, size, from)
<1> DEFINE requested == Local(t)
           present == Local(now)
           to == requested + ForwardMinutes
           map == ConfirmedCapacityBySlot(from, Utc(to))
           start == Later(requested, present)
           snapped == SnapCeil(start)
           first == IF snapped = requested THEN snapped + SlotLength ELSE snapped
           last == SnapFloor(Earlier(to, present + Advance))
           slots == {slot \in first..last : OnBoundary(slot) /\ HasSeats(slot, size, map)}
           after == {s \in Minute(now)..(t + ForwardMinutes) :
                       Minute(t) <= s /\ s # t /\ OnBoundary(Local(s)) /\ Takes(s, size, from)}
<1>1. /\ NearestForward(Local(t), size, to, map) = Least(slots)
      /\ FirstAfter(t, size, from) = IF after = {} THEN Null ELSE Local(Least(after))
  BY DEF NearestForward, FirstAfter
<1>2. /\ now \in Nat /\ requested \in Int /\ present \in Int /\ start \in Int /\ to \in Int
      /\ Minute(now) \in Int /\ Minute(t) \in Int
      /\ Earlier(to, present + Advance) \in Int
      /\ requested = t + Zone /\ present = now + Zone /\ to = t + Zone + ForwardMinutes /\ Utc(to) = t + ForwardMinutes
      /\ Earlier(to, present + Advance) = IF to < present + Advance THEN to ELSE present + Advance
      /\ start = IF requested > present THEN requested ELSE present
  <2>1. now \in Nat
    BY DEF AvailabilityTypes
  <2>2. Minute(now) \in Int /\ Minute(t) \in Int
    BY <2>1, Minutes
  <2>3. requested = t + Zone /\ present = now + Zone
    BY DEF Local
  <2>4. requested \in Int /\ present \in Int /\ present + Advance \in Int
    BY <2>1, <2>3, Lengths
  <2>5. to = t + Zone + ForwardMinutes /\ to \in Int
    BY <2>3, Lengths
  <2>6. Utc(to) = t + ForwardMinutes
    BY <2>5, Lengths DEF Utc
  <2>7. Earlier(to, present + Advance) = IF to < present + Advance THEN to ELSE present + Advance
    BY DEF Earlier
  <2>8. start = IF requested > present THEN requested ELSE present
    BY DEF Later
  <2> HIDE DEF requested, present, to, start
  <2>9. QED BY <2>1, <2>2, <2>3, <2>4, <2>5, <2>6, <2>7, <2>8
<1>3. /\ snapped \in Int /\ OnBoundary(snapped) /\ last \in Int
      /\ first \in Int
  BY <1>2, Snapped, Lengths
<1>4. ASSUME NEW s \in Int, OnBoundary(Local(s))
      PROVE  Local(s) \in slots <=> s \in after
  <2> DEFINE slot == Local(s)
  <2>1. slot \in Int /\ slot = s + Zone /\ slot % Grain = 0 /\ s % Grain = 0
    <3>1. slot \in Int /\ slot = s + Zone
      BY Lengths DEF Local
    <3>2. slot % Grain = 0
      BY <1>4, <3>1, Boundaries
    <3>3. s = slot - Zone
      BY <3>1, Lengths
    <3>4. (slot - Zone) % Grain = slot % Grain
      BY <3>1, Lengths, Sums
    <3> HIDE DEF slot
    <3>5. QED BY <3>1, <3>2, <3>3, <3>4
  <2>2. slot <= last <=> s <= t + ForwardMinutes /\ WithinAdvance(s)
    <3>1. slot <= last <=> slot <= Earlier(to, present + Advance)
      BY <1>2, <1>4, <2>1, Snapped
    <3>2. slot <= Earlier(to, present + Advance) <=> slot <= to /\ slot <= present + Advance
      BY <1>2, <2>1, Lengths
    <3>3. QED BY <1>2, <2>1, <3>1, <3>2, Lengths DEF WithinAdvance
  <2>3. snapped <= slot <=> Minute(t) <= s /\ Minute(now) <= s
    <3>1. snapped <= slot <=> Minute(start) <= slot
      BY <1>2, <1>4, <2>1, Snapped
    <3>2. Minute(start) <= slot <=> start < slot + Grain
      BY <1>2, <2>1, SameMinute
    <3>3. /\ Minute(t) <= s <=> t < s + Grain
          /\ Minute(now) <= s <=> now < s + Grain
      BY <1>2, <2>1, SameMinute
    <3>4. QED BY <1>2, <2>1, <3>1, <3>2, <3>3, Lengths
  <2>4. first <= slot <=> snapped <= slot /\ s # t
    <3>1. s # t <=> slot # requested
      BY <1>2, <2>1, Lengths
    <3>2. CASE snapped = requested
      <4>1. snapped < slot => snapped + SlotLength <= slot
        BY <1>3, <1>4, <2>1, Lengths, NextMultiple DEF OnBoundary
      <4> HIDE DEF snapped, requested, slot
      <4>2. QED BY <1>2, <1>3, <2>1, <3>1, <3>2, <4>1, Lengths
    <3>3. CASE snapped # requested
      <4>1. slot = requested => ~(snapped <= slot)
        <5> SUFFICES ASSUME slot = requested, snapped <= slot PROVE FALSE
          OBVIOUS
        <5>1. Minute(start) <= slot
          BY <1>2, <1>4, <2>1, Snapped
        <5>2. slot <= start
          BY <1>2
        <5>3. slot <= Minute(start)
          BY <1>2, <2>1, <5>2, SameMinute
        <5>4. Minute(start) = slot
          BY <1>2, <2>1, <5>1, <5>3, Minutes
        <5>5. SnapCeil(start) = slot
          BY <1>4, <5>4 DEF SnapCeil
        <5>6. QED BY <3>3, <5>5
      <4>2. first = snapped
        BY <3>3
      <4>3. QED BY <3>1, <4>1, <4>2
    <3>4. QED BY <3>2, <3>3
  <2>5. s <= t + ForwardMinutes /\ WithinAdvance(s) => (HasSeats(slot, size, map) <=> Takes(s, size, from))
    <3> SUFFICES ASSUME s <= t + ForwardMinutes, WithinAdvance(s)
                 PROVE  HasSeats(slot, size, map) <=> Takes(s, size, from)
      OBVIOUS
    <3>1. /\ SlotConfirmedCapacity(s) \in Nat
          /\ Left(map, slot) = IF from <= s THEN Capacity - SlotConfirmedCapacity(s) ELSE Capacity
      <4>1. Utc(to) \in Int /\ s <= Utc(to)
        BY <1>2, Lengths
      <4> HIDE DEF to
      <4>2. QED BY <4>1, SeatsRead
    <3>2. HasSeats(slot, size, map) <=> OpenAt(slot) /\ Left(map, slot) >= size
      BY DEF HasSeats
    <3>3. Takes(s, size, from) <=> OpenAt(slot) /\ (IF from <= s THEN size <= Capacity - SlotConfirmedCapacity(s) ELSE size <= Capacity)
      BY DEF Takes, CapacityFor
    <3> HIDE DEF map, slot
    <3>4. QED BY <3>1, <3>2, <3>3, Lengths
  <2>6. s \in after <=> /\ Minute(now) <= s /\ s <= t + ForwardMinutes /\ Minute(t) <= s /\ s # t
                        /\ Takes(s, size, from)
    BY <1>2, <1>4, Lengths
  <2>7. slot \in slots <=> first <= slot /\ slot <= last /\ HasSeats(slot, size, map)
    <3> HIDE DEF first, last, map
    <3>1. QED BY <1>3, <1>4, <2>1
  <2>8. Takes(s, size, from) => WithinAdvance(s)
    BY DEF Takes
  <2> HIDE DEF first, last, map, slots, after, snapped
  <2>9. QED BY <2>2, <2>3, <2>4, <2>5, <2>6, <2>7, <2>8
<1>5. \A slot \in slots : slot \in Int /\ first <= slot /\ Utc(slot) \in Int /\ Local(Utc(slot)) = slot /\ OnBoundary(slot)
  BY <1>3, Lengths DEF Local, Utc
<1>6. \A s \in after : s \in Int /\ Minute(now) <= s /\ OnBoundary(Local(s)) /\ Local(s) = s + Zone
  BY <1>2, Lengths DEF Local
<1> HIDE DEF first, last, map, slots, after, snapped
<1>7. \A slot \in slots : Utc(slot) \in after
  BY <1>4, <1>5
<1>8. \A s \in after : Local(s) \in slots
  BY <1>4, <1>6
<1>9. CASE after = {}
  BY <1>1, <1>7, <1>9 DEF Least, map
<1>10. CASE after # {}
  <2>1. after \in SUBSET Int /\ slots \in SUBSET Int /\ slots # {}
    BY <1>5, <1>6, <1>8, <1>10
  <2>2. Least(after) \in after /\ \A s \in after : Least(after) <= s
    BY <1>2, <1>6, <1>10, <2>1, LeastIsOne
  <2>3. Least(slots) \in slots /\ \A s \in slots : Least(slots) <= s
    BY <1>3, <1>5, <2>1, LeastIsOne
  <2> DEFINE l == Least(after)
             k == Least(slots)
  <2> HIDE DEF l, k
  <2>4. k <= Local(l) /\ l <= Utc(k) /\ Local(l) = l + Zone /\ Utc(k) = k - Zone /\ k \in Int /\ l \in Int
    BY <1>5, <1>6, <1>7, <1>8, <2>2, <2>3 DEF k, l, Utc
  <2>5. k = Local(l)
    BY <2>4, Lengths
  <2>6. QED BY <1>1, <1>10, <2>5 DEF k, l, map
<1>11. QED BY <1>9, <1>10

LEMMA Answers ==
  ASSUME AvailabilityTypes, NEW t \in Int, NEW size \in Nat, NEW backward \in Nat
  PROVE  LET answer == Answer(t, size, backward) IN
         /\ answer.available =>
              /\ OnBoundary(Local(t)) /\ now <= t /\ OpenAt(Local(t)) /\ WithinAdvance(t)
              /\ CapacityFor(t, size)
         /\ ~answer.available => answer.forward = FirstAfter(t, size, t - backward)
         /\ answer.backward # Null =>
              LET s == Utc(answer.backward) IN
              /\ s \in Int /\ s <= t /\ answer.backward = Local(s) /\ OnBoundary(answer.backward)
              /\ OpenAt(answer.backward) /\ (t - backward <= s => CapacityFor(s, size))
<1> DEFINE requested == Local(t)
           start == requested - backward
           end == requested + ForwardMinutes
           map == ConfirmedCapacityBySlot(Utc(start), Utc(end))
           available == /\ OnBoundary(requested) /\ OpenAt(requested)
                        /\ requested <= Local(now) + Advance /\ requested >= Local(now)
                        /\ Left(map, SnapFloor(requested)) >= size
           answer == Answer(t, size, backward)
           low == SnapCeil(Later(start, Local(now)))
           high == IF OnBoundary(requested) THEN requested - SlotLength ELSE SnapFloor(requested)
           slots == {slot \in low..high : OnBoundary(slot) /\ HasSeats(slot, size, map)}
<1>1. /\ answer.available = available
      /\ answer.forward = IF available THEN Null ELSE NearestForward(requested, size, end, map)
      /\ answer.backward = IF available THEN Null ELSE NearestBackward(requested, size, start, map)
  BY DEF Answer
<1>2. NearestBackward(requested, size, start, map) = IF start < requested THEN Greatest(slots) ELSE Null
  BY DEF NearestBackward
<1>3. /\ now \in Nat /\ requested = t + Zone /\ requested \in Int /\ Local(now) = now + Zone
      /\ start \in Int /\ Utc(start) = t - backward /\ t - backward \in Int
      /\ end \in Int /\ Utc(end) = t + ForwardMinutes /\ Utc(end) \in Int /\ t <= Utc(end)
      /\ Utc(start) \in Int
      /\ SnapFloor(requested) \in Int
      /\ Later(start, Local(now)) \in Int
  <2>1. Local(t) \in Int /\ Local(now) \in Int /\ now \in Nat
    BY Lengths DEF AvailabilityTypes, Local
  <2>2. QED BY <2>1, Lengths, Snapped DEF Local, Utc, Later
<1>4. ASSUME NEW s \in Int, s <= t
      PROVE  /\ Left(map, Local(s)) >= size /\ t - backward <= s => CapacityFor(s, size)
             /\ SlotConfirmedCapacity(s) \in Nat
  <2>1. s <= Utc(end)
    BY <1>3, <1>4
  <2> HIDE DEF start, end
  <2>2. /\ SlotConfirmedCapacity(s) \in Nat
        /\ Left(map, Local(s)) = IF Utc(start) <= s THEN Capacity - SlotConfirmedCapacity(s) ELSE Capacity
    BY <1>3, <2>1, SeatsRead
  <2> HIDE DEF map
  <2>3. QED BY <1>3, <2>2, Lengths DEF CapacityFor
<1> HIDE DEF map, answer
<1>5. ASSUME available
      PROVE  OnBoundary(Local(t)) /\ now <= t /\ OpenAt(Local(t)) /\ WithinAdvance(t) /\ CapacityFor(t, size)
  <2>1. SnapFloor(requested) = requested
    <3>1. Minute(requested) = requested
      BY <1>3, <1>5, Boundaries
    <3>2. requested % SlotLength = 0
      BY <1>5 DEF OnBoundary
    <3> HIDE DEF requested
    <3>3. QED BY <1>3, <3>1, <3>2 DEF SnapFloor
  <2>2. t - backward <= t
    OBVIOUS
  <2>3. Left(map, Local(t)) >= size
    BY <1>5, <2>1
  <2>4. CapacityFor(t, size)
    BY <1>4, <2>2, <2>3
  <2>5. now <= t /\ WithinAdvance(t)
    BY <1>3, <1>5, Lengths DEF WithinAdvance
  <2>6. QED BY <1>5, <2>4, <2>5
<1>6. ASSUME ~available
      PROVE  answer.forward = FirstAfter(t, size, t - backward)
  <2>1. NearestForward(Local(t), size, end, ConfirmedCapacityBySlot(t - backward, Utc(end))) = FirstAfter(t, size, t - backward)
    BY <1>3, NextSlot
  <2>2. map = ConfirmedCapacityBySlot(t - backward, Utc(end))
    BY <1>3 DEF map
  <2> HIDE DEF available, end
  <2>3. QED BY <1>1, <1>6, <2>1, <2>2
<1>7. ASSUME answer.backward # Null
      PROVE  LET s == Utc(answer.backward) IN
             /\ s \in Int /\ s <= t /\ answer.backward = Local(s) /\ OnBoundary(answer.backward)
             /\ OpenAt(answer.backward) /\ (t - backward <= s => CapacityFor(s, size))
  <2>1. answer.backward = Greatest(slots) /\ slots # {}
    <3> HIDE DEF available, slots, start
    <3>1. answer.backward = Greatest(slots)
      BY <1>1, <1>2, <1>7
    <3>2. QED BY <1>7, <3>1 DEF Greatest
  <2>2. low \in Int /\ high \in Int /\ high <= requested
    <3>1. low \in Int
      BY <1>3, Snapped
    <3>2. SnapFloor(requested) \in Int /\ SnapFloor(requested) <= requested
      <4>1. SnapFloor(requested) <= SnapFloor(requested) /\ OnBoundary(SnapFloor(requested))
        BY <1>3, Snapped
      <4>2. QED BY <1>3, <4>1, Snapped
    <3>3. QED BY <1>3, <3>1, <3>2, Lengths
  <2> HIDE DEF low, high
  <2>3. slots \in SUBSET Int /\ \A slot \in slots : slot <= high
    BY <2>2
  <2> HIDE DEF slots
  <2>4. Greatest(slots) \in slots
    BY <2>1, <2>2, <2>3, GreatestIsOne
  <2>5. PICK slot \in Int : /\ slot = answer.backward /\ slot <= high /\ OnBoundary(slot)
                            /\ OpenAt(slot) /\ Left(map, slot) >= size
    BY <2>1, <2>2, <2>3, <2>4 DEF slots, HasSeats
  <2>6. Utc(slot) \in Int /\ Utc(slot) <= t /\ slot = Local(Utc(slot))
    BY <1>3, <2>2, <2>5, Lengths DEF Utc, Local
  <2>7. t - backward <= Utc(slot) => CapacityFor(Utc(slot), size)
    <3> DEFINE s == Utc(slot)
    <3>1. s \in Int /\ s <= t /\ Left(map, Local(s)) >= size
      BY <2>5, <2>6
    <3> HIDE DEF s
    <3>2. t - backward <= s => CapacityFor(s, size)
      BY <1>4, <3>1
    <3>3. QED BY <3>2 DEF s
  <2>8. QED BY <2>5, <2>6, <2>7
<1>8. QED BY <1>1, <1>5, <1>6, <1>7 DEF answer

(***************************************************************************)
(* What a dashboard is shown.                                              *)
(***************************************************************************)
LEMMA DayBefore ==
  ASSUME NEW d \in Int
  PROVE  /\ d % Week \in Days /\ (d + 1) % Week \in Days /\ PreviousDay((d + 1) % Week) = d % Week
<1>0. Week \in Nat /\ Week > 0
  BY Lengths
<1>1. PICK q, r, m \in Int : d % Week = r /\ m = q * Week /\ d = m + r /\ 0 <= r /\ r < Week
  BY <1>0, Division
<1>2. CASE r + 1 < Week
  <2>1. d + 1 = q * Week + (r + 1) /\ r + 1 \in 0..(Week - 1)
    BY <1>1, <1>2, Lengths
  <2>2. (d + 1) % Week = r + 1
    BY <2>1, Lengths, Divided
  <2>3. r + 1 + Week - 1 = 1 * Week + r /\ r \in 0..(Week - 1) /\ 1 \in Int
    BY <1>1, Lengths
  <2>4. (1 * Week + r) % Week = r
    BY <2>3, Lengths, Divided
  <2>5. QED BY <1>1, <2>1, <2>2, <2>3, <2>4, Lengths DEF PreviousDay, Days
<1>3. CASE ~(r + 1 < Week)
  <2>1. d + 1 = (q + 1) * Week + 0 /\ 0 \in 0..(Week - 1) /\ q + 1 \in Int /\ r = Week - 1
    BY <1>1, <1>3, Lengths
  <2>2. (d + 1) % Week = 0
    <3>1. ((q + 1) * Week + 0) % Week = 0
      BY <1>0, <2>1, Divided
    <3>2. QED BY <2>1, <3>1
  <2>3. 0 + Week - 1 = 0 * Week + (Week - 1) /\ Week - 1 \in 0..(Week - 1) /\ 0 \in Int
    BY Lengths
  <2>4. (0 * Week + (Week - 1)) % Week = Week - 1
    BY <2>3, Lengths, Divided
  <2>5. QED BY <1>1, <2>1, <2>2, <2>3, <2>4, Lengths DEF PreviousDay, Days
<1>4. QED BY <1>2, <1>3

LEMMA OnDate ==
  ASSUME NEW date \in Int, NEW x \in Moments, NEW t, t = date * DayLength + x
  PROVE  OpenAt(t) = IsWithinOperatingHours(week, date % Week, x)
<1>1. x \in 0..(DayLength - 1)
  BY DEF Moments
<1>2. (date * DayLength + x) % DayLength = x /\ (date * DayLength + x) \div DayLength = date
  BY <1>1, Lengths, Divided
<1>3. QED BY <1>2 DEF OpenAt, DateOf

(* The slots of a date are within its hours, which may end the day after. *)
LEMMA OpenThatDay ==
  ASSUME week \in [Days -> DayRow], NEW date \in Int, HasSlots(date), NEW s \in Int,
         DayStart(date) <= s, s < DayEnd(date)
  PROVE  OpenAt(s)
<1> DEFINE day == week[date % Week]
           x == s - date * DayLength
<1>1. day \in DayRow /\ ~day.closed /\ (day.allDay \/ HasTimes(day)) /\ date % Week \in Days
  BY DayBefore DEF HasSlots
<1>2. PICK midnight \in Int : midnight = date * DayLength /\ (date + 1) * DayLength = midnight + DayLength
  BY Lengths
<1>3. x \in Int /\ s = midnight + x
  BY <1>2
<1>4. ASSUME x \in Moments, HasTimes(day) /\ ~day.allDay => Within(day, x)
      PROVE  OpenAt(s)
  <2>1. OpenAt(s) = IsWithinOperatingHours(week, date % Week, x)
    BY <1>2, <1>3, <1>4, OnDate
  <2>2. IsWithinOperatingHours(week, date % Week, x)
    BY <1>1, <1>4 DEF IsWithinOperatingHours
  <2>3. QED BY <2>1, <2>2
<1>5. CASE day.allDay
  <2>1. DayStart(date) = midnight + 0 /\ DayEnd(date) = midnight + DayLength - 1
    <3>1. DayStart(date) = date * DayLength + 0 /\ DayEnd(date) = (date + 1) * DayLength - 1
      BY <1>5 DEF DayStart, DayEnd
    <3>2. QED BY <1>2, <3>1, Lengths
  <2>2. x \in Moments
    BY <1>2, <1>3, <2>1, Lengths DEF Moments
  <2>3. QED BY <1>4, <1>5, <2>2
<1>6. CASE ~day.allDay
  <2>1. HasTimes(day) /\ day.open \in Moments /\ day.close \in Moments
    BY <1>1, <1>6 DEF HasTimes, DayRow
  <2>2. /\ day.open \in Int /\ day.close \in Int /\ 0 <= day.open /\ day.close < DayLength
        /\ 0 <= day.close /\ day.open < DayLength
    BY <2>1, Lengths DEF Moments
  <2>3. /\ DayStart(date) = midnight + day.open
        /\ DayEnd(date) = midnight + day.close + (IF Overnight(day) THEN DayLength ELSE 0)
    BY <1>2, <1>6 DEF DayStart, DayEnd
  <2>4. day.open <= x /\ x < day.close + (IF Overnight(day) THEN DayLength ELSE 0)
    <3> HIDE DEF x, day
    <3>1. QED BY <1>2, <1>3, <2>2, <2>3, Lengths
  <2>5. CASE x < DayLength
    <3>1. x \in Moments
      <4> HIDE DEF x, day
      <4>1. QED BY <1>3, <2>2, <2>4, <2>5, Lengths DEF Moments
    <3>2. Within(day, x)
      <4> HIDE DEF x, day
      <4>1. QED BY <1>3, <2>2, <2>4, <2>5, Lengths DEF Within, Overnight
    <3>3. QED BY <1>4, <3>1, <3>2
  <2>6. CASE ~(x < DayLength)
    <3> DEFINE y == x - DayLength
    <3>1. Overnight(day) /\ y \in Moments /\ y < day.close /\ y \in Int
      <4> HIDE DEF x, day
      <4>1. QED BY <1>3, <2>2, <2>4, <2>6, Lengths DEF Moments, Overnight
    <3>2. s = (date + 1) * DayLength + y /\ date + 1 \in Int
      <4> HIDE DEF x
      <4>1. QED BY <1>2, <1>3, Lengths
    <3> HIDE DEF y
    <3>3. OpenAt(s) = IsWithinOperatingHours(week, (date + 1) % Week, y)
      BY <3>1, <3>2, OnDate
    <3>4. week[PreviousDay((date + 1) % Week)] = day
      BY DayBefore
    <3>5. SpilledInto(day, y)
      BY <1>1, <1>6, <2>1, <3>1 DEF SpilledInto
    <3>6. IsWithinOperatingHours(week, (date + 1) % Week, y)
      BY <3>4, <3>5 DEF IsWithinOperatingHours
    <3>7. QED BY <3>3, <3>6
  <2>7. QED BY <2>5, <2>6
<1>7. QED BY <1>5, <1>6

LEMMA Shown ==
  ASSUME AvailabilityTypes, week # Null, NEW t \in Int, NEW size \in Nat, NEW backward \in Nat,
         NEW slot \in Available(t, ForwardMinutes, backward, size),
         Local(now) <= slot, Local(t) - backward <= slot, slot <= Local(t) + ForwardMinutes
  PROVE  \/ LockAccepts(Utc(slot), size)
         \/ ~OpenAt(slot) /\ \E second \in 1..(Grain - 1) : OpenAt(slot + second)
<1> DEFINE start == Local(t)
           from == start - backward
           end == WindowEnd(start, ForwardMinutes)
           map == ConfirmedCapacityBySlot(Utc(from), Utc(start + ForwardMinutes))
           dates == {d \in DateOf(from)..DateOf(end) : HasSlots(d)}
           slots(date) == {s \in SlotStart(date, from)..(SlotEnd(date, end) - 1) :
                             (s - SlotStart(date, from)) % SlotLength = 0}
<1>1. slot \in {Minute(s) : s \in UNION {slots(date) : date \in dates}} /\ Left(map, slot) >= size
  BY DEF Available
<1>2. PICK date \in dates : \E s \in slots(date) : slot = Minute(s)
  <2> HIDE DEF dates, slots
  <2>1. QED BY <1>1
<1>3. PICK s \in slots(date) : slot = Minute(s)
  BY <1>2
<1>4. /\ start \in Int /\ from \in Int /\ start = t + Zone /\ now \in Nat /\ Local(now) = now + Zone
      /\ Utc(from) = t - backward /\ Utc(start + ForwardMinutes) = t + ForwardMinutes
      /\ week \in [Days -> DayRow]
  BY Lengths, AvailabilityAssumption DEF AvailabilityTypes, Local, Utc
<1>5. date \in Int /\ HasSlots(date)
  OBVIOUS
<1>6. s \in Int /\ DayStart(date) <= s /\ s < DayEnd(date)
  <2>1. end \in Int
    BY <1>4, Lengths DEF WindowEnd, Earlier
  <2>2. DayStart(date) \in Int /\ DayEnd(date) \in Int
    <3>1. /\ week[date % Week] \in DayRow
          /\ ~week[date % Week].allDay => /\ week[date % Week].open \in Moments /\ week[date % Week].close \in Moments
      BY <1>4, <1>5, DayBefore DEF HasSlots, HasTimes, DayRow
    <3>2. QED BY <1>5, <3>1, Lengths DEF DayStart, DayEnd, Moments
  <2>3. Minute(end) \in Int
    BY <2>1, Minutes
  <2>4. SnapCeil(from) \in Int
    BY <1>4, Snapped
  <2> HIDE DEF end, from
  <2>5. DayStart(date) <= SlotStart(date, from) /\ SlotStart(date, from) \in Int
    BY <2>2, <2>4 DEF SlotStart, Later
  <2>6. SlotEnd(date, end) <= DayEnd(date) /\ SlotEnd(date, end) \in Int
    BY <2>2, <2>3 DEF SlotEnd, Earlier
  <2>7. SlotStart(date, from) <= s /\ s < SlotEnd(date, end) /\ s \in Int
    BY <2>5, <2>6
  <2>8. QED BY <2>2, <2>5, <2>6, <2>7
<1>7. OpenAt(s)
  BY <1>4, <1>5, <1>6, OpenThatDay
<1> HIDE DEF slots, dates, end
<1>8. slot \in Int /\ slot % Grain = 0 /\ slot <= s /\ s < slot + Grain /\ Minute(slot) = slot
  BY <1>3, <1>6, Minutes
<1>9. CapacityFor(Utc(slot), size)
  <2>1. /\ Utc(slot) \in Int /\ Utc(slot) <= t + ForwardMinutes /\ t - backward <= Utc(slot)
        /\ Local(Utc(slot)) = slot /\ t + ForwardMinutes \in Int /\ t - backward \in Int
    BY <1>4, <1>8, Lengths DEF Utc, Local
  <2> DEFINE u == Utc(slot)
  <2> HIDE DEF u
  <2>2. /\ SlotConfirmedCapacity(u) \in Nat
        /\ Left(ConfirmedCapacityBySlot(t - backward, t + ForwardMinutes), Local(u)) =
              IF t - backward <= u THEN Capacity - SlotConfirmedCapacity(u) ELSE Capacity
    BY <2>1, SeatsRead DEF u
  <2>3. Left(map, slot) = Left(ConfirmedCapacityBySlot(t - backward, t + ForwardMinutes), Local(u))
    BY <1>4, <2>1 DEF u
  <2> HIDE DEF map
  <2>4. QED BY <1>1, <2>1, <2>2, <2>3, Lengths DEF CapacityFor, u
<1>10. OpenAt(slot) => LockAccepts(Utc(slot), size)
  <2>1. Local(Utc(slot)) = slot
    BY <1>8, Lengths DEF Utc, Local
  <2>2. FutureTime(slot)
    BY <1>4, <1>8 DEF FutureTime
  <2>3. QED BY <1>8, <1>9, <2>1, <2>2 DEF LockAccepts
<1>11. ~OpenAt(slot) => s - slot \in 1..(Grain - 1) /\ slot + (s - slot) = s
  <2>1. ~OpenAt(slot) => s # slot
    BY <1>7
  <2>2. QED BY <1>6, <1>8, <2>1, Lengths
<1>12. QED BY <1>7, <1>10, <1>11

(***************************************************************************)
(* A time that was offered was one to be had then, as far as the answer    *)
(* had read.                                                               *)
(***************************************************************************)
Stands(o) ==
  /\ o.time \in Int /\ Minute(o.time) = o.time /\ OpenAt(Local(o.time)) /\ o.time <= now + Advance
  /\ o.seats \in Nat /\ o.size \in Nat
  /\ o.read => o.size <= Capacity - o.seats

OfferInv == AvailabilityTypes /\ (offer = NoOffer \/ Stands(offer))

LEMMA OfferStart == AvailabilityInit => OfferInv
BY DEF AvailabilityInit, OfferInv, AvailabilityTypes

LEMMA SlotAsked ==
  ASSUME OfferInv, Ask
  PROVE  OfferInv'
<1>0. PICK t \in Requested, size \in Sizes, backward \in Backwards :
        \E slot \in Offered(t, size, backward) :
          offer' = [time |-> Utc(slot), size |-> size, seats |-> SlotConfirmedCapacity(Utc(slot)),
                    read |-> t - backward <= Utc(slot)]
  BY DEF Ask
<1>1. PICK slot \in Offered(t, size, backward) :
        offer' = [time |-> Utc(slot), size |-> size, seats |-> SlotConfirmedCapacity(Utc(slot)),
                  read |-> t - backward <= Utc(slot)]
  BY <1>0
<1>2. AvailabilityTypes /\ UNCHANGED <<now, week, booked>> /\ t \in Int /\ size \in Nat /\ backward \in Nat /\ now \in Nat
  BY AvailabilityAssumption DEF OfferInv, Ask, AvailabilityTypes
<1> DEFINE answer == Answer(t, size, backward)
           s == Utc(slot)
<1>3. /\ answer.available =>
           /\ OnBoundary(Local(t)) /\ now <= t /\ OpenAt(Local(t)) /\ WithinAdvance(t)
           /\ CapacityFor(t, size)
      /\ ~answer.available => answer.forward = FirstAfter(t, size, t - backward)
      /\ answer.backward # Null =>
           LET u == Utc(answer.backward) IN
           /\ u \in Int /\ u <= t /\ answer.backward = Local(u) /\ OnBoundary(answer.backward)
           /\ OpenAt(answer.backward) /\ (t - backward <= u => CapacityFor(u, size))
  BY <1>2, Answers
<1>4. IF answer.available THEN slot = Local(t)
      ELSE slot # Null /\ (slot = answer.forward \/ (slot = answer.backward /\ Local(t) <= Local(now) + Advance))
  BY DEF Offered
<1> HIDE DEF answer
<1>5. /\ s \in Int /\ slot = Local(s) /\ OnBoundary(slot) /\ OpenAt(slot) /\ WithinAdvance(s)
      /\ t - backward <= s => CapacityFor(s, size)
  <2>1. CASE answer.available
    <3>1. s = t
      BY <1>2, <1>4, <2>1, Lengths DEF Local, Utc
    <3>2. QED BY <1>2, <1>3, <1>4, <2>1, <3>1
  <2>2. CASE ~answer.available /\ slot = answer.forward
    <3> DEFINE after == {u \in Minute(now)..(t + ForwardMinutes) :
                  Minute(t) <= u /\ u # t /\ OnBoundary(Local(u)) /\ Takes(u, size, t - backward)}
    <3>1. slot = IF after = {} THEN Null ELSE Local(Least(after))
      BY <1>3, <2>2 DEF FirstAfter
    <3>2. after # {} /\ slot = Local(Least(after))
      BY <1>4, <2>2, <3>1
    <3>3. Minute(now) \in Int
      BY <1>2, Minutes
    <3>4. after \in SUBSET Int /\ \A u \in after : Minute(now) <= u
      BY <3>3, Lengths
    <3>5. Least(after) \in after
      <4> HIDE DEF after
      <4>1. QED BY <3>2, <3>3, <3>4, LeastIsOne
    <3>6. PICK u \in Int : u = Least(after) /\ OnBoundary(Local(u)) /\ Takes(u, size, t - backward)
      BY <3>4, <3>5
    <3>7. slot = Local(u) /\ s = u
      BY <3>2, <3>6, Lengths DEF Local, Utc
    <3>8. QED BY <3>6, <3>7 DEF Takes
  <2>3. CASE ~answer.available /\ slot = answer.backward /\ Local(t) <= Local(now) + Advance
    <3>1. /\ s \in Int /\ s <= t /\ slot = Local(s) /\ OnBoundary(slot)
          /\ OpenAt(slot) /\ (t - backward <= s => CapacityFor(s, size))
      BY <1>3, <1>4, <2>3
    <3>2. WithinAdvance(s)
      <4> HIDE DEF s
      <4>1. QED BY <1>2, <2>3, <3>1, Lengths DEF WithinAdvance, Local
    <3>3. QED BY <3>1, <3>2
  <2>4. QED BY <1>4, <2>1, <2>2, <2>3
<1>6. Minute(s) = s
  <2>1. slot \in Int /\ slot = s + Zone
    BY <1>5, Lengths DEF Local
  <2>2. Minute(Local(s)) = slot
    BY <1>5, <2>1, Boundaries
  <2>3. Minute(s) \in Int /\ Local(Minute(s)) = slot
    BY <1>5, <2>2, Minutes
  <2> HIDE DEF s
  <2>4. Local(Minute(s)) = Minute(s) + Zone
    BY DEF Local
  <2>5. Zone \in Int
    BY Lengths
  <2>6. Minute(s) + Zone = s + Zone
    BY <2>1, <2>3, <2>4
  <2>7. Minute(s) \in Int /\ s \in Int
    BY <1>5, <2>3
  <2>8. \A x, y, z \in Int : x + z = y + z => x = y
    OBVIOUS
  <2>9. QED BY <2>5, <2>6, <2>7, <2>8, Zenon
<1>7. SlotConfirmedCapacity(s) \in Nat
  <2>1. booked \in [TableTimes -> Nat]
    BY <1>2 DEF AvailabilityTypes
  <2>2. QED BY <2>1 DEF SlotConfirmedCapacity, Get
<1> HIDE DEF s
<1>8. Stands(offer)'
  <2>1. /\ offer'.time = s /\ offer'.size = size /\ offer'.seats = SlotConfirmedCapacity(s)
        /\ offer'.read = (t - backward <= s)
    BY <1>1 DEF s
  <2>2. OpenAt(Local(s))'
    BY <1>2, <1>5 DEF OpenAt
  <2>3. offer'.read => size <= Capacity - SlotConfirmedCapacity(s)
    BY <1>5, <2>1 DEF CapacityFor
  <2>4. s <= now' + Advance
    BY <1>2, <1>5 DEF WithinAdvance
  <2>5. OpenAt(Local(offer.time))'
    BY <1>2, <1>5, <2>1 DEF OpenAt
  <2>6. QED BY <1>2, <1>5, <1>6, <1>7, <2>1, <2>3, <2>4, <2>5 DEF Stands
<1>9. AvailabilityTypes'
  BY <1>2 DEF AvailabilityTypes
<1>10. QED BY <1>8, <1>9 DEF OfferInv

(* Whatever else happens, the seats that were left then are what is kept of *)
(* an offer, and the horizon only moves away.                               *)
LEMMA OfferKept ==
  ASSUME OfferInv, AvailabilityTypes', week' = week, offer' \in {offer, NoOffer}, now <= now'
  PROVE  OfferInv'
<1>1. CASE offer' = NoOffer
  BY <1>1 DEF OfferInv
<1>2. CASE offer' # NoOffer
  <2>1. offer' = offer /\ Stands(offer) /\ now \in Nat /\ now' \in Nat
    BY <1>2 DEF OfferInv, AvailabilityTypes
  <2>2. OpenAt(Local(offer.time))'
    BY <2>1 DEF Stands, OpenAt
  <2>3. offer.time <= now' + Advance
    BY <2>1, Lengths DEF Stands
  <2>4. Stands(offer)'
    BY <2>1, <2>2, <2>3 DEF Stands
  <2>5. QED BY <2>4 DEF OfferInv
<1>3. QED BY <1>1, <1>2

LEMMA SlotBooked ==
  ASSUME booked \in [TableTimes -> Nat], NEW t, NEW size \in Nat, Book(t, size)
  PROVE  booked' \in [TableTimes -> Nat]
<1>1. booked' = [booked EXCEPT ![t] = @ + size]
  BY DEF Book
<1>2. DOMAIN booked' = TableTimes /\ \A s \in TableTimes : booked'[s] = IF s = t THEN booked[s] + size ELSE booked[s]
  BY <1>1
<1>3. booked' = [s \in TableTimes |-> booked'[s]]
  BY <1>1, <1>2
<1>4. \A s \in TableTimes : booked'[s] \in Nat
  BY <1>2
<1>5. QED BY <1>3, <1>4

LEMMA TableSteps ==
  ASSUME OfferInv, [AvailabilityNext]_availabilityVars
  PROVE  OfferInv'
<1>1. booked \in [TableTimes -> Nat] /\ now \in Nat /\ week \in Weeks /\ AvailabilityTypes
  BY DEF OfferInv, AvailabilityTypes
<1>2. CASE Ask
  BY <1>2, SlotAsked
<1>3. CASE TakeOffer
  <2>1. offer # NoOffer /\ Book(offer.time, offer.size) /\ offer' = NoOffer /\ UNCHANGED <<now, week>>
    BY <1>3 DEF TakeOffer
  <2>2. offer.size \in Nat
    BY <2>1 DEF OfferInv, Stands
  <2>3. booked' \in [TableTimes -> Nat]
    BY <1>1, <2>1, <2>2, SlotBooked
  <2>4. QED BY <1>1, <2>1, <2>3, OfferKept DEF AvailabilityTypes
<1>4. CASE Tick
  <2>1. UNCHANGED <<week, booked, offer>> /\ now' = now + 1
    BY <1>4 DEF Tick
  <2>2. AvailabilityTypes' /\ now <= now'
    BY <1>1, <2>1 DEF AvailabilityTypes
  <2>3. QED BY <2>1, <2>2, OfferKept
<1>5. ASSUME NEW t \in TableTimes, NEW size \in Sizes, BookLocked(t, size) \/ BookDirect(t, size) \/ Free(t, size)
      PROVE  OfferInv'
  <2>1. size \in Nat /\ UNCHANGED <<now, week, offer>>
    BY <1>5, AvailabilityAssumption DEF BookLocked, BookDirect, Free
  <2>2. booked' \in [TableTimes -> Nat]
    <3>1. CASE Book(t, size)
      BY <1>1, <2>1, <3>1, SlotBooked
    <3>2. CASE Free(t, size)
      <4>1. size <= booked[t] /\ booked' = [booked EXCEPT ![t] = @ - size] /\ booked[t] \in Nat
        BY <1>1, <3>2 DEF Free
      <4>2. booked[t] - size \in Nat
        BY <2>1, <4>1
      <4>3. QED BY <1>1, <4>1, <4>2
    <3>3. QED BY <1>5, <3>1, <3>2 DEF BookLocked, BookDirect
  <2>3. QED BY <1>1, <2>1, <2>2, OfferKept DEF AvailabilityTypes
<1>6. CASE UNCHANGED availabilityVars
  <2>1. UNCHANGED <<now, week, booked, offer>>
    BY <1>6 DEF availabilityVars
  <2>2. AvailabilityTypes' /\ now <= now'
    BY <1>1, <2>1 DEF AvailabilityTypes
  <2>3. QED BY <2>1, <2>2, OfferKept
<1>7. QED BY <1>2, <1>3, <1>4, <1>5, <1>6 DEF AvailabilityNext

LEMMA TimesTold ==
  ASSUME OfferInv
  PROVE  ToldTruly
<1> SUFFICES ASSUME week # Null
             PROVE  OfferStands /\ NearestOffered /\ ListedCanBeLocked
  BY DEF ToldTruly
<1>1. AvailabilityTypes /\ now \in Nat /\ booked \in [TableTimes -> Nat]
  BY DEF OfferInv, AvailabilityTypes
<1>2. /\ Requested \in SUBSET Int /\ Sizes \in SUBSET Nat /\ Backwards \in SUBSET Nat /\ PromptParty \in Nat
  BY AvailabilityAssumption
<1>3. OfferStands
  <2> SUFFICES ASSUME offer # NoOffer, offer.read, ~(SlotConfirmedCapacity(offer.time) > offer.seats)
               PROVE  VoiceAccepts(offer.time, offer.size)
    BY DEF OfferStands
  <2>1. Stands(offer)
    BY DEF OfferInv
  <2>2. SlotConfirmedCapacity(offer.time) \in Nat
    BY <1>1 DEF SlotConfirmedCapacity, Get
  <2>3. CapacityFor(Minute(offer.time), offer.size)
    BY <2>1, <2>2, Lengths DEF Stands, CapacityFor
  <2>4. QED BY <2>1, <2>3 DEF Stands, VoiceAccepts, WithinAdvance
<1>4. PromptSlot = FirstAfter(now, PromptParty, now)
  BY <1>1, <1>2, NextSlot DEF PromptSlot
<1>5. ASSUME NEW t \in Requested, NEW size \in Sizes, NEW backward \in Backwards
      PROVE  LET answer == Answer(t, size, backward)
             IN IF answer.available THEN OnBoundary(Local(t)) /\ now <= t /\ VoiceAccepts(t, size)
                ELSE answer.forward = FirstAfter(t, size, t - backward)
  <2> DEFINE answer == Answer(t, size, backward)
  <2>1. t \in Int /\ size \in Nat /\ backward \in Nat
    BY <1>2
  <2>2. /\ answer.available =>
             /\ OnBoundary(Local(t)) /\ now <= t /\ OpenAt(Local(t)) /\ WithinAdvance(t)
             /\ CapacityFor(t, size)
        /\ ~answer.available => answer.forward = FirstAfter(t, size, t - backward)
    BY <1>1, <2>1, Answers
  <2> HIDE DEF answer
  <2>3. OnBoundary(Local(t)) => Minute(t) = t
    <3>1. ASSUME OnBoundary(Local(t))
          PROVE  Minute(t) = t
      <4>1. Local(t) \in Int /\ Minute(Local(t)) = Local(t)
        BY <2>1, <3>1, Minutes, Boundaries
      <4>2. Local(Minute(t)) = Local(t) /\ Minute(t) \in Int
        BY <2>1, <4>1, Minutes
      <4>3. QED BY <2>1, <4>2, Lengths DEF Local
    <3>2. QED BY <3>1
  <2>4. QED BY <2>2, <2>3 DEF VoiceAccepts, answer
<1>6. ListedCanBeLocked
  <2> SUFFICES ASSUME NEW t \in Requested, NEW size \in Sizes, NEW backward \in Backwards,
                      NEW slot \in Available(t, ForwardMinutes, backward, size),
                      Local(now) <= slot, Local(t) - backward <= slot, slot <= Local(t) + ForwardMinutes
               PROVE  \/ LockAccepts(Utc(slot), size)
                      \/ ~OpenAt(slot) /\ \E second \in 1..(Grain - 1) : OpenAt(slot + second)
    BY DEF ListedCanBeLocked
  <2>1. t \in Int /\ size \in Nat /\ backward \in Nat
    BY <1>2
  <2>2. QED BY <1>1, <2>1, Shown
<1>7. QED BY <1>3, <1>4, <1>5, <1>6 DEF NearestOffered

(* What callers and dashboards are told of free tables is what they can have, *)
(* whatever the hours, the zone, the windows, the horizon and the bookings.   *)
THEOREM TruthIsTold == AvailabilitySpec => []ToldTruly
<1>1. OfferInv /\ [AvailabilityNext]_availabilityVars => OfferInv'
  BY TableSteps
<1>2. QED BY OfferStart, <1>1, TimesTold, PTL DEF AvailabilitySpec
=============================================================================
