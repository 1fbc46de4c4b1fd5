------------------------------ MODULE Availability ------------------------------
(***************************************************************************)
(* What callers and dashboards are told of free tables, and what the       *)
(* booking paths then accept:                                              *)
(*   check_reservation_availability and create_reservation of the voice    *)
(*   agent (app/agent_fc/functions/reservations.py),                       *)
(*   find_nearest_slots, get_availability, lock_slot and                   *)
(*   create_reservation_direct (app/services/reservation_service.py).      *)
(*                                                                         *)
(* The clock and the bookings are in UTC; the hours, the windows and the   *)
(* slots are in the restaurant's own time, Zone ahead of it.  A time is a  *)
(* number of moments, a minute is Grain of them: what lies between two     *)
(* minutes are the seconds that replace(second=0) drops.                   *)
(***************************************************************************)
EXTENDS RestaurantSettings

CONSTANTS
  Grain,         \* moments of a minute
  SlotLength,    \* moments of SLOT_INTERVAL_MINUTES and of slot_step_minutes
  Zone,          \* how far the restaurant's clock is ahead of UTC
  Weeks,         \* the opening hours that are considered, and Null
  Capacity,      \* reservation_seating_capacity
  Advance,       \* reservation_advance_days, in moments
  Forward,       \* forward_minutes of the restaurant
  Backwards,     \* backward_minutes that are considered
  Sizes,         \* sizes of parties
  PromptParty,   \* the party of five that the prompt has in mind
  Requested,     \* moments that are asked for, in UTC
  TableTimes,    \* whole minutes that may be booked, in UTC
  MaxNow,        \* bound: the last moment of the clock
  MaxBooked      \* bound: times with reservations

ASSUME AvailabilityAssumption ==
  /\ Grain \in Nat \ {0} /\ SlotLength \in Nat \ {0} /\ Zone \in Int
  /\ Zone % Grain = 0 /\ SlotLength % Grain = 0 /\ DayLength % SlotLength = 0
  /\ Capacity \in Nat /\ Advance \in Nat /\ Forward \in Nat /\ Backwards \subseteq Nat
  /\ Weeks \subseteq [Days -> DayRow] \cup {Null}
  /\ Sizes \subseteq Nat \ {0} /\ PromptParty \in Nat \ {0} /\ Requested \subseteq Int /\ TableTimes \subseteq Int
  /\ MaxNow \in Nat /\ MaxBooked \in Nat

VARIABLES
  now,      \* the clock
  week,     \* the opening hours of the restaurant, Null: it cannot be loaded
  booked,   \* seats of confirmed in-house reservations, by the time of their slot
  offer     \* the last time a caller was offered, what was booked for it then,
            \* and whether the answer had read that

availabilityVars == <<now, week, booked, offer>>

Local(t) == t + Zone
Utc(t)   == t - Zone

Minute(t)     == t - (t % Grain)
OnBoundary(t) == t % SlotLength = 0
SnapFloor(t)  == Minute(t) - (Minute(t) % SlotLength)
SnapCeil(t)   == IF OnBoundary(Minute(t)) THEN Minute(t) ELSE SnapFloor(t) + SlotLength

Later(s, t)   == IF s > t THEN s ELSE t
Earlier(s, t) == IF s < t THEN s ELSE t
Least(S)      == IF S = {} THEN Null ELSE CHOOSE t \in S : \A s \in S : t <= s
Greatest(S)   == IF S = {} THEN Null ELSE CHOOSE t \in S : \A s \in S : t >= s

DateOf(t) == t \div DayLength
OpenAt(t) == IsWithinOperatingHours(week, DateOf(t) % Week, t % DayLength)

(***************************************************************************)
(* The seats that are taken.                                               *)
(***************************************************************************)
SlotConfirmedCapacity(t) == Get(booked, t, 0)

ConfirmedCapacityBySlot(from, to) ==
  [t \in {s \in DOMAIN booked : booked[s] > 0 /\ from <= s /\ s <= to} |-> booked[t]]

(* capacity_map.get: slot is local, the map is in UTC. *)
Left(map, slot) == Capacity - Get(map, Utc(slot), 0)

(***************************************************************************)
(* What the booking paths check.  Times are in UTC.                        *)
(***************************************************************************)
FutureTime(slot)     == slot >= Local(now)
WithinAdvance(t)     == t <= now + Advance
CapacityFor(t, size) == size <= Capacity - SlotConfirmedCapacity(t)

(* create_reservation of the voice agent: a time in the past is not refused. *)
VoiceAccepts(t, size) ==
  OpenAt(Local(t)) /\ WithinAdvance(t) /\ CapacityFor(Minute(t), size)

LockAccepts(t, size) ==
  LET slot == Minute(Local(t))
  IN FutureTime(slot) /\ OpenAt(slot) /\ CapacityFor(Utc(slot), size)

DirectAccepts(t, size) == LockAccepts(t, size) /\ WithinAdvance(Utc(Minute(Local(t))))

(***************************************************************************)
(* find_nearest_slots: requested, and both ends of the window, are local.  *)
(***************************************************************************)
HasSeats(slot, size, map) == OpenAt(slot) /\ Left(map, slot) >= size

(* Mutant: the search ends with the window, however far ahead it is. *)
BoundlessForward(requested, size, end, map) ==
  LET snapped == SnapCeil(Later(requested, Local(now)))
      first == IF snapped = requested THEN snapped + SlotLength ELSE snapped
  IN Least({slot \in first..SnapFloor(end) : OnBoundary(slot) /\ HasSeats(slot, size, map)})

NearestForward(requested, size, end, map) ==
  LET snapped == SnapCeil(Later(requested, Local(now)))
      first == IF snapped = requested THEN snapped + SlotLength ELSE snapped
      last == SnapFloor(Earlier(end, Local(now) + Advance))
  IN Least({slot \in first..last : OnBoundary(slot) /\ HasSeats(slot, size, map)})

(* Nothing bounds this search from above but the request. *)
NearestBackward(requested, size, start, map) ==
  LET first == SnapCeil(Later(start, Local(now)))
      last == IF OnBoundary(requested) THEN requested - SlotLength ELSE SnapFloor(requested)
  IN IF start < requested
     THEN Greatest({slot \in first..last : OnBoundary(slot) /\ HasSeats(slot, size, map)})
     ELSE Null

(***************************************************************************)
(* check_reservation_availability.  A restaurant that looks no minutes     *)
(* ahead looks a day ahead.                                                *)
(***************************************************************************)
ForwardMinutes == IF Forward <= 0 THEN DayLength ELSE Forward

Answer(t, size, backward) ==
  LET requested == Local(t)
      start == requested - backward
      end == requested + ForwardMinutes
      map == ConfirmedCapacityBySlot(Utc(start), Utc(end))
      available == /\ OnBoundary(requested) /\ OpenAt(requested)
                   /\ requested <= Local(now) + Advance /\ requested >= Local(now)
                   /\ Left(map, SnapFloor(requested)) >= size
  IN [available |-> available,
      forward  |-> IF available THEN Null ELSE NearestForward(requested, size, end, map),
      backward |-> IF available THEN Null ELSE NearestBackward(requested, size, start, map)]

(* _get_nearest_reservation_slot: what the prompt of a call that begins     *)
(* says of the next table, for a party of its own.                         *)
PromptSlot ==
  LET end == Local(now) + ForwardMinutes
  IN NearestForward(Local(now), PromptParty, end, ConfirmedCapacityBySlot(now, Utc(end)))

(***************************************************************************)
(* get_availability.  The hours of a date, as local times: one of 24 hours *)
(* ends a moment before midnight, one without times has none.              *)
(***************************************************************************)
DayStart(date) == date * DayLength + (IF week[date % Week].allDay THEN 0 ELSE week[date % Week].open)
DayEnd(date) ==
  LET day == week[date % Week]
  IN IF day.allDay THEN (date + 1) * DayLength - 1
     ELSE date * DayLength + day.close + (IF Overnight(day) THEN DayLength ELSE 0)

HasSlots(date) == LET day == week[date % Week] IN ~day.closed /\ (day.allDay \/ HasTimes(day))

WindowEnd(start, forward) == Earlier(start + forward, now + Advance)

SlotStart(date, from) ==
  IF date = DateOf(from) THEN Later(SnapCeil(from), DayStart(date)) ELSE DayStart(date)

SlotEnd(date, end) ==
  LET day == week[date % Week]
      cut == \/ DateOf(DayEnd(date)) > DateOf(end)
             \/ date = DateOf(end) /\ ~day.allDay /\ ~Overnight(day)
  IN IF cut THEN Earlier(Minute(end), DayEnd(date)) ELSE DayEnd(date)

(* The slots that a dashboard is shown for a request in UTC: their minutes. *)
Available(t, forward, backward, size) ==
  LET start == Local(t)
      from == start - backward
      end == WindowEnd(start, forward)
      map == ConfirmedCapacityBySlot(Utc(from), Utc(start + forward))
      slots(date) == {slot \in SlotStart(date, from)..(SlotEnd(date, end) - 1) :
                        (slot - SlotStart(date, from)) % SlotLength = 0}
  IN {slot \in {Minute(s) : s \in UNION {slots(date) : date \in {d \in DateOf(from)..DateOf(end) : HasSlots(d)}}} :
        Left(map, slot) >= size}

(***************************************************************************)
(* The steps.  The agent asks for a caller and names one of the times that *)
(* the answer has; the caller takes it later.  In between dashboards and   *)
(* other callers book and cancel, and the clock goes on.                   *)
(***************************************************************************)
NoOffer == [time |-> Null, size |-> 0, seats |-> 0, read |-> FALSE]

AvailabilityInit ==
  /\ now = 0 /\ week \in Weeks /\ offer = NoOffer
  /\ booked = [t \in TableTimes |-> 0]

(* The backward slot of a request beyond the horizon may be beyond it too:  *)
(* the agent is then told to ask for an earlier date, and names none.       *)
Offered(t, size, backward) ==
  LET answer == Answer(t, size, backward)
      before == IF Local(t) <= Local(now) + Advance THEN {answer.backward} ELSE {}
  IN IF answer.available THEN {Local(t)} ELSE ({answer.forward} \cup before) \ {Null}

Ask ==
  /\ week # Null
  /\ \E t \in Requested, size \in Sizes, backward \in Backwards :
       \E slot \in Offered(t, size, backward) :
         offer' = [time |-> Utc(slot), size |-> size, seats |-> SlotConfirmedCapacity(Utc(slot)),
                   read |-> t - backward <= Utc(slot)]
  /\ UNCHANGED <<now, week, booked>>

Book(t, size) ==
  /\ booked' = [booked EXCEPT ![t] = @ + size]
  /\ Cardinality({s \in TableTimes : booked'[s] > 0}) <= MaxBooked

(* create_reservation, for what was offered. *)
TakeOffer ==
  /\ offer # NoOffer /\ VoiceAccepts(offer.time, offer.size)
  /\ Book(offer.time, offer.size) /\ offer' = NoOffer
  /\ UNCHANGED <<now, week>>

(* lock_slot, with the create_reservation that follows, and                 *)
(* create_reservation_direct of the dashboards.                            *)
BookLocked(t, size) == LockAccepts(t, size) /\ Book(t, size) /\ UNCHANGED <<now, week, offer>>
BookDirect(t, size) == DirectAccepts(t, size) /\ Book(t, size) /\ UNCHANGED <<now, week, offer>>

Free(t, size) ==
  /\ size <= booked[t] /\ booked' = [booked EXCEPT ![t] = @ - size]
  /\ UNCHANGED <<now, week, offer>>

Tick == now < MaxNow /\ now' = now + 1 /\ UNCHANGED <<week, booked, offer>>

AvailabilityNext ==
  \/ Ask \/ TakeOffer \/ Tick
  \/ \E t \in TableTimes, size \in Sizes :
       \/ week # Null /\ (BookLocked(t, size) \/ BookDirect(t, size))
       \/ Free(t, size)

AvailabilitySpec == AvailabilityInit /\ [][AvailabilityNext]_availabilityVars

(***************************************************************************)
(* Properties.                                                             *)
(***************************************************************************)

(* An answer has read the seats that are taken from a moment on, and holds *)
(* every slot before it for empty: with no minutes to look back, that is   *)
(* the slot of the minute in which the request was made, seconds later.    *)
Takes(s, size, from) ==
  OpenAt(Local(s)) /\ WithinAdvance(s) /\ (IF from <= s THEN CapacityFor(s, size) ELSE size <= Capacity)

(* The forward slot that the agent is told is the first slot boundary      *)
(* after the request, within the window and not yet past, that             *)
(* create_reservation would take now, as far as its seats were read, and   *)
(* none is told only if there is none; an available request is one it      *)
(* would take.  A slot that began less than a minute before is not past.   *)
(* The prompt's slot is the same for a request of the present moment.      *)
FirstAfter(t, size, from) ==
  LET after == {s \in Minute(now)..(t + ForwardMinutes) :
                  Minute(t) <= s /\ s # t /\ OnBoundary(Local(s)) /\ Takes(s, size, from)}
  IN IF after = {} THEN Null ELSE Local(Least(after))

NearestOffered ==
  /\ PromptSlot = FirstAfter(now, PromptParty, now)
  /\ \A t \in Requested, size \in Sizes, backward \in Backwards :
       LET answer == Answer(t, size, backward)
       IN IF answer.available THEN OnBoundary(Local(t)) /\ now <= t /\ VoiceAccepts(t, size)
          ELSE answer.forward = FirstAfter(t, size, t - backward)

(* A time that was offered, with its seats read, is refused later only     *)
(* when somebody else took seats of it in between, however long the caller *)
(* thinks.                                                                 *)
OfferStands ==
  offer = NoOffer \/ ~offer.read \/ VoiceAccepts(offer.time, offer.size)
                  \/ SlotConfirmedCapacity(offer.time) > offer.seats

(* A slot that a dashboard is shown, if it is not past and among those     *)
(* whose seats were read, is one that lock_slot takes, unless the          *)
(* restaurant opens some seconds into its minute.  The end of an overnight *)
(* day, and a day of 24 hours, are shown beyond those that were read.      *)
ListedCanBeLocked ==
  \A t \in Requested, size \in Sizes, backward \in Backwards :
    \A slot \in Available(t, ForwardMinutes, backward, size) :
      Local(now) <= slot /\ Local(t) - backward <= slot /\ slot <= Local(t) + ForwardMinutes =>
        \/ LockAccepts(Utc(slot), size)
        \/ ~OpenAt(slot) /\ \E second \in 1..(Grain - 1) : OpenAt(slot + second)

(* What callers and dashboards are told are times they can have, when they *)
(* are told and when they take them.                                       *)
ToldTruly == week # Null => OfferStands /\ NearestOffered /\ ListedCanBeLocked
=============================================================================
