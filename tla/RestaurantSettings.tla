------------------------- MODULE RestaurantSettings -------------------------
(***************************************************************************)
(* The computations on a restaurant's settings, without state: opening     *)
(* hours (app/utils/restaurant_hours.py), feature flags and SMS redirects, *)
(* and the conditions of the kill switch                                   *)
(* (app/services/restaurant_service.py).                                   *)
(*                                                                         *)
(* A payload of the API holds the fields that the client sent, and no      *)
(* others (model_dump(exclude_unset=True)): it is a function whose domain  *)
(* are those fields, and so are its parts.  A day has DayLength moments;   *)
(* minutes and seconds are a moment.                                       *)
(***************************************************************************)
EXTENDS Integers, FiniteSets

CONSTANTS
  Null,        \* None, and a column that is NULL
  Week,        \* number of days after which the days come round again
  DayLength,   \* moments of a day
  Kinds        \* what a caller may be redirected for: orders, reservations

ASSUME SettingsAssumption == Week \in Nat \ {0} /\ DayLength \in Nat \ {0}

(* What the agent may do by itself: answers to questions have no redirect. *)
Skills == Kinds \cup {"faqs"}

Days    == 0..(Week - 1)
Moments == 0..(DayLength - 1)

(* dict.get *)
Get(f, key, default) == IF key \in DOMAIN f THEN f[key] ELSE default

(* A value that may be None, read as a flag. *)
Flag(value, default) == IF value = Null THEN default ELSE value

(***************************************************************************)
(* Opening hours.  The row of a day is [open, close, closed, allDay].      *)
(***************************************************************************)
DayRow == [open : Moments \cup {Null}, close : Moments \cup {Null},
           closed : BOOLEAN, allDay : BOOLEAN]

NoHours == [open |-> Null, close |-> Null, closed |-> FALSE, allDay |-> FALSE]
NineToTen == [NoHours EXCEPT !.open = 0, !.close = DayLength - 1]

PreviousDay(d) == (d + Week - 1) % Week

HasTimes(day) == day.open # Null /\ day.close # Null
Overnight(day) == day.close < day.open

Within(day, t) ==
  \/ day.open = day.close
  \/ day.open < day.close /\ day.open <= t /\ t < day.close
  \/ Overnight(day) /\ (t >= day.open \/ t < day.close)

(* The evening of the day before may reach into this day, closed or not. *)
SpilledInto(before, t) ==
  /\ ~before.closed /\ ~before.allDay
  /\ HasTimes(before) /\ Overnight(before)
  /\ t < before.close

(* Mutant: a closed day is closed from its midnight. *)
ClosedFirst(week, d, t) ==
  LET day == week[d]
  IN ~day.closed /\ \/ SpilledInto(week[PreviousDay(d)], t)
                    \/ HasTimes(day) /\ ~day.allDay => Within(day, t)

(* is_datetime_within_operating_hours: t is local time on day d.           *)
IsWithinOperatingHours(week, d, t) ==
  LET day == week[d]
  IN \/ SpilledInto(week[PreviousDay(d)], t)
     \/ /\ ~day.closed
        /\ HasTimes(day) /\ ~day.allDay => Within(day, t)

(* is_restaurant_open_now: now is counted from the start of the week, in   *)
(* UTC, and the zone is ahead of it.                                       *)
IsRestaurantOpenNow(week, now, zone) ==
  LET local == (now + zone) % (Week * DayLength)
      d == local \div DayLength
      t == local % DayLength
      day == week[d]
  IN \/ day.allDay /\ ~day.closed
     \/ ~day.closed /\ HasTimes(day) /\ Within(day, t)
     \/ SpilledInto(week[PreviousDay(d)], t)
     \/ ~day.closed /\ ~HasTimes(day)

(* What a day's row promises, as moments counted from its own midnight. *)
Promised(day) ==
  CASE day.closed -> {}
    [] ~day.closed /\ (day.allDay \/ ~HasTimes(day)) -> Moments
    [] OTHER -> IF day.open < day.close THEN day.open..(day.close - 1)
                ELSE IF Overnight(day) THEN day.open..(DayLength + day.close - 1)
                ELSE Moments

(* One day of the hours in a payload. *)
IsClosed(change) == Get(change, "closed", FALSE)
IsAllDay(change) == Get(change, "allDay", FALSE)

ValidHours(change) == \A d \in DOMAIN change : ~(IsClosed(change[d]) /\ IsAllDay(change[d]))

ClosedDay == [NoHours EXCEPT !.closed = TRUE]
OpenDay   == [NoHours EXCEPT !.allDay = TRUE]

(* _flatten_operating_hours, and the columns it makes update set: it goes  *)
(* through all the days, those that the payload does not name as well.     *)
FlattenDay(day, change) ==
  IF IsClosed(change) THEN ClosedDay
  ELSE IF IsAllDay(change) THEN OpenDay
  ELSE [open |-> Get(change, "open", day.open), close |-> Get(change, "close", day.close),
        closed |-> FALSE, allDay |-> FALSE]

FlattenHours(week, change) == [d \in Days |-> FlattenDay(week[d], Get(change, d, << >>))]

(* create_restaurant: a day that is not named, or without times, gets the default. *)
OrDefault(time, default) == IF time = Null THEN default ELSE time

NewHours(change) ==
  [d \in Days |->
     LET named == Get(change, d, << >>)
     IN IF IsClosed(named) THEN ClosedDay
        ELSE IF IsAllDay(named) THEN OpenDay
        ELSE [NineToTen EXCEPT !.open  = OrDefault(Get(named, "open", Null), @),
                               !.close = OrDefault(Get(named, "close", Null), @)]]

(***************************************************************************)
(* Feature flags.  A row is [capable, redirect]: for each skill whether    *)
(* the agent has it, and the SMS redirect [on, url] to use instead.        *)
(***************************************************************************)
NoRedirect == [on |-> FALSE, url |-> Null]

(* The defaults of the columns, and what a reader makes of a missing row.  *)
DefaultFeatures == [capable |-> [k \in Skills |-> TRUE], redirect |-> [k \in Kinds |-> NoRedirect]]

MergeSmsRedirect(current, incoming) ==
  [on  |-> Flag(Get(incoming, "on", Null), current.on),
   url |-> Get(incoming, "url", current.url)]

(* The part of a payload about one kind, None when it is not there. *)
Part(payload, part, kind, absent) ==
  LET found == Get(Get(payload, part, << >>), kind, Null)
  IN IF found = Null THEN absent ELSE found

MergeFeatureFlags(current, incoming) ==
  [capable  |-> [k \in Skills |-> Part(incoming, "capable", k, current.capable[k])],
   redirect |-> [k \in Kinds |->
                   MergeSmsRedirect(current.redirect[k], Part(incoming, "redirect", k, << >>))]]

(* validate_sms_redirect_rules *)
RedirectRulesHold(features) ==
  \A k \in Kinds : features.redirect[k].on =>
     ~features.capable[k] /\ features.redirect[k].url # Null

(***************************************************************************)
(* Forwarding and the kill switch.                                         *)
(***************************************************************************)
ForwardingValid(forward, phone) == forward => phone # Null

KillSwitchBlockers(forward, phone) ==
  (IF forward THEN {} ELSE {"forward_escalations_disabled"})
  \cup (IF phone = Null THEN {"escalation_phone_number_missing"} ELSE {})
=============================================================================
