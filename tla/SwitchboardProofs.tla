------------------------- MODULE SwitchboardProofs -------------------------
(***************************************************************************)
(* Proofs about Switchboard, for all restaurants, numbers, calls, bodies   *)
(* of requests, hours and zones, and any number of edits and failures.     *)
(***************************************************************************)
EXTENDS Switchboard, SequenceTheorems, FiniteSetTheorems, WellFoundedInduction, TLAPS

(***************************************************************************)
(* Types.                                                                  *)
(***************************************************************************)
Staffed == {"user", "row", "finalize", "escalate", "forward", "notify"}
Talking == {"agent", "asking", "texting"}
Places  == {"new", "stream", "left", "over"} \cup Staffed \cup Talking

CallRow == [st : Places, setup : Features \cup {Null}, rest : Restaurants \cup {Null},
            number : Numbers \cup {Null}, row : {"none", "in_progress", "agent_bypassed", "escalated"},
            saw : Row \cup {Null}, kind : Kinds \cup {Null},
            told : {"nothing", "connect", "callback", "transfer"}, dialled : Phones \cup {Null}, esc : Nat,
            faulted : BOOLEAN, hungUp : BOOLEAN, stirred : BOOLEAN, drifted : BOOLEAN, moved : BOOLEAN]

EscalationRow == [call : Calls, rest : Restaurants, status : Statuses, staff : BOOLEAN]

NoticeKinds == {"kill_switch_toggled", "kill_switch_bulk_updated", "kill_switch_redirected",
                "user_requested", "sms_redirect_failed"}
Entities  == ({"escalation"} \X Nat) \cup ({"call"} \X Calls) \cup {Null}
AnyNotice == [rest : Restaurants \cup {Null}, kind : NoticeKinds, on : BOOLEAN, bulk : BOOLEAN,
              entity : Entities, read : BOOLEAN]
NoticeRow == {n \in AnyNotice : Storable(n)}
Errand    == Seq(Seq(NoticeRow)) \ {<< >>}

TablesType == /\ restaurants \in [Restaurants -> Row \cup {Null, Gone}]
              /\ features \in [Restaurants -> Features \cup {Null}]
              /\ faults \in 0..MaxFaults
CallsType  == calls \in [Calls -> CallRow]
TracesType == /\ escalations \in Seq(EscalationRow)
              /\ notices \in Seq(NoticeRow)
              /\ errands \in Seq(Errand)

TypeInv == TablesType /\ CallsType /\ TracesType /\ edits \in 0..MaxEdits

(***************************************************************************)
(* The settings.                                                           *)
(***************************************************************************)
IsLive(r)  == restaurants[r] \notin {Null, Gone}
Reaches(r) == IsLive(r) /\ restaurants[r].forward /\ restaurants[r].phone # Null

SettingsInv ==
  /\ \A r \in Restaurants : IsLive(r) /\ restaurants[r].kill => Reaches(r) \/ r \in blind
  /\ \A r, s \in Restaurants :
       IsLive(r) /\ IsLive(s) /\ restaurants[r].number = restaurants[s].number
         /\ restaurants[r].number # Null => r = s
  /\ \A r \in Restaurants : features[r] # Null => IsLive(r) /\ RedirectRulesHold(features[r])

(***************************************************************************)
(* A call.                                                                 *)
(***************************************************************************)
Its(c, e) == e \in DOMAIN escalations /\ escalations[e].call = c

Fresh(c) == calls[c].st = "new" => calls[c] = NewCall

(* The restaurant of the number, as long as it keeps the number. *)
Homed(c) ==
  /\ calls[c].rest # Null => restaurants[calls[c].rest] # Null
  /\ calls[c].st \in {"asking", "texting"} \cup Staffed \/ calls[c].told \in {"connect", "transfer"} => calls[c].rest # Null
  /\ calls[c].rest # Null /\ ~calls[c].moved => /\ calls[c].number # Null
                                                /\ Answers(restaurants[calls[c].rest], calls[c].number)

(* What was promised can be kept. *)
Promise(c) ==
  /\ calls[c].st = "asking" /\ Forwards(calls[c].saw) /\ ~calls[c].stirred => Reaches(calls[c].rest)
  /\ calls[c].told \in {"connect", "transfer"} => calls[c].st \in {"left", "over"}
  /\ calls[c].told = "connect" /\ calls[c].st = "left" /\ ~calls[c].stirred /\ ~calls[c].faulted =>
       /\ Reaches(calls[c].rest)
       /\ \E e \in DOMAIN escalations : Its(c, e) /\ escalations[e].rest = calls[c].rest
  /\ calls[c].told = "connect" /\ calls[c].st = "over" =>
       \/ calls[c].dialled # Null \/ calls[c].hungUp
       \/ calls[c].stirred \/ calls[c].moved \/ calls[c].faulted

(* The rows of the call and of its escalations. *)
Settled(c) == /\ Its(c, calls[c].esc) /\ calls[c].row = "agent_bypassed"
              /\ escalations[calls[c].esc].status = "forwarded" \/ escalations[calls[c].esc].staff

Rows(c) ==
  /\ calls[c].esc # 0 => calls[c].esc \in DOMAIN escalations
  /\ calls[c].st \in {"finalize", "escalate", "forward"} \cup Talking => calls[c].row # "none"
  /\ calls[c].st \in Talking \cup {"left", "stream"} =>
       /\ calls[c].row # "agent_bypassed" /\ calls[c].dialled = Null
       /\ calls[c].row = "escalated" => calls[c].told # "nothing"
  /\ calls[c].st \in Staffed => calls[c].dialled # Null /\ calls[c].told = "nothing"
  /\ calls[c].st \in {"escalate", "forward"} /\ ~calls[c].faulted => calls[c].row = "agent_bypassed"
  /\ calls[c].st = "forward" => Its(c, calls[c].esc)
  /\ calls[c].st = "notify" /\ ~calls[c].faulted => Settled(c)
  /\ Bypassed(c) /\ ~calls[c].faulted =>
       /\ Settled(c)
       /\ \E n \in DOMAIN notices : notices[n].rest = calls[c].rest /\ notices[n].entity = <<"escalation", calls[c].esc>>
  /\ calls[c].row = "none" => \A e \in DOMAIN escalations : ~Its(c, e)

(* What the agent was set up for. *)
Equipped(c) ==
  /\ calls[c].setup # Null => calls[c].rest # Null
  /\ calls[c].setup # Null /\ calls[c].st \in Talking /\ ~calls[c].drifted /\ faults = 0 =>
       IsLive(calls[c].rest) /\ calls[c].setup = StoredFeatures(calls[c].rest)
  /\ calls[c].st = "texting" =>
       /\ calls[c].setup # Null /\ calls[c].kind \in Kinds
       /\ ~calls[c].drifted /\ faults = 0 => calls[c].saw = restaurants[calls[c].rest]
  /\ calls[c].setup # Null /\ calls[c].told = "transfer" /\ faults = 0
       /\ HandoffRule(calls[c].setup, calls[c].kind) = "link" => calls[c].drifted \/ calls[c].moved

CallInv(c) == Fresh(c) /\ Homed(c) /\ Promise(c) /\ Rows(c) /\ Equipped(c)
CallsInv   == \A c \in Calls : CallInv(c)

IInv == TypeInv /\ SettingsInv /\ CallsInv
-----------------------------------------------------------------------------
(***************************************************************************)
(* The computations on settings.                                           *)
(***************************************************************************)
LEMMA DaysAreDays == Week \in Nat /\ DayLength \in Nat /\ Week > 0 /\ DayLength > 0
  BY SettingsAssumption

LEMMA ClosedAndOpenTyped == {NoHours, ClosedDay, OpenDay, NineToTen} \subseteq DayRow
<1>1. NoHours \in DayRow
  BY DEF NoHours, DayRow
<1>2. ClosedDay \in DayRow /\ OpenDay \in DayRow
  BY <1>1 DEF ClosedDay, OpenDay, DayRow
<1>3. NineToTen \in DayRow
  <2>1. 0 \in Moments /\ DayLength - 1 \in Moments
    BY DaysAreDays DEF Moments
  <2>2. QED BY <2>1 DEF NineToTen, NoHours, DayRow
<1>4. QED BY <1>1, <1>2, <1>3

LEMMA FlattenTyped ==
  ASSUME NEW week \in [Days -> DayRow], NEW change,
         \A d \in DOMAIN change : d \in Days /\ IsDay(change[d])
  PROVE  FlattenHours(week, change) \in [Days -> DayRow]
<1>1. ASSUME NEW d \in Days PROVE FlattenDay(week[d], Get(change, d, << >>)) \in DayRow
  <2>1. PICK named : named = Get(change, d, << >>)
    OBVIOUS
  <2>2. CASE IsClosed(named) \/ IsAllDay(named)
    BY <2>1, <2>2, ClosedAndOpenTyped DEF FlattenDay
  <2>3. CASE ~IsClosed(named) /\ ~IsAllDay(named)
    <3>1. week[d] \in DayRow
      OBVIOUS
    <3>2. Get(named, "open", week[d].open) \in Moments \cup {Null}
      <4>1. CASE d \in DOMAIN change
        <5>1. IsDay(named)
          BY <2>1, <4>1 DEF Get
        <5>2. QED BY <3>1, <5>1 DEF IsDay, Get, DayRow
      <4>2. CASE d \notin DOMAIN change
        BY <2>1, <3>1, <4>2 DEF Get, DayRow
      <4>3. QED BY <4>1, <4>2
    <3>3. Get(named, "close", week[d].close) \in Moments \cup {Null}
      <4>1. CASE d \in DOMAIN change
        <5>1. IsDay(named)
          BY <2>1, <4>1 DEF Get
        <5>2. QED BY <3>1, <5>1 DEF IsDay, Get, DayRow
      <4>2. CASE d \notin DOMAIN change
        BY <2>1, <3>1, <4>2 DEF Get, DayRow
      <4>3. QED BY <4>1, <4>2
    <3>4. QED BY <2>1, <2>3, <3>2, <3>3 DEF FlattenDay, DayRow
  <2>4. QED BY <2>2, <2>3
<1>2. QED BY <1>1 DEF FlattenHours

LEMMA NewHoursTyped ==
  ASSUME NEW change, \A d \in DOMAIN change : d \in Days /\ IsDay(change[d])
  PROVE  NewHours(change) \in [Days -> DayRow]
<1>1. ASSUME NEW d \in Days, NEW named, named = Get(change, d, << >>)
      PROVE  /\ OrDefault(Get(named, "open", Null), NineToTen.open) \in Moments
             /\ OrDefault(Get(named, "close", Null), NineToTen.close) \in Moments
  <2>1. CASE d \in DOMAIN change
    <3>1. IsDay(named)
      BY <1>1, <2>1 DEF Get
    <3>2. QED BY <3>1, DaysAreDays DEF IsDay, OrDefault, NineToTen, NoHours, Moments
  <2>2. CASE d \notin DOMAIN change
    BY <1>1, <2>2, DaysAreDays DEF Get, OrDefault, NineToTen, NoHours, Moments
  <2>3. QED BY <2>1, <2>2
<1>2. ASSUME NEW d \in Days, NEW named, named = Get(change, d, << >>)
      PROVE  (IF IsClosed(named) THEN ClosedDay ELSE IF IsAllDay(named) THEN OpenDay
              ELSE [NineToTen EXCEPT !.open  = OrDefault(Get(named, "open", Null), @),
                                     !.close = OrDefault(Get(named, "close", Null), @)]) \in DayRow
  BY <1>1, <1>2, ClosedAndOpenTyped DEF NineToTen, NoHours, DayRow
<1>3. QED BY <1>2 DEF NewHours

LEMMA DefaultTyped == DefaultFeatures \in Features /\ RedirectRulesHold(DefaultFeatures)
  BY DEF DefaultFeatures, Features, NoRedirect, RedirectRulesHold

LEMMA MergeTyped ==
  ASSUME NEW flags \in Features, NEW incoming, IsFeaturePart(incoming)
  PROVE  MergeFeatureFlags(flags, incoming) \in Features
<1>1. flags.capable \in [Skills -> BOOLEAN] /\ flags.redirect \in [Kinds -> [on : BOOLEAN, url : Urls \cup {Null}]]
  BY DEF Features
<1>2. ASSUME NEW k \in Skills PROVE Part(incoming, "capable", k, flags.capable[k]) \in BOOLEAN
  BY <1>1 DEF IsFeaturePart, Part
<1>3. ASSUME NEW k \in Kinds
      PROVE  MergeSmsRedirect(flags.redirect[k], Part(incoming, "redirect", k, << >>)) \in [on : BOOLEAN, url : Urls \cup {Null}]
  <2>1. PICK change : change = Part(incoming, "redirect", k, << >>)
    OBVIOUS
  <2>2. Get(change, "on", Null) \in BOOLEAN \cup {Null} /\ Get(change, "url", Null) \in Urls \cup {Null}
    BY <2>1 DEF IsFeaturePart
  <2>3. flags.redirect[k].on \in BOOLEAN /\ flags.redirect[k].url \in Urls \cup {Null}
    BY <1>1
  <2>4. Flag(Get(change, "on", Null), flags.redirect[k].on) \in BOOLEAN
    BY <2>2, <2>3 DEF Flag
  <2>5. Get(change, "url", flags.redirect[k].url) \in Urls \cup {Null}
    BY <2>2, <2>3 DEF Get
  <2>6. QED BY <2>1, <2>4, <2>5 DEF MergeSmsRedirect
<1>4. QED BY <1>2, <1>3 DEF MergeFeatureFlags, Features

LEMMA DegradedTyped ==
  ASSUME NEW row \in Row
  PROVE  /\ Degraded(row) \in Row /\ ~Degraded(row).forward /\ Degraded(row).phone = Null
         /\ Degraded(row).number = row.number
  BY ClosedAndOpenTyped DEF Degraded, Row, Modes

(* What the agent is told, has and can answer agree, for all features.     *)
LEMMA EquippedLemma ==
  ASSUME NEW flags \in Features
  PROVE  EquippedAsTold(flags)
<1>1. flags.capable \in [Skills -> BOOLEAN] /\ DOMAIN flags.capable = Skills /\ DOMAIN flags.redirect = Kinds
  BY DEF Features
<1>2. UNION {FunctionsOf(k) : k \in Enabled(flags)}
        = {f \in UNION {FunctionsOf(k) : k \in Kinds} : \E k \in Kinds : f \in FunctionsOf(k) /\ flags.capable[k]}
  <2>1. FunctionsOf("faqs") = {}
    BY DEF FunctionsOf
  <2>2. QED BY <1>1, <2>1 DEF Enabled, Skills
<1>3. (IF NeedsMenu(flags) THEN MenuFunctions ELSE {})
        = {f \in MenuFunctions : flags.capable["faqs"] \/ Get(flags.capable, "orders", FALSE)}
  <2>1. NeedsMenu(flags) <=> flags.capable["faqs"] \/ Get(flags.capable, "orders", FALSE)
    BY <1>1 DEF NeedsMenu, Enabled, Skills, Get
  <2>2. QED BY <2>1
<1>4. (IF Redirected(flags) # {} THEN {"send_sms_redirect"} ELSE {})
        = {f \in {"send_sms_redirect"} : \E k \in Kinds : flags.redirect[k].on}
  BY DEF Redirected
<1>5. FunctionDefinitions(flags) = Handlers(flags)
  <2>1. PICK skills, menu, link : /\ skills = UNION {FunctionsOf(k) : k \in Enabled(flags)}
                                  /\ menu = (IF NeedsMenu(flags) THEN MenuFunctions ELSE {})
                                  /\ link = (IF Redirected(flags) # {} THEN {"send_sms_redirect"} ELSE {})
    OBVIOUS
  <2>2. FunctionDefinitions(flags) = skills \cup menu \cup {"end_call", "escalate_to_human"} \cup link
    BY <2>1 DEF FunctionDefinitions
  <2>3. Handlers(flags) = skills \cup menu \cup {"end_call", "escalate_to_human"} \cup link
    BY <1>2, <1>3, <1>4, <2>1, Zenon DEF Handlers
  <2>4. QED BY <2>2, <2>3
<1>6. ASSUME NEW k \in Skills
      PROVE  /\ Capability(flags, k) = "YES" => FunctionsOf(k) \subseteq Handlers(flags)
             /\ (Capability(flags, k) = "SMS_REDIRECT") <=> (HandoffRule(flags, k) = "link")
             /\ HandoffRule(flags, k) = "link" => "send_sms_redirect" \in Handlers(flags)
  <2>1. Capability(flags, k) = "YES" => FunctionsOf(k) \subseteq FunctionDefinitions(flags)
    BY DEF Capability, FunctionDefinitions
  <2>2. HandoffRule(flags, k) = "link" <=> ~flags.capable[k] /\ k \in Kinds /\ flags.redirect[k].on
    BY <1>1 DEF HandoffRule, Get, NoRedirect
  <2>3. (Capability(flags, k) = "SMS_REDIRECT") <=> ~flags.capable[k] /\ k \in Kinds /\ flags.redirect[k].on
    BY DEF Capability, Enabled, Redirected
  <2>4. HandoffRule(flags, k) = "link" => "send_sms_redirect" \in Handlers(flags)
    BY <2>2 DEF Handlers
  <2>5. QED BY <1>5, <2>1, <2>2, <2>3, <2>4
<1>7. QED BY <1>5, <1>6 DEF EquippedAsTold

(***************************************************************************)
(* Opening hours.                                                          *)
(***************************************************************************)
LEMMA Divided ==
  ASSUME NEW n \in Nat, n > 0, NEW q \in Int, NEW t \in 0..(n - 1)
  PROVE  (q * n + t) % n = t /\ (q * n + t) \div n = q
<1>1. PICK a \in Int : a = q * n + t
  OBVIOUS
<1>2. PICK p, u \in Int : p = a \div n /\ u = a % n
  BY <1>1
<1>3. a = n * p + u /\ 0 <= u /\ u < n
  BY <1>1, <1>2
<1>4. (q - p) * n = u - t
  BY <1>1, <1>3
<1>5. ~(q - p >= 1)
  <2>1. q - p >= 1 => (q - p) * n >= n
    OBVIOUS
  <2>2. QED BY <1>3, <1>4, <2>1
<1>6. ~(q - p <= -1)
  <2>1. q - p <= -1 => (q - p) * n <= -n
    OBVIOUS
  <2>2. QED BY <1>3, <1>4, <2>1
<1>7. q = p
  BY <1>5, <1>6
<1>8. u = t
  BY <1>4, <1>7
<1>9. QED BY <1>1, <1>2, <1>7, <1>8

LEMMA WeekRound ==
  ASSUME NEW d \in Days
  PROVE  /\ PreviousDay(d) \in Days
         /\ d > 0 => PreviousDay(d) = d - 1
         /\ d = 0 => PreviousDay(d) = Week - 1
<1>1. CASE d = 0
  <2>1. (0 * Week + (Week - 1)) % Week = Week - 1
    BY Divided, DaysAreDays
  <2>2. QED BY <1>1, <2>1, DaysAreDays DEF PreviousDay, Days
<1>2. CASE d > 0
  <2>1. (1 * Week + (d - 1)) % Week = d - 1
    BY <1>2, Divided, DaysAreDays DEF Days
  <2>2. QED BY <1>2, <2>1, DaysAreDays DEF PreviousDay, Days
<1>3. QED BY <1>1, <1>2 DEF Days

(* The moment that a day's row promises is on that day, or early on the    *)
(* next.                                                                   *)
LEMMA PromisedWhen ==
  ASSUME NEW e \in Days, NEW d \in Days, NEW p \in 0..(2 * DayLength - 1), NEW t \in Moments,
         (e * DayLength + p) % (Week * DayLength) = d * DayLength + t
  PROVE  \/ e = d /\ p = t
         \/ e = PreviousDay(d) /\ p = DayLength + t
<1>1. PICK n \in Nat : n = Week * DayLength /\ n > 0
  <2>1. Week * DayLength \in Nat /\ Week * DayLength >= DayLength
    BY DaysAreDays
  <2>2. QED BY <2>1, DaysAreDays
<1>2. ASSUME NEW f \in Days, NEW u \in Moments
      PROVE  f * DayLength + u \in 0..(n - 1)
  <2>1. f * DayLength + u >= 0 /\ f * DayLength + u \in Int
    BY DaysAreDays DEF Days, Moments
  <2>2. (Week - 1 - f) * DayLength >= 0
    BY DaysAreDays DEF Days
  <2>3. f * DayLength + u <= n - 1
    BY <1>1, <2>2, DaysAreDays DEF Days, Moments
  <2>4. QED BY <1>1, <2>1, <2>3
<1>3. ASSUME NEW f \in Days, NEW u \in Moments, f * DayLength + u = d * DayLength + t
      PROVE  f = d /\ u = t
  <2>1. (f * DayLength + u) \div DayLength = f /\ (d * DayLength + t) \div DayLength = d
    BY Divided, DaysAreDays DEF Days, Moments
  <2>2. \A g \in Days, v \in Moments : (g * DayLength + v) % DayLength = v
    BY Divided, DaysAreDays DEF Days, Moments
  <2>3. (f * DayLength + u) % DayLength = u /\ (d * DayLength + t) % DayLength = t
    BY <2>2
  <2>4. QED BY <1>3, <2>1, <2>2, <2>3
<1>4. CASE p < DayLength
  <2>1. p \in Moments
    BY <1>4, DaysAreDays DEF Moments
  <2>2. (0 * n + (e * DayLength + p)) % n = e * DayLength + p
    BY <1>1, <1>2, <2>1, Divided
  <2>3. e * DayLength + p = d * DayLength + t
    <3>1. PICK a \in Int : a = e * DayLength + p
      BY <1>2, <2>1
    <3>2. QED BY <1>1, <2>2, <3>1
  <2>4. QED BY <1>3, <2>1, <2>3
<1>5. CASE p >= DayLength
  <2>1. p - DayLength \in Moments
    BY <1>5, DaysAreDays DEF Moments
  <2>2. CASE e < Week - 1
    <3>1. e + 1 \in Days
      BY <2>2, DaysAreDays DEF Days
    <3>2. e * DayLength + p = (e + 1) * DayLength + (p - DayLength)
      BY <2>1, DaysAreDays DEF Days, Moments
    <3>3. (0 * n + ((e + 1) * DayLength + (p - DayLength))) % n = (e + 1) * DayLength + (p - DayLength)
      BY <1>1, <1>2, <2>1, <3>1, Divided
    <3>4. (e + 1) * DayLength + (p - DayLength) = d * DayLength + t
      <4>1. PICK a \in Int : a = (e + 1) * DayLength + (p - DayLength)
        BY <1>2, <2>1, <3>1
      <4>2. QED BY <1>1, <3>2, <3>3, <4>1
    <3>5. e + 1 = d /\ p - DayLength = t
      BY <1>3, <2>1, <3>1, <3>4
    <3>6. QED BY <3>5, WeekRound, DaysAreDays DEF Days, Moments
  <2>3. CASE e = Week - 1
    <3>1. 0 \in Days
      BY DaysAreDays DEF Days
    <3>2. e * DayLength + p = 1 * n + (0 * DayLength + (p - DayLength))
      BY <1>1, <2>1, <2>3, DaysAreDays DEF Days, Moments
    <3>3. (1 * n + (0 * DayLength + (p - DayLength))) % n = 0 * DayLength + (p - DayLength)
      BY <1>1, <1>2, <2>1, <3>1, Divided
    <3>4. 0 * DayLength + (p - DayLength) = d * DayLength + t
      <4>1. PICK a \in Int : a = 0 * DayLength + (p - DayLength)
        BY <1>2, <2>1, <3>1
      <4>2. QED BY <1>1, <3>2, <3>3, <4>1
    <3>5. 0 = d /\ p - DayLength = t
      BY <1>3, <2>1, <3>1, <3>4
    <3>6. QED BY <2>3, <3>5, WeekRound, DaysAreDays DEF Days, Moments
  <2>4. QED BY <2>2, <2>3, DaysAreDays DEF Days
<1>6. QED BY <1>4, <1>5, DaysAreDays

(* The local time of a moment that was counted in UTC.                     *)
LEMMA LocalTime ==
  ASSUME NEW d \in Days, NEW t \in Moments, NEW now, now = d * DayLength + t + Week * DayLength - Zone
  PROVE  LET local == (now + Zone) % (Week * DayLength)
         IN local \div DayLength = d /\ local % DayLength = t
<1>1. PICK n \in Nat : n = Week * DayLength /\ n > 0
  <2>1. Week * DayLength \in Nat /\ Week * DayLength >= DayLength
    BY DaysAreDays
  <2>2. QED BY <2>1, DaysAreDays
<1>2. PICK a \in Int : a = d * DayLength + t
  BY DaysAreDays DEF Days, Moments
<1>3. a \in 0..(n - 1)
  <2>1. a >= 0
    BY <1>2, DaysAreDays DEF Days, Moments
  <2>2. (Week - 1 - d) * DayLength >= 0
    BY DaysAreDays DEF Days
  <2>3. a <= n - 1
    BY <1>1, <1>2, <2>2, DaysAreDays DEF Days, Moments
  <2>4. QED BY <1>1, <2>1, <2>3
<1>4. (1 * n + a) % n = a
  BY <1>1, <1>3, Divided
<1>5. now + Zone = 1 * n + a
  BY <1>1, <1>2, SwitchboardAssumption
<1>6. a \div DayLength = d
  BY <1>2, Divided, DaysAreDays DEF Days, Moments
<1>7. a % DayLength = t
  BY <1>2, Divided, DaysAreDays DEF Days, Moments
<1>8. QED BY <1>1, <1>4, <1>5, <1>6, <1>7

(* What the hours promise both computations keep.                          *)
LEMMA OpenLemma ==
  ASSUME NEW week \in [Days -> DayRow], NEW d \in Days, NEW t \in Moments, Open(week, d, t)
  PROVE  /\ IsWithinOperatingHours(week, d, t)
         /\ IsRestaurantOpenNow(week, d * DayLength + t + Week * DayLength - Zone, Zone)
<1>1. PICK e \in Days : \E p \in Promised(week[e]) : (e * DayLength + p) % (Week * DayLength) = d * DayLength + t
  BY DEF Open
<1>2. PICK p \in Promised(week[e]) : (e * DayLength + p) % (Week * DayLength) = d * DayLength + t
  BY <1>1
<1>3. PICK day \in DayRow : day = week[e]
  OBVIOUS
<1>4. ~day.closed /\ day.open \in Moments \cup {Null} /\ day.close \in Moments \cup {Null}
  BY <1>2, <1>3 DEF Promised, DayRow
<1>5. PICK now : now = d * DayLength + t + Week * DayLength - Zone
  OBVIOUS
<1>6. ASSUME \/ week[d].allDay /\ ~week[d].closed
             \/ ~week[d].closed /\ HasTimes(week[d]) /\ Within(week[d], t)
             \/ SpilledInto(week[PreviousDay(d)], t)
             \/ ~week[d].closed /\ ~HasTimes(week[d])
      PROVE  IsRestaurantOpenNow(week, now, Zone)
  BY <1>5, <1>6, LocalTime DEF IsRestaurantOpenNow
<1>7. ASSUME p \in 0..(2 * DayLength - 1)
      PROVE  \/ e = d /\ p = t
             \/ e = PreviousDay(d) /\ p = DayLength + t
  BY <1>2, <1>7, PromisedWhen
<1>8. CASE day.allDay \/ ~HasTimes(day)
  <2>1. p \in Moments
    BY <1>2, <1>3, <1>4, <1>8 DEF Promised
  <2>2. e = d /\ p = t
    BY <1>7, <2>1, DaysAreDays DEF Moments
  <2>3. IsWithinOperatingHours(week, d, t)
    BY <1>3, <1>4, <1>8, <2>2 DEF IsWithinOperatingHours
  <2>4. ~week[d].closed /\ (week[d].allDay \/ ~HasTimes(week[d]))
    BY <1>3, <1>4, <1>8, <2>2
  <2>5. IsRestaurantOpenNow(week, now, Zone)
    BY <1>6, <2>4
  <2>6. QED BY <1>5, <2>3, <2>5
<1>9. CASE ~day.allDay /\ HasTimes(day)
  <2>1. day.open \in Moments /\ day.close \in Moments
    BY <1>4, <1>9 DEF HasTimes
  <2>2. p \in (IF day.open < day.close THEN day.open..(day.close - 1)
               ELSE IF Overnight(day) THEN day.open..(DayLength + day.close - 1) ELSE Moments)
    BY <1>2, <1>3, <1>4, <1>9 DEF Promised
  <2>3. p \in 0..(2 * DayLength - 1)
    BY <2>1, <2>2, DaysAreDays DEF Moments
  <2>4. ASSUME Within(day, t), e = d PROVE IsWithinOperatingHours(week, d, t) /\ IsRestaurantOpenNow(week, now, Zone)
    <3>1. IsWithinOperatingHours(week, d, t)
      BY <1>3, <1>4, <2>4 DEF IsWithinOperatingHours
    <3>2. IsRestaurantOpenNow(week, now, Zone)
      BY <1>3, <1>4, <1>6, <1>9, <2>4
    <3>3. QED BY <3>1, <3>2
  <2>5. ASSUME SpilledInto(day, t), e = PreviousDay(d)
        PROVE  IsWithinOperatingHours(week, d, t) /\ IsRestaurantOpenNow(week, now, Zone)
    BY <1>3, <1>6, <2>5 DEF IsWithinOperatingHours
  <2>6. CASE e = d /\ p = t
    <3>1. Within(day, t)
      BY <2>1, <2>2, <2>6, DaysAreDays DEF Within, Overnight, Moments
    <3>2. QED BY <1>5, <2>4, <2>6, <3>1
  <2>7. CASE e = PreviousDay(d) /\ p = DayLength + t
    <3>1. Overnight(day) /\ t < day.close
      BY <2>1, <2>2, <2>7, DaysAreDays DEF Overnight, Moments
    <3>2. SpilledInto(day, t)
      BY <1>4, <1>9, <3>1 DEF SpilledInto
    <3>3. QED BY <1>5, <2>5, <2>7, <3>2
  <2>8. QED BY <1>7, <2>3, <2>6, <2>7
<1>10. QED BY <1>8, <1>9
-----------------------------------------------------------------------------
(***************************************************************************)
(* Rows, reads and failures.                                               *)
(***************************************************************************)
LEMMA LiveRows ==
  ASSUME TablesType
  PROVE  /\ Live = {r \in Restaurants : IsLive(r)}
         /\ \A r \in Restaurants : IsLive(r) => restaurants[r] \in Row
         /\ \A r \in Restaurants : StoredFeatures(r) \in Features
  BY DefaultTyped DEF TablesType, Live, IsLive, StoredFeatures

LEMMA PayloadTyped ==
  ASSUME NEW p \in Payloads
  PROVE  IsBody(p)
  BY SwitchboardAssumption

LEMMA UpdateTyped ==
  ASSUME NEW row \in Row, NEW p \in Payloads
  PROVE  /\ UpdateRow(row, p) \in Row
         /\ UpdateRow(row, p).kill = row.kill
         /\ UpdateRow(row, p).forward = Get(p, "forward", row.forward)
         /\ UpdateRow(row, p).phone = Get(p, "phone", row.phone)
         /\ UpdateRow(row, p).number = Get(p, "number", row.number)
<1>1. IsBody(p)
  BY PayloadTyped
<1>2. /\ Get(p, "number", row.number) \in Numbers \cup {Null}
      /\ Get(p, "forward", row.forward) \in BOOLEAN
      /\ Get(p, "phone", row.phone) \in Phones \cup {Null}
      /\ Get(p, "mode", row.mode) \in Modes
  BY <1>1 DEF IsBody, Get, Row
<1>3. (IF "hours" \in DOMAIN p THEN FlattenHours(row.hours, p.hours) ELSE row.hours) \in [Days -> DayRow]
  <2>1. row.hours \in [Days -> DayRow]
    BY DEF Row
  <2>2. "hours" \in DOMAIN p => \A d \in DOMAIN p.hours : d \in Days /\ IsDay(p.hours[d])
    BY <1>1 DEF IsBody, Get
  <2>3. QED BY <2>1, <2>2, FlattenTyped
<1>4. QED BY <1>2, <1>3 DEF UpdateRow, Row

LEMMA InsertTyped ==
  ASSUME NEW p \in Payloads
  PROVE  /\ InsertRestaurant(p) \in Row
         /\ ~InsertRestaurant(p).kill
         /\ InsertRestaurant(p).number = Get(p, "number", Null)
<1>1. IsBody(p)
  BY PayloadTyped
<1>2. NewHours(Get(p, "hours", << >>)) \in [Days -> DayRow]
  <2>1. \A d \in DOMAIN Get(p, "hours", << >>) : d \in Days /\ IsDay(Get(p, "hours", << >>)[d])
    BY <1>1 DEF IsBody, Get
  <2>2. QED BY <2>1, NewHoursTyped
<1>3. QED BY <1>1, <1>2 DEF InsertRestaurant, IsBody, Row

LEMMA PartTyped ==
  ASSUME NEW p \in Payloads
  PROVE  IsFeaturePart(Get(p, "features", << >>))
  BY PayloadTyped DEF IsBody

LEMMA NoLinksTyped ==
  ASSUME NEW flags \in Features
  PROVE  [flags EXCEPT !.redirect = [k \in Kinds |-> NoRedirect]] \in Features
  BY DEF Features, NoRedirect

(* What a read of the restaurant may come out as. *)
LEMMA ReadsTyped ==
  ASSUME NEW row \in Row, NEW flags \in Features, NEW seen \in ReadsOf(row, flags)
  PROVE  /\ seen.row \in Row /\ seen.features \in Features /\ seen.bad \in {0, 1}
         /\ seen.bad = 0 => seen.row = row /\ seen.features = flags
         /\ seen.row = row \/ seen.row = Degraded(row)
  BY DegradedTyped, NoLinksTyped DEF ReadsOf

LEMMA RowReadsTyped ==
  ASSUME TablesType, NEW r \in Restaurants \cup {Null}, NEW seen \in RowReads(r)
  PROVE  /\ seen.row \in Row \cup {Null} /\ seen.bad \in {0, 1}
         /\ Forwards(seen.row) => /\ r \in Restaurants /\ Reaches(r) /\ seen.row = restaurants[r]
                                  /\ seen.row.phone # Null /\ seen.row.phone \in Phones
         /\ seen.bad = 0 /\ r \in Live => seen.row = restaurants[r]
<1>1. CASE r \notin Live
  BY <1>1 DEF RowReads, Forwards
<1>2. CASE r \in Live
  <2>1. r \in Restaurants /\ IsLive(r) /\ restaurants[r] \in Row
    BY <1>2, LiveRows DEF Live
  <2>2. seen \in {[row |-> restaurants[r], bad |-> 0], [row |-> Degraded(restaurants[r]), bad |-> 1],
                  [row |-> Null, bad |-> 1]}
    BY <1>2 DEF RowReads
  <2>3. restaurants[r] # Null
    BY <2>1, SwitchboardAssumption
  <2>4. CASE seen = [row |-> restaurants[r], bad |-> 0]
    BY <2>1, <2>4 DEF Forwards, Reaches, Row
  <2>5. CASE seen = [row |-> Degraded(restaurants[r]), bad |-> 1]
    BY <2>1, <2>5, DegradedTyped DEF Forwards
  <2>6. CASE seen = [row |-> Null, bad |-> 1]
    BY <2>6 DEF Forwards
  <2>7. QED BY <2>2, <2>4, <2>5, <2>6
<1>3. QED BY <1>1, <1>2

LEMMA UndoneTyped ==
  ASSUME NEW done \in Seq(BOOLEAN)
  PROVE  Undone(done) \in Nat /\ (Undone(done) = 0 => \A k \in DOMAIN done : done[k])
<1>1. IsFiniteSet(1..Len(done))
  BY FS_Interval
<1>2. IsFiniteSet({k \in DOMAIN done : ~done[k]})
  BY <1>1, FS_Subset
<1>3. QED BY <1>2, FS_CardinalityType, FS_EmptySet DEF Undone

LEMMA FaultGrows ==
  ASSUME TablesType, NEW n \in Nat, Fault(n)
  PROVE  faults' \in 0..MaxFaults /\ faults' >= faults /\ (faults' = 0 => faults = 0 /\ n = 0)
  BY SwitchboardAssumption DEF Fault, TablesType

LEMMA EditCounts ==
  ASSUME TypeInv, Edit
  PROVE  edits' \in 0..MaxEdits
  BY SwitchboardAssumption DEF Edit, TypeInv
-----------------------------------------------------------------------------
(***************************************************************************)
(* What a step leaves of a call that it is not about.                      *)
(***************************************************************************)
EscalationsKept(c) ==
  /\ \A e \in DOMAIN escalations : e \in DOMAIN escalations'
  /\ \A e \in DOMAIN escalations' : Its(c, e)' => Its(c, e)
  /\ \A e \in DOMAIN escalations : Its(c, e) =>
       /\ Its(c, e)' /\ escalations'[e].rest = escalations[e].rest
       /\ escalations[e].status = "forwarded" \/ escalations[e].staff =>
            escalations'[e].status = "forwarded" \/ escalations'[e].staff

NoticesKept ==
  \A n \in DOMAIN notices : /\ n \in DOMAIN notices' /\ notices'[n].rest = notices[n].rest
                            /\ notices'[n].entity = notices[n].entity

LEMMA EscalationsSame ==
  ASSUME escalations' = escalations, NEW c
  PROVE  EscalationsKept(c)
  BY DEF EscalationsKept, Its

LEMMA NoticesSame ==
  ASSUME notices' = notices
  PROVE  NoticesKept
  BY DEF NoticesKept

(* The rows of a call that a step does not touch. *)
LEMMA RowsKept ==
  ASSUME NEW c \in Calls, Rows(c), calls'[c] = calls[c], EscalationsKept(c), NoticesKept
  PROVE  Rows(c)'
<1>1. PICK call : call = calls[c]
  OBVIOUS
<1>2. Settled(c) => Settled(c)'
  BY DEF Settled, EscalationsKept, Its
<1>3. (calls[c].st = "forward" => Its(c, calls[c].esc)) => (calls'[c].st = "forward" => Its(c, calls[c].esc)')
  BY DEF EscalationsKept, Its
<1>4. calls[c].row = "none" => \A e \in DOMAIN escalations' : ~Its(c, e)'
  BY DEF Rows, EscalationsKept, Its
<1>5. Bypassed(c)' <=> Bypassed(c)
  BY DEF Bypassed
<1>6. ASSUME NEW n \in DOMAIN notices, notices[n].rest = calls[c].rest, notices[n].entity = <<"escalation", calls[c].esc>>
      PROVE  \E m \in DOMAIN notices' : notices'[m].rest = calls'[c].rest /\ notices'[m].entity = <<"escalation", calls'[c].esc>>
  BY <1>6 DEF NoticesKept
<1>7. Bypassed(c) /\ ~calls[c].faulted =>
        /\ Settled(c)'
        /\ \E m \in DOMAIN notices' : notices'[m].rest = calls'[c].rest /\ notices'[m].entity = <<"escalation", calls'[c].esc>>
  BY <1>2, <1>6 DEF Rows
<1>8. (calls[c].st = "forward" => Its(c, calls[c].esc)) /\ (calls[c].st = "notify" /\ ~calls[c].faulted => Settled(c))
  BY DEF Rows
<1>9. /\ calls[c].st \in {"finalize", "escalate", "forward"} \cup Talking => calls[c].row # "none"
      /\ calls[c].st \in Talking \cup {"left", "stream"} =>
           /\ calls[c].row # "agent_bypassed" /\ calls[c].dialled = Null
           /\ calls[c].row = "escalated" => calls[c].told # "nothing"
      /\ calls[c].st \in Staffed => calls[c].dialled # Null /\ calls[c].told = "nothing"
      /\ calls[c].st \in {"escalate", "forward"} /\ ~calls[c].faulted => calls[c].row = "agent_bypassed"
  BY DEF Rows
<1>10. calls[c].esc # 0 => calls'[c].esc \in DOMAIN escalations'
  BY DEF Rows, EscalationsKept
<1>11. QED BY <1>2, <1>3, <1>4, <1>5, <1>7, <1>8, <1>9, <1>10 DEF Rows, Its

LEMMA OtherCall ==
  ASSUME NEW c \in Calls, CallInv(c), calls'[c] = calls[c], UNCHANGED <<restaurants, features>>,
         EscalationsKept(c), NoticesKept, TablesType, faults' = 0 => faults = 0
  PROVE  CallInv(c)'
<1>1. Homed(c)'
  BY DEF CallInv, Homed, Answers
<1>2. Promise(c)'
  <2>1. \A r : Reaches(r)' <=> Reaches(r)
    BY DEF Reaches, IsLive
  <2>2. (\E e \in DOMAIN escalations : Its(c, e) /\ escalations[e].rest = calls[c].rest)
          => (\E e \in DOMAIN escalations' : Its(c, e)' /\ escalations'[e].rest = calls'[c].rest)
    BY DEF EscalationsKept, Its
  <2>3. QED BY <2>1, <2>2 DEF CallInv, Promise, Its
<1>3. Rows(c)'
  BY RowsKept DEF CallInv
<1>4. Equipped(c)'
  BY DEF CallInv, Equipped, IsLive, StoredFeatures
<1>5. Fresh(c)'
  BY DEF CallInv, Fresh, NewCall
<1>6. QED BY <1>1, <1>2, <1>3, <1>4, <1>5 DEF CallInv

(* A step of one call. *)
StepOf(c) ==
  /\ UNCHANGED settings
  /\ \A d \in Calls \ {c} : calls'[d] = calls[d] /\ EscalationsKept(d)
  /\ NoticesKept
  /\ faults' = 0 => faults = 0

LEMMA SettingsSame ==
  ASSUME SettingsInv, UNCHANGED settings
  PROVE  SettingsInv'
<1>1. restaurants' = restaurants /\ features' = features /\ blind' = blind
  BY DEF settings
<1>2. \A r : (Reaches(r)' <=> Reaches(r)) /\ (IsLive(r)' <=> IsLive(r))
  BY <1>1 DEF Reaches, IsLive
<1>3. QED BY <1>1, <1>2 DEF SettingsInv, IsLive

LEMMA OneCall ==
  ASSUME IInv, NEW c \in Calls, StepOf(c), TypeInv', CallInv(c)'
  PROVE  IInv'
<1>1. SettingsInv'
  BY SettingsSame DEF IInv, StepOf
<1>2. ASSUME NEW d \in Calls \ {c} PROVE CallInv(d)'
  BY OtherCall DEF IInv, CallsInv, TypeInv, StepOf, settings
<1>3. QED BY <1>1, <1>2 DEF IInv, CallsInv

(* A step of no call, which leaves the settings alone. *)
LEMMA NoCall ==
  ASSUME IInv, UNCHANGED <<settings, calls>>, TypeInv', \A c \in Calls : EscalationsKept(c), NoticesKept,
         faults' = 0 => faults = 0
  PROVE  IInv'
<1>1. SettingsInv'
  BY SettingsSame DEF IInv
<1>2. ASSUME NEW c \in Calls PROVE CallInv(c)'
  BY OtherCall DEF IInv, CallsInv, TypeInv, settings
<1>3. QED BY <1>1, <1>2 DEF IInv, CallsInv

(* An edit of some restaurants. *)
EditOf(rs) ==
  /\ UNCHANGED <<escalations, notices>>
  /\ Stir(rs)
  /\ \A r \in Restaurants \ rs : restaurants'[r] = restaurants[r] /\ features'[r] = features[r]
  /\ \A r \in Restaurants : restaurants[r] # Null => restaurants'[r] # Null
  /\ faults' = 0 => faults = 0

LEMMA Edited ==
  ASSUME IInv, NEW rs \in SUBSET Restaurants, EditOf(rs), TypeInv'
  PROVE  CallsInv'
<1>1. ASSUME NEW c \in Calls, calls[c].rest \notin rs PROVE CallInv(c)'
  <2>1. calls'[c] = calls[c]
    BY <1>1 DEF EditOf, Stir
  <2>2. calls[c] \in CallRow /\ CallInv(c)
    BY DEF IInv, TypeInv, CallsType, CallsInv
  <2>3. calls[c].rest # Null =>
          /\ restaurants'[calls[c].rest] = restaurants[calls[c].rest] /\ features'[calls[c].rest] = features[calls[c].rest]
          /\ calls[c].rest \in Restaurants
    BY <1>1, <2>2 DEF EditOf, CallRow
  <2>4. Homed(c)'
    BY <2>1, <2>2, <2>3 DEF CallInv, Homed, Answers
  <2>5. Promise(c)'
    <3>1. calls[c].rest # Null => (Reaches(calls[c].rest)' <=> Reaches(calls[c].rest))
      BY <2>1, <2>3 DEF Reaches, IsLive
    <3>2. calls[c].st = "asking" \/ calls[c].told = "connect" => calls[c].rest # Null
      BY <2>2 DEF CallInv, Homed
    <3>3. escalations' = escalations
      BY DEF EditOf
    <3>4. QED BY <2>1, <2>2, <3>1, <3>2, <3>3 DEF CallInv, Promise, Its
  <2>6. Rows(c)'
    BY <2>1, <2>2, RowsKept, EscalationsSame, NoticesSame DEF CallInv, EditOf
  <2>7. Equipped(c)'
    <3>1. calls[c].rest # Null => /\ IsLive(calls[c].rest)' <=> IsLive(calls[c].rest)
                                  /\ StoredFeatures(calls[c].rest)' = StoredFeatures(calls[c].rest)
      BY <2>1, <2>3 DEF IsLive, StoredFeatures
    <3>2. calls[c].st = "texting" => calls[c].rest # Null
      BY <2>2 DEF CallInv, Homed
    <3>3. calls[c].setup # Null => calls[c].rest # Null
      BY <2>2 DEF CallInv, Equipped
    <3>4. QED BY <2>1, <2>2, <2>3, <3>1, <3>2, <3>3 DEF CallInv, Equipped, EditOf
  <2>8. Fresh(c)'
    BY <2>1, <2>2 DEF CallInv, Fresh, NewCall
  <2>9. QED BY <2>4, <2>5, <2>6, <2>7, <2>8 DEF CallInv
<1>2. ASSUME NEW c \in Calls, calls[c].rest \in rs PROVE CallInv(c)'
  <2>1. PICK lost \in BOOLEAN : lost <=> ~Answers(restaurants'[calls[c].rest], calls[c].number)
    OBVIOUS
  <2>2. calls[c] \in CallRow /\ CallInv(c)
    BY DEF IInv, TypeInv, CallsType, CallsInv
  <2>3. calls'[c] = [calls[c] EXCEPT !.stirred = TRUE, !.drifted = TRUE, !.moved = @ \/ lost]
    BY <1>2, <2>1, <2>2 DEF EditOf, Stir, CallRow
  <2>4. /\ calls'[c].stirred /\ calls'[c].drifted /\ (calls'[c].moved <=> calls[c].moved \/ lost)
        /\ calls'[c].st = calls[c].st /\ calls'[c].rest = calls[c].rest /\ calls'[c].number = calls[c].number
        /\ calls'[c].setup = calls[c].setup /\ calls'[c].row = calls[c].row /\ calls'[c].told = calls[c].told
        /\ calls'[c].dialled = calls[c].dialled /\ calls'[c].esc = calls[c].esc /\ calls'[c].kind = calls[c].kind
        /\ calls'[c].faulted = calls[c].faulted /\ calls'[c].hungUp = calls[c].hungUp
    BY <2>2, <2>3 DEF CallRow
  <2>5. Homed(c)'
    <3>1. calls[c].rest \in Restaurants /\ (restaurants[calls[c].rest] # Null => restaurants'[calls[c].rest] # Null)
      BY <1>2 DEF EditOf
    <3>2. QED BY <2>1, <2>2, <2>4, <3>1 DEF CallInv, Homed
  <2>6. Promise(c)'
    BY <2>2, <2>4 DEF CallInv, Promise
  <2>7. Rows(c)'
    <3>1. escalations' = escalations /\ notices' = notices
      BY DEF EditOf
    <3>2. QED BY <2>2, <2>4, <3>1 DEF CallInv, Rows, Settled, Its, Bypassed
  <2>8. Equipped(c)'
    BY <2>2, <2>4 DEF CallInv, Equipped
  <2>9. Fresh(c)'
    <3>1. calls[c].rest # Null
      BY <1>2, SwitchboardAssumption
    <3>2. NewCall.rest = Null
      BY DEF NewCall
    <3>3. calls[c].st # "new"
      BY <2>2, <3>1, <3>2 DEF CallInv, Fresh
    <3>4. QED BY <2>4, <3>3 DEF Fresh
  <2>10. QED BY <2>5, <2>6, <2>7, <2>8, <2>9 DEF CallInv
<1>3. QED BY <1>1, <1>2 DEF CallsInv
-----------------------------------------------------------------------------
(***************************************************************************)
(* The edits of the dashboards.                                            *)
(***************************************************************************)
LEMMA StirTyped ==
  ASSUME CallsType, NEW rs, Stir(rs)
  PROVE  CallsType'
<1>1. ASSUME NEW c \in Calls
      PROVE  (IF calls[c].rest \in rs
              THEN [calls[c] EXCEPT !.stirred = TRUE, !.drifted = TRUE,
                                    !.moved = @ \/ ~Answers(restaurants'[calls[c].rest], calls[c].number)]
              ELSE calls[c]) \in CallRow
  <2>1. PICK lost \in BOOLEAN : lost <=> ~Answers(restaurants'[calls[c].rest], calls[c].number)
    OBVIOUS
  <2>2. calls[c] \in CallRow
    BY DEF CallsType
  <2>3. [calls[c] EXCEPT !.stirred = TRUE, !.drifted = TRUE, !.moved = @ \/ lost] \in CallRow
    BY <2>2 DEF CallRow
  <2>4. (calls[c].moved \/ ~Answers(restaurants'[calls[c].rest], calls[c].number)) = (calls[c].moved \/ lost)
    BY <2>1
  <2>5. QED BY <2>2, <2>3, <2>4
<1>2. QED BY <1>1 DEF Stir, CallsType

(* A call has no restaurant that is not there yet. *)
LEMMA NoCallYet ==
  ASSUME IInv, NEW r \in Restaurants, restaurants[r] = Null, NEW c \in Calls
  PROVE  calls[c].rest # r
  BY SwitchboardAssumption DEF IInv, CallsInv, CallInv, Homed

LEMMA CreateStep ==
  ASSUME IInv, NEW r \in Restaurants, NEW p \in Payloads, CreateRestaurant(r, p)
  PROVE  IInv'
<1>1. TypeInv
  BY DEF IInv
<1>2. PICK row \in Row : row = InsertRestaurant(p) /\ ~row.kill /\ row.number = Get(p, "number", Null)
  BY InsertTyped
<1>3. PICK merged \in Features : merged = MergeFeatureFlags(DefaultFeatures, Get(p, "features", << >>))
  BY DefaultTyped, MergeTyped, PartTyped
<1>4. RedirectRulesHold(merged)
  BY <1>3 DEF CreateRestaurant
<1>5. PICK written \in 0..2 :
        /\ IF written = 2 THEN UNCHANGED faults ELSE Fault(1)
        /\ features' = [features EXCEPT ![r] =
             CASE written = 0 -> @
               [] written = 1 -> InsertDefaults(@)
               [] OTHER -> WriteFeatures(InsertDefaults(@),
                             MergeFeatureFlags(DefaultFeatures, Get(p, "features", << >>)))]
  BY Zenon DEF CreateRestaurant
<1>6. restaurants' = [restaurants EXCEPT ![r] = row] /\ restaurants[r] = Null
  BY <1>2 DEF CreateRestaurant
<1>7. faults' \in 0..MaxFaults /\ (faults' = 0 => faults = 0)
  BY <1>1, <1>5, FaultGrows DEF TypeInv, TablesType
<1>8. \E kept \in Features \cup {Null} :
         /\ features' = [features EXCEPT ![r] = kept]
         /\ kept # Null => RedirectRulesHold(kept)
  <2>1. features[r] \in Features \cup {Null} /\ (features[r] # Null => RedirectRulesHold(features[r]))
    BY DEF IInv, TypeInv, TablesType, SettingsInv
  <2>2. CASE written = 0
    <3>1. features' = [features EXCEPT ![r] = features[r]]
      BY <1>5, <2>2
    <3>2. QED BY <2>1, <3>1
  <2>3. CASE written = 1
    <3>1. features' = [features EXCEPT ![r] = InsertDefaults(features[r])]
      BY <1>5, <2>3
    <3>2. QED BY <2>1, <3>1, DefaultTyped DEF InsertDefaults
  <2>4. CASE written = 2
    <3>1. features' = [features EXCEPT ![r] = WriteFeatures(InsertDefaults(features[r]), merged)]
      BY <1>3, <1>5, <2>4
    <3>2. QED BY <1>4, <3>1 DEF WriteFeatures
  <2>5. QED BY <2>2, <2>3, <2>4
<1>9. PICK kept \in Features \cup {Null} :
        /\ features' = [features EXCEPT ![r] = kept]
        /\ kept # Null => RedirectRulesHold(kept)
  BY <1>8
<1>10. UNCHANGED <<calls, notices, escalations, errands, blind>>
  BY DEF CreateRestaurant
<1>11. TypeInv'
  <2>1. edits' \in 0..MaxEdits
    BY <1>1, EditCounts DEF CreateRestaurant
  <2>2. QED BY <1>1, <1>6, <1>7, <1>9, <1>10, <2>1 DEF TypeInv, TablesType, CallsType, TracesType
<1>12. CallsInv'
  <2>1. Stir({r})
    <3>1. \A c \in Calls : calls[c].rest # r
      BY <1>6, NoCallYet
    <3>2. calls = [c \in Calls |-> calls[c]]
      BY <1>1 DEF TypeInv, CallsType
    <3>3. QED BY <1>10, <3>1, <3>2 DEF Stir
  <2>2. EditOf({r})
    BY <1>1, <1>6, <1>7, <1>9, <1>10, <2>1, SwitchboardAssumption DEF EditOf, TypeInv, TablesType
  <2>3. QED BY <1>11, <2>2, Edited
<1>13. SettingsInv'
  <2>1. /\ restaurants'[r] = row /\ \A s \in Restaurants \ {r} : restaurants'[s] = restaurants[s]
        /\ features'[r] = kept /\ \A s \in Restaurants \ {r} : features'[s] = features[s]
    BY <1>1, <1>6, <1>9 DEF TypeInv, TablesType
  <2>2. \A s \in Restaurants \ {r} : (Reaches(s)' <=> Reaches(s)) /\ (IsLive(s)' <=> IsLive(s))
    BY <2>1 DEF Reaches, IsLive
  <2>3. \A s \in Restaurants : IsLive(s)' /\ restaurants'[s].kill => Reaches(s)' \/ s \in blind'
    BY <1>2, <1>10, <2>1, <2>2 DEF IInv, SettingsInv
  <2>4. \A s \in Restaurants : IsLive(s) /\ restaurants[s].number = row.number /\ row.number # Null => s = r
    <3>1. NumberFree(row.number, r)
      BY <1>2 DEF CreateRestaurant
    <3>2. QED BY <1>1, <3>1, LiveRows DEF NumberFree, ByNumber, TypeInv
  <2>5. \A s, t \in Restaurants :
          IsLive(s)' /\ IsLive(t)' /\ restaurants'[s].number = restaurants'[t].number
            /\ restaurants'[s].number # Null => s = t
    BY <2>1, <2>2, <2>4 DEF IInv, SettingsInv
  <2>6. \A s \in Restaurants : features'[s] # Null => IsLive(s)' /\ RedirectRulesHold(features'[s])
    <3>1. IsLive(r)'
      BY <2>1, SwitchboardAssumption DEF IsLive
    <3>2. QED BY <1>9, <2>1, <2>2, <3>1 DEF IInv, SettingsInv
  <2>7. QED BY <2>3, <2>5, <2>6 DEF SettingsInv
<1>14. QED BY <1>11, <1>12, <1>13 DEF IInv

LEMMA UpdateStep ==
  ASSUME IInv, NEW r \in Restaurants, NEW p \in Payloads, UpdateRestaurant(r, p)
  PROVE  IInv'
<1>1. TypeInv
  BY DEF IInv
<1>2. r \in Live /\ IsLive(r) /\ restaurants[r] \in Row /\ StoredFeatures(r) \in Features
  BY <1>1, LiveRows DEF UpdateRestaurant, TypeInv
<1>3. PICK seen \in Reads(r), done \in BOOLEAN :
        /\ Fault(seen.bad + Undone(<<done>>))
        /\ UpdateAllowed(r, p, seen)
        /\ restaurants' = [restaurants EXCEPT ![r] = UpdateRow(@, p)]
        /\ features' = [features EXCEPT ![r] =
             IF done /\ "features" \in DOMAIN p
             THEN WriteFeatures(InsertDefaults(@), MergeFeatureFlags(seen.features, p.features))
             ELSE @]
        /\ blind' = IF seen.bad > 0 THEN blind \cup {r} ELSE blind
  BY DEF UpdateRestaurant
<1>4. /\ seen.row \in Row /\ seen.features \in Features /\ seen.bad \in {0, 1}
      /\ seen.bad = 0 => seen.row = restaurants[r] /\ seen.features = StoredFeatures(r)
      /\ seen.row = restaurants[r] \/ seen.row = Degraded(restaurants[r])
  BY <1>2, ReadsTyped DEF Reads
<1>5. PICK row \in Row : /\ row = UpdateRow(restaurants[r], p) /\ row.kill = restaurants[r].kill
                         /\ row.forward = Get(p, "forward", restaurants[r].forward)
                         /\ row.phone = Get(p, "phone", restaurants[r].phone)
                         /\ row.number = Get(p, "number", restaurants[r].number)
  BY <1>2, UpdateTyped
<1>6. restaurants' = [restaurants EXCEPT ![r] = row]
  BY <1>3, <1>5
<1>7. faults' \in 0..MaxFaults /\ (faults' = 0 => faults = 0)
  <2>1. Undone(<<done>>) \in Nat
    <3>1. <<done>> \in Seq(BOOLEAN)
      OBVIOUS
    <3>2. QED BY <3>1, UndoneTyped
  <2>2. seen.bad + Undone(<<done>>) \in Nat
    BY <1>4, <2>1
  <2>3. QED BY <1>1, <1>3, <2>2, FaultGrows DEF TypeInv
<1>8. PICK kept \in Features \cup {Null} :
        /\ features' = [features EXCEPT ![r] = kept]
        /\ kept # Null => RedirectRulesHold(kept)
  <2>1. features[r] \in Features \cup {Null} /\ (features[r] # Null => RedirectRulesHold(features[r]))
    BY DEF IInv, TypeInv, TablesType, SettingsInv
  <2>2. CASE done /\ "features" \in DOMAIN p
    <3>1. features' = [features EXCEPT ![r] = WriteFeatures(InsertDefaults(features[r]), MergeFeatureFlags(seen.features, p.features))]
      BY <1>3, <2>2
    <3>2. Get(p, "features", << >>) = p.features
      BY <2>2 DEF Get
    <3>3. MergeFeatureFlags(seen.features, p.features) \in Features
      BY <1>4, <3>2, MergeTyped, PartTyped
    <3>4. RedirectRulesHold(MergeFeatureFlags(seen.features, p.features))
      BY <1>3, <3>2 DEF UpdateAllowed
    <3>5. QED BY <3>1, <3>3, <3>4 DEF WriteFeatures
  <2>3. CASE ~(done /\ "features" \in DOMAIN p)
    BY <1>3, <2>1, <2>3
  <2>4. QED BY <2>2, <2>3
<1>9. UNCHANGED <<notices, escalations, errands>> /\ Stir({r})
  BY DEF UpdateRestaurant
<1>10. TypeInv'
  <2>1. edits' \in 0..MaxEdits
    BY <1>1, EditCounts DEF UpdateRestaurant
  <2>2. QED BY <1>1, <1>6, <1>7, <1>8, <1>9, StirTyped, <2>1 DEF TypeInv, TablesType, TracesType
<1>11. CallsInv'
  <2>1. EditOf({r})
    BY <1>1, <1>6, <1>7, <1>8, <1>9, SwitchboardAssumption DEF EditOf, TypeInv, TablesType
  <2>2. QED BY <1>10, <2>1, Edited
<1>12. SettingsInv'
  <2>1. /\ restaurants'[r] = row /\ \A s \in Restaurants \ {r} : restaurants'[s] = restaurants[s]
        /\ features'[r] = kept /\ \A s \in Restaurants \ {r} : features'[s] = features[s]
    BY <1>1, <1>6, <1>8 DEF TypeInv, TablesType
  <2>2. \A s \in Restaurants \ {r} : (Reaches(s)' <=> Reaches(s)) /\ (IsLive(s)' <=> IsLive(s))
    BY <2>1 DEF Reaches, IsLive
  <2>3. blind \subseteq blind' /\ (seen.bad > 0 => r \in blind')
    BY <1>3
  <2>4. row.kill => Reaches(r)' \/ r \in blind'
    <3>1. CASE seen.bad = 0
      <4>1. seen.row = restaurants[r]
        BY <1>4, <3>1
      <4>2. row.kill => KillSwitchBlockers(row.forward, row.phone) = {}
        BY <1>3, <1>5, <4>1 DEF UpdateAllowed
      <4>3. row.kill => row.forward /\ row.phone # Null
        BY <4>2 DEF KillSwitchBlockers
      <4>4. row \notin {Null, Gone}
        BY SwitchboardAssumption
      <4>5. QED BY <2>1, <4>3, <4>4 DEF Reaches, IsLive
    <3>2. QED BY <1>4, <2>3, <3>1
  <2>5. \A s \in Restaurants : IsLive(s)' /\ restaurants'[s].kill => Reaches(s)' \/ s \in blind'
    BY <2>1, <2>2, <2>3, <2>4 DEF IInv, SettingsInv
  <2>6. \A s \in Restaurants : IsLive(s) /\ restaurants[s].number = row.number /\ row.number # Null => s = r
    <3>1. seen.row.number = restaurants[r].number
      BY <1>2, <1>4, DegradedTyped
    <3>2. row.number # restaurants[r].number => NumberFree(row.number, r)
      BY <1>3, <1>5, <3>1 DEF UpdateAllowed, Get
    <3>3. CASE row.number = restaurants[r].number
      BY <1>2, <3>3 DEF IInv, SettingsInv
    <3>4. CASE row.number # restaurants[r].number
      BY <1>1, <3>2, <3>4, LiveRows DEF NumberFree, ByNumber, TypeInv
    <3>5. QED BY <3>3, <3>4
  <2>7. \A s, t \in Restaurants :
          IsLive(s)' /\ IsLive(t)' /\ restaurants'[s].number = restaurants'[t].number
            /\ restaurants'[s].number # Null => s = t
    BY <2>1, <2>2, <2>6 DEF IInv, SettingsInv
  <2>8. \A s \in Restaurants : features'[s] # Null => IsLive(s)' /\ RedirectRulesHold(features'[s])
    <3>1. IsLive(r)'
      BY <2>1, SwitchboardAssumption DEF IsLive
    <3>2. QED BY <1>8, <2>1, <2>2, <3>1 DEF IInv, SettingsInv
  <2>9. QED BY <2>5, <2>7, <2>8 DEF SettingsInv
<1>13. QED BY <1>10, <1>11, <1>12 DEF IInv

LEMMA DeleteStep ==
  ASSUME IInv, NEW r \in Restaurants, DeleteRestaurant(r)
  PROVE  IInv'
<1>1. TypeInv
  BY DEF IInv
<1>2. /\ restaurants' = [restaurants EXCEPT ![r] = Gone] /\ features' = [features EXCEPT ![r] = Null]
      /\ UNCHANGED <<notices, escalations, errands, faults, blind>> /\ Stir({r})
  BY DEF DeleteRestaurant
<1>3. TypeInv'
  <2>1. edits' \in 0..MaxEdits
    BY <1>1, EditCounts DEF DeleteRestaurant
  <2>2. QED BY <1>1, <1>2, StirTyped, <2>1 DEF TypeInv, TablesType, TracesType
<1>4. EditOf({r})
  BY <1>1, <1>2, SwitchboardAssumption DEF EditOf, TypeInv, TablesType
<1>5. CallsInv'
  BY <1>3, <1>4, Edited
<1>6. SettingsInv'
  <2>1. /\ restaurants'[r] = Gone /\ \A s \in Restaurants \ {r} : restaurants'[s] = restaurants[s]
        /\ features'[r] = Null /\ \A s \in Restaurants \ {r} : features'[s] = features[s]
    BY <1>1, <1>2 DEF TypeInv, TablesType
  <2>2. \A s \in Restaurants \ {r} : (Reaches(s)' <=> Reaches(s)) /\ (IsLive(s)' <=> IsLive(s))
    BY <2>1 DEF Reaches, IsLive
  <2>3. ~IsLive(r)'
    BY <2>1 DEF IsLive
  <2>4. \A s \in Restaurants : IsLive(s)' /\ restaurants'[s].kill => Reaches(s)' \/ s \in blind'
    BY <1>2, <2>1, <2>2, <2>3 DEF IInv, SettingsInv
  <2>5. \A s, t \in Restaurants :
          IsLive(s)' /\ IsLive(t)' /\ restaurants'[s].number = restaurants'[t].number
            /\ restaurants'[s].number # Null => s = t
    BY <2>1, <2>2, <2>3 DEF IInv, SettingsInv
  <2>6. \A s \in Restaurants : features'[s] # Null => IsLive(s)' /\ RedirectRulesHold(features'[s])
    BY <2>1, <2>2 DEF IInv, SettingsInv
  <2>7. QED BY <2>4, <2>5, <2>6 DEF SettingsInv
<1>7. QED BY <1>3, <1>5, <1>6 DEF IInv
-----------------------------------------------------------------------------
(***************************************************************************)
(* The kill switch, its errands, and the notices.                          *)
(***************************************************************************)
LEMMA Added ==
  ASSUME NEW S, NEW s \in Seq(S), NEW x \in S
  PROVE  /\ Append(s, x) \in Seq(S) /\ Len(Append(s, x)) = Len(s) + 1
         /\ DOMAIN s = 1..Len(s) /\ DOMAIN Append(s, x) = 1..(Len(s) + 1)
         /\ Append(s, x)[Len(s) + 1] = x
         /\ \A k \in 1..Len(s) : Append(s, x)[k] = s[k]
  BY AppendProperties

LEMMA ToggledTyped ==
  ASSUME NEW r \in Restaurants, NEW on \in BOOLEAN, NEW bulk \in BOOLEAN
  PROVE  /\ Toggled(r, on, bulk) \in NoticeRow
         /\ Toggled(r, on, bulk).rest = r /\ Toggled(r, on, bulk).on = on
         /\ Toggled(r, on, bulk).kind = "kill_switch_toggled"
<1>1. Null \in Entities
  BY DEF Entities
<1>2. [rest |-> r, kind |-> "kill_switch_toggled", on |-> on, bulk |-> bulk, entity |-> Null, read |-> FALSE] \in NoticeRow
  BY <1>1 DEF NoticeRow, AnyNotice, NoticeKinds, Storable, SystemKinds
<1>3. QED BY <1>2 DEF Toggled, Notice

LEMMA SummaryTyped ==
  ASSUME NEW on \in BOOLEAN
  PROVE  Summary(on) \in NoticeRow /\ Summary(on).kind = "kill_switch_bulk_updated"
<1>1. Null \in Entities
  BY DEF Entities
<1>2. [rest |-> Null, kind |-> "kill_switch_bulk_updated", on |-> on, bulk |-> FALSE, entity |-> Null, read |-> FALSE] \in NoticeRow
  BY <1>1 DEF NoticeRow, AnyNotice, NoticeKinds, Storable, SystemKinds
<1>3. QED BY <1>2 DEF Summary, Notice

(* A finite set as a sequence. *)
LEMMA Listed ==
  ASSUME NEW S, IsFiniteSet(S)
  PROVE  /\ SetToSeq(S) \in [1..Cardinality(S) -> S] /\ IsInjective(SetToSeq(S))
         /\ Cardinality(S) \in Nat
         /\ \A x \in S : \E k \in 1..Cardinality(S) : SetToSeq(S)[k] = x
<1>1. Cardinality(S) \in Nat /\ ExistsBijection(1..Cardinality(S), S)
  BY FS_CardinalityType
<1>2. PICK f \in [1..Cardinality(S) -> S] : IsInjective(f)
  BY <1>1 DEF ExistsBijection, Bijection, Injection, IsInjective
<1>3. SetToSeq(S) \in [1..Cardinality(S) -> S] /\ IsInjective(SetToSeq(S))
  BY <1>2 DEF SetToSeq
<1>4. SetToSeq(S) \in Injection(1..Cardinality(S), S)
  BY <1>3 DEF Injection, IsInjective
<1>5. IsFiniteSet(1..Cardinality(S)) /\ Cardinality(1..Cardinality(S)) = Cardinality(S)
  BY <1>1, FS_Interval
<1>6. SetToSeq(S) \in Surjection(1..Cardinality(S), S)
  BY <1>4, <1>5, FS_Injection
<1>7. QED BY <1>1, <1>3, <1>6 DEF Surjection

(* What a bulk tells the restaurants of rs. *)
LEMMA BulkTyped ==
  ASSUME NEW rs \in SUBSET Restaurants, NEW on \in BOOLEAN
  PROVE  /\ IsFiniteSet({Toggled(r, on, TRUE) : r \in rs})
         /\ SetToSeq({Toggled(r, on, TRUE) : r \in rs}) \in Seq(NoticeRow)
<1> DEFINE S == {Toggled(r, on, TRUE) : r \in rs}
<1>1. IsFiniteSet(rs)
  BY FS_Subset, SwitchboardAssumption
<1>2. [r \in rs |-> Toggled(r, on, TRUE)] \in Surjection(rs, S)
  BY DEF Surjection
<1>3. IsFiniteSet(S)
  BY <1>1, <1>2, FS_Surjection
<1>4. S \subseteq NoticeRow
  <2>1. \A r \in rs : Toggled(r, on, TRUE) \in NoticeRow
    BY ToggledTyped
  <2>2. QED BY <2>1
<1>5. SetToSeq(S) \in [1..Cardinality(S) -> NoticeRow] /\ Cardinality(S) \in Nat
  BY <1>3, <1>4, Listed
<1>6. SetToSeq(S) \in Seq(NoticeRow)
  <2> HIDE DEF S
  <2>1. QED BY <1>5
<1>7. QED BY <1>3, <1>6

LEMMA SwitchTyped ==
  ASSUME TablesType, NEW rs \in SUBSET Live, NEW on \in BOOLEAN
  PROVE  /\ SetKillSwitch(rs, on) \in [Restaurants -> Row \cup {Null, Gone}]
         /\ \A r \in rs : /\ SetKillSwitch(rs, on)[r] \in Row /\ SetKillSwitch(rs, on)[r].kill = on
                          /\ SetKillSwitch(rs, on)[r].forward = restaurants[r].forward
                          /\ SetKillSwitch(rs, on)[r].phone = restaurants[r].phone
                          /\ SetKillSwitch(rs, on)[r].number = restaurants[r].number
         /\ \A r \in Restaurants \ rs : SetKillSwitch(rs, on)[r] = restaurants[r]
<1>1. \A r \in rs : r \in Restaurants /\ restaurants[r] \in Row
  BY LiveRows
<1>2. \A r \in rs : [restaurants[r] EXCEPT !.kill = on] \in Row
  BY <1>1 DEF Row
<1>3. ASSUME NEW r \in rs
      PROVE  /\ SetKillSwitch(rs, on)[r] \in Row /\ SetKillSwitch(rs, on)[r].kill = on
             /\ SetKillSwitch(rs, on)[r].forward = restaurants[r].forward
             /\ SetKillSwitch(rs, on)[r].phone = restaurants[r].phone
             /\ SetKillSwitch(rs, on)[r].number = restaurants[r].number
  <2>1. SetKillSwitch(rs, on)[r] = [restaurants[r] EXCEPT !.kill = on]
    BY <1>1 DEF SetKillSwitch
  <2>2. QED BY <1>1, <1>2, <2>1 DEF Row
<1>4. \A r \in Restaurants \ rs : SetKillSwitch(rs, on)[r] = restaurants[r]
  BY DEF SetKillSwitch
<1>5. \A r \in Restaurants : (IF r \in rs THEN [restaurants[r] EXCEPT !.kill = on] ELSE restaurants[r]) \in Row \cup {Null, Gone}
  BY <1>2 DEF TablesType
<1>6. SetKillSwitch(rs, on) \in [Restaurants -> Row \cup {Null, Gone}]
  BY <1>5 DEF SetKillSwitch
<1>7. QED BY <1>3, <1>4, <1>6

(* Switches that were set keep the rules of the settings. *)
LEMMA SwitchedRules ==
  ASSUME TypeInv, SettingsInv, NEW rs \in SUBSET Live, NEW on \in BOOLEAN,
         on => \A r \in rs : Reaches(r),
         restaurants' = SetKillSwitch(rs, on), UNCHANGED <<features, blind>>
  PROVE  SettingsInv'
<1>1. /\ \A r \in rs : /\ r \in Restaurants /\ IsLive(r) /\ restaurants'[r] \in Row /\ restaurants'[r].kill = on
                       /\ restaurants'[r].forward = restaurants[r].forward
                       /\ restaurants'[r].phone = restaurants[r].phone
                       /\ restaurants'[r].number = restaurants[r].number
      /\ \A r \in Restaurants \ rs : restaurants'[r] = restaurants[r]
  BY SwitchTyped, LiveRows DEF TypeInv
<1>2. \A r \in Restaurants : IsLive(r)' <=> IsLive(r)
  BY <1>1, SwitchboardAssumption DEF IsLive
<1>3. \A r \in Restaurants : Reaches(r)' <=> Reaches(r)
  BY <1>1, <1>2 DEF Reaches, IsLive
<1>4. \A r \in Restaurants : IsLive(r)' => restaurants'[r].number = restaurants[r].number
  BY <1>1, <1>2
<1>5. ASSUME NEW r \in Restaurants, IsLive(r)', restaurants'[r].kill PROVE Reaches(r)' \/ r \in blind'
  <2>1. CASE r \in rs
    BY <1>1, <1>3, <1>5, <2>1
  <2>2. CASE r \notin rs
    <3>1. restaurants'[r] = restaurants[r]
      BY <1>1, <2>2
    <3>2. QED BY <1>2, <1>3, <1>5, <3>1 DEF SettingsInv
  <2>3. QED BY <2>1, <2>2
<1>6. ASSUME NEW r \in Restaurants, NEW s \in Restaurants, IsLive(r)', IsLive(s)',
             restaurants'[r].number = restaurants'[s].number, restaurants'[r].number # Null
      PROVE  r = s
  BY <1>2, <1>4, <1>6 DEF SettingsInv
<1>7. \A r \in Restaurants : features'[r] # Null => IsLive(r)' /\ RedirectRulesHold(features'[r])
  BY <1>2 DEF SettingsInv
<1>8. QED BY <1>5, <1>6, <1>7 DEF SettingsInv

LEMMA SwitchStep ==
  ASSUME IInv, NEW r \in Restaurants, NEW on \in BOOLEAN, SetRestaurantKillSwitch(r, on)
  PROVE  IInv'
<1>1. TypeInv /\ r \in Live /\ restaurants[r] \in Row /\ IsLive(r)
  BY LiveRows DEF IInv, TypeInv, SetRestaurantKillSwitch
<1>2. PICK before \in Reads(r), current \in Reads(r) :
        /\ on => KillSwitchBlockers(current.row.forward, current.row.phone) = {}
        /\ LET asIs == current.row.kill = on
               table == IF asIs THEN restaurants ELSE SetKillSwitch({r}, on)
           IN \E after \in IF asIs THEN {[current EXCEPT !.bad = 0]}
                           ELSE ReadsOf(table[r], StoredFeatures(r)) \cup {[before EXCEPT !.bad = 2]} :
                LET bad == before.bad + current.bad + after.bad IN
                /\ Fault(bad)
                /\ restaurants' = table
                /\ misread' = (misread \/ bad > 0)
                /\ errands' = IF before.row.kill = after.row.kill THEN errands
                              ELSE Append(errands, << <<Toggled(r, after.row.kill, FALSE)>> >>)
  BY DEF SetRestaurantKillSwitch
<1>3. PICK table : table = IF current.row.kill = on THEN restaurants ELSE SetKillSwitch({r}, on)
  OBVIOUS
<1>4. PICK after \in IF current.row.kill = on THEN {[current EXCEPT !.bad = 0]}
                     ELSE ReadsOf(table[r], StoredFeatures(r)) \cup {[before EXCEPT !.bad = 2]} :
        /\ Fault(before.bad + current.bad + after.bad)
        /\ restaurants' = table
        /\ errands' = IF before.row.kill = after.row.kill THEN errands
                      ELSE Append(errands, << <<Toggled(r, after.row.kill, FALSE)>> >>)
  BY <1>2, <1>3
<1>5. StoredFeatures(r) \in Features
  BY <1>1, LiveRows DEF TypeInv
<1>6. /\ before.row \in Row /\ before.bad \in {0, 1}
      /\ current.row \in Row /\ current.bad \in {0, 1}
      /\ current.row = restaurants[r] \/ current.row = Degraded(restaurants[r])
  BY <1>1, <1>5, ReadsTyped DEF Reads
<1>7. DOMAIN before = {"row", "features", "bad"} /\ DOMAIN current = {"row", "features", "bad"}
  BY DEF Reads, ReadsOf
<1>8. on => Reaches(r)
  <2>1. on => current.row.forward /\ current.row.phone # Null
    BY <1>2 DEF KillSwitchBlockers
  <2>2. QED BY <1>1, <1>6, <2>1, DegradedTyped DEF Reaches
<1>9. {r} \in SUBSET Live
  BY <1>1
<1>10. after.row \in Row /\ after.bad \in Nat
  <2>1. CASE after = [current EXCEPT !.bad = 0]
    BY <1>6, <1>7, <2>1
  <2>2. CASE after = [before EXCEPT !.bad = 2]
    BY <1>6, <1>7, <2>2
  <2>3. CASE current.row.kill # on /\ after \in ReadsOf(table[r], StoredFeatures(r))
    <3>1. table[r] \in Row
      BY <1>1, <1>3, <1>9, <2>3, SwitchTyped DEF TypeInv
    <3>2. QED BY <1>5, <2>3, <3>1, ReadsTyped
  <2>4. QED BY <2>1, <2>2, <2>3
<1>11. faults' \in 0..MaxFaults /\ (faults' = 0 => faults = 0)
  BY <1>1, <1>4, <1>6, <1>10, FaultGrows DEF TypeInv
<1>12. UNCHANGED <<features, notices, escalations, blind>> /\ Stir({r})
  BY DEF SetRestaurantKillSwitch
<1>13. errands' \in Seq(Errand)
  <2>1. Toggled(r, after.row.kill, FALSE) \in NoticeRow
    BY <1>10, ToggledTyped DEF Row
  <2>2. PICK n \in NoticeRow : n = Toggled(r, after.row.kill, FALSE)
    BY <2>1
  <2>3. PICK errand \in Errand : errand = << <<n>> >>
    <3>1. <<n>> \in Seq(NoticeRow)
      OBVIOUS
    <3>2. << <<n>> >> \in Seq(Seq(NoticeRow)) /\ << <<n>> >> # << >>
      BY <3>1
    <3>3. QED BY <3>2 DEF Errand
  <2>4. errands' = errands \/ errands' = Append(errands, errand)
    <3>1. << <<Toggled(r, after.row.kill, FALSE)>> >> = errand
      BY <2>2, <2>3, Zenon
    <3>2. errands' = IF before.row.kill = after.row.kill THEN errands ELSE Append(errands, errand)
      BY <1>4, <3>1, Zenon
    <3>3. QED BY <3>2
  <2>5. errands \in Seq(Errand)
    BY <1>1 DEF TypeInv, TracesType
  <2>6. Append(errands, errand) \in Seq(Errand)
    BY <2>5, Added
  <2>7. QED BY <2>4, <2>5, <2>6
<1>14. /\ restaurants' \in [Restaurants -> Row \cup {Null, Gone}]
       /\ \A s \in Restaurants \ {r} : restaurants'[s] = restaurants[s]
       /\ restaurants'[r] \in Row
  <2>1. CASE table = restaurants
    BY <1>1, <1>4, <2>1 DEF TypeInv, TablesType
  <2>2. CASE table = SetKillSwitch({r}, on)
    <3>1. r \in {r} /\ TablesType
      BY <1>1 DEF TypeInv
    <3>2. /\ SetKillSwitch({r}, on) \in [Restaurants -> Row \cup {Null, Gone}]
          /\ SetKillSwitch({r}, on)[r] \in Row
          /\ \A s \in Restaurants \ {r} : SetKillSwitch({r}, on)[s] = restaurants[s]
      BY <1>9, <3>1, SwitchTyped
    <3>3. QED BY <1>4, <2>2, <3>2
  <2>3. QED BY <1>3, <2>1, <2>2
<1>15. TypeInv'
  <2>1. edits' \in 0..MaxEdits
    BY <1>1, EditCounts DEF SetRestaurantKillSwitch
  <2>2. QED BY <1>1, <1>11, <1>12, <1>13, <1>14, StirTyped, <2>1 DEF TypeInv, TablesType, TracesType
<1>16. CallsInv'
  <2>1. EditOf({r})
    BY <1>11, <1>12, <1>14, SwitchboardAssumption DEF EditOf
  <2>2. QED BY <1>15, <2>1, Edited
<1>17. SettingsInv'
  <2>1. CASE table = restaurants
    <3>1. restaurants' = restaurants
      BY <1>4, <2>1
    <3>2. \A s : (Reaches(s)' <=> Reaches(s)) /\ (IsLive(s)' <=> IsLive(s))
      BY <3>1 DEF Reaches, IsLive
    <3>3. QED BY <1>12, <3>1, <3>2 DEF IInv, SettingsInv
  <2>2. CASE table = SetKillSwitch({r}, on)
    BY <1>1, <1>4, <1>8, <1>9, <1>12, <2>2, SwitchedRules DEF IInv
  <2>3. QED BY <1>3, <2>1, <2>2
<1>18. QED BY <1>15, <1>16, <1>17 DEF IInv

LEMMA SwitchAllStep ==
  ASSUME IInv, NEW on \in BOOLEAN, SetAllKillSwitches(on)
  PROVE  IInv'
<1>1. TypeInv /\ faults' = faults
  BY DEF IInv, SetAllKillSwitches
<1>2. PICK rs \in SUBSET Live : rs = WouldChange(on, on)
  BY DEF WouldChange, RedirectReady
<1>3. rs \in SUBSET Restaurants
  BY DEF Live
<1>4. restaurants' = SetKillSwitch(rs, on) /\ Stir(rs) /\ UNCHANGED <<features, notices, escalations, blind>>
  BY <1>2 DEF SetAllKillSwitches
<1>5. on => \A r \in rs : Reaches(r)
  BY <1>2 DEF WouldChange, RedirectReady, Live, Reaches, IsLive
<1>6. PICK told \in SUBSET Restaurants :
        errands' = Append(errands, (IF told = {} THEN << >> ELSE << SetToSeq({Toggled(r, on, TRUE) : r \in told}) >>)
                                    \o << <<Summary(on)>> >>)
  <2>1. CASE on /\ Cardinality(Live) - Cardinality(InvalidForSwitch) = 0
    <3>1. {} \in SUBSET Restaurants
      OBVIOUS
    <3>2. QED BY <2>1, <3>1 DEF SetAllKillSwitches
  <2>2. CASE ~(on /\ Cardinality(Live) - Cardinality(InvalidForSwitch) = 0)
    BY <1>2, <1>3, <2>2 DEF SetAllKillSwitches
  <2>3. QED BY <2>1, <2>2
<1>7. errands' \in Seq(Errand)
  <2>1. PICK bulk \in Seq(NoticeRow) : bulk = SetToSeq({Toggled(r, on, TRUE) : r \in told})
    BY BulkTyped
  <2>2. Summary(on) \in NoticeRow
    BY SummaryTyped
  <2>3. (IF told = {} THEN << >> ELSE <<bulk>>) \in Seq(Seq(NoticeRow)) /\ << <<Summary(on)>> >> \in Seq(Seq(NoticeRow))
    BY <2>1, <2>2
  <2>4. (IF told = {} THEN << >> ELSE <<bulk>>) \o << <<Summary(on)>> >> \in Errand
    <3>1. PICK s \in Seq(Seq(NoticeRow)), t \in Seq(Seq(NoticeRow)) :
            s = (IF told = {} THEN << >> ELSE <<bulk>>) /\ t = << <<Summary(on)>> >>
      BY <2>3
    <3>2. s \o t \in Seq(Seq(NoticeRow)) /\ Len(s \o t) = Len(s) + Len(t) /\ Len(t) = 1 /\ Len(s) \in Nat
      BY <3>1, ConcatProperties
    <3>3. s \o t # << >>
      BY <3>2
    <3>4. QED BY <3>1, <3>2, <3>3 DEF Errand
  <2>5. errands' = Append(errands, (IF told = {} THEN << >> ELSE <<bulk>>) \o << <<Summary(on)>> >>)
    BY <1>6, <2>1
  <2>6. PICK errand \in Errand : errand = (IF told = {} THEN << >> ELSE <<bulk>>) \o << <<Summary(on)>> >>
    BY <2>4
  <2>7. errands' = Append(errands, errand) /\ errands \in Seq(Errand)
    BY <1>1, <2>5, <2>6 DEF TypeInv, TracesType
  <2>8. QED BY <2>7, Added
<1>8. /\ restaurants' \in [Restaurants -> Row \cup {Null, Gone}]
      /\ \A s \in Restaurants \ rs : restaurants'[s] = restaurants[s]
      /\ \A s \in rs : restaurants'[s] \in Row
  BY <1>1, <1>4, SwitchTyped DEF TypeInv
<1>9. TypeInv'
  <2>1. edits' \in 0..MaxEdits
    BY <1>1, EditCounts DEF SetAllKillSwitches
  <2>2. QED BY <1>1, <1>4, <1>7, <1>8, StirTyped, <2>1 DEF TypeInv, TablesType, TracesType
<1>10. CallsInv'
  <2>1. EditOf(rs)
    BY <1>1, <1>4, <1>8, SwitchboardAssumption DEF EditOf
  <2>2. QED BY <1>3, <1>9, <2>1, Edited
<1>11. SettingsInv'
  BY <1>1, <1>4, <1>5, SwitchedRules DEF IInv
<1>12. QED BY <1>9, <1>10, <1>11 DEF IInv
(* What a step of no call leaves of the types. *)
LEMMA QuietTypes ==
  ASSUME TypeInv, UNCHANGED <<settings, calls>>, faults' \in 0..MaxFaults, edits' \in 0..MaxEdits, TracesType'
  PROVE  TypeInv'
  BY DEF TypeInv, TablesType, CallsType, settings

LEMMA MarkReadStep ==
  ASSUME IInv, NEW r \in Restaurants, NEW n \in DOMAIN notices, MarkNotificationRead(r, n)
  PROVE  IInv'
<1>1. /\ notices' = [notices EXCEPT ![n].read = TRUE] /\ Edit
      /\ UNCHANGED <<settings, escalations, errands, calls, faults>>
  BY DEF MarkNotificationRead
<1>2. TypeInv /\ notices \in Seq(NoticeRow)
  BY DEF IInv, TypeInv, TracesType
<1>3. notices[n] \in NoticeRow
  BY <1>2
<1>4. [notices[n] EXCEPT !.read = TRUE] \in NoticeRow
  BY <1>3 DEF NoticeRow, AnyNotice, Storable
<1>5. notices' \in Seq(NoticeRow)
  BY <1>1, <1>2, <1>4
<1>6. TypeInv'
  <2>1. edits' \in 0..MaxEdits /\ faults' \in 0..MaxFaults
    BY <1>1, <1>2, EditCounts DEF TypeInv, TablesType
  <2>2. QED BY <1>1, <1>2, <1>5, <2>1, QuietTypes DEF TypeInv, TracesType
<1>7. NoticesKept
  BY <1>1, <1>2, <1>3 DEF NoticesKept, NoticeRow, AnyNotice
<1>8. QED BY <1>1, <1>6, <1>7, NoCall, EscalationsSame

LEMMA MarkAllStep ==
  ASSUME IInv, NEW r \in Restaurants, NEW system \in BOOLEAN, MarkAllRead(r, system)
  PROVE  IInv'
<1>1. /\ notices' = [n \in DOMAIN notices |->
           IF n \in InboxOf(r) /\ (system => notices[n].kind \in SystemKinds)
           THEN [notices[n] EXCEPT !.read = TRUE] ELSE notices[n]]
      /\ Edit /\ UNCHANGED <<settings, escalations, errands, calls, faults>>
  BY DEF MarkAllRead
<1>2. TypeInv /\ notices \in Seq(NoticeRow)
  BY DEF IInv, TypeInv, TracesType
<1>3. \A n \in DOMAIN notices :
        /\ [notices[n] EXCEPT !.read = TRUE] \in NoticeRow
        /\ [notices[n] EXCEPT !.read = TRUE].rest = notices[n].rest
        /\ [notices[n] EXCEPT !.read = TRUE].entity = notices[n].entity
  <2>1. \A n \in DOMAIN notices : notices[n] \in NoticeRow
    BY <1>2
  <2>2. QED BY <2>1 DEF NoticeRow, AnyNotice, Storable
<1>4. notices' \in Seq(NoticeRow)
  <2>1. \A n \in DOMAIN notices : notices[n] \in NoticeRow
    BY <1>2
  <2>2. notices' \in [DOMAIN notices -> NoticeRow]
    BY <1>1, <1>3, <2>1
  <2>3. DOMAIN notices = 1..Len(notices) /\ Len(notices) \in Nat
    BY <1>2
  <2>4. QED BY <2>2, <2>3
<1>5. TypeInv'
  <2>1. edits' \in 0..MaxEdits /\ faults' \in 0..MaxFaults
    BY <1>1, <1>2, EditCounts DEF TypeInv, TablesType
  <2>2. QED BY <1>1, <1>2, <1>4, <2>1, QuietTypes DEF TypeInv, TracesType
<1>6. NoticesKept
  BY <1>1, <1>3 DEF NoticesKept
<1>7. QED BY <1>1, <1>5, <1>6, NoCall, EscalationsSame

LEMMA StaffStep ==
  ASSUME IInv, NEW who, NEW e \in DOMAIN escalations, NEW status \in Statuses, UpdateEscalationStatus(who, e, status)
  PROVE  IInv'
<1>1. /\ escalations' = [escalations EXCEPT ![e].status = status, ![e].staff = TRUE]
      /\ Edit /\ UNCHANGED <<settings, notices, errands, calls, faults>>
  BY DEF UpdateEscalationStatus
<1>2. TypeInv /\ escalations \in Seq(EscalationRow)
  BY DEF IInv, TypeInv, TracesType
<1>3. PICK row \in EscalationRow : /\ row = [escalations[e] EXCEPT !.status = status, !.staff = TRUE]
                                   /\ row.call = escalations[e].call /\ row.rest = escalations[e].rest /\ row.staff
  <2>1. escalations[e] \in EscalationRow
    BY <1>2
  <2>2. PICK row : row = [escalations[e] EXCEPT !.status = status, !.staff = TRUE]
    OBVIOUS
  <2>3. row \in EscalationRow /\ row.call = escalations[e].call /\ row.rest = escalations[e].rest /\ row.staff
    BY <2>1, <2>2 DEF EscalationRow
  <2>4. QED BY <2>2, <2>3
<1>4. escalations' = [escalations EXCEPT ![e] = row]
  BY <1>1, <1>2, <1>3
<1>5. escalations' \in Seq(EscalationRow) /\ DOMAIN escalations' = DOMAIN escalations
  BY <1>2, <1>4
<1>6. TypeInv'
  <2>1. edits' \in 0..MaxEdits /\ faults' \in 0..MaxFaults
    BY <1>1, <1>2, EditCounts DEF TypeInv, TablesType
  <2>2. QED BY <1>1, <1>2, <1>5, <2>1, QuietTypes DEF TypeInv, TracesType
<1>7. \A c \in Calls : EscalationsKept(c)
  BY <1>3, <1>4, <1>5 DEF EscalationsKept, Its
<1>8. QED BY <1>1, <1>6, <1>7, NoCall, NoticesSame

LEMMA Removed ==
  ASSUME NEW S, NEW s \in Seq(S), NEW i \in DOMAIN s
  PROVE  /\ RemoveAt(s, i) \in Seq(S) /\ Len(RemoveAt(s, i)) = Len(s) - 1
         /\ \A k \in 1..(Len(s) - 1) : RemoveAt(s, i)[k] = IF k < i THEN s[k] ELSE s[k + 1]
<1>1. i \in 1..Len(s) /\ Len(s) \in Nat
  OBVIOUS
<1>2. /\ SubSeq(s, 1, i - 1) \in Seq(S) /\ Len(SubSeq(s, 1, i - 1)) = i - 1
      /\ \A k \in 1..(i - 1) : SubSeq(s, 1, i - 1)[k] = s[k]
  BY <1>1, SubSeqProperties
<1>3. /\ SubSeq(s, i + 1, Len(s)) \in Seq(S) /\ Len(SubSeq(s, i + 1, Len(s))) = Len(s) - i
      /\ \A k \in 1..(Len(s) - i) : SubSeq(s, i + 1, Len(s))[k] = s[k + i]
  BY <1>1, SubSeqProperties
<1>4. PICK u \in Seq(S), v \in Seq(S) : u = SubSeq(s, 1, i - 1) /\ v = SubSeq(s, i + 1, Len(s))
  BY <1>2, <1>3
<1>5. RemoveAt(s, i) = u \o v
  BY <1>4 DEF RemoveAt
<1>6. /\ u \o v \in Seq(S) /\ Len(u \o v) = Len(s) - 1
      /\ \A k \in 1..(Len(s) - 1) : (u \o v)[k] = IF k <= i - 1 THEN u[k] ELSE v[k - (i - 1)]
  <2>1. /\ u \o v \in Seq(S) /\ Len(u \o v) = Len(u) + Len(v)
        /\ \A k \in 1..(Len(u) + Len(v)) : (u \o v)[k] = IF k <= Len(u) THEN u[k] ELSE v[k - Len(u)]
    BY ConcatProperties
  <2>2. Len(u) = i - 1 /\ Len(u) + Len(v) = Len(s) - 1
    <3>1. Len(u) = i - 1 /\ Len(v) = Len(s) - i
      BY <1>2, <1>3, <1>4, Zenon
    <3>2. \A m, n \in Int : (n - 1) + (m - n) = m - 1
      OBVIOUS
    <3>3. i \in Int /\ Len(s) \in Int
      BY <1>1
    <3>4. QED BY <3>1, <3>2, <3>3
  <2>3. QED BY <2>1, <2>2
<1>7. ASSUME NEW k \in 1..(Len(s) - 1) PROVE (u \o v)[k] = IF k < i THEN s[k] ELSE s[k + 1]
  <2>1. CASE k < i
    BY <1>1, <1>2, <1>4, <1>6, <2>1
  <2>2. CASE ~(k < i)
    <3>1. k - (i - 1) \in 1..(Len(s) - i) /\ (k - (i - 1)) + i = k + 1 /\ ~(k <= i - 1)
      BY <1>1, <2>2
    <3>2. v[k - (i - 1)] = s[k + 1]
      BY <1>3, <1>4, <3>1
    <3>3. (u \o v)[k] = v[k - (i - 1)]
      BY <1>6, <3>1
    <3>4. QED BY <2>2, <3>2, <3>3
  <2>3. QED BY <2>1, <2>2
<1>8. QED BY <1>5, <1>6, <1>7

LEMMA TellStep ==
  ASSUME IInv, NEW i \in DOMAIN errands, Tell(i)
  PROVE  IInv'
<1>1. TypeInv /\ errands \in Seq(Errand) /\ notices \in Seq(NoticeRow)
  BY DEF IInv, TypeInv, TracesType
<1>2. errands[i] \in Seq(Seq(NoticeRow)) /\ errands[i] # << >>
  BY <1>1 DEF Errand
<1>3. PICK batch \in Seq(NoticeRow), left \in Seq(Seq(NoticeRow)) : batch = Head(errands[i]) /\ left = Tail(errands[i])
  BY <1>2, HeadTailProperties
<1>4. /\ errands' = IF left = << >> THEN RemoveAt(errands, i) ELSE [errands EXCEPT ![i] = left]
      /\ \/ notices' = notices \o Stored(batch) /\ UNCHANGED faults
         \/ Fault(1) /\ UNCHANGED notices
      /\ UNCHANGED <<settings, escalations, calls, edits>>
  BY <1>3 DEF Tell
<1>5. errands' \in Seq(Errand)
  <2>1. CASE left = << >>
    BY <1>1, <1>4, <2>1, Removed
  <2>2. CASE left # << >>
    <3>1. left \in Errand
      BY <2>2 DEF Errand
    <3>2. QED BY <1>1, <1>4, <2>2, <3>1
  <2>3. QED BY <2>1, <2>2
<1>6. notices' \in Seq(NoticeRow) /\ NoticesKept
  <2>1. CASE notices' = notices \o Stored(batch)
    <3>1. Stored(batch) \in Seq(NoticeRow)
      BY DEF Stored
    <3>2. PICK more \in Seq(NoticeRow) : more = Stored(batch)
      BY <3>1
    <3>3. /\ notices \o more \in Seq(NoticeRow) /\ Len(notices \o more) = Len(notices) + Len(more)
          /\ \A k \in 1..(Len(notices) + Len(more)) :
               (notices \o more)[k] = IF k <= Len(notices) THEN notices[k] ELSE more[k - Len(notices)]
      BY <1>1, ConcatProperties
    <3>4. /\ notices' \in Seq(NoticeRow) /\ Len(notices) \in Nat /\ DOMAIN notices = 1..Len(notices)
          /\ \A k \in 1..Len(notices) : k \in 1..Len(notices') /\ notices'[k] = notices[k]
      BY <1>1, <2>1, <3>2, <3>3
    <3>5. \A k \in DOMAIN notices : k \in DOMAIN notices' /\ notices'[k] = notices[k]
      BY <3>4
    <3>6. QED BY <3>4, <3>5 DEF NoticesKept
  <2>2. CASE notices' = notices
    BY <1>1, <2>2, NoticesSame
  <2>3. QED BY <1>4, <2>1, <2>2
<1>7. faults' \in 0..MaxFaults /\ (faults' = 0 => faults = 0)
  <2>1. CASE Fault(1)
    BY <1>1, <2>1, FaultGrows DEF TypeInv
  <2>2. CASE faults' = faults
    BY <1>1, <2>2 DEF TypeInv, TablesType
  <2>3. QED BY <1>4, <2>1, <2>2
<1>8. TypeInv'
  BY <1>1, <1>4, <1>5, <1>6, <1>7, QuietTypes DEF TypeInv, TracesType
<1>9. QED BY <1>4, <1>6, <1>7, <1>8, NoCall, EscalationsSame
-----------------------------------------------------------------------------
(***************************************************************************)
(* The calls.                                                              *)
(***************************************************************************)
LEMMA PutStep ==
  ASSUME IInv, NEW c \in Calls, NEW call \in CallRow, Put(c, call), UNCHANGED <<settings, edits>>,
         TracesType', faults' \in 0..MaxFaults, faults' = 0 => faults = 0, NoticesKept,
         \A d \in Calls \ {c} : EscalationsKept(d)
  PROVE  TypeInv' /\ StepOf(c) /\ calls'[c] = call
<1>1. TypeInv
  BY DEF IInv
<1>2. calls' = [calls EXCEPT ![c] = call] /\ calls \in [Calls -> CallRow]
  BY <1>1 DEF Put, TypeInv, CallsType
<1>3. CallsType' /\ calls'[c] = call /\ \A d \in Calls \ {c} : calls'[d] = calls[d]
  BY <1>2 DEF CallsType
<1>4. TypeInv'
  BY <1>1, <1>3 DEF TypeInv, TablesType, settings
<1>5. StepOf(c)
  BY <1>3 DEF StepOf
<1>6. QED BY <1>3, <1>4, <1>5

(* A step that writes no row, and leaves no errand. *)
LEMMA SilentStep ==
  ASSUME IInv, NEW c \in Calls, NEW call \in CallRow, Put(c, call), UNCHANGED <<settings, escalations, notices, errands, edits>>,
         faults' \in 0..MaxFaults, faults' = 0 => faults = 0
  PROVE  /\ TypeInv' /\ StepOf(c) /\ calls'[c] = call
         /\ UNCHANGED <<restaurants, features>> /\ EscalationsKept(c) /\ NoticesKept
<1>1. TracesType'
  BY DEF IInv, TypeInv, TracesType
<1>2. \A d \in Calls : EscalationsKept(d)
  BY EscalationsSame
<1>3. UNCHANGED <<restaurants, features>>
  BY DEF settings
<1>4. QED BY <1>1, <1>2, <1>3, PutStep, NoticesSame

LEMMA ItsCall ==
  ASSUME IInv, NEW c \in Calls
  PROVE  calls[c] \in CallRow /\ CallInv(c) /\ TablesType /\ CallsType
  BY DEF IInv, TypeInv, CallsType, CallsInv

(* A new escalation of a call. *)
LEMMA Raised ==
  ASSUME TypeInv, NEW c \in Calls, calls[c].rest \in Restaurants, escalations' = Raise(c)
  PROVE  /\ escalations' \in Seq(EscalationRow)
         /\ \E n \in Nat \ {0} : /\ n = Len(escalations) + 1 /\ n \in DOMAIN escalations'
                               /\ Its(c, n)' /\ escalations'[n].rest = calls[c].rest
         /\ \A e \in DOMAIN escalations : e \in DOMAIN escalations' /\ escalations'[e] = escalations[e]
         /\ \A d \in Calls \ {c} : EscalationsKept(d)
<1> DEFINE row == [call |-> c, rest |-> calls[c].rest, status |-> "raised", staff |-> FALSE]
<1>1. row \in EscalationRow /\ row.call = c /\ row.rest = calls[c].rest
  BY DEF EscalationRow, Statuses
<1>2. escalations \in Seq(EscalationRow) /\ escalations' = Append(escalations, row)
  BY DEF TypeInv, TracesType, Raise
<1> HIDE DEF row
<1>3. /\ escalations' \in Seq(EscalationRow) /\ Len(escalations) \in Nat
      /\ DOMAIN escalations = 1..Len(escalations) /\ DOMAIN escalations' = 1..(Len(escalations) + 1)
      /\ escalations'[Len(escalations) + 1] = row
      /\ \A e \in DOMAIN escalations : escalations'[e] = escalations[e]
  BY <1>1, <1>2, Added
<1>4. PICK n \in Nat : n = Len(escalations)
  BY <1>3
<1>5. n + 1 \in DOMAIN escalations' /\ escalations'[n + 1].call = c /\ escalations'[n + 1].rest = calls[c].rest
  BY <1>1, <1>3, <1>4
<1>6. Its(c, n + 1)'
  BY <1>5 DEF Its
<1>7. \A e \in DOMAIN escalations : e \in DOMAIN escalations' /\ escalations'[e] = escalations[e]
  BY <1>3
<1>8. \A e \in DOMAIN escalations' : e \in DOMAIN escalations \/ e = n + 1
  BY <1>3, <1>4
<1>9. \A d \in Calls \ {c} : EscalationsKept(d)
  BY <1>5, <1>7, <1>8 DEF EscalationsKept, Its
<1>10. n + 1 \in Nat \ {0} /\ n + 1 = Len(escalations) + 1
  BY <1>4
<1>11. QED BY <1>3, <1>5, <1>6, <1>7, <1>9, <1>10

(* The status of an escalation of a call. *)
LEMMA Rewritten ==
  ASSUME TypeInv, NEW c \in Calls, NEW e \in DOMAIN escalations, Its(c, e), NEW status \in Statuses,
         escalations' = WriteStatus(e, status)
  PROVE  /\ escalations' \in Seq(EscalationRow) /\ DOMAIN escalations' = DOMAIN escalations
         /\ escalations'[e].status = status
         /\ \A d \in Calls : \A k \in DOMAIN escalations : Its(d, k)' <=> Its(d, k)
         /\ \A d \in Calls \ {c} : EscalationsKept(d)
<1>1. escalations \in Seq(EscalationRow) /\ escalations' = [escalations EXCEPT ![e].status = status]
  BY DEF TypeInv, TracesType, WriteStatus
<1>2. escalations[e] \in EscalationRow
  BY <1>1
<1>3. PICK row : row = [escalations[e] EXCEPT !.status = status]
  OBVIOUS
<1>4. row \in EscalationRow /\ row.status = status /\ row.call = escalations[e].call
  BY <1>2, <1>3 DEF EscalationRow
<1>5. escalations' = [escalations EXCEPT ![e] = row]
  BY <1>1, <1>3
<1>6. escalations' \in Seq(EscalationRow) /\ DOMAIN escalations' = DOMAIN escalations
  BY <1>1, <1>4, <1>5
<1>7. escalations'[e] = row /\ \A k \in DOMAIN escalations \ {e} : escalations'[k] = escalations[k]
  BY <1>1, <1>5
<1>8. \A d \in Calls : \A k \in DOMAIN escalations : Its(d, k)' <=> Its(d, k)
  BY <1>4, <1>6, <1>7 DEF Its
<1>9. \A d \in Calls \ {c} : EscalationsKept(d)
  BY <1>6, <1>7, <1>8 DEF EscalationsKept, Its
<1>10. QED BY <1>4, <1>6, <1>7, <1>8, <1>9

(* A new notice. *)
LEMMA Noticed ==
  ASSUME TypeInv, NEW n \in NoticeRow, notices' = Append(notices, n)
  PROVE  /\ notices' \in Seq(NoticeRow) /\ NoticesKept
         /\ \E k \in DOMAIN notices' : notices'[k] = n
<1>1. notices \in Seq(NoticeRow)
  BY DEF TypeInv, TracesType
<1>2. /\ notices' \in Seq(NoticeRow) /\ DOMAIN notices = 1..Len(notices)
      /\ DOMAIN notices' = 1..(Len(notices) + 1) /\ notices'[Len(notices) + 1] = n
      /\ \A k \in 1..Len(notices) : notices'[k] = notices[k]
  BY <1>1, Added
<1>3. Len(notices) \in Nat
  BY <1>1
<1>4. Len(notices) + 1 \in DOMAIN notices' /\ DOMAIN notices \subseteq DOMAIN notices'
  BY <1>2, <1>3
<1>5. NoticesKept
  BY <1>2, <1>4 DEF NoticesKept
<1>6. QED BY <1>2, <1>4, <1>5

LEMMA NoticeTyped ==
  ASSUME NEW r \in Restaurants, NEW kind \in NoticeKinds, NEW entity \in Entities
  PROVE  /\ Notice(r, kind, TRUE, FALSE, entity) \in NoticeRow
         /\ Notice(r, kind, TRUE, FALSE, entity).rest = r /\ Notice(r, kind, TRUE, FALSE, entity).entity = entity
<1>1. PICK n : n = [rest |-> r, kind |-> kind, on |-> TRUE, bulk |-> FALSE, entity |-> entity, read |-> FALSE]
  OBVIOUS
<1>2. n \in AnyNotice /\ n.rest = r /\ n.entity = entity
  BY <1>1 DEF AnyNotice
<1>3. Storable(n)
  BY <1>2, SwitchboardAssumption DEF Storable
<1>4. QED BY <1>1, <1>2, <1>3 DEF Notice, NoticeRow

LEMMA EntityTyped ==
  ASSUME NEW call, call.esc \in Nat, NEW c \in Calls
  PROVE  EntityOf(call, c) \in Entities
  BY DEF EntityOf, Entities
LEMMA VoiceStep ==
  ASSUME IInv, NEW c \in Calls, NEW n \in Numbers, Voice(c, n)
  PROVE  IInv'
<1>1. PICK r \in Found(n) : \E seen \in RowReads(r) :
        /\ Fault(seen.bad)
        /\ Put(c, IF Forwards(seen.row) /\ seen.row.kill
                  THEN [calls[c] EXCEPT !.st = "user", !.rest = r, !.number = n, !.dialled = seen.row.phone]
                  ELSE [calls[c] EXCEPT !.st = "stream", !.rest = r, !.number = n])
  BY DEF Voice
<1>2. PICK seen \in RowReads(r) :
        /\ Fault(seen.bad)
        /\ Put(c, IF Forwards(seen.row) /\ seen.row.kill
                  THEN [calls[c] EXCEPT !.st = "user", !.rest = r, !.number = n, !.dialled = seen.row.phone]
                  ELSE [calls[c] EXCEPT !.st = "stream", !.rest = r, !.number = n])
  BY <1>1
<1>3. calls[c].st = "new" /\ UNCHANGED <<settings, notices, escalations, errands, edits>>
  BY DEF Voice
<1>4. calls[c] \in CallRow /\ CallInv(c) /\ TablesType /\ calls[c] = NewCall
  BY <1>3, ItsCall DEF CallInv, Fresh
<1>5. r \in Restaurants \cup {Null} /\ (r # Null => IsLive(r) /\ restaurants[r].number = n)
  BY <1>4, LiveRows DEF Found, ByNumber
<1>6. /\ seen.bad \in Nat
      /\ Forwards(seen.row) => r \in Restaurants /\ seen.row.phone # Null /\ seen.row.phone \in Phones
  BY <1>4, <1>5, RowReadsTyped
<1>7. faults' \in 0..MaxFaults /\ (faults' = 0 => faults = 0)
  BY <1>2, <1>4, <1>6, FaultGrows
<1>8. PICK call \in CallRow :
        /\ Put(c, call)
        /\ call.st \in {"user", "stream"} /\ call.rest = r /\ call.number = n /\ call.told = "nothing"
        /\ call.row = "none" /\ call.setup = Null /\ call.esc = 0
        /\ call.st = "user" => call.dialled # Null /\ r # Null
        /\ call.st = "stream" => call.dialled = Null
  <2>1. CASE Forwards(seen.row) /\ seen.row.kill
    <3>1. PICK phone \in Phones : phone = seen.row.phone /\ phone # Null
      BY <1>6, <2>1
    <3>2. PICK call : call = [calls[c] EXCEPT !.st = "user", !.rest = r, !.number = n, !.dialled = phone]
      OBVIOUS
    <3>3. Put(c, call)
      BY <1>2, <2>1, <3>1, <3>2
    <3>4. call \in CallRow
      BY <1>4, <1>5, <3>2 DEF CallRow, Places, Staffed
    <3>5. /\ call.st = "user" /\ call.rest = r /\ call.number = n /\ call.told = "nothing" /\ call.row = "none"
          /\ call.setup = Null /\ call.esc = 0 /\ call.dialled = phone
      BY <1>4, <3>2 DEF NewCall
    <3>6. QED BY <1>6, <2>1, <3>1, <3>3, <3>4, <3>5, SwitchboardAssumption
  <2>2. CASE ~(Forwards(seen.row) /\ seen.row.kill)
    <3>1. PICK call : call = [calls[c] EXCEPT !.st = "stream", !.rest = r, !.number = n]
      OBVIOUS
    <3>2. Put(c, call)
      BY <1>2, <2>2, <3>1
    <3>3. call \in CallRow
      BY <1>4, <1>5, <3>1 DEF CallRow, Places
    <3>4. /\ call.st = "stream" /\ call.rest = r /\ call.number = n /\ call.told = "nothing" /\ call.row = "none"
          /\ call.setup = Null /\ call.esc = 0 /\ call.dialled = Null
      BY <1>4, <3>1 DEF NewCall
    <3>5. QED BY <3>2, <3>3, <3>4
  <2>3. QED BY <2>1, <2>2
<1>9. /\ TypeInv' /\ StepOf(c) /\ calls'[c] = call
      /\ UNCHANGED <<restaurants, features>> /\ EscalationsKept(c) /\ NoticesKept
  BY <1>3, <1>7, <1>8, SilentStep
<1>10. Homed(c)' /\ Fresh(c)'
  <2>1. n # Null
    BY SwitchboardAssumption
  <2>2. r # Null => restaurants[r] # Null /\ Answers(restaurants[r], n)
    BY <1>5 DEF IsLive, Answers
  <2>3. QED BY <1>8, <1>9, <2>1, <2>2 DEF Homed, Fresh, Staffed, Answers
<1>11. Promise(c)'
  BY <1>8, <1>9 DEF Promise
<1>12. Rows(c)'
  <2>1. \A e \in DOMAIN escalations : ~Its(c, e)
    BY <1>4 DEF CallInv, Rows, NewCall
  <2>2. \A e \in DOMAIN escalations' : ~Its(c, e)'
    BY <1>9, <2>1 DEF EscalationsKept, Its
  <2>3. ~Bypassed(c)'
    BY <1>8, <1>9 DEF Bypassed
  <2>4. QED BY <1>8, <1>9, <2>2, <2>3 DEF Rows, Talking, Staffed
<1>13. Equipped(c)'
  BY <1>8, <1>9 DEF Equipped
<1>14. CallInv(c)'
  BY <1>10, <1>11, <1>12, <1>13 DEF CallInv
<1>15. QED BY <1>9, <1>14, OneCall

(* The stream of a call ends, or never was. *)
LEMMA LeaveStep ==
  ASSUME IInv, NEW c \in Calls, calls[c].st \in {"stream", "agent"}, Put(c, [calls[c] EXCEPT !.st = "left"]),
         UNCHANGED <<settings, notices, escalations, errands, edits>>,
         faults' \in 0..MaxFaults, faults' = 0 => faults = 0
  PROVE  IInv'
<1>1. calls[c] \in CallRow /\ CallInv(c) /\ TablesType
  BY ItsCall
<1>2. /\ calls[c].told \notin {"connect", "transfer"} /\ calls[c].dialled = Null /\ calls[c].row # "agent_bypassed"
      /\ calls[c].row = "escalated" => calls[c].told # "nothing"
  BY <1>1 DEF CallInv, Promise, Rows, Talking
<1>3. PICK call : call = [calls[c] EXCEPT !.st = "left"]
  OBVIOUS
<1>4. call \in CallRow
  BY <1>1, <1>3 DEF CallRow, Places
<1>5. /\ call.st = "left" /\ call.row = calls[c].row /\ call.setup = calls[c].setup /\ call.dialled = Null
      /\ call.rest = calls[c].rest /\ call.number = calls[c].number /\ call.told = calls[c].told
      /\ call.moved = calls[c].moved /\ call.esc = calls[c].esc
  BY <1>1, <1>2, <1>3 DEF CallRow
<1>6. /\ TypeInv' /\ StepOf(c) /\ calls'[c] = call
      /\ UNCHANGED <<restaurants, features>> /\ EscalationsKept(c) /\ NoticesKept
  BY <1>3, <1>4, SilentStep
<1>7. Homed(c)' /\ Fresh(c)'
  BY <1>1, <1>2, <1>5, <1>6 DEF CallInv, Homed, Fresh, Answers, Staffed
<1>8. Promise(c)'
  BY <1>2, <1>5, <1>6 DEF Promise
<1>9. Rows(c)'
  <2>1. ~Bypassed(c)'
    BY <1>5, <1>6 DEF Bypassed
  <2>2. call.row = "none" => \A e \in DOMAIN escalations' : ~Its(c, e)'
    BY <1>1, <1>5, <1>6 DEF CallInv, Rows, EscalationsKept, Its
  <2>3. call.esc # 0 => call.esc \in DOMAIN escalations'
    BY <1>1, <1>5 DEF CallInv, Rows
  <2>4. QED BY <1>2, <1>5, <1>6, <2>1, <2>2, <2>3 DEF Rows, Talking, Staffed
<1>10. Equipped(c)'
  BY <1>1, <1>2, <1>5, <1>6 DEF CallInv, Equipped, Talking
<1>11. CallInv(c)'
  BY <1>7, <1>8, <1>9, <1>10 DEF CallInv
<1>12. QED BY <1>6, <1>11, OneCall

LEMMA EndStep ==
  ASSUME IInv, NEW c \in Calls, EndCall(c)
  PROVE  IInv'
<1>1. faults' = faults /\ faults \in 0..MaxFaults
  BY ItsCall DEF EndCall, TablesType
<1>2. QED BY <1>1, LeaveStep DEF EndCall

LEMMA HangUpStep ==
  ASSUME IInv, NEW c \in Calls, HangUp(c)
  PROVE  IInv'
<1>1. calls[c].st \in {"agent", "left"} /\ Put(c, [calls[c] EXCEPT !.st = "over", !.hungUp = TRUE])
  BY DEF HangUp
<1>2. UNCHANGED <<settings, notices, escalations, errands, edits, faults>>
  BY DEF HangUp
<1>3. calls[c] \in CallRow /\ CallInv(c) /\ TablesType
  BY ItsCall
<1>4. calls[c].dialled = Null
  BY <1>1, <1>3 DEF CallInv, Rows, Talking
<1>5. PICK call : call = [calls[c] EXCEPT !.st = "over", !.hungUp = TRUE]
  OBVIOUS
<1>6. call \in CallRow
  BY <1>3, <1>5 DEF CallRow, Places
<1>7. /\ call.st = "over" /\ call.hungUp /\ call.row = calls[c].row /\ call.setup = calls[c].setup /\ call.dialled = Null
      /\ call.rest = calls[c].rest /\ call.number = calls[c].number /\ call.told = calls[c].told
      /\ call.moved = calls[c].moved /\ call.drifted = calls[c].drifted /\ call.kind = calls[c].kind
      /\ call.esc = calls[c].esc
  BY <1>3, <1>4, <1>5 DEF CallRow
<1>8. faults' = faults /\ faults' \in 0..MaxFaults
  BY <1>2, <1>3 DEF TablesType
<1>9. /\ TypeInv' /\ StepOf(c) /\ calls'[c] = call
      /\ UNCHANGED <<restaurants, features>> /\ EscalationsKept(c) /\ NoticesKept
  BY <1>1, <1>2, <1>5, <1>6, <1>8, SilentStep
<1>10. Homed(c)' /\ Fresh(c)'
  BY <1>3, <1>7, <1>9 DEF CallInv, Homed, Fresh, Answers, Staffed
<1>11. Promise(c)'
  BY <1>7, <1>9 DEF Promise
<1>12. Rows(c)'
  <2>1. ~Bypassed(c)'
    BY <1>7, <1>9 DEF Bypassed
  <2>2. call.row = "none" => \A e \in DOMAIN escalations' : ~Its(c, e)'
    <3>1. call.row = "none" => \A e \in DOMAIN escalations : ~Its(c, e)
      BY <1>3, <1>7 DEF CallInv, Rows
    <3>2. QED BY <1>9, <3>1 DEF EscalationsKept, Its
  <2>3. call.esc # 0 => call.esc \in DOMAIN escalations'
    BY <1>2, <1>3, <1>7 DEF CallInv, Rows
  <2>4. QED BY <1>7, <1>9, <2>1, <2>2, <2>3 DEF Rows, Talking, Staffed
<1>13. Equipped(c)'
  BY <1>3, <1>7, <1>8, <1>9 DEF CallInv, Equipped, Talking
<1>14. CallInv(c)'
  BY <1>10, <1>11, <1>12, <1>13 DEF CallInv
<1>15. QED BY <1>9, <1>14, OneCall

LEMMA StartStep ==
  ASSUME IInv, NEW c \in Calls, StartAgent(c)
  PROVE  IInv'
<1>1. calls[c].st = "stream" /\ UNCHANGED <<settings, notices, escalations, errands, edits>>
  BY DEF StartAgent
<1>2. calls[c] \in CallRow /\ CallInv(c) /\ TablesType
  BY ItsCall
<1>3. /\ calls[c].told \notin {"connect", "transfer"} /\ calls[c].dialled = Null /\ calls[c].row # "agent_bypassed"
      /\ calls[c].row = "escalated" => calls[c].told # "nothing"
  BY <1>1, <1>2 DEF CallInv, Promise, Rows
<1>4. CASE \E seen \in Reads(calls[c].rest) :
             /\ Fault(seen.bad)
             /\ Put(c, [calls[c] EXCEPT !.st = "agent", !.row = "in_progress",
                                        !.setup = seen.features, !.drifted = FALSE])
             /\ calls[c].rest \in Live
  <2>1. PICK seen \in Reads(calls[c].rest) :
             /\ Fault(seen.bad)
             /\ Put(c, [calls[c] EXCEPT !.st = "agent", !.row = "in_progress",
                                        !.setup = seen.features, !.drifted = FALSE])
    BY <1>4
  <2>2. PICK r \in Restaurants : r = calls[c].rest /\ IsLive(r) /\ restaurants[r] \in Row /\ StoredFeatures(r) \in Features
    BY <1>2, <1>4, LiveRows DEF Live
  <2>3. seen.features \in Features /\ seen.bad \in Nat /\ (seen.bad = 0 => seen.features = StoredFeatures(r))
    BY <2>2, ReadsTyped DEF Reads
  <2>4. faults' \in 0..MaxFaults /\ (faults' = 0 => faults = 0 /\ seen.bad = 0)
    BY <1>2, <2>1, <2>3, FaultGrows
  <2>5. PICK call : call = [calls[c] EXCEPT !.st = "agent", !.row = "in_progress", !.setup = seen.features, !.drifted = FALSE]
    OBVIOUS
  <2>6. call \in CallRow
    BY <1>2, <2>3, <2>5 DEF CallRow, Places, Talking
  <2>7. /\ call.st = "agent" /\ call.row = "in_progress" /\ call.setup = seen.features
        /\ call.rest = r /\ call.number = calls[c].number /\ call.told = calls[c].told /\ call.moved = calls[c].moved
        /\ call.dialled = Null /\ call.esc = calls[c].esc /\ call.kind = calls[c].kind
    BY <1>2, <1>3, <2>2, <2>5 DEF CallRow
  <2>8. /\ TypeInv' /\ StepOf(c) /\ calls'[c] = call
        /\ UNCHANGED <<restaurants, features>> /\ EscalationsKept(c) /\ NoticesKept
    BY <1>1, <2>1, <2>4, <2>5, <2>6, SilentStep
  <2>9. Homed(c)' /\ Fresh(c)'
    BY <1>2, <2>2, <2>7, <2>8 DEF CallInv, Homed, Fresh, Answers, Staffed
  <2>10. Promise(c)'
    BY <1>3, <2>7, <2>8 DEF Promise
  <2>11. Rows(c)'
    <3>1. ~Bypassed(c)'
      BY <2>7, <2>8 DEF Bypassed
    <3>2. call.esc # 0 => call.esc \in DOMAIN escalations'
      BY <1>1, <1>2, <2>7 DEF CallInv, Rows
    <3>3. QED BY <2>7, <2>8, <3>1, <3>2 DEF Rows, Talking, Staffed
  <2>12. Equipped(c)'
    <3>1. IsLive(r)' /\ r # Null
      BY <2>2, <2>8, SwitchboardAssumption DEF IsLive
    <3>2. faults' = 0 => call.setup = StoredFeatures(r)'
      BY <2>3, <2>4, <2>7, <2>8 DEF StoredFeatures
    <3>3. QED BY <1>3, <2>7, <2>8, <3>1, <3>2 DEF Equipped
  <2>13. CallInv(c)'
    BY <2>9, <2>10, <2>11, <2>12 DEF CallInv
  <2>14. QED BY <2>8, <2>13, OneCall
<1>5. CASE Fault(IF calls[c].rest \in Live THEN 1 ELSE 0) /\ Put(c, [calls[c] EXCEPT !.st = "left"])
  <2>1. faults' \in 0..MaxFaults /\ (faults' = 0 => faults = 0)
    <3>1. (IF calls[c].rest \in Live THEN 1 ELSE 0) \in Nat
      OBVIOUS
    <3>2. QED BY <1>2, <1>5, <3>1, FaultGrows
  <2>2. QED BY <1>1, <1>2, <1>5, <2>1, LeaveStep
<1>6. QED BY <1>4, <1>5 DEF StartAgent
-----------------------------------------------------------------------------
(***************************************************************************)
(* The bypass of the kill switch.                                          *)
(***************************************************************************)

(* The step of a call that is with the staff, and stays there: what Rows   *)
(* says of it is left to the step.                                         *)
LEMMA StaffedStep ==
  ASSUME IInv, NEW c \in Calls, calls[c].st \in Staffed, NEW call \in CallRow, Put(c, call),
         call.st \in (Staffed \cup {"over"}) \ {"user"}, call.setup = calls[c].setup, call.rest = calls[c].rest,
         call.number = calls[c].number, call.told = calls[c].told, call.moved = calls[c].moved,
         UNCHANGED <<settings, errands, edits>>, escalations' \in Seq(EscalationRow), notices' \in Seq(NoticeRow),
         NoticesKept, \A d \in Calls \ {c} : EscalationsKept(d),
         faults' \in 0..MaxFaults, faults' = 0 => faults = 0, calls'[c] = call => Rows(c)'
  PROVE  IInv'
<1>1. calls[c] \in CallRow /\ CallInv(c) /\ TablesType
  BY ItsCall
<1>2. calls[c].told = "nothing" /\ calls[c].rest # Null
  BY <1>1 DEF CallInv, Rows, Homed
<1>3. TracesType'
  BY DEF IInv, TypeInv, TracesType
<1>4. TypeInv' /\ StepOf(c) /\ calls'[c] = call
  BY <1>3, PutStep
<1>5. UNCHANGED <<restaurants, features>>
  BY DEF settings
<1>6. Homed(c)' /\ Fresh(c)'
  BY <1>1, <1>2, <1>4, <1>5 DEF CallInv, Homed, Fresh, Answers, Staffed
<1>7. Promise(c)'
  BY <1>2, <1>4 DEF Promise, Staffed
<1>8. Equipped(c)'
  BY <1>2, <1>4 DEF Equipped, Staffed, Talking
<1>9. CallInv(c)'
  BY <1>4, <1>6, <1>7, <1>8 DEF CallInv
<1>10. QED BY <1>4, <1>9, OneCall

(* A statement of the bypass that fails. *)
LEMMA UnrecordedStep ==
  ASSUME IInv, NEW c \in Calls, NEW to, Unrecorded(c, to),
         \/ calls[c].st \in Staffed /\ to \in {"notify", "over"}
         \/ calls[c].st = "finalize" /\ to = "escalate"
  PROVE  IInv'
<1>1. calls[c] \in CallRow /\ CallInv(c) /\ TablesType
  BY ItsCall
<1>2. /\ Fault(1) /\ Put(c, [[calls[c] EXCEPT !.faulted = TRUE] EXCEPT !.st = to])
      /\ UNCHANGED <<settings, errands, edits, notices, escalations>>
  BY DEF Unrecorded, Recorded
<1>3. PICK call : call = [[calls[c] EXCEPT !.faulted = TRUE] EXCEPT !.st = to]
  OBVIOUS
<1>4. call \in CallRow
  BY <1>1, <1>3 DEF CallRow, Places, Staffed
<1>5. /\ call.st = to /\ call.faulted /\ call.setup = calls[c].setup /\ call.rest = calls[c].rest
      /\ call.number = calls[c].number /\ call.told = calls[c].told /\ call.moved = calls[c].moved
      /\ call.row = calls[c].row /\ call.dialled = calls[c].dialled /\ call.esc = calls[c].esc
  BY <1>1, <1>3 DEF CallRow
<1>6. faults' \in 0..MaxFaults /\ (faults' = 0 => faults = 0)
  BY <1>1, <1>2, FaultGrows
<1>7. escalations' \in Seq(EscalationRow) /\ notices' \in Seq(NoticeRow)
  BY <1>2 DEF IInv, TypeInv, TracesType
<1>8. calls[c].st \in Staffed /\ to \in {"notify", "over", "escalate"} /\ call.st \in (Staffed \cup {"over"}) \ {"user"}
  BY <1>5 DEF Staffed
<1>9. ASSUME calls'[c] = call PROVE Rows(c)'
  <2>1. /\ calls[c].dialled # Null /\ calls[c].told = "nothing"
        /\ to = "escalate" => calls[c].row # "none"
        /\ calls[c].esc # 0 => calls[c].esc \in DOMAIN escalations
        /\ calls[c].row = "none" => \A e \in DOMAIN escalations : ~Its(c, e)
    BY <1>1, <1>8 DEF CallInv, Rows, Staffed
  <2>2. calls[c].row = "none" => \A e \in DOMAIN escalations' : ~Its(c, e)'
    BY <1>2, <2>1 DEF Its
  <2>3. QED BY <1>2, <1>5, <1>8, <1>9, <2>1, <2>2 DEF Rows, Talking, Staffed
<1>10. QED BY <1>2, <1>3, <1>4, <1>5, <1>6, <1>7, <1>8, <1>9, StaffedStep, EscalationsSame, NoticesSame

LEMMA UserStep ==
  ASSUME IInv, NEW c \in Calls, BypassUser(c)
  PROVE  IInv'
<1>1. calls[c].st = "user"
  BY DEF BypassUser
<1>2. CASE Unrecorded(c, "notify")
  BY <1>1, <1>2, UnrecordedStep DEF Staffed
<1>3. CASE Recorded(c, "row", calls[c]) /\ UNCHANGED <<notices, escalations, faults>>
  <2>1. calls[c] \in CallRow /\ CallInv(c) /\ TablesType
    BY ItsCall
  <2>2. Put(c, [calls[c] EXCEPT !.st = "row"]) /\ UNCHANGED <<settings, errands, edits, notices, escalations, faults>>
    BY <1>3 DEF Recorded
  <2>3. PICK call : call = [calls[c] EXCEPT !.st = "row"]
    OBVIOUS
  <2>4. call \in CallRow
    BY <2>1, <2>3 DEF CallRow, Places, Staffed
  <2>5. /\ call.st = "row" /\ call.faulted = calls[c].faulted /\ call.setup = calls[c].setup /\ call.rest = calls[c].rest
        /\ call.number = calls[c].number /\ call.told = calls[c].told /\ call.moved = calls[c].moved
        /\ call.row = calls[c].row /\ call.dialled = calls[c].dialled /\ call.esc = calls[c].esc
    BY <2>1, <2>3 DEF CallRow
  <2>6. escalations' \in Seq(EscalationRow) /\ notices' \in Seq(NoticeRow) /\ faults' \in 0..MaxFaults
    BY <2>1, <2>2 DEF IInv, TypeInv, TracesType, TablesType
  <2>7. calls[c].st \in Staffed /\ call.st \in (Staffed \cup {"over"}) \ {"user"}
    BY <1>1, <2>5 DEF Staffed
  <2>8. ASSUME calls'[c] = call PROVE Rows(c)'
    <3>1. /\ calls[c].dialled # Null /\ calls[c].told = "nothing"
          /\ calls[c].esc # 0 => calls[c].esc \in DOMAIN escalations
          /\ calls[c].row = "none" => \A e \in DOMAIN escalations : ~Its(c, e)
      BY <2>1, <2>7 DEF CallInv, Rows
    <3>2. calls[c].row = "none" => \A e \in DOMAIN escalations' : ~Its(c, e)'
      BY <2>2, <3>1 DEF Its
    <3>3. ~Bypassed(c)'
      BY <2>5, <2>8 DEF Bypassed
    <3>4. QED BY <2>2, <2>5, <2>8, <3>1, <3>2, <3>3 DEF Rows, Talking, Staffed
  <2>9. QED BY <2>2, <2>3, <2>4, <2>5, <2>6, <2>7, <2>8, StaffedStep, EscalationsSame, NoticesSame
<1>4. QED BY <1>2, <1>3 DEF BypassUser

(* The bypass writes the row of the call, row, and goes on. *)
LEMMA WrittenStep ==
  ASSUME IInv, NEW c \in Calls, NEW to, NEW row, Recorded(c, to, [calls[c] EXCEPT !.row = row]),
         UNCHANGED <<notices, escalations, faults>>,
         \/ calls[c].st = "row" /\ to = "finalize" /\ row = "in_progress"
         \/ calls[c].st = "finalize" /\ to = "escalate" /\ row = "agent_bypassed"
  PROVE  IInv'
<1>1. calls[c] \in CallRow /\ CallInv(c) /\ TablesType
  BY ItsCall
<1>2. Put(c, [[calls[c] EXCEPT !.row = row] EXCEPT !.st = to]) /\ UNCHANGED <<settings, errands, edits>>
  BY DEF Recorded
<1>3. PICK call : call = [[calls[c] EXCEPT !.row = row] EXCEPT !.st = to]
  OBVIOUS
<1>4. call \in CallRow
  BY <1>1, <1>3 DEF CallRow, Places, Staffed
<1>5. /\ call.st = to /\ call.faulted = calls[c].faulted /\ call.setup = calls[c].setup /\ call.rest = calls[c].rest
      /\ call.number = calls[c].number /\ call.told = calls[c].told /\ call.moved = calls[c].moved
      /\ call.row = row /\ call.dialled = calls[c].dialled /\ call.esc = calls[c].esc
  BY <1>1, <1>3 DEF CallRow
<1>6. escalations' \in Seq(EscalationRow) /\ notices' \in Seq(NoticeRow) /\ faults' \in 0..MaxFaults
  BY <1>1 DEF IInv, TypeInv, TracesType, TablesType
<1>7. calls[c].st \in Staffed /\ call.st \in (Staffed \cup {"over"}) \ {"user"} /\ to \in {"finalize", "escalate"} /\ row # "none"
  BY <1>5 DEF Staffed
<1>8. ASSUME calls'[c] = call PROVE Rows(c)'
  <2>1. /\ calls[c].dialled # Null /\ calls[c].told = "nothing"
        /\ calls[c].esc # 0 => calls[c].esc \in DOMAIN escalations
    BY <1>1, <1>7 DEF CallInv, Rows
  <2>2. ~Bypassed(c)'
    BY <1>5, <1>7, <1>8 DEF Bypassed
  <2>3. QED BY <1>5, <1>7, <1>8, <2>1, <2>2 DEF Rows, Talking, Staffed
<1>9. QED BY <1>2, <1>3, <1>4, <1>5, <1>6, <1>7, <1>8, StaffedStep, EscalationsSame, NoticesSame

LEMMA RowStep ==
  ASSUME IInv, NEW c \in Calls, BypassRow(c)
  PROVE  IInv'
<1>1. CASE Unrecorded(c, "notify")
  BY <1>1, UnrecordedStep DEF BypassRow, Staffed
<1>2. CASE Recorded(c, "finalize", [calls[c] EXCEPT !.row = "in_progress"]) /\ UNCHANGED <<notices, escalations, faults>>
  BY <1>2, WrittenStep DEF BypassRow
<1>3. QED BY <1>1, <1>2 DEF BypassRow

LEMMA FinalizeStep ==
  ASSUME IInv, NEW c \in Calls, BypassFinalize(c)
  PROVE  IInv'
<1>1. CASE Unrecorded(c, "escalate")
  BY <1>1, UnrecordedStep DEF BypassFinalize
<1>2. CASE Recorded(c, "escalate", [calls[c] EXCEPT !.row = "agent_bypassed"]) /\ UNCHANGED <<notices, escalations, faults>>
  BY <1>2, WrittenStep DEF BypassFinalize
<1>3. QED BY <1>1, <1>2 DEF BypassFinalize
(* The fields of a call with the staff after a statement that went through. *)
LEMMA RaisedStep ==
  ASSUME IInv, NEW c \in Calls, BypassEscalate(c)
  PROVE  IInv'
<1>1. CASE Unrecorded(c, "notify")
  BY <1>1, UnrecordedStep DEF BypassEscalate, Staffed
<1>2. CASE /\ escalations' = Raise(c)
           /\ Recorded(c, "forward", [calls[c] EXCEPT !.esc = Len(escalations) + 1])
           /\ UNCHANGED <<notices, faults>>
  <2>1. calls[c] \in CallRow /\ CallInv(c) /\ TablesType /\ calls[c].st = "escalate" /\ TypeInv
    BY ItsCall DEF BypassEscalate, IInv
  <2>2. calls[c].rest \in Restaurants
    BY <2>1 DEF CallInv, Homed, Staffed, CallRow
  <2>3. /\ escalations' \in Seq(EscalationRow) /\ \A d \in Calls \ {c} : EscalationsKept(d)
        /\ \E n \in Nat \ {0} : n = Len(escalations) + 1 /\ n \in DOMAIN escalations' /\ Its(c, n)'
    BY <1>2, <2>1, <2>2, Raised
  <2>4. PICK n \in Nat \ {0} : n = Len(escalations) + 1 /\ n \in DOMAIN escalations' /\ Its(c, n)'
    BY <2>3
  <2>5. PICK call : call = [[calls[c] EXCEPT !.esc = n] EXCEPT !.st = "forward"]
    OBVIOUS
  <2>6. Put(c, call) /\ UNCHANGED <<settings, errands, edits>>
    BY <1>2, <2>4, <2>5 DEF Recorded
  <2>7. call \in CallRow
    BY <2>1, <2>5 DEF CallRow, Places, Staffed
  <2>8. /\ call.st = "forward" /\ call.faulted = calls[c].faulted /\ call.setup = calls[c].setup /\ call.rest = calls[c].rest
        /\ call.number = calls[c].number /\ call.told = calls[c].told /\ call.moved = calls[c].moved
        /\ call.row = calls[c].row /\ call.dialled = calls[c].dialled /\ call.esc = n
    BY <2>1, <2>5 DEF CallRow
  <2>9. notices' \in Seq(NoticeRow) /\ faults' = faults /\ faults' \in 0..MaxFaults
    BY <1>2, <2>1 DEF TypeInv, TracesType, TablesType
  <2>10. calls[c].st \in Staffed /\ call.st \in (Staffed \cup {"over"}) \ {"user"}
    BY <2>1, <2>8 DEF Staffed
  <2>11. ASSUME calls'[c] = call PROVE Rows(c)'
    <3>1. /\ calls[c].dialled # Null /\ calls[c].told = "nothing" /\ calls[c].row # "none"
          /\ ~calls[c].faulted => calls[c].row = "agent_bypassed"
      BY <2>1, <2>10 DEF CallInv, Rows
    <3>2. ~Bypassed(c)' /\ Its(c, calls[c].esc)'
      BY <2>4, <2>8, <2>11 DEF Bypassed
    <3>3. QED BY <2>4, <2>8, <2>11, <3>1, <3>2 DEF Rows, Talking, Staffed
  <2>12. NoticesKept
    BY <1>2, NoticesSame
  <2>13. QED BY <2>3, <2>6, <2>7, <2>8, <2>9, <2>10, <2>11, <2>12, StaffedStep
<1>3. QED BY <1>1, <1>2 DEF BypassEscalate

LEMMA ForwardStep ==
  ASSUME IInv, NEW c \in Calls, BypassForward(c)
  PROVE  IInv'
<1>1. CASE Unrecorded(c, "notify")
  BY <1>1, UnrecordedStep DEF BypassForward, Staffed
<1>2. CASE /\ escalations' = WriteStatus(calls[c].esc, "forwarded")
           /\ Recorded(c, "notify", calls[c])
           /\ UNCHANGED <<notices, faults>>
  <2>1. calls[c] \in CallRow /\ CallInv(c) /\ TablesType /\ calls[c].st = "forward" /\ TypeInv
    BY ItsCall DEF BypassForward, IInv
  <2>2. PICK e \in DOMAIN escalations : e = calls[c].esc /\ Its(c, e)
    BY <2>1 DEF CallInv, Rows, Its
  <2>3. /\ escalations' \in Seq(EscalationRow) /\ DOMAIN escalations' = DOMAIN escalations
        /\ escalations'[e].status = "forwarded"
        /\ \A k \in DOMAIN escalations : Its(c, k)' <=> Its(c, k)
        /\ \A d \in Calls \ {c} : EscalationsKept(d)
    BY <1>2, <2>1, <2>2, Rewritten DEF Statuses
  <2>4. PICK call : call = [calls[c] EXCEPT !.st = "notify"]
    OBVIOUS
  <2>5. Put(c, call) /\ UNCHANGED <<settings, errands, edits>>
    BY <1>2, <2>4 DEF Recorded
  <2>6. call \in CallRow
    BY <2>1, <2>4 DEF CallRow, Places, Staffed
  <2>7. /\ call.st = "notify" /\ call.faulted = calls[c].faulted /\ call.setup = calls[c].setup /\ call.rest = calls[c].rest
        /\ call.number = calls[c].number /\ call.told = calls[c].told /\ call.moved = calls[c].moved
        /\ call.row = calls[c].row /\ call.dialled = calls[c].dialled /\ call.esc = e
    BY <2>1, <2>2, <2>4 DEF CallRow
  <2>8. notices' \in Seq(NoticeRow) /\ faults' = faults /\ faults' \in 0..MaxFaults
    BY <1>2, <2>1 DEF TypeInv, TracesType, TablesType
  <2>9. calls[c].st \in Staffed /\ call.st \in (Staffed \cup {"over"}) \ {"user"}
    BY <2>1, <2>7 DEF Staffed
  <2>10. ASSUME calls'[c] = call PROVE Rows(c)'
    <3>1. /\ calls[c].dialled # Null /\ calls[c].told = "nothing" /\ calls[c].row # "none"
          /\ ~calls[c].faulted => calls[c].row = "agent_bypassed"
      BY <2>1, <2>9 DEF CallInv, Rows
    <3>2. ~Bypassed(c)'
      BY <2>7, <2>10 DEF Bypassed
    <3>3. e \in DOMAIN escalations' /\ Its(c, e)'
      BY <2>2, <2>3
    <3>4. ~call.faulted => Settled(c)'
      BY <2>3, <2>7, <2>10, <3>1, <3>3 DEF Settled
    <3>5. QED BY <2>7, <2>10, <3>1, <3>2, <3>3, <3>4 DEF Rows, Talking, Staffed
  <2>11. NoticesKept
    BY <1>2, NoticesSame
  <2>12. QED BY <2>3, <2>5, <2>6, <2>7, <2>8, <2>9, <2>10, <2>11, StaffedStep
<1>3. QED BY <1>1, <1>2 DEF BypassForward

LEMMA NotifyStep ==
  ASSUME IInv, NEW c \in Calls, BypassNotify(c)
  PROVE  IInv'
<1>1. CASE Unrecorded(c, "over")
  BY <1>1, UnrecordedStep DEF BypassNotify, Staffed
<1>2. CASE /\ notices' = Append(notices, Notice(calls[c].rest, "kill_switch_redirected", TRUE, FALSE, EntityOf(calls[c], c)))
           /\ Recorded(c, "over", calls[c])
           /\ UNCHANGED <<escalations, faults>>
  <2>1. calls[c] \in CallRow /\ CallInv(c) /\ TablesType /\ calls[c].st = "notify" /\ TypeInv
    BY ItsCall DEF BypassNotify, IInv
  <2>2. calls[c].rest \in Restaurants /\ calls[c].esc \in Nat
    BY <2>1 DEF CallInv, Homed, Staffed, CallRow
  <2>3. PICK n \in NoticeRow : /\ n = Notice(calls[c].rest, "kill_switch_redirected", TRUE, FALSE, EntityOf(calls[c], c))
                               /\ n.rest = calls[c].rest /\ n.entity = EntityOf(calls[c], c)
    <3>1. "kill_switch_redirected" \in NoticeKinds /\ EntityOf(calls[c], c) \in Entities
      BY <2>2, EntityTyped DEF NoticeKinds
    <3>2. QED BY <2>2, <3>1, NoticeTyped
  <2>4. notices' \in Seq(NoticeRow) /\ NoticesKept /\ \E k \in DOMAIN notices' : notices'[k] = n
    BY <1>2, <2>1, <2>3, Noticed
  <2>5. PICK call : call = [calls[c] EXCEPT !.st = "over"]
    OBVIOUS
  <2>6. Put(c, call) /\ UNCHANGED <<settings, errands, edits>>
    BY <1>2, <2>5 DEF Recorded
  <2>7. call \in CallRow
    BY <2>1, <2>5 DEF CallRow, Places
  <2>8. /\ call.st = "over" /\ call.faulted = calls[c].faulted /\ call.setup = calls[c].setup /\ call.rest = calls[c].rest
        /\ call.number = calls[c].number /\ call.told = calls[c].told /\ call.moved = calls[c].moved
        /\ call.row = calls[c].row /\ call.dialled = calls[c].dialled /\ call.esc = calls[c].esc
    BY <2>1, <2>5 DEF CallRow
  <2>9. escalations' = escalations /\ escalations' \in Seq(EscalationRow) /\ faults' = faults /\ faults' \in 0..MaxFaults
    BY <1>2, <2>1 DEF TypeInv, TracesType, TablesType
  <2>10. calls[c].st \in Staffed /\ call.st \in (Staffed \cup {"over"}) \ {"user"}
    BY <2>1, <2>8 DEF Staffed
  <2>11. ASSUME calls'[c] = call PROVE Rows(c)'
    <3>1. /\ calls[c].dialled # Null /\ calls[c].told = "nothing"
          /\ calls[c].esc # 0 => calls[c].esc \in DOMAIN escalations
          /\ calls[c].row = "none" => \A e \in DOMAIN escalations : ~Its(c, e)
          /\ ~calls[c].faulted => Settled(c)
      BY <2>1, <2>10 DEF CallInv, Rows
    <3>2. calls[c].row = "none" => \A e \in DOMAIN escalations' : ~Its(c, e)'
      BY <2>9, <3>1 DEF Its
    <3>3. ~call.faulted => Settled(c)'
      BY <2>8, <2>9, <2>11, <3>1 DEF Settled, Its
    <3>4. ASSUME ~call.faulted
          PROVE  \E k \in DOMAIN notices' : notices'[k].rest = call.rest /\ notices'[k].entity = <<"escalation", call.esc>>
      <4>1. Its(c, calls[c].esc)
        BY <2>8, <3>1, <3>4 DEF Settled
      <4>2. calls[c].esc \in DOMAIN escalations /\ escalations \in Seq(EscalationRow)
        BY <2>1, <4>1 DEF Its, TypeInv, TracesType
      <4>3. calls[c].esc > 0
        BY <4>2
      <4>4. n.entity = <<"escalation", call.esc>>
        BY <2>3, <2>8, <4>3 DEF EntityOf
      <4>5. QED BY <2>3, <2>4, <2>8, <4>4
    <3>5. QED BY <2>8, <2>9, <2>11, <3>1, <3>2, <3>3, <3>4 DEF Rows, Talking, Staffed
  <2>12. \A d \in Calls : EscalationsKept(d)
    BY <2>9, EscalationsSame
  <2>13. QED BY <2>4, <2>6, <2>7, <2>8, <2>9, <2>10, <2>11, <2>12, StaffedStep
<1>3. QED BY <1>1, <1>2 DEF BypassNotify
-----------------------------------------------------------------------------
(***************************************************************************)
(* The agent hands the call over.                                          *)
(***************************************************************************)
LEMMA AskStep ==
  ASSUME IInv, NEW c \in Calls, NEW st, NEW kind, Ask(c, st, kind),
         \/ st = "asking" /\ kind = Null
         \/ st = "texting" /\ kind \in Kinds /\ calls[c].setup # Null
  PROVE  IInv'
<1>1. /\ calls[c].st = "agent" /\ calls[c].rest # Null
      /\ UNCHANGED <<settings, notices, escalations, errands, edits>>
  BY DEF Ask
<1>2. PICK seen \in RowReads(calls[c].rest) :
        /\ Fault(seen.bad)
        /\ Put(c, [calls[c] EXCEPT !.st = st, !.saw = seen.row, !.kind = kind, !.stirred = FALSE])
  BY DEF Ask
<1>3. calls[c] \in CallRow /\ CallInv(c) /\ TablesType
  BY ItsCall
<1>4. PICK r \in Restaurants : r = calls[c].rest
  BY <1>1, <1>3 DEF CallRow
<1>5. /\ seen.row \in Row \cup {Null} /\ seen.bad \in {0, 1}
      /\ Forwards(seen.row) => Reaches(r)
      /\ seen.bad = 0 /\ r \in Live => seen.row = restaurants[r]
  BY <1>2, <1>3, <1>4, RowReadsTyped
<1>6. faults' \in 0..MaxFaults /\ (faults' = 0 => faults = 0 /\ seen.bad = 0)
  BY <1>2, <1>3, <1>5, FaultGrows
<1>7. PICK call : call = [calls[c] EXCEPT !.st = st, !.saw = seen.row, !.kind = kind, !.stirred = FALSE]
  OBVIOUS
<1>8. call \in CallRow
  BY <1>3, <1>5, <1>7 DEF CallRow, Places, Talking
<1>9. /\ call.st = st /\ call.saw = seen.row /\ call.kind = kind /\ call.setup = calls[c].setup /\ call.rest = r
      /\ call.number = calls[c].number /\ call.told = calls[c].told /\ call.moved = calls[c].moved
      /\ call.drifted = calls[c].drifted /\ call.row = calls[c].row /\ call.dialled = calls[c].dialled
      /\ call.esc = calls[c].esc
  BY <1>3, <1>4, <1>7 DEF CallRow
<1>10. /\ TypeInv' /\ StepOf(c) /\ calls'[c] = call
       /\ UNCHANGED <<restaurants, features>> /\ EscalationsKept(c) /\ NoticesKept
  BY <1>1, <1>2, <1>6, <1>7, <1>8, SilentStep
<1>11. /\ calls[c].told \notin {"connect", "transfer"} /\ calls[c].dialled = Null
       /\ calls[c].row \notin {"none", "agent_bypassed"}
       /\ calls[c].row = "escalated" => calls[c].told # "nothing"
       /\ calls[c].esc # 0 => calls[c].esc \in DOMAIN escalations
  BY <1>1, <1>3 DEF CallInv, Promise, Rows, Talking
<1>12. Homed(c)' /\ Fresh(c)'
  BY <1>1, <1>3, <1>4, <1>9, <1>10 DEF CallInv, Homed, Fresh, Answers
<1>13. Promise(c)'
  <2>1. Forwards(call.saw) => Reaches(r)'
    BY <1>5, <1>9, <1>10 DEF Reaches, IsLive
  <2>2. QED BY <1>9, <1>10, <1>11, <2>1 DEF Promise, Forwards
<1>14. Rows(c)'
  <2>1. call.esc # 0 => call.esc \in DOMAIN escalations'
    BY <1>1, <1>9, <1>11
  <2>2. ~Bypassed(c)'
    BY <1>9, <1>10 DEF Bypassed
  <2>3. QED BY <1>9, <1>10, <1>11, <2>1, <2>2 DEF Rows, Talking, Staffed
<1>15. Equipped(c)'
  <2>1. calls[c].setup # Null /\ ~calls[c].drifted /\ faults = 0 =>
          IsLive(r) /\ calls[c].setup = StoredFeatures(r)
    BY <1>1, <1>3, <1>4 DEF CallInv, Equipped, Talking
  <2>2. call.setup # Null /\ ~call.drifted /\ faults' = 0 =>
          IsLive(r)' /\ call.setup = StoredFeatures(r)'
    BY <1>6, <1>9, <1>10, <2>1 DEF IsLive, StoredFeatures
  <2>3. IsLive(r) => r \in Live
    BY <1>3, LiveRows
  <2>4. call.setup # Null /\ ~call.drifted /\ faults' = 0 => call.saw = restaurants'[r]
    BY <1>5, <1>6, <1>9, <1>10, <2>1, <2>3
  <2>5. r # Null
    BY <1>1, <1>4
  <2>6. QED BY <1>9, <1>10, <1>11, <2>2, <2>4, <2>5 DEF Equipped
<1>16. CallInv(c)'
  BY <1>12, <1>13, <1>14, <1>15 DEF CallInv
<1>17. QED BY <1>10, <1>16, OneCall

LEMMA AskForStep ==
  ASSUME IInv, NEW c \in Calls, AskForHuman(c) \/ AskForLink(c)
  PROVE  IInv'
<1>1. CASE AskForHuman(c)
  BY <1>1, AskStep DEF AskForHuman
<1>2. CASE AskForLink(c)
  <2>1. PICK k \in Kinds : Ask(c, "texting", k) /\ calls[c].setup # Null
    BY <1>2 DEF AskForLink
  <2>2. QED BY <2>1, AskStep
<1>3. QED BY <1>1, <1>2

(* What _escalate writes, in the words of the two functions that call it. *)
LEMMA EscalatedRows ==
  ASSUME IInv, NEW c \in Calls, calls[c].st \in {"asking", "texting"}, NEW inserted \in BOOLEAN, NEW marked \in BOOLEAN,
         NEW st \in {"agent", "left"}, NEW told \in {"connect", "callback", "transfer"},
         Escalated(c, inserted, marked, st, told)
  PROVE  \E call \in CallRow :
           /\ Put(c, call) /\ call.st = st /\ call.told = told /\ call.row \notin {"none", "agent_bypassed"}
           /\ call.setup = calls[c].setup /\ call.rest = calls[c].rest /\ call.number = calls[c].number
           /\ call.kind = calls[c].kind /\ call.moved = calls[c].moved /\ call.drifted = calls[c].drifted
           /\ call.stirred = calls[c].stirred /\ call.dialled = Null
           /\ call.faulted = (calls[c].faulted \/ ~inserted)
           /\ call.esc # 0 => call.esc \in DOMAIN escalations'
           /\ escalations' \in Seq(EscalationRow) /\ \A d \in Calls \ {c} : EscalationsKept(d)
           /\ inserted => \E e \in DOMAIN escalations' : Its(c, e)' /\ escalations'[e].rest = call.rest
<1>1. calls[c] \in CallRow /\ CallInv(c) /\ TypeInv
  BY ItsCall DEF IInv
<1>2. /\ calls[c].dialled = Null /\ calls[c].row \notin {"none", "agent_bypassed"}
      /\ calls[c].rest \in Restaurants
  BY <1>1 DEF CallInv, Homed, Rows, Talking, CallRow
<1>3. PICK row \in {"none", "in_progress", "agent_bypassed", "escalated"} :
         row = (IF marked THEN "escalated" ELSE calls[c].row) /\ row \notin {"none", "agent_bypassed"}
  BY <1>1, <1>2 DEF CallRow
<1>4. /\ escalations' \in Seq(EscalationRow) /\ \A d \in Calls \ {c} : EscalationsKept(d)
      /\ \E n \in Nat : /\ n = (IF inserted THEN Len(escalations) + 1 ELSE 0)
                        /\ n # 0 => n \in DOMAIN escalations'
                        /\ inserted => n # 0 /\ Its(c, n)' /\ escalations'[n].rest = calls[c].rest
  <2>1. CASE inserted
    BY <1>1, <1>2, <2>1, Raised DEF Escalated
  <2>2. CASE ~inserted
    BY <1>1, <2>2, EscalationsSame DEF Escalated, TypeInv, TracesType
  <2>3. QED BY <2>1, <2>2
<1>5. PICK n \in Nat : /\ n = (IF inserted THEN Len(escalations) + 1 ELSE 0)
                       /\ n # 0 => n \in DOMAIN escalations'
                       /\ inserted => n # 0 /\ Its(c, n)' /\ escalations'[n].rest = calls[c].rest
  BY <1>4
<1>6. PICK torn \in BOOLEAN : torn = (calls[c].faulted \/ ~inserted)
  OBVIOUS
<1>7. PICK call : call = [calls[c] EXCEPT !.st = st, !.told = told, !.saw = Null, !.row = row, !.esc = n, !.faulted = torn]
  OBVIOUS
<1>8. Put(c, call)
  <2>1. Put(c, [calls[c] EXCEPT !.st = st, !.told = told, !.saw = Null,
                                !.row = IF marked THEN "escalated" ELSE @,
                                !.esc = IF inserted THEN Len(escalations) + 1 ELSE 0,
                                !.faulted = @ \/ ~inserted])
    BY DEF Escalated
  <2>2. call = [calls[c] EXCEPT !.st = st, !.told = told, !.saw = Null,
                                !.row = IF marked THEN "escalated" ELSE @,
                                !.esc = IF inserted THEN Len(escalations) + 1 ELSE 0,
                                !.faulted = @ \/ ~inserted]
    BY <1>1, <1>3, <1>5, <1>6, <1>7 DEF CallRow
  <2>3. QED BY <2>1, <2>2
<1>9. call \in CallRow
  <2>1. st \in Places /\ told \in {"nothing", "connect", "callback", "transfer"} /\ Null \in Row \cup {Null}
    BY DEF Places, Talking
  <2>2. row \in {"none", "in_progress", "agent_bypassed", "escalated"} /\ n \in Nat /\ torn \in BOOLEAN /\ calls[c] \in CallRow
    BY <1>1
  <2>3. QED BY <1>7, <2>1, <2>2 DEF CallRow
<1>10. /\ call.st = st /\ call.told = told /\ call.row = row /\ call.setup = calls[c].setup /\ call.rest = calls[c].rest
       /\ call.number = calls[c].number /\ call.kind = calls[c].kind /\ call.moved = calls[c].moved
       /\ call.drifted = calls[c].drifted /\ call.stirred = calls[c].stirred /\ call.dialled = Null
       /\ call.faulted = torn /\ call.esc = n
  BY <1>1, <1>2, <1>7 DEF CallRow
<1>11. inserted => \E e \in DOMAIN escalations' : Its(c, e)' /\ escalations'[e].rest = call.rest
  BY <1>5, <1>10
<1>12. QED BY <1>3, <1>4, <1>5, <1>6, <1>8, <1>9, <1>10, <1>11
(* What an escalation of the agent leaves of the call. *)
LEMMA HandedOver ==
  ASSUME IInv, NEW c \in Calls, NEW call \in CallRow, Put(c, call),
         UNCHANGED <<settings, edits>>, escalations' \in Seq(EscalationRow), notices' \in Seq(NoticeRow),
         errands' \in Seq(Errand), NoticesKept, \A d \in Calls \ {c} : EscalationsKept(d),
         faults' \in 0..MaxFaults, faults' = 0 => faults = 0,
         call.st \in {"agent", "left"}, call.told \in {"connect", "callback", "transfer"},
         call.told # "callback" => call.st = "left",
         call.row \notin {"none", "agent_bypassed"}, call.dialled = Null,
         call.esc # 0 => call.esc \in DOMAIN escalations',
         call.rest = calls[c].rest, calls[c].rest \in Restaurants, call.number = calls[c].number, call.moved = calls[c].moved,
         call.setup = calls[c].setup, call.drifted = calls[c].drifted,
         calls[c].st \in Talking,
         call.told = "connect" /\ ~call.stirred /\ ~call.faulted =>
           /\ Reaches(call.rest)
           /\ \E e \in DOMAIN escalations' : Its(c, e)' /\ escalations'[e].rest = call.rest,
         call.setup # Null /\ call.told = "transfer" /\ faults' = 0
           /\ HandoffRule(call.setup, call.kind) = "link" => call.drifted \/ call.moved
  PROVE  IInv'
<1>1. calls[c] \in CallRow /\ CallInv(c) /\ TablesType
  BY ItsCall
<1>2. TracesType'
  BY DEF TracesType
<1>3. TypeInv' /\ StepOf(c) /\ calls'[c] = call
  BY <1>2, PutStep
<1>4. UNCHANGED <<restaurants, features>>
  BY DEF settings
<1>5. Homed(c)' /\ Fresh(c)'
  BY <1>1, <1>3, <1>4, SwitchboardAssumption DEF CallInv, Homed, Fresh, Answers, Staffed
<1>6. Promise(c)'
  <2>1. Reaches(call.rest)' <=> Reaches(call.rest)
    BY <1>4 DEF Reaches, IsLive
  <2>2. QED BY <1>3, <2>1 DEF Promise
<1>7. Rows(c)'
  <2>1. ~Bypassed(c)'
    BY <1>3 DEF Bypassed
  <2>2. QED BY <1>3, <2>1 DEF Rows, Talking, Staffed
<1>8. Equipped(c)'
  <2>1. calls[c].setup # Null /\ ~calls[c].drifted /\ faults = 0 =>
          IsLive(calls[c].rest) /\ calls[c].setup = StoredFeatures(calls[c].rest)
    BY <1>1 DEF CallInv, Equipped
  <2>2. call.setup # Null /\ ~call.drifted /\ faults' = 0 =>
          IsLive(call.rest)' /\ call.setup = StoredFeatures(call.rest)'
    BY <1>3, <1>4, <2>1 DEF IsLive, StoredFeatures
  <2>3. QED BY <1>3, <2>2, SwitchboardAssumption DEF Equipped
<1>9. CallInv(c)'
  BY <1>5, <1>6, <1>7, <1>8 DEF CallInv
<1>10. QED BY <1>3, <1>9, OneCall

(* A caller who asks outside the hours stays with the agent, and so does one who got the link. *)
LEMMA BackStep ==
  ASSUME IInv, NEW c \in Calls, calls[c].st \in {"asking", "texting"}, NEW call \in CallRow, Put(c, call),
         \/ call = [calls[c] EXCEPT !.st = "agent", !.saw = Null]
         \/ call = [calls[c] EXCEPT !.st = "agent", !.saw = Null, !.kind = Null],
         UNCHANGED <<settings, notices, escalations, errands, edits>>,
         faults' \in 0..MaxFaults, faults' = 0 => faults = 0
  PROVE  IInv'
<1>1. calls[c] \in CallRow /\ CallInv(c) /\ TablesType
  BY ItsCall
<1>2. /\ calls[c].told \notin {"connect", "transfer"} /\ calls[c].dialled = Null
      /\ calls[c].row \notin {"none", "agent_bypassed"}
      /\ calls[c].row = "escalated" => calls[c].told # "nothing"
      /\ calls[c].esc # 0 => calls[c].esc \in DOMAIN escalations
  BY <1>1 DEF CallInv, Promise, Rows, Talking
<1>3. /\ call.st = "agent" /\ call.setup = calls[c].setup /\ call.rest = calls[c].rest
      /\ call.number = calls[c].number /\ call.told = calls[c].told /\ call.moved = calls[c].moved
      /\ call.drifted = calls[c].drifted /\ call.row = calls[c].row /\ call.dialled = calls[c].dialled
      /\ call.esc = calls[c].esc
  BY <1>1 DEF CallRow
<1>4. /\ TypeInv' /\ StepOf(c) /\ calls'[c] = call
      /\ UNCHANGED <<restaurants, features>> /\ EscalationsKept(c) /\ NoticesKept
  BY SilentStep
<1>5. Homed(c)' /\ Fresh(c)'
  BY <1>1, <1>3, <1>4 DEF CallInv, Homed, Fresh, Answers, Staffed
<1>6. Promise(c)'
  BY <1>2, <1>3, <1>4 DEF Promise
<1>7. Rows(c)'
  <2>1. ~Bypassed(c)'
    BY <1>3, <1>4 DEF Bypassed
  <2>2. call.esc # 0 => call.esc \in DOMAIN escalations'
    BY <1>2, <1>3
  <2>3. QED BY <1>2, <1>3, <1>4, <2>1, <2>2 DEF Rows, Talking, Staffed
<1>8. Equipped(c)'
  <2>1. calls[c].setup # Null /\ ~calls[c].drifted /\ faults = 0 =>
          IsLive(calls[c].rest) /\ calls[c].setup = StoredFeatures(calls[c].rest)
    BY <1>1 DEF CallInv, Equipped, Talking
  <2>2. call.setup # Null /\ ~call.drifted /\ faults' = 0 =>
          IsLive(call.rest)' /\ call.setup = StoredFeatures(call.rest)'
    BY <1>3, <1>4, <2>1 DEF IsLive, StoredFeatures
  <2>3. QED BY <1>1, <1>2, <1>3, <1>4, <2>2 DEF CallInv, Equipped
<1>9. CallInv(c)'
  BY <1>5, <1>6, <1>7, <1>8 DEF CallInv
<1>10. QED BY <1>4, <1>9, OneCall

LEMMA HumanStep ==
  ASSUME IInv, NEW c \in Calls, NEW now, EscalateToHuman(c, now)
  PROVE  IInv'
<1>1. calls[c].st = "asking" /\ UNCHANGED <<settings, notices, edits>>
  BY DEF EscalateToHuman
<1>2. calls[c] \in CallRow /\ CallInv(c) /\ TablesType /\ TypeInv
  BY ItsCall DEF IInv
<1>3. CASE /\ Put(c, [calls[c] EXCEPT !.st = "agent", !.saw = Null])
           /\ UNCHANGED <<escalations, errands, faults>>
  <2>1. PICK call : call = [calls[c] EXCEPT !.st = "agent", !.saw = Null]
    OBVIOUS
  <2>2. call \in CallRow /\ faults' = faults /\ faults' \in 0..MaxFaults
    BY <1>2, <1>3, <2>1 DEF CallRow, Places, Talking, TablesType
  <2>3. QED BY <1>1, <1>3, <2>1, <2>2, BackStep
<1>4. CASE \E inserted, marked \in BOOLEAN :
             /\ Fault(Undone(<<inserted, marked>>))
             /\ Escalated(c, inserted, marked, IF Forwards(calls[c].saw) THEN "left" ELSE "agent",
                          IF Forwards(calls[c].saw) THEN "connect" ELSE "callback")
             /\ errands' = Append(errands, << <<UserRequested(calls'[c], c)>> >>)
  <2>1. PICK inserted \in BOOLEAN, marked \in BOOLEAN :
             /\ Fault(Undone(<<inserted, marked>>))
             /\ Escalated(c, inserted, marked, IF Forwards(calls[c].saw) THEN "left" ELSE "agent",
                          IF Forwards(calls[c].saw) THEN "connect" ELSE "callback")
             /\ errands' = Append(errands, << <<UserRequested(calls'[c], c)>> >>)
    BY <1>4
  <2>2. PICK st \in {"agent", "left"}, told \in {"connect", "callback"} :
             /\ st = (IF Forwards(calls[c].saw) THEN "left" ELSE "agent")
             /\ told = (IF Forwards(calls[c].saw) THEN "connect" ELSE "callback")
    OBVIOUS
  <2>3. Escalated(c, inserted, marked, st, told)
    BY <2>1, <2>2
  <2>4. PICK call \in CallRow :
           /\ Put(c, call) /\ call.st = st /\ call.told = told /\ call.row \notin {"none", "agent_bypassed"}
           /\ call.setup = calls[c].setup /\ call.rest = calls[c].rest /\ call.number = calls[c].number
           /\ call.kind = calls[c].kind /\ call.moved = calls[c].moved /\ call.drifted = calls[c].drifted
           /\ call.stirred = calls[c].stirred /\ call.dialled = Null
           /\ call.faulted = (calls[c].faulted \/ ~inserted)
           /\ call.esc # 0 => call.esc \in DOMAIN escalations'
           /\ escalations' \in Seq(EscalationRow) /\ \A d \in Calls \ {c} : EscalationsKept(d)
           /\ inserted => \E e \in DOMAIN escalations' : Its(c, e)' /\ escalations'[e].rest = call.rest
    BY <1>1, <2>3, EscalatedRows
  <2>5. faults' \in 0..MaxFaults /\ (faults' = 0 => faults = 0)
    <3>1. <<inserted, marked>> \in Seq(BOOLEAN)
      OBVIOUS
    <3>2. Undone(<<inserted, marked>>) \in Nat
      BY <3>1, UndoneTyped
    <3>3. QED BY <1>2, <2>1, <3>2, FaultGrows
  <2>6. calls[c].rest \in Restaurants
    BY <1>1, <1>2 DEF CallInv, Homed, CallRow
  <2>7. errands' \in Seq(Errand)
    <3>1. calls'[c] = call
      BY <1>2, <2>4 DEF Put, TypeInv, CallsType
    <3>2. call.rest \in Restaurants /\ call.esc \in Nat
      BY <2>4, <2>6 DEF CallRow
    <3>3. EntityOf(call, c) \in Entities /\ "user_requested" \in NoticeKinds
      BY <3>2, EntityTyped DEF NoticeKinds
    <3>4. PICK n \in NoticeRow : n = UserRequested(call, c)
      BY <3>2, <3>3, NoticeTyped DEF UserRequested
    <3>5. <<n>> \in Seq(NoticeRow)
      OBVIOUS
    <3>6. << <<n>> >> \in Seq(Seq(NoticeRow)) /\ << <<n>> >> # << >>
      BY <3>5
    <3>7. PICK errand \in Errand : errand = << <<n>> >>
      BY <3>6 DEF Errand
    <3>8. << <<UserRequested(calls'[c], c)>> >> = errand
      BY <3>1, <3>4, <3>7, Zenon
    <3>9. errands' = Append(errands, errand) /\ errands \in Seq(Errand)
      BY <1>2, <2>1, <3>8 DEF TypeInv, TracesType
    <3>10. QED BY <3>9, Added
  <2>8. call.told = "connect" /\ ~call.stirred /\ ~call.faulted =>
           /\ Reaches(call.rest)
           /\ \E e \in DOMAIN escalations' : Its(c, e)' /\ escalations'[e].rest = call.rest
    <3>1. call.told = "connect" => Forwards(calls[c].saw)
      BY <2>2, <2>4
    <3>2. Forwards(calls[c].saw) /\ ~calls[c].stirred => Reaches(calls[c].rest)
      BY <1>1, <1>2 DEF CallInv, Promise
    <3>3. QED BY <2>4, <3>1, <3>2
  <2>9. call.told # "callback" => call.st = "left"
    BY <2>2, <2>4
  <2>10. notices' \in Seq(NoticeRow) /\ NoticesKept
    BY <1>1, <1>2, NoticesSame DEF TypeInv, TracesType
  <2>11. calls[c].st \in Talking /\ call.told # "transfer" /\ call.st \in {"agent", "left"}
         /\ call.told \in {"connect", "callback", "transfer"}
    BY <1>1, <2>2, <2>4 DEF Talking
  <2>12. QED BY <1>1, <2>4, <2>5, <2>6, <2>7, <2>8, <2>9, <2>10, <2>11, HandedOver
<1>5. QED BY <1>3, <1>4 DEF EscalateToHuman
(* The link that the agent was set up to send can be sent, as long as      *)
(* nothing failed, nobody edited the restaurant and its number is its own. *)
LEMMA LinkCanBeSent ==
  ASSUME IInv, NEW c \in Calls, calls[c].st = "texting", faults = 0, ~calls[c].drifted, ~calls[c].moved,
         HandoffRule(calls[c].setup, calls[c].kind) = "link"
  PROVE  Linked(calls[c].saw, StoredFeatures(calls[c].rest), calls[c].kind)
<1>1. calls[c] \in CallRow /\ CallInv(c) /\ TablesType /\ SettingsInv
  BY ItsCall DEF IInv
<1>2. calls[c].rest # Null /\ calls[c].setup # Null /\ calls[c].kind \in Kinds /\ calls[c].saw = restaurants[calls[c].rest]
  BY <1>1 DEF CallInv, Homed, Equipped
<1>3. PICK r \in Restaurants : r = calls[c].rest
  BY <1>1, <1>2 DEF CallRow
<1>4. PICK k \in Kinds : k = calls[c].kind
  BY <1>2
<1>5. IsLive(r) /\ calls[c].setup = StoredFeatures(r)
  BY <1>1, <1>2, <1>3 DEF CallInv, Equipped, Talking
<1>6. calls[c].number # Null /\ restaurants[r].number = calls[c].number
  BY <1>1, <1>2, <1>3 DEF CallInv, Homed, Answers
<1>7. StoredFeatures(r).redirect[k].on
  BY <1>4, <1>5 DEF HandoffRule, Get, NoRedirect
<1>8. StoredFeatures(r).redirect[k].url # Null
  <2>1. CASE features[r] = Null
    BY <1>7, <2>1 DEF StoredFeatures, DefaultFeatures, NoRedirect
  <2>2. CASE features[r] # Null
    BY <1>1, <1>7, <2>2 DEF StoredFeatures, SettingsInv, RedirectRulesHold
  <2>3. QED BY <2>1, <2>2
<1>9. QED BY <1>2, <1>3, <1>4, <1>5, <1>6, <1>7, <1>8 DEF Linked, IsLive

LEMMA TextStep ==
  ASSUME IInv, NEW c \in Calls, SendSmsRedirect(c)
  PROVE  IInv'
<1>1. calls[c].st = "texting" /\ UNCHANGED <<settings, errands, edits>>
  BY DEF SendSmsRedirect
<1>2. calls[c] \in CallRow /\ CallInv(c) /\ TablesType /\ TypeInv
  BY ItsCall DEF IInv
<1>3. PICK seen \in FlagReads(calls[c].rest) :
        LET linked == Linked(calls[c].saw, seen.flags, calls[c].kind) IN
        \/ /\ linked
           /\ Fault(seen.bad)
           /\ Put(c, [calls[c] EXCEPT !.st = "agent", !.saw = Null, !.kind = Null])
           /\ UNCHANGED <<escalations, notices>>
        \/ LinkFails(c, seen.bad, linked)
  BY DEF SendSmsRedirect
<1>4. seen.bad \in {0, 1} /\ (seen.bad = 0 => seen.flags = StoredFeatures(calls[c].rest))
  BY DEF FlagReads
<1>5. PICK linked \in BOOLEAN : linked <=> Linked(calls[c].saw, seen.flags, calls[c].kind)
  OBVIOUS
<1>6. CASE /\ Fault(seen.bad)
           /\ Put(c, [calls[c] EXCEPT !.st = "agent", !.saw = Null, !.kind = Null])
           /\ UNCHANGED <<escalations, notices>>
  <2>1. PICK call : call = [calls[c] EXCEPT !.st = "agent", !.saw = Null, !.kind = Null]
    OBVIOUS
  <2>2. call \in CallRow
    BY <1>2, <2>1 DEF CallRow, Places, Talking
  <2>3. faults' \in 0..MaxFaults /\ (faults' = 0 => faults = 0)
    BY <1>2, <1>4, <1>6, FaultGrows
  <2>4. QED BY <1>1, <1>6, <2>1, <2>2, <2>3, BackStep
<1>7. CASE LinkFails(c, seen.bad, Linked(calls[c].saw, seen.flags, calls[c].kind))
  <2>1. Linked(calls[c].saw, seen.flags, calls[c].kind) = linked
    BY <1>5 DEF Linked
  <2>2. PICK inserted \in BOOLEAN, marked \in BOOLEAN, noticed \in BOOLEAN :
           /\ Fault(seen.bad + Undone(<<~linked, inserted, marked, noticed>>))
           /\ Escalated(c, inserted, marked, "left", "transfer")
           /\ notices' = IF noticed
                         THEN Append(notices, Notice(calls[c].rest, "sms_redirect_failed", TRUE, FALSE,
                                                     EntityOf(calls'[c], c)))
                         ELSE notices
    BY <1>7, <2>1 DEF LinkFails
  <2>3. PICK call \in CallRow :
           /\ Put(c, call) /\ call.st = "left" /\ call.told = "transfer" /\ call.row \notin {"none", "agent_bypassed"}
           /\ call.setup = calls[c].setup /\ call.rest = calls[c].rest /\ call.number = calls[c].number
           /\ call.kind = calls[c].kind /\ call.moved = calls[c].moved /\ call.drifted = calls[c].drifted
           /\ call.stirred = calls[c].stirred /\ call.dialled = Null
           /\ call.faulted = (calls[c].faulted \/ ~inserted)
           /\ call.esc # 0 => call.esc \in DOMAIN escalations'
           /\ escalations' \in Seq(EscalationRow) /\ \A d \in Calls \ {c} : EscalationsKept(d)
           /\ inserted => \E e \in DOMAIN escalations' : Its(c, e)' /\ escalations'[e].rest = call.rest
    BY <1>1, <2>2, EscalatedRows
  <2>4. calls[c].rest \in Restaurants
    BY <1>1, <1>2 DEF CallInv, Homed, CallRow
  <2>5. faults' \in 0..MaxFaults /\ (faults' = 0 => faults = 0 /\ seen.bad = 0 /\ ~linked)
    <3>1. <<~linked, inserted, marked, noticed>> \in Seq(BOOLEAN)
      OBVIOUS
    <3>2. PICK n \in Nat : n = Undone(<<~linked, inserted, marked, noticed>>) /\ (n = 0 => ~linked)
      <4>1. 1 \in DOMAIN <<~linked, inserted, marked, noticed>> /\ <<~linked, inserted, marked, noticed>>[1] = ~linked
        OBVIOUS
      <4>2. QED BY <3>1, <4>1, UndoneTyped
    <3>3. seen.bad + n \in Nat /\ Fault(seen.bad + n) /\ (seen.bad + n = 0 => seen.bad = 0 /\ n = 0)
      BY <1>4, <2>2, <3>2
    <3>4. QED BY <1>2, <3>2, <3>3, FaultGrows
  <2>6. notices' \in Seq(NoticeRow) /\ NoticesKept
    <3>1. CASE noticed
      <4>1. calls'[c] = call
        BY <1>2, <2>3 DEF Put, TypeInv, CallsType
      <4>2. call.esc \in Nat
        BY <2>3 DEF CallRow
      <4>3. EntityOf(call, c) \in Entities /\ "sms_redirect_failed" \in NoticeKinds
        BY <4>2, EntityTyped DEF NoticeKinds
      <4>4. PICK n \in NoticeRow : n = Notice(calls[c].rest, "sms_redirect_failed", TRUE, FALSE, EntityOf(call, c))
        BY <2>4, <4>3, NoticeTyped
      <4>5. notices' = Append(notices, n)
        BY <2>2, <3>1, <4>1, <4>4
      <4>6. QED BY <1>2, <4>5, Noticed
    <3>2. CASE ~noticed
      BY <1>2, <2>2, <3>2, NoticesSame DEF TypeInv, TracesType
    <3>3. QED BY <3>1, <3>2
  <2>7. ASSUME call.setup # Null, faults' = 0, HandoffRule(call.setup, call.kind) = "link"
        PROVE  call.drifted \/ call.moved
    <3>1. faults = 0 /\ seen.bad = 0 /\ ~linked
      BY <2>5, <2>7
    <3>2. ~Linked(calls[c].saw, StoredFeatures(calls[c].rest), calls[c].kind)
      BY <1>4, <1>5, <3>1
    <3>3. HandoffRule(calls[c].setup, calls[c].kind) = "link"
      BY <2>3, <2>7
    <3>4. calls[c].drifted \/ calls[c].moved
      BY <1>1, <3>1, <3>2, <3>3, LinkCanBeSent
    <3>5. QED BY <2>3, <3>4
  <2>8. errands' \in Seq(Errand)
    BY <1>1, <1>2 DEF TypeInv, TracesType
  <2>9. calls[c].st \in Talking
    BY <1>1 DEF Talking
  <2>10. QED BY <1>1, <2>3, <2>4, <2>5, <2>6, <2>7, <2>8, <2>9, HandedOver
<1>8. QED BY <1>3, <1>6, <1>7

(* Numbers. *)
LEMMA LeastOf ==
  ASSUME NEW S \in SUBSET Nat, S # {}
  PROVE  \E x \in S : \A y \in S : x <= y
<1>1. PICK x \in S : \A y \in S : <<y, x>> \notin OpToRel(<, Nat)
  BY NatLessThanWellFounded, WFMin
<1>2. \A y \in S : ~(y < x)
  BY <1>1 DEF OpToRel
<1>3. QED BY <1>2

LEMMA GreatestOf ==
  ASSUME NEW n \in Nat, NEW S \in SUBSET (1..n), S # {}
  PROVE  Max(S) \in S
<1> DEFINE T == {m \in Nat : \A y \in S : y <= m}
<1>1. n \in T
  OBVIOUS
<1>2. PICK m \in T : \A k \in T : m <= k
  BY <1>1, LeastOf
<1>3. CASE m = 0
  <2>1. PICK y \in S : TRUE
    OBVIOUS
  <2>2. y <= 0 /\ y \in 1..n
    BY <1>2, <1>3, <2>1
  <2>3. QED BY <2>2
<1>4. CASE m # 0
  <2>1. m - 1 \notin T /\ m - 1 \in Nat
    BY <1>2, <1>4
  <2>2. m \in S
    BY <2>1, <1>2
  <2>3. \E x \in S : \A y \in S : x >= y
    BY <2>2, <1>2
  <2>4. QED BY <2>3 DEF Max
<1>5. QED BY <1>3, <1>4

(* Redirect finds an escalation of the call exactly when there is one.     *)
LEMMA LatestFound ==
  ASSUME TypeInv, NEW c, NEW r
  PROVE  /\ Latest(c, r) # 0 => /\ Latest(c, r) \in DOMAIN escalations
                                /\ Its(c, Latest(c, r)) /\ escalations[Latest(c, r)].rest = r
         /\ (\E e \in DOMAIN escalations : Its(c, e) /\ escalations[e].rest = r) => Latest(c, r) # 0
<1> DEFINE its == {e \in DOMAIN escalations : escalations[e].call = c /\ escalations[e].rest = r}
<1>1. PICK n \in Nat : DOMAIN escalations = 1..n
  BY DEF TypeInv, TracesType
<1>2. its \in SUBSET (1..n)
  BY <1>1
<1>3. its # {} => Max(its) \in its
  <2> HIDE DEF its
  <2>1. QED BY <1>2, GreatestOf
<1>4. Latest(c, r) = IF its = {} THEN 0 ELSE Max(its)
  BY DEF Latest
<1>5. its # {} => Latest(c, r) \in its /\ Latest(c, r) # 0
  BY <1>1, <1>3, <1>4
<1>6. its = {} => Latest(c, r) = 0
  BY <1>4
<1>7. (\E e \in DOMAIN escalations : Its(c, e) /\ escalations[e].rest = r) => its # {}
  BY DEF Its
<1>8. QED BY <1>5, <1>6, <1>7 DEF Its
(* What Twilio is told to do with a caller ends the call. *)
LEMMA OverStep ==
  ASSUME IInv, NEW c \in Calls, calls[c].st = "left", NEW call \in CallRow, Put(c, call),
         UNCHANGED <<settings, notices, errands, edits>>, escalations' \in Seq(EscalationRow),
         \A d \in Calls \ {c} : EscalationsKept(d),
         \A e \in DOMAIN escalations' : Its(c, e)' => Its(c, e),
         DOMAIN escalations \subseteq DOMAIN escalations',
         faults' \in 0..MaxFaults, faults' = 0 => faults = 0,
         call.st = "over", call.setup = calls[c].setup, call.rest = calls[c].rest, call.number = calls[c].number,
         call.told = calls[c].told, call.moved = calls[c].moved, call.drifted = calls[c].drifted,
         call.kind = calls[c].kind, call.row = calls[c].row, call.esc = calls[c].esc,
         call.told = "connect" => call.dialled # Null \/ call.stirred \/ call.moved \/ call.faulted,
         call.dialled # Null => \E e \in DOMAIN escalations : Its(c, e)
  PROVE  IInv'
<1>1. calls[c] \in CallRow /\ CallInv(c) /\ TablesType
  BY ItsCall
<1>2. /\ calls[c].row # "agent_bypassed"
      /\ calls[c].row = "escalated" => calls[c].told # "nothing"
      /\ calls[c].esc # 0 => calls[c].esc \in DOMAIN escalations
      /\ calls[c].row = "none" => \A e \in DOMAIN escalations : ~Its(c, e)
  BY <1>1 DEF CallInv, Rows
<1>3. TracesType'
  BY DEF IInv, TypeInv, TracesType
<1>4. TypeInv' /\ StepOf(c) /\ calls'[c] = call
  BY <1>3, PutStep, NoticesSame
<1>5. UNCHANGED <<restaurants, features>>
  BY DEF settings
<1>6. Homed(c)' /\ Fresh(c)'
  BY <1>1, <1>4, <1>5 DEF CallInv, Homed, Fresh, Answers, Staffed
<1>7. Promise(c)'
  BY <1>4 DEF Promise
<1>8. Rows(c)'
  <2>1. call.row \in {"none", "in_progress", "escalated"}
    BY <1>1, <1>2 DEF CallRow
  <2>2. call.dialled # Null => call.row # "none"
    BY <1>2
  <2>3. ~Bypassed(c)'
    BY <1>2, <1>4, <2>1, <2>2 DEF Bypassed
  <2>4. call.row = "none" => \A e \in DOMAIN escalations' : ~Its(c, e)'
    BY <1>2 DEF Its
  <2>5. call.esc # 0 => call.esc \in DOMAIN escalations'
    BY <1>2
  <2>6. QED BY <1>4, <2>3, <2>4, <2>5 DEF Rows, Talking, Staffed
<1>9. Equipped(c)'
  BY <1>1, <1>4 DEF CallInv, Equipped, Talking
<1>10. CallInv(c)'
  BY <1>4, <1>6, <1>7, <1>8, <1>9 DEF CallInv
<1>11. QED BY <1>4, <1>10, OneCall

(* The number that was called is its restaurant's alone. *)
LEMMA FoundHome ==
  ASSUME IInv, NEW c \in Calls, calls[c].rest # Null, ~calls[c].moved
  PROVE  Found(calls[c].number) = {calls[c].rest} /\ calls[c].rest \in Live
<1>1. calls[c] \in CallRow /\ CallInv(c) /\ TablesType /\ SettingsInv
  BY ItsCall DEF IInv
<1>2. PICK r \in Restaurants : r = calls[c].rest
  BY <1>1 DEF CallRow
<1>3. calls[c].number # Null /\ IsLive(r) /\ restaurants[r].number = calls[c].number
  BY <1>1, <1>2 DEF CallInv, Homed, Answers, IsLive
<1>4. \A s \in Live : s \in Restaurants /\ IsLive(s)
  BY <1>1, LiveRows
<1>5. r \in Live
  BY <1>1, <1>3, LiveRows
<1>6. ByNumber(calls[c].number) = {r}
  BY <1>1, <1>3, <1>4, <1>5 DEF ByNumber, SettingsInv
<1>7. QED BY <1>2, <1>5, <1>6 DEF Found

LEMMA RedirectStep ==
  ASSUME IInv, NEW c \in Calls, Redirect(c)
  PROVE  IInv'
<1>1. calls[c].st = "left" /\ UNCHANGED <<settings, notices, errands, edits>>
  BY DEF Redirect
<1>2. calls[c] \in CallRow /\ CallInv(c) /\ TablesType /\ TypeInv
  BY ItsCall DEF IInv
<1>3. PICK r \in Found(calls[c].number) : \E seen \in RowReads(r) :
        \/ /\ ~Forwards(seen.row) \/ Latest(c, r) = 0
           /\ Fault(seen.bad) /\ Put(c, [calls[c] EXCEPT !.st = "over", !.faulted = @ \/ seen.bad > 0])
           /\ UNCHANGED escalations
        \/ /\ Forwards(seen.row) /\ Latest(c, r) # 0
           /\ escalations' = WriteStatus(Latest(c, r), "forwarded")
           /\ Fault(seen.bad)
           /\ Put(c, [calls[c] EXCEPT !.st = "over", !.dialled = seen.row.phone])
        \/ /\ Forwards(seen.row) /\ Latest(c, r) # 0
           /\ \/ /\ Fault(1) /\ Put(c, [calls[c] EXCEPT !.st = "over", !.faulted = @ \/ 1 > 0])
                 /\ escalations' = WriteStatus(Latest(c, r), "failed")
              \/ /\ Fault(2) /\ Put(c, [calls[c] EXCEPT !.st = "over", !.faulted = @ \/ 2 > 0])
                 /\ UNCHANGED escalations
  BY DEF Redirect
<1>4. PICK seen \in RowReads(r) :
        \/ /\ ~Forwards(seen.row) \/ Latest(c, r) = 0
           /\ Fault(seen.bad) /\ Put(c, [calls[c] EXCEPT !.st = "over", !.faulted = @ \/ seen.bad > 0])
           /\ UNCHANGED escalations
        \/ /\ Forwards(seen.row) /\ Latest(c, r) # 0
           /\ escalations' = WriteStatus(Latest(c, r), "forwarded")
           /\ Fault(seen.bad)
           /\ Put(c, [calls[c] EXCEPT !.st = "over", !.dialled = seen.row.phone])
        \/ /\ Forwards(seen.row) /\ Latest(c, r) # 0
           /\ \/ /\ Fault(1) /\ Put(c, [calls[c] EXCEPT !.st = "over", !.faulted = @ \/ 1 > 0])
                 /\ escalations' = WriteStatus(Latest(c, r), "failed")
              \/ /\ Fault(2) /\ Put(c, [calls[c] EXCEPT !.st = "over", !.faulted = @ \/ 2 > 0])
                 /\ UNCHANGED escalations
  BY <1>3
<1>5. r \in Restaurants \cup {Null}
  BY <1>2, LiveRows DEF Found, ByNumber
<1>6. /\ seen.bad \in {0, 1}
      /\ Forwards(seen.row) => seen.row.phone # Null /\ seen.row.phone \in Phones
      /\ seen.bad = 0 /\ r \in Live => seen.row = restaurants[r]
  BY <1>2, <1>5, RowReadsTyped
<1>7. /\ Latest(c, r) # 0 => Latest(c, r) \in DOMAIN escalations /\ Its(c, Latest(c, r))
      /\ (\E e \in DOMAIN escalations : Its(c, e) /\ escalations[e].rest = r) => Latest(c, r) # 0
  BY <1>2, LatestFound
<1>8. PICK e : e = Latest(c, r)
  OBVIOUS
<1>9. ASSUME NEW n \in Nat, NEW bad \in BOOLEAN, Fault(n), Put(c, [calls[c] EXCEPT !.st = "over", !.faulted = @ \/ bad]),
             \/ UNCHANGED escalations
             \/ e # 0 /\ escalations' = WriteStatus(e, "failed"),
             calls[c].told = "connect" => calls[c].stirred \/ calls[c].moved \/ calls[c].faulted \/ bad
      PROVE  IInv'
  <2>1. PICK torn \in BOOLEAN : torn = (calls[c].faulted \/ bad)
    OBVIOUS
  <2>2. PICK call : call = [calls[c] EXCEPT !.st = "over", !.faulted = torn]
    OBVIOUS
  <2>3. call = [calls[c] EXCEPT !.st = "over", !.faulted = @ \/ bad]
    BY <1>2, <2>1, <2>2 DEF CallRow
  <2>4. Put(c, call)
    BY <1>9, <2>3, Zenon
  <2>5. call \in CallRow
    BY <1>2, <2>2 DEF CallRow, Places
  <2>6. /\ call.st = "over" /\ call.setup = calls[c].setup /\ call.rest = calls[c].rest /\ call.number = calls[c].number
        /\ call.told = calls[c].told /\ call.moved = calls[c].moved /\ call.drifted = calls[c].drifted
        /\ call.kind = calls[c].kind /\ call.row = calls[c].row /\ call.esc = calls[c].esc
        /\ call.dialled = calls[c].dialled /\ call.stirred = calls[c].stirred /\ call.faulted = torn
    BY <1>2, <2>2 DEF CallRow
  <2>7. call.dialled = Null
    BY <1>1, <1>2, <2>6 DEF CallInv, Rows
  <2>8. faults' \in 0..MaxFaults /\ (faults' = 0 => faults = 0)
    BY <1>2, <1>9, FaultGrows
  <2>9. /\ escalations' \in Seq(EscalationRow) /\ \A d \in Calls \ {c} : EscalationsKept(d)
        /\ \A k \in DOMAIN escalations' : Its(c, k)' => Its(c, k)
        /\ DOMAIN escalations \subseteq DOMAIN escalations'
    <3>1. CASE UNCHANGED escalations
      BY <1>2, <3>1, EscalationsSame DEF TypeInv, TracesType, Its
    <3>2. CASE e # 0 /\ escalations' = WriteStatus(e, "failed")
      BY <1>2, <1>7, <1>8, <3>2, Rewritten DEF Statuses
    <3>3. QED BY <1>9, <3>1, <3>2
  <2>10. call.told = "connect" => call.dialled # Null \/ call.stirred \/ call.moved \/ call.faulted
    BY <1>9, <2>1, <2>6
  <2>11. QED BY <1>1, <2>4, <2>5, <2>6, <2>7, <2>8, <2>9, <2>10, OverStep
<1>10. CASE /\ ~Forwards(seen.row) \/ Latest(c, r) = 0
            /\ Fault(seen.bad) /\ Put(c, [calls[c] EXCEPT !.st = "over", !.faulted = @ \/ seen.bad > 0])
            /\ UNCHANGED escalations
  <2>1. PICK bad \in BOOLEAN : (bad <=> seen.bad > 0) /\ (seen.bad = 0 => ~bad) /\ (seen.bad # 0 => bad)
    <3>1. CASE seen.bad = 0
      <4>1. FALSE <=> seen.bad > 0
        BY <3>1
      <4>2. QED BY <3>1, <4>1
    <3>2. CASE seen.bad # 0
      <4>1. TRUE <=> seen.bad > 0
        BY <1>6, <3>2
      <4>2. QED BY <3>2, <4>1
    <3>3. QED BY <3>1, <3>2
  <2>2. Put(c, [calls[c] EXCEPT !.st = "over", !.faulted = @ \/ bad])
    <3>1. (calls[c].faulted \/ seen.bad > 0) = (calls[c].faulted \/ bad)
      BY <2>1
    <3>2. QED BY <1>10, <3>1
  <2>3. ASSUME calls[c].told = "connect", ~calls[c].stirred, ~calls[c].moved, ~calls[c].faulted, seen.bad = 0
        PROVE  FALSE
    <3>1. calls[c].rest # Null
      BY <1>2, <2>3 DEF CallInv, Homed
    <3>2. r = calls[c].rest /\ r \in Live
      BY <2>3, <3>1, FoundHome
    <3>3. seen.row = restaurants[r]
      BY <1>6, <2>3, <3>2
    <3>4. Reaches(r) /\ \E k \in DOMAIN escalations : Its(c, k) /\ escalations[k].rest = r
      BY <1>1, <1>2, <2>3, <3>2 DEF CallInv, Promise
    <3>5. Forwards(seen.row) /\ Latest(c, r) # 0
      BY <1>7, <3>3, <3>4 DEF Forwards, Reaches, IsLive
    <3>6. QED BY <1>10, <3>5
  <2>4. calls[c].told = "connect" => calls[c].stirred \/ calls[c].moved \/ calls[c].faulted \/ bad
    BY <1>6, <2>1, <2>3
  <2>5. seen.bad \in Nat
    BY <1>6
  <2>6. QED BY <1>9, <1>10, <2>2, <2>4, <2>5
<1>11. CASE /\ Forwards(seen.row) /\ Latest(c, r) # 0
            /\ escalations' = WriteStatus(Latest(c, r), "forwarded")
            /\ Fault(seen.bad)
            /\ Put(c, [calls[c] EXCEPT !.st = "over", !.dialled = seen.row.phone])
  <2>1. PICK phone \in Phones : phone = seen.row.phone /\ phone # Null
    BY <1>6, <1>11
  <2>2. PICK call : call = [calls[c] EXCEPT !.st = "over", !.dialled = phone]
    OBVIOUS
  <2>3. Put(c, call)
    BY <1>11, <2>1, <2>2
  <2>4. call \in CallRow
    BY <1>2, <2>2 DEF CallRow, Places
  <2>5. /\ call.st = "over" /\ call.setup = calls[c].setup /\ call.rest = calls[c].rest /\ call.number = calls[c].number
        /\ call.told = calls[c].told /\ call.moved = calls[c].moved /\ call.drifted = calls[c].drifted
        /\ call.kind = calls[c].kind /\ call.row = calls[c].row /\ call.esc = calls[c].esc
        /\ call.dialled = phone
    BY <1>2, <2>2 DEF CallRow
  <2>6. faults' \in 0..MaxFaults /\ (faults' = 0 => faults = 0)
    BY <1>2, <1>6, <1>11, FaultGrows
  <2>7. e \in DOMAIN escalations /\ Its(c, e) /\ escalations' = WriteStatus(e, "forwarded")
    BY <1>7, <1>8, <1>11
  <2>8. /\ escalations' \in Seq(EscalationRow) /\ \A d \in Calls \ {c} : EscalationsKept(d)
        /\ \A k \in DOMAIN escalations' : Its(c, k)' => Its(c, k)
        /\ DOMAIN escalations \subseteq DOMAIN escalations'
    BY <1>2, <2>7, Rewritten DEF Statuses
  <2>9. QED BY <1>1, <2>1, <2>3, <2>4, <2>5, <2>6, <2>7, <2>8, OverStep
<1>12. CASE /\ Forwards(seen.row) /\ Latest(c, r) # 0
            /\ \/ /\ Fault(1) /\ Put(c, [calls[c] EXCEPT !.st = "over", !.faulted = @ \/ 1 > 0])
                  /\ escalations' = WriteStatus(Latest(c, r), "failed")
               \/ /\ Fault(2) /\ Put(c, [calls[c] EXCEPT !.st = "over", !.faulted = @ \/ 2 > 0])
                  /\ UNCHANGED escalations
  <2>1. 1 > 0 /\ 2 > 0 /\ TRUE \in BOOLEAN /\ 1 \in Nat /\ 2 \in Nat
    OBVIOUS
  <2>2. \A n : n > 0 => (calls[c].faulted \/ n > 0) = (calls[c].faulted \/ TRUE)
    OBVIOUS
  <2>3. Put(c, [calls[c] EXCEPT !.st = "over", !.faulted = @ \/ TRUE])
    BY <1>12, <2>1, <2>2
  <2>4. QED BY <1>8, <1>9, <1>12, <2>1, <2>3
<1>13. QED BY <1>4, <1>10, <1>11, <1>12
-----------------------------------------------------------------------------
(***************************************************************************)
(* The specification.                                                      *)
(***************************************************************************)
LEMMA InitInv ==
  ASSUME SwitchInit
  PROVE  IInv
<1>1. /\ restaurants = RestaurantRows /\ features = FeatureRows /\ notices = << >> /\ escalations = << >>
      /\ errands = << >> /\ calls = [c \in Calls |-> NewCall] /\ edits = 0 /\ faults = 0 /\ blind = {}
  BY DEF SwitchInit
<1>2. NewCall \in CallRow
  BY DEF NewCall, CallRow, Places
<1>3. TypeInv
  <2>1. TracesType
    BY <1>1 DEF TracesType
  <2>2. TablesType
    BY <1>1, SwitchboardAssumption DEF TablesType
  <2>3. CallsType /\ edits \in 0..MaxEdits
    BY <1>1, <1>2, SwitchboardAssumption DEF CallsType
  <2>4. QED BY <2>1, <2>2, <2>3 DEF TypeInv
<1>4. SettingsInv
  <2>1. IsStart(RestaurantRows, FeatureRows) /\ \A r \in Restaurants : RestaurantRows[r] \in Row \cup {Null}
    BY SwitchboardAssumption
  <2>2. \A r \in Restaurants : IsLive(r) <=> restaurants[r] # Null
    BY <1>1, <2>1, SwitchboardAssumption DEF IsLive
  <2>3. \A r \in Restaurants : IsLive(r) /\ restaurants[r].kill => Reaches(r)
    BY <1>1, <2>1, <2>2 DEF IsStart, Reaches
  <2>4. ASSUME NEW r \in Restaurants, NEW s \in Restaurants, IsLive(r), IsLive(s),
               restaurants[r].number = restaurants[s].number, restaurants[r].number # Null, r # s
        PROVE  FALSE
    BY <1>1, <2>1, <2>2, <2>4 DEF IsStart
  <2>5. \A r \in Restaurants : features[r] # Null => IsLive(r) /\ RedirectRulesHold(features[r])
    BY <1>1, <2>1, <2>2 DEF IsStart
  <2>6. QED BY <2>3, <2>4, <2>5 DEF SettingsInv
<1>5. ASSUME NEW c \in Calls PROVE CallInv(c)
  <2>1. calls[c] = NewCall
    BY <1>1
  <2>2. Fresh(c) /\ Homed(c)
    BY <2>1 DEF Fresh, Homed, NewCall, Staffed
  <2>3. Promise(c)
    BY <2>1 DEF Promise, NewCall
  <2>4. Rows(c)
    BY <1>1, <2>1 DEF Rows, NewCall, Talking, Staffed, Bypassed
  <2>5. Equipped(c)
    BY <2>1 DEF Equipped, NewCall
  <2>6. QED BY <2>2, <2>3, <2>4, <2>5 DEF CallInv
<1>6. QED BY <1>3, <1>4, <1>5 DEF IInv, CallsInv

LEMMA StutterInv ==
  ASSUME IInv, UNCHANGED switchVars
  PROVE  IInv'
<1>1. /\ UNCHANGED <<settings, notices, escalations, errands, calls, edits, faults>>
      /\ UNCHANGED <<restaurants, features>>
  BY DEF switchVars, settings
<1>2. TypeInv
  BY DEF IInv
<1>3. TracesType' /\ faults' \in 0..MaxFaults /\ edits' \in 0..MaxEdits
  BY <1>1, <1>2 DEF TypeInv, TracesType, TablesType
<1>4. TypeInv'
  BY <1>1, <1>2, <1>3, QuietTypes
<1>5. QED BY <1>1, <1>4, NoCall, EscalationsSame, NoticesSame

LEMMA NextInv ==
  ASSUME IInv, SwitchNext
  PROVE  IInv'
<1>1. CASE Settings
  <2>1. PICK r \in Restaurants :
          \/ \E p \in Payloads : CreateRestaurant(r, p) \/ UpdateRestaurant(r, p)
          \/ DeleteRestaurant(r)
          \/ \E on \in BOOLEAN : SetRestaurantKillSwitch(r, on) \/ MarkAllRead(r, on)
          \/ \E n \in DOMAIN notices : MarkNotificationRead(r, n)
    BY <1>1 DEF Settings
  <2>2. CASE \E p \in Payloads : CreateRestaurant(r, p) \/ UpdateRestaurant(r, p)
    BY <2>2, CreateStep, UpdateStep
  <2>3. CASE DeleteRestaurant(r)
    BY <2>3, DeleteStep
  <2>4. CASE \E on \in BOOLEAN : SetRestaurantKillSwitch(r, on) \/ MarkAllRead(r, on)
    BY <2>4, SwitchStep, MarkAllStep
  <2>5. CASE \E n \in DOMAIN notices : MarkNotificationRead(r, n)
    BY <2>5, MarkReadStep
  <2>6. QED BY <2>1, <2>2, <2>3, <2>4, <2>5
<1>2. CASE \E on \in BOOLEAN : SetAllKillSwitches(on)
  BY <1>2, SwitchAllStep
<1>3. CASE Staff
  BY <1>3, StaffStep DEF Staff
<1>4. CASE \E i \in DOMAIN errands : Tell(i)
  BY <1>4, TellStep
<1>5. ASSUME NEW c \in Calls, Bypass(c) PROVE IInv'
  BY <1>5, UserStep, RowStep, FinalizeStep, RaisedStep, ForwardStep, NotifyStep DEF Bypass
<1>6. ASSUME NEW c \in Calls, HandOver(c) PROVE IInv'
  BY <1>6, StartStep, HumanStep, TextStep, RedirectStep DEF HandOver
<1>7. ASSUME NEW c \in Calls, Caller(c) PROVE IInv'
  BY <1>7, VoiceStep, AskForStep, EndStep, HangUpStep DEF Caller
<1>8. QED BY <1>1, <1>2, <1>3, <1>4, <1>5, <1>6, <1>7 DEF SwitchNext

(* In every reachable state the tables have their types, the settings keep *)
(* their rules, and each call is as far as its rows and promises say.      *)
THEOREM Invariant == SwitchSpec => []IInv
<1>1. SwitchInit => IInv
  BY InitInv
<1>2. IInv /\ [SwitchNext]_switchVars => IInv'
  BY NextInv, StutterInv
<1>3. QED BY <1>1, <1>2, PTL DEF SwitchSpec

(* Rows, requests and notices have the shape that the tables give them: no *)
(* notice without its restaurant, no features without theirs, no errand    *)
(* that has nothing to write.                                              *)
THEOREM SwitchTypes == SwitchSpec => []SwitchTypeOK
<1>1. ASSUME IInv PROVE SwitchTypeOK
  <2>1. TablesType /\ CallsType /\ TracesType /\ edits \in 0..MaxEdits /\ SettingsInv
    BY <1>1 DEF IInv, TypeInv
  <2>2. \A r \in Restaurants : features[r] # Null => r \in Live
    BY <2>1, LiveRows DEF SettingsInv
  <2>3. \A e \in DOMAIN escalations : escalations[e].call \in Calls /\ escalations[e].status \in Statuses
    <3>1. \A e \in DOMAIN escalations : escalations[e] \in EscalationRow
      BY <2>1 DEF TracesType
    <3>2. QED BY <3>1 DEF EscalationRow
  <2>4. ASSUME NEW c \in Calls PROVE calls[c].esc \in 0..Len(escalations)
    <3>1. calls[c].esc \in Nat /\ (calls[c].esc # 0 => calls[c].esc \in DOMAIN escalations)
      BY <1>1, ItsCall DEF CallInv, Rows, CallRow
    <3>2. DOMAIN escalations = 1..Len(escalations) /\ Len(escalations) \in Nat
      BY <2>1 DEF TracesType
    <3>3. QED BY <3>1, <3>2
  <2>5. \A n \in DOMAIN notices : Storable(notices[n])
    <3>1. \A n \in DOMAIN notices : notices[n] \in NoticeRow
      BY <2>1 DEF TracesType
    <3>2. QED BY <3>1 DEF NoticeRow
  <2>6. \A i \in DOMAIN errands : errands[i] # << >>
    <3>1. \A i \in DOMAIN errands : errands[i] \in Errand
      BY <2>1 DEF TracesType
    <3>2. QED BY <3>1 DEF Errand
  <2>7. QED BY <2>1, <2>2, <2>3, <2>4, <2>5, <2>6 DEF SwitchTypeOK, TablesType
<1>2. QED BY <1>1, Invariant, PTL

(* A restaurant whose switch is on forwards to a phone, unless an update   *)
(* of it was checked against a degraded read, and its stored features keep *)
(* the rules of the SMS redirect: whatever both dashboards send, in        *)
(* whatever order, one by one or in bulk, and whichever statement fails.   *)
THEOREM SettingsAreSound == SwitchSpec => []SettingsHold
<1>1. ASSUME IInv PROVE SettingsHold
  <2>1. TablesType /\ SettingsInv
    BY <1>1 DEF IInv, TypeInv
  <2>2. SwitchNeedsForwarding
    BY <2>1, LiveRows DEF SwitchNeedsForwarding, SettingsInv, RedirectReady, Reaches
  <2>3. RedirectRules
    BY <2>1 DEF RedirectRules, SettingsInv
  <2>4. QED BY <2>2, <2>3 DEF SettingsHold
<1>2. QED BY <1>1, Invariant, PTL

(* A caller who was promised the staff gets them, and one whom the agent   *)
(* was set up to send a link is not told that it cannot be sent, however   *)
(* many calls, edits and failures run beside each other; and every agent   *)
(* has the functions for what it says that it can do.                      *)
THEOREM PromisesKept == SwitchSpec => []TransferKept
<1>1. ASSUME IInv PROVE TransferKept
  <2>1. ASSUME NEW c \in Calls, calls[c].st = "over", calls[c].told = "connect"
        PROVE  \/ calls[c].dialled # Null \/ calls[c].hungUp
               \/ calls[c].stirred \/ calls[c].moved \/ calls[c].faulted
    BY <1>1, <2>1, ItsCall DEF CallInv, Promise
  <2>2. ASSUME NEW c \in Calls, calls[c].setup # Null PROVE EquippedAsTold(calls[c].setup)
    <3>1. calls[c].setup \in Features
      BY <1>1, <2>2, ItsCall DEF CallRow
    <3>2. QED BY <3>1, EquippedLemma
  <2>3. ASSUME NEW c \in Calls, calls[c].setup # Null, calls[c].told = "transfer", faults = 0,
               HandoffRule(calls[c].setup, calls[c].kind) = "link"
        PROVE  calls[c].drifted \/ calls[c].moved
    BY <1>1, <2>3, ItsCall DEF CallInv, Equipped
  <2>4. QED BY <2>1, <2>2, <2>3 DEF TransferKept, TransferHolds, LinkHolds
<1>2. QED BY <1>1, Invariant, PTL

(* A call that the kill switch sent to the staff leaves its row, its       *)
(* escalation and the notice of that escalation, and no statement of the   *)
(* bypass that fails leaves an escalation without the row of its call.     *)
THEOREM BypassIsAccounted == SwitchSpec => []BypassAccounted
<1>1. ASSUME IInv PROVE BypassAccounted
  <2>1. TracesType
    BY <1>1 DEF IInv, TypeInv
  <2>2. ASSUME NEW e \in DOMAIN escalations PROVE calls[escalations[e].call].row # "none"
    <3>1. PICK c \in Calls : c = escalations[e].call
      <4>1. escalations[e] \in EscalationRow
        BY <2>1 DEF TracesType
      <4>2. QED BY <4>1 DEF EscalationRow
    <3>2. Its(c, e)
      BY <3>1 DEF Its
    <3>3. QED BY <1>1, <3>1, <3>2, ItsCall DEF CallInv, Rows
  <2>3. ASSUME NEW c \in Calls, Bypassed(c), ~calls[c].faulted
        PROVE  /\ calls[c].row = "agent_bypassed"
               /\ \E e \in DOMAIN escalations :
                    /\ escalations[e].call = c
                    /\ escalations[e].status = "forwarded" \/ escalations[e].staff
                    /\ \E n \in InboxOf(calls[c].rest) : notices[n].entity = <<"escalation", e>>
    <3>1. /\ Settled(c)
          /\ \E n \in DOMAIN notices : notices[n].rest = calls[c].rest /\ notices[n].entity = <<"escalation", calls[c].esc>>
      BY <1>1, <2>3, ItsCall DEF CallInv, Rows
    <3>2. QED BY <3>1 DEF Settled, Its, InboxOf
  <2>4. QED BY <2>2, <2>3 DEF BypassAccounted
<1>2. QED BY <1>1, Invariant, PTL

(* Whatever week the dashboards have written, both computations of the     *)
(* hours find a restaurant open at every moment that its rows promise,     *)
(* through midnight and around the week, for every zone.                   *)
THEOREM HoursKept == SwitchSpec => []NeverTurnedAway
<1>1. ASSUME IInv PROVE NeverTurnedAway
  <2>1. ASSUME NEW r \in Live PROVE restaurants[r].hours \in [Days -> DayRow]
    BY <1>1, LiveRows DEF IInv, TypeInv, Row
  <2>2. QED BY <2>1, OpenLemma DEF NeverTurnedAway
<1>2. QED BY <1>1, Invariant, PTL
-----------------------------------------------------------------------------
(***************************************************************************)
(* Turns and notices.  They are counted: the notices written, those that   *)
(* errands still hold, and those lost with a statement that failed.        *)
(***************************************************************************)
PendingIn(errs, r, on) ==
  UNION {UNION {{<<i, j, k>> : k \in Tells(errs[i][j], r, on)} : j \in DOMAIN errs[i]} : i \in DOMAIN errs}

Counts == [Restaurants -> [BOOLEAN -> Nat]]

PendingTold(r, on) == Cardinality(PendingIn(errands, r, on))
Written(r, on)     == Cardinality(Tells(notices, r, on))

CountInv ==
  /\ turned \in Counts /\ untold \in Counts
  /\ ~misread => \A r \in Restaurants, on \in BOOLEAN :
       turned[r][on] = Written(r, on) + PendingTold(r, on) + untold[r][on]

LEMMA PlaceOf ==
  ASSUME NEW errs, NEW r, NEW on, NEW x \in PendingIn(errs, r, on)
  PROVE  \E i \in DOMAIN errs : \E j \in DOMAIN errs[i] : \E k \in Tells(errs[i][j], r, on) : x = <<i, j, k>>
  BY DEF PendingIn

LEMMA InPending ==
  ASSUME NEW errs, NEW r, NEW on, NEW i, NEW j, NEW k
  PROVE  <<i, j, k>> \in PendingIn(errs, r, on) <=>
           i \in DOMAIN errs /\ j \in DOMAIN errs[i] /\ k \in Tells(errs[i][j], r, on)
<1>1. ASSUME <<i, j, k>> \in PendingIn(errs, r, on)
      PROVE  i \in DOMAIN errs /\ j \in DOMAIN errs[i] /\ k \in Tells(errs[i][j], r, on)
  <2>1. PICK a \in DOMAIN errs : \E b \in DOMAIN errs[a] : \E d \in Tells(errs[a][b], r, on) : <<i, j, k>> = <<a, b, d>>
    BY <1>1, PlaceOf
  <2>2. PICK b \in DOMAIN errs[a] : \E d \in Tells(errs[a][b], r, on) : <<i, j, k>> = <<a, b, d>>
    BY <2>1
  <2>3. PICK d \in Tells(errs[a][b], r, on) : <<i, j, k>> = <<a, b, d>>
    BY <2>2
  <2>4. i = a /\ j = b /\ k = d
    BY <2>3
  <2>5. QED BY <2>4
<1>2. ASSUME i \in DOMAIN errs, j \in DOMAIN errs[i], k \in Tells(errs[i][j], r, on)
      PROVE  <<i, j, k>> \in PendingIn(errs, r, on)
  BY <1>2 DEF PendingIn
<1>3. QED BY <1>1, <1>2

LEMMA TellsFinite ==
  ASSUME NEW S, NEW batch \in Seq(S), NEW r, NEW on
  PROVE  IsFiniteSet(Tells(batch, r, on)) /\ Cardinality(Tells(batch, r, on)) \in Nat
<1>1. IsFiniteSet(1..Len(batch))
  BY FS_Interval
<1>2. Tells(batch, r, on) \in SUBSET (1..Len(batch))
  BY DEF Tells
<1>3. IsFiniteSet(Tells(batch, r, on))
  BY <1>1, <1>2, FS_Subset
<1>4. QED BY <1>3, FS_CardinalityType

(* The places of what one batch holds. *)
PlacesOf(T, i, j) == {<<i, j, k>> : k \in T}

LEMMA Column ==
  ASSUME NEW T, IsFiniteSet(T), NEW i, NEW j
  PROVE  IsFiniteSet(PlacesOf(T, i, j)) /\ Cardinality(PlacesOf(T, i, j)) = Cardinality(T)
<1>1. PICK C : C = PlacesOf(T, i, j)
  OBVIOUS
<1> DEFINE f == [k \in T |-> <<i, j, k>>]
<1>2. f \in [T -> C]
  BY <1>1 DEF PlacesOf
<1>3. ASSUME NEW a \in T, NEW b \in T, f[a] = f[b] PROVE a = b
  BY <1>3
<1>4. ASSUME NEW x \in C PROVE \E k \in T : f[k] = x
  BY <1>1 DEF PlacesOf
<1>5. f \in Bijection(T, C)
  <2> HIDE DEF f
  <2>1. f \in Injection(T, C)
    BY <1>2, <1>3 DEF Injection, IsInjective
  <2>2. f \in Surjection(T, C)
    BY <1>2, <1>4 DEF Surjection
  <2>3. QED BY <2>1, <2>2 DEF Bijection
<1>6. ExistsBijection(T, C)
  BY <1>5 DEF ExistsBijection
<1>7. QED BY <1>1, <1>6, FS_Bijection

LEMMA Unions ==
  ASSUME NEW n \in Nat, NEW f, \A i \in 1..n : IsFiniteSet(f[i])
  PROVE  IsFiniteSet(UNION {f[i] : i \in 1..n})
<1> DEFINE S == {f[i] : i \in 1..n}
<1>1. [i \in 1..n |-> f[i]] \in Surjection(1..n, S)
  BY DEF Surjection
<1>2. IsFiniteSet(1..n)
  <2>1. 1 \in Int /\ n \in Int
    OBVIOUS
  <2>2. QED BY <2>1, FS_Interval
<1>3. IsFiniteSet(S)
  BY <1>1, <1>2, FS_Surjection
<1>4. \A T \in S : IsFiniteSet(T)
  OBVIOUS
<1>5. QED BY <1>3, <1>4, FS_UNION

LEMMA PendingFinite ==
  ASSUME NEW errs \in Seq(Errand), NEW r, NEW on
  PROVE  IsFiniteSet(PendingIn(errs, r, on)) /\ Cardinality(PendingIn(errs, r, on)) \in Nat
<1> DEFINE of(i, j) == {<<i, j, k>> : k \in Tells(errs[i][j], r, on)}
           row(i)   == UNION {of(i, j) : j \in DOMAIN errs[i]}
           rows     == [i \in 1..Len(errs) |-> row(i)]
<1>1. ASSUME NEW i \in 1..Len(errs) PROVE IsFiniteSet(row(i))
  <2>1. errs[i] \in Seq(Seq(NoticeRow))
    BY DEF Errand
  <2>2. PICK m \in Nat : DOMAIN errs[i] = 1..m
    BY <2>1
  <2>3. ASSUME NEW j \in 1..m PROVE IsFiniteSet(of(i, j))
    <3>1. errs[i][j] \in Seq(NoticeRow)
      BY <2>1, <2>2
    <3>2. IsFiniteSet(Tells(errs[i][j], r, on))
      BY <3>1, TellsFinite
    <3>3. of(i, j) = PlacesOf(Tells(errs[i][j], r, on), i, j)
      BY DEF PlacesOf
    <3>4. QED BY <3>2, <3>3, Column
  <2>4. PICK g : g = [j \in 1..m |-> of(i, j)]
    OBVIOUS
  <2>5. \A j \in 1..m : g[j] = of(i, j)
    BY <2>4
  <2>6. IsFiniteSet(UNION {g[j] : j \in 1..m})
    <3>1. \A j \in 1..m : IsFiniteSet(g[j])
      BY <2>3, <2>5
    <3>2. QED BY <3>1, Unions
  <2>7. {g[j] : j \in 1..m} = {of(i, j) : j \in 1..m}
    <3> HIDE DEF of
    <3>1. QED BY <2>5, Zenon
  <2>8. QED BY <2>2, <2>6, <2>7
<1>2. \A i \in 1..Len(errs) : rows[i] = row(i)
  OBVIOUS
<1>3. PICK g : g = rows
  OBVIOUS
<1>4. \A i \in 1..Len(errs) : g[i] = row(i) /\ IsFiniteSet(g[i])
  BY <1>1, <1>2, <1>3
<1>5. IsFiniteSet(UNION {g[i] : i \in 1..Len(errs)})
  <2>1. Len(errs) \in Nat
    OBVIOUS
  <2>2. QED BY <1>4, <2>1, Unions
<1>6. {g[i] : i \in 1..Len(errs)} = {row(i) : i \in 1..Len(errs)}
  <2> HIDE DEF row
  <2>1. QED BY <1>4, Zenon
<1>7. PendingIn(errs, r, on) = UNION {row(i) : i \in DOMAIN errs}
  BY DEF PendingIn
<1>8. DOMAIN errs = 1..Len(errs)
  OBVIOUS
<1>9. IsFiniteSet(PendingIn(errs, r, on))
  BY <1>5, <1>6, <1>7, <1>8
<1>10. QED BY <1>9, FS_CardinalityType

LEMMA Disjoint ==
  ASSUME NEW A, NEW B, IsFiniteSet(A), IsFiniteSet(B), A \cap B = {}
  PROVE  Cardinality(A \cup B) = Cardinality(A) + Cardinality(B)
<1>1. Cardinality(A \cup B) = Cardinality(A) + Cardinality(B) - Cardinality(A \cap B)
  BY FS_Union
<1>2. Cardinality(A) \in Nat /\ Cardinality(B) \in Nat /\ Cardinality(A \cap B) = 0
  BY FS_CardinalityType, FS_EmptySet
<1>3. QED BY <1>1, <1>2

(* A new errand tells what its first batch tells. *)
LEMMA ErrandAdded ==
  ASSUME NEW errs \in Seq(Errand), NEW e \in Errand, NEW r, NEW on,
         \A j \in DOMAIN e \ {1} : Tells(e[j], r, on) = {}
  PROVE  Cardinality(PendingIn(Append(errs, e), r, on))
           = Cardinality(PendingIn(errs, r, on)) + Cardinality(Tells(e[1], r, on))
<1> DEFINE P == PendingIn(errs, r, on)
           Q == PendingIn(Append(errs, e), r, on)
<1>1. PICK n \in Nat : n = Len(errs)
  OBVIOUS
<1>2. PICK both \in Seq(Errand) : both = Append(errs, e)
  BY Added
<1>3. /\ DOMAIN errs = 1..n /\ DOMAIN both = 1..(n + 1) /\ both[n + 1] = e
      /\ \A k \in 1..n : both[k] = errs[k]
  BY <1>1, <1>2, Added
<1>4. 1 \in DOMAIN e /\ e[1] \in Seq(NoticeRow)
  BY DEF Errand
<1>5. PICK C : C = {<<n + 1, 1, k>> : k \in Tells(e[1], r, on)}
  OBVIOUS
<1>6. IsFiniteSet(P) /\ IsFiniteSet(C) /\ Cardinality(C) = Cardinality(Tells(e[1], r, on))
  <2>1. IsFiniteSet(P)
    BY PendingFinite
  <2>2. IsFiniteSet(Tells(e[1], r, on))
    BY <1>4, TellsFinite
  <2>3. PICK T : T = Tells(e[1], r, on)
    OBVIOUS
  <2>4. IsFiniteSet(T)
    BY <2>2, <2>3, Zenon
  <2>5. IsFiniteSet(PlacesOf(T, n + 1, 1)) /\ Cardinality(PlacesOf(T, n + 1, 1)) = Cardinality(T)
    BY <2>4, Column
  <2>6. C = PlacesOf(T, n + 1, 1)
    BY <1>5, <2>3 DEF PlacesOf
  <2>7. QED BY <2>1, <2>3, <2>5, <2>6
<1>7. Q = P \cup C
  <2>1. ASSUME NEW x \in Q PROVE x \in P \cup C
    <3>1. x \in PendingIn(both, r, on)
      BY <1>2, <2>1
    <3>2. PICK i \in DOMAIN both : \E j \in DOMAIN both[i] : \E k \in Tells(both[i][j], r, on) : x = <<i, j, k>>
      BY <3>1, PlaceOf
    <3>3. PICK j \in DOMAIN both[i] : \E k \in Tells(both[i][j], r, on) : x = <<i, j, k>>
      BY <3>2
    <3>4. PICK k \in Tells(both[i][j], r, on) : x = <<i, j, k>>
      BY <3>3
    <3>5. CASE i \in 1..n
      <4>1. both[i] = errs[i] /\ i \in DOMAIN errs
        BY <1>3, <3>5
      <4>2. <<i, j, k>> \in P
        BY <3>3, <3>4, <4>1, InPending
      <4>3. QED BY <3>4, <4>2
    <3>6. CASE i = n + 1
      <4>1. j \in DOMAIN e /\ k \in Tells(e[j], r, on)
        BY <1>3, <3>3, <3>4, <3>6
      <4>2. j = 1
        BY <4>1
      <4>3. QED BY <1>5, <3>4, <3>6, <4>1, <4>2
    <3>7. QED BY <1>3, <3>5, <3>6
  <2>2. ASSUME NEW x \in P PROVE x \in Q
    <3>1. PICK i \in DOMAIN errs : \E j \in DOMAIN errs[i] : \E k \in Tells(errs[i][j], r, on) : x = <<i, j, k>>
      BY <2>2, PlaceOf
    <3>2. PICK j \in DOMAIN errs[i] : \E k \in Tells(errs[i][j], r, on) : x = <<i, j, k>>
      BY <3>1
    <3>3. PICK k \in Tells(errs[i][j], r, on) : x = <<i, j, k>>
      BY <3>2
    <3>4. both[i] = errs[i] /\ i \in DOMAIN both
      BY <1>3
    <3>5. <<i, j, k>> \in PendingIn(both, r, on)
      BY <3>2, <3>3, <3>4, InPending
    <3>6. QED BY <1>2, <3>3, <3>5
  <2>3. ASSUME NEW x \in C PROVE x \in Q
    <3>1. PICK k \in Tells(e[1], r, on) : x = <<n + 1, 1, k>>
      BY <1>5, <2>3
    <3>2. n + 1 \in DOMAIN both /\ 1 \in DOMAIN both[n + 1] /\ k \in Tells(both[n + 1][1], r, on)
      BY <1>3, <1>4
    <3>3. <<n + 1, 1, k>> \in PendingIn(both, r, on)
      BY <3>2, InPending
    <3>4. QED BY <1>2, <3>1, <3>3
  <2>4. QED BY <2>1, <2>2, <2>3
<1>8. P \cap C = {}
  <2>1. ASSUME NEW x \in C PROVE x \notin P
    <3>1. PICK k \in Tells(e[1], r, on) : x = <<n + 1, 1, k>>
      BY <1>5, <2>1
    <3>2. n + 1 \notin DOMAIN errs
      BY <1>3
    <3>3. QED BY <3>1, <3>2, InPending
  <2>2. QED BY <2>1
<1>9. QED BY <1>6, <1>7, <1>8, Disjoint

LEMMA Matched ==
  ASSUME NEW A, NEW B, IsFiniteSet(A), NEW f \in [A -> B],
         \A x, y \in A : f[x] = f[y] => x = y,
         \A y \in B : \E x \in A : f[x] = y
  PROVE  Cardinality(B) = Cardinality(A)
<1>1. f \in Injection(A, B)
  BY DEF Injection, IsInjective
<1>2. f \in Surjection(A, B)
  BY DEF Surjection
<1>3. ExistsBijection(A, B)
  BY <1>1, <1>2 DEF Bijection, ExistsBijection
<1>4. QED BY <1>3, FS_Bijection

(* An errand whose first batch is done holds the others, in their order. *)
LEMMA Shortened ==
  ASSUME NEW errs \in Seq(Errand), NEW i \in DOMAIN errs, NEW r, NEW on,
         NEW after, DOMAIN after = DOMAIN errs, after[i] = Tail(errs[i]),
         \A a \in DOMAIN errs : a # i => after[a] = errs[a]
  PROVE  Cardinality(PendingIn(after, r, on))
           = Cardinality(PendingIn(errs, r, on) \ PlacesOf(Tells(errs[i][1], r, on), i, 1))
<1>1. PICK C : C = PlacesOf(Tells(errs[i][1], r, on), i, 1)
  OBVIOUS
<1>2. C = {<<i, 1, k>> : k \in Tells(errs[i][1], r, on)}
  BY <1>1 DEF PlacesOf
<1> DEFINE M == PendingIn(errs, r, on) \ C
           Q == PendingIn(after, r, on)
           f == [x \in M |-> IF x[1] = i THEN <<i, x[2] - 1, x[3]>> ELSE x]
<1>3. PICK e \in Seq(Seq(NoticeRow)) : e = errs[i] /\ e # << >>
  BY DEF Errand
<1>4. PICK tail \in Seq(Seq(NoticeRow)) : tail = Tail(e)
  BY <1>3, HeadTailProperties
<1>5. /\ DOMAIN e = 1..Len(e) /\ Len(e) \in Nat \ {0}
      /\ DOMAIN tail = 1..(Len(e) - 1) /\ \A j \in 1..(Len(e) - 1) : tail[j] = e[j + 1]
  BY <1>3, <1>4
<1>6. /\ DOMAIN after = DOMAIN errs /\ after[i] = tail
      /\ \A a \in DOMAIN errs : a # i => after[a] = errs[a]
  BY <1>3, <1>4
<1>7. ASSUME NEW x \in M
      PROVE  \E a \in DOMAIN errs : \E j \in DOMAIN errs[a] : \E k \in Tells(errs[a][j], r, on) :
                x = <<a, j, k>> /\ (a = i => j # 1)
  <2>1. PICK a \in DOMAIN errs : \E j \in DOMAIN errs[a] : \E k \in Tells(errs[a][j], r, on) : x = <<a, j, k>>
    BY <1>7, PlaceOf
  <2>2. PICK j \in DOMAIN errs[a] : \E k \in Tells(errs[a][j], r, on) : x = <<a, j, k>>
    BY <2>1
  <2>3. PICK k \in Tells(errs[a][j], r, on) : x = <<a, j, k>>
    BY <2>2
  <2>4. a = i => j # 1
    BY <1>2, <1>7, <2>3
  <2>5. QED BY <2>2, <2>3, <2>4
<1>8. ASSUME NEW a \in DOMAIN errs, NEW j \in DOMAIN errs[a], NEW k \in Tells(errs[a][j], r, on), a = i => j # 1
      PROVE  /\ a = i => <<i, j - 1, k>> \in Q /\ j \in Int
             /\ a # i => <<a, j, k>> \in Q
  <2>1. CASE a = i
    <3>1. j \in 1..Len(e) /\ j # 1
      BY <1>3, <1>5, <1>8, <2>1
    <3>2. PICK p : p = j - 1
      OBVIOUS
    <3>3. PICK size \in Nat : size = Len(e)
      BY <1>5
    <3>4. j \in 1..size /\ j # 1
      BY <3>1, <3>3
    <3>5. p \in 1..(size - 1) /\ p + 1 = j
      BY <3>2, <3>4
    <3>6. p \in 1..(Len(e) - 1) /\ p + 1 = j
      BY <3>3, <3>5
    <3>7. p \in DOMAIN after[i] /\ after[i][p] = errs[i][j]
      BY <1>3, <1>5, <1>6, <3>6
    <3>8. i \in DOMAIN after /\ k \in Tells(after[i][p], r, on)
      BY <1>6, <2>1, <3>7
    <3>9. <<i, p, k>> \in Q
      BY <3>7, <3>8, InPending, Zenon
    <3>10. QED BY <2>1, <3>1, <3>2, <3>9
  <2>2. CASE a # i
    <3>1. a \in DOMAIN after /\ after[a] = errs[a]
      BY <1>6, <2>2
    <3>2. QED BY <2>2, <3>1, InPending
  <2>3. QED BY <2>1, <2>2
<1>9. f \in [M -> Q]
  <2>1. ASSUME NEW x \in M PROVE f[x] \in Q
    <3>1. PICK a \in DOMAIN errs : \E j \in DOMAIN errs[a] : \E k \in Tells(errs[a][j], r, on) :
                x = <<a, j, k>> /\ (a = i => j # 1)
      BY <1>7, <2>1
    <3>2. PICK j \in DOMAIN errs[a] : \E k \in Tells(errs[a][j], r, on) : x = <<a, j, k>> /\ (a = i => j # 1)
      BY <3>1
    <3>3. PICK k \in Tells(errs[a][j], r, on) : x = <<a, j, k>> /\ (a = i => j # 1)
      BY <3>2
    <3>4. (a = i => <<i, j - 1, k>> \in Q) /\ (a # i => <<a, j, k>> \in Q)
      BY <1>8, <3>3
    <3>5. x[1] = a /\ x[2] = j /\ x[3] = k
      BY <3>3
    <3>6. f[x] = IF a = i THEN <<i, j - 1, k>> ELSE <<a, j, k>>
      BY <2>1, <3>3, <3>5
    <3>7. QED BY <3>4, <3>6
  <2>2. QED BY <2>1
<1>10. ASSUME NEW x \in M, NEW y \in M, f[x] = f[y] PROVE x = y
  <2>1. PICK a \in DOMAIN errs : \E j \in DOMAIN errs[a] : \E k \in Tells(errs[a][j], r, on) :
              x = <<a, j, k>> /\ (a = i => j # 1)
    BY <1>7, <1>10
  <2>2. PICK j, k : x = <<a, j, k>> /\ j \in DOMAIN errs[a] /\ k \in Tells(errs[a][j], r, on) /\ (a = i => j # 1)
    BY <2>1
  <2>3. PICK b \in DOMAIN errs : \E m \in DOMAIN errs[b] : \E n \in Tells(errs[b][m], r, on) :
              y = <<b, m, n>> /\ (b = i => m # 1)
    BY <1>7, <1>10
  <2>4. PICK m, n : y = <<b, m, n>> /\ m \in DOMAIN errs[b] /\ n \in Tells(errs[b][m], r, on) /\ (b = i => m # 1)
    BY <2>3
  <2>5. (a = i => j \in Int) /\ (b = i => m \in Int)
    BY <1>8, <2>2, <2>4
  <2>6. f[x] = IF a = i THEN <<i, j - 1, k>> ELSE <<a, j, k>>
    BY <1>10, <2>2
  <2>7. f[y] = IF b = i THEN <<i, m - 1, n>> ELSE <<b, m, n>>
    BY <1>10, <2>4
  <2>8. a = b
    BY <1>10, <2>6, <2>7
  <2>9. CASE a = i
    <3>1. <<i, j - 1, k>> = <<i, m - 1, n>>
      BY <1>10, <2>6, <2>7, <2>8, <2>9
    <3>2. j - 1 = m - 1 /\ k = n
      BY <3>1
    <3>3. j = m
      BY <2>5, <2>8, <2>9, <3>2
    <3>4. QED BY <2>2, <2>4, <2>8, <3>2, <3>3
  <2>10. CASE a # i
    BY <1>10, <2>2, <2>4, <2>6, <2>7, <2>8, <2>10
  <2>11. QED BY <2>9, <2>10
<1>11. ASSUME NEW y \in Q PROVE \E x \in M : f[x] = y
  <2>1. y \in PendingIn(after, r, on)
    BY <1>11
  <2>2. PICK a \in DOMAIN after : \E j \in DOMAIN after[a] : \E k \in Tells(after[a][j], r, on) : y = <<a, j, k>>
    BY <2>1, PlaceOf
  <2>3. PICK j, k : j \in DOMAIN after[a] /\ k \in Tells(after[a][j], r, on) /\ y = <<a, j, k>>
    BY <2>2
  <2>4. CASE a = i
    <3>1. j \in 1..(Len(e) - 1) /\ tail[j] = e[j + 1]
      BY <1>5, <1>6, <2>3, <2>4
    <3>2. PICK size \in Nat : size = Len(e) /\ DOMAIN errs[i] = 1..size
      BY <1>3, <1>5
    <3>3. j \in 1..(size - 1)
      BY <3>1, <3>2
    <3>4. j + 1 \in 1..size /\ j + 1 # 1 /\ (j + 1) - 1 = j
      BY <3>3
    <3>5. j + 1 \in DOMAIN errs[i] /\ j + 1 # 1 /\ (j + 1) - 1 = j
      BY <3>2, <3>4
    <3>6. <<i, j + 1, k>> \in PendingIn(errs, r, on)
      <4>1. k \in Tells(errs[i][j + 1], r, on)
        BY <1>3, <1>6, <2>3, <2>4, <3>1
      <4>2. QED BY <3>5, <4>1, InPending
    <3>7. PICK x : x = <<i, j + 1, k>>
      OBVIOUS
    <3>8. x \in M
      BY <1>2, <3>5, <3>6, <3>7
    <3>9. x[1] = i /\ x[2] = j + 1 /\ x[3] = k
      BY <3>7
    <3>10. f[x] = <<i, (j + 1) - 1, k>>
      BY <3>8, <3>9
    <3>11. QED BY <2>3, <2>4, <3>5, <3>8, <3>10
  <2>5. CASE a # i
    <3>1. a \in DOMAIN errs /\ after[a] = errs[a]
      BY <1>6, <2>5
    <3>2. y \in PendingIn(errs, r, on)
      BY <2>3, <3>1, InPending
    <3>3. y \in M /\ y[1] = a
      BY <1>2, <2>3, <2>5, <3>2
    <3>4. f[y] = y
      BY <2>5, <3>3
    <3>5. QED BY <3>3, <3>4
  <2>6. QED BY <2>4, <2>5
<1>12. IsFiniteSet(M)
  <2>1. IsFiniteSet(PendingIn(errs, r, on))
    BY PendingFinite
  <2>2. M \in SUBSET PendingIn(errs, r, on)
    OBVIOUS
  <2>3. QED BY <2>1, <2>2, FS_Subset
<1>13. QED
  <2> HIDE DEF M, Q, f
  <2>1. Cardinality(Q) = Cardinality(M)
    BY <1>9, <1>10, <1>11, <1>12, Matched
  <2>2. QED BY <1>1, <2>1 DEF M, Q

(* An errand whose only batch is done is gone, and the later ones move up. *)
LEMMA Finished ==
  ASSUME NEW errs \in Seq(Errand), NEW i \in DOMAIN errs, DOMAIN errs[i] = {1}, NEW r, NEW on
  PROVE  Cardinality(PendingIn(RemoveAt(errs, i), r, on))
           = Cardinality(PendingIn(errs, r, on) \ PlacesOf(Tells(errs[i][1], r, on), i, 1))
<1>1. PICK C : C = PlacesOf(Tells(errs[i][1], r, on), i, 1)
  OBVIOUS
<1>2. C = {<<i, 1, k>> : k \in Tells(errs[i][1], r, on)}
  BY <1>1 DEF PlacesOf
<1>3. PICK after \in Seq(Errand) : after = RemoveAt(errs, i)
  BY Removed
<1>4. PICK m : m = Len(errs) - 1
  OBVIOUS
<1>5. /\ DOMAIN after = 1..m
      /\ \A a \in 1..m : a < i => after[a] = errs[a]
      /\ \A a \in 1..m : ~(a < i) => after[a] = errs[a + 1]
  <2>1. /\ Len(after) = Len(errs) - 1
        /\ \A a \in 1..(Len(errs) - 1) : after[a] = IF a < i THEN errs[a] ELSE errs[a + 1]
    BY <1>3, Removed
  <2>2. QED BY <1>4, <2>1
<1> DEFINE M == PendingIn(errs, r, on) \ C
           Q == PendingIn(after, r, on)
           f == [x \in M |-> IF x[1] > i THEN <<x[1] - 1, x[2], x[3]>> ELSE x]
<1>6. PICK n \in Nat : n = Len(errs)
  OBVIOUS
<1>7. DOMAIN errs = 1..n /\ i \in 1..n /\ DOMAIN after = 1..(n - 1)
  BY <1>6, <1>4, <1>5
<1>8. /\ \A a \in 1..(n - 1) : a < i => after[a] = errs[a]
      /\ \A a \in 1..(n - 1) : a >= i => after[a] = errs[a + 1]
  <2>1. m = n - 1 /\ i \in Int
    BY <1>6, <1>7, <1>4
  <2>2. ASSUME NEW a \in 1..(n - 1), a >= i PROVE ~(a < i)
    BY <2>1, <2>2
  <2>3. QED BY <1>5, <2>1, <2>2
<1>9. ASSUME NEW x \in M
      PROVE  \E a \in DOMAIN errs : \E j \in DOMAIN errs[a] : \E k \in Tells(errs[a][j], r, on) :
                x = <<a, j, k>> /\ a # i
  <2>1. PICK a \in DOMAIN errs : \E j \in DOMAIN errs[a] : \E k \in Tells(errs[a][j], r, on) : x = <<a, j, k>>
    BY <1>9, PlaceOf
  <2>2. PICK j \in DOMAIN errs[a] : \E k \in Tells(errs[a][j], r, on) : x = <<a, j, k>>
    BY <2>1
  <2>3. PICK k \in Tells(errs[a][j], r, on) : x = <<a, j, k>>
    BY <2>2
  <2>4. a # i
    BY <1>2, <1>9, <2>3
  <2>5. QED BY <2>2, <2>3, <2>4
<1>10. ASSUME NEW a \in DOMAIN errs, NEW j \in DOMAIN errs[a], NEW k \in Tells(errs[a][j], r, on), a # i
       PROVE  /\ a > i => <<a - 1, j, k>> \in Q
              /\ ~(a > i) => <<a, j, k>> \in Q
  <2>1. CASE a > i
    <3>1. PICK p : p = a - 1
      OBVIOUS
    <3>2. p \in 1..(n - 1) /\ p >= i /\ p + 1 = a
      BY <1>7, <2>1, <3>1
    <3>3. p \in DOMAIN after /\ after[p] = errs[a]
      BY <1>7, <1>8, <3>2
    <3>4. <<p, j, k>> \in Q
      BY <3>3, InPending
    <3>5. QED BY <2>1, <3>1, <3>4
  <2>2. CASE ~(a > i)
    <3>1. a \in 1..(n - 1) /\ a < i
      BY <1>7, <1>10, <2>2
    <3>2. a \in DOMAIN after /\ after[a] = errs[a]
      BY <1>7, <1>8, <3>1
    <3>3. QED BY <2>2, <3>2, InPending
  <2>3. QED BY <2>1, <2>2
<1>11. ASSUME NEW x \in M
       PROVE  \E a \in DOMAIN errs : \E j \in DOMAIN errs[a] : \E k \in Tells(errs[a][j], r, on) :
                 /\ x = <<a, j, k>> /\ a # i
                 /\ f[x] = IF a > i THEN <<a - 1, j, k>> ELSE <<a, j, k>>
  <2>1. PICK a \in DOMAIN errs : \E j \in DOMAIN errs[a] : \E k \in Tells(errs[a][j], r, on) : x = <<a, j, k>> /\ a # i
    BY <1>9, <1>11
  <2>2. PICK j \in DOMAIN errs[a] : \E k \in Tells(errs[a][j], r, on) : x = <<a, j, k>> /\ a # i
    BY <2>1
  <2>3. PICK k \in Tells(errs[a][j], r, on) : x = <<a, j, k>> /\ a # i
    BY <2>2
  <2>4. f[x] = IF a > i THEN <<a - 1, j, k>> ELSE <<a, j, k>>
    BY <1>11, <2>3
  <2>5. QED BY <2>3, <2>4
<1>12. f \in [M -> Q]
  <2>1. ASSUME NEW x \in M PROVE f[x] \in Q
    <3>1. PICK a \in DOMAIN errs : \E j \in DOMAIN errs[a] : \E k \in Tells(errs[a][j], r, on) :
                /\ x = <<a, j, k>> /\ a # i
                /\ f[x] = IF a > i THEN <<a - 1, j, k>> ELSE <<a, j, k>>
      BY <1>11, <2>1
    <3>2. PICK j \in DOMAIN errs[a] : \E k \in Tells(errs[a][j], r, on) :
                /\ x = <<a, j, k>> /\ a # i
                /\ f[x] = IF a > i THEN <<a - 1, j, k>> ELSE <<a, j, k>>
      BY <3>1
    <3>3. PICK k \in Tells(errs[a][j], r, on) :
                /\ x = <<a, j, k>> /\ a # i
                /\ f[x] = IF a > i THEN <<a - 1, j, k>> ELSE <<a, j, k>>
      BY <3>2
    <3>4. (a > i => <<a - 1, j, k>> \in Q) /\ (~(a > i) => <<a, j, k>> \in Q)
      BY <1>10, <3>3
    <3> HIDE DEF f, Q
    <3>5. QED BY <3>3, <3>4
  <2>2. QED BY <2>1
<1>13. ASSUME NEW x \in M, NEW y \in M, f[x] = f[y] PROVE x = y
  <2>1. PICK a \in DOMAIN errs : \E j \in DOMAIN errs[a] : \E k \in Tells(errs[a][j], r, on) :
              /\ x = <<a, j, k>> /\ a # i
              /\ f[x] = IF a > i THEN <<a - 1, j, k>> ELSE <<a, j, k>>
    BY <1>11, <1>13
  <2>2. PICK j, k : /\ x = <<a, j, k>> /\ a # i
                    /\ f[x] = IF a > i THEN <<a - 1, j, k>> ELSE <<a, j, k>>
    BY <2>1
  <2>3. PICK b \in DOMAIN errs : \E j2 \in DOMAIN errs[b] : \E k2 \in Tells(errs[b][j2], r, on) :
              /\ y = <<b, j2, k2>> /\ b # i
              /\ f[y] = IF b > i THEN <<b - 1, j2, k2>> ELSE <<b, j2, k2>>
    BY <1>11, <1>13
  <2>4. PICK u, l : /\ y = <<b, u, l>> /\ b # i
                    /\ f[y] = IF b > i THEN <<b - 1, u, l>> ELSE <<b, u, l>>
    BY <2>3
  <2> HIDE DEF f
  <2>5. a \in Int /\ b \in Int /\ i \in Int
    BY <1>7
  <2>6. j = u /\ k = l
    BY <1>13, <2>2, <2>4
  <2>7. a = b
    <3>1. CASE a > i /\ b > i
      <4>1. <<a - 1, j, k>> = <<b - 1, u, l>>
        BY <1>13, <2>2, <2>4, <3>1
      <4>2. a - 1 = b - 1
        BY <4>1
      <4>3. QED BY <2>5, <4>2
    <3>2. CASE a > i /\ ~(b > i)
      <4>1. <<a - 1, j, k>> = <<b, u, l>>
        BY <1>13, <2>2, <2>4, <3>2
      <4>2. a - 1 = b
        BY <4>1
      <4>3. QED BY <2>4, <2>5, <3>2, <4>2
    <3>3. CASE ~(a > i) /\ b > i
      <4>1. <<b - 1, u, l>> = <<a, j, k>>
        BY <1>13, <2>2, <2>4, <3>3
      <4>2. b - 1 = a
        BY <4>1
      <4>3. QED BY <2>2, <2>5, <3>3, <4>2
    <3>4. CASE ~(a > i) /\ ~(b > i)
      <4>1. <<a, j, k>> = <<b, u, l>>
        BY <1>13, <2>2, <2>4, <3>4
      <4>2. QED BY <4>1
    <3>5. QED BY <3>1, <3>2, <3>3, <3>4
  <2>8. QED BY <2>2, <2>4, <2>6, <2>7
<1>14. ASSUME NEW y \in Q PROVE \E x \in M : f[x] = y
  <2>1. y \in PendingIn(after, r, on)
    BY <1>14
  <2>2. PICK a \in DOMAIN after : \E j \in DOMAIN after[a] : \E k \in Tells(after[a][j], r, on) : y = <<a, j, k>>
    BY <2>1, PlaceOf
  <2>3. PICK j, k : j \in DOMAIN after[a] /\ k \in Tells(after[a][j], r, on) /\ y = <<a, j, k>>
    BY <2>2
  <2>4. CASE a < i
    <3>1. a \in DOMAIN errs /\ after[a] = errs[a] /\ ~(a > i) /\ a # i
      BY <1>7, <1>8, <2>4
    <3>2. y \in PendingIn(errs, r, on)
      BY <2>3, <3>1, InPending
    <3>3. y \in M /\ y[1] = a
      BY <1>2, <2>3, <3>1, <3>2
    <3>4. f[y] = y
      BY <3>1, <3>3
    <3>5. QED BY <3>3, <3>4
  <2>5. CASE ~(a < i)
    <3>1. PICK p : p = a + 1
      OBVIOUS
    <3>2. p \in 1..n /\ p > i /\ p # i /\ p - 1 = a /\ a >= i
      BY <1>7, <2>5, <3>1
    <3>3. p \in DOMAIN errs /\ after[a] = errs[p]
      BY <1>7, <1>8, <3>1, <3>2
    <3>4. PICK x : x = <<p, j, k>>
      OBVIOUS
    <3>5. x \in PendingIn(errs, r, on)
      BY <2>3, <3>3, <3>4, InPending
    <3>6. x \in M /\ x[1] = p /\ x[2] = j /\ x[3] = k
      BY <1>2, <3>2, <3>4, <3>5
    <3>7. f[x] = <<p - 1, j, k>>
      BY <3>2, <3>6
    <3>8. QED BY <2>3, <3>2, <3>6, <3>7
  <2>6. QED BY <2>4, <2>5
<1>15. IsFiniteSet(M)
  <2>1. IsFiniteSet(PendingIn(errs, r, on))
    BY PendingFinite
  <2>2. M \in SUBSET PendingIn(errs, r, on)
    OBVIOUS
  <2>3. QED BY <2>1, <2>2, FS_Subset
<1>16. QED
  <2> HIDE DEF M, Q, f
  <2>1. Cardinality(Q) = Cardinality(M)
    BY <1>12, <1>13, <1>14, <1>15, Matched
  <2>2. QED BY <1>1, <1>3, <2>1 DEF M, Q

(* What an errand's first batch tells is no longer pending once it is done. *)
LEMMA HeadDone ==
  ASSUME NEW errs \in Seq(Errand), NEW i \in DOMAIN errs, NEW r, NEW on
  PROVE  Cardinality(PendingIn(errs, r, on))
           = Cardinality(PendingIn(errs, r, on) \ PlacesOf(Tells(errs[i][1], r, on), i, 1))
             + Cardinality(Tells(errs[i][1], r, on))
<1>1. PICK P, T, C : P = PendingIn(errs, r, on) /\ T = Tells(errs[i][1], r, on) /\ C = PlacesOf(T, i, 1)
  OBVIOUS
<1>2. errs[i] \in Seq(Seq(NoticeRow)) /\ errs[i] # << >>
  BY DEF Errand
<1>3. 1 \in DOMAIN errs[i] /\ errs[i][1] \in Seq(NoticeRow)
  BY <1>2
<1>4. IsFiniteSet(T) /\ IsFiniteSet(P)
  BY <1>1, <1>3, TellsFinite, PendingFinite
<1>5. IsFiniteSet(C) /\ Cardinality(C) = Cardinality(T)
  BY <1>1, <1>4, Column
<1>6. C \subseteq P
  <2>1. ASSUME NEW k \in T PROVE <<i, 1, k>> \in P
    BY <1>1, <1>3, <2>1, InPending
  <2>2. QED BY <1>1, <2>1 DEF PlacesOf
<1>7. IsFiniteSet(P \ C)
  BY <1>4, FS_Difference
<1>8. Cardinality((P \ C) \cup C) = Cardinality(P \ C) + Cardinality(C)
  <2>1. (P \ C) \cap C = {}
    OBVIOUS
  <2>2. QED BY <1>5, <1>7, <2>1, Disjoint
<1>9. (P \ C) \cup C = P
  BY <1>6
<1>10. QED BY <1>1, <1>5, <1>8, <1>9

LEMMA LastTold ==
  ASSUME NEW errs \in Seq(Errand), NEW i \in DOMAIN errs, Tail(errs[i]) = << >>, NEW r, NEW on
  PROVE  Cardinality(PendingIn(errs, r, on))
           = Cardinality(PendingIn(RemoveAt(errs, i), r, on)) + Cardinality(Tells(errs[i][1], r, on))
<1>1. DOMAIN errs[i] = {1}
  <2>1. PICK e \in Seq(Seq(NoticeRow)) : e = errs[i] /\ e # << >>
    BY DEF Errand
  <2>2. Len(Tail(e)) = Len(e) - 1 /\ Len(Tail(e)) = 0 /\ Len(e) \in Nat
    <3>1. Len(Tail(e)) = Len(e) - 1 /\ Len(e) \in Nat
      BY <2>1, HeadTailProperties
    <3>2. Tail(e) = << >> /\ Len(<< >>) = 0
      BY <2>1
    <3>3. QED BY <3>1, <3>2
  <2>3. Len(e) = 1
    BY <2>2
  <2>4. DOMAIN e = 1..Len(e)
    BY <2>1
  <2>5. QED BY <2>1, <2>3, <2>4
<1>2. Cardinality(PendingIn(RemoveAt(errs, i), r, on))
        = Cardinality(PendingIn(errs, r, on) \ PlacesOf(Tells(errs[i][1], r, on), i, 1))
  BY <1>1, Finished
<1>3. QED BY <1>2, HeadDone

LEMMA NextTold ==
  ASSUME NEW errs \in Seq(Errand), NEW i \in DOMAIN errs, NEW r, NEW on,
         NEW after, DOMAIN after = DOMAIN errs, after[i] = Tail(errs[i]),
         \A a \in DOMAIN errs : a # i => after[a] = errs[a]
  PROVE  Cardinality(PendingIn(errs, r, on))
           = Cardinality(PendingIn(after, r, on)) + Cardinality(Tells(errs[i][1], r, on))
<1>1. Cardinality(PendingIn(after, r, on))
        = Cardinality(PendingIn(errs, r, on) \ PlacesOf(Tells(errs[i][1], r, on), i, 1))
  BY Shortened
<1>2. QED BY <1>1, HeadDone

(***************************************************************************)
(* The steps.                                                              *)
(***************************************************************************)
LEMMA CountsNat ==
  ASSUME TypeInv, NEW r, NEW on
  PROVE  Written(r, on) \in Nat /\ PendingTold(r, on) \in Nat
<1>1. notices \in Seq(NoticeRow) /\ errands \in Seq(Errand)
  BY DEF TypeInv, TracesType
<1>2. QED BY <1>1, TellsFinite, PendingFinite DEF Written, PendingTold

(* A step that tells nobody of a switch, and turns none. *)
LEMMA CountsSame ==
  ASSUME CountInv, UNCHANGED <<turned, untold, misread>>,
         \A r \in Restaurants, on \in BOOLEAN :
           Written(r, on)' = Written(r, on) /\ PendingTold(r, on)' = PendingTold(r, on)
  PROVE  CountInv'
<1>1. turned' \in Counts /\ untold' \in Counts
  BY DEF CountInv
<1>2. ASSUME ~misread', NEW r \in Restaurants, NEW on \in BOOLEAN
      PROVE  turned'[r][on] = Written(r, on)' + PendingTold(r, on)' + untold'[r][on]
  BY <1>2 DEF CountInv
<1>3. QED BY <1>1, <1>2 DEF CountInv

LEMMA CountsAlone ==
  ASSUME CountInv, UNCHANGED <<turned, untold, misread, notices, errands>>
  PROVE  CountInv'
  BY CountsSame DEF Written, PendingTold

LEMMA SameTells ==
  ASSUME NEW s, NEW t, DOMAIN t = DOMAIN s,
         \A k \in DOMAIN s : t[k].kind = s[k].kind /\ t[k].rest = s[k].rest /\ t[k].on = s[k].on,
         NEW r, NEW on
  PROVE  Tells(t, r, on) = Tells(s, r, on)
  BY DEF Tells

LEMMA OtherNews ==
  ASSUME NEW s \in Seq(NoticeRow), NEW n, n.kind # "kill_switch_toggled", NEW r, NEW on
  PROVE  Tells(Append(s, n), r, on) = Tells(s, r, on)
<1>1. PICK S : S = NoticeRow \cup {n}
  OBVIOUS
<1>2. n \in S /\ s \in Seq(S)
  BY <1>1
<1>3. PICK t \in Seq(S) : t = Append(s, n)
  BY <1>2, Added
<1>4. PICK m \in Nat : m = Len(s)
  OBVIOUS
<1>5. /\ DOMAIN s = 1..m /\ DOMAIN t = 1..(m + 1) /\ t[m + 1] = n
      /\ \A k \in 1..m : t[k] = s[k]
  BY <1>4, <1>2, <1>3, Added
<1>6. ASSUME NEW k \in Tells(t, r, on) PROVE k \in Tells(s, r, on)
  <2>1. k \in 1..(m + 1) /\ t[k].kind = "kill_switch_toggled" /\ t[k].rest = r /\ t[k].on = on
    BY <1>5, <1>6 DEF Tells
  <2>2. k # m + 1
    BY <1>5, <2>1
  <2>3. k \in 1..m
    BY <2>1, <2>2
  <2>4. QED BY <1>5, <2>1, <2>3 DEF Tells
<1>7. ASSUME NEW k \in Tells(s, r, on) PROVE k \in Tells(t, r, on)
  <2>1. k \in 1..m /\ s[k].kind = "kill_switch_toggled" /\ s[k].rest = r /\ s[k].on = on
    BY <1>5, <1>7 DEF Tells
  <2>2. k \in 1..(m + 1)
    BY <2>1
  <2>3. QED BY <1>5, <2>1, <2>2 DEF Tells
<1>8. QED BY <1>3, <1>6, <1>7

LEMMA BothTell ==
  ASSUME NEW s \in Seq(NoticeRow), NEW t \in Seq(NoticeRow), NEW r, NEW on
  PROVE  Cardinality(Tells(s \o t, r, on)) = Cardinality(Tells(s, r, on)) + Cardinality(Tells(t, r, on))
<1>1. PICK all \in Seq(NoticeRow) : all = s \o t
  BY ConcatProperties
<1>2. PICK m \in Nat : m = Len(s)
  OBVIOUS
<1>3. PICK n \in Nat : n = Len(t)
  OBVIOUS
<1>4. /\ DOMAIN s = 1..m /\ DOMAIN t = 1..n /\ DOMAIN all = 1..(m + n)
      /\ \A k \in 1..(m + n) : all[k] = IF k <= m THEN s[k] ELSE t[k - m]
  <2>1. /\ all \in Seq(NoticeRow) /\ Len(all) = m + n
        /\ \A k \in 1..(m + n) : all[k] = IF k <= m THEN s[k] ELSE t[k - m]
    BY <1>1, <1>2, <1>3, ConcatProperties
  <2>2. QED BY <1>2, <1>3, <2>1
<1> DEFINE A == Tells(s, r, on)
           B == Tells(t, r, on)
           D == {m + k : k \in B}
           f == [k \in B |-> m + k]
<1>5. \A k \in 1..m : k \in 1..(m + n) /\ all[k] = s[k]
  BY <1>4
<1>6. \A k \in 1..n : m + k \in 1..(m + n) /\ all[m + k] = t[k]
  <2>1. ASSUME NEW k \in 1..n PROVE m + k \in 1..(m + n) /\ all[m + k] = t[k]
    <3>1. m + k \in 1..(m + n) /\ ~(m + k <= m) /\ (m + k) - m = k
      OBVIOUS
    <3>2. QED BY <1>4, <3>1
  <2>2. QED BY <2>1
<1>7. A \subseteq 1..m /\ B \subseteq 1..n
  BY <1>4 DEF Tells
<1>8. Tells(all, r, on) = A \cup D
  <2>1. ASSUME NEW k \in Tells(all, r, on) PROVE k \in A \cup D
    <3>1. k \in 1..(m + n) /\ all[k].kind = "kill_switch_toggled" /\ all[k].rest = r /\ all[k].on = on
      BY <1>4, <2>1 DEF Tells
    <3>2. CASE k <= m
      <4>1. k \in 1..m
        BY <3>1, <3>2
      <4>2. QED BY <1>4, <1>5, <3>1, <4>1 DEF Tells
    <3>3. CASE ~(k <= m)
      <4>1. PICK p \in 1..n : k = m + p
        <5>1. k - m \in 1..n /\ k = m + (k - m)
          BY <3>1, <3>3
        <5>2. QED BY <5>1
      <4>2. p \in B
        BY <1>4, <1>6, <3>1, <4>1 DEF Tells
      <4>3. QED BY <4>1, <4>2
    <3>4. QED BY <3>2, <3>3
  <2>2. ASSUME NEW k \in A PROVE k \in Tells(all, r, on)
    BY <1>4, <1>5, <1>7, <2>2 DEF Tells
  <2>3. ASSUME NEW k \in B PROVE m + k \in Tells(all, r, on)
    <3>1. k \in 1..n
      BY <1>7
    <3>2. PICK p : p = m + k
      OBVIOUS
    <3>3. p \in DOMAIN all /\ all[p] = t[k]
      BY <1>4, <1>6, <3>1, <3>2
    <3>4. p \in Tells(all, r, on)
      BY <3>3 DEF Tells
    <3>5. QED BY <3>2, <3>4
  <2>4. QED BY <2>1, <2>2, <2>3
<1>9. A \cap D = {}
  <2>1. ASSUME NEW k \in B PROVE m + k \notin A
    <3>1. k \in 1..n
      BY <1>7
    <3>2. m + k \notin 1..m
      BY <3>1
    <3>3. QED BY <1>7, <3>2
  <2>2. QED BY <2>1
<1>10. IsFiniteSet(A) /\ IsFiniteSet(B)
  BY TellsFinite
<1>11. Cardinality(D) = Cardinality(B) /\ IsFiniteSet(D)
  <2>1. f \in [B -> D]
    OBVIOUS
  <2>2. ASSUME NEW x \in B, NEW y \in B, f[x] = f[y] PROVE x = y
    <3>1. x \in Int /\ y \in Int /\ m + x = m + y
      BY <1>7, <2>2
    <3>2. QED BY <3>1
  <2>3. ASSUME NEW y \in D PROVE \E x \in B : f[x] = y
    OBVIOUS
  <2> HIDE DEF f, B, D
  <2>4. Cardinality(D) = Cardinality(B)
    BY <1>10, <2>1, <2>2, <2>3, Matched
  <2>5. f \in Surjection(B, D)
    BY <2>1, <2>3 DEF Surjection
  <2>6. QED BY <1>10, <2>4, <2>5, FS_Surjection
<1>12. Cardinality(A \cup D) = Cardinality(A) + Cardinality(D)
  <2> HIDE DEF A, D
  <2>1. QED BY <1>9, <1>10, <1>11, Disjoint
<1>13. QED BY <1>1, <1>8, <1>11, <1>12

LEMMA TellCount ==
  ASSUME IInv, CountInv, NEW i \in DOMAIN errands, Tell(i)
  PROVE  CountInv'
<1>1. TypeInv /\ errands \in Seq(Errand) /\ notices \in Seq(NoticeRow)
  BY DEF IInv, TypeInv, TracesType
<1>2. errands[i] \in Seq(Seq(NoticeRow)) /\ errands[i] # << >>
  BY <1>1 DEF Errand
<1>3. PICK batch \in Seq(NoticeRow) : batch = errands[i][1] /\ batch = Head(errands[i])
  <2>1. Head(errands[i]) = errands[i][1] /\ Head(errands[i]) \in Seq(NoticeRow)
    BY <1>2, HeadTailProperties
  <2>2. QED BY <2>1
<1>4. PICK left : left = Tail(errands[i])
  OBVIOUS
<1>5. /\ errands' = IF left = << >> THEN RemoveAt(errands, i) ELSE [errands EXCEPT ![i] = left]
      /\ \/ notices' = notices \o Stored(batch) /\ UNCHANGED untold
         \/ untold' = Lost(batch) /\ UNCHANGED notices
      /\ UNCHANGED <<turned, misread>>
  BY <1>3, <1>4 DEF Tell, settings
<1>6. Stored(batch) = batch
  <2>1. \A k \in DOMAIN batch : Storable(batch[k])
    BY <1>3 DEF NoticeRow
  <2>2. QED BY <2>1 DEF Stored
<1>7. untold' \in Counts
  <2>1. CASE UNCHANGED untold
    BY <2>1 DEF CountInv, Counts
  <2>2. CASE untold' = Lost(batch)
    <3>1. ASSUME NEW r \in Restaurants, NEW on \in BOOLEAN
          PROVE  untold[r][on] + Cardinality(Tells(batch, r, on)) \in Nat
      <4>1. Cardinality(Tells(batch, r, on)) \in Nat
        BY TellsFinite
      <4>2. untold[r][on] \in Nat
        BY DEF CountInv, Counts
      <4>3. QED BY <4>1, <4>2
    <3>2. QED BY <2>2, <3>1 DEF Lost, Counts
  <2>3. QED BY <1>5, <2>1, <2>2
<1>8. ASSUME ~misread', NEW r \in Restaurants, NEW on \in BOOLEAN
      PROVE  turned'[r][on] = Written(r, on)' + PendingTold(r, on)' + untold'[r][on]
  <2>1. PICK after : after = errands'
    OBVIOUS
  <2>2. Cardinality(PendingIn(errands, r, on))
          = Cardinality(PendingIn(after, r, on)) + Cardinality(Tells(errands[i][1], r, on))
    <3>1. CASE left = << >>
      <4>1. after = RemoveAt(errands, i)
        BY <1>5, <2>1, <3>1
      <4>2. Tail(errands[i]) = << >>
        BY <1>4, <3>1
      <4>3. QED BY <1>1, <4>1, <4>2, LastTold
    <3>2. CASE left # << >>
      <4>1. after = [errands EXCEPT ![i] = left]
        BY <1>5, <2>1, <3>2
      <4>2. /\ DOMAIN after = DOMAIN errands /\ after[i] = Tail(errands[i])
            /\ \A a \in DOMAIN errands : a # i => after[a] = errands[a]
        BY <1>4, <4>1
      <4>3. QED BY <1>1, <4>2, NextTold
    <3>3. QED BY <3>1, <3>2
  <2>3. PICK p, q, b : /\ p = Cardinality(PendingIn(errands, r, on))
                       /\ q = Cardinality(PendingIn(after, r, on))
                       /\ b = Cardinality(Tells(batch, r, on))
    OBVIOUS
  <2>4. PendingTold(r, on) = p /\ PendingTold(r, on)' = q
    BY <2>1, <2>3 DEF PendingTold
  <2>5. p = q + b
    BY <1>3, <2>2, <2>3
  <2>6. q \in Nat /\ b \in Nat
    <3>1. errands' \in Seq(Errand)
      BY TellStep DEF IInv, TypeInv, TracesType
    <3>2. after \in Seq(Errand)
      BY <2>1, <3>1
    <3>3. QED BY <2>3, <3>2, PendingFinite, TellsFinite
  <2>7. Written(r, on) \in Nat /\ untold[r][on] \in Nat
    BY <1>1, CountsNat DEF CountInv, Counts
  <2>8. turned[r][on] = Written(r, on) + p + untold[r][on]
    BY <1>5, <1>8, <2>4 DEF CountInv
  <2>9. turned'[r][on] = turned[r][on]
    BY <1>5
  <2>10. CASE notices' = notices \o Stored(batch) /\ UNCHANGED untold
    <3>1. notices' = notices \o batch
      BY <1>6, <2>10
    <3>2. Cardinality(Tells(notices \o batch, r, on)) = Cardinality(Tells(notices, r, on)) + b
      BY <1>1, <2>3, BothTell
    <3>3. Written(r, on)' = Written(r, on) + b
      BY <3>1, <3>2 DEF Written
    <3>4. QED BY <2>4, <2>5, <2>6, <2>7, <2>8, <2>9, <2>10, <3>3
  <2>11. CASE untold' = Lost(batch) /\ UNCHANGED notices
    <3>1. untold'[r][on] = untold[r][on] + b
      BY <2>3, <2>11 DEF Lost
    <3>2. Written(r, on)' = Written(r, on)
      BY <2>11 DEF Written
    <3>3. QED BY <2>4, <2>5, <2>6, <2>7, <2>8, <2>9, <3>1, <3>2
  <2>12. QED BY <1>5, <2>10, <2>11
<1>9. turned' \in Counts
  BY <1>5 DEF CountInv, Counts
<1>10. QED BY <1>7, <1>8, <1>9 DEF CountInv

(* An errand of one notice. *)
LEMMA OneBatch ==
  ASSUME NEW errs \in Seq(Errand), NEW n, Append(errs, << <<n>> >>) \in Seq(Errand), NEW r, NEW on
  PROVE  Cardinality(PendingIn(Append(errs, << <<n>> >>), r, on))
           = Cardinality(PendingIn(errs, r, on))
             + IF n.kind = "kill_switch_toggled" /\ n.rest = r /\ n.on = on THEN 1 ELSE 0
<1>1. PICK e : e = << <<n>> >>
  OBVIOUS
<1>2. e \in Errand
  <2>1. PICK both \in Seq(Errand) : both = Append(errs, e)
    BY <1>1
  <2>2. Len(both) = Len(errs) + 1 /\ both[Len(errs) + 1] = e /\ Len(errs) \in Nat
    BY <2>1
  <2>3. Len(errs) + 1 \in 1..Len(both)
    BY <2>2
  <2>4. both[Len(errs) + 1] \in Errand
    BY <2>1, <2>3
  <2>5. QED BY <2>2, <2>4
<1>3. DOMAIN e = {1} /\ e[1] = <<n>>
  BY <1>1
<1>4. Cardinality(PendingIn(Append(errs, e), r, on))
        = Cardinality(PendingIn(errs, r, on)) + Cardinality(Tells(e[1], r, on))
  <2>1. \A j \in DOMAIN e \ {1} : Tells(e[j], r, on) = {}
    BY <1>3
  <2>2. QED BY <1>2, <2>1, ErrandAdded
<1>5. DOMAIN <<n>> = {1} /\ <<n>>[1] = n
  OBVIOUS
<1>6. CASE n.kind = "kill_switch_toggled" /\ n.rest = r /\ n.on = on
  <2>1. Tells(<<n>>, r, on) = {1}
    BY <1>5, <1>6 DEF Tells
  <2>2. Cardinality({1}) = 1
    BY FS_Singleton
  <2>3. QED BY <1>1, <1>3, <1>4, <1>6, <2>1, <2>2
<1>7. CASE ~(n.kind = "kill_switch_toggled" /\ n.rest = r /\ n.on = on)
  <2>1. Tells(<<n>>, r, on) = {}
    BY <1>5, <1>7 DEF Tells
  <2>2. Cardinality({}) = 0
    BY FS_EmptySet
  <2>3. QED BY <1>1, <1>3, <1>4, <1>7, <2>1, <2>2
<1>8. QED BY <1>6, <1>7

(* A bulk holds one notice for each of its restaurants. *)
BulkOf(rs, on) == SetToSeq({Toggled(r, on, TRUE) : r \in rs})

LEMMA BulkTells ==
  ASSUME NEW rs \in SUBSET Restaurants, NEW on \in BOOLEAN, NEW s \in Restaurants, NEW o \in BOOLEAN
  PROVE  Cardinality(Tells(BulkOf(rs, on), s, o)) = IF s \in rs /\ o = on THEN 1 ELSE 0
<1>1. PICK S : S = {Toggled(r, on, TRUE) : r \in rs}
  OBVIOUS
<1>2. IsFiniteSet(S)
  BY <1>1, BulkTyped
<1>3. PICK n \in Nat : n = Cardinality(S)
  BY <1>2, Listed
<1>4. PICK f \in [1..n -> S] :
        /\ f = SetToSeq(S)
        /\ \A a, b \in 1..n : f[a] = f[b] => a = b
        /\ \A x \in S : \E k \in 1..n : f[k] = x
  BY <1>2, <1>3, Listed DEF IsInjective
<1>5. BulkOf(rs, on) = f
  BY <1>1, <1>4 DEF BulkOf
<1>6. ASSUME NEW k \in 1..n PROVE \E r \in rs : f[k] = Toggled(r, on, TRUE)
  <2>1. f[k] \in S
    OBVIOUS
  <2>2. QED BY <1>1, <2>1, Zenon
<1>7. \A r \in rs : /\ Toggled(r, on, TRUE).rest = r /\ Toggled(r, on, TRUE).on = on
                    /\ Toggled(r, on, TRUE).kind = "kill_switch_toggled"
  BY ToggledTyped
<1>8. CASE s \in rs /\ o = on
  <2>1. PICK k \in 1..n : f[k] = Toggled(s, on, TRUE)
    BY <1>1, <1>4, <1>8
  <2>2. ASSUME NEW j \in Tells(f, s, o) PROVE j = k
    <3>1. j \in 1..n /\ f[j].rest = s
      BY <2>2 DEF Tells
    <3>2. PICK r \in rs : f[j] = Toggled(r, on, TRUE)
      BY <1>6, <3>1
    <3>3. r = s
      BY <1>7, <3>1, <3>2
    <3>4. f[j] = f[k]
      BY <2>1, <3>2, <3>3, Zenon
    <3>5. QED BY <1>4, <3>1, <3>4
  <2>3. k \in Tells(f, s, o)
    BY <1>7, <1>8, <2>1 DEF Tells
  <2>4. Tells(f, s, o) = {k}
    BY <2>2, <2>3
  <2>5. Cardinality({k}) = 1
    BY FS_Singleton
  <2>6. QED BY <1>5, <1>8, <2>4, <2>5
<1>9. CASE ~(s \in rs /\ o = on)
  <2>1. ASSUME NEW j \in Tells(f, s, o) PROVE FALSE
    <3>1. j \in 1..n /\ f[j].rest = s /\ f[j].on = o
      BY <2>1 DEF Tells
    <3>2. PICK r \in rs : f[j] = Toggled(r, on, TRUE)
      BY <1>6, <3>1
    <3>3. QED BY <1>7, <1>9, <3>1, <3>2
  <2>2. Tells(f, s, o) = {}
    BY <2>1
  <2>3. Cardinality({}) = 0
    BY FS_EmptySet
  <2>4. QED BY <1>5, <1>9, <2>2, <2>3
<1>10. QED BY <1>8, <1>9

(* Switches that turn, each with its notice. *)
LEMMA TurnCount ==
  ASSUME IInv, CountInv, NEW rs \in SUBSET Restaurants, NEW on \in BOOLEAN, Turn(rs, on),
         UNCHANGED <<notices, untold>>,
         ~misread' =>
           /\ ~misread
           /\ \A r \in Restaurants, o \in BOOLEAN :
                PendingTold(r, o)' = PendingTold(r, o) + IF r \in rs /\ o = on THEN 1 ELSE 0
  PROVE  CountInv'
<1>1. turned \in Counts /\ untold' \in Counts
  BY DEF CountInv
<1>2. ASSUME NEW r \in Restaurants, NEW o \in BOOLEAN
      PROVE  /\ turned'[r][o] = turned[r][o] + IF r \in rs /\ o = on THEN 1 ELSE 0
             /\ turned[r] \in [BOOLEAN -> Nat] /\ turned'[r] \in [BOOLEAN -> Nat]
  <2>1. turned[r] \in [BOOLEAN -> Nat]
    BY <1>1 DEF Counts
  <2>2. turned'[r] = IF r \in rs THEN [turned[r] EXCEPT ![on] = @ + 1] ELSE turned[r]
    BY DEF Turn
  <2>3. CASE r \in rs
    <3>1. turned'[r] = [turned[r] EXCEPT ![on] = turned[r][on] + 1]
      BY <2>2, <2>3
    <3>2. turned[r][on] + 1 \in Nat
      BY <2>1
    <3>3. turned'[r] \in [BOOLEAN -> Nat]
      BY <2>1, <3>1, <3>2
    <3>4. turned'[r][o] = IF o = on THEN turned[r][o] + 1 ELSE turned[r][o]
      BY <2>1, <3>1
    <3>5. turned[r][o] \in Nat
      BY <2>1
    <3>6. QED BY <2>1, <2>3, <3>3, <3>4, <3>5
  <2>4. CASE r \notin rs
    <3>1. turned'[r] = turned[r] /\ turned[r][o] \in Nat
      BY <2>1, <2>2, <2>4
    <3>2. QED BY <2>1, <2>4, <3>1
  <2>5. QED BY <2>3, <2>4
<1>3. turned' \in Counts
  <2>1. turned' = [r \in Restaurants |-> turned'[r]]
    BY DEF Turn
  <2>2. \A r \in Restaurants : turned'[r] \in [BOOLEAN -> Nat]
    BY <1>2
  <2>3. QED BY <2>1, <2>2 DEF Counts
<1>4. ASSUME ~misread', NEW r \in Restaurants, NEW o \in BOOLEAN
      PROVE  turned'[r][o] = Written(r, o)' + PendingTold(r, o)' + untold'[r][o]
  <2>1. TypeInv
    BY DEF IInv
  <2>2. Written(r, o) \in Nat /\ PendingTold(r, o) \in Nat /\ untold[r][o] \in Nat /\ turned[r][o] \in Nat
    BY <1>1, <1>2, <2>1, CountsNat DEF CountInv, Counts
  <2>3. turned[r][o] = Written(r, o) + PendingTold(r, o) + untold[r][o]
    BY <1>4 DEF CountInv
  <2>4. Written(r, o)' = Written(r, o) /\ untold'[r][o] = untold[r][o]
    BY DEF Written
  <2>5. PICK d \in {0, 1} : d = IF r \in rs /\ o = on THEN 1 ELSE 0
    OBVIOUS
  <2>6. turned'[r][o] = turned[r][o] + d
    BY <1>2, <2>5
  <2>7. PendingTold(r, o)' = PendingTold(r, o) + d
    BY <1>4, <2>5
  <2>8. QED BY <2>2, <2>3, <2>4, <2>6, <2>7
<1>5. QED BY <1>1, <1>3, <1>4 DEF CountInv

LEMMA SwitchCount ==
  ASSUME IInv, CountInv, NEW r \in Restaurants, NEW on \in BOOLEAN, SetRestaurantKillSwitch(r, on)
  PROVE  CountInv'
<1>1. TypeInv /\ r \in Live /\ restaurants[r] \in Row /\ IsLive(r) /\ TablesType
  BY LiveRows DEF IInv, TypeInv, SetRestaurantKillSwitch
<1>2. PICK before \in Reads(r), current \in Reads(r) :
        LET asIs == current.row.kill = on
            table == IF asIs THEN restaurants ELSE SetKillSwitch({r}, on)
        IN \E after \in IF asIs THEN {[current EXCEPT !.bad = 0]}
                        ELSE ReadsOf(table[r], StoredFeatures(r)) \cup {[before EXCEPT !.bad = 2]} :
             LET bad == before.bad + current.bad + after.bad IN
             /\ Fault(bad)
             /\ restaurants' = table
             /\ misread' = (misread \/ bad > 0)
             /\ errands' = IF before.row.kill = after.row.kill THEN errands
                           ELSE Append(errands, << <<Toggled(r, after.row.kill, FALSE)>> >>)
  BY DEF SetRestaurantKillSwitch
<1>3. PICK table : table = IF current.row.kill = on THEN restaurants ELSE SetKillSwitch({r}, on)
  OBVIOUS
<1>4. PICK after \in IF current.row.kill = on THEN {[current EXCEPT !.bad = 0]}
                     ELSE ReadsOf(table[r], StoredFeatures(r)) \cup {[before EXCEPT !.bad = 2]} :
        /\ restaurants' = table
        /\ misread' = (misread \/ before.bad + current.bad + after.bad > 0)
        /\ errands' = IF before.row.kill = after.row.kill THEN errands
                      ELSE Append(errands, << <<Toggled(r, after.row.kill, FALSE)>> >>)
  BY <1>2, <1>3
<1>5. /\ DOMAIN before = {"row", "features", "bad"} /\ before.bad \in {0, 1}
      /\ DOMAIN current = {"row", "features", "bad"} /\ current.bad \in {0, 1}
      /\ before.bad = 0 => before.row = restaurants[r]
      /\ current.bad = 0 => current.row = restaurants[r]
  BY DEF Reads, ReadsOf
<1>6. /\ restaurants'[r].kill = IF current.row.kill = on THEN restaurants[r].kill ELSE on
      /\ table = restaurants' /\ restaurants'[r] = table[r]
  <2>1. CASE current.row.kill = on
    BY <1>3, <1>4, <2>1
  <2>2. CASE current.row.kill # on
    <3>1. {r} \in SUBSET Live /\ r \in {r}
      BY <1>1
    <3>2. SetKillSwitch({r}, on)[r].kill = on
      BY <1>1, <3>1, SwitchTyped
    <3>3. QED BY <1>3, <1>4, <2>2, <3>2
  <2>3. QED BY <2>1, <2>2
<1>7. PICK rs \in SUBSET Restaurants : rs = {s \in {r} : restaurants[s].kill # restaurants'[s].kill}
  OBVIOUS
<1>8. Turn(rs, on) /\ UNCHANGED <<notices, untold>>
  BY <1>7 DEF SetRestaurantKillSwitch
<1>9. ASSUME ~misread' PROVE ~misread /\ before.row = restaurants[r] /\ current.row = restaurants[r]
                             /\ after.row.kill = restaurants'[r].kill
  <2>1. after.bad \in {0, 1, 2} /\ (current.row.kill # on /\ after.bad = 0 => after.row = table[r])
        /\ (current.row.kill = on => after.row = current.row)
    <3>1. CASE current.row.kill = on
      BY <1>5, <3>1
    <3>2. CASE current.row.kill # on /\ after \in ReadsOf(table[r], StoredFeatures(r))
      BY <3>2 DEF ReadsOf
    <3>3. CASE after = [before EXCEPT !.bad = 2]
      BY <1>5, <3>3
    <3>4. QED BY <3>1, <3>2, <3>3
  <2>2. ~misread /\ ~(before.bad + current.bad + after.bad > 0)
    BY <1>4, <1>9
  <2>3. before.bad = 0 /\ current.bad = 0 /\ after.bad = 0
    BY <1>5, <2>1, <2>2
  <2>4. QED BY <1>5, <1>6, <2>1, <2>2, <2>3
<1>10. ASSUME ~misread', NEW s \in Restaurants, NEW o \in BOOLEAN
       PROVE  PendingTold(s, o)' = PendingTold(s, o) + IF s \in rs /\ o = on THEN 1 ELSE 0
  <2>1. errands \in Seq(Errand) /\ PendingTold(s, o) \in Nat
    BY <1>1, CountsNat DEF TypeInv, TracesType
  <2>2. before.row = restaurants[r] /\ current.row = restaurants[r] /\ after.row.kill = restaurants'[r].kill
    BY <1>9, <1>10
  <2>3. CASE restaurants[r].kill = restaurants'[r].kill
    <3>1. errands' = errands
      BY <1>4, <2>2, <2>3
    <3>2. s \notin rs
      BY <1>7, <2>3
    <3>3. PendingTold(s, o)' = PendingTold(s, o)
      BY <3>1 DEF PendingTold
    <3>4. QED BY <2>1, <3>2, <3>3
  <2>4. CASE restaurants[r].kill # restaurants'[r].kill
    <3>1. restaurants'[r].kill = on
      BY <1>6, <2>2, <2>4
    <3>2. rs = {r}
      BY <1>7, <2>4
    <3>3. PICK n : n = Toggled(r, on, FALSE)
      OBVIOUS
    <3>4. n.kind = "kill_switch_toggled" /\ n.rest = r /\ n.on = on
      BY <3>3, ToggledTyped
    <3>5. after.row.kill = on /\ before.row.kill # after.row.kill
      BY <2>2, <2>4, <3>1
    <3>6. errands' = Append(errands, << <<Toggled(r, after.row.kill, FALSE)>> >>)
      BY <1>4, <3>5
    <3>7. errands' = Append(errands, << <<n>> >>)
      BY <3>3, <3>5, <3>6, Zenon
    <3>8. errands' \in Seq(Errand)
      BY SwitchStep DEF IInv, TypeInv, TracesType
    <3>9. PICK all : all = Append(errands, << <<n>> >>)
      OBVIOUS
    <3>10. Append(errands, << <<n>> >>) \in Seq(Errand)
      BY <3>7, <3>8
    <3>11. Cardinality(PendingIn(Append(errands, << <<n>> >>), s, o))
             = Cardinality(PendingIn(errands, s, o))
               + IF n.kind = "kill_switch_toggled" /\ n.rest = s /\ n.on = o THEN 1 ELSE 0
      BY <2>1, <3>10, OneBatch
    <3>12. PendingTold(s, o)' = Cardinality(PendingIn(Append(errands, << <<n>> >>), s, o))
      BY <3>7, Zenon DEF PendingTold
    <3>13. (n.kind = "kill_switch_toggled" /\ n.rest = s /\ n.on = o) <=> (s \in rs /\ o = on)
      BY <3>2, <3>4
    <3>14. QED BY <3>11, <3>12, <3>13 DEF PendingTold
  <2>5. QED BY <2>3, <2>4
<1>11. ~misread' => /\ ~misread
                    /\ \A s \in Restaurants, o \in BOOLEAN :
                         PendingTold(s, o)' = PendingTold(s, o) + IF s \in rs /\ o = on THEN 1 ELSE 0
  BY <1>9, <1>10
<1>12. QED BY <1>8, <1>11, TurnCount

(* When the count of the eligible is zero, none would change. *)
LEMMA NoneReady ==
  ASSUME TablesType, Cardinality(Live) - Cardinality(InvalidForSwitch) = 0
  PROVE  WouldChange(TRUE, TRUE) = {}
<1>1. IsFiniteSet(Live)
  <2>1. Live \in SUBSET Restaurants
    BY DEF Live
  <2>2. QED BY <2>1, FS_Subset, SwitchboardAssumption
<1>2. InvalidForSwitch \in SUBSET Live
  BY DEF InvalidForSwitch
<1>3. IsFiniteSet(InvalidForSwitch)
  BY <1>1, <1>2, FS_Subset
<1>4. Cardinality(Live) \in Nat /\ Cardinality(InvalidForSwitch) \in Nat
  BY <1>1, <1>3, FS_CardinalityType
<1>5. Cardinality(Live) = Cardinality(InvalidForSwitch)
  BY <1>4
<1>6. InvalidForSwitch = Live
  BY <1>1, <1>2, <1>5, FS_Subset
<1>7. RedirectReady = {}
  BY <1>6 DEF RedirectReady, InvalidForSwitch
<1>8. QED BY <1>7 DEF WouldChange

LEMMA SwitchAllCount ==
  ASSUME IInv, CountInv, NEW on \in BOOLEAN, SetAllKillSwitches(on)
  PROVE  CountInv'
<1>1. TypeInv /\ TablesType /\ errands \in Seq(Errand)
  BY DEF IInv, TypeInv, TracesType
<1>2. PICK rs \in SUBSET Restaurants : rs = WouldChange(on, on)
  BY DEF WouldChange, RedirectReady, Live
<1>3. Turn(rs, on) /\ UNCHANGED <<notices, untold, misread>>
  BY <1>2 DEF SetAllKillSwitches
<1>4. PICK bulk \in Seq(NoticeRow) : bulk = SetToSeq({Toggled(r, on, TRUE) : r \in rs})
  BY BulkTyped
<1>5. errands' = Append(errands, (IF rs = {} THEN << >> ELSE <<bulk>>) \o << <<Summary(on)>> >>)
  <2>1. CASE on /\ Cardinality(Live) - Cardinality(InvalidForSwitch) = 0
    <3>1. rs = {}
      BY <1>1, <1>2, <2>1, NoneReady
    <3>2. QED BY <2>1, <3>1 DEF SetAllKillSwitches
  <2>2. CASE ~(on /\ Cardinality(Live) - Cardinality(InvalidForSwitch) = 0)
    BY <1>2, <1>4, <2>2 DEF SetAllKillSwitches
  <2>3. QED BY <2>1, <2>2
<1>6. PICK n \in NoticeRow : n = Summary(on) /\ n.kind = "kill_switch_bulk_updated"
  BY SummaryTyped
<1>7. ASSUME NEW s \in Restaurants, NEW o \in BOOLEAN
      PROVE  PendingTold(s, o)' = PendingTold(s, o) + IF s \in rs /\ o = on THEN 1 ELSE 0
  <2>1. errands' \in Seq(Errand)
    BY SwitchAllStep DEF IInv, TypeInv, TracesType
  <2>2. CASE rs = {}
    <3>1. << >> \o << <<n>> >> = << <<n>> >>
      OBVIOUS
    <3>2. errands' = Append(errands, << >> \o << <<n>> >>)
      BY <1>5, <1>6, <2>2
    <3>3. errands' = Append(errands, << <<n>> >>)
      BY <3>1, <3>2, Zenon
    <3>4. Append(errands, << <<n>> >>) \in Seq(Errand)
      BY <2>1, <3>3
    <3>5. Cardinality(PendingIn(Append(errands, << <<n>> >>), s, o))
            = Cardinality(PendingIn(errands, s, o))
              + IF n.kind = "kill_switch_toggled" /\ n.rest = s /\ n.on = o THEN 1 ELSE 0
      BY <1>1, <3>4, OneBatch
    <3>6. PendingTold(s, o)' = Cardinality(PendingIn(Append(errands, << <<n>> >>), s, o))
      BY <3>3, Zenon DEF PendingTold
    <3>7. n.kind # "kill_switch_toggled" /\ s \notin rs
      BY <1>6, <2>2
    <3>8. QED BY <3>5, <3>6, <3>7 DEF PendingTold
  <2>3. CASE rs # {}
    <3>1. PICK one \in Seq(NoticeRow) : one = <<n>>
      <4>1. <<n>> \in Seq(NoticeRow)
        OBVIOUS
      <4>2. QED BY <4>1
    <3>2. PICK head \in Seq(Seq(NoticeRow)), last \in Seq(Seq(NoticeRow)) : head = <<bulk>> /\ last = <<one>>
      <4>1. <<bulk>> \in Seq(Seq(NoticeRow)) /\ <<one>> \in Seq(Seq(NoticeRow))
        OBVIOUS
      <4>2. QED BY <4>1
    <3>3. /\ Len(head) = 1 /\ head[1] = bulk
          /\ Len(last) = 1 /\ last[1] = one
      BY <3>2
    <3>4. PICK e \in Seq(Seq(NoticeRow)) : e = head \o last
      BY ConcatProperties
    <3>5. DOMAIN e = {1, 2} /\ e[1] = bulk /\ e[2] = one
      <4>1. /\ Len(e) = Len(head) + Len(last)
            /\ \A k \in 1..(Len(head) + Len(last)) : e[k] = IF k <= Len(head) THEN head[k] ELSE last[k - Len(head)]
        BY <3>4, ConcatProperties
      <4>2. Len(e) = 2 /\ \A k \in 1..2 : e[k] = IF k <= 1 THEN head[k] ELSE last[k - 1]
        BY <3>3, <4>1
      <4>3. DOMAIN e = 1..2
        BY <4>2
      <4>4. QED BY <3>3, <4>3, <4>2
    <3>6. e \in Errand
      <4>1. e # << >>
        <5>1. 1 \in DOMAIN e /\ 1 \notin DOMAIN << >>
          BY <3>5
        <5>2. QED BY <5>1, Zenon
      <4>2. QED BY <4>1 DEF Errand
    <3>7. <<bulk>> \o << <<n>> >> = e
      BY <3>1, <3>2, <3>4, Zenon
    <3>8. errands' = Append(errands, <<bulk>> \o << <<n>> >>)
      BY <1>5, <1>6, <2>3
    <3>9. errands' = Append(errands, e)
      BY <3>7, <3>8, Zenon
    <3>10. Tells(one, s, o) = {}
      <4>1. DOMAIN one = {1} /\ one[1] = n
        BY <3>1
      <4>2. QED BY <1>6, <4>1 DEF Tells
    <3>11. Cardinality(PendingIn(Append(errands, e), s, o))
             = Cardinality(PendingIn(errands, s, o)) + Cardinality(Tells(e[1], s, o))
      <4>1. \A j \in DOMAIN e \ {1} : Tells(e[j], s, o) = {}
        BY <3>5, <3>10
      <4>2. QED BY <1>1, <3>6, <4>1, ErrandAdded
    <3>12. Cardinality(Tells(bulk, s, o)) = IF s \in rs /\ o = on THEN 1 ELSE 0
      <4>1. bulk = BulkOf(rs, on)
        BY <1>4 DEF BulkOf
      <4>2. QED BY <4>1, BulkTells
    <3>13. PendingTold(s, o)' = Cardinality(PendingIn(Append(errands, e), s, o))
      BY <3>9, Zenon DEF PendingTold
    <3>14. QED BY <3>5, <3>11, <3>12, <3>13 DEF PendingTold
  <2>4. QED BY <2>2, <2>3
<1>8. QED BY <1>3, <1>7, TurnCount

LEMMA ReadCount ==
  ASSUME IInv, CountInv, NEW r \in Restaurants, NEW n \in DOMAIN notices, MarkNotificationRead(r, n)
  PROVE  CountInv'
<1>1. /\ notices' = [notices EXCEPT ![n].read = TRUE] /\ UNCHANGED <<turned, misread, untold, errands>>
      /\ notices \in Seq(NoticeRow)
  BY DEF MarkNotificationRead, settings, IInv, TypeInv, TracesType
<1>2. notices[n] \in AnyNotice
  BY <1>1 DEF NoticeRow
<1>3. PICK after : after = notices'
  OBVIOUS
<1>4. DOMAIN after = DOMAIN notices /\ \A k \in DOMAIN notices :
        after[k].kind = notices[k].kind /\ after[k].rest = notices[k].rest /\ after[k].on = notices[k].on
  BY <1>1, <1>2, <1>3 DEF AnyNotice
<1>5. ASSUME NEW s \in Restaurants, NEW o \in BOOLEAN
      PROVE  Written(s, o)' = Written(s, o) /\ PendingTold(s, o)' = PendingTold(s, o)
  <2>1. Tells(after, s, o) = Tells(notices, s, o)
    BY <1>4, SameTells
  <2>2. QED BY <1>1, <1>3, <2>1 DEF Written, PendingTold
<1>6. QED BY <1>1, <1>5, CountsSame

LEMMA ReadAllCount ==
  ASSUME IInv, CountInv, NEW r \in Restaurants, NEW system \in BOOLEAN, MarkAllRead(r, system)
  PROVE  CountInv'
<1>1. /\ notices' = [n \in DOMAIN notices |->
           IF n \in InboxOf(r) /\ (system => notices[n].kind \in SystemKinds)
           THEN [notices[n] EXCEPT !.read = TRUE] ELSE notices[n]]
      /\ UNCHANGED <<turned, misread, untold, errands>> /\ notices \in Seq(NoticeRow)
  BY DEF MarkAllRead, settings, IInv, TypeInv, TracesType
<1>2. \A k \in DOMAIN notices : notices[k] \in AnyNotice
  BY <1>1 DEF NoticeRow
<1>3. PICK after : after = notices'
  OBVIOUS
<1>4. DOMAIN after = DOMAIN notices /\ \A k \in DOMAIN notices :
        after[k].kind = notices[k].kind /\ after[k].rest = notices[k].rest /\ after[k].on = notices[k].on
  BY <1>1, <1>2, <1>3 DEF AnyNotice
<1>5. ASSUME NEW s \in Restaurants, NEW o \in BOOLEAN
      PROVE  Written(s, o)' = Written(s, o) /\ PendingTold(s, o)' = PendingTold(s, o)
  <2>1. Tells(after, s, o) = Tells(notices, s, o)
    BY <1>4, SameTells
  <2>2. QED BY <1>1, <1>3, <2>1 DEF Written, PendingTold
<1>6. QED BY <1>1, <1>5, CountsSame

(* A notice of another kind tells nobody of a switch. *)
LEMMA NewsCount ==
  ASSUME IInv, CountInv, UNCHANGED <<turned, untold, misread, errands>>,
         notices' = notices \/ \E n : n.kind # "kill_switch_toggled" /\ notices' = Append(notices, n)
  PROVE  CountInv'
<1>1. notices \in Seq(NoticeRow)
  BY DEF IInv, TypeInv, TracesType
<1>2. CASE notices' = notices
  BY <1>2, CountsAlone
<1>3. CASE \E n : n.kind # "kill_switch_toggled" /\ notices' = Append(notices, n)
  <2>1. PICK n : n.kind # "kill_switch_toggled" /\ notices' = Append(notices, n)
    BY <1>3
  <2>2. ASSUME NEW s \in Restaurants, NEW o \in BOOLEAN
        PROVE  Written(s, o)' = Written(s, o) /\ PendingTold(s, o)' = PendingTold(s, o)
    <3>1. Tells(Append(notices, n), s, o) = Tells(notices, s, o)
      BY <1>1, <2>1, OtherNews
    <3>2. QED BY <2>1, <3>1 DEF Written, PendingTold
  <2>3. QED BY <2>2, CountsSame
<1>4. QED BY <1>2, <1>3

LEMMA NotifyCount ==
  ASSUME IInv, CountInv, NEW c \in Calls, BypassNotify(c)
  PROVE  CountInv'
<1>1. UNCHANGED <<turned, untold, misread, errands>>
  BY DEF BypassNotify, Unrecorded, Recorded, settings
<1>2. CASE Unrecorded(c, "over")
  BY <1>1, <1>2, NewsCount DEF Unrecorded
<1>3. CASE notices' = Append(notices, Notice(calls[c].rest, "kill_switch_redirected", TRUE, FALSE, EntityOf(calls[c], c)))
  <2>1. Notice(calls[c].rest, "kill_switch_redirected", TRUE, FALSE, EntityOf(calls[c], c)).kind # "kill_switch_toggled"
    BY DEF Notice
  <2>2. QED BY <1>1, <1>3, <2>1, NewsCount
<1>4. QED BY <1>2, <1>3 DEF BypassNotify

LEMMA TextCount ==
  ASSUME IInv, CountInv, NEW c \in Calls, SendSmsRedirect(c)
  PROVE  CountInv'
<1>1. UNCHANGED <<turned, untold, misread, errands>>
  BY DEF SendSmsRedirect, settings
<1>2. notices' = notices \/ \E e : notices' = Append(notices, Notice(calls[c].rest, "sms_redirect_failed", TRUE, FALSE, e))
  BY DEF SendSmsRedirect, LinkFails
<1>3. CASE notices' = notices
  BY <1>1, <1>3, NewsCount
<1>4. CASE \E e : notices' = Append(notices, Notice(calls[c].rest, "sms_redirect_failed", TRUE, FALSE, e))
  <2>1. PICK e : notices' = Append(notices, Notice(calls[c].rest, "sms_redirect_failed", TRUE, FALSE, e))
    BY <1>4
  <2>2. Notice(calls[c].rest, "sms_redirect_failed", TRUE, FALSE, e).kind # "kill_switch_toggled"
    BY DEF Notice
  <2>3. QED BY <1>1, <2>1, <2>2, NewsCount
<1>5. QED BY <1>2, <1>3, <1>4

LEMMA HumanCount ==
  ASSUME IInv, CountInv, NEW c \in Calls, NEW now, EscalateToHuman(c, now)
  PROVE  CountInv'
<1>1. UNCHANGED <<turned, untold, misread, notices>>
  BY DEF EscalateToHuman, settings
<1>2. errands' = errands \/ \E call : errands' = Append(errands, << <<UserRequested(call, c)>> >>)
  BY DEF EscalateToHuman
<1>3. CASE errands' = errands
  BY <1>1, <1>3, CountsAlone
<1>4. CASE \E call : errands' = Append(errands, << <<UserRequested(call, c)>> >>)
  <2>1. PICK call : errands' = Append(errands, << <<UserRequested(call, c)>> >>)
    BY <1>4
  <2>2. PICK n : n = UserRequested(call, c)
    OBVIOUS
  <2>3. n.kind # "kill_switch_toggled"
    BY <2>2 DEF UserRequested, Notice
  <2>4. errands' = Append(errands, << <<n>> >>)
    BY <2>1, <2>2, Zenon
  <2>5. errands' \in Seq(Errand) /\ errands \in Seq(Errand) /\ TypeInv
    BY HumanStep DEF IInv, TypeInv, TracesType
  <2>6. Append(errands, << <<n>> >>) \in Seq(Errand)
    BY <2>4, <2>5
  <2>7. ASSUME NEW s \in Restaurants, NEW o \in BOOLEAN
        PROVE  Written(s, o)' = Written(s, o) /\ PendingTold(s, o)' = PendingTold(s, o)
    <3>1. Cardinality(PendingIn(Append(errands, << <<n>> >>), s, o)) = Cardinality(PendingIn(errands, s, o)) + 0
      BY <2>3, <2>5, <2>6, OneBatch
    <3>2. PendingTold(s, o)' = Cardinality(PendingIn(Append(errands, << <<n>> >>), s, o))
      BY <2>4, Zenon DEF PendingTold
    <3>3. PendingTold(s, o) \in Nat
      BY <2>5, CountsNat
    <3>4. PendingTold(s, o)' = PendingTold(s, o)
      BY <3>1, <3>2, <3>3 DEF PendingTold
    <3>5. QED BY <1>1, <3>4 DEF Written
  <2>8. QED BY <1>1, <2>7, CountsSame
<1>5. QED BY <1>2, <1>3, <1>4

LEMMA InitCount ==
  ASSUME SwitchInit
  PROVE  CountInv
<1>1. /\ notices = << >> /\ errands = << >>
      /\ turned = [r \in Restaurants |-> [on \in BOOLEAN |-> 0]]
      /\ untold = [r \in Restaurants |-> [on \in BOOLEAN |-> 0]]
  BY DEF SwitchInit
<1>2. ASSUME NEW r \in Restaurants, NEW on \in BOOLEAN
      PROVE  /\ Written(r, on) = 0 /\ PendingTold(r, on) = 0
             /\ turned[r][on] = 0 /\ untold[r][on] = 0
  <2>1. DOMAIN << >> = {}
    OBVIOUS
  <2>2. Tells(<< >>, r, on) = {}
    BY <2>1 DEF Tells
  <2>3. PendingIn(<< >>, r, on) = {}
    BY <2>1 DEF PendingIn
  <2>4. Cardinality({}) = 0
    BY FS_EmptySet
  <2>5. QED BY <1>1, <2>2, <2>3, <2>4 DEF Written, PendingTold
<1>3. turned \in Counts /\ untold \in Counts
  BY <1>1 DEF Counts
<1>4. QED BY <1>2, <1>3 DEF CountInv

LEMMA NextCount ==
  ASSUME IInv, CountInv, [SwitchNext]_switchVars
  PROVE  CountInv'
<1>1. CASE Settings
  <2>1. PICK r \in Restaurants :
          \/ \E p \in Payloads : CreateRestaurant(r, p) \/ UpdateRestaurant(r, p)
          \/ DeleteRestaurant(r)
          \/ \E on \in BOOLEAN : SetRestaurantKillSwitch(r, on) \/ MarkAllRead(r, on)
          \/ \E n \in DOMAIN notices : MarkNotificationRead(r, n)
    BY <1>1 DEF Settings
  <2>2. CASE \E p \in Payloads : CreateRestaurant(r, p) \/ UpdateRestaurant(r, p)
    BY <2>2, CountsAlone DEF CreateRestaurant, UpdateRestaurant
  <2>3. CASE DeleteRestaurant(r)
    BY <2>3, CountsAlone DEF DeleteRestaurant
  <2>4. CASE \E on \in BOOLEAN : SetRestaurantKillSwitch(r, on) \/ MarkAllRead(r, on)
    BY <2>4, SwitchCount, ReadAllCount
  <2>5. CASE \E n \in DOMAIN notices : MarkNotificationRead(r, n)
    BY <2>5, ReadCount
  <2>6. QED BY <2>1, <2>2, <2>3, <2>4, <2>5
<1>2. CASE \E on \in BOOLEAN : SetAllKillSwitches(on)
  BY <1>2, SwitchAllCount
<1>3. CASE Staff
  BY <1>3, CountsAlone DEF Staff, UpdateEscalationStatus, settings
<1>4. CASE \E i \in DOMAIN errands : Tell(i)
  BY <1>4, TellCount
<1>5. ASSUME NEW c \in Calls, Bypass(c) PROVE CountInv'
  <2>1. CASE BypassUser(c)
    BY <2>1, CountsAlone DEF BypassUser, Recorded, Unrecorded, settings
  <2>2. CASE BypassRow(c)
    BY <2>2, CountsAlone DEF BypassRow, Recorded, Unrecorded, settings
  <2>3. CASE BypassFinalize(c)
    BY <2>3, CountsAlone DEF BypassFinalize, Recorded, Unrecorded, settings
  <2>4. CASE BypassEscalate(c)
    BY <2>4, CountsAlone DEF BypassEscalate, Recorded, Unrecorded, settings
  <2>5. CASE BypassForward(c)
    BY <2>5, CountsAlone DEF BypassForward, Recorded, Unrecorded, settings
  <2>6. CASE BypassNotify(c)
    BY <2>6, NotifyCount
  <2>7. QED BY <1>5, <2>1, <2>2, <2>3, <2>4, <2>5, <2>6 DEF Bypass
<1>6. ASSUME NEW c \in Calls, HandOver(c) PROVE CountInv'
  <2>1. CASE StartAgent(c)
    BY <2>1, CountsAlone DEF StartAgent, settings
  <2>2. CASE \E now \in Nows : EscalateToHuman(c, now)
    BY <2>2, HumanCount
  <2>3. CASE SendSmsRedirect(c)
    BY <2>3, TextCount
  <2>4. CASE Redirect(c)
    BY <2>4, CountsAlone DEF Redirect, settings
  <2>5. QED BY <1>6, <2>1, <2>2, <2>3, <2>4 DEF HandOver
<1>7. ASSUME NEW c \in Calls, Caller(c) PROVE CountInv'
  <2>1. CASE \E n \in Numbers : Voice(c, n)
    BY <2>1, CountsAlone DEF Voice, settings
  <2>2. CASE AskForHuman(c) \/ AskForLink(c)
    BY <2>2, CountsAlone DEF AskForHuman, AskForLink, Ask, settings
  <2>3. CASE EndCall(c) \/ HangUp(c)
    BY <2>3, CountsAlone DEF EndCall, HangUp, settings
  <2>4. QED BY <1>7, <2>1, <2>2, <2>3 DEF Caller
<1>8. CASE UNCHANGED switchVars
  BY <1>8, CountsAlone DEF switchVars, settings
<1>9. QED BY <1>1, <1>2, <1>3, <1>4, <1>5, <1>6, <1>7, <1>8 DEF SwitchNext

(* Every turn of a switch, alone or in bulk, from either dashboard, is     *)
(* told to its restaurant exactly once: its notice is written, waits in    *)
(* one errand, or went with a statement that failed; in whatever order the *)
(* errands of other changes and of the calls run beside it, and as long as *)
(* no handler of the switch worked on a degraded read.                     *)
THEOREM ToldExactlyOnce == SwitchSpec => []ToldOnce
<1>1. SwitchInit => CountInv
  BY InitCount
<1>2. IInv /\ CountInv /\ [SwitchNext]_switchVars => CountInv'
  BY NextCount
<1>3. ASSUME CountInv PROVE ToldOnce
  <2>1. ASSUME NEW r \in Restaurants, NEW on \in BOOLEAN
        PROVE  Pending(r, on) = PendingIn(errands, r, on)
    BY DEF Pending, PendingIn
  <2>2. QED BY <1>3, <2>1 DEF ToldOnce, CountInv, Written, PendingTold
<1>4. QED BY <1>1, <1>2, <1>3, Invariant, PTL DEF SwitchSpec
=============================================================================
