---------------------------- MODULE Switchboard ----------------------------
(***************************************************************************)
(* Where a call goes, and who hears of it: the settings of the restaurants *)
(* as the two dashboards edit them (app/services/restaurant_service.py and *)
(* its APIs), the kill switch and the notifications of its changes         *)
(* (app/services/kill_switch_event_service.py), the webhooks that Twilio   *)
(* asks where to put a call (voice and redirect in app/main.py), and the   *)
(* escalations that the agent, the webhooks and the staff write            *)
(* (app/agent_fc/functions/conversation.py,                                *)
(* app/services/escalation_service.py).                                    *)
(*                                                                         *)
(* The handlers of the APIs and of the webhooks do not await between their *)
(* statements, so that each is one step of the event loop.  The errands    *)
(* they leave (background tasks) and the functions of the agent do await.  *)
(* A read of a restaurant may come out Degraded: when the query fails, the *)
(* repository asks for fewer columns and makes the others up.              *)
(***************************************************************************)
EXTENDS AgentSetup, Sequences, SequencesExt, FiniteSetsExt

CONSTANTS
  Restaurants, Numbers, Phones, Urls, Calls,
  RestaurantRows, FeatureRows,  \* the restaurants to begin with
  Payloads,      \* bound: bodies of create and update requests
  Zone,          \* local time of the restaurants is ahead of UTC by Zone
  Nows,          \* bound: when a caller asks for a human
  MaxEdits, MaxFaults, MaxEscalations,   \* bounds
  Gone           \* the row was deleted

Modes == {"always", "open_hours_only"}
Row == [number : Numbers \cup {Null}, forward : BOOLEAN, phone : Phones \cup {Null},
        kill : BOOLEAN, mode : Modes, hours : [Days -> DayRow]]
Features == [capable : [Skills -> BOOLEAN],
             redirect : [Kinds -> [on : BOOLEAN, url : Urls \cup {Null}]]]
Statuses == {"raised", "forwarded", "failed", "resolved"}

(* What the models of the requests let through (DayHours, and the create   *)
(* and update requests of both dashboards): a day names both times or      *)
(* none, and the mode is one of two; nobody asks for the switch itself.    *)
IsDay(change) ==
  /\ DOMAIN change \subseteq {"open", "close", "closed", "allDay"}
  /\ IsClosed(change) \/ IsAllDay(change) \/ ("open" \in DOMAIN change <=> "close" \in DOMAIN change)
  /\ {IsClosed(change), IsAllDay(change)} \subseteq BOOLEAN
  /\ {Get(change, "open", Null), Get(change, "close", Null)} \subseteq Moments \cup {Null}

IsFeaturePart(flags) ==
  /\ \A k \in Skills : Part(flags, "capable", k, Null) \in BOOLEAN \cup {Null}
  /\ \A k \in Kinds : LET redirect == Part(flags, "redirect", k, << >>) IN
       Get(redirect, "on", Null) \in BOOLEAN \cup {Null} /\ Get(redirect, "url", Null) \in Urls \cup {Null}

IsBody(p) == /\ DOMAIN p \subseteq {"number", "forward", "phone", "mode", "hours", "features"}
             /\ Get(p, "number", Null) \in Numbers \cup {Null} /\ Get(p, "forward", FALSE) \in BOOLEAN
             /\ Get(p, "phone", Null) \in Phones \cup {Null} /\ Get(p, "mode", "always") \in Modes
             /\ \A d \in DOMAIN Get(p, "hours", << >>) : d \in Days /\ IsDay(p.hours[d])
             /\ IsFeaturePart(Get(p, "features", << >>))

(* The tables to begin with keep the rules that the handlers keep.         *)
IsStart(rows, flags) ==
  \A r \in Restaurants :
    /\ rows[r] # Null /\ rows[r].kill => rows[r].forward /\ rows[r].phone # Null
    /\ rows[r] # Null /\ rows[r].number # Null =>
         \A s \in Restaurants \ {r} : rows[s] = Null \/ rows[s].number # rows[r].number
    /\ flags[r] # Null => rows[r] # Null /\ RedirectRulesHold(flags[r])

ASSUME SwitchboardAssumption ==
  /\ \A p \in Payloads : IsBody(p)
  /\ RestaurantRows \in [Restaurants -> Row \cup {Null}]
  /\ FeatureRows \in [Restaurants -> Features \cup {Null}]
  /\ IsStart(RestaurantRows, FeatureRows)
  /\ Null \notin Restaurants \cup Numbers \cup Row /\ Gone \notin Row \cup {Null}
  /\ IsFiniteSet(Restaurants) /\ Zone \in Int
  /\ MaxEdits \in Nat /\ MaxFaults \in Nat /\ MaxEscalations \in Nat

VARIABLES
  restaurants, features,   \* the tables
  notices,       \* the table Notifications
  escalations,   \* the table Escalations
  errands,       \* background tasks: each the notices it has yet to write
  calls,         \* the calls, with their rows in the table Calls
  edits, faults, \* requests of the dashboards, and failed statements, so far
  \* for the properties only:
  turned,        \* how often a restaurant's switch was turned on and off
  untold,        \* how many of these notices could not be written
  misread,       \* a handler of the switch worked on a degraded read
  blind          \* restaurants updated after a degraded read

settings == <<restaurants, features, turned, misread, blind>>
switchVars == <<settings, notices, escalations, errands, calls, edits, faults, untold>>

Live == {r \in Restaurants : restaurants[r] \notin {Null, Gone}}

NewCall == [st |-> "new", setup |-> Null, rest |-> Null, number |-> Null, row |-> "none", saw |-> Null, kind |-> Null,
            told |-> "nothing", dialled |-> Null, esc |-> 0,
            faulted |-> FALSE, hungUp |-> FALSE,
            stirred |-> FALSE, drifted |-> FALSE, moved |-> FALSE]   \* its restaurant was edited, see Stir

SwitchInit ==
  /\ restaurants = RestaurantRows /\ features = FeatureRows
  /\ notices = << >> /\ escalations = << >> /\ errands = << >>
  /\ calls = [c \in Calls |-> NewCall]
  /\ edits = 0 /\ faults = 0
  /\ turned = [r \in Restaurants |-> [on \in BOOLEAN |-> 0]]
  /\ untold = [r \in Restaurants |-> [on \in BOOLEAN |-> 0]]
  /\ misread = FALSE /\ blind = {}

(***************************************************************************)
(* Reads.  get_by_id, get_by_twilio_number: what the first query does not  *)
(* deliver.  _parse_json_fields reads the features in a query of its own;  *)
(* when that fails, the flags are those of the row, without the redirects. *)
(***************************************************************************)
Degraded(row) == [row EXCEPT !.forward = FALSE, !.phone = Null, !.kill = FALSE,
                             !.mode = "always", !.hours = [d \in Days |-> NineToTen]]

StoredFeatures(r) == IF features[r] = Null THEN DefaultFeatures ELSE features[r]

ReadsOf(row, flags) ==
  {[row |-> row, features |-> flags, bad |-> 0]}
  \cup IF faults >= MaxFaults THEN {}
       ELSE {[row |-> Degraded(row), features |-> flags, bad |-> 1],
             [row |-> row, features |-> [flags EXCEPT !.redirect = [k \in Kinds |-> NoRedirect]],
              bad |-> 1]}

Reads(r) == ReadsOf(restaurants[r], StoredFeatures(r))

Fault(n) == faults + n <= MaxFaults /\ faults' = faults + n

(* How many of a handler's statements failed. *)
Undone(done) == Cardinality({k \in DOMAIN done : ~done[k]})

(* The caller of a restaurant's number; the first row is as good as any. *)
ByNumber(n) == {r \in Live : restaurants[r].number = n}

(***************************************************************************)
(* The settings.                                                           *)
(***************************************************************************)
Edit == edits < MaxEdits /\ edits' = edits + 1

(* Calls that are under way feel a change of their restaurant's row: since *)
(* the agent asked (stirred), since the stream began (drifted), or at any  *)
(* time, when the number that was called is no longer that of the          *)
(* restaurant (moved).                                                     *)
Answers(row, n) == row \notin {Null, Gone} /\ row.number = n

Stir(rs) == calls' = [c \in Calls |->
  IF calls[c].rest \in rs
  THEN [calls[c] EXCEPT !.stirred = TRUE, !.drifted = TRUE,
                        !.moved = @ \/ ~Answers(restaurants'[calls[c].rest], calls[c].number)]
  ELSE calls[c]]

NumberFree(n, except) == n = Null \/ ByNumber(n) \subseteq {except}

(* restaurant_repo.create, features_repo.create_defaults and update *)
InsertRestaurant(p) ==
  [number |-> Get(p, "number", Null), forward |-> Get(p, "forward", FALSE),
   phone |-> Get(p, "phone", Null), kill |-> FALSE, mode |-> Get(p, "mode", "always"),
   hours |-> NewHours(Get(p, "hours", << >>))]

InsertDefaults(flags) == IF flags = Null THEN DefaultFeatures ELSE flags

WriteFeatures(flags, merged) == IF flags = Null THEN Null ELSE merged

(* The second and the third statement may fail after the first went through. *)
CreateRestaurant(r, p) ==
  /\ Edit /\ restaurants[r] = Null
  /\ ForwardingValid(Get(p, "forward", FALSE), Get(p, "phone", Null))
  /\ NumberFree(Get(p, "number", Null), r)
  /\ ValidHours(Get(p, "hours", << >>))
  /\ LET merged == MergeFeatureFlags(DefaultFeatures, Get(p, "features", << >>)) IN
     /\ RedirectRulesHold(merged)
     /\ restaurants' = [restaurants EXCEPT ![r] = InsertRestaurant(p)]
     /\ \E written \in 0..2 :
          /\ IF written = 2 THEN UNCHANGED faults ELSE Fault(1)
          /\ features' = [features EXCEPT ![r] =
               CASE written = 0 -> @
                 [] written = 1 -> InsertDefaults(@)
                 [] OTHER -> WriteFeatures(InsertDefaults(@), merged)]
  /\ UNCHANGED <<notices, escalations, errands, calls, turned, untold, misread, blind>>

(* restaurant_repo.update: the columns that the payload names *)
UpdateRow(row, p) ==
  [row EXCEPT !.number = Get(p, "number", @), !.forward = Get(p, "forward", @),
              !.phone = Get(p, "phone", @), !.mode = Get(p, "mode", @),
              !.hours = IF "hours" \in DOMAIN p THEN FlattenHours(@, p.hours) ELSE @]

(* Mutant: the features of the payload are checked by themselves. *)
PieceUpdate(r, p, seen) ==
  /\ ForwardingValid(Get(p, "forward", seen.row.forward), Get(p, "phone", seen.row.phone))
  /\ RedirectRulesHold(MergeFeatureFlags(
       [capable |-> [k \in Kinds |-> FALSE], redirect |-> [k \in Kinds |-> NoRedirect]],
       Get(p, "features", << >>)))

(* The check of an update against what was read of the restaurant.  A      *)
(* request cannot name the switch: the two models of the APIs lack it.     *)
UpdateAllowed(r, p, seen) ==
  LET forward == Get(p, "forward", seen.row.forward)
      phone   == Get(p, "phone", seen.row.phone)
  IN /\ Get(p, "number", seen.row.number) # seen.row.number => NumberFree(p.number, r)
     /\ ValidHours(Get(p, "hours", << >>))
     /\ ForwardingValid(forward, phone)
     /\ seen.row.kill => KillSwitchBlockers(forward, phone) = {}
     /\ RedirectRulesHold(MergeFeatureFlags(seen.features, Get(p, "features", << >>)))

(* The features are written in a second statement, which may fail. *)
UpdateRestaurant(r, p) ==
  /\ Edit /\ r \in Live
  /\ \E seen \in Reads(r), done \in BOOLEAN :
       /\ "features" \in DOMAIN p \/ done
       /\ Fault(seen.bad + Undone(<<done>>))
       /\ UpdateAllowed(r, p, seen)
       /\ restaurants' = [restaurants EXCEPT ![r] = UpdateRow(@, p)]
       /\ features' = [features EXCEPT ![r] =
            IF done /\ "features" \in DOMAIN p
            THEN WriteFeatures(InsertDefaults(@), MergeFeatureFlags(seen.features, p.features))
            ELSE @]
       /\ blind' = IF seen.bad > 0 THEN blind \cup {r} ELSE blind
  /\ Stir({r})
  /\ UNCHANGED <<notices, escalations, errands, turned, untold, misread>>

DeleteRestaurant(r) ==
  /\ Edit /\ r \in Live
  /\ restaurants' = [restaurants EXCEPT ![r] = Gone]
  /\ features' = [features EXCEPT ![r] = Null]
  /\ Stir({r})
  /\ UNCHANGED <<notices, escalations, errands, faults, turned, untold, misread, blind>>

(***************************************************************************)
(* The kill switch, and its errands.                                       *)
(***************************************************************************)
Notice(rest, kind, on, bulk, entity) ==
  [rest |-> rest, kind |-> kind, on |-> on, bulk |-> bulk, entity |-> entity, read |-> FALSE]

Toggled(r, on, bulk) == Notice(r, "kill_switch_toggled", on, bulk, Null)
Summary(on)          == Notice(Null, "kill_switch_bulk_updated", on, FALSE, Null)

Turn(rs, on) == turned' = [r \in Restaurants |->
                  IF r \in rs THEN [turned[r] EXCEPT ![on] = @ + 1] ELSE turned[r]]

SetKillSwitch(rs, on) == [r \in Restaurants |->
  IF r \in rs THEN [restaurants[r] EXCEPT !.kill = on] ELSE restaurants[r]]

(* The handlers of both dashboards read the row before and after the       *)
(* service's own work and leave an errand when the two differ.             *)
SetRestaurantKillSwitch(r, on) ==
  /\ Edit /\ r \in Live
  /\ \E before \in Reads(r), current \in Reads(r) :
       /\ on => KillSwitchBlockers(current.row.forward, current.row.phone) = {}
       /\ LET asIs == current.row.kill = on
              table == IF asIs THEN restaurants ELSE SetKillSwitch({r}, on)
          IN \E after \in IF asIs THEN {[current EXCEPT !.bad = 0]}
                          ELSE ReadsOf(table[r], StoredFeatures(r))
                               \cup {[before EXCEPT !.bad = 2]} :   \* cannot be read at all
               LET bad == before.bad + current.bad + after.bad IN
               /\ Fault(bad)
               /\ restaurants' = table
               /\ misread' = (misread \/ bad > 0)
               /\ errands' = IF before.row.kill = after.row.kill THEN errands
                             ELSE Append(errands, << <<Toggled(r, after.row.kill, FALSE)>> >>)
  /\ Turn({s \in {r} : restaurants[s].kill # restaurants'[s].kill}, on)
  /\ Stir({r})
  /\ UNCHANGED <<features, notices, escalations, untold, blind>>

RedirectReady == {r \in Live : restaurants[r].forward /\ restaurants[r].phone # Null}
InvalidForSwitch == {r \in Live : ~restaurants[r].forward \/ restaurants[r].phone = Null}
WouldChange(on, onlyReady) ==
  {r \in IF onlyReady THEN RedirectReady ELSE Live : restaurants[r].kill # on}

(* Mutant: the restaurants that have been told are those that could change. *)
NoisySetAll(on) ==
  LET told == IF on THEN RedirectReady ELSE Live
  IN /\ Edit
     /\ restaurants' = SetKillSwitch(WouldChange(on, on), on)
     /\ errands' = Append(errands, << SetToSeq({Toggled(r, on, TRUE) : r \in told}), <<Summary(on)>> >>)
     /\ Turn(WouldChange(on, on), on)
     /\ Stir(WouldChange(on, on))
     /\ UNCHANGED <<features, notices, escalations, faults, untold, misread, blind>>

(* set_all_restaurants_kill_switch: the list and the update each ask the   *)
(* table; on, the restaurants that cannot be redirected are skipped.       *)
SetAllKillSwitches(on) ==
  LET eligible == Cardinality(Live) - Cardinality(InvalidForSwitch)
      listed == IF on /\ eligible = 0 THEN {} ELSE WouldChange(on, on)
      bulk == SetToSeq({Toggled(r, on, TRUE) : r \in listed})
  IN /\ Edit
     /\ restaurants' = SetKillSwitch(WouldChange(on, on), on)
     /\ errands' = Append(errands, (IF listed = {} THEN << >> ELSE <<bulk>>)
                                    \o << <<Summary(on)>> >>)
     /\ Turn(WouldChange(on, on), on)
     /\ Stir(WouldChange(on, on))
     /\ UNCHANGED <<features, notices, escalations, faults, untold, misread, blind>>

(* create_notification stores what belongs to a restaurant, or to the      *)
(* system; the notices of a bulk are of restaurants.                       *)
SystemKinds == {"kill_switch_toggled", "kill_switch_bulk_updated"}
Storable(n) == n.rest # Null \/ n.kind \in SystemKinds
Stored(batch) == IF \A k \in DOMAIN batch : Storable(batch[k]) THEN batch ELSE << >>

(* The notices of a batch that tell restaurant r that its switch turned.   *)
Tells(batch, r, on) == {k \in DOMAIN batch : /\ batch[k].kind = "kill_switch_toggled"
                                            /\ batch[k].rest = r /\ batch[k].on = on}

Lost(batch) == [r \in Restaurants |-> [on \in BOOLEAN |->
                  untold[r][on] + Cardinality(Tells(batch, r, on))]]

(* Errand i writes its next notices, one insert for all, or fails and goes *)
(* on; whoever it told over SSE it told before.                            *)
Tell(i) ==
  LET batch == Head(errands[i])
      left  == Tail(errands[i])
  IN /\ errands' = IF left = << >> THEN RemoveAt(errands, i) ELSE [errands EXCEPT ![i] = left]
     /\ \/ /\ notices' = notices \o Stored(batch)
           /\ UNCHANGED <<untold, faults>>
        \/ /\ Fault(1) /\ untold' = Lost(batch)
           /\ UNCHANGED notices
     /\ UNCHANGED <<settings, escalations, calls, edits>>

(***************************************************************************)
(* Notifications, as the dashboards read them.                             *)
(***************************************************************************)
InboxOf(r) == {n \in DOMAIN notices : notices[n].rest = r}

(* The administrators' list leaves out what a bulk change told restaurants. *)
AdminList == {n \in DOMAIN notices : ~(notices[n].kind = "kill_switch_toggled" /\ notices[n].bulk)}

MarkNotificationRead(r, n) ==
  /\ Edit /\ n \in InboxOf(r)
  /\ notices' = [notices EXCEPT ![n].read = TRUE]
  /\ UNCHANGED <<settings, escalations, errands, calls, faults, untold>>

MarkAllRead(r, system) ==
  /\ Edit /\ InboxOf(r) # {}
  /\ notices' = [n \in DOMAIN notices |->
       IF n \in InboxOf(r) /\ (system => notices[n].kind \in SystemKinds)
       THEN [notices[n] EXCEPT !.read = TRUE] ELSE notices[n]]
  /\ UNCHANGED <<settings, escalations, errands, calls, faults, untold>>

(***************************************************************************)
(* A call arrives.  The webhook reads the restaurant of the number, in     *)
(* full, degraded or not at all, and has Twilio dial the staff at once     *)
(* (the kill switch) or connect the call to the agent.                     *)
(***************************************************************************)
RowReads(r) ==
  IF r \notin Live THEN {[row |-> Null, bad |-> 0]}
  ELSE {[row |-> restaurants[r], bad |-> 0]}
       \cup IF faults >= MaxFaults THEN {}
            ELSE {[row |-> Degraded(restaurants[r]), bad |-> 1], [row |-> Null, bad |-> 1]}

Found(n) == IF ByNumber(n) = {} THEN {Null} ELSE ByNumber(n)

Forwards(row) == row # Null /\ row.forward /\ row.phone # Null

Put(c, call) == calls' = [calls EXCEPT ![c] = call]

Voice(c, n) ==
  /\ calls[c].st = "new"
  /\ \E r \in Found(n) : \E seen \in RowReads(r) :
       /\ Fault(seen.bad)
       /\ Put(c, IF Forwards(seen.row) /\ seen.row.kill
                 THEN [calls[c] EXCEPT !.st = "user", !.rest = r, !.number = n,
                                       !.dialled = seen.row.phone]
                 ELSE [calls[c] EXCEPT !.st = "stream", !.rest = r, !.number = n])
  /\ UNCHANGED <<settings, notices, escalations, errands, edits, untold>>

(* The stream begins: the restaurant is read again, and its agent set up   *)
(* by what that read says.  A number that is not found hears a message.    *)
StartAgent(c) ==
  LET r == calls[c].rest IN
  /\ calls[c].st = "stream"
  /\ \/ /\ r \in Live
        /\ \E seen \in Reads(r) :
             /\ Fault(seen.bad)
             /\ Put(c, [calls[c] EXCEPT !.st = "agent", !.row = "in_progress",
                                        !.setup = seen.features, !.drifted = FALSE])
     \/ /\ Fault(IF r \in Live THEN 1 ELSE 0)
        /\ Put(c, [calls[c] EXCEPT !.st = "left"])
  /\ UNCHANGED <<settings, notices, escalations, errands, edits, untold>>

(* _record_kill_switch_bypass, in the background while the staff's phone   *)
(* rings: each statement in a thread of its own, each may fail alone.      *)
Recorded(c, to, call) ==
  /\ Put(c, [call EXCEPT !.st = to])
  /\ UNCHANGED <<settings, errands, edits, untold>>

Unrecorded(c, to) ==
  /\ Fault(1) /\ Recorded(c, to, [calls[c] EXCEPT !.faulted = TRUE])
  /\ UNCHANGED <<notices, escalations>>

BypassUser(c) ==
  /\ calls[c].st = "user"
  /\ \/ Recorded(c, "row", calls[c]) /\ UNCHANGED <<notices, escalations, faults>>
     \/ Unrecorded(c, "notify")

(* Mutant: the escalation is written whether or not the call has its row. *)
HastyBypassRow(c) ==
  /\ calls[c].st = "row"
  /\ \/ /\ Recorded(c, "finalize", [calls[c] EXCEPT !.row = "in_progress"])
        /\ UNCHANGED <<notices, escalations, faults>>
     \/ Unrecorded(c, "escalate")

BypassRow(c) ==
  /\ calls[c].st = "row"
  /\ \/ /\ Recorded(c, "finalize", [calls[c] EXCEPT !.row = "in_progress"])
        /\ UNCHANGED <<notices, escalations, faults>>
     \/ Unrecorded(c, "notify")

BypassFinalize(c) ==
  /\ calls[c].st = "finalize"
  /\ \/ /\ Recorded(c, "escalate", [calls[c] EXCEPT !.row = "agent_bypassed"])
        /\ UNCHANGED <<notices, escalations, faults>>
     \/ Unrecorded(c, "escalate")

Raise(c) == Append(escalations, [call |-> c, rest |-> calls[c].rest, status |-> "raised",
                                 staff |-> FALSE])

(* Mutant: the escalation waits for the call's status. *)
StrictBypassEscalate(c) ==
  /\ calls[c].st = "escalate" /\ calls[c].row = "agent_bypassed"
  /\ escalations' = Raise(c)
  /\ Recorded(c, "forward", [calls[c] EXCEPT !.esc = Len(escalations) + 1])
  /\ UNCHANGED <<notices, faults>>

BypassEscalate(c) ==
  /\ calls[c].st = "escalate"
  /\ \/ /\ escalations' = Raise(c)
        /\ Recorded(c, "forward", [calls[c] EXCEPT !.esc = Len(escalations) + 1])
        /\ UNCHANGED <<notices, faults>>
     \/ Unrecorded(c, "notify")

WriteStatus(e, status) == [escalations EXCEPT ![e].status = status]

BypassForward(c) ==
  /\ calls[c].st = "forward"
  /\ \/ /\ escalations' = WriteStatus(calls[c].esc, "forwarded")
        /\ Recorded(c, "notify", calls[c])
        /\ UNCHANGED <<notices, faults>>
     \/ Unrecorded(c, "notify")

(* What a notice about an escalation is attached to: its row, or the call's. *)
EntityOf(call, c) == IF call.esc > 0 THEN <<"escalation", call.esc>>
                     ELSE IF call.row # "none" THEN <<"call", c>> ELSE Null

BypassNotify(c) ==
  /\ calls[c].st = "notify"
  /\ \/ /\ notices' = Append(notices, Notice(calls[c].rest, "kill_switch_redirected", TRUE, FALSE,
                                             EntityOf(calls[c], c)))
        /\ Recorded(c, "over", calls[c])
        /\ UNCHANGED <<escalations, faults>>
     \/ Unrecorded(c, "over")

(***************************************************************************)
(* The agent hands the call over.  Its functions read the restaurant in a  *)
(* thread and go on, on the loop, with what they saw.                      *)
(***************************************************************************)
Ask(c, st, kind) ==
  /\ calls[c].st = "agent" /\ calls[c].rest # Null
  /\ Len(escalations) < MaxEscalations
  /\ \E seen \in RowReads(calls[c].rest) :
       /\ Fault(seen.bad)
       /\ Put(c, [calls[c] EXCEPT !.st = st, !.saw = seen.row, !.kind = kind, !.stirred = FALSE])
  /\ UNCHANGED <<settings, notices, escalations, errands, edits, untold>>

AskForHuman(c) == Ask(c, "asking", Null)
AskForLink(c)  == /\ calls[c].setup # Null /\ "send_sms_redirect" \in FunctionDefinitions(calls[c].setup)
                  /\ \E k \in Kinds : Ask(c, "texting", k)

(* The row of the escalation and the status of the call: either may fail,  *)
(* and the function goes on.                                               *)
Escalated(c, inserted, marked, st, told) ==
  /\ escalations' = IF inserted THEN Raise(c) ELSE escalations
  /\ Put(c, [calls[c] EXCEPT !.st = st, !.told = told, !.saw = Null,
                             !.row = IF marked THEN "escalated" ELSE @,
                             !.esc = IF inserted THEN Len(escalations) + 1 ELSE 0,
                             !.faulted = @ \/ ~inserted])

Blocked(row, now) == row # Null /\ row.mode = "open_hours_only"
                     /\ ~IsRestaurantOpenNow(row.hours, now, Zone)

(* _emit_escalation_sse_event: the errand that tells the restaurant. *)
UserRequested(call, c) == Notice(call.rest, "user_requested", TRUE, FALSE, EntityOf(call, c))

(* A caller who is connected hears so and the stream is closed; one who is *)
(* not will be called back and goes on talking to the agent.               *)
EscalateToHuman(c, now) ==
  LET saw == calls[c].saw IN
  /\ calls[c].st = "asking"
  /\ \/ /\ Blocked(saw, now)
        /\ Put(c, [calls[c] EXCEPT !.st = "agent", !.saw = Null])
        /\ UNCHANGED <<escalations, errands, faults>>
     \/ /\ ~Blocked(saw, now)
        /\ \E inserted, marked \in BOOLEAN :
             /\ Fault(Undone(<<inserted, marked>>))
             /\ Escalated(c, inserted, marked, IF Forwards(saw) THEN "left" ELSE "agent",
                          IF Forwards(saw) THEN "connect" ELSE "callback")
             /\ errands' = Append(errands, << <<UserRequested(calls'[c], c)>> >>)
  /\ UNCHANGED <<settings, notices, edits, untold>>

(* The text with the link: the redirect must be switched on, with a url    *)
(* and a number to send from, and Twilio must take the message.            *)
Linked(saw, flags, kind) ==
  saw # Null /\ saw.number # Null /\ flags.redirect[kind].on /\ flags.redirect[kind].url # Null

FlagReads(r) == {[flags |-> StoredFeatures(r), bad |-> 0],
                 [flags |-> DefaultFeatures, bad |-> 1]}

(* _handle_sms_redirect_error: a text that is not sent, because it cannot  *)
(* be or (refused) because Twilio did not take it, raises an escalation,   *)
(* whether the staff can be reached or not: the caller is told to wait and *)
(* the stream is closed.                                                   *)
LinkFails(c, bad, refused) ==
  \E inserted, marked, noticed \in BOOLEAN :
    /\ Fault(bad + Undone(<<~refused, inserted, marked, noticed>>))
    /\ Escalated(c, inserted, marked, "left", "transfer")
    /\ notices' = IF noticed
                  THEN Append(notices, Notice(calls[c].rest, "sms_redirect_failed", TRUE, FALSE,
                                              EntityOf(calls'[c], c)))
                  ELSE notices

SendSmsRedirect(c) ==
  /\ calls[c].st = "texting"
  /\ \E seen \in FlagReads(calls[c].rest) :
       LET linked == Linked(calls[c].saw, seen.flags, calls[c].kind) IN
       \/ /\ linked
          /\ Fault(seen.bad)
          /\ Put(c, [calls[c] EXCEPT !.st = "agent", !.saw = Null, !.kind = Null])
          /\ UNCHANGED <<escalations, notices>>
       \/ LinkFails(c, seen.bad, linked)
  /\ UNCHANGED <<settings, errands, edits, untold>>

EndCall(c) ==
  /\ calls[c].st = "agent"
  /\ Put(c, [calls[c] EXCEPT !.st = "left"])
  /\ UNCHANGED <<settings, notices, escalations, errands, edits, faults, untold>>

HangUp(c) ==
  /\ calls[c].st \in {"agent", "left"}
  /\ Put(c, [calls[c] EXCEPT !.st = "over", !.hungUp = TRUE])
  /\ UNCHANGED <<settings, notices, escalations, errands, edits, faults, untold>>

(* Mutant: an escalation that the staff has touched is not forwarded. *)
LatestRaised(c, r) ==
  LET its == {e \in DOMAIN escalations : /\ escalations[e].call = c /\ escalations[e].rest = r
                                         /\ escalations[e].status = "raised"}
  IN IF its = {} THEN 0 ELSE Max(its)

(* get_latest_by_call_sid_and_restaurant, whatever its status *)
Latest(c, r) ==
  LET its == {e \in DOMAIN escalations : escalations[e].call = c /\ escalations[e].rest = r}
  IN IF its = {} THEN 0 ELSE Max(its)

(* The stream is over and Twilio asks what to do with the caller: dial,    *)
(* when there is an escalation and the restaurant, as it is now, forwards; *)
(* hang up otherwise.                                                      *)
Redirect(c) ==
  LET hang(bad) == /\ Fault(bad)
                   /\ Put(c, [calls[c] EXCEPT !.st = "over", !.faulted = @ \/ bad > 0])
  IN /\ calls[c].st = "left"
     /\ \E r \in Found(calls[c].number) : \E seen \in RowReads(r) :
          LET e == Latest(c, r) IN
          \/ /\ ~Forwards(seen.row) \/ e = 0
             /\ hang(seen.bad) /\ UNCHANGED escalations
          \/ /\ Forwards(seen.row) /\ e # 0
             /\ escalations' = WriteStatus(e, "forwarded")
             /\ Fault(seen.bad)
             /\ Put(c, [calls[c] EXCEPT !.st = "over", !.dialled = seen.row.phone])
          \/ /\ Forwards(seen.row) /\ e # 0    \* mark_forwarded raises, mark_failed may too
             /\ \/ hang(1) /\ escalations' = WriteStatus(e, "failed")
                \/ hang(2) /\ UNCHANGED escalations
     /\ UNCHANGED <<settings, notices, errands, edits, untold>>

(* The staff, of restaurant who or of all when who is Null. *)
UpdateEscalationStatus(who, e, status) ==
  /\ Edit /\ e \in DOMAIN escalations
  /\ who # Null => escalations[e].rest = who
  /\ escalations' = [escalations EXCEPT ![e].status = status, ![e].staff = TRUE]
  /\ UNCHANGED <<settings, notices, errands, calls, faults, untold>>

(***************************************************************************)
(* The specification.                                                      *)
(***************************************************************************)
Settings ==
  \E r \in Restaurants :
    \/ \E p \in Payloads : CreateRestaurant(r, p) \/ UpdateRestaurant(r, p)
    \/ DeleteRestaurant(r)
    \/ \E on \in BOOLEAN : SetRestaurantKillSwitch(r, on) \/ MarkAllRead(r, on)
    \/ \E n \in DOMAIN notices : MarkNotificationRead(r, n)

Staff == \E who \in Restaurants \cup {Null}, e \in DOMAIN escalations, s \in Statuses :
           UpdateEscalationStatus(who, e, s)

Bypass(c) == BypassUser(c) \/ BypassRow(c) \/ BypassFinalize(c) \/ BypassEscalate(c)
             \/ BypassForward(c) \/ BypassNotify(c)

HandOver(c) == StartAgent(c) \/ (\E now \in Nows : EscalateToHuman(c, now)) \/ SendSmsRedirect(c) \/ Redirect(c)

Caller(c) == (\E n \in Numbers : Voice(c, n)) \/ AskForHuman(c) \/ AskForLink(c)
             \/ EndCall(c) \/ HangUp(c)

SwitchNext ==
  \/ Settings
  \/ \E on \in BOOLEAN : SetAllKillSwitches(on)
  \/ Staff
  \/ \E i \in DOMAIN errands : Tell(i)
  \/ \E c \in Calls : Bypass(c) \/ HandOver(c) \/ Caller(c)

(* The loop runs what is ready, threads end, Twilio asks for the next step *)
(* of a call.                                                              *)
SwitchFairness ==
  /\ WF_switchVars(\E i \in DOMAIN errands : Tell(i))
  /\ \A c \in Calls : WF_switchVars(Bypass(c)) /\ WF_switchVars(HandOver(c))

SwitchSpec == SwitchInit /\ [][SwitchNext]_switchVars /\ SwitchFairness

(***************************************************************************)
(* Properties.                                                             *)
(***************************************************************************)
SwitchTypeOK ==
  /\ restaurants \in [Restaurants -> Row \cup {Null, Gone}]
  /\ features \in [Restaurants -> Features \cup {Null}]
  /\ \A r \in Restaurants : features[r] # Null => r \in Live
  /\ \A e \in DOMAIN escalations : /\ escalations[e].call \in Calls
                                   /\ escalations[e].status \in Statuses
  /\ \A c \in Calls : calls[c].esc \in 0..Len(escalations)
  /\ \A n \in DOMAIN notices : Storable(notices[n])
  /\ \A i \in DOMAIN errands : errands[i] # << >>
  /\ edits \in 0..MaxEdits /\ faults \in 0..MaxFaults

(* A restaurant whose switch is on forwards to a phone: whatever order the *)
(* two dashboards edit settings and switch in, one by one or all at once,  *)
(* no caller falls between agent and staff.  Only an update that was       *)
(* checked against a degraded read can break it.                           *)
SwitchNeedsForwarding ==
  \A r \in Live : restaurants[r].kill => r \in RedirectReady \cup blind

(* The features a restaurant has stored keep the rules of the SMS redirect *)
(* (validate_sms_redirect_rules), although updates send parts of them, the *)
(* rest comes from a read that may have failed, and they are written in    *)
(* statements of their own.                                                *)
RedirectRules == \A r \in Restaurants : features[r] # Null => RedirectRulesHold(features[r])

(* What a call relies on: both of the above, kept by every edit, whichever *)
(* part of the settings it sends and whatever it read before.              *)
SettingsHold == SwitchNeedsForwarding /\ RedirectRules

(* Every turn of a switch, from either dashboard or in bulk, has its one   *)
(* notice to the restaurant, is about to have it, or had a statement that  *)
(* failed; unless a handler misread the switch.                            *)
Pending(r, on) ==
  UNION {UNION {{<<i, j, k>> : k \in Tells(errands[i][j], r, on)} : j \in DOMAIN errands[i]} : i \in DOMAIN errands}

ToldOnce ==
  ~misread => \A r \in Restaurants, on \in BOOLEAN :
    turned[r][on] = Cardinality(Tells(notices, r, on)) + Cardinality(Pending(r, on)) + untold[r][on]

(* A caller who was told to hold for a team member reaches the staff, or   *)
(* hung up; unless a statement failed, the restaurant was edited between   *)
(* the promise and the webhook that keeps it, or the number that was       *)
(* called is no longer the restaurant's.                                   *)
TransferHolds ==
  \A c \in Calls :
    calls[c].st = "over" /\ calls[c].told = "connect" =>
      \/ calls[c].dialled # Null \/ calls[c].hungUp
      \/ calls[c].stirred \/ calls[c].moved \/ calls[c].faulted

(* A caller whom the agent was set up to send a link hears that it cannot  *)
(* be sent only when a statement failed, the restaurant was edited since   *)
(* the stream began or lost the number that was called; and the agent was  *)
(* set up for what it says it can do.                                      *)
LinkHolds ==
  \A c \in Calls :
    calls[c].setup # Null =>
      /\ EquippedAsTold(calls[c].setup)
      /\ calls[c].told = "transfer" /\ faults = 0
           /\ HandoffRule(calls[c].setup, calls[c].kind) = "link" => calls[c].drifted \/ calls[c].moved

(* What a caller was promised: the staff, or a link.                       *)
TransferKept == TransferHolds /\ LinkHolds

(* A call that the kill switch sent to the staff leaves the rows and the   *)
(* notice that say so, and whatever fails leaves none that contradict each *)
(* other: no escalation without its call, no notice about another's row.   *)
Bypassed(c) == calls[c].st = "over" /\ calls[c].dialled # Null /\ calls[c].told = "nothing"
               /\ calls[c].row # "in_progress"

BypassAccounted ==
  /\ \A e \in DOMAIN escalations : calls[escalations[e].call].row # "none"
  /\ \A c \in Calls : Bypassed(c) /\ ~calls[c].faulted =>
       /\ calls[c].row = "agent_bypassed"
       /\ \E e \in DOMAIN escalations :
            /\ escalations[e].call = c
            /\ escalations[e].status = "forwarded" \/ escalations[e].staff
            /\ \E n \in InboxOf(calls[c].rest) : notices[n].entity = <<"escalation", e>>

(* A restaurant is open whenever its hours promise it, through midnight    *)
(* and around the week, however the week was written.                      *)
Open(week, d, t) == \E e \in Days : \E p \in Promised(week[e]) :
                      (e * DayLength + p) % (Week * DayLength) = d * DayLength + t

NeverTurnedAway ==
  \A r \in Live, d \in Days, t \in Moments : Open(restaurants[r].hours, d, t) =>
    /\ IsWithinOperatingHours(restaurants[r].hours, d, t)
    /\ IsRestaurantOpenNow(restaurants[r].hours, (d * DayLength + t + Week * DayLength - Zone), Zone)

(* Every call that is being put somewhere gets there. *)
CallsSettle ==
  \A c \in Calls : calls[c].st \notin {"new", "agent", "over"} ~> calls[c].st \in {"agent", "over"}
=============================================================================
