---------------------------- MODULE Customization ----------------------------
(***************************************************************************)
(* The computations on a menu item's option groups, without state: what a  *)
(* caller's choice must satisfy and what it costs                          *)
(* (app/services/order_customization_service.py), and which group the      *)
(* agent asks about next (app/agent_fc/functions/menu.py).                 *)
(*                                                                         *)
(* A menu, as these functions receive it, is                               *)
(*   groups: the groups attached to the item, id -> effective record,      *)
(*   values: the values of those groups, id -> record.                     *)
(* Ids are numbers in the order of sort_order, which is the order the      *)
(* functions go through them.  A payload is a sequence of                  *)
(* [group, picks], picks a sequence of [value, qty].  Prices are numbers   *)
(* of cents; names, descriptions and messages are left out.                *)
(***************************************************************************)
EXTENDS Integers, Sequences, FiniteSets, SequencesExt, FiniteSetsExt

CONSTANT Null  \* a column that is NULL

GroupRow(limits) ==
  [single : BOOLEAN, min : limits, max : limits \cup {Null}, free : limits, lowest : BOOLEAN,
   many : BOOLEAN, cap : limits \cup {Null}, required : BOOLEAN, avail : BOOLEAN,
   mentioned : BOOLEAN]

AtMost(n, limit) == limit # Null => n <= limit

(***************************************************************************)
(* Overrides of an attachment: a column that is not NULL replaces the      *)
(* group's.                                                                *)
(***************************************************************************)
NoOverride == [min |-> Null, max |-> Null, free |-> Null]

Effective(group, over) ==
  [group EXCEPT !.min  = IF over.min  = Null THEN @ ELSE over.min,
                !.max  = IF over.max  = Null THEN @ ELSE over.max,
                !.free = IF over.free = Null THEN @ ELSE over.free]

(***************************************************************************)
(* Rules of a group, checked when it is written or attached.  The rule on  *)
(* quantities tests allows_quantity with "is False": a row of the database *)
(* holds 0 there, so only a payload that names the column is tested.       *)
(***************************************************************************)
RulesHold(group, namesMany) ==
  /\ group.max # Null => /\ group.min <= group.max
                         /\ group.free <= group.max
                         /\ group.single => group.max <= 1
  /\ group.single => group.min <= 1
  /\ namesMany /\ ~group.many => (group.cap # Null => group.cap <= 1)

DefaultsHold(single, vals) ==
  LET defaults == {v \in vals : v.default}
  IN /\ single => Cardinality(defaults) <= 1
     /\ \A v \in defaults : v.avail

(***************************************************************************)
(* validate_item_options: the issues of a payload.  The loop over the      *)
(* selections looks at one entry per group, the last, as the dictionary    *)
(* normalized_by_group keeps it.                                           *)
(***************************************************************************)
Named(payload) == {payload[k].group : k \in DOMAIN payload}

PicksOf(payload, g) ==
  IF g \in Named(payload)
  THEN payload[Max({k \in DOMAIN payload : payload[k].group = g})].picks
  ELSE << >>

PickFaults(group, value, qty) ==
  {issue \in {"UNAVAILABLE_OPTION", "QUANTITY_NOT_ALLOWED", "EXCEEDED_MAX_QUANTITY_PER_OPTION"} :
     CASE issue = "UNAVAILABLE_OPTION"   -> ~value.avail
       [] issue = "QUANTITY_NOT_ALLOWED" -> qty > 1 /\ ~group.many
       [] OTHER                          -> ~AtMost(qty, group.cap)}

(* Mutant: a value is looked up among those of all groups. *)
LaxPickIssues(group, g, values, pick) ==
  IF pick.value \notin DOMAIN values THEN {"INVALID_OPTION"}
  ELSE PickFaults(group, values[pick.value], pick.qty)

PickIssues(group, g, values, pick) ==
  IF pick.value \notin DOMAIN values \/ values[pick.value].group # g
  THEN {"INVALID_OPTION"}
  ELSE PickFaults(group, values[pick.value], pick.qty)

SelectionIssues(groups, values, g, picks) ==
  IF g \notin DOMAIN groups THEN {"INVALID_OPTION"}
  ELSE LET group == groups[g]
           n     == Len(picks)
       IN {issue \in {"UNAVAILABLE_GROUP", "EXCEEDED_MAX_SELECT", "BELOW_MIN_SELECT"} :
             CASE issue = "UNAVAILABLE_GROUP"   -> ~group.avail
               [] issue = "EXCEEDED_MAX_SELECT" ->
                    (group.single /\ n > 1) \/ ~AtMost(n, group.max)
               [] OTHER -> n < group.min}
          \cup UNION {PickIssues(group, g, values, picks[k]) : k \in DOMAIN picks}

(***************************************************************************)
(* The second loop: groups without a selection take their default, or are  *)
(* missed.                                                                 *)
(***************************************************************************)
Defaults(values, g) ==
  {v \in DOMAIN values : values[v].group = g /\ values[v].default /\ values[v].avail}

Unanswered(groups, payload) ==
  {g \in DOMAIN groups : groups[g].avail /\ PicksOf(payload, g) = << >>}

TakesDefault(groups, values, g) == groups[g].single /\ Defaults(values, g) # {}

Missed(row) == IF row.min > 0 THEN {"BELOW_MIN_SELECT"}
               ELSE IF row.required THEN {"MISSING_REQUIRED_GROUP"} ELSE {}

(* Mutant: a default does not count as a selection. *)
StrictMissingIssues(groups, values, payload) ==
  UNION {Missed(groups[g]) : g \in Unanswered(groups, payload)}

MissingIssues(groups, values, payload) ==
  UNION {Missed(groups[g]) : g \in {h \in Unanswered(groups, payload) : ~TakesDefault(groups, values, h)}}

Issues(groups, values, payload) ==
  IF DOMAIN groups = {} THEN IF payload = << >> THEN {} ELSE {"INVALID_OPTION"}
  ELSE (UNION {SelectionIssues(groups, values, g, PicksOf(payload, g)) : g \in Named(payload)})
       \cup MissingIssues(groups, values, payload)

(* The normalized options: the payload and the defaults taken, in any order. *)
Taken(groups, values, payload) ==
  {g \in Unanswered(groups, payload) : TakesDefault(groups, values, g)}

Normalized(groups, values, payload) ==
  payload \o [k \in 1..Cardinality(Taken(groups, values, payload)) |->
                LET g == SetToSeq(Taken(groups, values, payload))[k]
                IN [group |-> g, picks |-> <<[value |-> Min(Defaults(values, g)), qty |-> 1]>>]]

(***************************************************************************)
(* price_item: per entry, the prices of the picks, less the free ones.  A  *)
(* value or a group that is no longer there costs nothing.                 *)
(***************************************************************************)
Repeat(x, n) == [k \in 1..n |-> x]

Deltas(entry, values) ==
  FlattenSeq([k \in DOMAIN entry.picks |->
    LET pick == entry.picks[k]
    IN IF pick.value \in DOMAIN values /\ values[pick.value].group = entry.group
       THEN Repeat(values[pick.value].delta, Max({pick.qty, 1})) ELSE << >>])

SumSeq(s) == FoldSeq(+, 0, s)

(* Mutant: the first picks are free, in the order of the caller's words. *)
FirstCharged(group, deltas) ==
  SumSeq(SubSeq(deltas, Min({group.free, Len(deltas)}) + 1, Len(deltas)))

(* The picks in the order of sorted(), which keeps equal prices as they are. *)
Before(lowest, deltas, j, k) ==
  \/ IF lowest THEN deltas[j] < deltas[k] ELSE deltas[j] > deltas[k]
  \/ deltas[j] = deltas[k] /\ j < k

Ahead(lowest, deltas, k) == {j \in DOMAIN deltas : Before(lowest, deltas, j, k)}

FreePicks(group, deltas) ==
  {k \in DOMAIN deltas : Cardinality(Ahead(group.lowest, deltas, k)) < group.free}

(* d names the deltas, so that they are worked out once. *)
Charged(group, deltas) ==
  Max({0} \cup {SumSeq(d) - SumFunctionOnSet(d, FreePicks(group, d)) : d \in {deltas}})

EntryPrice(groups, values, entry) ==
  IF entry.group \in DOMAIN groups THEN Charged(groups[entry.group], Deltas(entry, values)) ELSE 0

OptionTotal(groups, values, payload) ==
  SumSeq([k \in DOMAIN payload |-> EntryPrice(groups, values, payload[k])])

(* The options that become rows: a set of [value, delta, qty] per entry. *)
Snapshots(groups, values, payload) ==
  UNION {{[value |-> p.value, delta |-> values[p.value].delta, qty |-> p.qty] :
            p \in {q \in ToSet(payload[k].picks) :
                     /\ payload[k].group \in DOMAIN groups
                     /\ q.value \in DOMAIN values
                     /\ values[q.value].group = payload[k].group}} : k \in DOMAIN payload}

(***************************************************************************)
(* get_menu_item_customizations: the groups offered, and the progress of   *)
(* the dialogue about one item.                                            *)
(***************************************************************************)
NoProgress == [done |-> {}, pending |-> Null, mention |-> FALSE]

OnOffer(values, g) == {v \in DOMAIN values : values[v].group = g /\ values[v].avail}

Offered(groups, values) == {g \in DOMAIN groups : groups[g].avail /\ OnOffer(values, g) # {}}

Deferred(groups, values, progress) ==
  {g \in Offered(groups, values) \ progress.done : groups[g].mentioned /\ ~progress.mention}

(* Mutant: the groups completed before are forgotten. *)
ForgetfulAdvance(groups, values, progress, completed, mention) ==
  LET active == Offered(groups, values) \ completed
  IN [progress EXCEPT !.done = completed, !.mention = @ \/ mention,
                      !.pending = IF active = {} THEN Null ELSE Min(active)]

Advance(groups, values, progress, completed, mention) ==
  LET offered == Offered(groups, values)
      done    == (progress.done \cup completed) \cap offered
      merged  == [progress EXCEPT !.done = done, !.mention = @ \/ mention]
      active  == (offered \ done) \ Deferred(groups, values, merged)
  IN [merged EXCEPT !.pending = IF active = {} THEN Null
                                ELSE IF @ \in active THEN @ ELSE Min(active)]
=============================================================================
