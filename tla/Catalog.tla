------------------------------- MODULE Catalog -------------------------------
(***************************************************************************)
(* The menu of the restaurants: items, option groups and their values, and *)
(* the attachments of groups to items; the handlers that edit them         *)
(* (app/services/menu_service.py, app/services/menu_option_service.py and  *)
(* the two APIs over each), and the voice agent that reads them while it   *)
(* talks about an item and orders it (app/agent_fc/functions/menu.py, the  *)
(* first half of create_order).                                            *)
(*                                                                         *)
(* The handlers hold the event loop, not the database: the thread of the   *)
(* agent reads between their statements, and they run between two of its   *)
(* reads.  A handler that writes once is one step; where it checks in one  *)
(* statement and writes in another, rest says what it has left.  Ids are   *)
(* never used twice: a deleted row is Gone.                                *)
(***************************************************************************)
EXTENDS Customization

CONSTANTS
  Restaurants, Names, Limits,
  Items, Groups, Values,        \* ids, numbers
  MenuRows, GroupRows, ValueRows, Attached,   \* the catalogue to begin with
  NewGroups,                    \* bound: what a new or changed group may be
  NewOverrides,                 \* bound: what an attachment may override
  NewPrices,                    \* bound: prices a value is changed to
  Payloads,                     \* what the agent orders without a dialogue
  Ours,                         \* the restaurant of the call
  Referenced,                   \* items that rows of the old table Order_Details name
  MaxSpent,                     \* bound: steps of the dashboard, at two, and calls of the agent, at three
  MaxRetries, MaxOrders,
  Gone

Item == [rest : Restaurants, name : Names, avail : BOOLEAN, special : BOOLEAN,
         suggested : SUBSET Items]
Group == [rest : Restaurants, row : GroupRow(Limits)]
Value == [group : Groups, default : BOOLEAN, avail : BOOLEAN, delta : Limits]
Override == [min : Limits \cup {Null}, max : Limits \cup {Null}, free : Limits \cup {Null}]

ASSUME CatalogAssumption ==
  /\ MenuRows \in [Items -> Item \cup {Null}]
  /\ GroupRows \in [Groups -> Group \cup {Null}]
  /\ ValueRows \in [Values -> Value \cup {Null}]
  /\ Attached \in [Items \X Groups -> Override \cup {Null}]
  /\ Ours \in Restaurants
  /\ Groups \subseteq Nat /\ Values \subseteq Nat /\ IsFiniteSet(Groups) /\ IsFiniteSet(Values)
  /\ Limits \subseteq Nat /\ Null \notin Groups \cup Limits
  /\ NewGroups \subseteq GroupRow(Limits) /\ NewOverrides \subseteq Override
  /\ NewPrices \subseteq Limits /\ 1 \in Limits
  /\ \A x \in {Null, Gone} : x \notin Item /\ x \notin Group /\ x \notin Value
  /\ MaxSpent \in Nat /\ MaxRetries \in Nat /\ MaxOrders \in Nat

ASSUME PayloadsAssumption ==
  Payloads \subseteq Seq([group : Groups, picks : Seq([value : Values, qty : Nat])])

VARIABLES
  menu, group, value, attach,   \* the tables
  rest,        \* what the handler in progress has left to do
  edits,       \* steps of the dashboard so far
  at,          \* the agent's function: idle, or the step its thread is at
  job,         \* what it reads for: ask, detail, validate or price
  item,        \* the item it is about
  sawGroups, sawValues,         \* what the thread has read
  progress,    \* the session's customization_progress_by_item
  args,        \* the arguments of the call: completed group, mention, again
  begun,       \* dialogues, details and orders begun
  talk,        \* the dialogue about an item: what is picked and when it began
  order,       \* the order being made
  orders       \* orders kept

tables == <<menu, group, value, attach>>
reads  == <<at, job, item, sawGroups, sawValues, args>>
voice  == <<reads, progress, begun, talk, order, orders>>
vars   == <<tables, rest, edits, voice>>

Live(table) == {k \in DOMAIN table : table[k] \notin {Null, Gone}}
Fresh(table, k) == table[k] = Null /\ \A n \in DOMAIN table : n < k => table[n] # Null
Idle     == [op |-> "none"]
LoopFree == rest = Idle
NoPicks  == [g \in Groups |-> << >>]
NoTalk   == [picked |-> NoPicks, began |-> 0, open |-> FALSE, fresh |-> FALSE]
NoOrder  == [payload |-> << >>, began |-> 0, asked |-> FALSE, priced |-> FALSE,
             options |-> {}, total |-> 0, calm |-> FALSE]
NoArgs   == [completed |-> {}, mention |-> FALSE, tries |-> 0]

Init ==
  /\ menu = MenuRows /\ group = GroupRows /\ value = ValueRows /\ attach = Attached
  /\ rest = Idle /\ edits = 0
  /\ at = "idle" /\ job = "ask" /\ item = Min(Live(MenuRows))
  /\ sawGroups = << >> /\ sawValues = << >>
  /\ progress = [i \in Items |-> NoProgress]
  /\ args = NoArgs /\ begun = 0 /\ talk = NoTalk /\ order = NoOrder /\ orders = << >>

(***************************************************************************)
(* The dashboard.  Every operation is there twice: for an administrator,   *)
(* who names any row, and for a user of restaurant r, who is refused when  *)
(* the row is another restaurant's.  who is that restaurant, or Null.      *)
(***************************************************************************)
Users == Restaurants \cup {Null}
MayTouch(who, row) == who = Null \/ row.rest = who

Spent == 2 * edits + 3 * begun
Edit  == LoopFree /\ Spent + 2 <= MaxSpent
Counted == edits' = edits + 1 /\ UNCHANGED voice

(* The statements of the repositories. *)
InsertItem(i, r, name, suggested) ==
  [menu EXCEPT ![i] = [rest |-> r, name |-> name, avail |-> TRUE, special |-> FALSE,
                       suggested |-> suggested]]

WriteItem(i, column, to) == [menu EXCEPT ![i] = [@ EXCEPT ![column] = to]]

NameTaken(r, name, except) ==
  \E i \in Live(menu) \ {except} : menu[i].rest = r /\ menu[i].name = name

(* suggested_items must exist and be items of the same restaurant. *)
MaySuggest(r, suggested) == \A i \in suggested : i \in Live(menu) /\ menu[i].rest = r

(* The two counts before a bulk update: the ids exist, and are the restaurant's. *)
AllTheirs(r, chosen) == chosen \subseteq Live(menu) /\ \A i \in chosen : menu[i].rest = r

WriteItems(chosen, to) ==
  [i \in Items |-> IF i \in chosen THEN [menu[i] EXCEPT !.avail = to] ELSE menu[i]]

(* get_available_items_by_restaurant *)
OnSale(r) == {i \in Live(menu) : menu[i].rest = r /\ menu[i].avail}

CreateItem(i, r, name, suggested) ==
  /\ Edit /\ Fresh(menu, i)
  /\ ~NameTaken(r, name, i)
  /\ MaySuggest(r, suggested)
  /\ menu' = InsertItem(i, r, name, suggested)
  /\ Counted /\ UNCHANGED <<group, value, attach, rest>>

RenameItem(who, i, name) ==
  /\ Edit /\ i \in Live(menu) /\ MayTouch(who, menu[i])
  /\ ~NameTaken(menu[i].rest, name, i)
  /\ menu' = WriteItem(i, "name", name)
  /\ Counted /\ UNCHANGED <<group, value, attach, rest>>

Suggest(who, i, suggested) ==
  /\ Edit /\ i \in Live(menu) /\ MayTouch(who, menu[i])
  /\ i \notin suggested
  /\ MaySuggest(menu[i].rest, suggested)
  /\ menu' = WriteItem(i, "suggested", suggested)
  /\ Counted /\ UNCHANGED <<group, value, attach, rest>>

ToggleAvailability(who, i, to) ==
  /\ Edit /\ i \in Live(menu) /\ MayTouch(who, menu[i])
  /\ menu' = WriteItem(i, "avail", to)
  /\ Counted /\ UNCHANGED <<group, value, attach, rest>>

ToggleSpecial(who, i, to) ==
  /\ Edit /\ i \in Live(menu) /\ MayTouch(who, menu[i])
  /\ menu' = WriteItem(i, "special", to)
  /\ Counted /\ UNCHANGED <<group, value, attach, rest>>

(* The administrator names the restaurant in the path, the user's is in his token. *)
BulkAvailability(r, chosen, to) ==
  /\ Edit /\ chosen # {}
  /\ AllTheirs(r, chosen)
  /\ menu' = WriteItems(chosen, to)
  /\ Counted /\ UNCHANGED <<group, value, attach, rest>>

(***************************************************************************)
(* delete_by_id takes the item off the suggestions of the others first,    *)
(* then deletes it; the second statement fails for a referenced item, and  *)
(* the first stays done.  The attachments of the item go with it.          *)
(***************************************************************************)
Unsuggested(i) ==
  [k \in Items |-> IF k \in Live(menu) THEN [menu[k] EXCEPT !.suggested = @ \ {i}] ELSE menu[k]]

CleanSuggestions(who, i) ==
  /\ Edit /\ i \in Live(menu) /\ MayTouch(who, menu[i])
  /\ menu' = Unsuggested(i)
  /\ rest' = [op |-> "deleteItem", item |-> i]
  /\ Counted /\ UNCHANGED <<group, value, attach>>

DeleteItem ==
  /\ rest.op = "deleteItem"
  /\ rest' = Idle
  /\ \/ /\ rest.item \notin Referenced
        /\ menu' = [menu EXCEPT ![rest.item] = Gone]
        /\ attach' = [p \in DOMAIN attach |-> IF p[1] = rest.item THEN Null ELSE attach[p]]
        /\ Counted /\ UNCHANGED <<group, value>>
     \/ /\ rest.item \in Referenced
        /\ UNCHANGED <<tables, edits, voice>>

(***************************************************************************)
(* Option groups.  create_option_group inserts the group and then its      *)
(* values one by one: when an insert fails the group stays with those      *)
(* before it (kept).                                                       *)
(***************************************************************************)
InsertGroup(g, r, row) == [group EXCEPT ![g] = [rest |-> r, row |-> row]]

WriteGroup(g, row) == [group EXCEPT ![g].row = row]

NewValue(g, default, avail, delta) ==
  [group |-> g, default |-> default, avail |-> avail, delta |-> delta]

PutValue(v, new) == [value EXCEPT ![v] = new]

CreateGroup(g, r, row, v, default, kept) ==
  /\ Edit /\ Fresh(group, g) /\ Fresh(value, v)
  /\ RulesHold(row, TRUE)
  /\ DefaultsHold(row.single, {NewValue(g, default, TRUE, 1)})
  /\ group' = InsertGroup(g, r, row)
  /\ value' = IF kept THEN PutValue(v, NewValue(g, default, TRUE, 1)) ELSE value
  /\ Counted /\ UNCHANGED <<menu, attach, rest>>

ValuesOf(g) == {v \in Live(value) : value[v].group = g}
DefaultsOf(g) == {v \in ValuesOf(g) : value[v].default}
AttachedTo(g) == {i \in Items : attach[<<i, g>>] # Null}

(***************************************************************************)
(* An update names some columns: those it changes, or all of them (full).  *)
(***************************************************************************)
InPayload(old, new, full, column) == full \/ old[column] # new[column]

(* Mutant: the defaults are not counted when a group becomes single-select. *)
BlindUpdateGroup(who, g, row, full) ==
  /\ Edit /\ g \in Live(group) /\ MayTouch(who, group[g])
  /\ RulesHold(row, TRUE)
  /\ group' = WriteGroup(g, row)
  /\ Counted /\ UNCHANGED <<menu, value, attach, rest>>

UpdateGroup(who, g, row, full) ==
  LET old == group[g].row IN
  /\ Edit /\ g \in Live(group) /\ MayTouch(who, group[g])
  /\ RulesHold(row, InPayload(old, row, full, "many"))
  /\ row.single => Cardinality(DefaultsOf(g)) <= 1
  /\ AttachedTo(g) # {} =>
       /\ InPayload(old, row, full, "max") => AtMost(Cardinality(DefaultsOf(g)), row.max)
       /\ InPayload(old, row, full, "free") => Cardinality(DefaultsOf(g)) <= row.free
  /\ group' = WriteGroup(g, row)
  /\ Counted /\ UNCHANGED <<menu, value, attach, rest>>

(* The options of the orders kept hold the value's id, NULL once it is deleted. *)
Used(vals) == \E k \in DOMAIN orders : \E o \in orders[k].options : o.value \in vals

DropValues(vals) ==
  /\ value' = [v \in Values |-> IF v \in vals THEN Gone ELSE value[v]]
  /\ orders' = [k \in DOMAIN orders |->
                 [orders[k] EXCEPT !.options =
                    {[o EXCEPT !.value = IF @ \in vals THEN Null ELSE @] : o \in orders[k].options}]]
  /\ edits' = edits + 1
  /\ UNCHANGED <<reads, progress, begun, talk, order>>

CheckDeleteGroup(who, g) ==
  /\ Edit /\ g \in Live(group) /\ MayTouch(who, group[g])
  /\ AttachedTo(g) = {}
  /\ ~Used(ValuesOf(g))
  /\ rest' = [op |-> "deleteGroup", group |-> g]
  /\ Counted /\ UNCHANGED tables

DeleteGroup ==
  /\ rest.op = "deleteGroup"
  /\ rest' = Idle
  /\ group' = [group EXCEPT ![rest.group] = Gone]
  /\ DropValues(ValuesOf(rest.group))
  /\ UNCHANGED <<menu, attach>>

(***************************************************************************)
(* Values.  A new default of a single-select group is written after the    *)
(* old one has been unset by a statement of its own.                       *)
(***************************************************************************)
Unset(g) == [v \in Values |-> IF v \in ValuesOf(g) THEN [value[v] EXCEPT !.default = FALSE]
                              ELSE value[v]]

WriteOrUnset(g, v, new, unset) ==
  IF unset
  THEN /\ value' = Unset(g)
       /\ rest' = [op |-> "writeValue", value |-> v, new |-> new]
  ELSE /\ value' = PutValue(v, new)
       /\ rest' = rest

CreateValue(who, g, v, default, avail) ==
  /\ Edit /\ g \in Live(group) /\ MayTouch(who, group[g]) /\ Fresh(value, v)
  /\ default => group[g].row.avail /\ avail
  /\ WriteOrUnset(g, v, NewValue(g, default, avail, 1),
                  default /\ group[g].row.single)
  /\ Counted /\ UNCHANGED <<menu, group, attach>>

UpdateValue(who, v, default, avail, delta, full) ==
  LET g == value[v].group
      new == NewValue(g, default, avail, delta)
  IN /\ Edit /\ v \in Live(value) /\ MayTouch(who, group[g])
     /\ default => avail /\ group[g].row.avail
     /\ WriteOrUnset(g, v, new, /\ default /\ group[g].row.single
                                /\ InPayload(value[v], new, full, "default"))
     /\ Counted /\ UNCHANGED <<menu, group, attach>>

WriteValue ==
  /\ rest.op = "writeValue"
  /\ value' = PutValue(rest.value, rest.new)
  /\ rest' = Idle
  /\ Counted /\ UNCHANGED <<menu, group, attach>>

CheckDeleteValue(who, v) ==
  /\ Edit /\ v \in Live(value) /\ MayTouch(who, group[value[v].group])
  /\ ~value[v].default
  /\ ~Used({v})
  /\ rest' = [op |-> "deleteValue", value |-> v]
  /\ Counted /\ UNCHANGED tables

DeleteValue ==
  /\ rest.op = "deleteValue"
  /\ rest' = Idle
  /\ DropValues({rest.value})
  /\ UNCHANGED <<menu, group, attach>>

(* A statement fails and the handler ends with what it has written. *)
RestFail == rest # Idle /\ rest' = Idle /\ UNCHANGED <<tables, edits, voice>>

(***************************************************************************)
(* Attachments, with what they override.                                   *)
(***************************************************************************)
Upsert(i, g, over) == [attach EXCEPT ![<<i, g>>] = over]

AttachGroup(who, i, g, over) ==
  LET row   == Effective(group[g].row, over)
      count == Cardinality({v \in ValuesOf(g) : value[v].avail})
  IN /\ Edit /\ i \in Live(menu) /\ g \in Live(group)
     /\ MayTouch(who, menu[i]) /\ MayTouch(who, group[g])
     /\ menu[i].rest = group[g].rest
     /\ count > 0
     /\ RulesHold(row, FALSE)
     /\ row.min <= count /\ (row.max # Null => row.max <= count)
     /\ attach' = Upsert(i, g, over)
     /\ Counted /\ UNCHANGED <<menu, group, value, rest>>

DetachGroup(who, i, g) ==
  /\ Edit /\ attach[<<i, g>>] # Null
  /\ MayTouch(who, menu[i]) /\ MayTouch(who, group[g])
  /\ attach' = [attach EXCEPT ![<<i, g>>] = Null]
  /\ Counted /\ UNCHANGED <<menu, group, value, rest>>

(***************************************************************************)
(* The agent's reads, each a statement of its thread.  The effective       *)
(* groups of an item and their values are read by two of them.             *)
(***************************************************************************)
toTables == <<tables, rest, edits, orders, begun>>

NewCall ==
  /\ LoopFree /\ at = "idle" /\ ~talk.open
  /\ Spent + 3 <= MaxSpent /\ begun' = begun + 1

StartRead(where, what, i) ==
  /\ at' = where /\ job' = what /\ item' = i
  /\ sawGroups' = << >> /\ sawValues' = << >>

ReadItem ==
  /\ at = "item"
  /\ at' = IF item \in Live(menu) /\ menu[item].rest = Ours THEN "groups" ELSE "lost"
  /\ UNCHANGED <<toTables, job, item, sawGroups, sawValues, args, progress, talk, order>>

ReadGroups ==
  LET found == {g \in Groups : attach[<<item, g>>] # Null}
  IN /\ at = "groups"
     /\ sawGroups' = [g \in found |-> Effective(group[g].row, attach[<<item, g>>])]
     /\ at' = IF found = {} THEN "resume" ELSE "values"
     /\ UNCHANGED <<toTables, job, item, sawValues, args, progress, talk, order>>

ReadValues ==
  /\ at = "values"
  /\ sawValues' = [v \in {w \in Live(value) : value[w].group \in DOMAIN sawGroups} |-> value[v]]
  /\ at' = "resume"
  /\ UNCHANGED <<toTables, job, item, sawGroups, args, progress, talk, order>>

(***************************************************************************)
(* get_menu_item_details: reads and tells.                                 *)
(***************************************************************************)
Detail(i) ==
  /\ NewCall
  /\ StartRead("item", "detail", i)
  /\ UNCHANGED <<tables, rest, edits, orders, args, progress, talk, order>>

ResumeDetail ==
  /\ LoopFree /\ at \in {"resume", "lost"} /\ job = "detail"
  /\ StartRead("idle", job, item)
  /\ UNCHANGED <<toTables, args, progress, talk, order>>

(***************************************************************************)
(* get_menu_item_customizations, asked again and again until it returns no *)
(* next group.  A diligent agent begins an item with reset_progress, gives *)
(* picks that the group it was told of allows, and completes that group.   *)
(***************************************************************************)
Begin(i, mention, reset) ==
  /\ NewCall
  /\ StartRead("item", "ask", i)
  /\ args' = [completed |-> {}, mention |-> mention, tries |-> 0]
  /\ progress' = IF reset THEN [progress EXCEPT ![i] = NoProgress] ELSE progress
  /\ talk' = [picked |-> NoPicks, began |-> edits, open |-> TRUE, fresh |-> progress'[i] = NoProgress]
  /\ UNCHANGED <<tables, rest, edits, orders, order>>

MayPick(groups, values, g) ==
  LET row == groups[g]
      qtys == {q \in 1..2 : (q > 1 => row.many) /\ AtMost(q, row.cap)}
      enough(n) == n >= row.min /\ (row.required => n >= 1)
      legal(n) == /\ row.single => n <= 1
                  /\ AtMost(n, row.max)
                  /\ enough(n) \/ (n = 0 /\ TakesDefault(groups, values, g))
  IN UNION {{picks \in [1..n -> [value : OnOffer(values, g), qty : qtys]] :
               \A i, j \in 1..n : i < j => picks[i].value < picks[j].value} :
              n \in {m \in 0..Cardinality(OnOffer(values, g)) : legal(m)}}

Pending == progress[item].pending

(* The caller asks for more only when some group is left for that. *)
Wishes == {FALSE} \cup {Deferred(sawGroups, sawValues, progress[item]) # {}}

Answer(mention) ==
  /\ LoopFree /\ at = "idle" /\ talk.open /\ Pending # Null
  /\ \E picks \in MayPick(sawGroups, sawValues, Pending) :
       talk' = [talk EXCEPT !.picked[Pending] = picks]
  /\ args' = [completed |-> {Pending}, mention |-> mention, tries |-> 0]
  /\ at' = "item" /\ job' = "ask"
  /\ UNCHANGED <<toTables, item, sawGroups, sawValues, progress, order>>

GiveUp ==
  /\ LoopFree /\ at = "idle" /\ talk.open
  /\ Pending # Null /\ MayPick(sawGroups, sawValues, Pending) = {}
  /\ talk' = NoTalk
  /\ UNCHANGED <<toTables, reads, progress, order>>

ResumeAsk ==
  /\ LoopFree /\ at \in {"resume", "lost"} /\ job = "ask"
  /\ progress' = [progress EXCEPT ![item] =
       IF at = "lost" THEN NoProgress
       ELSE Advance(sawGroups, sawValues, @, args.completed, args.mention)]
  /\ talk' = IF at = "lost" THEN NoTalk ELSE talk
  /\ at' = "idle"
  /\ UNCHANGED <<toTables, job, item, sawGroups, sawValues, args, order>>

(* The router abandons the await and calls the handler again, at last not. *)
Timeout ==
  /\ LoopFree /\ at \in {"item", "groups", "values", "resume"} /\ job = "ask"
  /\ IF args.tries < MaxRetries
     THEN /\ at' = "item" /\ args' = [args EXCEPT !.tries = @ + 1] /\ talk' = talk
     ELSE /\ at' = "idle" /\ args' = args /\ talk' = NoTalk
  /\ UNCHANGED <<toTables, job, item, sawGroups, sawValues, progress, order>>

(***************************************************************************)
(* create_order up to its rows: fill in a missing price, validate each     *)
(* item's options, price them, insert.  It looks the item up nowhere: its  *)
(* groups are read by id alone.  asked marks an order that is the outcome  *)
(* of a dialogue begun afresh, with no group deferred, under a menu nobody *)
(* changed since.                                                          *)
(***************************************************************************)
StartOrder(i, payload, asked) ==
  /\ StartRead("prices", "validate", i)
  /\ order' = [NoOrder EXCEPT !.payload = payload, !.began = edits, !.asked = asked]
  /\ UNCHANGED <<tables, rest, edits, orders, args, progress>>

(* The entries of a payload, in any order. *)
Entries(picked) ==
  LET named == {g \in Groups : picked[g] # << >>}
  IN [k \in 1..Cardinality(named) |->
       LET g == SetToSeq(named)[k] IN [group |-> g, picks |-> picked[g]]]

OrderTalked ==
  /\ LoopFree /\ at = "idle" /\ talk.open /\ Pending = Null
  /\ StartOrder(item, Entries(talk.picked),
                /\ talk.fresh /\ talk.began = edits
                /\ Deferred(sawGroups, sawValues, progress[item]) = {})
  /\ talk' = NoTalk /\ begun' = begun

OrderAnything(i, payload) ==
  /\ NewCall
  /\ StartOrder(i, payload, FALSE)
  /\ talk' = talk

(* Only an available item of the restaurant has a price; any other costs nothing. *)
ReadPrices ==
  /\ at = "prices"
  /\ order' = [order EXCEPT !.priced = item \in OnSale(Ours)]
  /\ at' = "groups"
  /\ UNCHANGED <<toTables, job, item, sawGroups, sawValues, args, progress, talk>>

Refused == Issues(sawGroups, sawValues, order.payload) # {}

ResumeValidate ==
  /\ LoopFree /\ at = "resume" /\ job = "validate"
  /\ IF Refused
     THEN StartRead("idle", job, item) /\ order' = NoOrder
     ELSE /\ StartRead("groups", "price", item)
          /\ order' = [order EXCEPT !.payload = Normalized(sawGroups, sawValues, @)]
  /\ UNCHANGED <<toTables, args, progress, talk>>

ResumePrice ==
  /\ LoopFree /\ at = "resume" /\ job = "price"
  /\ order' = [order EXCEPT !.total   = OptionTotal(sawGroups, sawValues, order.payload),
                            !.options = Snapshots(sawGroups, sawValues, order.payload),
                            !.calm    = order.began = edits]
  /\ at' = "insert"
  /\ UNCHANGED <<toTables, job, item, sawGroups, sawValues, args, progress, talk>>

(* The foreign keys of the rows hold or the statement fails, and the order with it. *)
InsertOrder ==
  /\ at = "insert"
  /\ orders' = IF /\ item \in Live(menu) /\ \A o \in order.options : o.value \in Live(value)
                  /\ Len(orders) < MaxOrders
               THEN Append(orders, order) ELSE orders
  /\ order' = NoOrder
  /\ StartRead("idle", job, item)
  /\ UNCHANGED <<tables, rest, edits, args, progress, begun, talk>>

-----------------------------------------------------------------------------
Dashboard ==
  \/ \E i \in Items, r \in Restaurants, n \in Names, s \in SUBSET Items : CreateItem(i, r, n, s)
  \/ \E who \in Users, i \in Items :
       \/ \E n \in Names : RenameItem(who, i, n)
       \/ \E s \in SUBSET Items : Suggest(who, i, s)
       \/ \E to \in BOOLEAN : ToggleAvailability(who, i, to) \/ ToggleSpecial(who, i, to)
       \/ CleanSuggestions(who, i)
       \/ \E g \in Groups : \/ \E over \in NewOverrides : AttachGroup(who, i, g, over)
                            \/ DetachGroup(who, i, g)
  \/ \E r \in Restaurants, s \in SUBSET Items, to \in BOOLEAN : BulkAvailability(r, s, to)
  \/ \E g \in Groups, r \in Restaurants, row \in NewGroups, v \in Values, d, k \in BOOLEAN :
       CreateGroup(g, r, row, v, d, k)
  \/ \E who \in Users, g \in Groups :
       \/ \E row \in NewGroups, full \in BOOLEAN : UpdateGroup(who, g, row, full)
       \/ CheckDeleteGroup(who, g)
       \/ \E v \in Values, d, a \in BOOLEAN : CreateValue(who, g, v, d, a)
  \/ \E who \in Users, v \in Values :
       \/ \E d, a, full \in BOOLEAN, delta \in NewPrices : UpdateValue(who, v, d, a, delta, full)
       \/ CheckDeleteValue(who, v)
  \/ DeleteItem \/ DeleteGroup \/ WriteValue \/ DeleteValue \/ RestFail

Read == ReadItem \/ ReadGroups \/ ReadValues \/ ReadPrices

Resume == ResumeDetail \/ ResumeAsk \/ ResumeValidate \/ ResumePrice \/ InsertOrder

Agent ==
  \/ \E i \in Items : \/ Detail(i)
                      \/ \E mention, reset \in BOOLEAN : Begin(i, mention, reset)
                      \/ \E payload \in Payloads : OrderAnything(i, payload)
  \/ \E mention \in Wishes : Answer(mention)
  \/ GiveUp \/ OrderTalked \/ Timeout

Next == Dashboard \/ Read \/ Resume \/ Agent

Spec == Init /\ [][Next]_vars

Converse == GiveUp \/ OrderTalked
            \/ \E mention \in Wishes : Answer(mention)

FairSpec == Spec /\ WF_vars(Read) /\ WF_vars(Resume) /\ WF_vars(Converse)
                 /\ WF_vars(DeleteItem \/ DeleteGroup \/ WriteValue \/ DeleteValue)

(* _build_restaurant_context: what the prompt of a call says of the menu.  A *)
(* special is told among the specials only, on sale or not.                  *)
PromptMenu(r) ==
  LET its == {i \in Live(menu) : menu[i].rest = r}
      specials == {i \in its : menu[i].special}
      told == its \ specials
  IN [specials |-> specials,
      available |-> {i \in told : menu[i].avail}, unavailable |-> {i \in told : ~menu[i].avail},
      customized |-> {i \in its : \E g \in Groups : attach[<<i, g>>] # Null}]

-----------------------------------------------------------------------------
(* What the rows, the agent's place and its order may be. *)
TypeOK ==
  /\ menu \in [Items -> Item \cup {Null, Gone}] /\ group \in [Groups -> Group \cup {Null, Gone}]
  /\ value \in [Values -> Value \cup {Null, Gone}]
  /\ attach \in [Items \X Groups -> Override \cup {Null}]
  /\ at \in {"idle", "item", "groups", "values", "resume", "lost", "prices", "insert"}
  /\ job \in {"ask", "detail", "validate", "price"} /\ item \in Items
  /\ at = "lost" => job \in {"ask", "detail"}
  /\ at \in {"prices", "insert"} => job \in {"validate", "price"}
  /\ talk.open => job = "ask"
  /\ DOMAIN sawGroups \subseteq Groups /\ DOMAIN sawValues \subseteq Values
  /\ progress \in [Items -> [done : SUBSET Groups, pending : Groups \cup {Null}, mention : BOOLEAN]]
  /\ Len(orders) <= MaxOrders

(* Suggestions and attachments join living rows of one restaurant, whatever  *)
(* is renamed, deleted or attached in between, by administrators or users:   *)
(* the agent reads both without checking them again.                         *)
JoinsAgree ==
  /\ \A i \in Live(menu) : \A s \in menu[i].suggested :
       s # i /\ s \in Live(menu) /\ menu[s].rest = menu[i].rest
  /\ \A i \in Items, g \in Groups : attach[<<i, g>>] # Null =>
       i \in Live(menu) /\ g \in Live(group) /\ menu[i].rest = group[g].rest
  /\ \A v \in Live(value) : value[v].group \in Live(group)

(* A single-select group has at most one default and a default can be had:   *)
(* the order service gives it to a caller who was never asked.  The          *)
(* statement that unsets the old default and the one that sets the new are   *)
(* two, and the group's type may be changed by a third handler.              *)
DefaultsLegal == \A g \in Live(group) :
  /\ DefaultsHold(group[g].row.single, {value[v] : v \in ValuesOf(g)})
  /\ group[g].row.single => Cardinality(DefaultsOf(g)) <= 1

(* Of a menu in its prompt the agent may offer all that is on sale, finds    *)
(* nothing on sale called unavailable, and has no groups to ask for in an    *)
(* item that it takes for a plain one.                                       *)
PromptAgrees == \A r \in Restaurants :
  LET told == PromptMenu(r) IN
  /\ OnSale(r) \subseteq told.available \cup told.specials /\ told.unavailable \cap OnSale(r) = {}
  /\ \A i \in OnSale(r) \ told.customized : {g \in Live(group) : i \in AttachedTo(g)} = {}

(* What the agent relies on in the rows of a menu that is being edited.      *)
RowsAgree == JoinsAgree /\ DefaultsLegal /\ PromptAgrees

(* An item that was talked through to the end, with no group deferred and no *)
(* change of the menu, is accepted by create_order, with one exception: the  *)
(* dialogue of menu.py leaves out a group none of whose values is available, *)
(* and order_customization_service.py insists on it all the same when it is  *)
(* required, or has a minimum.                                               *)
Stranded == \E g \in DOMAIN sawGroups :
  /\ sawGroups[g].avail /\ OnOffer(sawValues, g) = {}
  /\ sawGroups[g].min > 0 \/ sawGroups[g].required

CompletedIsOrderable ==
  at = "resume" /\ job = "validate" /\ order.asked /\ order.began = edits => (Refused <=> Stranded)

(* An order validated and priced under one menu pays for every option it     *)
(* lists: what the second read finds is what the first one allowed.          *)
PaidFor ==
  at = "insert" /\ order.calm =>
    \A k \in DOMAIN order.payload : \A p \in ToSet(order.payload[k].picks) :
      \E o \in order.options : o.value = p.value /\ o.qty = p.qty

(* The free allowance takes off the dearest picks, or the cheapest ones:     *)
(* of all ways to leave out that many, the one that the strategy names.      *)
Fairest(row, deltas) ==
  LET n    == Min({row.free, Len(deltas)})
      off  == {SumFunctionOnSet(deltas, S) : S \in kSubset(n, DOMAIN deltas)}
  IN SumSeq(deltas) - IF row.lowest THEN Min(off) ELSE Max(off)

RightOnesOff ==
  at = "insert" =>
    order.total = SumSeq([k \in DOMAIN order.payload |->
      LET g == order.payload[k].group
      IN IF g \in DOMAIN sawGroups
         THEN Fairest(sawGroups[g], Deltas(order.payload[k], sawValues)) ELSE 0])

(* A dialogue ends: whoever edits the menu meanwhile, an agent that          *)
(* completes the group it was given is at last given no other.               *)
DialogueEnds == talk.open ~> ~talk.open
=============================================================================
