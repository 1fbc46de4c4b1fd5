---------------------------- MODULE CatalogProofs ----------------------------
(* What holds of the menu for any number of items, groups and values: its     *)
(* rows keep agreeing whoever edits them; an item that was talked through can *)
(* be ordered; and an order pays for the options that it lists.               *)
EXTENDS Catalog, FiniteSetTheorems, TLAPS

RowsTyped ==
  /\ menu \in [Items -> Item \cup {Null, Gone}]
  /\ group \in [Groups -> Group \cup {Null, Gone}]
  /\ value \in [Values -> Value \cup {Null, Gone}]
  /\ attach \in [Items \X Groups -> Override \cup {Null}]

(* DefaultsLegal without the counting. *)
DefaultsInv == \A g \in Live(group) :
  /\ \A v \in DefaultsOf(g) : value[v].avail
  /\ group[g].row.single => \A v, w \in DefaultsOf(g) : v = w

TablesInv == RowsTyped /\ JoinsAgree /\ DefaultsInv

(* What a handler has checked before its last statement: nobody suggests the  *)
(* item, nothing attaches the group, no default is left beside the new one.   *)
RestInv ==
  \/ rest = Idle
  \/ \E i \in Live(menu) : /\ rest = [op |-> "deleteItem", item |-> i]
                           /\ \A k \in Live(menu) : i \notin menu[k].suggested
  \/ \E g \in Live(group) : /\ rest = [op |-> "deleteGroup", group |-> g]
                            /\ AttachedTo(g) = {}
  \/ \E v \in Values, new \in Value :
       /\ rest = [op |-> "writeValue", value |-> v, new |-> new]
       /\ new.group \in Live(group) /\ DefaultsOf(new.group) = {}
       /\ new.default => new.avail
  \/ \E v \in Live(value) : rest = [op |-> "deleteValue", value |-> v]

MenuInv == TablesInv /\ RestInv

-----------------------------------------------------------------------------
(* Counting to one. *)

LEMMA OneAtMost ==
  ASSUME NEW S, \A x, y \in S : x = y
  PROVE  Cardinality(S) <= 1
<1>1. CASE S = {}
  BY <1>1, FS_EmptySet
<1>2. CASE S # {}
  <2>1. PICK x \in S : TRUE
    BY <1>2
  <2>2. S = {x}
    BY <2>1
  <2>3. QED BY <2>2, FS_Singleton
<1>3. QED BY <1>1, <1>2

LEMMA AtMostOne ==
  ASSUME NEW S, IsFiniteSet(S)
  PROVE  Cardinality(S) <= 1 <=> \A x, y \in S : x = y
<1>1. ASSUME Cardinality(S) <= 1, NEW x \in S, NEW y \in S, x # y
      PROVE  FALSE
  <2>1. IsFiniteSet({x}) /\ Cardinality({x}) = 1 /\ y \notin {x}
    BY <1>1, FS_Singleton
  <2> DEFINE T == {x}
  <2> HIDE DEF T
  <2>2. Cardinality(T \cup {y}) = Cardinality(T) + 1
    BY <2>1, FS_AddElement DEF T
  <2>3. T \cup {y} \subseteq S
    BY DEF T
  <2>4. Cardinality(T \cup {y}) <= Cardinality(S) /\ Cardinality(S) \in Nat
    BY <2>3, FS_Subset, FS_CardinalityType
  <2>5. QED BY <1>1, <2>1, <2>2, <2>4 DEF T
<1>2. QED BY <1>1, OneAtMost

(* A row is neither NULL nor gone. *)
LEMMA MarksApart ==
  \A x \in {Null, Gone} : x \notin Item /\ x \notin Group /\ x \notin Value
  BY CatalogAssumption

LEMMA LiveTypes ==
  ASSUME RowsTyped
  PROVE  /\ Live(menu) \subseteq Items /\ \A i \in Live(menu) : menu[i] \in Item
         /\ Live(group) \subseteq Groups /\ \A g \in Live(group) : group[g] \in Group
         /\ Live(value) \subseteq Values /\ \A v \in Live(value) : value[v] \in Value
  BY DEF RowsTyped, Live

LEMMA DefaultsFinite ==
  ASSUME RowsTyped, NEW g
  PROVE  /\ IsFiniteSet(ValuesOf(g)) /\ IsFiniteSet(DefaultsOf(g))
         /\ DefaultsOf(g) \subseteq ValuesOf(g) /\ ValuesOf(g) \subseteq Values
<1>1. DefaultsOf(g) \subseteq ValuesOf(g) /\ ValuesOf(g) \subseteq Values
  BY LiveTypes DEF DefaultsOf, ValuesOf
<1>2. QED BY <1>1, FS_Subset, CatalogAssumption

LEMMA DefaultsAgree ==
  ASSUME RowsTyped
  PROVE  DefaultsInv <=> DefaultsLegal
<1>1. ASSUME NEW g
      PROVE  DefaultsOf(g) = {v \in ValuesOf(g) : value[v].default}
  BY DEF DefaultsOf
<1>2. ASSUME NEW g \in Live(group)
      PROVE  /\ Cardinality(DefaultsOf(g)) <= 1 <=> \A v, w \in DefaultsOf(g) : v = w
             /\ DefaultsHold(group[g].row.single, {value[v] : v \in ValuesOf(g)})
                  => \A v \in DefaultsOf(g) : value[v].avail
  BY <1>1, AtMostOne, DefaultsFinite DEF DefaultsHold
<1>3. ASSUME NEW g \in Live(group), DefaultsInv
      PROVE  DefaultsHold(group[g].row.single, {value[v] : v \in ValuesOf(g)})
  <2> DEFINE vals == {value[v] : v \in ValuesOf(g)}
             defaults == {x \in vals : x.default}
  <2>1. \A x \in defaults : \E v \in DefaultsOf(g) : x = value[v]
    BY <1>1
  <2>2. \A x \in defaults : x.avail
    BY <1>3, <2>1 DEF DefaultsInv
  <2>3. group[g].row.single => Cardinality(defaults) <= 1
    <3>1. ASSUME group[g].row.single PROVE \A x, y \in defaults : x = y
      BY <1>3, <2>1, <3>1 DEF DefaultsInv
    <3> HIDE DEF defaults
    <3>2. QED BY <3>1, OneAtMost
  <2>4. QED BY <2>2, <2>3 DEF DefaultsHold
<1>4. QED BY <1>2, <1>3 DEF DefaultsInv, DefaultsLegal

-----------------------------------------------------------------------------
(* The items. *)

LEMMA DefaultsStay ==
  ASSUME DefaultsInv, UNCHANGED <<group, value>>
  PROVE  DefaultsInv'
  BY DEF DefaultsInv, DefaultsOf, ValuesOf, Live

(* No row of an item goes, or goes to another restaurant. *)
LEMMA MenuWritten ==
  ASSUME TablesInv, UNCHANGED <<group, value, attach>>,
         menu' \in [Items -> Item \cup {Null, Gone}],
         \A i \in Live(menu) : i \in Live(menu') /\ menu'[i].rest = menu[i].rest,
         \A i \in Live(menu') : \A s \in menu'[i].suggested :
           s # i /\ s \in Live(menu') /\ menu'[s].rest = menu'[i].rest
  PROVE  TablesInv'
<1>1. RowsTyped'
  BY DEF TablesInv, RowsTyped
<1>2. JoinsAgree'
  BY DEF TablesInv, JoinsAgree
<1>3. QED BY <1>1, <1>2, DefaultsStay DEF TablesInv

(* A column of one item is written. *)
LEMMA ItemWritten ==
  ASSUME TablesInv, UNCHANGED <<group, value, attach>>,
         NEW i \in Live(menu), NEW x \in Item, x.rest = menu[i].rest,
         menu' = [menu EXCEPT ![i] = x],
         \A s \in x.suggested : s # i /\ s \in Live(menu) /\ menu[s].rest = x.rest
  PROVE  TablesInv'
<1>1. /\ menu \in [Items -> Item \cup {Null, Gone}] /\ i \in Items
      /\ x \notin {Null, Gone}
  BY LiveTypes, MarksApart DEF TablesInv, RowsTyped
<1>2. /\ menu' \in [Items -> Item \cup {Null, Gone}]
      /\ menu'[i] = x /\ \A k \in Items : k # i => menu'[k] = menu[k]
  BY <1>1
<1>3. Live(menu') = Live(menu) /\ \A k \in Live(menu) : menu'[k].rest = menu[k].rest
  BY <1>1, <1>2 DEF Live
<1>4. ASSUME NEW k \in Live(menu'), NEW s \in menu'[k].suggested
      PROVE  s # k /\ s \in Live(menu') /\ menu'[s].rest = menu'[k].rest
  <2>1. k \in Items
    BY <1>2, <1>4 DEF Live
  <2>2. CASE k = i
    BY <1>2, <1>3, <1>4, <2>2
  <2>3. CASE k # i
    BY <1>2, <1>3, <1>4, <2>1, <2>3 DEF TablesInv, JoinsAgree
  <2>4. QED BY <2>2, <2>3
<1>5. QED BY <1>2, <1>3, <1>4, MenuWritten

LEMMA ColumnWritten ==
  ASSUME TablesInv, UNCHANGED <<group, value, attach>>, NEW i \in Live(menu),
         \/ \E n \in Names : menu' = WriteItem(i, "name", n)
         \/ \E b \in BOOLEAN : menu' = WriteItem(i, "avail", b) \/ menu' = WriteItem(i, "special", b)
  PROVE  TablesInv'
<1>1. menu[i] \in Item /\ i \in Items /\ DOMAIN menu = Items
  BY LiveTypes DEF TablesInv, RowsTyped
<1>2. PICK x \in Item : /\ menu' = [menu EXCEPT ![i] = x]
                        /\ x.rest = menu[i].rest /\ x.suggested = menu[i].suggested
  <2>1. ASSUME NEW n \in Names, menu' = WriteItem(i, "name", n)
        PROVE  \E x \in Item : /\ menu' = [menu EXCEPT ![i] = x]
                               /\ x.rest = menu[i].rest /\ x.suggested = menu[i].suggested
    <3>1. menu' = [menu EXCEPT ![i] = [menu[i] EXCEPT !.name = n]]
      BY <1>1, <2>1 DEF WriteItem
    <3> DEFINE x == [menu[i] EXCEPT !.name = n]
    <3>2. x \in Item /\ x.rest = menu[i].rest /\ x.suggested = menu[i].suggested
      BY <1>1 DEF Item
    <3>3. QED BY <3>1, <3>2
  <2>2. ASSUME NEW b \in BOOLEAN, menu' = WriteItem(i, "avail", b)
        PROVE  \E x \in Item : /\ menu' = [menu EXCEPT ![i] = x]
                               /\ x.rest = menu[i].rest /\ x.suggested = menu[i].suggested
    <3>1. menu' = [menu EXCEPT ![i] = [menu[i] EXCEPT !.avail = b]]
      BY <1>1, <2>2 DEF WriteItem
    <3> DEFINE x == [menu[i] EXCEPT !.avail = b]
    <3>2. x \in Item /\ x.rest = menu[i].rest /\ x.suggested = menu[i].suggested
      BY <1>1 DEF Item
    <3>3. QED BY <3>1, <3>2
  <2>3. ASSUME NEW b \in BOOLEAN, menu' = WriteItem(i, "special", b)
        PROVE  \E x \in Item : /\ menu' = [menu EXCEPT ![i] = x]
                               /\ x.rest = menu[i].rest /\ x.suggested = menu[i].suggested
    <3>1. menu' = [menu EXCEPT ![i] = [menu[i] EXCEPT !.special = b]]
      BY <1>1, <2>3 DEF WriteItem
    <3> DEFINE x == [menu[i] EXCEPT !.special = b]
    <3>2. x \in Item /\ x.rest = menu[i].rest /\ x.suggested = menu[i].suggested
      BY <1>1 DEF Item
    <3>3. QED BY <3>1, <3>2
  <2>4. QED BY <2>1, <2>2, <2>3
<1>3. \A s \in x.suggested : s # i /\ s \in Live(menu) /\ menu[s].rest = x.rest
  BY <1>2 DEF TablesInv, JoinsAgree
<1>4. QED BY <1>2, <1>3, ItemWritten

LEMMA SuggestTables ==
  ASSUME TablesInv, NEW who, NEW i \in Items, NEW suggested \in SUBSET Items,
         Suggest(who, i, suggested)
  PROVE  TablesInv'
<1>1. i \in Live(menu) /\ UNCHANGED <<group, value, attach>>
  BY DEF Suggest
<1>2. menu[i] \in Item /\ DOMAIN menu = Items
  BY <1>1, LiveTypes DEF TablesInv, RowsTyped
<1> DEFINE x == [menu[i] EXCEPT !.suggested = suggested]
<1>3. menu' = [menu EXCEPT ![i] = x]
  BY <1>2 DEF Suggest, WriteItem
<1>4. x \in Item /\ x.rest = menu[i].rest /\ x.suggested = suggested
  BY <1>2 DEF Item
<1>5. \A s \in suggested : s # i /\ s \in Live(menu) /\ menu[s].rest = menu[i].rest
  BY DEF Suggest, MaySuggest
<1> HIDE DEF x
<1>6. QED BY <1>1, <1>3, <1>4, <1>5, ItemWritten

LEMMA CreateItemTables ==
  ASSUME TablesInv, NEW i \in Items, NEW r \in Restaurants, NEW n \in Names,
         NEW suggested \in SUBSET Items, CreateItem(i, r, n, suggested)
  PROVE  TablesInv'
<1> DEFINE x == [rest |-> r, name |-> n, avail |-> TRUE, special |-> FALSE,
                 suggested |-> suggested]
<1>1. /\ menu' = [menu EXCEPT ![i] = x] /\ menu[i] = Null
      /\ UNCHANGED <<group, value, attach>>
  BY DEF CreateItem, InsertItem, Fresh
<1>2. \A s \in suggested : s \in Live(menu) /\ menu[s].rest = r
  BY DEF CreateItem, MaySuggest
<1>3. x \in Item /\ x.rest = r /\ x.suggested = suggested
  BY DEF Item
<1> HIDE DEF x
<1>4. menu \in [Items -> Item \cup {Null, Gone}] /\ x \notin {Null, Gone}
  BY <1>3, MarksApart DEF TablesInv, RowsTyped
<1>5. /\ menu' \in [Items -> Item \cup {Null, Gone}]
      /\ menu'[i] = x /\ \A k \in Items : k # i => menu'[k] = menu[k]
  BY <1>1, <1>3, <1>4
<1>6. Live(menu') = Live(menu) \cup {i} /\ i \notin Live(menu)
  BY <1>1, <1>4, <1>5 DEF Live
<1>7. \A k \in Live(menu) : k # i /\ menu'[k] = menu[k]
  BY <1>4, <1>5, <1>6 DEF Live
<1>8. ASSUME NEW k \in Live(menu'), NEW s \in menu'[k].suggested
      PROVE  s # k /\ s \in Live(menu') /\ menu'[s].rest = menu'[k].rest
  <2>1. CASE k = i
    BY <1>2, <1>3, <1>5, <1>6, <1>7, <1>8, <2>1
  <2>2. CASE k # i
    BY <1>6, <1>7, <1>8, <2>2 DEF TablesInv, JoinsAgree
  <2>3. QED BY <2>1, <2>2
<1>9. QED BY <1>1, <1>5, <1>6, <1>7, <1>8, MenuWritten

LEMMA BulkTables ==
  ASSUME TablesInv, NEW r, NEW chosen, NEW to \in BOOLEAN, BulkAvailability(r, chosen, to)
  PROVE  TablesInv'
<1>1. /\ chosen \subseteq Live(menu) /\ UNCHANGED <<group, value, attach>>
      /\ menu' = [i \in Items |-> IF i \in chosen THEN [menu[i] EXCEPT !.avail = to] ELSE menu[i]]
  BY DEF BulkAvailability, AllTheirs, WriteItems
<1>2. menu \in [Items -> Item \cup {Null, Gone}]
  BY DEF TablesInv, RowsTyped
<1>3. ASSUME NEW i \in Items
      PROVE  /\ i \in Live(menu) => /\ menu'[i] \in Item
                                    /\ menu'[i].rest = menu[i].rest
                                    /\ menu'[i].suggested = menu[i].suggested
             /\ i \notin Live(menu) => menu'[i] = menu[i]
  BY <1>1, LiveTypes DEF Item, TablesInv
<1>4. menu' \in [Items -> Item \cup {Null, Gone}] /\ Live(menu') = Live(menu)
  BY <1>1, <1>2, <1>3, MarksApart DEF Live
<1>5. \A i \in Live(menu) : i \in Items
  BY <1>2 DEF Live
<1>6. ASSUME NEW k \in Live(menu'), NEW s \in menu'[k].suggested
      PROVE  s # k /\ s \in Live(menu') /\ menu'[s].rest = menu'[k].rest
  BY <1>3, <1>4, <1>5, <1>6 DEF TablesInv, JoinsAgree
<1>7. QED BY <1>1, <1>3, <1>4, <1>5, <1>6, MenuWritten

LEMMA CleanTables ==
  ASSUME TablesInv, NEW who, NEW i \in Items, CleanSuggestions(who, i)
  PROVE  TablesInv' /\ RestInv'
<1>1. /\ i \in Live(menu) /\ UNCHANGED <<group, value, attach>>
      /\ rest' = [op |-> "deleteItem", item |-> i]
      /\ menu' = [k \in Items |-> IF k \in Live(menu) THEN [menu[k] EXCEPT !.suggested = @ \ {i}]
                                  ELSE menu[k]]
  BY DEF CleanSuggestions, Unsuggested
<1>2. menu \in [Items -> Item \cup {Null, Gone}]
  BY DEF TablesInv, RowsTyped
<1>3. ASSUME NEW k \in Items
      PROVE  /\ k \in Live(menu) => /\ menu'[k] \in Item
                                    /\ menu'[k].rest = menu[k].rest
                                    /\ menu'[k].suggested = menu[k].suggested \ {i}
             /\ k \notin Live(menu) => menu'[k] = menu[k]
  BY <1>1, LiveTypes DEF Item, TablesInv
<1>4. menu' \in [Items -> Item \cup {Null, Gone}] /\ Live(menu') = Live(menu)
  BY <1>1, <1>2, <1>3, MarksApart DEF Live
<1>5. \A k \in Live(menu) : k \in Items
  BY <1>2 DEF Live
<1>6. ASSUME NEW k \in Live(menu'), NEW s \in menu'[k].suggested
      PROVE  s # k /\ s \in Live(menu') /\ menu'[s].rest = menu'[k].rest
  BY <1>3, <1>4, <1>5, <1>6 DEF TablesInv, JoinsAgree
<1>7. TablesInv'
  BY <1>1, <1>3, <1>4, <1>5, <1>6, MenuWritten
<1>8. RestInv'
  <2>1. i \in Live(menu') /\ \A k \in Live(menu') : i \notin menu'[k].suggested
    BY <1>1, <1>3, <1>4, <1>5
  <2>2. QED BY <1>1, <2>1 DEF RestInv
<1>9. QED BY <1>7, <1>8

LEMMA DeleteItemTables ==
  ASSUME MenuInv, DeleteItem
  PROVE  TablesInv' /\ RestInv'
<1>1. rest' = Idle /\ rest.op = "deleteItem"
  BY DEF DeleteItem
<1>2. PICK i \in Live(menu) : /\ rest.item = i
                              /\ \A k \in Live(menu) : i \notin menu[k].suggested
  BY <1>1 DEF MenuInv, RestInv, Idle
<1>3. RestInv'
  BY <1>1 DEF RestInv
<1>4. CASE UNCHANGED tables
  <2>1. UNCHANGED <<menu, group, value, attach>>
    BY <1>4 DEF tables
  <2>2. TablesInv'
    BY <2>1, DefaultsStay DEF MenuInv, TablesInv, RowsTyped, JoinsAgree
  <2>3. QED BY <1>3, <2>2
<1>5. CASE /\ menu' = [menu EXCEPT ![i] = Gone]
           /\ attach' = [p \in DOMAIN attach |-> IF p[1] = i THEN Null ELSE attach[p]]
           /\ UNCHANGED <<group, value>>
  <2>1. /\ menu \in [Items -> Item \cup {Null, Gone}] /\ i \in Items
        /\ attach \in [Items \X Groups -> Override \cup {Null}]
    BY LiveTypes DEF MenuInv, TablesInv, RowsTyped
  <2>2. /\ menu' \in [Items -> Item \cup {Null, Gone}]
        /\ menu'[i] = Gone /\ \A k \in Items : k # i => menu'[k] = menu[k]
    BY <1>5, <2>1
  <2>3. /\ attach' \in [Items \X Groups -> Override \cup {Null}]
        /\ \A k \in Items, g \in Groups :
             attach'[<<k, g>>] = IF k = i THEN Null ELSE attach[<<k, g>>]
    BY <1>5, <2>1
  <2>4. Live(menu') = Live(menu) \ {i} /\ \A k \in Live(menu) : k \in Items
    BY <2>1, <2>2 DEF Live
  <2>5. RowsTyped'
    BY <1>5, <2>2, <2>3 DEF MenuInv, TablesInv, RowsTyped
  <2>6. \A k \in Live(menu') : \A s \in menu'[k].suggested :
          s # k /\ s \in Live(menu') /\ menu'[s].rest = menu'[k].rest
    BY <1>2, <2>2, <2>4 DEF MenuInv, TablesInv, JoinsAgree
  <2>7. \A k \in Items, g \in Groups : attach'[<<k, g>>] # Null =>
          k \in Live(menu') /\ g \in Live(group) /\ menu'[k].rest = group[g].rest
    BY <2>2, <2>3, <2>4 DEF MenuInv, TablesInv, JoinsAgree
  <2>8. JoinsAgree'
    <3>1. \A v \in Live(value') : value'[v].group \in Live(group')
      BY <1>5 DEF MenuInv, TablesInv, JoinsAgree
    <3>2. ASSUME NEW k \in Items, NEW g \in Groups, attach'[<<k, g>>] # Null
          PROVE  k \in Live(menu') /\ g \in Live(group') /\ menu'[k].rest = group'[g].rest
      <4>1. k \in Live(menu') /\ g \in Live(group) /\ menu'[k].rest = group[g].rest
        BY <2>7, <3>2
      <4>2. group' = group
        BY <1>5
      <4>3. QED BY <4>1, <4>2
    <3>3. QED BY <2>6, <3>1, <3>2 DEF JoinsAgree
  <2>9. DefaultsInv'
    BY <1>5, DefaultsStay DEF MenuInv, TablesInv
  <2>10. QED BY <1>3, <2>5, <2>8, <2>9 DEF TablesInv
<1>6. QED BY <1>2, <1>4, <1>5 DEF DeleteItem

-----------------------------------------------------------------------------
(* The groups, and what is attached. *)

LEMMA UpdateGroupTables ==
  ASSUME TablesInv, NEW who, NEW g \in Groups, NEW row \in NewGroups, NEW full,
         UpdateGroup(who, g, row, full)
  PROVE  TablesInv'
<1>1. /\ g \in Live(group) /\ group' = [group EXCEPT ![g].row = row]
      /\ UNCHANGED <<menu, value, attach>>
      /\ row.single => Cardinality(DefaultsOf(g)) <= 1
  BY DEF UpdateGroup, WriteGroup
<1> DEFINE x == [group[g] EXCEPT !.row = row]
<1>2. group[g] \in Group /\ group \in [Groups -> Group \cup {Null, Gone}]
  BY <1>1, LiveTypes DEF TablesInv, RowsTyped
<1>3. x \in Group /\ x.rest = group[g].rest /\ x.row = row
  BY <1>2, CatalogAssumption DEF Group
<1>4. group' = [group EXCEPT ![g] = x]
  BY <1>1, <1>2
<1> HIDE DEF x
<1>5. /\ group' \in [Groups -> Group \cup {Null, Gone}]
      /\ group'[g] = x /\ \A h \in Groups : h # g => group'[h] = group[h]
  BY <1>2, <1>3, <1>4
<1>6. Live(group') = Live(group) /\ \A h \in Live(group) : h \in Groups
  BY <1>1, <1>2, <1>3, <1>5, MarksApart DEF Live
<1>7. \A h \in Live(group) : group'[h].rest = group[h].rest
  BY <1>3, <1>5, <1>6
<1>8. RowsTyped'
  BY <1>1, <1>5 DEF TablesInv, RowsTyped
<1>9. JoinsAgree'
  BY <1>1, <1>6, <1>7 DEF TablesInv, JoinsAgree
<1>10. DefaultsInv'
  <2> SUFFICES ASSUME NEW h \in Live(group')
               PROVE  /\ \A v \in DefaultsOf(h) : value[v].avail
                      /\ group'[h].row.single => \A v, w \in DefaultsOf(h) : v = w
    BY <1>1 DEF DefaultsInv, DefaultsOf, ValuesOf
  <2>1. /\ \A v \in DefaultsOf(h) : value[v].avail
        /\ group[h].row.single => \A v, w \in DefaultsOf(h) : v = w
    BY <1>6 DEF TablesInv, DefaultsInv
  <2>2. CASE h = g
    <3>1. row.single => \A v, w \in DefaultsOf(g) : v = w
      BY <1>1, AtMostOne, DefaultsFinite DEF TablesInv
    <3>2. QED BY <1>3, <1>5, <2>1, <2>2, <3>1
  <2>3. CASE h # g
    BY <1>5, <1>6, <2>1, <2>3
  <2>4. QED BY <2>2, <2>3
<1>11. QED BY <1>8, <1>9, <1>10 DEF TablesInv

LEMMA AttachTables ==
  ASSUME TablesInv, NEW who, NEW i \in Items, NEW g \in Groups,
         \/ \E over \in NewOverrides : AttachGroup(who, i, g, over)
         \/ DetachGroup(who, i, g)
  PROVE  TablesInv'
<1>1. PICK over \in Override \cup {Null} :
        /\ attach' = [attach EXCEPT ![<<i, g>>] = over]
        /\ over # Null => i \in Live(menu) /\ g \in Live(group) /\ menu[i].rest = group[g].rest
  <2>1. ASSUME NEW over \in NewOverrides, AttachGroup(who, i, g, over)
        PROVE  /\ attach' = [attach EXCEPT ![<<i, g>>] = over]
               /\ i \in Live(menu) /\ g \in Live(group) /\ menu[i].rest = group[g].rest
    BY <2>1 DEF AttachGroup, Upsert
  <2>2. ASSUME DetachGroup(who, i, g)
        PROVE  attach' = [attach EXCEPT ![<<i, g>>] = Null]
    BY <2>2 DEF DetachGroup
  <2>3. QED BY <2>1, <2>2, CatalogAssumption
<1>2. UNCHANGED <<menu, group, value>>
  BY DEF AttachGroup, DetachGroup
<1>3. attach \in [Items \X Groups -> Override \cup {Null}]
  BY DEF TablesInv, RowsTyped
<1>4. /\ attach' \in [Items \X Groups -> Override \cup {Null}]
      /\ attach'[<<i, g>>] = over
      /\ \A k \in Items, h \in Groups : <<k, h>> # <<i, g>> => attach'[<<k, h>>] = attach[<<k, h>>]
  BY <1>1, <1>3
<1>5. RowsTyped'
  BY <1>2, <1>4 DEF TablesInv, RowsTyped
<1>6. ASSUME NEW k \in Items, NEW h \in Groups, attach'[<<k, h>>] # Null
      PROVE  k \in Live(menu) /\ h \in Live(group) /\ menu[k].rest = group[h].rest
  BY <1>1, <1>4, <1>6 DEF TablesInv, JoinsAgree
<1>7. JoinsAgree'
  BY <1>2, <1>6 DEF TablesInv, JoinsAgree
<1>8. QED BY <1>2, <1>5, <1>7, DefaultsStay DEF TablesInv

(* Values of a group that is not there are not there. *)
LEMMA CreateGroupTables ==
  ASSUME TablesInv, NEW g \in Groups, NEW r \in Restaurants, NEW row \in NewGroups,
         NEW v \in Values, NEW d \in BOOLEAN, NEW kept \in BOOLEAN,
         CreateGroup(g, r, row, v, d, kept)
  PROVE  TablesInv'
<1> DEFINE x == [rest |-> r, row |-> row]
           new == NewValue(g, d, TRUE, 1)
<1>1. /\ group[g] = Null /\ value[v] = Null /\ group' = [group EXCEPT ![g] = x]
      /\ value' = IF kept THEN [value EXCEPT ![v] = new] ELSE value
      /\ UNCHANGED <<menu, attach>>
  BY DEF CreateGroup, Fresh, InsertGroup, PutValue
<1>2. x \in Group /\ x.rest = r /\ x.row = row
  BY CatalogAssumption DEF Group
<1>3. new \in Value /\ new.group = g /\ new.default = d /\ new.avail = TRUE
  BY CatalogAssumption DEF NewValue, Value
<1> HIDE DEF x, new
<1>4. /\ group \in [Groups -> Group \cup {Null, Gone}] /\ x \notin {Null, Gone}
      /\ value \in [Values -> Value \cup {Null, Gone}] /\ new \notin {Null, Gone}
  BY <1>2, <1>3, MarksApart DEF TablesInv, RowsTyped
<1>5. /\ group' \in [Groups -> Group \cup {Null, Gone}]
      /\ group'[g] = x /\ \A h \in Groups : h # g => group'[h] = group[h]
  BY <1>1, <1>2, <1>4
<1>6. /\ value' \in [Values -> Value \cup {Null, Gone}]
      /\ value'[v] = new \/ value'[v] = Null
      /\ \A w \in Values : w # v => value'[w] = value[w]
  BY <1>1, <1>3, <1>4
<1>7. /\ Live(group') = Live(group) \cup {g} /\ g \notin Live(group)
      /\ \A h \in Live(group) : group'[h] = group[h]
  BY <1>1, <1>4, <1>5 DEF Live
<1>8. /\ v \notin Live(value) /\ Live(value) \subseteq Live(value')
      /\ \A w \in Live(value') : w \in Live(value) \/ (w = v /\ value'[w] = new)
      /\ \A w \in Live(value) : value'[w] = value[w]
  BY <1>1, <1>4, <1>6 DEF Live
<1>9. RowsTyped'
  BY <1>1, <1>5, <1>6 DEF TablesInv, RowsTyped
<1>10. JoinsAgree'
  <2>1. \A w \in Live(value') : value'[w].group \in Live(group')
    BY <1>3, <1>7, <1>8 DEF TablesInv, JoinsAgree
  <2>2. ASSUME NEW k \in Items, NEW h \in Groups, attach'[<<k, h>>] # Null
        PROVE  k \in Live(menu') /\ h \in Live(group') /\ menu'[k].rest = group'[h].rest
    <3>1. attach' = attach /\ menu' = menu
      BY <1>1
    <3>2. k \in Live(menu) /\ h \in Live(group) /\ menu[k].rest = group[h].rest
      BY <2>2, <3>1 DEF TablesInv, JoinsAgree
    <3>3. QED BY <1>7, <3>1, <3>2
  <2>3. \A k \in Live(menu') : \A s \in menu'[k].suggested :
          s # k /\ s \in Live(menu') /\ menu'[s].rest = menu'[k].rest
    BY <1>1 DEF TablesInv, JoinsAgree
  <2>4. QED BY <2>1, <2>2, <2>3 DEF JoinsAgree
<1>11. DefaultsInv'
  <2>1. \A w \in DefaultsOf(g)' : w = v /\ value'[w] = new
    BY <1>3, <1>7, <1>8 DEF DefaultsOf, ValuesOf, TablesInv, JoinsAgree
  <2>2. ASSUME NEW h \in Live(group)
        PROVE  /\ h # g /\ group'[h] = group[h]
               /\ \A w \in DefaultsOf(h)' : w \in DefaultsOf(h) /\ value'[w] = value[w]
    BY <1>3, <1>7, <1>8 DEF DefaultsOf, ValuesOf
  <2>3. ASSUME NEW h \in Live(group')
        PROVE  /\ \A w \in DefaultsOf(h)' : value'[w].avail
               /\ group'[h].row.single => \A w, u \in DefaultsOf(h)' : w = u
    <3>1. CASE h = g
      BY <1>3, <2>1, <3>1
    <3>2. CASE h # g
      BY <1>7, <2>2, <3>2 DEF TablesInv, DefaultsInv
    <3>3. QED BY <3>1, <3>2
  <2>4. QED BY <2>3 DEF DefaultsInv
<1>12. QED BY <1>9, <1>10, <1>11 DEF TablesInv

-----------------------------------------------------------------------------
(* The values. *)

(* One value is written: a default only where there is room for it. *)
LEMMA ValuePut ==
  ASSUME TablesInv, UNCHANGED <<menu, group, attach>>,
         NEW v \in Values, NEW new \in Value, value' = PutValue(v, new),
         new.group \in Live(group), new.default => new.avail,
         new.default /\ group[new.group].row.single => \A w \in DefaultsOf(new.group) : w = v
  PROVE  TablesInv'
<1>1. value \in [Values -> Value \cup {Null, Gone}] /\ new \notin {Null, Gone}
  BY MarksApart DEF TablesInv, RowsTyped
<1>2. /\ value' \in [Values -> Value \cup {Null, Gone}]
      /\ value'[v] = new /\ \A w \in Values : w # v => value'[w] = value[w]
  BY <1>1 DEF PutValue
<1>3. \A w \in Live(value') : /\ w \in Values
                              /\ w # v => w \in Live(value) /\ value'[w] = value[w]
  BY <1>1, <1>2 DEF Live
<1>4. RowsTyped'
  BY <1>2 DEF TablesInv, RowsTyped
<1>5. JoinsAgree'
  <2>1. \A w \in Live(value') : value'[w].group \in Live(group')
    BY <1>2, <1>3 DEF TablesInv, JoinsAgree
  <2>2. QED BY <2>1 DEF TablesInv, JoinsAgree
<1>6. DefaultsInv'
  <2>1. ASSUME NEW h, NEW w \in DefaultsOf(h)'
        PROVE  \/ w = v /\ new.default /\ new.group = h
               \/ w # v /\ w \in DefaultsOf(h) /\ value'[w] = value[w]
    BY <1>2, <1>3, <2>1 DEF DefaultsOf, ValuesOf
  <2>2. ASSUME NEW h \in Live(group)
        PROVE  /\ \A w \in DefaultsOf(h)' : value'[w].avail
               /\ group[h].row.single => \A w, u \in DefaultsOf(h)' : w = u
    BY <1>2, <2>1 DEF TablesInv, DefaultsInv
  <2>3. QED BY <2>2 DEF DefaultsInv
<1>7. QED BY <1>4, <1>5, <1>6 DEF TablesInv

(* The statement that takes the default off a group leaves it none. *)
LEMMA ValuesUnset ==
  ASSUME TablesInv, UNCHANGED <<menu, group, attach>>, NEW g, value' = Unset(g)
  PROVE  TablesInv' /\ DefaultsOf(g)' = {}
<1>1. value \in [Values -> Value \cup {Null, Gone}]
  BY DEF TablesInv, RowsTyped
<1>2. ASSUME NEW v \in Values
      PROVE  /\ v \in ValuesOf(g) => /\ value'[v] \in Value
                                     /\ value'[v].group = value[v].group
                                     /\ value'[v].avail = value[v].avail
                                     /\ value'[v].default = FALSE
             /\ v \notin ValuesOf(g) => value'[v] = value[v]
  <2>1. ASSUME v \in ValuesOf(g)
        PROVE  value[v] \in Value /\ value'[v] = [value[v] EXCEPT !.default = FALSE]
    BY <2>1, LiveTypes DEF Unset, ValuesOf, TablesInv
  <2>2. QED BY <2>1 DEF Unset, Value
<1>3. \A v \in ValuesOf(g) : v \in Live(value) /\ v \in Values /\ value[v].group = g
  BY LiveTypes DEF ValuesOf, TablesInv
<1>4. value' \in [Values -> Value \cup {Null, Gone}]
  BY <1>1, <1>2 DEF Unset
<1>5. Live(value') = Live(value)
  BY <1>1, <1>2, <1>3, <1>4, MarksApart DEF Live
<1>6. \A v \in Live(value) : v \in Values
  BY <1>1 DEF Live
<1>7. \A v \in Live(value) : value'[v].group = value[v].group
  BY <1>2, <1>6
<1>8. RowsTyped'
  BY <1>4 DEF TablesInv, RowsTyped
<1>9. JoinsAgree'
  <2>1. \A w \in Live(value') : value'[w].group \in Live(group')
    BY <1>5, <1>7 DEF TablesInv, JoinsAgree
  <2>2. QED BY <2>1 DEF TablesInv, JoinsAgree
<1>10. ASSUME NEW h, NEW w \in DefaultsOf(h)'
       PROVE  w \in DefaultsOf(h) /\ value'[w] = value[w] /\ h # g
  <2>1. w \in Live(value) /\ value'[w].group = h /\ value'[w].default
    BY <1>5, <1>10 DEF DefaultsOf, ValuesOf
  <2>2. w \notin ValuesOf(g)
    BY <1>2, <1>6, <2>1
  <2>3. QED BY <1>2, <1>6, <2>1, <2>2 DEF DefaultsOf, ValuesOf
<1>11. DefaultsInv'
  <2>1. ASSUME NEW h \in Live(group)
        PROVE  /\ \A w \in DefaultsOf(h)' : value'[w].avail
               /\ group[h].row.single => \A w, u \in DefaultsOf(h)' : w = u
    BY <1>10 DEF TablesInv, DefaultsInv
  <2>2. QED BY <2>1 DEF DefaultsInv
<1>12. QED BY <1>8, <1>9, <1>10, <1>11 DEF TablesInv

LEMMA WriteOrUnsetTables ==
  ASSUME TablesInv, LoopFree, UNCHANGED <<menu, group, attach>>,
         NEW v \in Values, NEW new \in Value, NEW unset \in BOOLEAN,
         WriteOrUnset(new.group, v, new, unset),
         new.group \in Live(group), new.default => new.avail,
         ~unset /\ new.default /\ group[new.group].row.single
           => \A w \in DefaultsOf(new.group) : w = v
  PROVE  TablesInv' /\ RestInv'
<1>1. CASE unset
  <2>1. /\ value' = Unset(new.group)
        /\ rest' = [op |-> "writeValue", value |-> v, new |-> new]
    BY <1>1 DEF WriteOrUnset
  <2>2. TablesInv' /\ DefaultsOf(new.group)' = {}
    BY <2>1, ValuesUnset
  <2>3. new.group \in Live(group)'
    OBVIOUS
  <2>4. RestInv'
    BY <2>1, <2>2, <2>3 DEF RestInv
  <2>5. QED BY <2>2, <2>4
<1>2. CASE ~unset
  <2>1. value' = PutValue(v, new) /\ rest' = rest
    BY <1>2 DEF WriteOrUnset
  <2>2. TablesInv'
    BY <1>2, <2>1, ValuePut
  <2>3. RestInv'
    BY <2>1 DEF RestInv, LoopFree
  <2>4. QED BY <2>2, <2>3
<1>3. QED BY <1>1, <1>2

LEMMA CreateValueTables ==
  ASSUME TablesInv, NEW who, NEW g \in Groups, NEW v \in Values,
         NEW d \in BOOLEAN, NEW a \in BOOLEAN, CreateValue(who, g, v, d, a)
  PROVE  TablesInv' /\ RestInv'
<1> DEFINE new == NewValue(g, d, a, 1)
           unset == d /\ group[g].row.single
<1>1. new \in Value /\ new.group = g /\ new.default = d /\ new.avail = a
  BY CatalogAssumption DEF NewValue, Value
<1>2. /\ LoopFree /\ UNCHANGED <<menu, group, attach>> /\ g \in Live(group) /\ (d => a)
      /\ WriteOrUnset(g, v, new, unset)
  BY DEF CreateValue, Edit
<1>3. group[g].row.single \in BOOLEAN
  BY <1>2, LiveTypes DEF TablesInv, Group, GroupRow
<1>4. unset \in BOOLEAN
  BY <1>3
<1>5. ~unset => ~(new.default /\ group[g].row.single)
  BY <1>1
<1> HIDE DEF new, unset
<1>6. QED BY <1>1, <1>2, <1>4, <1>5, WriteOrUnsetTables

LEMMA UpdateValueTables ==
  ASSUME TablesInv, NEW who, NEW v \in Values, NEW d \in BOOLEAN, NEW a \in BOOLEAN,
         NEW delta \in NewPrices, NEW full \in BOOLEAN, UpdateValue(who, v, d, a, delta, full)
  PROVE  TablesInv' /\ RestInv'
<1> DEFINE g == value[v].group
           new == NewValue(g, d, a, delta)
           unset == /\ d /\ group[g].row.single
                    /\ InPayload(value[v], new, full, "default")
<1>1. /\ LoopFree /\ UNCHANGED <<menu, group, attach>> /\ v \in Live(value) /\ (d => a)
      /\ WriteOrUnset(g, v, new, unset)
  BY DEF UpdateValue, Edit
<1>2. g \in Live(group) /\ g \in Groups /\ value[v] \in Value
  BY <1>1, LiveTypes DEF TablesInv, JoinsAgree
<1>3. new \in Value /\ new.group = g /\ new.default = d /\ new.avail = a
  BY <1>2, CatalogAssumption DEF NewValue, Value
<1>4. unset \in BOOLEAN
  BY DEF InPayload
<1>5. ASSUME ~unset, new.default, group[g].row.single
      PROVE  \A w \in DefaultsOf(g) : w = v
  <2>1. value[v].default
    BY <1>3, <1>5 DEF InPayload
  <2>2. v \in DefaultsOf(g)
    BY <1>1, <2>1 DEF DefaultsOf, ValuesOf
  <2>3. QED BY <1>2, <1>5, <2>2 DEF TablesInv, DefaultsInv
<1> HIDE DEF g, new, unset
<1>6. QED BY <1>1, <1>2, <1>3, <1>4, <1>5, WriteOrUnsetTables

LEMMA WriteValueTables ==
  ASSUME MenuInv, WriteValue
  PROVE  TablesInv' /\ RestInv'
<1>1. /\ rest.op = "writeValue" /\ rest' = Idle /\ UNCHANGED <<menu, group, attach>>
      /\ value' = PutValue(rest.value, rest.new)
  BY DEF WriteValue
<1>2. PICK v \in Values, new \in Value :
        /\ rest.value = v /\ rest.new = new
        /\ new.group \in Live(group) /\ DefaultsOf(new.group) = {}
        /\ new.default => new.avail
  BY <1>1 DEF MenuInv, RestInv, Idle
<1>3. TablesInv'
  BY <1>1, <1>2, ValuePut DEF MenuInv
<1>4. QED BY <1>1, <1>3 DEF RestInv

(* Values go, alone or with their group, to which nothing is attached. *)
LEMMA ValuesDropped ==
  ASSUME TablesInv, UNCHANGED <<menu, attach>>, NEW vals, DropValues(vals),
         group' \in [Groups -> Group \cup {Null, Gone}],
         Live(group') \subseteq Live(group),
         \A h \in Live(group') : group'[h] = group[h],
         \A v \in Live(value) : v \notin vals => value[v].group \in Live(group'),
         \A h \in Live(group) : h \notin Live(group') => AttachedTo(h) = {}
  PROVE  TablesInv'
<1>1. /\ value \in [Values -> Value \cup {Null, Gone}]
      /\ value' = [v \in Values |-> IF v \in vals THEN Gone ELSE value[v]]
  BY DEF TablesInv, RowsTyped, DropValues
<1>2. value' \in [Values -> Value \cup {Null, Gone}]
  BY <1>1
<1>3. \A v \in Live(value') : v \in Live(value) /\ v \notin vals /\ value'[v] = value[v]
  BY <1>1 DEF Live
<1>4. RowsTyped'
  BY <1>2 DEF TablesInv, RowsTyped
<1>5. JoinsAgree'
  <2>1. \A v \in Live(value') : value'[v].group \in Live(group')
    BY <1>3
  <2>2. ASSUME NEW k \in Items, NEW h \in Groups, attach'[<<k, h>>] # Null
        PROVE  k \in Live(menu') /\ h \in Live(group') /\ menu'[k].rest = group'[h].rest
    <3>1. attach' = attach /\ menu' = menu
      OBVIOUS
    <3>2. k \in Live(menu) /\ h \in Live(group) /\ menu[k].rest = group[h].rest
      BY <2>2, <3>1 DEF TablesInv, JoinsAgree
    <3>3. h \in Live(group')
      BY <2>2, <3>1, <3>2 DEF AttachedTo
    <3>4. QED BY <3>1, <3>2, <3>3
  <2>3. \A k \in Live(menu') : \A s \in menu'[k].suggested :
          s # k /\ s \in Live(menu') /\ menu'[s].rest = menu'[k].rest
    BY DEF TablesInv, JoinsAgree
  <2>4. QED BY <2>1, <2>2, <2>3 DEF JoinsAgree
<1>6. ASSUME NEW h, NEW w \in DefaultsOf(h)'
      PROVE  w \in DefaultsOf(h) /\ value'[w] = value[w]
  BY <1>3, <1>6 DEF DefaultsOf, ValuesOf
<1>7. DefaultsInv'
  <2>1. ASSUME NEW h \in Live(group')
        PROVE  /\ \A w \in DefaultsOf(h)' : value'[w].avail
               /\ group'[h].row.single => \A w, u \in DefaultsOf(h)' : w = u
    BY <1>6 DEF TablesInv, DefaultsInv
  <2>2. QED BY <2>1 DEF DefaultsInv
<1>8. QED BY <1>4, <1>5, <1>7 DEF TablesInv

LEMMA DeleteGroupTables ==
  ASSUME MenuInv, DeleteGroup
  PROVE  TablesInv' /\ RestInv'
<1>1. /\ rest.op = "deleteGroup" /\ rest' = Idle /\ UNCHANGED <<menu, attach>>
      /\ group' = [group EXCEPT ![rest.group] = Gone] /\ DropValues(ValuesOf(rest.group))
  BY DEF DeleteGroup
<1>2. PICK g \in Live(group) : rest.group = g /\ AttachedTo(g) = {}
  BY <1>1 DEF MenuInv, RestInv, Idle
<1>3. group \in [Groups -> Group \cup {Null, Gone}] /\ g \in Groups
  BY LiveTypes DEF MenuInv, TablesInv, RowsTyped
<1>4. /\ group' \in [Groups -> Group \cup {Null, Gone}]
      /\ Live(group') = Live(group) \ {g}
      /\ \A h \in Live(group') : group'[h] = group[h]
  BY <1>1, <1>2, <1>3 DEF Live
<1>5. \A v \in Live(value) : v \notin ValuesOf(g) => value[v].group \in Live(group')
  BY <1>4 DEF ValuesOf, MenuInv, TablesInv, JoinsAgree
<1>6. TablesInv'
  BY <1>1, <1>2, <1>4, <1>5, ValuesDropped DEF MenuInv
<1>7. QED BY <1>1, <1>6 DEF RestInv

LEMMA DeleteValueTables ==
  ASSUME MenuInv, DeleteValue
  PROVE  TablesInv' /\ RestInv'
<1>1. /\ rest' = Idle /\ UNCHANGED <<menu, group, attach>> /\ DropValues({rest.value})
  BY DEF DeleteValue
<1>2. TablesInv'
  BY <1>1, ValuesDropped DEF MenuInv, TablesInv, RowsTyped, JoinsAgree
<1>3. QED BY <1>1, <1>2 DEF RestInv

-----------------------------------------------------------------------------
(* The invariant. *)

LEMMA TablesApart ==
  ASSUME MenuInv, UNCHANGED tables
  PROVE  TablesInv' /\ (UNCHANGED rest => RestInv')
<1>1. UNCHANGED <<menu, group, value, attach>>
  BY DEF tables
<1>2. TablesInv'
  BY <1>1, DefaultsStay DEF MenuInv, TablesInv, RowsTyped, JoinsAgree
<1>3. ASSUME UNCHANGED rest PROVE RestInv'
  BY <1>1, <1>3 DEF MenuInv, RestInv, AttachedTo, DefaultsOf, ValuesOf
<1>4. QED BY <1>2, <1>3

(* The agent reads. *)
LEMMA VoiceApart ==
  ASSUME Read \/ Resume \/ Agent
  PROVE  UNCHANGED tables /\ UNCHANGED rest
<1>1. Read => UNCHANGED tables /\ UNCHANGED rest
  BY DEF Read, ReadItem, ReadGroups, ReadValues, ReadPrices, toTables
<1>2. Resume => UNCHANGED tables /\ UNCHANGED rest
  BY DEF Resume, ResumeDetail, ResumeAsk, ResumeValidate, ResumePrice, InsertOrder, toTables
<1>3. Agent => UNCHANGED tables /\ UNCHANGED rest
  BY DEF Agent, Detail, Begin, OrderAnything, OrderTalked, StartOrder, Answer, GiveUp,
         Timeout, toTables
<1>4. QED BY <1>1, <1>2, <1>3

(* A handler with one statement leaves nothing to do. *)
LEMMA NothingLeft ==
  ASSUME Edit, UNCHANGED rest
  PROVE  RestInv'
  BY DEF Edit, LoopFree, RestInv

LEMMA MenuStep ==
  ASSUME MenuInv, [Next]_vars
  PROVE  MenuInv'
<1>1. ASSUME NEW i \in Items, NEW r \in Restaurants, NEW n \in Names, NEW s \in SUBSET Items,
             CreateItem(i, r, n, s)
      PROVE  MenuInv'
  BY <1>1, CreateItemTables, NothingLeft DEF MenuInv, CreateItem
<1>2. ASSUME NEW who \in Users, NEW i \in Items,
             \/ \E n \in Names : RenameItem(who, i, n)
             \/ \E to \in BOOLEAN : ToggleAvailability(who, i, to) \/ ToggleSpecial(who, i, to)
      PROVE  MenuInv'
  <2>1. /\ i \in Live(menu) /\ Edit /\ UNCHANGED <<rest, group, value, attach>>
        /\ \/ \E n \in Names : menu' = WriteItem(i, "name", n)
           \/ \E b \in BOOLEAN : \/ menu' = WriteItem(i, "avail", b)
                                 \/ menu' = WriteItem(i, "special", b)
    BY <1>2 DEF RenameItem, ToggleAvailability, ToggleSpecial
  <2>2. QED BY <2>1, ColumnWritten, NothingLeft DEF MenuInv
<1>3. ASSUME NEW who \in Users, NEW i \in Items, NEW s \in SUBSET Items, Suggest(who, i, s)
      PROVE  MenuInv'
  BY <1>3, SuggestTables, NothingLeft DEF MenuInv, Suggest
<1>4. ASSUME NEW who \in Users, NEW i \in Items, CleanSuggestions(who, i)
      PROVE  MenuInv'
  BY <1>4, CleanTables DEF MenuInv
<1>5. ASSUME NEW who \in Users, NEW i \in Items, NEW g \in Groups,
             \/ \E over \in NewOverrides : AttachGroup(who, i, g, over)
             \/ DetachGroup(who, i, g)
      PROVE  MenuInv'
  <2>1. Edit /\ UNCHANGED rest
    BY <1>5 DEF AttachGroup, DetachGroup
  <2>2. QED BY <1>5, <2>1, AttachTables, NothingLeft DEF MenuInv
<1>6. ASSUME NEW r \in Restaurants, NEW s \in SUBSET Items, NEW to \in BOOLEAN,
             BulkAvailability(r, s, to)
      PROVE  MenuInv'
  BY <1>6, BulkTables, NothingLeft DEF MenuInv, BulkAvailability
<1>7. ASSUME NEW g \in Groups, NEW r \in Restaurants, NEW row \in NewGroups, NEW v \in Values,
             NEW d \in BOOLEAN, NEW k \in BOOLEAN, CreateGroup(g, r, row, v, d, k)
      PROVE  MenuInv'
  BY <1>7, CreateGroupTables, NothingLeft DEF MenuInv, CreateGroup
<1>8. ASSUME NEW who \in Users, NEW g \in Groups, NEW row \in NewGroups, NEW full \in BOOLEAN,
             UpdateGroup(who, g, row, full)
      PROVE  MenuInv'
  BY <1>8, UpdateGroupTables, NothingLeft DEF MenuInv, UpdateGroup
<1>9. ASSUME NEW who \in Users,
             \/ \E g \in Groups : CheckDeleteGroup(who, g)
             \/ \E v \in Values : CheckDeleteValue(who, v)
      PROVE  MenuInv'
  <2>1. UNCHANGED tables
    BY <1>9 DEF CheckDeleteGroup, CheckDeleteValue
  <2>2. \/ \E g \in Live(group) : /\ rest' = [op |-> "deleteGroup", group |-> g]
                                  /\ AttachedTo(g) = {}
        \/ \E v \in Live(value) : rest' = [op |-> "deleteValue", value |-> v]
    BY <1>9 DEF CheckDeleteGroup, CheckDeleteValue
  <2>3. RestInv'
    BY <2>1, <2>2 DEF tables, RestInv, AttachedTo
  <2>4. QED BY <2>1, <2>3, TablesApart DEF MenuInv
<1>10. ASSUME NEW who \in Users, NEW g \in Groups, NEW v \in Values,
              NEW d \in BOOLEAN, NEW a \in BOOLEAN, CreateValue(who, g, v, d, a)
       PROVE  MenuInv'
  BY <1>10, CreateValueTables DEF MenuInv
<1>11. ASSUME NEW who \in Users, NEW v \in Values, NEW d \in BOOLEAN, NEW a \in BOOLEAN,
              NEW full \in BOOLEAN, NEW delta \in NewPrices,
              UpdateValue(who, v, d, a, delta, full)
       PROVE  MenuInv'
  BY <1>11, UpdateValueTables DEF MenuInv
<1>12. ASSUME DeleteItem \/ DeleteGroup \/ WriteValue \/ DeleteValue
       PROVE  MenuInv'
  BY <1>12, DeleteItemTables, DeleteGroupTables, WriteValueTables, DeleteValueTables DEF MenuInv
<1>13. ASSUME RestFail PROVE MenuInv'
  <2>1. UNCHANGED tables /\ rest' = Idle
    BY <1>13 DEF RestFail
  <2>2. QED BY <2>1, TablesApart DEF MenuInv, RestInv
<1>14. ASSUME Read \/ Resume \/ Agent \/ UNCHANGED vars PROVE MenuInv'
  <2>1. UNCHANGED tables /\ UNCHANGED rest
    BY <1>14, VoiceApart DEF vars
  <2>2. QED BY <2>1, TablesApart DEF MenuInv
<1>15. Dashboard => MenuInv'
  BY <1>1, <1>2, <1>3, <1>4, <1>5, <1>6, <1>7, <1>8, <1>9, <1>10, <1>11, <1>12, <1>13
     DEF Dashboard
<1>16. QED BY <1>14, <1>15 DEF Next

LEMMA InitMenu ==
  ASSUME Init, RowsAgree
  PROVE  MenuInv
<1>1. RowsTyped
  BY CatalogAssumption DEF Init, RowsTyped
<1>2. RestInv
  BY DEF Init, RestInv
<1>3. QED BY <1>1, <1>2, DefaultsAgree DEF MenuInv, TablesInv, RowsAgree

(* What is told in the prompt comes from one read of rows that agree. *)
LEMMA MenuAgrees == MenuInv => RowsAgree
<1> SUFFICES ASSUME MenuInv PROVE RowsAgree
  OBVIOUS
<1>1. JoinsAgree /\ DefaultsLegal
  BY DefaultsAgree DEF MenuInv, TablesInv
<1>2. PromptAgrees
  BY LiveTypes DEF PromptAgrees, PromptMenu, OnSale, AttachedTo, MenuInv, TablesInv, Live
<1>3. QED BY <1>1, <1>2 DEF RowsAgree

(* A catalogue whose rows agree keeps agreeing: no order of the statements of *)
(* the menu handlers, of administrators and users, none of which checks again *)
(* when it writes, makes a join to a row that is gone or of another           *)
(* restaurant, a second default, or a default that cannot be had.             *)
THEOREM RowsKeepAgreeing == Spec /\ RowsAgree => []RowsAgree
<1>1. Init /\ RowsAgree => MenuInv
  BY InitMenu
<1>2. MenuInv /\ [Next]_vars => MenuInv'
  BY MenuStep
<1>3. QED BY <1>1, <1>2, MenuAgrees, PTL DEF Spec
-----------------------------------------------------------------------------
(***************************************************************************)
(* The dialogue and the order: what is read and picked while nobody edits. *)
(***************************************************************************)
PickRow  == [value : Values, qty : Nat]
Entry    == [group : Groups, picks : Seq(PickRow)]
Progress == [done : SUBSET Groups, pending : Groups \cup {Null}, mention : BOOLEAN]

VoiceTypes ==
  /\ edits \in Nat
  /\ job \in {"ask", "detail", "validate", "price"}
  /\ at = "item" => job \in {"ask", "detail"}
  /\ (at = "prices" => job = "validate") /\ (at = "insert" => job = "price")
  /\ at # "idle" \/ talk.open => item \in Items
  /\ DOMAIN sawGroups \subseteq Groups /\ DOMAIN sawValues \subseteq Values
  /\ progress \in [Items -> Progress]
  /\ args \in [completed : SUBSET Groups, mention : BOOLEAN, tries : Nat]
  /\ talk \in [picked : [Groups -> Seq(PickRow)], began : Nat, open : BOOLEAN, fresh : BOOLEAN]
  /\ talk.open => job = "ask"
  /\ talk.began <= edits
  /\ DOMAIN order = DOMAIN NoOrder
  /\ order.payload \in Seq(Entry) /\ order.began \in Nat /\ order.began <= edits

(* What a read of item i finds now. *)
GroupsOf(i) ==
  [g \in {h \in Groups : attach[<<i, h>>] # Null} |-> Effective(group[g].row, attach[<<i, g>>])]
ValuesFor(groups) ==
  [v \in {w \in Live(value) : value[w].group \in DOMAIN groups} |-> value[v]]
G == GroupsOf(item)
V == ValuesFor(G)

(* Nobody has edited the menu since the function in progress began. *)
Steady == IF job = "ask" THEN talk.began = edits ELSE order.began = edits

(* What the thread has read is what the menu says still. *)
ReadsAreCurrent ==
  Steady =>
    /\ at \in {"values", "resume"} \/ (at = "idle" /\ talk.open) => sawGroups = G
    /\ at = "resume" \/ (at = "idle" /\ talk.open) => DOMAIN G = {} \/ sawValues = V

(* The answers of a caller who is talked through the item from its start. *)
AnswersAreLegal ==
  talk.open /\ talk.fresh /\ talk.began = edits =>
    /\ \A g \in Groups : talk.picked[g] # << >> =>
         g \in Offered(G, V) /\ talk.picked[g] \in MayPick(G, V, g)
    /\ \A g \in progress[item].done \cup args.completed : talk.picked[g] \in MayPick(G, V, g)

(* Whom the dialogue has not asked it defers, and it asks of what is on offer. *)
NoneForgotten ==
  talk.open /\ at = "idle" /\ talk.began = edits =>
    IF progress[item].pending = Null
    THEN Offered(G, V) \ progress[item].done \subseteq Deferred(G, V, progress[item])
    ELSE progress[item].pending \in Offered(G, V)

Validating == job = "validate" /\ at \in {"prices", "groups", "values", "resume"}
OncePerGroup(payload) ==
  \A j, k \in DOMAIN payload : payload[j].group = payload[k].group => j = k

(* What is ordered after a dialogue says what is picked of every group offered. *)
Talked(groups, values, payload) ==
  /\ OncePerGroup(payload)
  /\ \A k \in DOMAIN payload : /\ payload[k].group \in Offered(groups, values)
                               /\ payload[k].picks \in MayPick(groups, values, payload[k].group)
                               /\ payload[k].picks # << >>
  /\ \A g \in Offered(groups, values) \ Named(payload) : << >> \in MayPick(groups, values, g)

OrderIsTalked ==
  Validating /\ order.asked /\ order.began = edits => Talked(G, V, order.payload)

TalkInv == VoiceTypes /\ ReadsAreCurrent /\ AnswersAreLegal /\ NoneForgotten /\ OrderIsTalked

-----------------------------------------------------------------------------
(* Sequences made of sets, and the operators of Customization. *)

LEMMA Smallest ==
  ASSUME NEW S \in SUBSET Nat, S # {}
  PROVE  Min(S) \in S
<1>1. PICK n \in S : \A m \in S : <<m, n>> \notin OpToRel(<, Nat)
  BY NatLessThanWellFounded, WFMin
<1>2. \A m \in S : ~(m < n)
  BY <1>1 DEF OpToRel
<1>3. \A m \in S : n <= m
  BY <1>2
<1>4. QED BY <1>3 DEF Min

LEMMA Enumerated ==
  ASSUME NEW S, IsFiniteSet(S)
  PROVE  /\ Cardinality(S) \in Nat
         /\ SetToSeq(S) \in [1..Cardinality(S) -> S]
         /\ \A j, k \in 1..Cardinality(S) : SetToSeq(S)[j] = SetToSeq(S)[k] => j = k
         /\ \A x \in S : \E k \in 1..Cardinality(S) : SetToSeq(S)[k] = x
<1> DEFINE n == Cardinality(S)
<1>1. n \in Nat /\ \E f : f \in Bijection(1..n, S)
  BY FS_CardinalityType DEF ExistsBijection
<1>2. \E f \in [1..n -> S] : IsInjective(f)
  BY <1>1 DEF Bijection, Injection
<1>3. SetToSeq(S) \in [1..n -> S] /\ IsInjective(SetToSeq(S))
  BY <1>2 DEF SetToSeq
<1>4. SetToSeq(S) \in Injection(1..n, S)
  BY <1>3 DEF Injection
<1>5. IsFiniteSet(1..n) /\ Cardinality(1..n) = n
  BY <1>1, FS_Interval
<1>6. SetToSeq(S) \in Surjection(1..n, S)
  BY <1>4, <1>5, FS_Injection
<1>7. QED BY <1>1, <1>3, <1>6 DEF Surjection, IsInjective

LEMMA PicksOnce ==
  ASSUME NEW payload, OncePerGroup(payload)
  PROVE  /\ \A k \in DOMAIN payload : PicksOf(payload, payload[k].group) = payload[k].picks
         /\ \A g : g \notin Named(payload) => PicksOf(payload, g) = << >>
<1>1. ASSUME NEW k \in DOMAIN payload
      PROVE  PicksOf(payload, payload[k].group) = payload[k].picks
  <2>1. {j \in DOMAIN payload : payload[j].group = payload[k].group} = {k}
    BY DEF OncePerGroup
  <2>2. \A x : x >= x => Max({x}) = x
    BY DEF Max
  <2>3. Max({k}) = k
    BY DEF Max
  <2>4. QED BY <2>1, <2>3 DEF PicksOf, Named
<1>2. QED BY <1>1 DEF PicksOf

(* What MayPick lets a caller say of a group. *)
LEMMA PickedLegally ==
  ASSUME NEW groups, NEW values, NEW g, NEW picks \in MayPick(groups, values, g),
         IsFiniteSet(OnOffer(values, g))
  PROVE  \E n \in Nat :
           /\ picks \in [1..n -> [value : OnOffer(values, g), qty : 1..2]]
           /\ \A k \in 1..n : /\ picks[k].qty > 1 => groups[g].many
                              /\ AtMost(picks[k].qty, groups[g].cap)
           /\ groups[g].single => n <= 1
           /\ AtMost(n, groups[g].max)
           /\ \/ n >= groups[g].min /\ (groups[g].required => n >= 1)
              \/ n = 0 /\ TakesDefault(groups, values, g)
<1>1. Cardinality(OnOffer(values, g)) \in Nat
  BY FS_CardinalityType
<1> DEFINE qtys == {q \in 1..2 : (q > 1 => groups[g].many) /\ AtMost(q, groups[g].cap)}
<1>2. PICK n \in 0..Cardinality(OnOffer(values, g)) :
        /\ picks \in [1..n -> [value : OnOffer(values, g), qty : qtys]]
        /\ groups[g].single => n <= 1
        /\ AtMost(n, groups[g].max)
        /\ \/ n >= groups[g].min /\ (groups[g].required => n >= 1)
           \/ n = 0 /\ TakesDefault(groups, values, g)
  BY DEF MayPick
<1>3. n \in Nat
  BY <1>1, <1>2
<1>4. \A k \in 1..n : picks[k] \in [value : OnOffer(values, g), qty : qtys]
  BY <1>2
<1>5. picks \in [1..n -> [value : OnOffer(values, g), qty : 1..2]]
  BY <1>2
<1>6. \A k \in 1..n : /\ picks[k].qty > 1 => groups[g].many
                      /\ AtMost(picks[k].qty, groups[g].cap)
  BY <1>4
<1>7. QED BY <1>2, <1>3, <1>5, <1>6

LEMMA NothingPicked ==
  ASSUME NEW groups, NEW values, NEW g, << >> \in MayPick(groups, values, g),
         IsFiniteSet(OnOffer(values, g)), groups[g].min \in Nat
  PROVE  TakesDefault(groups, values, g) \/ (~(groups[g].min > 0) /\ ~groups[g].required)
<1>1. PICK n \in Nat :
        /\ << >> \in [1..n -> [value : OnOffer(values, g), qty : 1..2]]
        /\ \/ n >= groups[g].min /\ (groups[g].required => n >= 1)
           \/ n = 0 /\ TakesDefault(groups, values, g)
  BY PickedLegally
<1>2. n = 0
  BY <1>1
<1>3. \/ 0 >= groups[g].min /\ ~groups[g].required
      \/ TakesDefault(groups, values, g)
  BY <1>1, <1>2
<1>4. QED BY <1>3

(* What the caller was told he may pick has no issues. *)
LEMMA LegalIsAccepted ==
  ASSUME NEW groups, NEW values, NEW g \in Offered(groups, values),
         NEW picks \in MayPick(groups, values, g), picks # << >>,
         groups[g].min \in Nat, IsFiniteSet(OnOffer(values, g))
  PROVE  SelectionIssues(groups, values, g, picks) = {}
<1>1. PICK n \in Nat :
        /\ picks \in [1..n -> [value : OnOffer(values, g), qty : 1..2]]
        /\ \A k \in 1..n : /\ picks[k].qty > 1 => groups[g].many
                           /\ AtMost(picks[k].qty, groups[g].cap)
        /\ groups[g].single => n <= 1
        /\ AtMost(n, groups[g].max)
        /\ \/ n >= groups[g].min /\ (groups[g].required => n >= 1)
           \/ n = 0 /\ TakesDefault(groups, values, g)
  BY PickedLegally
<1>2. Len(picks) = n /\ DOMAIN picks = 1..n
  BY <1>1
<1>3. n # 0
  BY <1>1
<1>4. g \in DOMAIN groups /\ groups[g].avail
  BY DEF Offered
<1>5. ASSUME NEW k \in 1..n
      PROVE  PickIssues(groups[g], g, values, picks[k]) = {}
  <2>1. picks[k].value \in DOMAIN values /\ values[picks[k].value].group = g
        /\ values[picks[k].value].avail
    BY <1>1 DEF OnOffer
  <2>2. QED BY <1>1, <2>1 DEF PickIssues, PickFaults
<1>6. /\ ~((groups[g].single /\ n > 1) \/ ~AtMost(n, groups[g].max))
      /\ ~(n < groups[g].min)
  BY <1>1, <1>3
<1>7. QED BY <1>2, <1>4, <1>5, <1>6 DEF SelectionIssues

LEMMA NoEntries ==
  ASSUME NEW payload \in Seq(Entry), DOMAIN payload = {}
  PROVE  payload = << >>
  OBVIOUS

(* The validator refuses what was talked through for the stranded groups only. *)
LEMMA TalkedIsAccepted ==
  ASSUME NEW groups, NEW values, NEW payload \in Seq(Entry), Talked(groups, values, payload),
         \A g \in DOMAIN groups : groups[g].min \in Nat /\ IsFiniteSet(OnOffer(values, g))
  PROVE  Issues(groups, values, payload) # {} <=>
           \E g \in DOMAIN groups : /\ groups[g].avail /\ OnOffer(values, g) = {}
                                    /\ groups[g].min > 0 \/ groups[g].required
<1>1. Offered(groups, values) \subseteq DOMAIN groups
  BY DEF Offered
<1>2. CASE DOMAIN groups = {}
  <2>1. DOMAIN payload = {}
    BY <1>1, <1>2 DEF Talked
  <2>2. payload = << >>
    BY <2>1
  <2>3. QED BY <1>2, <2>2 DEF Issues
<1>3. CASE DOMAIN groups # {}
  <2> DEFINE Lost(g) == /\ groups[g].avail /\ OnOffer(values, g) = {}
                        /\ groups[g].min > 0 \/ groups[g].required
             Missing == {g \in Unanswered(groups, payload) : ~TakesDefault(groups, values, g)}
  <2>1. ASSUME NEW g \in Named(payload)
        PROVE  /\ SelectionIssues(groups, values, g, PicksOf(payload, g)) = {}
               /\ g \in Offered(groups, values) /\ PicksOf(payload, g) # << >>
    <3>1. PICK k \in DOMAIN payload : payload[k].group = g
      BY DEF Named
    <3>2. PicksOf(payload, g) = payload[k].picks
      BY <3>1, PicksOnce DEF Talked
    <3>3. g \in Offered(groups, values) /\ payload[k].picks \in MayPick(groups, values, g)
          /\ payload[k].picks # << >>
      BY <3>1 DEF Talked
    <3>4. QED BY <1>1, <3>2, <3>3, LegalIsAccepted
  <2>2. ASSUME NEW g \in DOMAIN groups, g \in Offered(groups, values), g \notin Named(payload)
        PROVE  TakesDefault(groups, values, g) \/ Missed(groups[g]) = {}
    <3>1. << >> \in MayPick(groups, values, g)
      BY <2>2 DEF Talked
    <3>2. TakesDefault(groups, values, g) \/ (~(groups[g].min > 0) /\ ~groups[g].required)
      BY <2>2, <3>1, NothingPicked
    <3>3. QED BY <3>2 DEF Missed
  <2>3. ASSUME NEW g \in DOMAIN groups, OnOffer(values, g) = {}
        PROVE  ~TakesDefault(groups, values, g)
    BY <2>3 DEF OnOffer, Defaults, TakesDefault
  <2>4. \A g \in DOMAIN groups :
          g \in Unanswered(groups, payload) <=> groups[g].avail /\ g \notin Named(payload)
    BY <2>1, PicksOnce DEF Unanswered, Talked
  <2>5. \A g \in Missing : Missed(groups[g]) # {} => Lost(g)
    <3>1. ASSUME NEW g \in Missing, Missed(groups[g]) # {} PROVE Lost(g)
      <4>1. g \in DOMAIN groups /\ groups[g].avail /\ g \notin Named(payload)
        BY <2>4 DEF Unanswered
      <4>2. g \notin Offered(groups, values)
        BY <2>2, <3>1, <4>1
      <4>3. OnOffer(values, g) = {}
        BY <4>1, <4>2 DEF Offered
      <4>4. groups[g].min > 0 \/ groups[g].required
        BY <3>1 DEF Missed
      <4>5. QED BY <4>1, <4>3, <4>4
    <3>2. QED BY <3>1
  <2>6. \A g \in DOMAIN groups : Lost(g) => g \in Missing /\ Missed(groups[g]) # {}
    <3>1. ASSUME NEW g \in DOMAIN groups, Lost(g) PROVE g \in Missing /\ Missed(groups[g]) # {}
      <4>1. g \notin Offered(groups, values)
        BY <3>1 DEF Offered
      <4>2. g \in Unanswered(groups, payload)
        BY <2>1, <2>4, <3>1, <4>1 DEF Unanswered
      <4>3. Missed(groups[g]) # {}
        BY <3>1 DEF Missed
      <4>4. QED BY <2>3, <3>1, <4>2, <4>3
    <3>2. QED BY <3>1
  <2>7. MissingIssues(groups, values, payload) = UNION {Missed(groups[g]) : g \in Missing}
    BY DEF MissingIssues
  <2>8. Issues(groups, values, payload) = MissingIssues(groups, values, payload)
    <3> DEFINE told == {SelectionIssues(groups, values, g, PicksOf(payload, g)) : g \in Named(payload)}
    <3>1. \A x \in told : x = {}
      BY <2>1
    <3> HIDE DEF told
    <3>2. \A x : x \notin UNION told
      BY <3>1
    <3>3. Issues(groups, values, payload) = (UNION told) \cup MissingIssues(groups, values, payload)
      BY <1>3 DEF Issues, told
    <3>4. QED BY <3>2, <3>3
  <2>9. Unanswered(groups, payload) \subseteq DOMAIN groups
    BY DEF Unanswered
  <2> HIDE DEF Missing
  <2>10. Issues(groups, values, payload) # {} <=> \E g \in Missing : Missed(groups[g]) # {}
    <3>1. \A S : (\E x : x \in UNION {Missed(groups[g]) : g \in S})
                   <=> \E g \in S : \E x : x \in Missed(groups[g])
      OBVIOUS
    <3>2. \A S : S # {} <=> \E x : x \in S
      OBVIOUS
    <3>3. QED BY <2>7, <2>8, <3>1, <3>2
  <2>11. Missing \subseteq DOMAIN groups
    BY <2>9 DEF Missing
  <2>12. QED BY <2>5, <2>6, <2>10, <2>11
<1>4. QED BY <1>2, <1>3

(* The payload of a dialogue has one entry for each group that is picked from. *)
LEMMA EntriesListed ==
  ASSUME NEW picked \in [Groups -> Seq(PickRow)]
  PROVE  /\ Entries(picked) \in Seq(Entry)
         /\ OncePerGroup(Entries(picked))
         /\ \A k \in DOMAIN Entries(picked) :
              /\ Entries(picked)[k].group \in Groups
              /\ Entries(picked)[k].picks = picked[Entries(picked)[k].group]
              /\ Entries(picked)[k].picks # << >>
         /\ \A g \in Groups : picked[g] # << >> => g \in Named(Entries(picked))
<1> DEFINE named == {g \in Groups : picked[g] # << >>}
           n     == Cardinality(named)
           names == SetToSeq(named)
<1>1. IsFiniteSet(named)
  BY CatalogAssumption, FS_Subset
<1> HIDE DEF named
<1>2. /\ n \in Nat /\ names \in [1..n -> named]
      /\ \A j, k \in 1..n : names[j] = names[k] => j = k
      /\ \A x \in named : \E k \in 1..n : names[k] = x
  BY <1>1, Enumerated
<1> HIDE DEF n, names
<1>3. named \subseteq Groups /\ \A g \in named : picked[g] # << >>
  BY DEF named
<1>4. Entries(picked) = [k \in 1..n |-> [group |-> names[k], picks |-> picked[names[k]]]]
  BY DEF Entries, named, n, names
<1> DEFINE e == [k \in 1..n |-> [group |-> names[k], picks |-> picked[names[k]]]]
<1>5. \A k \in 1..n : names[k] \in named /\ e[k].group = names[k] /\ e[k].picks = picked[names[k]]
  BY <1>2
<1>6. e \in Seq(Entry)
  <2>1. \A k \in 1..n : e[k] \in Entry
    BY <1>3, <1>5 DEF Entry
  <2>2. e \in [1..n -> Entry]
    BY <2>1
  <2>3. QED BY <1>2, <2>2
<1>7. DOMAIN e = 1..n
  OBVIOUS
<1>8. \A g \in Groups : picked[g] # << >> => g \in Named(e)
  <2>1. ASSUME NEW g \in Groups, picked[g] # << >> PROVE g \in Named(e)
    <3>1. g \in named
      BY <2>1 DEF named
    <3>2. PICK k \in 1..n : names[k] = g
      BY <1>2, <3>1
    <3>3. e[k].group = g /\ k \in DOMAIN e
      BY <1>5, <1>7, <3>2
    <3> HIDE DEF e
    <3>4. QED BY <3>3 DEF Named
  <2>2. QED BY <2>1
<1>9. OncePerGroup(e)
  BY <1>2, <1>5, <1>7 DEF OncePerGroup
<1> HIDE DEF e
<1>10. Entries(picked) = e
  BY <1>4 DEF e
<1>11. QED BY <1>3, <1>5, <1>6, <1>7, <1>8, <1>9, <1>10

(* Normalizing adds the defaults of single-select groups to the payload. *)
LEMMA DefaultsTaken ==
  ASSUME NEW groups, NEW values, DOMAIN groups \subseteq Groups, DOMAIN values \subseteq Values,
         NEW payload \in Seq(Entry)
  PROVE  /\ Normalized(groups, values, payload) \in Seq(Entry)
         /\ \A k \in DOMAIN Normalized(groups, values, payload) :
              LET entry == Normalized(groups, values, payload)[k] IN
              \/ k \in DOMAIN payload /\ entry = payload[k]
              \/ \E g \in DOMAIN groups : \E v \in Defaults(values, g) :
                   entry = [group |-> g, picks |-> <<[value |-> v, qty |-> 1]>>]
<1> DEFINE taken == Taken(groups, values, payload)
           n     == Cardinality(taken)
           names == SetToSeq(taken)
           added == [k \in 1..n |->
                       [group |-> names[k],
                        picks |-> <<[value |-> Min(Defaults(values, names[k])), qty |-> 1]>>]]
<1>1. taken \subseteq DOMAIN groups /\ \A g \in taken : Defaults(values, g) # {}
  BY DEF Taken, Unanswered, TakesDefault
<1>2. IsFiniteSet(taken)
  BY <1>1, CatalogAssumption, FS_Subset
<1> HIDE DEF taken
<1>3. n \in Nat /\ names \in [1..n -> taken]
  BY <1>2, Enumerated
<1> HIDE DEF n, names
<1>4. ASSUME NEW g \in taken PROVE Min(Defaults(values, g)) \in Defaults(values, g)
  <2>1. Defaults(values, g) \subseteq Nat
    BY CatalogAssumption DEF Defaults
  <2>2. QED BY <1>1, <2>1, Smallest
<1>5. ASSUME NEW k \in 1..n
      PROVE  /\ names[k] \in DOMAIN groups
             /\ Min(Defaults(values, names[k])) \in Defaults(values, names[k])
             /\ Min(Defaults(values, names[k])) \in Values
             /\ added[k] \in Entry
  <2>1. names[k] \in taken
    BY <1>3
  <2>2. Min(Defaults(values, names[k])) \in Defaults(values, names[k])
    BY <1>4, <2>1
  <2>3. Min(Defaults(values, names[k])) \in Values /\ names[k] \in DOMAIN groups
    BY <1>1, <2>1, <2>2 DEF Defaults
  <2>4. <<[value |-> Min(Defaults(values, names[k])), qty |-> 1]>> \in Seq(PickRow)
    BY <2>3 DEF PickRow
  <2>5. added[k] \in Entry
    BY <2>3, <2>4 DEF Entry
  <2>6. QED BY <2>2, <2>3, <2>5
<1>6. added \in Seq(Entry) /\ Len(added) = n
  <2>1. added \in [1..n -> Entry]
    BY <1>5
  <2> HIDE DEF added
  <2>2. QED BY <1>3, <2>1
<1>7. Normalized(groups, values, payload) = payload \o added
  BY DEF Normalized, taken, n, names
<1>8. \A k \in 1..n : \E g \in DOMAIN groups : \E v \in Defaults(values, g) :
        added[k] = [group |-> g, picks |-> <<[value |-> v, qty |-> 1]>>]
  BY <1>5
<1> HIDE DEF added
<1>9. payload \o added \in Seq(Entry)
  BY <1>6
<1>10. ASSUME NEW k \in DOMAIN (payload \o added)
       PROVE  \/ k \in DOMAIN payload /\ (payload \o added)[k] = payload[k]
              \/ \E j \in 1..n : (payload \o added)[k] = added[j]
  <2>1. /\ Len(payload) \in Nat /\ DOMAIN payload = 1..Len(payload)
        /\ DOMAIN (payload \o added) = 1..(Len(payload) + n)
        /\ \A i \in 1..(Len(payload) + n) :
             (payload \o added)[i] = IF i <= Len(payload) THEN payload[i] ELSE added[i - Len(payload)]
    BY <1>3, <1>6
  <2>2. CASE k <= Len(payload)
    BY <2>1, <2>2
  <2>3. CASE ~(k <= Len(payload))
    <3>1. k - Len(payload) \in 1..n
      BY <1>3, <2>1, <2>3
    <3>2. QED BY <2>1, <2>3, <3>1
  <2>4. QED BY <2>2, <2>3
<1>11. QED BY <1>7, <1>8, <1>9, <1>10

-----------------------------------------------------------------------------
(* The menu as it is read. *)

LEMMA MenuRead ==
  ASSUME MenuInv, NEW i \in Items
  PROVE  /\ DOMAIN GroupsOf(i) \subseteq Groups
         /\ \A g \in DOMAIN GroupsOf(i) : GroupsOf(i)[g].min \in Nat
         /\ \A groups : DOMAIN ValuesFor(groups) \subseteq Values
<1>1. RowsTyped /\ JoinsAgree
  BY DEF MenuInv, TablesInv
<1>2. ASSUME NEW g \in DOMAIN GroupsOf(i) PROVE GroupsOf(i)[g].min \in Nat
  <2>1. g \in Groups /\ attach[<<i, g>>] # Null
    BY <1>2 DEF GroupsOf
  <2>2. g \in Live(group) /\ attach[<<i, g>>] \in Override
    BY <1>1, <2>1 DEF JoinsAgree, RowsTyped
  <2>3. group[g] \in Group
    BY <1>1, <2>2, LiveTypes
  <2>4. group[g].row \in GroupRow(Limits)
    BY <2>3 DEF Group
  <2>5. /\ group[g].row.min \in Limits
        /\ attach[<<i, g>>].min \in Limits \cup {Null}
    BY <2>2, <2>4 DEF GroupRow, Override
  <2>6. GroupsOf(i)[g] = Effective(group[g].row, attach[<<i, g>>])
    BY <2>1 DEF GroupsOf
  <2>7. Effective(group[g].row, attach[<<i, g>>]).min
          = IF attach[<<i, g>>].min = Null THEN group[g].row.min ELSE attach[<<i, g>>].min
    BY <2>4 DEF Effective, GroupRow
  <2>8. QED BY <2>5, <2>6, <2>7, CatalogAssumption
<1>3. \A groups : DOMAIN ValuesFor(groups) \subseteq Values
  BY <1>1, LiveTypes DEF ValuesFor
<1>4. QED BY <1>2, <1>3 DEF GroupsOf

LEMMA OffersFinite ==
  ASSUME NEW values, DOMAIN values \subseteq Values, NEW g
  PROVE  IsFiniteSet(OnOffer(values, g)) /\ OnOffer(values, g) \subseteq Values
<1>1. OnOffer(values, g) \subseteq Values
  BY DEF OnOffer
<1>2. QED BY <1>1, CatalogAssumption, FS_Subset

LEMMA SameMenu ==
  ASSUME UNCHANGED tables, UNCHANGED item
  PROVE  G' = G /\ V' = V
<1>1. UNCHANGED <<menu, group, value, attach>>
  BY DEF tables
<1>2. G' = G
  BY <1>1 DEF G, GroupsOf
<1>3. QED BY <1>1, <1>2 DEF V, ValuesFor, Live

LEMMA PicksTyped ==
  ASSUME NEW groups, NEW values, DOMAIN values \subseteq Values, NEW g,
         NEW picks \in MayPick(groups, values, g)
  PROVE  picks \in Seq(PickRow)
<1>1. PICK n \in Nat : picks \in [1..n -> [value : OnOffer(values, g), qty : 1..2]]
  BY OffersFinite, PickedLegally
<1>2. [value : OnOffer(values, g), qty : 1..2] \subseteq PickRow
  BY OffersFinite DEF PickRow
<1>3. picks \in [1..n -> PickRow]
  BY <1>1, <1>2
<1>4. QED BY <1>3

-----------------------------------------------------------------------------
(* The dialogue, step by step. *)

(* An edit counts, or changes nothing; the agent is not touched by it. *)
LEMMA EditsCount ==
  ASSUME Dashboard
  PROVE  /\ UNCHANGED <<reads, progress, begun, talk, order>>
         /\ edits' = edits + 1 \/ UNCHANGED <<tables, edits>>
<1>1. CASE \/ \E i \in Items, r \in Restaurants, n \in Names, s \in SUBSET Items : CreateItem(i, r, n, s)
           \/ \E r \in Restaurants, s \in SUBSET Items, to \in BOOLEAN : BulkAvailability(r, s, to)
           \/ \E g \in Groups, r \in Restaurants, row \in NewGroups, v \in Values, d, k \in BOOLEAN :
                CreateGroup(g, r, row, v, d, k)
  BY <1>1 DEF CreateItem, BulkAvailability, CreateGroup, Counted, voice
<1>2. ASSUME NEW who \in Users, NEW i \in Items,
             \/ \E n \in Names : RenameItem(who, i, n)
             \/ \E s \in SUBSET Items : Suggest(who, i, s)
             \/ \E to \in BOOLEAN : ToggleAvailability(who, i, to) \/ ToggleSpecial(who, i, to)
             \/ CleanSuggestions(who, i)
             \/ \E g \in Groups : \/ \E over \in NewOverrides : AttachGroup(who, i, g, over)
                                  \/ DetachGroup(who, i, g)
      PROVE  Counted
  BY <1>2 DEF RenameItem, Suggest, ToggleAvailability, ToggleSpecial, CleanSuggestions,
              AttachGroup, DetachGroup
<1>3. ASSUME NEW who \in Users,
             \/ \E g \in Groups :
                  \/ \E row \in NewGroups, full \in BOOLEAN : UpdateGroup(who, g, row, full)
                  \/ CheckDeleteGroup(who, g)
                  \/ \E v \in Values, d, a \in BOOLEAN : CreateValue(who, g, v, d, a)
             \/ \E v \in Values : CheckDeleteValue(who, v)
      PROVE  Counted
  BY <1>3 DEF UpdateGroup, CheckDeleteGroup, CreateValue, CheckDeleteValue
<1>4. ASSUME NEW who \in Users, NEW v \in Values, NEW d \in BOOLEAN, NEW a \in BOOLEAN,
             NEW full \in BOOLEAN, NEW delta \in NewPrices, UpdateValue(who, v, d, a, delta, full)
      PROVE  Counted
  BY <1>4 DEF UpdateValue
<1>5. CASE DeleteItem \/ DeleteGroup \/ WriteValue \/ DeleteValue \/ RestFail
  BY <1>5 DEF DeleteItem, DeleteGroup, WriteValue, DeleteValue, RestFail, DropValues, Counted, voice
<1>6. Counted => UNCHANGED <<reads, progress, begun, talk, order>> /\ edits' = edits + 1
  BY DEF Counted, voice
<1>7. QED BY <1>1, <1>2, <1>3, <1>4, <1>5, <1>6 DEF Dashboard

LEMMA EditTalk ==
  ASSUME MenuInv, TalkInv, Dashboard \/ UNCHANGED vars
  PROVE  TalkInv'
<1>1. /\ UNCHANGED <<at, job, item, sawGroups, sawValues, args, progress, talk, order>>
      /\ edits' = edits + 1 \/ UNCHANGED <<tables, edits>>
  BY EditsCount DEF reads, vars, voice
<1>2. VoiceTypes'
  BY <1>1 DEF TalkInv, VoiceTypes
<1>3. CASE edits' = edits + 1
  <2>1. talk'.began < edits' /\ order'.began < edits'
    BY <1>1, <1>3 DEF TalkInv, VoiceTypes
  <2>2. talk'.began # edits' /\ order'.began # edits'
    BY <1>1, <1>3, <2>1 DEF TalkInv, VoiceTypes
  <2>3. QED BY <1>2, <2>2 DEF TalkInv, ReadsAreCurrent, Steady, AnswersAreLegal, NoneForgotten, OrderIsTalked
<1>4. CASE UNCHANGED <<tables, edits>>
  <2>1. G' = G /\ V' = V
    BY <1>1, <1>4, SameMenu
  <2>2. ReadsAreCurrent'
    BY <1>1, <1>4, <2>1 DEF TalkInv, ReadsAreCurrent, Steady
  <2>3. AnswersAreLegal'
    BY <1>1, <1>4, <2>1 DEF TalkInv, AnswersAreLegal
  <2>4. NoneForgotten'
    BY <1>1, <1>4, <2>1 DEF TalkInv, NoneForgotten
  <2>5. OrderIsTalked'
    BY <1>1, <1>4, <2>1 DEF TalkInv, OrderIsTalked, Validating
  <2>6. QED BY <1>2, <2>2, <2>3, <2>4, <2>5 DEF TalkInv
<1>5. QED BY <1>1, <1>3, <1>4

LEMMA BeginTalk ==
  ASSUME TalkInv, NEW i \in Items, NEW mention \in BOOLEAN, NEW reset \in BOOLEAN,
         Begin(i, mention, reset)
  PROVE  TalkInv'
<1>1. /\ at' = "item" /\ job' = "ask" /\ item' = i /\ sawGroups' = << >> /\ sawValues' = << >>
      /\ args' = [completed |-> {}, mention |-> mention, tries |-> 0]
      /\ progress' = IF reset THEN [progress EXCEPT ![i] = NoProgress] ELSE progress
      /\ talk' = [picked |-> NoPicks, began |-> edits, open |-> TRUE, fresh |-> progress'[i] = NoProgress]
      /\ UNCHANGED <<edits, order>>
  BY DEF Begin, StartRead
<1>2. NoProgress \in Progress
  BY DEF NoProgress, Progress
<1>3. NoPicks \in [Groups -> Seq(PickRow)] /\ \A g \in Groups : NoPicks[g] = << >>
  BY DEF NoPicks
<1>4. VoiceTypes'
  <2>1. progress' \in [Items -> Progress]
    BY <1>1, <1>2 DEF TalkInv, VoiceTypes
  <2>2. talk' \in [picked : [Groups -> Seq(PickRow)], began : Nat, open : BOOLEAN, fresh : BOOLEAN]
    BY <1>1, <1>3 DEF TalkInv, VoiceTypes
  <2>3. args' \in [completed : SUBSET Groups, mention : BOOLEAN, tries : Nat]
    BY <1>1
  <2>4. talk'.began <= edits'
    BY <1>1 DEF TalkInv, VoiceTypes
  <2>5. QED BY <1>1, <2>1, <2>2, <2>3, <2>4 DEF TalkInv, VoiceTypes
<1>5. AnswersAreLegal'
  <2>1. \A g \in Groups : talk'.picked[g] = << >>
    BY <1>1, <1>3
  <2>2. talk'.fresh => progress'[item'].done \cup args'.completed = {}
    <3>1. talk'.fresh => progress'[i] = NoProgress
      BY <1>1
    <3>2. item' = i /\ args'.completed = {} /\ NoProgress.done = {}
      BY <1>1 DEF NoProgress
    <3>3. QED BY <3>1, <3>2
  <2>3. QED BY <2>1, <2>2 DEF AnswersAreLegal
<1>6. ReadsAreCurrent' /\ NoneForgotten' /\ OrderIsTalked'
  BY <1>1 DEF ReadsAreCurrent, NoneForgotten, OrderIsTalked, Validating
<1>7. QED BY <1>4, <1>5, <1>6 DEF TalkInv

(* Another function of the agent begins, while no dialogue is open. *)
LEMMA OtherCall ==
  ASSUME TalkInv, NEW i \in Items,
         Detail(i) \/ \E payload \in Payloads : OrderAnything(i, payload)
  PROVE  TalkInv'
<1>1. /\ edits \in Nat /\ DOMAIN order = DOMAIN NoOrder /\ order.payload \in Seq(Entry)
      /\ order.began \in Nat /\ order.began <= edits
  BY DEF TalkInv, VoiceTypes
<1>2. /\ (at' = "item" /\ job' = "detail") \/ (at' = "prices" /\ job' = "validate")
      /\ UNCHANGED <<edits, args, progress, talk>> /\ ~talk.open
      /\ item' \in Items /\ DOMAIN sawGroups' = {} /\ DOMAIN sawValues' = {}
  <2>1. CASE Detail(i)
    BY <2>1 DEF Detail, NewCall, StartRead
  <2>2. ASSUME NEW payload \in Payloads, OrderAnything(i, payload)
        PROVE  /\ at' = "prices" /\ job' = "validate" /\ item' = i /\ ~talk.open
               /\ sawGroups' = << >> /\ sawValues' = << >> /\ UNCHANGED <<edits, args, progress, talk>>
    BY <2>2 DEF OrderAnything, NewCall, StartOrder, StartRead
  <2>3. QED BY <2>1, <2>2
<1>3. /\ DOMAIN order' = DOMAIN NoOrder /\ order'.payload \in Seq(Entry)
      /\ order'.began \in Nat /\ order'.began <= edits
      /\ job' = "validate" => ~order'.asked
  <2>1. CASE Detail(i)
    <3>1. order' = order /\ job' = "detail"
      BY <2>1 DEF Detail, StartRead
    <3>2. QED BY <1>1, <3>1
  <2>2. ASSUME NEW payload \in Payloads, OrderAnything(i, payload)
        PROVE  /\ DOMAIN order' = DOMAIN NoOrder /\ order'.payload \in Seq(Entry)
               /\ order'.began \in Nat /\ order'.began <= edits
               /\ job' = "validate" => ~order'.asked
    <3>1. payload \in Seq(Entry)
      BY PayloadsAssumption DEF Entry, PickRow
    <3>2. order' = [NoOrder EXCEPT !.payload = payload, !.began = edits, !.asked = FALSE]
      BY <2>2 DEF OrderAnything, StartOrder
    <3>3. /\ DOMAIN order' = DOMAIN NoOrder /\ order'.payload = payload
          /\ order'.began = edits /\ ~order'.asked
      BY <3>2 DEF NoOrder
    <3>4. QED BY <1>1, <3>1, <3>3
  <2>3. QED BY <2>1, <2>2
<1>4. VoiceTypes'
  BY <1>2, <1>3 DEF TalkInv, VoiceTypes
<1>5. QED BY <1>2, <1>3, <1>4
          DEF TalkInv, ReadsAreCurrent, AnswersAreLegal, NoneForgotten, OrderIsTalked, Validating

LEMMA AnswerTalk ==
  ASSUME MenuInv, TalkInv, NEW mention \in BOOLEAN, Answer(mention)
  PROVE  TalkInv'
<1> DEFINE P == progress[item].pending
<1>1. /\ at = "idle" /\ talk.open /\ P # Null
      /\ args' = [completed |-> {P}, mention |-> mention, tries |-> 0]
      /\ at' = "item" /\ job' = "ask"
      /\ UNCHANGED <<tables, edits, item, sawGroups, sawValues, progress, order>>
  BY DEF Answer, Pending, toTables
<1>2. PICK picks \in MayPick(sawGroups, sawValues, P) : talk' = [talk EXCEPT !.picked[P] = picks]
  BY DEF Answer, Pending
<1>3. item \in Items /\ P \in Groups /\ progress[item].done \subseteq Groups
  BY <1>1 DEF TalkInv, VoiceTypes, Progress
<1>4. picks \in Seq(PickRow)
  BY <1>2, PicksTyped DEF TalkInv, VoiceTypes
<1>5. /\ talk' \in [picked : [Groups -> Seq(PickRow)], began : Nat, open : BOOLEAN, fresh : BOOLEAN]
      /\ talk'.picked = [talk.picked EXCEPT ![P] = picks]
      /\ talk'.began = talk.began /\ talk'.open = talk.open /\ talk'.fresh = talk.fresh
  BY <1>2, <1>3, <1>4 DEF TalkInv, VoiceTypes
<1> HIDE DEF P
<1>6. VoiceTypes'
  BY <1>1, <1>3, <1>5 DEF TalkInv, VoiceTypes
<1>7. AnswersAreLegal'
  <2> SUFFICES ASSUME talk'.open, talk'.fresh, talk'.began = edits'
               PROVE  /\ \A g \in Groups : talk'.picked[g] # << >> =>
                           g \in Offered(G, V) /\ talk'.picked[g] \in MayPick(G, V, g)
                      /\ \A g \in progress[item].done \cup {P} : talk'.picked[g] \in MayPick(G, V, g)
    <3>1. G' = G /\ V' = V
      BY <1>1, SameMenu
    <3>2. QED BY <1>1, <3>1 DEF AnswersAreLegal
  <2>1. /\ \A g \in Groups : talk.picked[g] # << >> =>
             g \in Offered(G, V) /\ talk.picked[g] \in MayPick(G, V, g)
        /\ \A g \in progress[item].done : talk.picked[g] \in MayPick(G, V, g)
    BY <1>1, <1>5 DEF TalkInv, AnswersAreLegal
  <2>2. P \in Offered(G, V)
    BY <1>1, <1>5 DEF TalkInv, NoneForgotten, P
  <2>3. sawGroups = G /\ (DOMAIN G = {} \/ sawValues = V)
    BY <1>1, <1>5 DEF TalkInv, ReadsAreCurrent, Steady, VoiceTypes
  <2>4. sawValues = V
    BY <2>2, <2>3 DEF Offered
  <2>5. picks \in MayPick(G, V, P)
    BY <1>2, <2>3, <2>4
  <2>6. \A g \in Groups : talk'.picked[g] = IF g = P THEN picks ELSE talk.picked[g]
    BY <1>5 DEF TalkInv, VoiceTypes
  <2>7. QED BY <1>3, <2>1, <2>2, <2>5, <2>6
<1>8. ReadsAreCurrent' /\ NoneForgotten' /\ OrderIsTalked'
  BY <1>1 DEF ReadsAreCurrent, NoneForgotten, OrderIsTalked, Validating
<1>9. QED BY <1>6, <1>7, <1>8 DEF TalkInv

(* The dialogue is given up, or lost, or abandoned: nothing is promised of it. *)
LEMMA NoTalkLeft ==
  ASSUME TalkInv, talk' = NoTalk, UNCHANGED <<tables, edits, item, sawGroups, sawValues, args, order>>,
         progress' \in [Items -> Progress], at' = "idle", job' \in {"ask", "detail", "validate", "price"}
  PROVE  TalkInv'
<1>1. /\ NoTalk \in [picked : [Groups -> Seq(PickRow)], began : Nat, open : BOOLEAN, fresh : BOOLEAN]
      /\ NoTalk.began = 0 /\ ~NoTalk.open
  BY DEF NoTalk, NoPicks
<1>2. VoiceTypes'
  BY <1>1 DEF TalkInv, VoiceTypes
<1>3. QED BY <1>1, <1>2 DEF TalkInv, ReadsAreCurrent, AnswersAreLegal, NoneForgotten, OrderIsTalked, Validating

(* What Advance leaves of the progress. *)
AdvancedTo(groups, values, now, completed, next) ==
  /\ next \in Progress
  /\ next.done = (now.done \cup completed) \cap Offered(groups, values)
  /\ IF next.pending = Null
     THEN Offered(groups, values) \ next.done \subseteq Deferred(groups, values, next)
     ELSE next.pending \in Offered(groups, values)

LEMMA Advanced ==
  ASSUME NEW groups, NEW values, NEW now \in Progress, NEW completed, completed \subseteq Groups,
         NEW mention, DOMAIN groups \subseteq Groups,
         NEW next, next = Advance(groups, values, now, completed, mention)
  PROVE  AdvancedTo(groups, values, now, completed, next)
<1> DEFINE offered == Offered(groups, values)
           done    == (now.done \cup completed) \cap offered
           merged  == [now EXCEPT !.done = done, !.mention = @ \/ mention]
           active  == (offered \ done) \ Deferred(groups, values, merged)
           pending == IF active = {} THEN Null ELSE IF now.pending \in active THEN now.pending ELSE Min(active)
<1>1. offered \subseteq Groups
  BY DEF Offered
<1> HIDE DEF offered
<1>2. done \subseteq Groups /\ done \subseteq offered
  BY <1>1
<1> HIDE DEF done
<1>3. merged \in Progress /\ merged.done = done /\ merged.pending = now.pending
  BY <1>2 DEF Progress
<1>4. next = [merged EXCEPT !.pending = IF active = {} THEN Null
                                        ELSE IF @ \in active THEN @ ELSE Min(active)]
  BY DEF Advance, offered, done
<1>5. active \subseteq offered
  OBVIOUS
<1> HIDE DEF merged, active
<1>6. next = [merged EXCEPT !.pending = pending]
  BY <1>3, <1>4
<1>7. active # {} => pending \in active
  <2>1. active \subseteq Nat
    BY <1>1, <1>5, CatalogAssumption
  <2>2. active # {} => Min(active) \in active
    BY <2>1, Smallest
  <2>3. QED BY <2>2
<1>8. pending \in Groups \cup {Null} /\ (pending = Null <=> active = {})
  BY <1>1, <1>5, <1>7, CatalogAssumption
<1> HIDE DEF pending
<1>9. /\ next \in Progress /\ next.done = done /\ next.pending = pending
      /\ next.mention = merged.mention
  BY <1>3, <1>6, <1>8 DEF Progress
<1>10. Deferred(groups, values, next) = Deferred(groups, values, merged)
  BY <1>3, <1>9 DEF Deferred
<1>11. IF next.pending = Null THEN offered \ done \subseteq Deferred(groups, values, next)
       ELSE next.pending \in offered
  BY <1>5, <1>7, <1>8, <1>9, <1>10 DEF active
<1>12. QED BY <1>9, <1>11 DEF offered, done, AdvancedTo

LEMMA ResumeAskTalk ==
  ASSUME MenuInv, TalkInv, ResumeAsk
  PROVE  TalkInv'
<1>1. /\ at \in {"resume", "lost"} /\ job = "ask" /\ at' = "idle" /\ item \in Items
      /\ UNCHANGED <<tables, edits, job, item, sawGroups, sawValues, args, order>>
      /\ talk' = IF at = "lost" THEN NoTalk ELSE talk
  BY DEF ResumeAsk, toTables, TalkInv, VoiceTypes
<1>2. CASE at = "lost"
  <2>1. NoProgress \in Progress
    BY DEF NoProgress, Progress
  <2>2. progress' = [progress EXCEPT ![item] = NoProgress]
    BY <1>2 DEF ResumeAsk
  <2>3. progress' \in [Items -> Progress]
    BY <2>1, <2>2 DEF TalkInv, VoiceTypes
  <2>4. QED BY <1>1, <1>2, <2>3, NoTalkLeft
<1>3. CASE at = "resume"
  <2> DEFINE next == Advance(sawGroups, sawValues, progress[item], args.completed, args.mention)
  <2>1. progress' = [progress EXCEPT ![item] = next] /\ talk' = talk
    BY <1>1, <1>3 DEF ResumeAsk
  <2>2. progress[item] \in Progress /\ args.completed \in SUBSET Groups /\ args.mention \in BOOLEAN
    BY <1>1 DEF TalkInv, VoiceTypes
  <2>3. DOMAIN sawGroups \subseteq Groups
    BY DEF TalkInv, VoiceTypes
  <2>4. AdvancedTo(sawGroups, sawValues, progress[item], args.completed, next)
    <3>1. next = Advance(sawGroups, sawValues, progress[item], args.completed, args.mention)
      OBVIOUS
    <3> HIDE DEF next
    <3>2. QED BY <2>2, <2>3, <3>1, Advanced
  <2> HIDE DEF next
  <2>5. progress' \in [Items -> Progress] /\ progress'[item] = next
    BY <1>1, <2>1, <2>4 DEF TalkInv, VoiceTypes, AdvancedTo
  <2>6. VoiceTypes'
    BY <1>1, <2>1, <2>5 DEF TalkInv, VoiceTypes
  <2>7. G' = G /\ V' = V
    BY <1>1, SameMenu
  <2>8. ReadsAreCurrent'
    BY <1>1, <1>3, <2>1, <2>7 DEF TalkInv, ReadsAreCurrent, Steady
  <2>9. AnswersAreLegal'
    <3>1. progress'[item].done \cup args.completed \subseteq progress[item].done \cup args.completed
      BY <2>4, <2>5 DEF AdvancedTo
    <3>2. QED BY <1>1, <2>1, <2>7, <3>1 DEF TalkInv, AnswersAreLegal
  <2>10. NoneForgotten'
    <3> SUFFICES ASSUME talk.began = edits
                 PROVE  IF next.pending = Null
                        THEN Offered(G, V) \ next.done \subseteq Deferred(G, V, next)
                        ELSE next.pending \in Offered(G, V)
      BY <1>1, <2>1, <2>5, <2>7 DEF NoneForgotten
    <3>1. sawGroups = G /\ (DOMAIN G = {} \/ sawValues = V)
      BY <1>1, <1>3 DEF TalkInv, ReadsAreCurrent, Steady
    <3>2. CASE DOMAIN G = {}
      <4>1. Offered(sawGroups, sawValues) = {} /\ Offered(G, V) = {}
        BY <3>1, <3>2 DEF Offered
      <4>2. QED BY <2>4, <4>1 DEF AdvancedTo
    <3>3. CASE sawValues = V
      BY <2>4, <3>1, <3>3 DEF AdvancedTo
    <3>4. QED BY <3>1, <3>2, <3>3
  <2>11. OrderIsTalked'
    BY <1>1 DEF OrderIsTalked, Validating
  <2>12. QED BY <2>6, <2>8, <2>9, <2>10, <2>11 DEF TalkInv
<1>4. QED BY <1>1, <1>2, <1>3

LEMMA LeaveTalk ==
  ASSUME MenuInv, TalkInv, GiveUp \/ Timeout \/ ResumeDetail
  PROVE  TalkInv'
<1>1. CASE GiveUp
  <2>1. /\ at' = "idle" /\ job' = job /\ progress' = progress /\ talk' = NoTalk
        /\ UNCHANGED <<tables, edits, item, sawGroups, sawValues, args, order>>
    BY <1>1 DEF GiveUp, toTables, reads
  <2>2. QED BY <2>1, NoTalkLeft DEF TalkInv, VoiceTypes
<1>2. CASE Timeout
  <2>1. /\ job = "ask" /\ at # "idle" /\ UNCHANGED <<tables, edits, job, item, sawGroups, sawValues, progress, order>>
        /\ \/ at' = "item" /\ args' = [args EXCEPT !.tries = @ + 1] /\ talk' = talk
           \/ at' = "idle" /\ args' = args /\ talk' = NoTalk
    BY <1>2 DEF Timeout, toTables
  <2>2. CASE at' = "item" /\ args' = [args EXCEPT !.tries = @ + 1] /\ talk' = talk
    <3>1. /\ args' \in [completed : SUBSET Groups, mention : BOOLEAN, tries : Nat]
          /\ args'.completed = args.completed
      <4>1. args \in [completed : SUBSET Groups, mention : BOOLEAN, tries : Nat]
        BY DEF TalkInv, VoiceTypes
      <4>2. QED BY <2>2, <4>1
    <3>2. VoiceTypes'
      BY <2>1, <2>2, <3>1 DEF TalkInv, VoiceTypes
    <3>3. G' = G /\ V' = V
      BY <2>1, SameMenu
    <3>4. AnswersAreLegal'
      BY <2>1, <2>2, <3>1, <3>3 DEF TalkInv, AnswersAreLegal
    <3>5. QED BY <2>1, <2>2, <3>2, <3>4
              DEF TalkInv, ReadsAreCurrent, NoneForgotten, OrderIsTalked, Validating
  <2>3. CASE at' = "idle" /\ args' = args /\ talk' = NoTalk
    BY <2>1, <2>3, NoTalkLeft DEF TalkInv, VoiceTypes
  <2>4. QED BY <2>1, <2>2, <2>3
<1>3. CASE ResumeDetail
  <2>1. /\ job = "detail" /\ at' = "idle" /\ sawGroups' = << >> /\ sawValues' = << >>
        /\ UNCHANGED <<tables, edits, job, item, args, progress, talk, order>>
    BY <1>3 DEF ResumeDetail, StartRead, toTables
  <2>2. ~talk.open
    BY <2>1 DEF TalkInv, VoiceTypes
  <2>3. VoiceTypes'
    BY <2>1, <2>2 DEF TalkInv, VoiceTypes
  <2>4. QED BY <2>1, <2>2, <2>3
            DEF TalkInv, ReadsAreCurrent, AnswersAreLegal, NoneForgotten, OrderIsTalked, Validating
<1>4. QED BY <1>1, <1>2, <1>3

(* The order that the dialogue ends in says what it settled. *)
LEMMA OrderTalkedTalk ==
  ASSUME MenuInv, TalkInv, OrderTalked
  PROVE  TalkInv'
<1> DEFINE asked == /\ talk.fresh /\ talk.began = edits
                    /\ Deferred(sawGroups, sawValues, progress[item]) = {}
<1>1. /\ at = "idle" /\ talk.open /\ progress[item].pending = Null /\ item \in Items
      /\ at' = "prices" /\ job' = "validate" /\ sawGroups' = << >> /\ sawValues' = << >>
      /\ talk' = NoTalk /\ UNCHANGED <<tables, edits, item, args, progress>>
  BY DEF OrderTalked, StartOrder, StartRead, Pending, TalkInv, VoiceTypes
<1>2. /\ talk.picked \in [Groups -> Seq(PickRow)] /\ edits \in Nat
  BY DEF TalkInv, VoiceTypes
<1>3. order' = [NoOrder EXCEPT !.payload = Entries(talk.picked), !.began = edits, !.asked = asked]
  BY DEF OrderTalked, StartOrder
<1> HIDE DEF asked
<1>4. /\ DOMAIN order' = DOMAIN NoOrder /\ order'.payload = Entries(talk.picked)
      /\ order'.began = edits /\ order'.asked = asked
  BY <1>3 DEF NoOrder
<1>5. Entries(talk.picked) \in Seq(Entry)
  BY <1>2, EntriesListed
<1>6. /\ NoTalk \in [picked : [Groups -> Seq(PickRow)], began : Nat, open : BOOLEAN, fresh : BOOLEAN]
      /\ NoTalk.began = 0 /\ ~NoTalk.open
  BY DEF NoTalk, NoPicks
<1>7. VoiceTypes'
  BY <1>1, <1>2, <1>4, <1>5, <1>6 DEF TalkInv, VoiceTypes
<1>8. ASSUME asked PROVE Talked(G, V, Entries(talk.picked))
  <2>1. /\ \A g \in Groups : talk.picked[g] # << >> =>
             g \in Offered(G, V) /\ talk.picked[g] \in MayPick(G, V, g)
        /\ \A g \in progress[item].done : talk.picked[g] \in MayPick(G, V, g)
    BY <1>1, <1>8 DEF TalkInv, AnswersAreLegal, asked
  <2>2. sawGroups = G /\ (DOMAIN G = {} \/ sawValues = V)
    BY <1>1, <1>8 DEF TalkInv, ReadsAreCurrent, Steady, asked, VoiceTypes
  <2>3. Deferred(G, V, progress[item]) = {}
    <3>1. CASE DOMAIN G = {}
      BY <3>1 DEF Deferred, Offered
    <3>2. CASE sawValues = V
      BY <1>8, <2>2, <3>2 DEF asked
    <3>3. QED BY <2>2, <3>1, <3>2
  <2>4. Offered(G, V) \subseteq progress[item].done
    BY <1>1, <1>8, <2>3 DEF TalkInv, NoneForgotten, asked
  <2>5. DOMAIN G \subseteq Groups
    BY <1>1, MenuRead DEF G
  <2>6. ASSUME NEW g \in Offered(G, V) \ Named(Entries(talk.picked))
        PROVE  << >> \in MayPick(G, V, g)
    <3>1. g \in Groups /\ talk.picked[g] \in MayPick(G, V, g)
      BY <2>1, <2>4, <2>5 DEF Offered
    <3>2. talk.picked[g] = << >>
      BY <1>2, <2>6, <3>1, EntriesListed
    <3>3. QED BY <3>1, <3>2
  <2>7. OncePerGroup(Entries(talk.picked))
    BY <1>2, EntriesListed
  <2>8. ASSUME NEW k \in DOMAIN Entries(talk.picked)
        PROVE  LET entry == Entries(talk.picked)[k] IN
               entry.group \in Offered(G, V) /\ entry.picks \in MayPick(G, V, entry.group)
               /\ entry.picks # << >>
    <3> DEFINE entry == Entries(talk.picked)[k]
    <3>1. entry.group \in Groups /\ entry.picks = talk.picked[entry.group] /\ entry.picks # << >>
      BY <1>2, EntriesListed
    <3> HIDE DEF entry
    <3>2. QED BY <2>1, <3>1 DEF entry
  <2>9. QED BY <2>6, <2>7, <2>8 DEF Talked
<1>9. G' = G /\ V' = V
  BY <1>1, SameMenu
<1>10. OrderIsTalked'
  BY <1>4, <1>8, <1>9 DEF OrderIsTalked
<1>11. QED BY <1>1, <1>6, <1>7, <1>10 DEF TalkInv, ReadsAreCurrent, AnswersAreLegal, NoneForgotten

(* The reads: what they find is the menu of that moment. *)
LEMMA ReadTalk ==
  ASSUME MenuInv, TalkInv, Read
  PROVE  TalkInv'
<1>1. /\ at \in {"item", "groups", "values", "prices"} /\ at' \in {"groups", "lost", "values", "resume"}
      /\ item \in Items
      /\ UNCHANGED <<tables, edits, job, item, args, progress, talk>>
  BY DEF Read, ReadItem, ReadGroups, ReadValues, ReadPrices, toTables, TalkInv, VoiceTypes
<1>2. G' = G /\ V' = V
  BY <1>1, SameMenu
<1>3. DOMAIN G \subseteq Groups /\ DOMAIN V \subseteq Values
  BY <1>1, MenuRead DEF G, V
<1>4. /\ DOMAIN order' = DOMAIN order /\ order'.payload = order.payload
      /\ order'.began = order.began /\ order'.asked = order.asked
  <2>1. CASE ReadPrices
    <3>1. order' = [order EXCEPT !.priced = item \in OnSale(Ours)] /\ DOMAIN order = DOMAIN NoOrder
      BY <2>1 DEF ReadPrices, TalkInv, VoiceTypes
    <3>2. QED BY <3>1 DEF NoOrder
  <2>2. CASE ~ReadPrices
    BY <2>2 DEF Read, ReadItem, ReadGroups, ReadValues
  <2>3. QED BY <2>1, <2>2
<1>5. CASE ReadItem \/ ReadPrices
  <2>1. at \in {"item", "prices"} /\ at' \in {"groups", "lost"} /\ UNCHANGED <<sawGroups, sawValues>>
    BY <1>5 DEF ReadItem, ReadPrices
  <2>2. VoiceTypes'
    BY <1>1, <1>4, <2>1 DEF TalkInv, VoiceTypes
  <2>3. ReadsAreCurrent'
    BY <2>1 DEF ReadsAreCurrent
  <2>4. OrderIsTalked'
    <3>1. Validating' => Validating
      BY <1>1, <2>1 DEF Validating, TalkInv, VoiceTypes
    <3>2. QED BY <1>1, <1>2, <1>4, <3>1 DEF TalkInv, OrderIsTalked
  <2>5. QED BY <1>1, <1>2, <2>1, <2>2, <2>3, <2>4 DEF TalkInv, AnswersAreLegal, NoneForgotten
<1>6. CASE ReadGroups
  <2>1. at = "groups" /\ at' \in {"values", "resume"} /\ sawGroups' = G /\ sawValues' = sawValues
        /\ (at' = "resume" => DOMAIN G = {})
    BY <1>6 DEF ReadGroups, G, GroupsOf
  <2>2. VoiceTypes'
    BY <1>1, <1>3, <1>4, <2>1 DEF TalkInv, VoiceTypes
  <2>3. ReadsAreCurrent'
    BY <1>2, <2>1 DEF ReadsAreCurrent
  <2>4. OrderIsTalked'
    BY <1>1, <1>2, <1>4, <2>1 DEF TalkInv, OrderIsTalked, Validating
  <2>5. QED BY <1>1, <1>2, <2>1, <2>2, <2>3, <2>4 DEF TalkInv, AnswersAreLegal, NoneForgotten
<1>7. CASE ReadValues
  <2>1. at = "values" /\ at' = "resume" /\ sawGroups' = sawGroups /\ sawValues' = ValuesFor(sawGroups)
    BY <1>7 DEF ReadValues, ValuesFor
  <2>2. DOMAIN sawValues' \subseteq Values
    BY <1>1, <2>1, MenuRead
  <2>3. VoiceTypes'
    BY <1>1, <1>4, <2>1, <2>2 DEF TalkInv, VoiceTypes
  <2>4. ReadsAreCurrent'
    <3>1. Steady' => Steady
      BY <1>1, <1>4 DEF Steady
    <3>2. Steady' => sawGroups = G
      BY <2>1, <3>1 DEF TalkInv, ReadsAreCurrent
    <3>3. QED BY <1>2, <2>1, <3>2 DEF ReadsAreCurrent, V
  <2>5. OrderIsTalked'
    BY <1>1, <1>2, <1>4, <2>1 DEF TalkInv, OrderIsTalked, Validating
  <2>6. QED BY <1>1, <1>2, <2>1, <2>3, <2>4, <2>5 DEF TalkInv, AnswersAreLegal, NoneForgotten
<1>8. QED BY <1>5, <1>6, <1>7 DEF Read

(* The order after its validation, and its end. *)
LEMMA OrderTalk ==
  ASSUME MenuInv, TalkInv, ResumeValidate \/ ResumePrice \/ InsertOrder
  PROVE  TalkInv'
<1>1. /\ ~talk.open /\ item \in Items
      /\ UNCHANGED <<tables, edits, item, args, progress, talk>>
      /\ at' \in {"idle", "groups", "insert"} /\ job' \in {"validate", "price"}
      /\ at' \in {"groups", "insert"} => job' = "price"
      /\ DOMAIN sawGroups' \subseteq Groups /\ DOMAIN sawValues' \subseteq Values
  <2>1. CASE ResumeValidate
    BY <2>1 DEF ResumeValidate, StartRead, toTables, TalkInv, VoiceTypes
  <2>2. CASE ResumePrice
    BY <2>2 DEF ResumePrice, toTables, TalkInv, VoiceTypes
  <2>3. CASE InsertOrder
    BY <2>3 DEF InsertOrder, StartRead, TalkInv, VoiceTypes
  <2>4. QED BY <2>1, <2>2, <2>3
<1>2. /\ DOMAIN order' = DOMAIN NoOrder /\ order'.payload \in Seq(Entry)
      /\ order'.began \in Nat /\ order'.began <= edits
  <2>1. /\ DOMAIN order = DOMAIN NoOrder /\ order.payload \in Seq(Entry) /\ edits \in Nat
        /\ order.began \in Nat /\ order.began <= edits
    BY DEF TalkInv, VoiceTypes
  <2>2. CASE order' = NoOrder
    <3>1. NoOrder.payload \in Seq(Entry) /\ NoOrder.began = 0
      BY DEF NoOrder
    <3>2. QED BY <2>1, <2>2, <3>1
  <2>3. CASE order' = [order EXCEPT !.payload = Normalized(sawGroups, sawValues, @)]
    <3>1. order'.payload = Normalized(sawGroups, sawValues, order.payload)
          /\ order'.began = order.began /\ DOMAIN order' = DOMAIN order
      BY <2>1, <2>3 DEF NoOrder
    <3>2. DOMAIN sawGroups \subseteq Groups /\ DOMAIN sawValues \subseteq Values
      BY DEF TalkInv, VoiceTypes
    <3>3. Normalized(sawGroups, sawValues, order.payload) \in Seq(Entry)
      BY <2>1, <3>2, DefaultsTaken
    <3>4. QED BY <2>1, <3>1, <3>3
  <2>4. CASE ResumePrice
    <3>1. order'.payload = order.payload /\ order'.began = order.began /\ DOMAIN order' = DOMAIN order
      BY <2>1, <2>4 DEF ResumePrice, NoOrder
    <3>2. QED BY <2>1, <3>1
  <2>5. QED BY <2>2, <2>3, <2>4 DEF ResumeValidate, InsertOrder
<1>3. VoiceTypes'
  BY <1>1, <1>2 DEF TalkInv, VoiceTypes
<1>4. QED BY <1>1, <1>3
          DEF TalkInv, ReadsAreCurrent, AnswersAreLegal, NoneForgotten, OrderIsTalked, Validating

LEMMA TalkStep ==
  ASSUME MenuInv, TalkInv, [Next]_vars
  PROVE  TalkInv'
<1>1. CASE Dashboard \/ UNCHANGED vars
  BY <1>1, EditTalk
<1>2. CASE Read
  BY <1>2, ReadTalk
<1>3. CASE Resume
  BY <1>3, LeaveTalk, ResumeAskTalk, OrderTalk DEF Resume
<1>4. CASE Agent
  <2>1. Wishes \subseteq BOOLEAN
    BY DEF Wishes
  <2>2. QED BY <1>4, <2>1, OtherCall, BeginTalk, AnswerTalk, LeaveTalk, OrderTalkedTalk DEF Agent
<1>5. QED BY <1>1, <1>2, <1>3, <1>4 DEF Next

LEMMA InitTalk ==
  ASSUME Init
  PROVE  TalkInv
<1>1. /\ NoTalk \in [picked : [Groups -> Seq(PickRow)], began : Nat, open : BOOLEAN, fresh : BOOLEAN]
      /\ NoTalk.began = 0 /\ ~NoTalk.open
  BY DEF NoTalk, NoPicks
<1>2. NoOrder.payload \in Seq(Entry) /\ NoOrder.began = 0 /\ NoProgress \in Progress
  BY DEF NoOrder, NoProgress, Progress
<1>3. NoArgs \in [completed : SUBSET Groups, mention : BOOLEAN, tries : Nat]
  BY DEF NoArgs
<1>4. QED BY <1>1, <1>2, <1>3 DEF Init, TalkInv, VoiceTypes, ReadsAreCurrent, AnswersAreLegal,
             NoneForgotten, OrderIsTalked, Validating

LEMMA TalkedIsOrderable == MenuInv /\ TalkInv => CompletedIsOrderable
<1> SUFFICES ASSUME MenuInv, TalkInv, at = "resume", job = "validate", order.asked, order.began = edits
             PROVE  Refused <=> Stranded
  BY DEF CompletedIsOrderable
<1>1. item \in Items /\ order.payload \in Seq(Entry)
  BY DEF TalkInv, VoiceTypes
<1>2. sawGroups = G /\ (DOMAIN G = {} \/ sawValues = V)
  BY DEF TalkInv, ReadsAreCurrent, Steady
<1>3. Talked(G, V, order.payload)
  BY DEF TalkInv, OrderIsTalked, Validating
<1>4. /\ \A g \in DOMAIN G : G[g].min \in Nat
      /\ DOMAIN V \subseteq Values
  BY <1>1, MenuRead DEF G, V
<1>5. \A g \in DOMAIN G : IsFiniteSet(OnOffer(V, g))
  BY <1>4, OffersFinite
<1>6. CASE sawValues = V
  <2>1. Issues(G, V, order.payload) # {} <=>
        \E g \in DOMAIN G : /\ G[g].avail /\ OnOffer(V, g) = {}
                            /\ G[g].min > 0 \/ G[g].required
    BY <1>1, <1>3, <1>4, <1>5, TalkedIsAccepted
  <2>2. QED BY <1>2, <1>6, <2>1 DEF Refused, Stranded
<1>7. CASE DOMAIN G = {}
  <2>1. DOMAIN order.payload = {}
    BY <1>3, <1>7 DEF Talked, Offered
  <2>2. order.payload = << >>
    BY <1>1, <2>1, NoEntries
  <2>3. QED BY <1>2, <1>7, <2>2 DEF Refused, Issues, Stranded
<1>8. QED BY <1>2, <1>6, <1>7

(* Whatever the menu, and whatever is edited before the dialogue and after it: *)
(* the order of an item that was talked through to the end is refused for a    *)
(* group that the dialogue cannot offer, and for nothing else.                 *)
THEOREM TalkedThroughIsOrderable == Spec /\ RowsAgree => []CompletedIsOrderable
<1>1. Init /\ RowsAgree => MenuInv /\ TalkInv
  BY InitMenu, InitTalk
<1>2. MenuInv /\ TalkInv /\ [Next]_vars => (MenuInv /\ TalkInv)'
  BY MenuStep, TalkStep
<1>3. QED BY <1>1, <1>2, TalkedIsOrderable, PTL DEF Spec

-----------------------------------------------------------------------------
(* The order that is priced. *)

(* Every pick names a value of its entry's group. *)
Listed(groups, values, payload) ==
  \A k \in DOMAIN payload : \A p \in ToSet(payload[k].picks) :
    /\ payload[k].group \in DOMAIN groups
    /\ p.value \in DOMAIN values /\ values[p.value].group = payload[k].group

Pricing == job = "price" /\ at \in {"groups", "values", "resume"}

PayInv ==
  /\ Validating => OncePerGroup(order.payload)
  /\ Pricing /\ order.began = edits => Listed(G, V, order.payload)
  /\ PaidFor

(* Validation leaves no pick that names no value of its group. *)
LEMMA ValidatedIsListed ==
  ASSUME NEW groups, NEW values, DOMAIN groups \subseteq Groups, DOMAIN values \subseteq Values,
         NEW payload \in Seq(Entry), OncePerGroup(payload), Issues(groups, values, payload) = {}
  PROVE  Listed(groups, values, Normalized(groups, values, payload))
<1> DEFINE full == Normalized(groups, values, payload)
<1>1. \A k \in DOMAIN full :
        \/ k \in DOMAIN payload /\ full[k] = payload[k]
        \/ \E g \in DOMAIN groups : \E v \in Defaults(values, g) :
             full[k] = [group |-> g, picks |-> <<[value |-> v, qty |-> 1]>>]
  BY DefaultsTaken
<1> HIDE DEF full
<1>2. ASSUME NEW k \in DOMAIN payload, NEW p \in ToSet(payload[k].picks)
      PROVE  /\ payload[k].group \in DOMAIN groups
             /\ p.value \in DOMAIN values /\ values[p.value].group = payload[k].group
  <2> DEFINE g     == payload[k].group
             picks == payload[k].picks
  <2>1. g \in Named(payload) /\ PicksOf(payload, g) = picks
    BY PicksOnce DEF Named
  <2>2. DOMAIN groups # {}
    <3>1. payload # << >>
      OBVIOUS
    <3>2. QED BY <3>1 DEF Issues
  <2>3. SelectionIssues(groups, values, g, PicksOf(payload, g)) \subseteq Issues(groups, values, payload)
    <3>1. \A h \in Named(payload) :
            SelectionIssues(groups, values, h, PicksOf(payload, h)) \subseteq Issues(groups, values, payload)
      BY <2>2 DEF Issues
    <3>2. QED BY <2>1, <3>1
  <2>4. SelectionIssues(groups, values, g, picks) = {}
    BY <2>1, <2>3
  <2>5. PICK j \in DOMAIN picks : p = picks[j]
    BY DEF ToSet
  <2> HIDE DEF g, picks
  <2>6. g \in DOMAIN groups
    BY <2>4 DEF SelectionIssues
  <2>7. PickIssues(groups[g], g, values, picks[j]) = {}
    BY <2>4, <2>6 DEF SelectionIssues
  <2>8. p.value \in DOMAIN values /\ values[p.value].group = g
    BY <2>5, <2>7 DEF PickIssues
  <2>9. QED BY <2>6, <2>8 DEF g
<1>3. ASSUME NEW g \in DOMAIN groups, NEW v \in Defaults(values, g),
             NEW p \in ToSet(<<[value |-> v, qty |-> 1]>>)
      PROVE  v \in DOMAIN values /\ values[v].group = g /\ p.value = v
  BY DEF Defaults, ToSet
<1>4. ASSUME NEW k \in DOMAIN full, NEW p \in ToSet(full[k].picks)
      PROVE  /\ full[k].group \in DOMAIN groups
             /\ p.value \in DOMAIN values /\ values[p.value].group = full[k].group
  <2>1. CASE k \in DOMAIN payload /\ full[k] = payload[k]
    BY <1>2, <1>4, <2>1
  <2>2. ASSUME NEW g \in DOMAIN groups, NEW v \in Defaults(values, g),
               full[k] = [group |-> g, picks |-> <<[value |-> v, qty |-> 1]>>]
        PROVE  /\ full[k].group \in DOMAIN groups
               /\ p.value \in DOMAIN values /\ values[p.value].group = full[k].group
    <3>1. full[k].group = g /\ full[k].picks = <<[value |-> v, qty |-> 1]>>
      BY <2>2
    <3>2. v \in DOMAIN values /\ values[v].group = g /\ p.value = v
      BY <1>3, <1>4, <3>1
    <3>3. QED BY <3>1, <3>2
  <2>3. QED BY <1>1, <2>1, <2>2
<1>5. QED BY <1>4 DEF Listed, full

(* What is listed is charged for. *)
LEMMA ListedIsSnapped ==
  ASSUME NEW groups, NEW values, NEW payload, Listed(groups, values, payload)
  PROVE  \A k \in DOMAIN payload : \A p \in ToSet(payload[k].picks) :
           \E o \in Snapshots(groups, values, payload) : o.value = p.value /\ o.qty = p.qty
<1> DEFINE row(p) == [value |-> p.value, delta |-> values[p.value].delta, qty |-> p.qty]
           rows(k) == {row(p) : p \in {q \in ToSet(payload[k].picks) :
                                         /\ payload[k].group \in DOMAIN groups
                                         /\ q.value \in DOMAIN values
                                         /\ values[q.value].group = payload[k].group}}
<1>1. ASSUME NEW k \in DOMAIN payload, NEW p \in ToSet(payload[k].picks)
      PROVE  row(p) \in rows(k)
  BY DEF Listed
<1>2. Snapshots(groups, values, payload) = UNION {rows(k) : k \in DOMAIN payload}
  BY DEF Snapshots
<1>3. \A p : row(p).value = p.value /\ row(p).qty = p.qty
  OBVIOUS
<1> HIDE DEF row, rows
<1>4. ASSUME NEW k \in DOMAIN payload, NEW p \in ToSet(payload[k].picks)
      PROVE  row(p) \in Snapshots(groups, values, payload)
  BY <1>1, <1>2
<1>5. QED BY <1>3, <1>4

(* Neither an edit nor a function that is about no order touches it. *)
LEMMA PayApart ==
  ASSUME MenuInv, TalkInv, PayInv,
         Dashboard \/ UNCHANGED vars \/ ReadItem \/ ReadGroups \/ ReadValues
  PROVE  PayInv'
<1>1. UNCHANGED <<job, item, order>>
  BY EditsCount DEF reads, vars, voice, ReadItem, ReadGroups, ReadValues
<1>2. /\ Validating' => Validating
      /\ Pricing' => Pricing
      /\ at' = "insert" => at = "insert"
  <2>1. CASE Dashboard \/ UNCHANGED vars
    <3>1. at' = at
      BY <2>1, EditsCount DEF reads, vars, voice
    <3>2. QED BY <1>1, <3>1 DEF Validating, Pricing
  <2>2. CASE ReadItem \/ ReadGroups \/ ReadValues
    <3>1. at \in {"item", "groups", "values"} /\ at' \in {"groups", "lost", "values", "resume"}
      BY <2>2 DEF ReadItem, ReadGroups, ReadValues
    <3>2. at = "item" => job \in {"ask", "detail"}
      BY DEF TalkInv, VoiceTypes
    <3>3. QED BY <1>1, <3>1, <3>2 DEF Validating, Pricing
  <2>3. QED BY <2>1, <2>2
<1>3. order'.began = edits' => order.began = edits /\ UNCHANGED tables
  <2>1. CASE Dashboard \/ UNCHANGED vars
    <3>1. edits' = edits + 1 \/ UNCHANGED <<tables, edits>>
      BY <2>1, EditsCount DEF vars, voice
    <3>2. order.began \in Nat /\ edits \in Nat /\ order.began <= edits
      BY DEF TalkInv, VoiceTypes
    <3>3. QED BY <1>1, <3>1, <3>2
  <2>2. CASE ReadItem \/ ReadGroups \/ ReadValues
    BY <1>1, <2>2 DEF ReadItem, ReadGroups, ReadValues, toTables
  <2>3. QED BY <2>1, <2>2
<1>4. Validating' => OncePerGroup(order'.payload)
  BY <1>1, <1>2 DEF PayInv
<1>5. Pricing' /\ order'.began = edits' => Listed(G', V', order'.payload)
  <2>1. UNCHANGED tables => G' = G /\ V' = V
    BY <1>1, SameMenu
  <2>2. QED BY <1>1, <1>2, <1>3, <2>1 DEF PayInv
<1>6. PaidFor'
  BY <1>1, <1>2 DEF PayInv, PaidFor
<1>7. QED BY <1>4, <1>5, <1>6 DEF PayInv

(* A dialogue, a detail, or the beginning of an order. *)
LEMMA PayBegins ==
  ASSUME \A payload \in Payloads : OncePerGroup(payload), TalkInv, PayInv,
         Agent \/ ResumeDetail \/ ResumeAsk
  PROVE  PayInv'
<1>1. ASSUME NEW payload, OncePerGroup(payload), job' = "validate", at' = "prices", order'.payload = payload
      PROVE  PayInv'
  BY <1>1 DEF PayInv, Pricing, PaidFor
<1>2. ASSUME NEW i \in Items, NEW payload \in Payloads, OrderAnything(i, payload)
      PROVE  PayInv'
  <2>1. order' = [NoOrder EXCEPT !.payload = payload, !.began = edits, !.asked = FALSE]
    BY <1>2 DEF OrderAnything, StartOrder
  <2>2. order'.payload = payload
    BY <2>1 DEF NoOrder
  <2>3. job' = "validate" /\ at' = "prices"
    BY <1>2 DEF OrderAnything, StartOrder, StartRead
  <2>4. QED BY <1>1, <2>2, <2>3
<1>3. CASE OrderTalked
  <2> DEFINE asked == /\ talk.fresh /\ talk.began = edits
                      /\ Deferred(sawGroups, sawValues, progress[item]) = {}
  <2>1. order' = [NoOrder EXCEPT !.payload = Entries(talk.picked), !.began = edits, !.asked = asked]
    BY <1>3 DEF OrderTalked, StartOrder
  <2> HIDE DEF asked
  <2>2. order'.payload = Entries(talk.picked)
    BY <2>1 DEF NoOrder
  <2>3. talk.picked \in [Groups -> Seq(PickRow)]
    BY DEF TalkInv, VoiceTypes
  <2>4. OncePerGroup(Entries(talk.picked))
    BY <2>3, EntriesListed
  <2>5. job' = "validate" /\ at' = "prices"
    BY <1>3 DEF OrderTalked, StartOrder, StartRead
  <2>6. QED BY <1>1, <2>2, <2>4, <2>5
<1>4. ASSUME job' \in {"ask", "detail"} \/ at' = "idle", at' # "insert"
      PROVE  PayInv'
  BY <1>4 DEF PayInv, Pricing, Validating, PaidFor
<1>5. ASSUME NEW i \in Items, Detail(i) \/ \E mention, reset \in BOOLEAN : Begin(i, mention, reset)
      PROVE  PayInv'
  <2>1. at' = "item" /\ job' \in {"ask", "detail"}
    BY <1>5 DEF Detail, Begin, StartRead
  <2>2. QED BY <1>4, <2>1
<1>6. ASSUME \E mention \in Wishes : Answer(mention)
      PROVE  PayInv'
  BY <1>4, <1>6 DEF Answer
<1>7. CASE GiveUp \/ Timeout \/ ResumeDetail \/ ResumeAsk
  <2>1. at' = "idle" \/ (at' = "item" /\ job' = "ask")
    BY <1>7 DEF GiveUp, Timeout, ResumeDetail, ResumeAsk, StartRead, reads
  <2>2. QED BY <1>4, <2>1
<1>8. QED BY <1>2, <1>3, <1>5, <1>6, <1>7 DEF Agent

LEMMA PayGoesOn ==
  ASSUME MenuInv, TalkInv, PayInv, ReadPrices \/ ResumeValidate \/ ResumePrice \/ InsertOrder
  PROVE  PayInv'
<1>1. DOMAIN order = DOMAIN NoOrder /\ order.payload \in Seq(Entry)
  BY DEF TalkInv, VoiceTypes
<1>2. CASE ReadPrices
  <2>1. /\ at = "prices" /\ at' = "groups" /\ UNCHANGED <<tables, edits, job, item>>
        /\ order' = [order EXCEPT !.priced = item \in OnSale(Ours)]
    BY <1>2 DEF ReadPrices, toTables
  <2>2. job = "validate"
    BY <2>1 DEF TalkInv, VoiceTypes
  <2>3. order'.payload = order.payload /\ order'.began = order.began
    BY <1>1, <2>1 DEF NoOrder
  <2>4. QED BY <2>1, <2>2, <2>3 DEF PayInv, Pricing, Validating, PaidFor
<1>3. CASE ResumeValidate
  <2>1. /\ at = "resume" /\ job = "validate" /\ UNCHANGED <<tables, edits, item>>
        /\ \/ at' = "idle"
           \/ /\ ~Refused /\ at' = "groups" /\ job' = "price"
              /\ order' = [order EXCEPT !.payload = Normalized(sawGroups, sawValues, @)]
    BY <1>3 DEF ResumeValidate, StartRead, toTables
  <2>2. CASE at' = "idle"
    BY <2>2 DEF PayInv, Pricing, Validating, PaidFor
  <2>3. CASE /\ ~Refused /\ at' = "groups" /\ job' = "price"
             /\ order' = [order EXCEPT !.payload = Normalized(sawGroups, sawValues, @)]
    <3>1. /\ order'.payload = Normalized(sawGroups, sawValues, order.payload)
          /\ order'.began = order.began
      BY <1>1, <2>3 DEF NoOrder
    <3>2. DOMAIN sawGroups \subseteq Groups /\ DOMAIN sawValues \subseteq Values
      BY DEF TalkInv, VoiceTypes
    <3>3. OncePerGroup(order.payload) /\ Issues(sawGroups, sawValues, order.payload) = {}
      BY <2>1, <2>3 DEF PayInv, Validating, Refused
    <3>4. Listed(sawGroups, sawValues, order'.payload)
      BY <1>1, <3>1, <3>2, <3>3, ValidatedIsListed
    <3>5. order.began = edits => sawGroups = G /\ (DOMAIN G = {} \/ sawValues = V)
      BY <2>1 DEF TalkInv, ReadsAreCurrent, Steady
    <3>6. order.began = edits => Listed(G, V, order'.payload)
      BY <3>4, <3>5 DEF Listed
    <3>7. G' = G /\ V' = V
      BY <2>1, SameMenu
    <3>8. Pricing' /\ order'.began = edits' => Listed(G', V', order'.payload)
      BY <2>1, <3>1, <3>6, <3>7
    <3>9. QED BY <2>3, <3>8 DEF PayInv, Validating, PaidFor
  <2>4. QED BY <2>1, <2>2, <2>3
<1>4. CASE ResumePrice
  <2> DEFINE total == OptionTotal(sawGroups, sawValues, order.payload)
             rows  == Snapshots(sawGroups, sawValues, order.payload)
             calm  == order.began = edits
  <2>1. /\ at = "resume" /\ job = "price" /\ at' = "insert"
        /\ order' = [order EXCEPT !.total = total, !.options = rows, !.calm = calm]
    BY <1>4 DEF ResumePrice
  <2> HIDE DEF total, rows, calm
  <2>2. order'.payload = order.payload /\ order'.options = rows /\ order'.calm = calm
    BY <1>1, <2>1 DEF NoOrder
  <2>3. ASSUME calm PROVE Listed(sawGroups, sawValues, order.payload)
    <3>1. Listed(G, V, order.payload)
      BY <2>1, <2>3 DEF PayInv, Pricing, calm
    <3>2. sawGroups = G /\ (DOMAIN G = {} \/ sawValues = V)
      BY <2>1, <2>3 DEF TalkInv, ReadsAreCurrent, Steady, calm
    <3>3. QED BY <3>1, <3>2 DEF Listed
  <2>4. calm => \A k \in DOMAIN order.payload : \A p \in ToSet(order.payload[k].picks) :
                  \E o \in rows : o.value = p.value /\ o.qty = p.qty
    BY <2>3, ListedIsSnapped DEF rows
  <2>5. PaidFor'
    BY <2>2, <2>4 DEF PaidFor
  <2>6. QED BY <2>1, <2>5 DEF PayInv, Pricing, Validating
<1>5. CASE InsertOrder
  <2>1. at' = "idle"
    BY <1>5 DEF InsertOrder, StartRead
  <2>2. QED BY <2>1 DEF PayInv, Pricing, Validating, PaidFor
<1>6. QED BY <1>2, <1>3, <1>4, <1>5

LEMMA PayStep ==
  ASSUME \A payload \in Payloads : OncePerGroup(payload), MenuInv, TalkInv, PayInv, [Next]_vars
  PROVE  PayInv'
BY PayApart, PayBegins, PayGoesOn DEF Next, Read, Resume

(* Whoever edits the menu, an order that was validated and priced under one    *)
(* menu pays for every option that it lists, as long as what the agent orders  *)
(* names each group once: of two entries of a group only the last is looked at.*)
THEOREM EveryOptionIsPaid ==
  ASSUME \A payload \in Payloads : OncePerGroup(payload)
  PROVE  Spec /\ RowsAgree => []PaidFor
<1>1. Init /\ RowsAgree => MenuInv /\ TalkInv /\ PayInv
  BY InitMenu, InitTalk DEF Init, PayInv, Validating, Pricing, PaidFor
<1>2. MenuInv /\ TalkInv /\ PayInv /\ [Next]_vars => (MenuInv /\ TalkInv /\ PayInv)'
  BY MenuStep, TalkStep, PayStep
<1>3. PayInv => PaidFor
  BY DEF PayInv
<1>4. QED BY <1>1, <1>2, <1>3, PTL DEF Spec

-----------------------------------------------------------------------------
(* Sums of a function over finite sets.  What holds of all of them is proved  *)
(* from a smallest set of which it does not.                                  *)

LEMMA SmallestSet ==
  ASSUME NEW U, IsFiniteSet(U), NEW bad \in SUBSET (SUBSET U), bad # {}
  PROVE  \E T \in bad : \A S \in SUBSET T : S # T => S \notin bad
<1> DEFINE sizes == {Cardinality(S) : S \in bad}
<1>1. ASSUME NEW S \in SUBSET U PROVE IsFiniteSet(S) /\ Cardinality(S) \in Nat
  BY FS_Subset, FS_CardinalityType
<1>2. sizes \in SUBSET Nat /\ sizes # {}
  BY <1>1
<1> HIDE DEF sizes
<1>3. PICK n \in sizes : \A m \in sizes : <<m, n>> \notin OpToRel(<, Nat)
  BY <1>2, NatLessThanWellFounded, WFMin
<1>4. PICK T \in bad : n = Cardinality(T)
  BY <1>3 DEF sizes
<1>5. ASSUME NEW S \in SUBSET T, S # T, S \in bad PROVE FALSE
  <2>1. Cardinality(S) \in Nat /\ Cardinality(T) \in Nat /\ IsFiniteSet(T)
    BY <1>1, <1>5
  <2>2. Cardinality(S) < Cardinality(T)
    BY <1>5, <2>1, FS_Subset
  <2>3. Cardinality(S) \in sizes
    BY <1>5 DEF sizes
  <2>4. QED BY <1>3, <1>4, <2>1, <2>2, <2>3 DEF OpToRel
<1>6. QED BY <1>5

One(s) == CHOOSE x \in s : TRUE

(* h adds up what f says of every subset of S. *)
Adds(f, S, h) ==
  h = [s \in SUBSET S |-> IF s = {} THEN 0 ELSE f[One(s)] + h[s \ {One(s)}]]

Adder(f, S) == CHOOSE h : Adds(f, S, h)
Total(f, S) == Adder(f, S)[S]

LEMMA OneOf ==
  ASSUME NEW s, s # {}
  PROVE  One(s) \in s
  BY DEF One

LEMMA AddsAt ==
  ASSUME NEW f, NEW S, NEW h, Adds(f, S, h), NEW s \in SUBSET S
  PROVE  h[s] = IF s = {} THEN 0 ELSE f[One(s)] + h[s \ {One(s)}]
<1> DEFINE body(t) == IF t = {} THEN 0 ELSE f[One(t)] + h[t \ {One(t)}]
<1>1. h = [t \in SUBSET S |-> body(t)]
  BY DEF Adds
<1>2. h[s] = body(s)
  BY <1>1
<1>3. QED BY <1>2

LEMMA AddersAgree ==
  ASSUME NEW f, NEW S, IsFiniteSet(S), NEW T \in SUBSET S, NEW g, NEW h,
         Adds(f, S, g), Adds(f, T, h)
  PROVE  g[T] = h[T]
<1> DEFINE bad == {u \in SUBSET T : g[u] # h[u]}
<1>1. SUFFICES ASSUME bad # {} PROVE FALSE
  OBVIOUS
<1>2. PICK u \in bad : \A s \in SUBSET u : s # u => s \notin bad
  <2>1. bad \in SUBSET (SUBSET S)
    OBVIOUS
  <2> HIDE DEF bad
  <2>2. QED BY <1>1, <2>1, SmallestSet
<1>3. u \in SUBSET S /\ u \in SUBSET T /\ g[u] # h[u]
  BY <1>2
<1>4. CASE u = {}
  BY <1>3, <1>4, AddsAt
<1>5. CASE u # {}
  <2>1. One(u) \in u
    BY <1>5, OneOf
  <2>2. u \ {One(u)} \in SUBSET u /\ u \ {One(u)} # u /\ u \ {One(u)} \in SUBSET T
    BY <1>3, <2>1
  <2>3. g[u \ {One(u)}] = h[u \ {One(u)}]
    BY <1>2, <2>2
  <2>4. /\ g[u] = f[One(u)] + g[u \ {One(u)}]
        /\ h[u] = f[One(u)] + h[u \ {One(u)}]
    BY <1>3, <1>5, AddsAt
  <2>5. QED BY <1>3, <2>3, <2>4
<1>6. QED BY <1>4, <1>5

(* A sum of one more, where there are adders below it. *)
LEMMA AdderAbove ==
  ASSUME NEW f, NEW S, IsFiniteSet(S), S # {},
         \A T \in SUBSET S : T # S => Adds(f, T, Adder(f, T))
  PROVE  \E h : Adds(f, S, h)
<1> DEFINE x == One(S)
           h == [s \in SUBSET S |-> IF s = S THEN f[x] + Total(f, S \ {x}) ELSE Total(f, s)]
           body(t) == IF t = {} THEN 0 ELSE f[One(t)] + h[t \ {One(t)}]
<1>1. x \in S /\ S \ {x} # S
  BY OneOf
<1>2. ASSUME NEW s \in SUBSET S PROVE h[s] = body(s)
  <2>1. CASE s = S
    <3>1. h[S \ {x}] = Total(f, S \ {x})
      BY <1>1
    <3>2. h[S] = f[x] + Total(f, S \ {x})
      OBVIOUS
    <3>3. body(S) = f[x] + h[S \ {x}]
      OBVIOUS
    <3>4. QED BY <2>1, <3>1, <3>2, <3>3
  <2>2. CASE s # S
    <3>1. h[s] = Adder(f, s)[s]
      BY <2>2 DEF Total
    <3>2. Adds(f, s, Adder(f, s))
      BY <2>2
    <3>3. CASE s = {}
      BY <3>1, <3>2, <3>3, AddsAt
    <3>4. CASE s # {}
      <4> DEFINE y == One(s)
      <4>1. y \in s /\ s \ {y} # S /\ s \ {y} \in SUBSET S /\ s \ {y} \in SUBSET s
        BY <3>4, OneOf
      <4>2. Adder(f, s)[s] = f[y] + Adder(f, s)[s \ {y}]
        BY <3>2, <3>4, AddsAt
      <4>3. Adds(f, s \ {y}, Adder(f, s \ {y})) /\ IsFiniteSet(s)
        BY <4>1, FS_Subset
      <4>4. h[s \ {y}] = Total(f, s \ {y})
        BY <4>1
      <4>5. body(s) = f[y] + h[s \ {y}]
        BY <3>4
      <4> HIDE DEF h, body, y, x
      <4>6. Adder(f, s)[s \ {y}] = Total(f, s \ {y})
        BY <3>2, <4>1, <4>3, AddersAgree DEF Total
      <4>7. QED BY <3>1, <4>2, <4>4, <4>5, <4>6
    <3>5. QED BY <3>3, <3>4
  <2>3. QED BY <2>1, <2>2
<1>3. h = [s \in SUBSET S |-> body(s)]
  <2>1. [s \in SUBSET S |-> h[s]] = [s \in SUBSET S |-> body(s)]
    BY <1>2
  <2>2. h = [s \in SUBSET S |-> h[s]]
    OBVIOUS
  <2>3. QED BY <2>1, <2>2
<1>4. Adds(f, S, h)
  BY <1>3 DEF Adds
<1>5. QED BY <1>4

LEMMA AdderExists ==
  ASSUME NEW f, NEW S, IsFiniteSet(S)
  PROVE  Adds(f, S, Adder(f, S))
<1> DEFINE bad == {T \in SUBSET S : ~Adds(f, T, Adder(f, T))}
<1>1. SUFFICES ASSUME bad # {} PROVE FALSE
  OBVIOUS
<1>2. PICK T \in bad : \A u \in SUBSET T : u # T => u \notin bad
  <2>1. bad \in SUBSET (SUBSET S)
    OBVIOUS
  <2> HIDE DEF bad
  <2>2. QED BY <1>1, <2>1, SmallestSet
<1>3. IsFiniteSet(T) /\ \A u \in SUBSET T : u # T => Adds(f, u, Adder(f, u))
  BY <1>2, FS_Subset
<1>4. \E h : Adds(f, T, h)
  <2>1. CASE T = {}
    <3> DEFINE h == [s \in SUBSET {} |-> 0]
    <3>1. h = [s \in SUBSET {} |-> IF s = {} THEN 0 ELSE f[One(s)] + h[s \ {One(s)}]]
      OBVIOUS
    <3>2. QED BY <2>1, <3>1 DEF Adds
  <2>2. CASE T # {}
    BY <1>3, <2>2, AdderAbove
  <2>3. QED BY <2>1, <2>2
<1>5. Adds(f, T, Adder(f, T))
  BY <1>4 DEF Adder
<1>6. QED BY <1>5, <1>2

LEMMA TotalStep ==
  ASSUME NEW f, NEW S, IsFiniteSet(S), S # {}
  PROVE  Total(f, S) = f[One(S)] + Total(f, S \ {One(S)})
<1> DEFINE x == One(S)
           T == S \ {x}
<1>1. IsFiniteSet(T) /\ T \in SUBSET S
  BY FS_Subset
<1>2. Adder(f, S)[S] = f[x] + Adder(f, S)[T]
  BY AdderExists, AddsAt
<1> HIDE DEF T
<1>3. Adds(f, S, Adder(f, S)) /\ Adds(f, T, Adder(f, T))
  BY <1>1, AdderExists
<1>4. Adder(f, S)[T] = Adder(f, T)[T]
  BY <1>1, <1>3, AddersAgree
<1>5. QED BY <1>2, <1>4 DEF Total, T

LEMMA TotalNone ==
  ASSUME NEW f
  PROVE  Total(f, {}) = 0
  BY FS_EmptySet, AdderExists, AddsAt DEF Total

Counts(f, S) == IsFiniteSet(S) /\ \A x \in S : f[x] \in Nat

LEMMA CountsLess ==
  ASSUME NEW f, NEW S, Counts(f, S), NEW T \in SUBSET S
  PROVE  Counts(f, T)
  BY FS_Subset DEF Counts

LEMMA TotalNat ==
  ASSUME NEW f, NEW S, Counts(f, S)
  PROVE  Total(f, S) \in Nat
<1> DEFINE bad == {s \in SUBSET S : Total(f, s) \notin Nat}
<1>1. SUFFICES ASSUME bad # {} PROVE FALSE
  OBVIOUS
<1>2. PICK s \in bad : \A u \in SUBSET s : u # s => u \notin bad
  <2>1. bad \in SUBSET (SUBSET S)
    OBVIOUS
  <2> HIDE DEF bad
  <2>2. QED BY <1>1, <2>1, SmallestSet DEF Counts
<1>3. s \in SUBSET S /\ IsFiniteSet(s) /\ Total(f, s) \notin Nat
  BY <1>2, FS_Subset DEF Counts
<1>4. s # {}
  BY <1>3, TotalNone
<1>5. One(s) \in s /\ Total(f, s) = f[One(s)] + Total(f, s \ {One(s)})
  BY <1>3, <1>4, OneOf, TotalStep
<1>6. s \ {One(s)} \in SUBSET s /\ s \ {One(s)} # s /\ s \ {One(s)} \in SUBSET S
  BY <1>3, <1>5
<1>7. f[One(s)] \in Nat /\ Total(f, s \ {One(s)}) \in Nat
  BY <1>2, <1>3, <1>5, <1>6 DEF Counts
<1>8. QED BY <1>3, <1>5, <1>7

(* Any element may be added last. *)
LEMMA TotalSplit ==
  ASSUME NEW f, NEW S, Counts(f, S), NEW r \in S
  PROVE  Total(f, S) = f[r] + Total(f, S \ {r})
<1> DEFINE bad == {s \in SUBSET S : \E x \in s : Total(f, s) # f[x] + Total(f, s \ {x})}
<1>1. SUFFICES ASSUME bad # {} PROVE FALSE
  BY <1>1
<1>2. PICK s \in bad : \A u \in SUBSET s : u # s => u \notin bad
  <2>1. bad \in SUBSET (SUBSET S)
    OBVIOUS
  <2> HIDE DEF bad
  <2>2. QED BY <1>1, <2>1, SmallestSet DEF Counts
<1>3. PICK x \in s : Total(f, s) # f[x] + Total(f, s \ {x})
  BY <1>2
<1> DEFINE y == One(s)
<1>4. /\ s \in SUBSET S /\ y \in s
      /\ Total(f, s) = f[y] + Total(f, s \ {y})
  BY <1>2, <1>3, FS_Subset, OneOf, TotalStep DEF Counts
<1> HIDE DEF y
<1>5. x # y
  BY <1>3, <1>4
<1> DEFINE z == s \ {x, y}
<1>6. (s \ {x}) \ {y} = z /\ (s \ {y}) \ {x} = z
  OBVIOUS
<1>7. /\ Total(f, s \ {y}) = f[x] + Total(f, z)
      /\ Total(f, s \ {x}) = f[y] + Total(f, z)
  <2>1. s \ {y} \notin bad /\ s \ {x} \notin bad
    <3>1. /\ s \ {y} \in SUBSET s /\ s \ {y} # s
          /\ s \ {x} \in SUBSET s /\ s \ {x} # s
      BY <1>3, <1>4
    <3> HIDE DEF bad
    <3>2. QED BY <1>2, <3>1
  <2>2. s \ {y} \in SUBSET S /\ s \ {x} \in SUBSET S /\ x \in s \ {y} /\ y \in s \ {x}
    BY <1>3, <1>4, <1>5
  <2> HIDE DEF z
  <2>3. Total(f, s \ {y}) = f[x] + Total(f, (s \ {y}) \ {x})
    BY <2>1, <2>2
  <2>4. Total(f, s \ {x}) = f[y] + Total(f, (s \ {x}) \ {y})
    BY <2>1, <2>2
  <2>5. QED BY <2>3, <2>4, <1>6
<1>8. /\ f[x] \in Nat /\ f[y] \in Nat /\ Total(f, z) \in Nat
  <2>1. z \in SUBSET S
    BY <1>4
  <2> HIDE DEF z
  <2>2. QED BY <1>3, <1>4, <2>1, CountsLess, TotalNat DEF Counts
<1> HIDE DEF z
<1>9. QED BY <1>3, <1>4, <1>7, <1>8

(* Less is added up to less. *)
LEMMA TotalLess ==
  ASSUME NEW f, NEW S, Counts(f, S), NEW A \in SUBSET S
  PROVE  Total(f, A) <= Total(f, S)
<1> DEFINE bad == {s \in SUBSET S : A \subseteq s /\ ~(Total(f, A) <= Total(f, s))}
<1>1. SUFFICES ASSUME bad # {} PROVE FALSE
  OBVIOUS
<1>2. PICK s \in bad : \A u \in SUBSET s : u # s => u \notin bad
  <2>1. bad \in SUBSET (SUBSET S)
    OBVIOUS
  <2> HIDE DEF bad
  <2>2. QED BY <1>1, <2>1, SmallestSet DEF Counts
<1>3. /\ s \in SUBSET S /\ A \subseteq s /\ ~(Total(f, A) <= Total(f, s))
      /\ Total(f, A) \in Nat /\ Total(f, s) \in Nat
  BY <1>2, CountsLess, TotalNat
<1>4. PICK x \in s : x \notin A
  BY <1>3
<1> DEFINE t == s \ {x}
<1>5. t \in SUBSET s /\ t # s /\ t \in SUBSET S /\ A \subseteq t
  BY <1>3, <1>4
<1>6. Total(f, s) = f[x] + Total(f, t)
  BY <1>3, <1>4, CountsLess, TotalSplit
<1> HIDE DEF t
<1>7. Total(f, A) <= Total(f, t) /\ f[x] \in Nat /\ Total(f, t) \in Nat
  BY <1>2, <1>3, <1>4, <1>5, CountsLess, TotalNat DEF Counts
<1>8. QED BY <1>3, <1>6, <1>7

(* As many, each no more than any that it stands for. *)
LEMMA Exchange ==
  ASSUME NEW f, NEW S, Counts(f, S), NEW A \in SUBSET S, NEW B \in SUBSET S,
         Cardinality(A) = Cardinality(B),
         \A a \in A \ B, b \in B \ A : f[a] <= f[b]
  PROVE  Total(f, A) <= Total(f, B)
<1> DEFINE fits(X) == /\ Cardinality(X) = Cardinality(B)
                      /\ \A a \in X \ B, b \in B \ X : f[a] <= f[b]
           bad == {D \in SUBSET S : \E X \in SUBSET S :
                     X \ B = D /\ fits(X) /\ ~(Total(f, X) <= Total(f, B))}
<1>1. SUFFICES ASSUME bad # {} PROVE FALSE
  <2>1. A \ B \notin bad
    BY <1>1
  <2>2. fits(A)
    OBVIOUS
  <2> HIDE DEF fits
  <2>3. QED BY <2>1, <2>2
<1>2. PICK D \in bad : \A u \in SUBSET D : u # D => u \notin bad
  <2>1. bad \in SUBSET (SUBSET S)
    OBVIOUS
  <2> HIDE DEF bad
  <2>2. QED BY <1>1, <2>1, SmallestSet DEF Counts
<1>3. PICK X \in SUBSET S : X \ B = D /\ fits(X) /\ ~(Total(f, X) <= Total(f, B))
  BY <1>2
<1>4. /\ IsFiniteSet(X) /\ IsFiniteSet(B) /\ Counts(f, X)
      /\ Total(f, X) \in Nat /\ Total(f, B) \in Nat
  BY FS_Subset, CountsLess, TotalNat DEF Counts
<1>5. X # B
  BY <1>3, <1>4
<1>6. PICK a \in X : a \notin B
  <2>1. ~(X \subseteq B)
    BY <1>3, <1>4, <1>5, FS_Subset
  <2>2. QED BY <2>1
<1>7. PICK b \in B : b \notin X
  <2>1. ~(B \subseteq X)
    BY <1>3, <1>4, <1>5, FS_Subset
  <2>2. QED BY <2>1
<1> DEFINE kept == X \ {a}
           Y    == kept \cup {b}
<1>8. Y \in SUBSET S /\ b \in Y /\ Y \ {b} = kept /\ b \notin kept /\ kept \in SUBSET X
  BY <1>6, <1>7
<1>9. Cardinality(Y) = Cardinality(B)
  <2>1. IsFiniteSet(kept) /\ Cardinality(kept) = Cardinality(X) - 1 /\ Cardinality(X) \in Nat
    BY <1>4, <1>6, FS_RemoveElement, FS_CardinalityType
  <2>2. Cardinality(Y) = Cardinality(kept) + 1
    BY <1>8, <2>1, FS_AddElement
  <2>3. QED BY <1>3, <2>1, <2>2
<1>10. Y \ B \subseteq X \ B /\ B \ Y \subseteq B \ X /\ a \in D /\ a \notin Y \ B
  BY <1>3, <1>6, <1>7
<1>11. fits(Y)
  BY <1>3, <1>9, <1>10
<1>12. f[a] <= f[b] /\ f[a] \in Nat /\ f[b] \in Nat
  BY <1>3, <1>6, <1>7 DEF Counts
<1> HIDE DEF fits, kept
<1>13. Total(f, Y) <= Total(f, B)
  <2>1. Y \ B \in SUBSET D /\ Y \ B # D
    BY <1>3, <1>10
  <2>2. Y \ B \notin bad
    <3> HIDE DEF bad, Y
    <3>1. QED BY <1>2, <2>1
  <2>3. Y \ B \in SUBSET S
    BY <1>8
  <2> HIDE DEF Y
  <2>4. QED BY <1>8, <1>11, <2>2, <2>3
<1>14. Total(f, X) = f[a] + Total(f, kept)
  BY <1>4, <1>6, TotalSplit DEF kept
<1>15. Total(f, Y) = f[b] + Total(f, kept)
  <2> HIDE DEF Y
  <2>1. QED BY <1>8, CountsLess, TotalSplit
<1>16. Total(f, kept) \in Nat
  BY <1>4, <1>8, CountsLess, TotalNat
<1>17. QED BY <1>3, <1>4, <1>12, <1>13, <1>14, <1>15, <1>16

LEMMA SumsAreTotals ==
  /\ \A f, S : SumFunctionOnSet(f, S) = Total(f, S)
  /\ \A s : SumSeq(s) = Total(s, DOMAIN s)
  BY DEF SumFunctionOnSet, SumSeq, FoldSeq, FoldFunction, FoldFunctionOnSet, MapThenFoldSet,
         Total, Adder, Adds, One

-----------------------------------------------------------------------------
(* The picks that are free: as many as the allowance, and none of them after *)
(* one that is charged.                                                       *)

LEMMA PicksInOrder ==
  ASSUME NEW d \in Seq(Nat), NEW low \in BOOLEAN,
         NEW i \in DOMAIN d, NEW j \in DOMAIN d, NEW k \in DOMAIN d
  PROVE  /\ ~Before(low, d, i, i)
         /\ i # j => Before(low, d, i, j) \/ Before(low, d, j, i)
         /\ Before(low, d, i, j) /\ Before(low, d, j, k) => Before(low, d, i, k)
         /\ Before(low, d, i, j) => IF low THEN d[i] <= d[j] ELSE d[j] <= d[i]
<1>1. i \in Nat /\ j \in Nat /\ k \in Nat /\ d[i] \in Nat /\ d[j] \in Nat /\ d[k] \in Nat
  OBVIOUS
<1>2. QED BY <1>1 DEF Before

LEMMA AheadFinite ==
  ASSUME NEW d \in Seq(Nat), NEW low, NEW k
  PROVE  /\ IsFiniteSet(DOMAIN d) /\ Cardinality(DOMAIN d) = Len(d) /\ Len(d) \in Nat
         /\ IsFiniteSet(Ahead(low, d, k)) /\ Cardinality(Ahead(low, d, k)) \in Nat
<1>1. DOMAIN d = 1..Len(d) /\ Len(d) \in Nat
  OBVIOUS
<1>2. IsFiniteSet(1..Len(d)) /\ Cardinality(1..Len(d)) = Len(d)
  BY <1>1, FS_Interval
<1>3. Ahead(low, d, k) \in SUBSET (DOMAIN d)
  BY DEF Ahead
<1>4. QED BY <1>1, <1>2, <1>3, FS_Subset, FS_CardinalityType

(* Of two picks the later has more picks ahead of it. *)
LEMMA AheadGrows ==
  ASSUME NEW d \in Seq(Nat), NEW low \in BOOLEAN, NEW j \in DOMAIN d, NEW k \in DOMAIN d,
         Before(low, d, j, k)
  PROVE  Cardinality(Ahead(low, d, j)) < Cardinality(Ahead(low, d, k))
<1>1. Ahead(low, d, j) \in SUBSET Ahead(low, d, k)
  BY PicksInOrder DEF Ahead
<1>2. j \in Ahead(low, d, k) /\ j \notin Ahead(low, d, j)
  BY PicksInOrder DEF Ahead
<1>3. QED BY <1>1, <1>2, AheadFinite, FS_Subset

Firsts(low, d, n) == {k \in DOMAIN d : Cardinality(Ahead(low, d, k)) < n}

LEMMA FirstsFinite ==
  ASSUME NEW d \in Seq(Nat), NEW low, NEW n
  PROVE  /\ Firsts(low, d, n) \in SUBSET (DOMAIN d) /\ IsFiniteSet(Firsts(low, d, n))
         /\ Cardinality(Firsts(low, d, n)) \in Nat
<1>1. Firsts(low, d, n) \in SUBSET (DOMAIN d)
  BY DEF Firsts
<1>2. QED BY <1>1, AheadFinite, FS_Subset, FS_CardinalityType

(* Who comes next after the first m. *)
LEMMA NextPick ==
  ASSUME NEW d \in Seq(Nat), NEW low \in BOOLEAN, NEW m \in Nat, m < Len(d),
         Cardinality(Firsts(low, d, m)) = m
  PROVE  Cardinality(Firsts(low, d, m + 1)) = m + 1
<1> DEFINE F == Firsts(low, d, m)
           left == (DOMAIN d) \ F
           sizes == {Cardinality(Ahead(low, d, k)) : k \in left}
<1>1. F # DOMAIN d
  BY AheadFinite
<1>2. F \in SUBSET (DOMAIN d) /\ IsFiniteSet(F)
  BY FirstsFinite
<1>3. left # {}
  BY <1>1, <1>2
<1>4. sizes \in SUBSET Nat /\ sizes # {}
  BY <1>3, AheadFinite
<1> HIDE DEF sizes
<1>5. PICK n \in sizes : \A o \in sizes : <<o, n>> \notin OpToRel(<, Nat)
  BY <1>4, NatLessThanWellFounded, WFMin
<1>6. PICK k \in left : n = Cardinality(Ahead(low, d, k))
  BY <1>5 DEF sizes
<1>7. ASSUME NEW j \in left, j # k PROVE Before(low, d, k, j)
  <2>1. Before(low, d, j, k) \/ Before(low, d, k, j)
    BY <1>6, <1>7, PicksInOrder
  <2>2. ASSUME Before(low, d, j, k) PROVE FALSE
    <3>1. Cardinality(Ahead(low, d, j)) < Cardinality(Ahead(low, d, k))
      BY <1>6, <1>7, <2>2, AheadGrows
    <3>2. Cardinality(Ahead(low, d, j)) \in sizes
      BY <1>7 DEF sizes
    <3>3. QED BY <1>4, <1>5, <1>6, <3>1, <3>2 DEF OpToRel
  <2>3. QED BY <2>1, <2>2
<1>8. Ahead(low, d, k) \subseteq F
  <2>1. ASSUME NEW j \in Ahead(low, d, k), j \in left PROVE FALSE
    <3>1. Before(low, d, j, k) /\ j \in DOMAIN d /\ k \in DOMAIN d
      BY <1>6, <2>1 DEF Ahead
    <3>2. j # k
      BY <3>1, PicksInOrder
    <3>3. Before(low, d, k, j)
      BY <1>7, <2>1, <3>2
    <3>4. QED BY <3>1, <3>3, PicksInOrder
  <2>2. Ahead(low, d, k) \subseteq DOMAIN d
    BY DEF Ahead
  <2>3. QED BY <2>1, <2>2
<1>9. Cardinality(Ahead(low, d, k)) = m
  <2>1. Cardinality(Ahead(low, d, k)) <= m
    BY <1>2, <1>8, FS_Subset
  <2>2. ~(Cardinality(Ahead(low, d, k)) < m)
    BY <1>6 DEF Firsts
  <2>3. QED BY <2>1, <2>2, AheadFinite
<1>10. Firsts(low, d, m + 1) = F \cup {k}
  <2>1. ASSUME NEW j \in left, j # k PROVE ~(Cardinality(Ahead(low, d, j)) < m + 1)
    <3>1. Cardinality(Ahead(low, d, k)) < Cardinality(Ahead(low, d, j))
      BY <1>6, <1>7, <2>1, AheadGrows
    <3>2. QED BY <1>9, <3>1, AheadFinite
  <2>2. ASSUME NEW j \in F PROVE Cardinality(Ahead(low, d, j)) < m + 1
    <3>1. Cardinality(Ahead(low, d, j)) < m
      BY <2>2 DEF Firsts
    <3>2. QED BY <3>1, AheadFinite
  <2>3. Cardinality(Ahead(low, d, k)) < m + 1
    BY <1>9
  <2>4. k \in DOMAIN d /\ F \subseteq DOMAIN d
    BY <1>2, <1>6
  <2>5. ASSUME NEW j \in DOMAIN d PROVE j \in Firsts(low, d, m + 1) <=> j \in F \cup {k}
    <3> HIDE DEF F
    <3>1. QED BY <2>1, <2>2, <2>3, <2>5 DEF Firsts
  <2>6. Firsts(low, d, m + 1) \subseteq DOMAIN d
    BY DEF Firsts
  <2> HIDE DEF F, left
  <2>7. QED BY <2>4, <2>5, <2>6
<1>11. k \notin F
  BY <1>6
<1> HIDE DEF F
<1>12. QED BY <1>2, <1>10, <1>11, FS_AddElement DEF F

LEMMA LeastIs ==
  ASSUME NEW S \in SUBSET Nat, NEW t \in S
  PROVE  /\ (\A y \in S : t <= y) => Min(S) = t
         /\ (\A y \in S : y <= t) => Max(S) = t
<1>1. ASSUME NEW u \in S, \A y \in S : u <= y, \A y \in S : t <= y PROVE u = t
  BY <1>1
<1>2. ASSUME NEW u \in S, \A y \in S : y <= u, \A y \in S : y <= t PROVE u = t
  BY <1>2
<1>3. ASSUME \A y \in S : t <= y PROVE Min(S) = t
  <2>1. Min(S) \in S /\ \A y \in S : Min(S) <= y
    BY <1>3 DEF Min
  <2>2. QED BY <1>1, <1>3, <2>1
<1>4. ASSUME \A y \in S : y <= t PROVE Max(S) = t
  <2>1. Max(S) \in S /\ \A y \in S : y <= Max(S)
    BY <1>4 DEF Max
  <2>2. QED BY <1>2, <1>4, <2>1
<1>5. QED BY <1>3, <1>4

LEMMA FirstsCounted ==
  ASSUME NEW d \in Seq(Nat), NEW low \in BOOLEAN, NEW n \in Nat
  PROVE  Cardinality(Firsts(low, d, n)) = Min({n, Len(d)})
<1> DEFINE bad == {m \in Nat : m <= Len(d) /\ Cardinality(Firsts(low, d, m)) # m}
<1>1. bad = {}
  <2>1. SUFFICES ASSUME bad # {} PROVE FALSE
    OBVIOUS
  <2>2. bad \in SUBSET Nat
    OBVIOUS
  <2> HIDE DEF bad
  <2>3. PICK m \in bad : \A o \in bad : <<o, m>> \notin OpToRel(<, Nat)
    BY <2>1, <2>2, NatLessThanWellFounded, WFMin
  <2> USE DEF bad
  <2>4. m \in Nat /\ m <= Len(d) /\ Cardinality(Firsts(low, d, m)) # m
    OBVIOUS
  <2>5. m # 0
    <3>1. Firsts(low, d, 0) = {}
      BY AheadFinite DEF Firsts
    <3>2. QED BY <2>4, <3>1, FS_EmptySet
  <2>6. m - 1 \in Nat /\ m - 1 < m /\ m - 1 < Len(d) /\ m - 1 <= Len(d)
    BY <2>4, <2>5
  <2>7. m - 1 \notin bad
    BY <2>2, <2>3, <2>6 DEF OpToRel
  <2>8. Cardinality(Firsts(low, d, m - 1)) = m - 1
    BY <2>6, <2>7
  <2>9. Cardinality(Firsts(low, d, (m - 1) + 1)) = (m - 1) + 1
    BY <2>6, <2>8, NextPick
  <2>10. (m - 1) + 1 = m
    BY <2>4
  <2>11. QED BY <2>4, <2>9, <2>10
<1>2. \A m \in Nat : m <= Len(d) => Cardinality(Firsts(low, d, m)) = m
  BY <1>1
<1>3. Len(d) \in Nat
  OBVIOUS
<1>4. CASE n <= Len(d)
  <2>1. Min({n, Len(d)}) = n
    BY <1>3, <1>4 DEF Min
  <2>2. QED BY <1>2, <1>4, <2>1
<1>5. CASE Len(d) < n
  <2>1. Min({n, Len(d)}) = Len(d)
    BY <1>3, <1>5 DEF Min
  <2>2. Cardinality(Firsts(low, d, Len(d))) = Len(d)
    BY <1>2, <1>3
  <2>3. Firsts(low, d, Len(d)) = DOMAIN d
    BY <2>2, AheadFinite, FirstsFinite, FS_Subset
  <2>4. Firsts(low, d, n) = DOMAIN d
    <3>1. ASSUME NEW k \in DOMAIN d PROVE Cardinality(Ahead(low, d, k)) < n
      <4>1. Cardinality(Ahead(low, d, k)) < Len(d)
        BY <2>3 DEF Firsts
      <4>2. QED BY <1>3, <1>5, <4>1, AheadFinite
    <3>2. QED BY <3>1 DEF Firsts
  <2>5. QED BY <2>1, <2>2, <2>3, <2>4
<1>6. QED BY <1>3, <1>4, <1>5

(* What is charged is what is left when the picks that the strategy names are *)
(* off, whichever others of their number could be.                            *)
LEMMA ChargedFairly ==
  ASSUME NEW d \in Seq(Nat), NEW row, row.free \in Nat, row.lowest \in BOOLEAN
  PROVE  Charged(row, d) = Fairest(row, d)
<1> DEFINE D   == DOMAIN d
           P   == FreePicks(row, d)
           n   == Min({row.free, Len(d)})
           off == {SumFunctionOnSet(d, S) : S \in kSubset(n, D)}
<1>1. P = Firsts(row.lowest, d, row.free)
  BY DEF FreePicks, Firsts
<1>2. Counts(d, D)
  BY AheadFinite DEF Counts
<1>3. P \in SUBSET D /\ Cardinality(P) = n
  BY <1>1, FirstsFinite, FirstsCounted
<1>4. ASSUME NEW a \in P, NEW b \in D, b \notin P
      PROVE  IF row.lowest THEN d[a] <= d[b] ELSE d[b] <= d[a]
  <2>1. a \in D /\ b \in D /\ a # b
    BY <1>3, <1>4
  <2>2. ~Before(row.lowest, d, b, a)
    <3>1. ASSUME Before(row.lowest, d, b, a) PROVE FALSE
      <4>1. Cardinality(Ahead(row.lowest, d, b)) < Cardinality(Ahead(row.lowest, d, a))
        BY <2>1, <3>1, AheadGrows
      <4>2. Cardinality(Ahead(row.lowest, d, a)) < row.free
        BY <1>4 DEF FreePicks
      <4>3. ~(Cardinality(Ahead(row.lowest, d, b)) < row.free)
        BY <1>4 DEF FreePicks
      <4>4. QED BY <4>1, <4>2, <4>3, AheadFinite
    <3>2. QED BY <3>1
  <2>3. Before(row.lowest, d, a, b)
    BY <2>1, <2>2, PicksInOrder
  <2>4. QED BY <2>1, <2>3, PicksInOrder
<1> HIDE DEF P, D, n
<1>5. P \in kSubset(n, D)
  BY <1>3 DEF kSubset
<1>6. ASSUME NEW S \in kSubset(n, D)
      PROVE  /\ Total(d, S) \in Nat
             /\ row.lowest => Total(d, P) <= Total(d, S)
             /\ ~row.lowest => Total(d, S) <= Total(d, P)
  <2>1. S \in SUBSET D /\ Cardinality(S) = n
    BY DEF kSubset
  <2>2. row.lowest => \A a \in P \ S, b \in S \ P : d[a] <= d[b]
    BY <1>4, <2>1
  <2>3. ~row.lowest => \A b \in S \ P, a \in P \ S : d[b] <= d[a]
    BY <1>4, <2>1
  <2>4. row.lowest => Total(d, P) <= Total(d, S)
    BY <1>2, <1>3, <2>1, <2>2, Exchange
  <2>5. ~row.lowest => Total(d, S) <= Total(d, P)
    BY <1>2, <1>3, <2>1, <2>3, Exchange
  <2>6. QED BY <1>2, <2>1, <2>4, <2>5, CountsLess, TotalNat
<1>7. off = {Total(d, S) : S \in kSubset(n, D)}
  BY SumsAreTotals
<1>8. /\ Total(d, P) \in off /\ off \subseteq Nat
      /\ row.lowest => \A y \in off : Total(d, P) <= y
      /\ ~row.lowest => \A y \in off : y <= Total(d, P)
  <2> HIDE DEF off
  <2>1. QED BY <1>5, <1>6, <1>7
<1> HIDE DEF off
<1>9. (IF row.lowest THEN Min(off) ELSE Max(off)) = Total(d, P)
  <2>1. CASE row.lowest
    <3>1. Min(off) = Total(d, P)
      BY <1>8, <2>1, LeastIs
    <3>2. QED BY <2>1, <3>1
  <2>2. CASE ~row.lowest
    <3>1. Max(off) = Total(d, P)
      BY <1>8, <2>2, LeastIs
    <3>2. QED BY <2>2, <3>1
  <2>3. QED BY <2>1, <2>2
<1>10. Fairest(row, d) = Total(d, D) - Total(d, P)
  BY <1>9, SumsAreTotals DEF Fairest, off, n, D
<1>11. Charged(row, d) = Max({Total(d, D) - Total(d, P), 0})
  <2>1. Charged(row, d) = Max({0} \cup {SumSeq(e) - SumFunctionOnSet(e, FreePicks(row, e)) : e \in {d}})
    BY DEF Charged
  <2>2. {SumSeq(e) - SumFunctionOnSet(e, FreePicks(row, e)) : e \in {d}} = {Total(d, D) - Total(d, P)}
    BY SumsAreTotals DEF P, D
  <2>3. {0} \cup {Total(d, D) - Total(d, P)} = {Total(d, D) - Total(d, P), 0}
    OBVIOUS
  <2>4. QED BY <2>1, <2>2, <2>3
<1>12. Total(d, D) \in Nat /\ Total(d, P) \in Nat /\ Total(d, P) <= Total(d, D)
  BY <1>2, <1>3, CountsLess, TotalNat, TotalLess
<1>13. Max({Total(d, D) - Total(d, P), 0}) = Total(d, D) - Total(d, P)
  BY <1>12 DEF Max
<1>14. QED BY <1>10, <1>11, <1>13

-----------------------------------------------------------------------------
(* What the picks of an entry cost, one by one. *)

Flattens(s, m, h) == h = [i \in 1..m |-> IF i = 1 THEN s[i] ELSE h[i - 1] \o s[i]]
Flattened(s) == CHOOSE h : Flattens(s, Len(s), h)

LEMMA FlattensAt ==
  ASSUME NEW s, NEW m, NEW h, Flattens(s, m, h), NEW i \in 1..m
  PROVE  h[i] = IF i = 1 THEN s[i] ELSE h[i - 1] \o s[i]
<1> DEFINE body(k) == IF k = 1 THEN s[k] ELSE h[k - 1] \o s[k]
<1>1. h = [k \in 1..m |-> body(k)]
  BY DEF Flattens
<1>2. h[i] = body(i)
  BY <1>1
<1>3. QED BY <1>2

LEMMA FlattensOn ==
  ASSUME NEW s, NEW m \in Nat, NEW h, Flattens(s, m, h)
  PROVE  \E e : Flattens(s, m + 1, e)
<1> DEFINE n == m + 1
           e == [i \in 1..n |-> IF i = n THEN IF n = 1 THEN s[n] ELSE h[m] \o s[n] ELSE h[i]]
           body(k) == IF k = 1 THEN s[k] ELSE e[k - 1] \o s[k]
<1>1. ASSUME NEW i \in 1..n PROVE e[i] = body(i)
  <2>1. CASE i = n
    <3>1. CASE n = 1
      BY <2>1, <3>1
    <3>2. CASE n # 1
      <4>1. n - 1 = m /\ m \in 1..n /\ m # n
        BY <3>2
      <4>2. e[m] = h[m]
        BY <4>1
      <4>3. e[n] = h[m] \o s[n]
        <5>1. n \in 1..n
          OBVIOUS
        <5> DEFINE d(k) == IF k = n THEN IF n = 1 THEN s[n] ELSE h[m] \o s[n] ELSE h[k]
        <5>2. e[n] = d(n)
          BY <5>1
        <5>3. QED BY <3>2, <5>2
      <4>4. body(n) = e[n - 1] \o s[n]
        BY <3>2
      <4> HIDE DEF e, body, n
      <4>5. QED BY <2>1, <4>1, <4>2, <4>3, <4>4
    <3>3. QED BY <3>1, <3>2
  <2>2. CASE i # n
    <3>1. i \in 1..m /\ e[i] = h[i]
      BY <2>2
    <3>2. h[i] = IF i = 1 THEN s[i] ELSE h[i - 1] \o s[i]
      BY <3>1, FlattensAt
    <3>3. i # 1 => i - 1 \in 1..n /\ i - 1 # n
      BY <3>1
    <3>4. i # 1 => e[i - 1] = h[i - 1]
      BY <3>3
    <3> HIDE DEF e, n
    <3>5. QED BY <3>1, <3>2, <3>4
  <2>3. QED BY <2>1, <2>2
<1>2. e = [i \in 1..n |-> body(i)]
  <2>1. [i \in 1..n |-> e[i]] = [i \in 1..n |-> body(i)]
    BY <1>1
  <2>2. e = [i \in 1..n |-> e[i]]
    OBVIOUS
  <2>3. QED BY <2>1, <2>2
<1>3. Flattens(s, n, e)
  BY <1>2 DEF Flattens
<1>4. QED BY <1>3

LEMMA FlattenedExists ==
  ASSUME NEW s, NEW n \in Nat
  PROVE  \E h : Flattens(s, n, h)
<1> DEFINE bad == {m \in Nat : ~\E h : Flattens(s, m, h)}
<1>1. SUFFICES ASSUME bad # {} PROVE FALSE
  OBVIOUS
<1>2. bad \in SUBSET Nat
  OBVIOUS
<1>3. PICK m \in bad : \A o \in bad : <<o, m>> \notin OpToRel(<, Nat)
  <2> HIDE DEF bad
  <2>1. QED BY <1>1, <1>2, NatLessThanWellFounded, WFMin
<1>4. CASE m = 0
  <2> DEFINE h == [i \in 1..0 |-> 0]
  <2>1. h = [i \in 1..0 |-> IF i = 1 THEN s[i] ELSE h[i - 1] \o s[i]]
    OBVIOUS
  <2>2. QED BY <1>3, <1>4, <2>1 DEF Flattens
<1>5. CASE m # 0
  <2>1. m - 1 \in Nat /\ m - 1 < m /\ (m - 1) + 1 = m
    <3>1. m \in Nat
      OBVIOUS
    <3> HIDE DEF bad
    <3>2. QED BY <1>5, <3>1
  <2>2. m - 1 \notin bad
    BY <1>3, <2>1 DEF OpToRel
  <2>3. PICK h : Flattens(s, m - 1, h)
    BY <2>1, <2>2
  <2>4. \E e : Flattens(s, m, e)
    BY <2>1, <2>3, FlattensOn
  <2>5. QED BY <1>3, <2>4
<1>6. QED BY <1>4, <1>5

LEMMA FlattenTyped ==
  ASSUME NEW T, NEW s \in Seq(Seq(T))
  PROVE  FlattenSeq(s) \in Seq(T)
<1> DEFINE h == Flattened(s)
           bad == {i \in 1..Len(s) : h[i] \notin Seq(T)}
<1>1. Flattens(s, Len(s), h)
  <2>1. \E e : Flattens(s, Len(s), e)
    <3>1. Len(s) \in Nat
      OBVIOUS
    <3> HIDE DEF h, bad
    <3>2. QED BY <3>1, FlattenedExists
  <2>2. QED BY <2>1 DEF Flattened
<1>2. CASE Len(s) = 0
  BY <1>2 DEF FlattenSeq
<1>3. CASE Len(s) # 0
  <2>1. FlattenSeq(s) = h[Len(s)]
    BY <1>3 DEF FlattenSeq, Flattened, Flattens
  <2> HIDE DEF h
  <2>2. bad = {}
    <3>1. SUFFICES ASSUME bad # {} PROVE FALSE
      OBVIOUS
    <3>2. bad \in SUBSET Nat
      OBVIOUS
    <3> HIDE DEF bad
    <3>3. PICK i \in bad : \A o \in bad : <<o, i>> \notin OpToRel(<, Nat)
      BY <3>1, <3>2, NatLessThanWellFounded, WFMin
    <3>4. i \in 1..Len(s) /\ h[i] \notin Seq(T) /\ s[i] \in Seq(T)
      BY DEF bad
    <3>5. h[i] = IF i = 1 THEN s[i] ELSE h[i - 1] \o s[i]
      BY <1>1, <3>4, FlattensAt
    <3>6. i # 1
      BY <3>4, <3>5
    <3>7. i - 1 \in 1..Len(s) /\ i - 1 \in Nat /\ i \in Nat /\ i - 1 < i
      BY <3>4, <3>6
    <3>8. i - 1 \notin bad
      BY <3>3, <3>7 DEF OpToRel
    <3>9. h[i - 1] \in Seq(T)
      BY <3>7, <3>8 DEF bad
    <3>10. QED BY <3>4, <3>5, <3>6, <3>9
  <2>3. Len(s) \in 1..Len(s)
    BY <1>3
  <2>4. QED BY <2>1, <2>2, <2>3
<1>4. QED BY <1>2, <1>3

LEMMA DeltasTyped ==
  ASSUME NEW entry \in Entry, NEW values, \A v \in DOMAIN values : values[v].delta \in Nat
  PROVE  Deltas(entry, values) \in Seq(Nat)
<1> DEFINE one(k) == LET pick == entry.picks[k]
                     IN IF pick.value \in DOMAIN values /\ values[pick.value].group = entry.group
                        THEN Repeat(values[pick.value].delta, Max({pick.qty, 1})) ELSE << >>
           n == Len(entry.picks)
<1>1. entry.picks \in Seq(PickRow) /\ n \in Nat /\ DOMAIN entry.picks = 1..n
  BY DEF Entry
<1>2. ASSUME NEW k \in 1..n PROVE one(k) \in Seq(Nat)
  <2>1. entry.picks[k].qty \in Nat
    <3>1. entry.picks[k] \in PickRow
      BY <1>1
    <3>2. QED BY <3>1 DEF PickRow
  <2>2. Max({entry.picks[k].qty, 1}) \in Nat
    <3> DEFINE q == entry.picks[k].qty
    <3> HIDE DEF q
    <3>1. q \in Nat
      BY <2>1 DEF q
    <3>2. {q, 1} \in SUBSET Nat /\ q \in {q, 1} /\ 1 \in {q, 1}
      BY <3>1
    <3>3. Max({q, 1}) = q \/ Max({q, 1}) = 1
      BY <3>1, <3>2, LeastIs
    <3>4. QED BY <3>1, <3>3 DEF q
  <2>3. ASSUME NEW x \in Nat, NEW m \in Nat PROVE Repeat(x, m) \in Seq(Nat)
    <3>1. [i \in 1..m |-> x] \in Seq(Nat)
      OBVIOUS
    <3>2. QED BY <3>1 DEF Repeat
  <2> DEFINE pick == entry.picks[k]
             many == Repeat(values[pick.value].delta, Max({pick.qty, 1}))
  <2>4. pick.value \in DOMAIN values => many \in Seq(Nat)
    BY <2>2, <2>3
  <2>5. (pick.value \in DOMAIN values /\ one(k) = many) \/ one(k) = << >>
    OBVIOUS
  <2> HIDE DEF many, one, pick
  <2>6. << >> \in Seq(Nat)
    OBVIOUS
  <2>7. QED BY <2>4, <2>5, <2>6
<1> HIDE DEF one
<1>3. [k \in 1..n |-> one(k)] \in Seq(Seq(Nat))
  BY <1>1, <1>2
<1>4. Deltas(entry, values) = FlattenSeq([k \in 1..n |-> one(k)])
  BY <1>1 DEF Deltas, one
<1>5. QED BY <1>3, <1>4, FlattenTyped

-----------------------------------------------------------------------------
(* The prices that the thread has read, and the total that it adds up. *)
PriceInv ==
  /\ \A g \in DOMAIN sawGroups : sawGroups[g].free \in Nat /\ sawGroups[g].lowest \in BOOLEAN
  /\ \A v \in DOMAIN sawValues : sawValues[v].delta \in Nat
  /\ at = "insert" => order.total = OptionTotal(sawGroups, sawValues, order.payload)

LEMMA RowsPriced ==
  ASSUME MenuInv
  PROVE  /\ \A i \in Items, g \in Groups : attach[<<i, g>>] # Null =>
              LET row == Effective(group[g].row, attach[<<i, g>>])
              IN row.free \in Nat /\ row.lowest \in BOOLEAN
         /\ \A v \in Live(value) : value[v].delta \in Nat
<1>1. ASSUME NEW i \in Items, NEW g \in Groups, attach[<<i, g>>] # Null
      PROVE  LET row == Effective(group[g].row, attach[<<i, g>>])
             IN row.free \in Nat /\ row.lowest \in BOOLEAN
  <2>1. attach[<<i, g>>] \in Override
    BY <1>1 DEF MenuInv, TablesInv, RowsTyped
  <2>2. g \in Live(group)
    BY <1>1 DEF MenuInv, TablesInv, JoinsAgree
  <2>3. group[g].row \in GroupRow(Limits)
    BY <2>2 DEF MenuInv, TablesInv, RowsTyped, Live, Group
  <2> DEFINE row == group[g].row
             over == attach[<<i, g>>]
  <2>4. row.free \in Limits /\ row.lowest \in BOOLEAN /\ over.free \in Limits \cup {Null}
        /\ DOMAIN row = {"single", "min", "max", "free", "lowest", "many", "cap", "required",
                         "avail", "mentioned"}
    BY <2>1, <2>3 DEF GroupRow, Override
  <2> HIDE DEF row, over
  <2>5. /\ Effective(row, over).free = IF over.free = Null THEN row.free ELSE over.free
        /\ Effective(row, over).lowest = row.lowest
    BY <2>4 DEF Effective
  <2>6. QED BY <2>4, <2>5, CatalogAssumption DEF row, over
<1>2. ASSUME NEW v \in Live(value) PROVE value[v].delta \in Nat
  BY <1>2, CatalogAssumption DEF MenuInv, TablesInv, RowsTyped, Live, Value
<1>3. QED BY <1>1, <1>2

LEMMA PriceStep ==
  ASSUME MenuInv, TalkInv, PriceInv, [Next]_vars
  PROVE  PriceInv'
<1>1. /\ DOMAIN order = DOMAIN NoOrder
      /\ at \in {"item", "groups", "values", "resume"} => item \in Items
  BY DEF TalkInv, VoiceTypes
<1>2. CASE UNCHANGED <<sawGroups, sawValues>> /\ (at' # "insert" \/ UNCHANGED <<at, order>>)
  BY <1>2 DEF PriceInv
<1>3. CASE sawGroups' = << >> /\ sawValues' = << >> /\ at' # "insert"
  BY <1>3 DEF PriceInv
<1>4. CASE Dashboard \/ UNCHANGED vars
  BY <1>2, <1>4, EditsCount DEF vars, voice, reads
<1>5. CASE ReadItem \/ ReadPrices
  BY <1>2, <1>5 DEF ReadItem, ReadPrices
<1>6. CASE ReadGroups
  <2> DEFINE found == {g \in Groups : attach[<<item, g>>] # Null}
  <2>1. /\ sawGroups' = [g \in found |-> Effective(group[g].row, attach[<<item, g>>])]
        /\ sawValues' = sawValues /\ at' # "insert" /\ item \in Items
    BY <1>1, <1>6 DEF ReadGroups
  <2>2. \A g \in DOMAIN sawGroups' : sawGroups'[g].free \in Nat /\ sawGroups'[g].lowest \in BOOLEAN
    BY <2>1, RowsPriced
  <2>3. QED BY <2>1, <2>2 DEF PriceInv
<1>7. CASE ReadValues
  <2>1. /\ sawValues' = ValuesFor(sawGroups) /\ sawGroups' = sawGroups /\ at' # "insert"
    BY <1>7 DEF ReadValues, ValuesFor
  <2>2. \A v \in DOMAIN sawValues' : sawValues'[v].delta \in Nat
    BY <2>1, RowsPriced DEF ValuesFor
  <2>3. QED BY <2>1, <2>2 DEF PriceInv
<1>8. CASE ResumePrice
  <2> DEFINE total == OptionTotal(sawGroups, sawValues, order.payload)
             rows  == Snapshots(sawGroups, sawValues, order.payload)
             calm  == order.began = edits
  <2>1. order' = [order EXCEPT !.total = total, !.options = rows, !.calm = calm]
        /\ UNCHANGED <<sawGroups, sawValues>>
    BY <1>8 DEF ResumePrice
  <2> HIDE DEF total, rows, calm
  <2>2. order'.payload = order.payload /\ order'.total = total
    BY <1>1, <2>1 DEF NoOrder
  <2>3. QED BY <2>1, <2>2 DEF PriceInv, total
<1>9. CASE ResumeDetail \/ ResumeValidate \/ InsertOrder
  BY <1>2, <1>3, <1>9 DEF ResumeDetail, ResumeValidate, InsertOrder, StartRead
<1>10. CASE ResumeAsk
  BY <1>2, <1>10 DEF ResumeAsk
<1>11. CASE Agent
  <2>1. ASSUME NEW i \in Items, \/ Detail(i)
                                \/ \E mention, reset \in BOOLEAN : Begin(i, mention, reset)
                                \/ \E payload \in Payloads : OrderAnything(i, payload)
        PROVE  PriceInv'
    BY <1>3, <2>1 DEF Detail, Begin, OrderAnything, StartOrder, StartRead
  <2>2. CASE OrderTalked
    BY <1>3, <2>2 DEF OrderTalked, StartOrder, StartRead
  <2>3. CASE GiveUp \/ Timeout \/ \E mention \in Wishes : Answer(mention)
    BY <1>2, <2>3 DEF GiveUp, Timeout, Answer, reads
  <2>4. QED BY <1>11, <2>1, <2>2, <2>3 DEF Agent
<1>12. QED BY <1>4, <1>5, <1>6, <1>7, <1>8, <1>9, <1>10, <1>11 DEF Next, Read, Resume

LEMMA FairlyPriced == TalkInv /\ PriceInv => RightOnesOff
<1> SUFFICES ASSUME TalkInv, PriceInv, at = "insert" PROVE RightOnesOff
  BY DEF RightOnesOff
<1> DEFINE fair(k) == LET g == order.payload[k].group
                      IN IF g \in DOMAIN sawGroups
                         THEN Fairest(sawGroups[g], Deltas(order.payload[k], sawValues)) ELSE 0
<1>1. ASSUME NEW k \in DOMAIN order.payload
      PROVE  EntryPrice(sawGroups, sawValues, order.payload[k]) = fair(k)
  <2>1. order.payload[k] \in Entry
    BY <1>1 DEF TalkInv, VoiceTypes
  <2>2. Deltas(order.payload[k], sawValues) \in Seq(Nat)
    BY <2>1, DeltasTyped DEF PriceInv
  <2>3. QED BY <2>2, ChargedFairly DEF PriceInv, EntryPrice
<1> HIDE DEF fair
<1>2. [k \in DOMAIN order.payload |-> EntryPrice(sawGroups, sawValues, order.payload[k])]
        = [k \in DOMAIN order.payload |-> fair(k)]
  BY <1>1
<1>3. order.total = SumSeq([k \in DOMAIN order.payload |-> fair(k)])
  BY <1>2 DEF PriceInv, OptionTotal
<1>4. QED BY <1>3 DEF RightOnesOff, fair

(* Whoever edits the menu and whatever is ordered, the allowance of every      *)
(* group takes off, of all picks that it could, those that its strategy names: *)
(* no other choice of as many would make the order cheaper, or dearer.         *)
THEOREM AllowanceIsFair == Spec /\ RowsAgree => []RightOnesOff
<1>1. Init /\ RowsAgree => MenuInv /\ TalkInv /\ PriceInv
  BY InitMenu, InitTalk DEF Init, PriceInv
<1>2. MenuInv /\ TalkInv /\ PriceInv /\ [Next]_vars => (MenuInv /\ TalkInv /\ PriceInv)'
  BY MenuStep, TalkStep, PriceStep
<1>3. TalkInv /\ PriceInv => RightOnesOff
  BY FairlyPriced
<1>4. QED BY <1>1, <1>2, <1>3, PTL DEF Spec
=============================================================================
