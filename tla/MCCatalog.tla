------------------------------ MODULE MCCatalog ------------------------------
(* An instance of Catalog for TLC: an item with a single-select group of two *)
(* values and a group of several, beside an item of another restaurant.      *)
EXTENDS Catalog

CONSTANTS r1, r2, n1, n2

Pick(v, q) == [value |-> v, qty |-> q]

Size   == [single |-> TRUE, min |-> 0, max |-> 1, free |-> 0, lowest |-> FALSE, many |-> FALSE,
           cap |-> Null, required |-> TRUE, avail |-> TRUE, mentioned |-> FALSE]
Extras == [single |-> FALSE, min |-> 1, max |-> 2, free |-> 1, lowest |-> FALSE, many |-> TRUE,
           cap |-> 2, required |-> FALSE, avail |-> TRUE, mentioned |-> FALSE]
Closed == [Extras EXCEPT !.avail = FALSE]
Cheap  == [Extras EXCEPT !.lowest = TRUE, !.mentioned = TRUE, !.min = 0, !.max = Null]

Menu0 == <<[rest |-> r1, name |-> n1, avail |-> TRUE, special |-> FALSE, suggested |-> {}],
           [rest |-> r2, name |-> n1, avail |-> TRUE, special |-> FALSE, suggested |-> {}],
           Null>>
Groups0 == <<[rest |-> r1, row |-> Size], [rest |-> r1, row |-> Extras], Null>>
Values0 == <<[group |-> 1, default |-> TRUE,  avail |-> TRUE, delta |-> 0],
             [group |-> 1, default |-> FALSE, avail |-> FALSE, delta |-> 2],
             [group |-> 2, default |-> FALSE, avail |-> TRUE, delta |-> 1],
             [group |-> 2, default |-> FALSE, avail |-> TRUE, delta |-> 2], Null>>
TwoOrMore == [min |-> 2, max |-> Null, free |-> Null]
Attached0 == [p \in Items \X Groups |-> CASE p = <<1, 1>> -> NoOverride
                                          [] p = <<1, 2>> -> TwoOrMore [] OTHER -> Null]

Rows      == {Size, Extras, Closed, Cheap}
Overrides == {NoOverride}
Orders0   == {<<[group |-> 1, picks |-> <<Pick(3, 1)>>], [group |-> 2, picks |-> <<Pick(3, 2), Pick(4, 1)>>]>>,
              <<[group |-> 2, picks |-> <<Pick(3, 2), Pick(4, 1)>>]>>}
=============================================================================
