--------------------------- MODULE MCReservations ---------------------------
(* Small instances of Reservations for TLC. *)
EXTENDS Reservations

CONSTANTS c1, p1, p2, t1, t2, s1

OneCaller == [c \in Calls |-> p1]
Minutes   == [t \in Times |-> IF t = s1 THEN t1 ELSE t]  \* s1: t1 and some seconds

Create(t, p) == [kind |-> "create", change |-> Wanted(t, p)]
Update(e)    == [kind |-> "update", change |-> e]
Status(s)    == [NoChange EXCEPT !.status = s]

(* What the caller may ask, and what the staff may edit. *)
AllAsks  == {Create(t1, 2), Create(s1, 2), Update(Wanted(t1, 2)), Update(Status("cancelled"))}
AllEdits == {Wanted(t1, None), Wanted(t1, 1), [Status("confirmed") EXCEPT !.party = 2]}

(* A caller who moves a reservation that the staff confirmed. *)
MoveAsks == {Update(Wanted(t1, None))}
=============================================================================
