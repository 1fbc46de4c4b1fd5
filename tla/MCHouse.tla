-------------------------------- MODULE MCHouse --------------------------------
(* The parts of the house that share no state, one at a time: the accounts,    *)
(* the customers, the desk, the tables that may be booked, the connections to  *)
(* the database, and the voice of the agent on a call.  Each has its own       *)
(* actions and its own bounds.                                                 *)
EXTENDS Accounts, Desk, Availability, ConnectionPool, AudioPath

CONSTANTS bistro, diner, ann, bob, home, work, name

VARIABLE focus

Staff == {Emails}
Guests == {[phone |-> home, email |-> NoData, name |-> name, spam |-> FALSE],
           [phone |-> home, email |-> ann, name |-> NoData, spam |-> FALSE],
           [phone |-> work, email |-> ann, name |-> name, spam |-> FALSE],
           [phone |-> NoData, email |-> ann, name |-> name, spam |-> TRUE]}

(* Two days of three slots: one day that ends after midnight and a closed   *)
(* one; one of 24 hours and one off the boundaries; two without usual hours.*)
Hours(open, close) == [NoHours EXCEPT !.open = open, !.close = close]
Pair(first, second) == [d \in Days |-> IF d = 0 THEN first ELSE second]
HouseWeeks == {Null, Pair(Hours(8, 4), ClosedDay), Pair(OpenDay, Hours(6, 10)), Pair(NoHours, Hours(8, 8)),
               Pair(Hours(7, 4), NoHours)}
HouseTables == {t \in 0..36 : OnBoundary(t)}
Behind == -4

HouseInit ==
  /\ AccountsInit /\ DeskInit /\ AvailabilityInit /\ PoolInit /\ AudioInit
  /\ focus \in {"staff", "guests", "desk", "tables", "pool", "voice"}
  /\ focus # "desk" => reachable
  /\ focus # "pool" => ~allow
  /\ (focus # "tables") <=> (week = Null)

People == \/ focus = "staff" /\ Staffing
          \/ focus = "guests" /\ (Serving(Guests) \/ \E v \in Venues : CloseVenue(v))

HouseNext ==
  /\ UNCHANGED focus
  /\ \/ People /\ UNCHANGED <<deskVars, availabilityVars, poolVars, audioVars>>
     \/ focus = "desk" /\ DeskNext /\ UNCHANGED <<accountVars, availabilityVars, poolVars, audioVars>>
     \/ focus = "tables" /\ AvailabilityNext /\ UNCHANGED <<accountVars, deskVars, poolVars, audioVars>>
     \/ focus = "pool" /\ PoolNext /\ UNCHANGED <<accountVars, deskVars, availabilityVars, audioVars>>
     \/ focus = "voice" /\ AudioNext /\ UNCHANGED <<accountVars, deskVars, availabilityVars, poolVars>>

HouseSpec == /\ HouseInit
             /\ [][HouseNext]_<<accountVars, deskVars, availabilityVars, poolVars, audioVars, focus>>
             /\ DeskFairness
=============================================================================
