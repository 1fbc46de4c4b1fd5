----------------------------- MODULE OrderBook -----------------------------
(***************************************************************************)
(* What the orders are promised to be, whoever writes them: a book with a  *)
(* page for each order.  A caller's words are on his own page; a page that *)
(* nobody is writing shows all of one writer's words, unless two wrote it  *)
(* at once or one left off, and then until somebody rewrites it alone.     *)
(* Nobody marks a page that is struck out, only the staff strike one out,  *)
(* and a page is announced once.  VoiceOrders implements this.             *)
(*                                                                         *)
(* An operation says how page p becomes q; what it leaves open of q is q's *)
(* own.                                                                    *)
(***************************************************************************)
EXTENDS Naturals

CONSTANTS
  Orders,
  Pens,       \* who writes
  Holder,     \* whose pen it is: a caller's, or Staff
  Word,       \* what a pen writes
  Callers, Words, Marks,
  Staff, None

VARIABLE book

Page == [owner : Callers \cup {None}, pens : SUBSET Pens, shows : Words \cup {None},
         spoilt : BOOLEAN, mark : Marks, struck : BOOLEAN, told : BOOLEAN]

Blank == [owner |-> None, pens |-> {}, shows |-> None, spoilt |-> FALSE,
          mark |-> "pending", struck |-> FALSE, told |-> FALSE]

Used(p)    == p.owner # None
May(x, p)  == Used(p) /\ Holder[x] \in {Staff, p.owner}

(* A page is begun by the pen of the caller whose it is to be. *)
Begin(p, q) == \E x \in Pens :
  /\ p = Blank /\ Holder[x] # Staff
  /\ q = [Blank EXCEPT !.owner = Holder[x], !.pens = {x}]

(* A pen is put to a page.  If another is at it, the page is spoilt.  The   *)
(* staff mark it in the same stroke, and take no page that is struck out.   *)
Take(p, q) == \E x \in Pens \ p.pens :
  /\ May(x, p) /\ (Holder[x] = Staff => ~p.struck)
  /\ q = [p EXCEPT !.pens = @ \cup {x}, !.spoilt = p.pens # {}, !.shows = q.shows,
                   !.mark = IF Holder[x] = Staff THEN q.mark ELSE @]

(* While it is written, a page may show anything. *)
Scribble(p, q) == p.pens # {} /\ q = [p EXCEPT !.shows = q.shows]

(* A pen is done: unless the page is spoilt, it shows what the pen wrote.   *)
Finish(p, q) == \E x \in p.pens :
  q = [p EXCEPT !.pens = @ \ {x}, !.shows = IF p.spoilt THEN q.shows ELSE Word[x]]

LeaveOff(p, q) == \E x \in p.pens : q = [p EXCEPT !.pens = @ \ {x}, !.spoilt = TRUE]

Mark(p, q) == Used(p) /\ ~p.struck /\ q = [p EXCEPT !.mark = q.mark]

Strike(p, q)  == Used(p) /\ ~p.struck /\ q = [p EXCEPT !.struck = TRUE]
Restore(p, q) == Used(p) /\ p.struck /\ q = [p EXCEPT !.struck = FALSE]

Announce(p, q) == Used(p) /\ ~p.told /\ q = [p EXCEPT !.told = TRUE]

Turn(p, q) ==
  \/ Begin(p, q) \/ Take(p, q) \/ Scribble(p, q) \/ Finish(p, q) \/ LeaveOff(p, q)
  \/ Mark(p, q) \/ Strike(p, q) \/ Restore(p, q) \/ Announce(p, q)

(* All leave off at once. *)
Stopped(p) == [p EXCEPT !.pens = {}, !.spoilt = @ \/ p.pens # {}]

-----------------------------------------------------------------------------
Init == book = [o \in Orders |-> Blank]

Write(o) == /\ Turn(book[o], book'[o])
            /\ \A other \in Orders \ {o} : book'[other] = book[other]

Stop == \A o \in Orders : book'[o] = Stopped(book[o])

Next == book' \in [Orders -> Page] /\ (Stop \/ \E o \in Orders : Write(o))

Spec == Init /\ [][Next]_book
=============================================================================
