------------------------- MODULE MCSwitchboard -------------------------
(* Two restaurants, one call, three days of four moments. *)
EXTENDS Switchboard, TLC

CONSTANTS bistro, diner, line, desk, link, caller

Hours == [d \in Days |-> IF d = 0 THEN [open |-> 2, close |-> 1, closed |-> FALSE, allDay |-> FALSE]
                         ELSE ClosedDay]

MCRestaurants == {bistro, diner}
MCRows == (bistro :> [number |-> line, forward |-> TRUE, phone |-> desk, kill |-> FALSE,
                      mode |-> "open_hours_only", hours |-> Hours])
          @@ (diner :> Null)
MCFeatures == (bistro :> [DefaultFeatures EXCEPT !.capable["orders"] = FALSE,
                                                 !.redirect = [k \in Kinds |-> [on |-> TRUE, url |-> link]]])
              @@ (diner :> Null)

MCPayloads ==
  { "number" :> line @@ "forward" :> TRUE @@ "phone" :> desk,
    "forward" :> FALSE,
    "phone" :> Null,
    "number" :> Null,
    "mode" :> "always" @@ "hours" :> (1 :> ("open" :> 3 @@ "close" :> 2)),
    "features" :> ("capable" :> ("orders" :> TRUE) @@ "redirect" :> ("orders" :> ("on" :> FALSE))),
    "features" :> ("capable" :> ("orders" :> TRUE)),
    "features" :> ("capable" :> ("orders" :> FALSE) @@ "redirect" :> ("orders" :> ("on" :> TRUE @@ "url" :> Null))) }
=============================================================================
