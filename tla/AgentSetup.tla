------------------------------ MODULE AgentSetup ------------------------------
(***************************************************************************)
(* What the agent of a call is told and given, from the features of the    *)
(* restaurant as they were read when its stream began: the functions that  *)
(* it may call (app/agent_fc/function_definitions.py), the handlers that   *)
(* answer them (_build_function_router), and what its prompt says of each  *)
(* skill (app/utils/prompt_builder.py).  Each is computed by itself.       *)
(***************************************************************************)
EXTENDS RestaurantSettings

Enabled(features)   == {k \in Skills : features.capable[k]}
Redirected(features) == {k \in Kinds : features.redirect[k].on}

FunctionsOf(skill) ==
  CASE skill = "orders" -> {"create_order", "lookup_order", "lookup_order_by_id",
                            "update_order_details", "check_items_availability"}
    [] skill = "reservations" -> {"create_reservation", "lookup_reservation",
                                  "update_reservation", "check_reservation_availability"}
    [] OTHER -> {}

MenuFunctions == {"get_menu_item_details", "get_menu_item_customizations"}
NeedsMenu(features) == Enabled(features) \cap {"orders", "faqs"} # {}

(* get_function_definitions *)
FunctionDefinitions(features) ==
  (UNION {FunctionsOf(k) : k \in Enabled(features)})
  \cup (IF NeedsMenu(features) THEN MenuFunctions ELSE {})
  \cup {"end_call", "escalate_to_human"}
  \cup (IF Redirected(features) # {} THEN {"send_sms_redirect"} ELSE {})

(* _build_function_router: a name that has no handler is answered by an error. *)
Handlers(features) ==
  {f \in UNION {FunctionsOf(k) : k \in Kinds} :
     \E k \in Kinds : f \in FunctionsOf(k) /\ features.capable[k]}
  \cup {f \in MenuFunctions : features.capable["faqs"] \/ Get(features.capable, "orders", FALSE)}
  \cup {"end_call", "escalate_to_human"}
  \cup {f \in {"send_sms_redirect"} : \E k \in Kinds : features.redirect[k].on}

(* The label of a skill in the prompt: _build_capabilities_block. *)
Capability(features, skill) ==
  CASE skill \in Enabled(features) -> "YES"
    [] skill \in Redirected(features) \ Enabled(features) -> "SMS_REDIRECT"
    [] OTHER -> "NO"

(* The rule of the prompt for a skill that is not there. *)
HandoffRule(features, skill) ==
  IF features.capable[skill] THEN "none"
  ELSE IF skill \in Kinds /\ Get(features.redirect, skill, NoRedirect).on THEN "link" ELSE "disabled"

(* The three agree: what the agent is told that it can do it has the       *)
(* functions for, each with its handler; and where its label sends the     *)
(* caller a link the rule does too, and the function is there.             *)
EquippedAsTold(features) ==
  /\ FunctionDefinitions(features) = Handlers(features)
  /\ \A k \in Skills :
       /\ Capability(features, k) = "YES" => FunctionsOf(k) \subseteq Handlers(features)
       /\ (Capability(features, k) = "SMS_REDIRECT") <=> (HandoffRule(features, k) = "link")
       /\ HandoffRule(features, k) = "link" => "send_sms_redirect" \in Handlers(features)
=============================================================================
