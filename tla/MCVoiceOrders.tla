---------------------------- MODULE MCVoiceOrders ----------------------------
(* Instances of VoiceOrders for TLC. *)
EXTENDS VoiceOrders, TLC

CONSTANTS c1, c2, c3, p1, p2

(* Who calls: one number for every call, or another for the third. *)
OneCaller  == [c \in Calls |-> p1]
TwoCallers == [c \in Calls |-> IF c = c3 THEN p2 ELSE p1]

(* The two calls of one caller are interchangeable. *)
Symmetry == Permutations({c1, c2})

(* What is asked: to create, to update, and to update with a status. *)
Create == [kind |-> "create", status |-> "keep"]
Update == [kind |-> "update", status |-> "keep"]
Cancel == [kind |-> "update", status |-> "cancelled"]

CreateOnly     == {Create}
CreateOrUpdate == {Create, Update}
CreateOrCancel == {Create, Cancel}
=============================================================================
