-------------------------- MODULE MCAlertDispatcher --------------------------
(***************************************************************************)
(* Two threads; ann follows companies and has a view for anything, bob has *)
(* a view for events that move the stock.                                  *)
(***************************************************************************)
EXTENDS AlertDispatcher, TLC

CONSTANTS ann, bob, email, push, w1, w2

Threads == Permutations(Workers)

MCPreset == [u \in Users |-> IF u = ann THEN "on" ELSE "none"]
MCAllOn == [u \in Users |-> "on"]
MCChosen == [u \in Users |-> IF u = ann THEN {email, push} ELSE {push}]
MCViews == [u \in Users |-> IF u = ann THEN {"any"} ELSE {"moved"}]
=============================================================================
