---------------------------- MODULE MCSubscriber ----------------------------
(***************************************************************************)
(* A release r1, its copy r2 on another wire, the wrapper 8-K that furnishes*)
(* it and an 8-K/A with an item of substance that refiles it, and a filing *)
(* of another form with no ticker.                                         *)
(***************************************************************************)
EXTENDS Subscriber

CONSTANTS p1, p2, r1, r2, wrap, subst, other, acme

MCKind == [e \in Events |->
  CASE e \in {r1, r2} -> "PR"
    [] e = wrap -> "8-K"
    [] e = subst -> "8-K/A"
    [] OTHER -> "other"]

MCIssuer == [e \in Events |-> IF e = other THEN NoCompany ELSE acme]

\* The 8-K keeps the fingerprint of its first exhibit only, so it knows r2 (by
\* its second exhibit) while r2, coming after it, does not know the 8-K.
MCSameText ==
  ({r1, r2} \X {r1, r2}) \cup {<<wrap, r1>>, <<wrap, r2>>, <<r1, wrap>>}
    \cup {<<subst, r1>>, <<r1, subst>>, <<r2, subst>>}
=============================================================================
