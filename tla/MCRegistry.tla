----------------------------- MODULE MCRegistry -----------------------------
(* Instances of Registry for TLC. One reader and one company to keep; one   *)
(* issuer with two symbols and one without a CIK to list; two readers of     *)
(* three browsers, and two channels. A thread serves and sends, and an id   *)
(* is a company's or a browser's, so that one symmetry does for all three.  *)
EXTENDS Registry, TLC

CONSTANTS u1, u2, e1, e2, g1, t1, t2, acme, chat, i1, i2, i3, ann, bob

MCSubjectEmail == g1 :> e1
MCLifetime     == [p \in Purposes |-> IF p = "email_verify" THEN 2 ELSE 1]

MCCik         == [s \in Symbols |-> IF s = "n" THEN NoCik ELSE "acme"]
MCEventTicker == ("e1" :> "a2" @@ "e2" :> "n" @@ "e3" :> NoTicker)
MCEventCik    == ("e1" :> "acme" @@ "e2" :> "beta" @@ "e3" :> "acme")

MCBegun == "push" :> NoData @@ "discord" :> "discord hook"

\* The symbols of the instance keep to what the directory's theorems suppose.
ASSUME InstanceOneIssuer == OneIssuer

Alike == Permutations(Threads) \cup Permutations(Ids)
=============================================================================
