-------------------------------- MODULE Desk --------------------------------
(***************************************************************************)
(* Both halves of a briefing. A job's evidence is resolved after its model *)
(* answered, by one thread and from what that job alone holds, so the two  *)
(* are run side by side: the jobs of the threads, or one resolution.       *)
(***************************************************************************)
EXTENDS Gates, Evidence

vars == <<gateVars, evidenceVars>>

Init ==
  \/ GatesInit /\ NoEvidence
  \/ /\ EvidenceInit
     /\ job = [t \in Threads |-> Idle] /\ nextKey = 1 /\ taken = MaxJobs
     /\ fails = [h \in Hosts |-> 0] /\ skipUntil = [h \in Hosts |-> 0]
     /\ recent = [h \in Hosts |-> <<>>] /\ clock = MaxClock

Next ==
  \/ GatesStep /\ UNCHANGED evidenceVars
  \/ (ResolveQuote \/ EvidenceFails) /\ UNCHANGED gateVars

Spec == Init /\ [][Next]_vars
=============================================================================
