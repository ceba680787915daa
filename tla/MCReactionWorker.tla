-------------------------- MODULE MCReactionWorker --------------------------
(* Days of four slots: before the bell and three of the session.  The first *)
(* two of a session are one minute.                                         *)
EXTENDS ReactionWorker, TLC

CONSTANTS p1, p2, a, b

Twins == Permutations(Procs) \cup Permutations(Events)

MCDay(t) == t \div 4
MCStamp(t) == IF t % 4 = 2 THEN t - 1 ELSE t
MCOpenAt(d) == 4 * d + 1
MCCloseAt(d) == 4 * d + 4
MCDelay == [i \in Ids |-> CASE i = "5m" -> 1 [] i = "1h" -> 3
                            [] i = "1d" -> 4 [] OTHER -> 5]

\* The market may close early on day 1, day 3 is a holiday, day 5 a weekend.
MCWeekdays == 0 .. 7 \ {5}
MCSessions == {t \in 0 .. 27 : t % 4 # 0 /\ t \div 4 \notin {3, 5}}
MCTape == {MCSessions}
MCTapes == {{}, MCSessions \ {7}}

\* The holiday is followed by a weekend, days 4 and 5.
MCLongWeekdays == 0 .. 8 \ {4, 5}
MCLongTape == {MCSessions \ {17, 18, 19}}

MCJumps == {t \in MCSessions : t \div 4 = 2}
=============================================================================
