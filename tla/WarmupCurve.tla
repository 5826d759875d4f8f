---------------------------- MODULE WarmupCurve ----------------------------
(***************************************************************************)
(* The warmup curve of src/warmup/curve.ts: the number of messages an      *)
(* account may send per day, as a function of the days since its first     *)
(* domain was verified.  The table of weekly targets is a parameter        *)
(* (<<20, 50, 100, 200, 400>> in the code), and so is the length of a week *)
(* so that a model checker reaches its end.                                *)
(***************************************************************************)
EXTENDS Integers, Sequences

CONSTANTS
  WeeklyTargets,  \* the daily cap of each week, oldest week first
  DaysPerWeek,    \* 7 in the code
  Unlimited       \* the code's null: past the table there is no cap

ASSUME CurveAssumption ==
  /\ WeeklyTargets \in Seq(Nat \ {0})
  /\ Len(WeeklyTargets) > 0
  /\ \A i, j \in 1..Len(WeeklyTargets) :
       i <= j => WeeklyTargets[i] <= WeeklyTargets[j]
  /\ DaysPerWeek \in Nat \ {0}
  /\ Unlimited \notin Int

Cap == (Nat \ {0}) \cup {Unlimited}

\* The table is indexed by whole weeks; JavaScript's out-of-range read is the
\* undefined that `?? UNLIMITED` turns into "no cap".
dailyCapFor(days) ==
  IF days < 0 THEN WeeklyTargets[1]
  ELSE IF days \div DaysPerWeek < Len(WeeklyTargets)
       THEN WeeklyTargets[(days \div DaysPerWeek) + 1]
       ELSE Unlimited

\* Mutant: `sent <= cap`.
PermitsOneMore(cap, sent) == cap = Unlimited \/ sent <= cap

\* `sent < cap`, and no condition at all when there is no cap.
Permits(cap, sent) == cap = Unlimited \/ sent < cap

\* The order on caps in which "no cap" is the top.
AtMost(c1, c2) == c2 = Unlimited \/ (c1 # Unlimited /\ c1 <= c2)
=============================================================================
