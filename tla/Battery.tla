-------------------------------- MODULE Battery --------------------------------
(***************************************************************************)
(* The battery reports of intercom_buzzer (battery.cpp): a reading of the  *)
(* cell becomes a percentage, and what changed by enough is written to the *)
(* attributes.  Operators, for one reading; voltages are in millivolts.    *)
(***************************************************************************)
EXTENDS Integers, Sequences, SequencesExt

\* kCurve: resting voltage and what remains.
Curve == <<<<4200, 100>>, <<4100, 90>>, <<4000, 80>>, <<3920, 70>>,
           <<3870, 60>>, <<3820, 50>>, <<3790, 40>>, <<3770, 30>>,
           <<3740, 20>>, <<3680, 10>>, <<3450, 5>>, <<3300, 0>>>>

\* The divider: 1510 ohms in all, 510 of them at the pin.
ReadMv(pin) == (pin * 1510) \div 510

\* Straight lines between the points, 100 above them and 0 below.
PercentFromMv(mv) ==
  LET below == {i \in DOMAIN Curve : Curve[i][1] <= mv}
      lo == CHOOSE i \in below : \A j \in below : i <= j
  IN  IF below = {} THEN 0
      ELSE IF lo = 1 THEN 100
      ELSE Curve[lo][2] + ((mv - Curve[lo][1]) * (Curve[lo - 1][2] - Curve[lo][2]))
                            \div (Curve[lo - 1][1] - Curve[lo][1])

Level(percent) == IF percent < 10 THEN "critical"
                  ELSE IF percent < 20 THEN "warning" ELSE "ok"

Distance(x, y) == IF x > y THEN x - y ELSE y - x

\* What Update reports of a reading.
Reading(pin, charging) ==
  LET mv == ReadMv(pin) IN
  [percent2x |-> 2 * PercentFromMv(mv), mv |-> mv,
   level |-> Level(PercentFromMv(mv)), charging |-> charging]

NothingPublished == <<>>

\* Publish: each attribute on its own, the first time and then when it changed
\* by its step.  What was published is at most one record.
Publish(published, r) ==
  IF published = NothingPublished THEN <<r>>
  ELSE LET p == published[1]
       IN <<[percent2x |-> IF Distance(r.percent2x, p.percent2x) >= 4
                             THEN r.percent2x ELSE p.percent2x,
             mv |-> IF Distance(r.mv, p.mv) >= 50 THEN r.mv ELSE p.mv,
             level |-> r.level, charging |-> r.charging]>>

-----------------------------------------------------------------------------
(* What the reports promise, over bounded readings.                         *)

\* The curve falls with the voltage, in its own range, and without a jump: a
\* reading that is off by 1 mV is off by a percent at most.
CurveIsSound(low, high) ==
  \A mv \in low .. high :
    /\ PercentFromMv(mv) \in 0 .. 100
    /\ PercentFromMv(mv + 1) - PercentFromMv(mv) \in 0 .. 1

\* Whatever was read before, the attributes are less than a step away from the
\* last reading, and the level is the last reading's: no drift however slow.
ReportsAreClose(length, pins) ==
  \A n \in 1 .. length : \A s \in [1 .. n -> pins] :
    LET readings == [i \in 1 .. n |-> Reading(s[i], FALSE)]
        p == FoldLeft(Publish, NothingPublished, readings)[1]
    IN  /\ Distance(p.percent2x, readings[n].percent2x) < 4
        /\ Distance(p.mv, readings[n].mv) < 50
        /\ p.level = readings[n].level
=============================================================================
