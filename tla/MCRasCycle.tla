----------------------------- MODULE MCRasCycle -----------------------------
\* Instances of RasCycle for TLC, and the bounds of RangeEstimate's checks.
EXTENDS RasCycle, RangeEstimate, TLC

ASSUME WindowOk == WindowIsLatest(3, 5, {NaN, 0, 2, 7})
                   /\ WindowIsLatest(2, 4, {NaN, 0, 1, 5})
ASSUME OutlierOk == OutlierIsRejected(3, {0, 3, 9})
                    /\ OutlierIsRejected(5, {0, 3, 9})
ASSUME ParsingOk == MalformedEndsParsing(3, {2, 3})
ASSUME GateOk == GateHolds(2, 2, {2, 3, 4}, {0, 1, 5})
                 /\ RasGateHolds(2, 2, {2, 3}, {NaN, 0, 5})
ASSUME RssiOk ==
  WeakerIsFarther([r \in -90 .. -30 |-> ((-30 - r) * (-30 - r)) \div 20])
=============================================================================
