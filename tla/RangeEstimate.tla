---------------------------- MODULE RangeEstimate ----------------------------
(***************************************************************************)
(* From the steps of a Channel Sounding procedure to the distance that is  *)
(* printed: the parsing of the steps, the gate on the number of good tones *)
(* and the median of a window of estimates.  Each of the five initiators   *)
(* has its own copy; here is what they share, and what each does.          *)
(*                                                                         *)
(* Distances are natural numbers of some unit, and NaN; the estimate of a  *)
(* set of tones (cs_de_ifft, cs_de_calc) is an input.                      *)
(***************************************************************************)
EXTENDS Integers, Sequences, SequencesExt

NaN == -1
Finite(d) == d # NaN
Offset == 1          \* CONFIG_APP_CS_DISTANCE_OFFSET_MM

-----------------------------------------------------------------------------
(* The window: a circular buffer of size estimates.                         *)

Empty(size) == [estimates |-> [i \in 0 .. size - 1 |-> 0],
                num_valid |-> 0, index |-> 0]
Size(w) == Cardinality(DOMAIN w.estimates)

Stored(w, distance) ==
  [estimates |-> [w.estimates EXCEPT ![w.index] = distance],
   num_valid |-> IF w.num_valid < Size(w) THEN w.num_valid + 1 ELSE w.num_valid,
   index     |-> (w.index + 1) % Size(w)]

\* Twice the median, as the mean of two estimates need not be whole.
Median(values) ==
  LET count == Len(values)
      sorted == SortSeq(values, <)
      at(i) == sorted[i + 1]
  IN  IF count = 0 THEN NaN
      ELSE IF count % 2 = 0 THEN at(count \div 2) + at(count \div 2 - 1)
      ELSE 2 * at(count \div 2)

Filtered(w) ==
  Median(SelectSeq([i \in 1 .. w.num_valid |-> w.estimates[i - 1]], Finite))

-----------------------------------------------------------------------------
(* The steps: a main mode 2 step carries a tone, "high" or "low" in         *)
(* quality; other steps carry "none"; a "malformed" one ends the parsing.   *)

Parsed(steps) ==
  {steps[i].channel :
     i \in {i \in DOMAIN steps : /\ steps[i].tone = "high"
                                 /\ \A j \in 1 .. i : steps[j].tone # "malformed"}}

Dropped(w) == [window |-> w, printed |-> NaN, dropped |-> TRUE]
Printed(w) == [window |-> w, printed |-> Filtered(w), dropped |-> FALSE]
Gated(tones, gate) == Cardinality(tones) < gate

\* A finite estimate of enough tones goes into the window.
Update(w, tones, gate, distance) ==
  IF Gated(tones, gate) \/ ~Finite(distance) THEN Dropped(w)
  ELSE Printed(Stored(w, distance))

\* Less the offset, and not below zero (which a NaN is not, either).
LessOffset(distance) ==
  IF ~Finite(distance) THEN NaN
  ELSE IF distance < Offset THEN 0 ELSE distance - Offset

-----------------------------------------------------------------------------
(* The initiators' copies.                                                  *)

AnchorSteps(steps) == Parsed(steps)
AnchorUpdate(w, tones, gate, distance) == Update(w, tones, gate, distance)

SwapSteps(steps) == Parsed(steps)
SwapUpdate(w, tones, gate, distance) ==
  Update(w, tones, gate, LessOffset(distance))

FreeSteps(steps) == Parsed(steps)
FreeUpdate(w, tones, gate, distance) ==
  Update(w, tones, gate, LessOffset(distance))

SoakSteps(steps) == Parsed(steps)
SoakUpdate(w, tones, gate, distance) ==
  Update(w, tones, gate, LessOffset(distance))

\* cs_ras_multi: a tone counts when both sides' quality is high, so a step has
\* a tone of each.  A channel may be sounded again: its mean is the tone.
RasSteps(steps) ==
  {steps[i].channel : i \in {i \in DOMAIN steps :
                               steps[i].local = "high" /\ steps[i].peer = "high"}}

\* There is a window for each antenna path; all are gated by the first's tones
\* and by the library's verdict.  A NaN is stored, and left out of the median.
RasUpdate(ws, tones, gate, quality_ok, distances) ==
  IF ~quality_ok \/ Gated(tones, gate) THEN Dropped(ws)
  ELSE LET new == [ap \in DOMAIN ws |-> Stored(ws[ap], distances[ap])]
       IN  [window |-> new, printed |-> Filtered(new[0]), dropped |-> FALSE]

\* The path-loss distance of an RSSI is between its least and its most: the
\* RSSI is clamped before the power is taken, here a table that is given.
Clamp(x, lo, hi) == IF x < lo THEN lo ELSE IF x > hi THEN hi ELSE x
RssiDistance(rssi, power) == Clamp(power[Clamp(rssi, -90, -30)], 1, 100)

-----------------------------------------------------------------------------
(* What the window promises, over bounded inputs.                           *)

Latest(s, n) == IF Len(s) <= n THEN s ELSE SubSeq(s, Len(s) - n + 1, Len(s))
StoredAll(size, s) == FoldLeft(Stored, Empty(size), s)

\* m is twice a median of s, said without sorting: as many estimates lie at
\* least as low as at least as high.
IsMedian(m, s) ==
  LET n == Len(s)
      low == {i \in 1 .. n : 2 * s[i] <= m}
      high == {i \in 1 .. n : 2 * s[i] >= m}
  IN  2 * Cardinality(low) >= n /\ 2 * Cardinality(high) >= n

\* After any estimates the window's answer is a median of the latest finite
\* ones, and NaN exactly if there is none: no older one is left in it.
WindowIsLatest(size, length, values) ==
  \A n \in 0 .. length : \A s \in [1 .. n -> values] :
    LET latest == SelectSeq(Latest(s, size), Finite)
        m == Filtered(StoredAll(size, s))
    IN  IF latest = <<>> THEN m = NaN ELSE IsMedian(m, latest)

\* One estimate that is off moves the answer no further than to a neighbour:
\* between the least and the greatest of the others, once there are two.
OutlierIsRejected(size, values) ==
  \A s \in [1 .. size -> values] : \A i \in 1 .. size :
    LET m == Filtered(StoredAll(size, s))
    IN  /\ \E j \in (1 .. size) \ {i} : 2 * s[j] <= m
        /\ \E j \in (1 .. size) \ {i} : m <= 2 * s[j]

\* Parsing stops for good at a malformed step: what follows one adds nothing.
MalformedEndsParsing(length, channels) ==
  LET step == [channel : channels, tone : {"high", "low", "none", "malformed"}]
  IN  \A n \in 0 .. length : \A s \in [1 .. n -> step] : \A k \in 1 .. n :
        s[k].tone = "malformed" => Parsed(s) = Parsed(SubSeq(s, 1, k))

\* Only a run that passes the gate changes a window, and what it prints is
\* finite: four of the initiators.
GateHolds(size, gate, channels, values) ==
  \A w \in {StoredAll(size, s) : s \in [1 .. size -> values]} :
    \A tones \in SUBSET channels : \A d \in values \cup {NaN} :
      \A u \in {AnchorUpdate(w, tones, gate, d), SwapUpdate(w, tones, gate, d),
                FreeUpdate(w, tones, gate, d), SoakUpdate(w, tones, gate, d)} :
        /\ u.window # w => Cardinality(tones) >= gate /\ Finite(d)
        /\ ~u.dropped => Finite(u.printed)

\* The same of two antenna paths; what is printed is the first one's.
RasGateHolds(size, gate, channels, values) ==
  LET windows == {StoredAll(size, s) : s \in [1 .. size -> values]}
  IN \A ws \in [0 .. 1 -> windows], tones \in SUBSET channels, ok \in BOOLEAN :
       \A ds \in [0 .. 1 -> values \cup {NaN}] :
         LET u == RasUpdate(ws, tones, gate, ok, ds)
         IN /\ u.window # ws => ok /\ Cardinality(tones) >= gate
            /\ ~u.dropped /\ Finite(ds[0]) => Finite(u.printed)

\* A weaker signal is never taken for a nearer peer, whatever the RSSI is.
WeakerIsFarther(power) ==
  \A r \in -128 .. 126 : RssiDistance(r + 1, power) <= RssiDistance(r, power)
=============================================================================
