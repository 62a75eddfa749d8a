-------------------------------- MODULE Heat --------------------------------
(***************************************************************************)
(* HeatmapGenerator (backend/inference/heatmap.py): an accumulator that    *)
(* decays on every frame and is shown relative to the highest value of the *)
(* last Window frames.  The Gaussian bump of a detection is abstracted to  *)
(* the place of its centre, the decay factor to one half.                  *)
(***************************************************************************)
EXTENDS Naturals, Sequences, FiniteSetsExt, FiniteSets

CONSTANTS
  Places,
  Bump,    \* height of one bump
  Window   \* normalise_window

VARIABLES
  heat,    \* _accumulator
  peaks,   \* _max_history
  quiet    \* history: frames since a bump at a place, up to Window

heatVars == <<heat, peaks, quiet>>

HeatInit ==
  /\ heat = [p \in Places |-> 0]
  /\ peaks = << >>
  /\ quiet = [p \in Places |-> 0]

Highest(h) == Max({h[p] : p \in Places})
LastFew(s) == IF Len(s) > Window THEN Tail(s) ELSE s

(* update for every detection of the frame (weight[p] is the sum of their  *)
(* weights at p), then tick.                                               *)
Bumped(weight) == [p \in Places |-> heat[p] + Bump * weight[p]]
Decayed(h) == [p \in Places |-> h[p] \div 2]

UpdateAndTick(weight) ==
  /\ heat' = Decayed(Bumped(weight))
  /\ peaks' = LastFew(Append(peaks, Highest(heat')))
  /\ quiet' = [p \in Places |-> IF weight[p] > 0 THEN 0
                                ELSE IF quiet[p] < Window THEN quiet[p] + 1 ELSE Window]

-----------------------------------------------------------------------------
(* _normalised and zone_risks, in percent. *)

\* Mutant: the scale is the present maximum.
StablePeak_Latest == IF peaks = << >> THEN 0 ELSE peaks[Len(peaks)]

StablePeak == Max({peaks[i] : i \in DOMAIN peaks} \cup {0})

Intensity(p) ==
  IF StablePeak = 0 THEN 0 ELSE Min({100, (100 * heat[p]) \div StablePeak})

MeanIntensity(polygon) == SumFunction([p \in polygon |-> Intensity(p)]) \div Cardinality(polygon)

RiskLevel(polygon) ==
  LET mean == MeanIntensity(polygon)
  IN  IF mean < 15 THEN "low" ELSE IF mean < 40 THEN "medium"
      ELSE IF mean < 70 THEN "high" ELSE "critical"

(* A zone without a violation for a whole normalisation window is neither  *)
(* "high" nor "critical" any more: although everything decays at the same  *)
(* rate and is shown relative to the maximum, a zone cannot stay red on    *)
(* old violations alone.  A zone without a place in the frame has no risk. *)
QuietPlaceCools(polygon) ==
  polygon # {} /\ (\A p \in polygon : quiet[p] = Window) => RiskLevel(polygon) \in {"low", "medium"}
=============================================================================
