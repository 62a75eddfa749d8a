---------------------------- MODULE Enhancement ----------------------------
(* LightEnhancer and the two instances of it: the pipeline's, through      *)
(* which frames go, and the module's, which the routes read and toggle. An *)
(* image is its mean luminance; CLAHE and the filter may give any level.    *)
EXTENDS Integers, Sequences

LOCAL INSTANCE FiniteSetsExt
LOCAL INSTANCE Functions

CONSTANTS Luminances,        \* mean Y of the camera's frames
          DarkThreshold, VeryDarkThreshold,
          HistoryLen,        \* maxlen of the brightness history (30)
          StatsLen,          \* maxlen of the statistics (300)
          MaxLitFrames       \* bound: frames processed

Enhancers == {"pipeline", "module"}
LightModes == {"normal", "low_light", "very_dark"}

VARIABLES lightBuilt,    \* LIGHT_ENHANCEMENT_ENABLED when the instances were made
          lightOn,       \* _enabled of each instance
          brightness,    \* _brightness_history
          lightStats,    \* _stats_history: mode and gamma (in thousandths)
          litFrames,     \* _frame_count
          statusAnswer   \* what /enhancement/status last answered
lightVars == <<lightBuilt, lightOn, brightness, lightStats, litFrames, statusAnswer>>

LightInit ==
  /\ lightBuilt \in BOOLEAN /\ lightOn = [e \in Enhancers |-> lightBuilt]
  /\ brightness = [e \in Enhancers |-> <<>>] /\ lightStats = [e \in Enhancers |-> <<>>]
  /\ litFrames = [e \in Enhancers |-> 0] /\ statusAnswer = "none"

Classify(y) == IF y < VeryDarkThreshold THEN "very_dark"
               ELSE IF y < DarkThreshold THEN "low_light" ELSE "normal"

(* round(sqrt(y / 128), 3) with y at least 5, in thousandths, then clamped. *)
Within(lo, hi, v) == Max({lo, Min({hi, v})})
RootOf(y) == CHOOSE g \in 0..1412 : /\ (2*g - 1) * (2*g - 1) * 128 <= 4000000 * y
                                    /\ (2*g + 1) * (2*g + 1) * 128 > 4000000 * y
AdaptiveGamma(y, mode) ==
  CASE mode = "normal" -> 1000
    [] mode = "very_dark" -> Within(250, 700, RootOf(Within(5, 255, y)))
    [] mode = "low_light" -> Within(500, 900, RootOf(Within(5, 255, y)))

(* deque(maxlen = n).append *)
Bounded(s, v, n) == IF Len(s) < n THEN Append(s, v) ELSE Append(Tail(s), v)

(* _apply_gamma raises i / 255 to 1 / gamma, and gamma is at most 1: what  *)
(* leaves it is never brighter than what CLAHE gave.                        *)
ApplyGamma(gamma, y) == IF gamma = 1000 THEN {y} ELSE {a \in Luminances : a <= y}

ProcessFrame(e, y, clahe, after) ==
  LET mode == Classify(y) gamma == AdaptiveGamma(y, mode) IN
  /\ e = "pipeline" /\ lightOn[e] /\ litFrames[e] < MaxLitFrames
  /\ after \in ApplyGamma(gamma, clahe)
  /\ mode = "normal" => clahe = y
  /\ brightness' = [brightness EXCEPT ![e] = Bounded(@, y, HistoryLen)]
  /\ litFrames' = [litFrames EXCEPT ![e] = @ + 1]
  /\ lightStats' = IF mode = "normal" THEN lightStats
                   ELSE [lightStats EXCEPT ![e] =
                           Bounded(@, [mode |-> mode, gamma |-> gamma, before |-> y, after |-> after], StatsLen)]
  /\ UNCHANGED <<lightBuilt, lightOn, statusAnswer>>

(* The route's toggle: the module's instance, never the pipeline's. *)
Toggle(on) ==
  /\ lightOn' = [lightOn EXCEPT !["module"] = on]
  /\ UNCHANGED <<lightBuilt, brightness, lightStats, litFrames, statusAnswer>>

(* get_rolling_brightness, and is_currently_dark over it. *)
RollingBrightness(e) ==
  IF brightness[e] = <<>> THEN 128 ELSE SumFunction(brightness[e]) \div Len(brightness[e])
CurrentlyDark(e) == RollingBrightness(e) < DarkThreshold

(* An instance made while disabled has no history to read: the route raises. *)
Status ==
  /\ statusAnswer' = IF ~lightBuilt THEN "raises"
                     ELSE IF CurrentlyDark("module") THEN "dark" ELSE "bright"
  /\ UNCHANGED <<lightBuilt, lightOn, brightness, lightStats, litFrames>>

LightNext ==
  \/ \E e \in Enhancers, y, clahe, after \in Luminances : ProcessFrame(e, y, clahe, after)
  \/ \E on \in BOOLEAN : Toggle(on)
  \/ Status
=============================================================================
