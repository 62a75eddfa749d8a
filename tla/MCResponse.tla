----------------------------- MODULE MCResponse -----------------------------
(***************************************************************************)
(* Escalated alerts, permits, fire alerts and the cameras' child           *)
(* processes, checked in one run.  The parts share no state: the first     *)
(* state chooses one, and only that part moves.  Its fairness is that of   *)
(* the part.                                                               *)
(***************************************************************************)
EXTENDS Escalation, Permit, FireAlert, CameraFleet

VARIABLE part
responseVars == <<vars, permitVars, fireVars, fleetVars, part>>

\* The clock that does not move needs no choice.
ResponseInit ==
  /\ part \in {"escalation", "permit", "fire", "fleet"}
  /\ Init /\ PermitInit /\ FireInit /\ FleetInit
  /\ part = "fire" \/ now = 0

ResponseNext ==
  \/ part = "escalation" /\ Next /\ UNCHANGED <<permitVars, fireVars, fleetVars, part>>
  \/ part = "permit" /\ PermitNext /\ UNCHANGED <<vars, fireVars, fleetVars, part>>
  \/ part = "fire" /\ FireNext /\ UNCHANGED <<vars, permitVars, fleetVars, part>>
  \/ part = "fleet" /\ FleetNext /\ UNCHANGED <<vars, permitVars, fireVars, part>>

(* Time passes, the scheduler keeps firing, and the database does not fail *)
(* every check: these are the assumptions the job is written under.  The   *)
(* frame loop goes on evaluating frames, which matters here only once they *)
(* show nothing any more.  A request that has begun is driven on by the    *)
(* event loop, and a child by the operating system: an attempt to connect  *)
(* succeeds or fails in the end.  Attempts that raise anything but         *)
(* ConnectionError for ever, which the child repeats for ever, are left    *)
(* out by this fairness.                                                   *)
ResponseSpec ==
  /\ ResponseInit /\ [][ResponseNext]_responseVars
  /\ WF_vars(part = "escalation" /\ Tick)
  /\ WF_vars(part = "escalation" /\ CheckSelect)
  /\ SF_vars(part = "escalation" /\ CheckCommit)
  /\ WF_permitVars(part = "permit" /\ PermitTick)
  /\ WF_fireVars(part = "fire" /\ \E f \in Frames : SeeNothing(f))
  /\ \A k \in Callers : WF_fleetVars(part = "fleet" /\ Proceed(k))
  /\ \A i \in 1..Cardinality(Cameras) : WF_fleetVars(part = "fleet" /\ i \in DOMAIN child /\ Run(i))
=============================================================================
