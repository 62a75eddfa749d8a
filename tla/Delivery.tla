------------------------------ MODULE Delivery ------------------------------
(***************************************************************************)
(* What a buffering writer promises about the records it accepts: a record *)
(* waits, and then is either stored for good or lost for good.  Nothing    *)
(* lost comes back, and no record is stored that was never accepted.  How  *)
(* often a stored record is written is not said here.                      *)
(***************************************************************************)
CONSTANT Records

VARIABLE status

Init == status = [r \in Records |-> "new"]

(* The statuses that may follow each status in one step. *)
After(s) ==
  CASE s = "new"     -> {"new", "waiting"}
    [] s = "waiting" -> {"waiting", "stored", "lost"}
    [] s = "stored"  -> {"stored"}
    [] s = "lost"    -> {"lost"}

Next ==
  /\ status' \in [Records -> {"new", "waiting", "stored", "lost"}]
  /\ \A r \in Records : status'[r] \in After(status[r])

Spec == Init /\ [][Next]_status
=============================================================================
