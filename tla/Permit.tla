------------------------------- MODULE Permit -------------------------------
(***************************************************************************)
(* The permit-to-work endpoints (backend/routes/permit_route.py) over the  *)
(* table permits_to_work.  A request runs its statements in one database   *)
(* session that commits when the handler returns (get_session); approve is *)
(* the only one with two statements, a SELECT and an UPDATE by permit id,  *)
(* and other requests commit in between.  cancel and close are one guarded *)
(* UPDATE each.                                                            *)
(*                                                                         *)
(* Time is relative: a row holds how far its start lies ahead and how much *)
(* of its validity is left, so a day has no end in the model.              *)
(***************************************************************************)
EXTENDS Integers

CONSTANTS
  Permits,      \* permit ids
  Zones,
  NoZone,       \* zone_id is NULL, or the scanner names none
  Supervisors,  \* concurrent approve requests
  Unset,        \* valid_from or valid_until is NULL
  NoPermit,     \* a supervisor with no approve request open
  MaxHours,     \* the longest valid_hours of ApproveRequest
  Ahead         \* bound: how far ahead a requester dates valid_from

ASSUME PermitAssumption ==
  /\ NoZone \notin Zones
  /\ NoPermit \notin Permits
  /\ Unset \notin Int
  /\ MaxHours \in Nat \ {0}
  /\ Ahead \in Nat

Starts == {Unset} \cup 0..Ahead
Lefts == {Unset} \cup -1..MaxHours  \* -1: valid_until has passed
Final == {"cancelled", "closed"}
Status == {"none", "pending", "active"} \cup Final

VARIABLES
  row,       \* permits_to_work, "none" for an id that is not in it
  approving  \* the permit each approve request has read as pending

permitVars == <<row, approving>>

Row == [status : Status, zone : Zones \cup {NoZone}, starts : Starts, left : Lefts]

PermitInit ==
  /\ row = [p \in Permits |-> [status |-> "none", zone |-> NoZone, starts |-> Unset, left |-> Unset]]
  /\ approving = [s \in Supervisors |-> NoPermit]

-----------------------------------------------------------------------------
(* The requester may name a validity; the approval replaces it. *)
RequestPermit(p) ==
  /\ row[p].status = "none"
  /\ \E z \in Zones \cup {NoZone}, from \in Starts, left \in Lefts :
       row' = [row EXCEPT ![p] = [status |-> "pending", zone |-> z, starts |-> from, left |-> left]]
  /\ UNCHANGED approving

\* Mutant: the check of the status is lost.
ApproveSelect_AnyStatus(s, p) ==
  /\ approving[s] = NoPermit
  /\ row[p].status # "none"
  /\ approving' = [approving EXCEPT ![s] = p]
  /\ UNCHANGED row

ApproveSelect(s, p) ==
  /\ approving[s] = NoPermit
  /\ row[p].status = "pending"
  /\ approving' = [approving EXCEPT ![s] = p]
  /\ UNCHANGED row

Ends(s) == approving' = [approving EXCEPT ![s] = NoPermit]

\* Mutant: a validity the requester named is kept.
ApproveUpdate_KeepsStart(s) ==
  /\ approving[s] # NoPermit
  /\ \E hours \in 1..MaxHours :
       row' = [row EXCEPT ![approving[s]].status = "active",
                          ![approving[s]].starts = IF @ = Unset THEN 0 ELSE @,
                          ![approving[s]].left = hours]
  /\ Ends(s)

\* Mutant: the requester's end of validity is kept.
ApproveUpdate_KeepsEnd(s) ==
  /\ approving[s] # NoPermit
  /\ row' = [row EXCEPT ![approving[s]].status = "active", ![approving[s]].starts = 0]
  /\ Ends(s)

ApproveUpdate(s) ==
  /\ approving[s] # NoPermit
  /\ \E hours \in 1..MaxHours :
       row' = [row EXCEPT ![approving[s]].status = "active",
                          ![approving[s]].starts = 0,
                          ![approving[s]].left = hours]
  /\ Ends(s)

(* The session fails and rolls back, or the client goes away. *)
ApproveFails(s) ==
  /\ approving[s] # NoPermit
  /\ Ends(s)
  /\ UNCHANGED row

Cancel(p) ==
  /\ row[p].status \in {"pending", "active"}
  /\ row' = [row EXCEPT ![p].status = "cancelled"]
  /\ UNCHANGED approving

Close(p) ==
  /\ row[p].status = "active"
  /\ row' = [row EXCEPT ![p].status = "closed"]
  /\ UNCHANGED approving

(* One unit of time passes for every row.                                  *)
Sooner(from) == IF from = Unset \/ from = 0 THEN from ELSE from - 1

Less(left) == IF left = Unset \/ left = -1 THEN left ELSE left - 1

PermitTick ==
  /\ row' = [p \in Permits |-> [row[p] EXCEPT !.starts = Sooner(@), !.left = Less(@)]]
  /\ UNCHANGED approving

PermitNext ==
  \/ \E p \in Permits : RequestPermit(p) \/ Cancel(p) \/ Close(p)
  \/ \E s \in Supervisors, p \in Permits : ApproveSelect(s, p)
  \/ \E s \in Supervisors : ApproveUpdate(s) \/ ApproveFails(s)
  \/ PermitTick

PermitSpec == PermitInit /\ [][PermitNext]_permitVars

-----------------------------------------------------------------------------
(* validate_permit reads one row: status, end, start, and the zone when    *)
(* both sides name one.                                                    *)
Allowed(p, z) ==
  /\ row[p].status = "active"
  /\ row[p].left # -1
  /\ row[p].starts \in {Unset, 0}
  /\ z = NoZone \/ row[p].zone = NoZone \/ row[p].zone = z

(* list_permits shows an active row whose end has passed as expired. *)
ListedActive(p) == row[p].status = "active" /\ row[p].left # -1

-----------------------------------------------------------------------------
(* Rows and open approve requests are well formed. *)
PermitTypeOK ==
  /\ row \in [Permits -> Row]
  /\ approving \in [Supervisors -> Permits \cup {NoPermit}]

(* The list and the scan at the gate agree: a permit is listed as active   *)
(* exactly while the scanner of its own zone lets its holder in, whatever  *)
(* validity the requester had asked for.                                   *)
ListAgreesWithScan == \A p \in Permits : ListedActive(p) <=> Allowed(p, row[p].zone)

Settled(p) ==
  /\ row[p].status \in Final
  /\ \A s \in Supervisors : approving[s] # p

(* A cancelled or closed permit that no approve request is working on      *)
(* stays cancelled or closed: only an approval that had read it as pending *)
(* before can still bring it back.                                         *)
SettledIsFinal == [][\A p \in Permits : Settled(p) => Settled(p)' /\ row'[p].status = row[p].status]_permitVars

(* No permit opens the gate for ever, however many supervisors approve it  *)
(* at once: in the end the scanner of every zone refuses it.               *)
AccessEnds == \A p \in Permits : <>[](\A z \in Zones \cup {NoZone} : ~Allowed(p, z))
=============================================================================
