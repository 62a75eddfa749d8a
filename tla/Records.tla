------------------------------ MODULE Records ------------------------------
(***************************************************************************)
(* The tables the administration routes keep: sites (sites_route.py),      *)
(* shifts and who works them (shifts_route.py), API keys (apikeys_route.py)*)
(* , alert recipients (alert_config_route.py) and the equipment each kind  *)
(* of industry requires (industry_ppe_route.py).  Every request is one     *)
(* transaction; where it looks before it writes, another may commit in     *)
(* between.                                                                *)
(***************************************************************************)
EXTENDS Naturals, FiniteSets

CONSTANTS
  RecordCalls,      \* concurrent requests
  SiteIds, ShiftIds, ShiftWorkers, RecipientIds,
  PpeProfiles,      \* INDUSTRY_PPE_SEED: industry and zone of each
  MaxKeys,          \* bound on the keys ever made
  MaxAssignments,   \* bound on assignments of one worker to one shift
  MaxProfiles       \* bound on the rows of one profile

VARIABLES
  site,         \* sites: "none", "active" or "inactive"
  shift,        \* shifts: "none", "active" or "inactive"
  assigned,     \* shift_assignments: rows of a worker in a shift
  apiKeys,      \* api_keys: the hashes stored
  nextKey,      \* the next key _generate_key makes
  recipient,    \* alert_recipients: "none", "active" or "inactive"
  informed,     \* the alert worker's _recipients
  ppe,          \* industry_ppe_profiles: rows of a profile
  calling       \* requests between two awaits
recordVars == <<site, shift, assigned, apiKeys, nextKey, recipient, informed, ppe, calling>>

siteTable == <<site>>
shiftTables == <<shift, assigned>>
keyTable == <<apiKeys, nextKey>>
alertTables == <<recipient, informed>>

Waiting == [at |-> "idle"]
Step(r, next) == calling' = [calling EXCEPT ![r] = next]

RecordsInit ==
  /\ site = [s \in SiteIds |-> "none"]
  /\ shift = [s \in ShiftIds |-> "none"]
  /\ assigned = [s \in ShiftIds |-> [w \in ShiftWorkers |-> 0]]
  /\ apiKeys = {} /\ nextKey = 1
  /\ recipient = [r \in RecipientIds |-> "none"] /\ informed = {}
  /\ ppe = [p \in PpeProfiles |-> 0]
  /\ calling = [r \in RecordCalls |-> Waiting]

-----------------------------------------------------------------------------
(* create_site: looked up, then inserted; of two that look at once the     *)
(* second meets the unique site_id and answers 500, not 409.               *)
SiteLookedUp(r, s) ==
  /\ calling[r] = Waiting /\ site[s] = "none"
  /\ Step(r, [at |-> "site", id |-> s])
  /\ UNCHANGED <<siteTable, shiftTables, keyTable, alertTables, ppe>>

SiteInserted(r) ==
  /\ calling[r].at = "site"
  /\ \E active \in {"active", "inactive"} :
       site' = IF site[calling[r].id] = "none" THEN [site EXCEPT ![calling[r].id] = active] ELSE site
  /\ Step(r, Waiting)
  /\ UNCHANGED <<shiftTables, keyTable, alertTables, ppe>>

(* update_site may deactivate and reactivate *)
UpdateSite(s) ==
  /\ site[s] # "none"
  /\ \E active \in {"active", "inactive"} : site' = [site EXCEPT ![s] = active]
  /\ UNCHANGED <<shiftTables, keyTable, alertTables, ppe, calling>>

(* the soft delete *)
DeactivateSite(s) ==
  /\ site[s] # "none"
  /\ site' = [site EXCEPT ![s] = "inactive"]
  /\ UNCHANGED <<shiftTables, keyTable, alertTables, ppe, calling>>

-----------------------------------------------------------------------------
(* shifts: nothing keeps two of them apart *)
CreateShift(s) ==
  /\ shift[s] = "none"
  /\ \E active \in {"active", "inactive"} : shift' = [shift EXCEPT ![s] = active]
  /\ UNCHANGED <<siteTable, assigned, keyTable, alertTables, ppe, calling>>

UpdateShift(s) ==
  /\ shift[s] # "none"
  /\ \E active \in {"active", "inactive"} : shift' = [shift EXCEPT ![s] = active]
  /\ UNCHANGED <<siteTable, assigned, keyTable, alertTables, ppe, calling>>

(* a deleted shift keeps its assignments *)
DeleteShift(s) ==
  /\ shift[s] # "none"
  /\ shift' = [shift EXCEPT ![s] = "none"]
  /\ UNCHANGED <<siteTable, assigned, keyTable, alertTables, ppe, calling>>

(* assign_workers: the shift is looked up, then a row is inserted for each *)
(* worker.  ON CONFLICT DO NOTHING meets no unique constraint, so a worker *)
(* assigned twice has two rows; and the shift may be gone by then.         *)
AssignLookedUp(r, s) ==
  /\ calling[r] = Waiting /\ shift[s] = "active"
  /\ \E ws \in SUBSET ShiftWorkers : ws # {} /\ Step(r, [at |-> "assign", id |-> s, workers |-> ws])
  /\ UNCHANGED <<siteTable, shiftTables, keyTable, alertTables, ppe>>

AssignInserted(r) ==
  /\ calling[r].at = "assign"
  /\ LET s == calling[r].id IN
     assigned' = [assigned EXCEPT ![s] =
                    [w \in ShiftWorkers |->
                       IF w \in calling[r].workers /\ @[w] < MaxAssignments THEN @[w] + 1 ELSE @[w]]]
  /\ Step(r, Waiting)
  /\ UNCHANGED <<siteTable, shift, keyTable, alertTables, ppe>>

-----------------------------------------------------------------------------
(* API keys: create, revoke, rotate.  Two rotations of one key both find   *)
(* it, and each inserts a successor though only one deletes a row.         *)
CreateKey ==
  /\ nextKey <= MaxKeys
  /\ apiKeys' = apiKeys \cup {nextKey} /\ nextKey' = nextKey + 1
  /\ UNCHANGED <<siteTable, shiftTables, alertTables, ppe, calling>>

RevokeKey(k) ==
  /\ k \in apiKeys
  /\ apiKeys' = apiKeys \ {k}
  /\ UNCHANGED <<siteTable, shiftTables, nextKey, alertTables, ppe, calling>>

RotateFound(r, k) ==
  /\ calling[r] = Waiting /\ k \in apiKeys
  /\ Step(r, [at |-> "rotate", id |-> k])
  /\ UNCHANGED <<siteTable, shiftTables, keyTable, alertTables, ppe>>

RotateCommitted(r) ==
  /\ calling[r].at = "rotate" /\ nextKey <= MaxKeys
  /\ apiKeys' = (apiKeys \ {calling[r].id}) \cup {nextKey}
  /\ nextKey' = nextKey + 1
  /\ Step(r, Waiting)
  /\ UNCHANGED <<siteTable, shiftTables, alertTables, ppe>>

-----------------------------------------------------------------------------
(* create_recipient and delete_recipient, then the alert worker reads the  *)
(* active recipients and, once the session is closed, takes them over:     *)
(* refreshes that overlap may finish in the other order.                   *)
ActiveRecipients == {p \in RecipientIds : recipient[p] = "active"}

CreateRecipient(r, p) ==
  /\ calling[r] = Waiting /\ recipient[p] = "none"
  /\ recipient' = [recipient EXCEPT ![p] = "active"]
  /\ Step(r, [at |-> "refresh"])
  /\ UNCHANGED <<siteTable, shiftTables, keyTable, informed, ppe>>

DeleteRecipient(r, p) ==
  /\ calling[r] = Waiting /\ recipient[p] # "none"
  /\ recipient' = [recipient EXCEPT ![p] = "inactive"]
  /\ Step(r, [at |-> "refresh"])
  /\ UNCHANGED <<siteTable, shiftTables, keyTable, informed, ppe>>

RefreshRead(r) ==
  /\ calling[r].at = "refresh"
  /\ \/ Step(r, [at |-> "take", list |-> ActiveRecipients])
     \/ Step(r, Waiting)                            \* the query failed
  /\ UNCHANGED <<siteTable, shiftTables, keyTable, alertTables, ppe>>

RefreshTaken(r) ==
  /\ calling[r].at = "take"
  /\ informed' = calling[r].list
  /\ Step(r, Waiting)
  /\ UNCHANGED <<siteTable, shiftTables, keyTable, recipient, ppe>>

-----------------------------------------------------------------------------
(* seed_profiles looks each profile up and inserts those not found.  The   *)
(* session commits when the handler has returned, and no constraint keeps  *)
(* a profile unique.                                                       *)
SeedLookedUp(r) ==
  /\ calling[r] = Waiting
  /\ Step(r, [at |-> "seed", missing |-> {p \in PpeProfiles : ppe[p] = 0}])
  /\ UNCHANGED <<siteTable, shiftTables, keyTable, alertTables, ppe>>

(* create_profile, for one *)
ProfileLookedUp(r, p) ==
  /\ calling[r] = Waiting /\ ppe[p] = 0
  /\ Step(r, [at |-> "seed", missing |-> {p}])
  /\ UNCHANGED <<siteTable, shiftTables, keyTable, alertTables, ppe>>

SeedCommitted(r) ==
  /\ calling[r].at = "seed"
  /\ ppe' = [p \in PpeProfiles |->
               IF p \in calling[r].missing /\ ppe[p] < MaxProfiles THEN ppe[p] + 1 ELSE ppe[p]]
  /\ Step(r, Waiting)
  /\ UNCHANGED <<siteTable, shiftTables, keyTable, alertTables>>

RecordsNext ==
  \/ \E r \in RecordCalls :
       \/ \E s \in SiteIds : SiteLookedUp(r, s)
       \/ \E s \in ShiftIds : AssignLookedUp(r, s)
       \/ \E k \in 1 .. MaxKeys : RotateFound(r, k)
       \/ \E p \in RecipientIds : CreateRecipient(r, p) \/ DeleteRecipient(r, p)
       \/ SeedLookedUp(r)
       \/ \E p \in PpeProfiles : ProfileLookedUp(r, p)
       \/ SiteInserted(r) \/ AssignInserted(r) \/ RotateCommitted(r)
       \/ RefreshRead(r) \/ RefreshTaken(r) \/ SeedCommitted(r)
  \/ \E s \in SiteIds : UpdateSite(s) \/ DeactivateSite(s)
  \/ \E s \in ShiftIds : CreateShift(s) \/ UpdateShift(s) \/ DeleteShift(s)
  \/ CreateKey
  \/ \E k \in 1 .. MaxKeys : RevokeKey(k)
RecordsSpec == RecordsInit /\ [][RecordsNext]_recordVars

-----------------------------------------------------------------------------
(***************************************************************************)
(* Organizations and their subscriptions                                   *)
(* (backend/routes/organizations_route.py, billing_route.py).  An          *)
(* organization's row carries its plan, status and limits, the             *)
(* subscription's row what was ordered; Razorpay (external) reports what   *)
(* became of a subscription, late, twice or out of order.                  *)
(***************************************************************************)

CONSTANTS
  Orgs, Plans,
  Starter,        \* the plan a cancelled organization falls back to
  MaxSubs         \* bound: Razorpay subscriptions created

VARIABLES
  orgs,           \* organizations: [plan, limits, status, active]
  subs,           \* billing_subscriptions, one row per org_id: [plan, status, razorpay]
  created         \* Razorpay subscriptions created so far; 0 is "none"

billingVars == <<orgs, subs, created>>

NoOrg == [plan |-> "none"]
NoSub == [plan |-> "none", status |-> "none", razorpay |-> 0]
HasOrg(o) == orgs[o] # NoOrg

BillingInit ==
  /\ orgs = [o \in Orgs |-> NoOrg]
  /\ subs = [o \in Orgs |-> NoSub]
  /\ created = 0

CreateOrganization(o, p) ==
  /\ ~HasOrg(o)
  /\ orgs' = [orgs EXCEPT ![o] = [plan |-> p, limits |-> Starter, status |-> "trial", active |-> TRUE]]
  /\ UNCHANGED <<subs, created>>

(* PATCH changes the plan and not the limits, unless it names them too.    *)
UpdateOrganization(o, p, limits) ==
  /\ HasOrg(o)
  /\ orgs' = [orgs EXCEPT ![o].plan = p, ![o].limits = limits]
  /\ UNCHANGED <<subs, created>>

SetStatus(o, status, active) ==
  /\ HasOrg(o)
  /\ orgs' = [orgs EXCEPT ![o].status = status, ![o].active = active]
  /\ UNCHANGED <<subs, created>>

SuspendOrganization(o) == SetStatus(o, "suspended", FALSE)
ActivateOrganization(o) == SetStatus(o, "active", TRUE)

(* subscribe: without Razorpay, or when it fails, the plan is active at    *)
(* once.  The row keeps an earlier Razorpay id then (COALESCE).  An org_id *)
(* that does not exist gets a row too.                                     *)
Subscribe(o, p, ordered) ==
  /\ ordered => created < MaxSubs
  /\ created' = IF ordered THEN created + 1 ELSE created
  /\ subs' = [subs EXCEPT ![o] =
                [plan |-> p, status |-> IF ordered THEN "pending" ELSE "active",
                 razorpay |-> IF ordered THEN created + 1 ELSE @.razorpay]]
  /\ orgs' = IF HasOrg(o)
             THEN [orgs EXCEPT ![o].plan = p, ![o].limits = p,
                               ![o].status = IF ordered THEN "pending_payment" ELSE "active"]
             ELSE orgs

CancelSubscription(o) ==
  /\ subs' = IF subs[o] = NoSub THEN subs ELSE [subs EXCEPT ![o].status = "cancelled"]
  /\ orgs' = IF HasOrg(o) THEN [orgs EXCEPT ![o].plan = Starter, ![o].status = "cancelled"] ELSE orgs
  /\ UNCHANGED created

Holders(id) == {o \in Orgs : subs[o].razorpay = id}

(* The webhook finds the subscription by its Razorpay id.  The             *)
(* organization it looks for by a column, razorpay_subscription_id, that   *)
(* nothing in the repository writes: its second UPDATE matches no row.     *)
Webhook(event, id) ==
  /\ id <= created
  /\ subs' = [o \in Orgs |->
                IF o \in Holders(id)
                THEN [subs[o] EXCEPT !.status = CASE event = "subscription.activated" -> "active"
                                                  [] event = "subscription.cancelled" -> "cancelled"
                                                  [] event = "payment.failed" -> "past_due"]
                ELSE subs[o]]
  /\ UNCHANGED <<orgs, created>>

BillingNext ==
  \/ \E o \in Orgs :
       \/ SuspendOrganization(o) \/ ActivateOrganization(o) \/ CancelSubscription(o)
       \/ \E p \in Plans : CreateOrganization(o, p) \/ Subscribe(o, p, TRUE) \/ Subscribe(o, p, FALSE)
       \/ \E p \in Plans, l \in Plans : UpdateOrganization(o, p, l)
  \/ \E e \in {"subscription.activated", "subscription.cancelled", "payment.failed"}, id \in 1..MaxSubs :
       Webhook(e, id)
=============================================================================
