------------------------------ MODULE Senders ------------------------------
(* The e-mail and WhatsApp senders beneath AlertWorker: one alert to one   *)
(* recipient, tried again inside the sender and again around it. A try may *)
(* reach the recipient and its answer still be lost. Text is left out.     *)
EXTENDS Naturals, FiniteSets

CONSTANTS OuterTries,   \* _SEND_RETRY_ATTEMPTS of AlertWorker
          MailTries,    \* stop_after_attempt of the e-mail sender
          TwilioTries   \* TWILIO_MAX_RETRIES

Channels == {"whatsapp", "email"}
AddressKinds == {"none", "malformed", "good"}
InnerTries == [whatsapp |-> TwilioTries, email |-> MailTries]

VARIABLES ready,     \* _TWILIO_READY and _SMTP_READY, decided when the modules load
          address,   \* what the recipient has in each channel
          at,        \* the channel being served, or "end"
          phase,     \* "call", "trying" (inside the sender) or "pause"
          outer,     \* calls of this channel's sender so far
          inner,     \* tries of the current call so far
          copies,    \* messages that reached the recipient
          pictured,  \* one of the mails carried the frame
          logged,    \* the send log's word on each channel
          elsewhere  \* another coroutine of the loop is due
senderVars == <<ready, address, at, phase, outer, inner, copies, pictured, logged, elsewhere>>

SendersInit ==
  /\ ready \in [Channels -> BOOLEAN] /\ address \in [Channels -> AddressKinds]
  /\ at = "whatsapp" /\ phase = "call" /\ outer = 0 /\ inner = 0
  /\ copies = [c \in Channels |-> 0] /\ pictured = FALSE
  /\ logged = [c \in Channels |-> "none"] /\ elsewhere = FALSE

NextChannel ==
  /\ at' = IF at = "whatsapp" THEN "email" ELSE "end"
  /\ phase' = "call" /\ outer' = 0 /\ inner' = 0

Unreachable ==   \* the recipient has no address in this channel
  /\ at \in Channels /\ phase = "call" /\ address[at] = "none" /\ NextChannel
  /\ UNCHANGED <<ready, address, copies, pictured, logged, elsewhere>>

(* send_*_alert before it sends: its configuration, its input. *)
NotSent ==
  /\ at \in Channels /\ phase = "call"
  /\ \/ address[at] = "malformed"
     \/ ~ready[at] /\ address[at] = "good"
  /\ phase' = "pause"
  /\ UNCHANGED <<ready, address, at, outer, inner, copies, pictured, logged, elsewhere>>

Compose ==
  /\ at \in Channels /\ phase = "call" /\ address[at] = "good" /\ ready[at]
  /\ phase' = "trying" /\ inner' = 0
  /\ UNCHANGED <<ready, address, at, outer, copies, pictured, logged, elsewhere>>

(* The frame goes with the first call's mails only, with WhatsApp never. *)
Arrives ==
  /\ copies' = [copies EXCEPT ![at] = @ + 1]
  /\ pictured' = (pictured \/ (at = "email" /\ outer = 0))

Accepted ==
  /\ at \in Channels /\ phase = "trying" /\ Arrives
  /\ logged' = [logged EXCEPT ![at] = "sent"] /\ NextChannel
  /\ UNCHANGED <<ready, address, elsewhere>>

(* tenacity tries again whatever was raised; after the last try the sender *)
(* answers False, whether the error is the last one (reraise) or RetryError. *)
Raises ==
  /\ at \in Channels /\ phase = "trying"
  /\ \/ Arrives
     \/ UNCHANGED <<copies, pictured>>
  /\ inner' = inner + 1
  /\ phase' = IF inner + 1 < InnerTries[at] THEN "trying" ELSE "pause"
  /\ UNCHANGED <<ready, address, at, outer, logged, elsewhere>>

(* AlertWorker sleeps after every failed call, the last one included. *)
CallAgain ==
  /\ phase = "pause" /\ outer + 1 < OuterTries
  /\ phase' = "call" /\ outer' = outer + 1 /\ inner' = 0
  /\ UNCHANGED <<ready, address, at, copies, pictured, logged, elsewhere>>

GiveChannelUp ==
  /\ phase = "pause" /\ outer + 1 >= OuterTries
  /\ logged' = [logged EXCEPT ![at] = "failed"] /\ NextChannel
  /\ UNCHANGED <<ready, address, copies, pictured, elsewhere>>

(* The Twilio client and its retries are synchronous calls of a coroutine: *)
(* from its first try to its answer nothing else on the loop runs.          *)
HoldsTheLoop == at = "whatsapp" /\ phase = "trying"

OthersDue ==
  /\ ~elsewhere /\ elsewhere' = TRUE
  /\ UNCHANGED <<ready, address, at, phase, outer, inner, copies, pictured, logged>>
OthersRun ==
  /\ elsewhere /\ ~HoldsTheLoop /\ elsewhere' = FALSE
  /\ UNCHANGED <<ready, address, at, phase, outer, inner, copies, pictured, logged>>

SendersNext ==
  \/ Unreachable \/ NotSent \/ Compose \/ Accepted \/ Raises
  \/ CallAgain \/ GiveChannelUp \/ OthersDue \/ OthersRun


-----------------------------------------------------------------------------
(***************************************************************************)
(* Outbound webhooks: the registrations of routes/webhooks_route.py and    *)
(* the WebhookDispatcher (webhooks/dispatcher.py) that posts an event up   *)
(* to WEBHOOK_MAX_RETRIES times.  An attempt may reach the endpoint though *)
(* its answer is lost.  Dispatches work on the registration they were      *)
(* given, whatever becomes of its row.  Nothing in the repository calls    *)
(* dispatch_to_all; its caller is external here.                           *)
(***************************************************************************)

CONSTANTS
  Hooks,          \* ids of the rows
  HookEvents, TestEvent,
  HookTypes,
  Posts,          \* identities for dispatches
  MaxTries

ASSUME WebhooksAssumption == MaxTries \in Nat \ {0} /\ IsFiniteSet(Posts)

VARIABLES
  hooks,      \* the table webhooks
  posts,      \* dispatches under way or ended
  hookStats   \* _stats
hookVars == <<hooks, posts, hookStats>>

NoHook == [stored |-> FALSE]
NoPost == [at |-> "free"]

HooksInit ==
  /\ hooks = [h \in Hooks |-> NoHook]
  /\ posts = [p \in Posts |-> NoPost]
  /\ hookStats = [sent |-> 0, failed |-> 0, retries |-> 0]

Registrations ==
  {[stored |-> TRUE, type |-> t, events |-> e, active |-> a] :
     t \in HookTypes, e \in SUBSET HookEvents, a \in BOOLEAN}

(* slack and teams have a format of their own; jira gets the custom one *)
Format(type) == IF type \in {"slack", "teams"} THEN type ELSE "custom"

-----------------------------------------------------------------------------
CreateWebhook(h) ==
  /\ ~hooks[h].stored
  /\ \E w \in Registrations : hooks' = [hooks EXCEPT ![h] = w]
  /\ UNCHANGED <<posts, hookStats>>

UpdateWebhook(h) ==
  /\ hooks[h].stored
  /\ \E w \in Registrations : hooks' = [hooks EXCEPT ![h] = w]
  /\ UNCHANGED <<posts, hookStats>>

DeleteWebhook(h) ==
  /\ hooks[h].stored
  /\ hooks' = [hooks EXCEPT ![h] = NoHook]
  /\ UNCHANGED <<posts, hookStats>>

Posting(w) == [at |-> "post", format |-> Format(w.type), tries |-> 0, arrived |-> 0, success |-> FALSE]
(* what dispatch answers without an attempt: disabled or not subscribed *)
Refused == [at |-> "refused"]
Dispatch(w, event) == IF w.active /\ event \in w.events THEN Posting(w) ELSE Refused

(* test_webhook: the row as it is now, taken for active *)
TestWebhook(h, p) ==
  /\ hooks[h].stored /\ posts[p] = NoPost
  /\ posts' = [posts EXCEPT ![p] = Dispatch([hooks[h] EXCEPT !.active = TRUE], TestEvent)]
  /\ UNCHANGED <<hooks, hookStats>>

(* dispatch_to_all: one dispatch for every active registration subscribed *)
DispatchToAll(event) ==
  LET subscribed == {h \in Hooks : hooks[h].stored /\ hooks[h].active /\ event \in hooks[h].events}
      free == {p \in Posts : posts[p] = NoPost}
  IN
  /\ subscribed # {} /\ Cardinality(subscribed) <= Cardinality(free)
  /\ \E slot \in [subscribed -> free] :
       /\ \A g, h \in subscribed : g # h => slot[g] # slot[h]
       /\ posts' = [p \in Posts |->
            IF \E h \in subscribed : slot[h] = p
            THEN Dispatch(hooks[CHOOSE h \in subscribed : slot[h] = p], event) ELSE posts[p]]
  /\ UNCHANGED <<hooks, hookStats>>

-----------------------------------------------------------------------------
(* a variant that ends after the first answer, whatever it was *)
LastTry_AnyAnswer(d) == TRUE
LastTry(d) == d.tries = MaxTries

(* One attempt: accepted, turned down, lost on the way or answered in vain *)
Attempt(p) ==
  /\ posts[p].at = "post"
  /\ \E arrives \in BOOLEAN, accepted \in BOOLEAN :
       LET d == [posts[p] EXCEPT !.tries = @ + 1, !.arrived = @ + (IF arrives THEN 1 ELSE 0)] IN
       /\ accepted => arrives
       /\ \/ /\ accepted
             /\ posts' = [posts EXCEPT ![p] = [d EXCEPT !.at = "ended", !.success = TRUE]]
             /\ hookStats' = [hookStats EXCEPT !.sent = @ + 1]
          \/ /\ ~accepted /\ LastTry(d)
             /\ posts' = [posts EXCEPT ![p] = [d EXCEPT !.at = "ended"]]
             /\ hookStats' = [hookStats EXCEPT !.failed = @ + 1]
          \/ /\ ~accepted /\ ~LastTry(d)
             /\ posts' = [posts EXCEPT ![p] = [d EXCEPT !.at = "pause"]]
             /\ hookStats' = [hookStats EXCEPT !.retries = @ + 1]
  /\ UNCHANGED hooks

(* two seconds, then four *)
PauseOver(p) ==
  /\ posts[p].at = "pause"
  /\ posts' = [posts EXCEPT ![p].at = "post"]
  /\ UNCHANGED <<hooks, hookStats>>

HooksNext ==
  \/ \E h \in Hooks : CreateWebhook(h) \/ UpdateWebhook(h) \/ DeleteWebhook(h)
  \/ \E h \in Hooks, p \in Posts : TestWebhook(h, p)
  \/ \E e \in HookEvents : DispatchToAll(e)
  \/ \E p \in Posts : Attempt(p) \/ PauseOver(p)

HooksSpec == HooksInit /\ [][HooksNext]_hookVars

-----------------------------------------------------------------------------
Ended(success) == {p \in Posts : posts[p].at = "ended" /\ posts[p].success = success}
Tried == {p \in Posts : posts[p].at \in {"post", "pause", "ended"}}
(* every failed attempt but the one that ends its dispatch *)
Retries ==
  {r \in Tried \X (1..MaxTries) :
     r[2] < posts[r[1]].tries \/ (r[2] = posts[r[1]].tries /\ posts[r[1]].at # "ended")}

(* A dispatch that is reported as failed was tried MAX_RETRIES times, one  *)
(* reported as delivered has arrived, and the statistics the operator sees *)
(* add up over dispatches that overlap, retry and outlive their row        *)
(* (dispatcher.py:277-330).                                                *)
DeliveriesAddUp ==
  /\ \A p \in Ended(TRUE) : posts[p].arrived >= 1
  /\ \A p \in Ended(FALSE) : posts[p].tries = MaxTries
  /\ \A p \in Tried : posts[p].arrived <= posts[p].tries /\ posts[p].tries <= MaxTries
  /\ hookStats.sent = Cardinality(Ended(TRUE))
  /\ hookStats.failed = Cardinality(Ended(FALSE))
  /\ hookStats.retries = Cardinality(Retries)
=============================================================================
