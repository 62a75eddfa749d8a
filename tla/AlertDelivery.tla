--------------------------- MODULE AlertDelivery ----------------------------
(***************************************************************************)
(* AlertWorker (backend/alerts/alert_worker.py) and the AlertThrottle it   *)
(* asks (backend/alerts/throttle.py).  Jobs wait in a bounded queue; one   *)
(* worker takes them one at a time and dispatches each to all recipients   *)
(* concurrently, every recipient over its channels with retries.  Time     *)
(* passes between any two steps.                                           *)
(*                                                                         *)
(* Times are kept as ages and forgotten after an hour, as the throttle     *)
(* forgets them.  A try may reach the recipient although it raises: the    *)
(* answer of the server got lost.  sent and last are history of one run of *)
(* the backend: the alerts of which the worker knows that they were sent,  *)
(* and when one arrived, known or not.                                     *)
(***************************************************************************)
EXTENDS Naturals, Sequences, FiniteSets

CONSTANTS
  Recipients,
  Channels,     \* the channels of each recipient, WhatsApp before e-mail
  Wants,        \* the severities each recipient wants
  Subjects,     \* (zone, track) pairs
  Severities,
  Critical,     \* the severity that bypasses the window
  Bypass,       \* ALERT_CRITICAL_BYPASS_THROTTLE
  MaxPerHour,   \* ALERT_MAX_PER_HOUR
  Hour, Window, \* an hour and ALERT_THROTTLE_MINUTES, in ticks
  Attempts,     \* ALERT_SEND_RETRY_ATTEMPTS
  QueueMax,     \* ALERT_QUEUE_MAX_SIZE
  Watched       \* the recipients of whom last is kept

ASSUME DeliveryAssumption ==
  /\ Channels \in [Recipients -> Seq({"whatsapp", "email"})]
  /\ Wants \in [Recipients -> SUBSET Severities]
  /\ Critical \in Severities
  /\ Bypass \in BOOLEAN
  /\ MaxPerHour \in Nat \ {0}
  /\ Hour \in Nat \ {0}
  /\ Window \in 1..Hour
  /\ Attempts \in Nat \ {0}
  /\ QueueMax \in Nat \ {0}
  /\ Watched \subseteq Recipients

Jobs == [subject : Subjects, severity : Severities]
NoJob == << >>

VARIABLES
  queue,      \* _queue
  worker,     \* "off", "waiting" for a job, "busy" with one, "stopped"
  job,        \* the job being dispatched
  dispatch,   \* the locals of _dispatch_to_recipient, by recipient
  hourly,     \* _hourly
  window,     \* age of the newest entry of _windows, up to Window
  sent,       \* history: the alerts sent to each recipient within the hour
  last        \* history: age of the newest arrival, up to Window

throttleVars == <<hourly, window>>
histories == <<sent, last>>
vars == <<queue, worker, job, dispatch, throttleVars, histories>>

(* MEDIUM and LOW share a bucket in the code; here a severity is a bucket. *)
Keys == Recipients \X Subjects \X Severities
Key(r) == <<r, job.subject, job.severity>>

(* A dispatch has a stage, the channels still to be tried, the failed      *)
(* attempts on the first of them, whether a send has succeeded and whether *)
(* one has arrived.                                                        *)
At(stage, channels) ==
  [stage |-> stage, left |-> channels, tries |-> 0, through |-> FALSE, arrived |-> FALSE]
Idle == At("idle", << >>)

Init ==
  /\ queue = << >>
  /\ worker = "off"
  /\ job = NoJob
  /\ dispatch = [r \in Recipients |-> Idle]
  /\ hourly = [r \in Recipients |-> << >>]
  /\ window = [k \in Keys |-> Window]
  /\ sent = [r \in Recipients |-> << >>]
  /\ last = [k \in Watched \X Subjects \X Severities |-> Window]

-----------------------------------------------------------------------------
Start ==
  /\ worker = "off"
  /\ worker' = "waiting"
  /\ UNCHANGED <<queue, job, dispatch, throttleVars, histories>>

(* A cancellation that wait_for swallows changes nothing: stop waits and   *)
(* the worker goes on.  One that arrives ends the dispatches in work.      *)
Stop ==
  /\ worker \in {"waiting", "busy"}
  /\ worker' = "stopped"
  /\ job' = NoJob
  /\ dispatch' = [r \in Recipients |-> Idle]
  /\ UNCHANGED <<queue, throttleVars, histories>>

Enqueue(j) ==
  /\ queue' = IF Len(queue) < QueueMax THEN Append(queue, j) ELSE queue
  /\ UNCHANGED <<worker, job, dispatch, throttleVars, histories>>

(* _recipients is what the last refresh that succeeded has read, every     *)
(* minute and whenever a route changed a recipient: any of them.  Without  *)
(* recipients the job is gone.                                             *)
TakeJob ==
  /\ worker = "waiting"
  /\ queue # << >>
  /\ queue' = Tail(queue)
  /\ \E recipients \in SUBSET Recipients :
       IF recipients = {}
         THEN UNCHANGED <<worker, job, dispatch>>
         ELSE /\ worker' = "busy"
              /\ job' = Head(queue)
              /\ dispatch' = [r \in Recipients |->
                                IF r \in recipients THEN At("check", << >>) ELSE Idle]
  /\ UNCHANGED <<throttleVars, histories>>

-----------------------------------------------------------------------------
(* AlertThrottle.                                                          *)

Bypasses == Bypass /\ job.severity = Critical

RecordSend(r) ==
  /\ hourly' = [hourly EXCEPT ![r] = Append(@, [age |-> 0])]
  /\ window' = [window EXCEPT ![Key(r)] = 0]

\* Mutant: the cap is compared with one alert too many.
MaySend_CapOff(r) ==
  /\ Len(hourly[r]) <= MaxPerHour
  /\ Bypasses \/ window[Key(r)] = Window

MaySend(r) ==
  /\ Len(hourly[r]) < MaxPerHour
  /\ Bypasses \/ window[Key(r)] = Window

-----------------------------------------------------------------------------
(* _dispatch_to_recipient.                                                 *)

Others == <<queue, worker, job>>

Checks(r) == dispatch[r].stage = "check"
Sends(r) == dispatch[r].stage = "send" /\ dispatch[r].left # << >>
Sent(r) == dispatch[r].stage = "send" /\ dispatch[r].left = << >>

Refuse(r) ==
  /\ Checks(r)
  /\ job.severity \notin Wants[r] \/ ~MaySend(r)
  /\ dispatch' = [dispatch EXCEPT ![r] = Idle]
  /\ UNCHANGED <<Others, throttleVars, histories>>

(* A zone filter that does not parse raises, and the gather swallows it.   *)
FilterRaises(r) ==
  /\ Checks(r)
  /\ job.severity \in Wants[r]
  /\ dispatch' = [dispatch EXCEPT ![r] = Idle]
  /\ UNCHANGED <<Others, throttleVars, histories>>

(* A bypassing alert is recorded here and again when it has been sent.     *)
Admit(r) ==
  /\ Checks(r)
  /\ job.severity \in Wants[r]
  /\ MaySend(r)
  /\ IF Bypasses THEN RecordSend(r) ELSE UNCHANGED throttleVars
  /\ dispatch' = [dispatch EXCEPT ![r] = At("send", Channels[r])]
  /\ UNCHANGED <<Others, histories>>

(* The first arrival of an alert is remembered.                            *)
Arrives(r) ==
  last' = IF dispatch[r].arrived \/ r \notin Watched THEN last ELSE [last EXCEPT ![Key(r)] = 0]

SendSucceeds(r) ==
  /\ Sends(r)
  /\ dispatch' = [dispatch EXCEPT
                    ![r] = [At("send", Tail(@.left)) EXCEPT !.through = TRUE, !.arrived = TRUE]]
  /\ sent' = IF dispatch[r].through THEN sent
             ELSE [sent EXCEPT ![r] = Append(@, [age |-> 0, key |-> Key(r)])]
  /\ Arrives(r)
  /\ UNCHANGED <<Others, throttleVars>>

\* Mutant: a channel is retried until it works.
SendFails_NoLimit(r) ==
  /\ Sends(r)
  /\ \E arrived \in {dispatch[r].arrived, TRUE} :
       /\ dispatch' = [dispatch EXCEPT ![r].tries = (@ + 1) % Attempts, ![r].arrived = arrived]
       /\ IF arrived THEN Arrives(r) ELSE UNCHANGED last
  /\ UNCHANGED <<Others, throttleVars, sent>>

(* The sender answers FALSE for whatever its library raised, a time-out    *)
(* after the server took the message included.                             *)
SendFails(r) ==
  /\ Sends(r)
  /\ \E arrived \in {dispatch[r].arrived, TRUE} :
       /\ dispatch' = IF dispatch[r].tries + 1 < Attempts
                        THEN [dispatch EXCEPT ![r].tries = @ + 1, ![r].arrived = arrived]
                        ELSE [dispatch EXCEPT ![r].left = Tail(@), ![r].tries = 0,
                                              ![r].arrived = arrived]
       /\ IF arrived THEN Arrives(r) ELSE UNCHANGED last
  /\ UNCHANGED <<Others, throttleVars, sent>>

\* Mutant: an alert is recorded only when it had a single channel.
Finish_SingleChannel(r) ==
  /\ Sent(r)
  /\ IF dispatch[r].through /\ Len(Channels[r]) = 1 THEN RecordSend(r) ELSE UNCHANGED throttleVars
  /\ dispatch' = [dispatch EXCEPT ![r] = Idle]
  /\ UNCHANGED <<Others, histories>>

Finish(r) ==
  /\ Sent(r)
  /\ IF dispatch[r].through THEN RecordSend(r) ELSE UNCHANGED throttleVars
  /\ dispatch' = [dispatch EXCEPT ![r] = Idle]
  /\ UNCHANGED <<Others, histories>>

JobDone ==
  /\ worker = "busy"
  /\ \A r \in Recipients : dispatch[r] = Idle
  /\ worker' = "waiting"
  /\ job' = NoJob
  /\ UNCHANGED <<queue, dispatch, throttleVars, histories>>

-----------------------------------------------------------------------------
(* What is forgotten after an hour was recorded first: the rest is a tail. *)
Young(s) == {i \in DOMAIN s : s[i].age + 1 < Hour}

Older(s) ==
  LET kept == Cardinality(Young(s))
  IN  [i \in 1..kept |-> [s[Len(s) - kept + i] EXCEPT !.age = @ + 1]]

Tick ==
  /\ hourly' = [r \in Recipients |-> Older(hourly[r])]
  /\ window' = [k \in Keys |-> IF window[k] < Window THEN window[k] + 1 ELSE Window]
  /\ sent' = [r \in Recipients |-> Older(sent[r])]
  /\ last' = [k \in DOMAIN last |-> IF last[k] < Window THEN last[k] + 1 ELSE Window]
  /\ UNCHANGED <<queue, worker, job, dispatch>>

Dispatch(r) == Refuse(r) \/ FilterRaises(r) \/ Admit(r) \/ SendSucceeds(r) \/ SendFails(r) \/ Finish(r)

Next ==
  \/ Start \/ Stop \/ TakeJob \/ JobDone \/ Tick
  \/ \E j \in Jobs : Enqueue(j)
  \/ \E r \in Recipients : Dispatch(r)

Spec == Init /\ [][Next]_vars

(* The event loop runs the worker and the dispatches; every send returns.  *)
FairSpec ==
  /\ Spec
  /\ WF_vars(TakeJob) /\ WF_vars(JobDone)
  /\ \A r \in Recipients : WF_vars(Dispatch(r))

-----------------------------------------------------------------------------
Entry == [age : 0..(Hour - 1), key : Keys]

(* The queue respects its bound, no dispatch counts past its attempts, and *)
(* the throttle keeps nothing older than an hour.                          *)
TypeOK ==
  /\ queue \in Seq(Jobs) /\ Len(queue) <= QueueMax
  /\ worker \in {"off", "waiting", "busy", "stopped"}
  /\ job \in Jobs \cup {NoJob}
  /\ dispatch \in [Recipients -> [stage : {"idle", "check", "send"},
                                  left : Seq({"whatsapp", "email"}),
                                  tries : 0..(Attempts - 1),
                                  through : BOOLEAN, arrived : BOOLEAN]]
  /\ hourly \in [Recipients -> Seq([age : 0..(Hour - 1)])]
  /\ window \in [Keys -> 0..Window]
  /\ sent \in [Recipients -> Seq(Entry)]
  /\ last \in [Watched \X Subjects \X Severities -> 0..Window]

(* An alert reaches its recipient when it first arrives, answered or not,  *)
(* and again when a channel answers that it was sent.                      *)
Reaches(r) ==
  \/ dispatch'[r].arrived /\ ~dispatch[r].arrived
  \/ dispatch'[r].through /\ ~dispatch[r].through

(* No alert reaches a recipient to whom the cap of alerts was sent within  *)
(* the hour, whatever its severity and however long a dispatch takes       *)
(* between its check, its success and its record.                          *)
HourlyCap == [][\A r \in Recipients : Reaches(r) => Len(sent[r]) < MaxPerHour]_vars

Exempt(k) == Bypass /\ k[3] = Critical

(* No alert reaches a recipient to whom one of the same subject and        *)
(* severity was sent within the window, unless it bypasses the throttle.   *)
WindowRespected ==
  [][\A r \in Recipients :
       (Reaches(r) /\ ~Exempt(Key(r))) =>
         \A i \in DOMAIN sent[r] : sent[r][i].key = Key(r) => sent[r][i].age >= Window]_vars

(* The throttle promises one alert for each recipient, zone, track and     *)
(* severity within the window (throttle.py:133-134).  An alert that        *)
(* arrived while every try to send it raised is not recorded, and the next *)
(* one arrives as well.                                                    *)
OnePerWindow ==
  [][\A r \in Watched :
       (dispatch'[r].arrived /\ ~dispatch[r].arrived /\ ~Exempt(Key(r))) => last[Key(r)] = Window]_vars

(* A full queue drains while the worker lives: no recipient's broken       *)
(* channel holds up the alerts behind it.                                  *)
QueueMoves ==
  (Len(queue) = QueueMax /\ worker \in {"waiting", "busy"})
    ~> (Len(queue) < QueueMax \/ worker = "stopped")
(* For TLC: a supervisor with both channels who wants every alert and a    *)
(* colleague with e-mail only who wants the critical ones.                 *)
BothAndEmail ==
  [r \in Recipients |-> IF r = "supervisor" THEN <<"whatsapp", "email">> ELSE <<"email">>]

AllAndCritical ==
  [r \in Recipients |-> IF r = "supervisor" THEN Severities ELSE {Critical}]
=============================================================================
