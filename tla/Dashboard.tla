----------------------------- MODULE Dashboard -----------------------------
(***************************************************************************)
(* What the browser tab keeps (frontend/src/hooks, api/client.ts): the     *)
(* live feed over one socket with its reconnection, the violation log with *)
(* its acknowledgements, and the polled heatmap.  Every callback runs to   *)
(* its end; browser, network and query library (external) choose the order *)
(* of callbacks.                                                           *)
(***************************************************************************)
EXTENDS Naturals, Sequences, FiniteSets

CONSTANTS
  MaxRetries,    \* MAX_RETRIES
  MaxSockets,    \* bound: sockets opened
  Rows,          \* violations of the log
  LogFilters,    \* what the log can be narrowed to: one query each
  FirstFilter,   \* "all"
  AckCalls,      \* mutations under way at once
  MaxPolls       \* bound: heatmap requests

ASSUME FilterAssumption == FirstFilter \in LogFilters

VARIABLES
  sockets,       \* every socket made: ready state, isClosing, ping interval,
                 \* and a history: the server began to close it
  current,       \* socketRef, 0 for null
  retries,       \* retryCountRef
  timers,        \* timeouts pending, each named by the socket that set it
  timerRef,      \* retryTimeoutRef, 0 for null
  mounted, connected,
  lost           \* history: sockets that lost their place to a late close event
                 \* of another, which was dropped while the server closed it
feedVars == <<sockets, current, retries, timers, timerRef, mounted, connected, lost>>

VARIABLES
  acked,         \* acknowledged rows of violation_events
  filter,        \* the list on the screen
  lists,         \* the query of each filter
  ackCall,       \* each mutation: the rows not answered for, and those it got through
  confirmed      \* history: rows whose mutation has settled
logVars == <<acked, filter, lists, ackCall, confirmed>>

VARIABLES heatAsked, heatSent, heatShown, heatError
heatVars == <<heatAsked, heatSent, heatShown, heatError>>

-----------------------------------------------------------------------------
NewSocket == [ready |-> "connecting", closing |-> FALSE, ping |-> FALSE, byServer |-> FALSE]

(* a variant that leaves isClosing alone *)
Stopped_Audible(s) ==
  IF s # 0 /\ sockets[s].ready \in {"connecting", "open"}
  THEN [sockets EXCEPT ![s].ready = "closing"]
  ELSE sockets

(* The object createStreamSocket returns: closing it keeps its onClose     *)
(* from being told, unless the socket is closing already.                  *)
Stopped(s) ==
  IF s # 0 /\ sockets[s].ready \in {"connecting", "open"}
  THEN [sockets EXCEPT ![s].ready = "closing", ![s].closing = TRUE]
  ELSE sockets

(* connect: nothing while there is a socket; new WebSocket may raise *)
ConnectFrom(all, now) ==
  \/ /\ now # 0
     /\ sockets' = all /\ current' = now /\ UNCHANGED connected
  \/ /\ now = 0 /\ Len(all) < MaxSockets
     /\ sockets' = Append(all, NewSocket) /\ current' = Len(all) + 1 /\ UNCHANGED connected
  \/ /\ now = 0
     /\ sockets' = all /\ current' = 0 /\ connected' = FALSE

FeedInit ==
  /\ sockets = <<NewSocket>> /\ current = 1
  /\ retries = 0 /\ timers = {} /\ timerRef = 0
  /\ mounted = TRUE /\ connected = FALSE /\ lost = {}

Opened(s) ==
  /\ sockets[s].ready = "connecting"
  /\ sockets' = [sockets EXCEPT ![s] = [NewSocket EXCEPT !.ready = "open", !.ping = TRUE]]
  /\ connected' = (mounted \/ connected)
  /\ UNCHANGED <<current, retries, timers, timerRef, mounted, lost>>

FrameShown(s) ==
  /\ sockets[s].ready = "open" /\ mounted
  /\ connected' = TRUE /\ retries' = 0
  /\ UNCHANGED <<sockets, current, timers, timerRef, mounted, lost>>

(* the closing handshake, before the browser reports its end *)
ServerCloses(s) ==
  /\ sockets[s].ready = "open"
  /\ sockets' = [sockets EXCEPT ![s].ready = "closing", ![s].byServer = TRUE]
  /\ UNCHANGED <<current, retries, timers, timerRef, mounted, connected, lost>>

(* handleClose returns at once for a socket the client closed, whose ping  *)
(* interval goes on.  onClose does not ask whose end it is told.           *)
Closed(s) ==
  LET told == ~sockets[s].closing IN
  /\ sockets[s].ready # "closed"
  /\ sockets' = [sockets EXCEPT ![s].ready = "closed", ![s].closing = TRUE,
                                     ![s].ping = @ /\ ~told]
  /\ IF told /\ mounted
     THEN /\ current' = 0 /\ connected' = FALSE
          /\ IF retries < MaxRetries
             THEN retries' = retries + 1 /\ timers' = timers \cup {s} /\ timerRef' = s
             ELSE UNCHANGED <<retries, timers, timerRef>>
          /\ lost' = lost \cup
                (IF sockets[s].byServer \/ s \in lost THEN {current} \ {0, s} ELSE {})
     ELSE UNCHANGED <<current, connected, retries, timers, timerRef, lost>>
  /\ UNCHANGED mounted

RetryFires(t) ==
  /\ t \in timers /\ timers' = timers \ {t}
  /\ IF mounted THEN ConnectFrom(sockets, current) ELSE UNCHANGED <<sockets, current, connected>>
  /\ UNCHANGED <<retries, timerRef, mounted, lost>>

ClearRetry == timers' = timers \ {timerRef} /\ timerRef' = 0

Reconnect ==
  /\ mounted /\ retries' = 0 /\ ClearRetry
  /\ ConnectFrom(sockets, current)
  /\ UNCHANGED <<mounted, lost>>

DisconnectFeed ==
  /\ mounted /\ retries' = MaxRetries /\ ClearRetry
  /\ sockets' = Stopped(current) /\ current' = 0 /\ connected' = FALSE
  /\ UNCHANGED <<mounted, lost>>

(* The effect's cleanup, and the effect again: React's strict mode, or     *)
(* another pingMs.                                                         *)
RunAgain ==
  /\ mounted /\ ClearRetry
  /\ ConnectFrom(Stopped(current), 0)
  /\ UNCHANGED <<retries, mounted, lost>>

Unmount ==
  /\ mounted /\ mounted' = FALSE /\ ClearRetry
  /\ sockets' = Stopped(current) /\ current' = 0
  /\ UNCHANGED <<retries, connected, lost>>

FeedNext ==
  \/ \E s \in DOMAIN sockets : Opened(s) \/ FrameShown(s) \/ ServerCloses(s) \/ Closed(s)
  \/ \E t \in timers : RetryFires(t)
  \/ Reconnect \/ DisconnectFeed \/ RunAgain \/ Unmount

-----------------------------------------------------------------------------
(* A query: its data (as the rows the data knows as acknowledged), whether *)
(* it is invalidated, and the one request of it under way, with what the   *)
(* server read for it and the flag it goes back to when cancelled.  kept   *)
(* is a history: the request was left alone though a mutation had settled  *)
(* after the server's reading.                                             *)
NewList == [data |-> FALSE, shows |-> {}, invalid |-> FALSE, failed |-> FALSE,
            at |-> "none", saw |-> {}, before |-> FALSE, kept |-> FALSE]
Asking(l) == [l EXCEPT !.at = "asked", !.saw = {}, !.before = l.invalid, !.kept = FALSE]
Cancelled(l) ==
  IF l.at = "none" THEN l
  ELSE [l EXCEPT !.at = "none", !.saw = {}, !.invalid = l.before, !.before = FALSE, !.kept = FALSE]

NoCall == [rows |-> {}, through |-> {}]

LogInit ==
  /\ acked = {} /\ filter = FirstFilter
  /\ lists = [f \in LogFilters |-> IF f = FirstFilter THEN Asking(NewList) ELSE NewList]
  /\ ackCall = [m \in AckCalls |-> NoCall] /\ confirmed = {}

(* the list on the screen asks every five seconds, and once at a time *)
PollLog ==
  /\ lists[filter].at = "none" /\ lists' = [lists EXCEPT ![filter] = Asking(@)]
  /\ UNCHANGED <<acked, filter, ackCall, confirmed>>

(* a request that is tried again has been read for by its last try *)
ListViolations(f) ==
  /\ lists[f].at = "asked"
  /\ lists' = [lists EXCEPT ![f].at = "read", ![f].saw = acked]
  /\ UNCHANGED <<acked, filter, ackCall, confirmed>>

LogArrives(f) ==
  /\ lists[f].at = "read"
  /\ lists' = [lists EXCEPT ![f] = [NewList EXCEPT !.data = TRUE, !.shows = lists[f].saw, !.kept = lists[f].kept]]
  /\ UNCHANGED <<acked, filter, ackCall, confirmed>>

(* the fourth try has failed as well, or the first with nobody looking *)
LogFails(f) ==
  /\ lists[f].at # "none"
  /\ lists' = [lists EXCEPT ![f] = [@ EXCEPT !.at = "none", !.saw = {}, !.before = FALSE,
                                            !.failed = TRUE, !.invalid = TRUE]]
  /\ UNCHANGED <<acked, filter, ackCall, confirmed>>

(* Another list on the screen: it asks when it has no data or invalidated  *)
(* data, may do so when its data are two seconds old, and joins a request  *)
(* under way.                                                              *)
ShowFilter(f) ==
  /\ f # filter /\ filter' = f
  /\ \/ lists[f].at = "none" /\ lists' = [lists EXCEPT ![f] = Asking(@)]
     \/ (lists[f].at # "none" \/ (lists[f].data /\ ~lists[f].invalid)) /\ UNCHANGED lists
  /\ UNCHANGED <<acked, ackCall, confirmed>>

(* the query library forgets a list that was off the screen for minutes *)
Collected(f) ==
  /\ f # filter /\ lists[f].at = "none" /\ lists' = [lists EXCEPT ![f] = NewList]
  /\ UNCHANGED <<acked, filter, ackCall, confirmed>>

(* A row on the screen that is not acknowledged yet has the button.        *)
(* useAcknowledge cancels every request under way.  Its optimistic update  *)
(* is made under a key no list is kept under, and changes nothing.         *)
Acknowledge(m, row) ==
  /\ ackCall[m] = NoCall /\ lists[filter].data /\ row \notin lists[filter].shows
  /\ ackCall' = [ackCall EXCEPT ![m] = [rows |-> {row}, through |-> {}]]
  /\ lists' = [f \in LogFilters |-> Cancelled(lists[f])]
  /\ UNCHANGED <<acked, filter, confirmed>>

(* useBulkAcknowledge: one request a row, all at once *)
AcknowledgeAll(m, rows) ==
  /\ ackCall[m] = NoCall /\ lists[filter].data /\ rows \cap lists[filter].shows = {}
  /\ ackCall' = [ackCall EXCEPT ![m] = [rows |-> rows, through |-> {}]]
  /\ UNCHANGED <<acked, filter, lists, confirmed>>

AcknowledgeViolation(m, row) ==
  /\ row \in ackCall[m].rows /\ acked' = acked \cup {row}
  /\ UNCHANGED <<filter, lists, ackCall, confirmed>>

(* a variant that lets the request of the list on the screen do *)
Refetched_Joined(f) ==
  LET l == [lists[f] EXCEPT !.invalid = TRUE] IN
  IF f = filter /\ l.at = "none" THEN Asking(l) ELSE l

(* invalidateQueries marks every list; the one on the screen asks again,   *)
(* and its request under way is cancelled for that if it has data already. *)
(* Any other request goes on, with what the server has read.               *)
Refetched(f) ==
  LET l == [lists[f] EXCEPT !.invalid = TRUE] IN
  IF f = filter /\ (l.at = "none" \/ l.data) THEN Asking(l)
  ELSE [l EXCEPT !.kept = (l.kept \/ l.at = "read")]

(* An answer, or none (a request may have been carried out and its answer  *)
(* lost); the last one settles the mutation.                               *)
Answered(m, row) ==
  /\ row \in ackCall[m].rows
  /\ \E got \in {{row} \cap acked, {}} :
       LET call == [rows |-> ackCall[m].rows \ {row}, through |-> ackCall[m].through \cup got]
       IN IF call.rows # {}
          THEN ackCall' = [ackCall EXCEPT ![m] = call] /\ UNCHANGED <<lists, confirmed>>
          ELSE /\ ackCall' = [ackCall EXCEPT ![m] = NoCall]
               /\ confirmed' = confirmed \cup call.through
               /\ lists' = [f \in LogFilters |-> Refetched(f)]
  /\ UNCHANGED <<acked, filter>>

LogNext ==
  \/ PollLog
  \/ \E f \in LogFilters : ListViolations(f) \/ LogArrives(f) \/ LogFails(f) \/ ShowFilter(f) \/ Collected(f)
  \/ \E m \in AckCalls :
       \/ \E row \in Rows : Acknowledge(m, row) \/ AcknowledgeViolation(m, row) \/ Answered(m, row)
       \/ \E rows \in (SUBSET Rows) \ {{}} : AcknowledgeAll(m, rows)

-----------------------------------------------------------------------------
HeatInit == heatAsked = {} /\ heatSent = 0 /\ heatShown = 0 /\ heatError = FALSE

(* fetchMeta aborts a controller that getHeatmapMeta is not given: the     *)
(* earlier requests stay under way.                                        *)
FetchMeta ==
  /\ heatSent < MaxPolls /\ heatSent' = heatSent + 1
  /\ heatAsked' = heatAsked \cup {heatSent + 1}
  /\ UNCHANGED <<heatShown, heatError>>

MetaArrives(r) ==
  /\ r \in heatAsked /\ heatAsked' = heatAsked \ {r}
  /\ heatShown' = r /\ heatError' = FALSE
  /\ UNCHANGED heatSent

(* the last good picture stays *)
MetaFails(r) ==
  /\ r \in heatAsked /\ heatAsked' = heatAsked \ {r}
  /\ heatError' = TRUE
  /\ UNCHANGED <<heatSent, heatShown>>

HeatNext == FetchMeta \/ \E r \in heatAsked : MetaArrives(r) \/ MetaFails(r)

(* the hooks of one tab, which share nothing *)
DashboardSpec ==
  /\ FeedInit /\ LogInit /\ HeatInit
  /\ [][\/ FeedNext /\ UNCHANGED <<logVars, heatVars>>
        \/ LogNext /\ UNCHANGED <<feedVars, heatVars>>
        \/ HeatNext /\ UNCHANGED <<feedVars, logVars>>]_<<feedVars, logVars, heatVars>>

-----------------------------------------------------------------------------
Live == {s \in DOMAIN sockets : sockets[s].ready \in {"connecting", "open"}}

(* The hook has one feed, the one it holds; besides it, only what lost its *)
(* place to a late close event is live, whoever that took it from.  And it *)
(* says "connected" only while its socket is there to say when it ends, as *)
(* long as none was lost.                                                  *)
OneFeed ==
  /\ Live \subseteq {current} \cup lost
  /\ lost = {} /\ mounted /\ connected =>
       current # 0 /\ sockets[current].ready # "closed" /\ ~sockets[current].closing

Settled == \A m \in AckCalls : ackCall[m] = NoCall
AtRest(l) == l.data /\ l.at = "none" /\ ~l.failed

(* What has been acknowledged shows once nothing is under way any more: no *)
(* list that was read before the acknowledgement stays on the screen,      *)
(* except the answer of a request that the library left alone.             *)
AcksShow ==
  Settled /\ AtRest(lists[filter]) /\ ~lists[filter].kept => confirmed \subseteq lists[filter].shows

(* What the operator sees is so: one feed, and no acknowledgement undone   *)
(* by an older answer (useWebSocket.ts:70-198, useViolations.ts:141-170).  *)
ShownIsSo == OneFeed /\ AcksShow
=============================================================================
