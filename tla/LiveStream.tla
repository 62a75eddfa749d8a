----------------------------- MODULE LiveStream -----------------------------
(***************************************************************************)
(* The video stream over WebSockets (routes/stream.py): the registry with  *)
(* its lock and limit, and the handler of each socket; a client may go     *)
(* away at any moment.  Then the OptimisedConnectionManager that is meant  *)
(* to replace the registry (performance/ws_optimizer.py) and that no route *)
(* uses: its counters are left out.                                        *)
(***************************************************************************)
EXTENDS Naturals, FiniteSets

CONSTANTS
  Sockets,
  MaxConnections,
  LastFrame,      \* bound on the frames of the pipeline
  OptSockets,
  PriorityTypes, CappedTypes,   \* message types of the optimiser
  FrameGap, LastOptTick

ASSUME StreamAssumption == MaxConnections \in Nat

VARIABLES
  alive,        \* sockets whose client is still there
  handler,      \* where the handler of each socket is
  registered,   \* ConnectionManager._connections
  lockedBy,     \* the sockets inside _lock across an await
  latestFrame,  \* app_state's latest frame, 0 for none
  held,         \* the frame the handler of each socket took last
  broadcast     \* a broadcast under way
streamVars == <<alive, handler, registered, lockedBy, latestFrame, held, broadcast>>

VARIABLES
  optConns,   \* OptimisedConnectionManager._connections: last send time
  optSubs,    \* _subscriptions
  optSends,   \* messages being sent
  optClock
optVars == <<optConns, optSubs, optSends, optClock>>

Quiet == [at |-> "quiet"]

StreamInit ==
  /\ alive = {} /\ registered = {} /\ lockedBy = {}
  /\ handler = [s \in Sockets |-> "new"]
  /\ latestFrame = 0
  /\ held = [s \in Sockets |-> 0]
  /\ broadcast = Quiet

SocketGoes(s, to) == handler' = [handler EXCEPT ![s] = to]

-----------------------------------------------------------------------------
ClientComes(s) ==
  /\ handler[s] = "new"
  /\ alive' = alive \cup {s} /\ SocketGoes(s, "connect")
  /\ UNCHANGED <<registered, lockedBy, latestFrame, held, broadcast>>

ClientGoes(s) ==
  /\ s \in alive
  /\ alive' = alive \ {s}
  /\ UNCHANGED <<handler, registered, lockedBy, latestFrame, held, broadcast>>

NewFrame ==
  /\ latestFrame < LastFrame
  /\ latestFrame' = latestFrame + 1
  /\ UNCHANGED <<alive, handler, registered, lockedBy, held, broadcast>>

(* a manager without its lock, for comparison *)
LockFree_NoLock == TRUE
LockFree == lockedBy = {}

(* ConnectionManager.connect: the limit is checked and the socket accepted *)
(* or closed under the lock, across the await of either                    *)
Admit(s) ==
  /\ handler[s] = "connect" /\ LockFree
  /\ SocketGoes(s, IF Cardinality(registered) >= MaxConnections THEN "reject" ELSE "accept")
  /\ lockedBy' = lockedBy \cup {s}
  /\ UNCHANGED <<alive, registered, latestFrame, held, broadcast>>

Rejected(s) ==
  /\ handler[s] = "reject"
  /\ SocketGoes(s, "ended") /\ lockedBy' = lockedBy \ {s}
  /\ UNCHANGED <<alive, registered, latestFrame, held, broadcast>>

(* accept raises when the client has gone: the handler ends without a seat *)
SocketAccepted(s) ==
  /\ handler[s] = "accept"
  /\ lockedBy' = lockedBy \ {s}
  /\ \/ registered' = registered \cup {s} /\ SocketGoes(s, "receive")
     \/ s \notin alive /\ SocketGoes(s, "ended") /\ UNCHANGED registered
  /\ UNCHANGED <<alive, latestFrame, held, broadcast>>

(* one turn of video_stream: a message of the client or none, then the     *)
(* frame there is now; a message that is not an object ends the stream     *)
Receive(s) ==
  /\ handler[s] = "receive"
  /\ \/ SocketGoes(s, "leave") /\ UNCHANGED held
     \/ /\ latestFrame > 0 /\ registered # {}
        /\ held' = [held EXCEPT ![s] = latestFrame] /\ SocketGoes(s, "encode")
  /\ UNCHANGED <<alive, registered, lockedBy, latestFrame, broadcast>>

(* encoded in the executor and sent, or not encoded; a send to a client    *)
(* that has gone may fail, which ends the stream                           *)
Encoded(s) ==
  /\ handler[s] = "encode"
  /\ \/ SocketGoes(s, "receive")
     \/ s \notin alive /\ SocketGoes(s, "leave")
  /\ UNCHANGED <<alive, registered, lockedBy, latestFrame, held, broadcast>>

(* disconnect, in the finally clause *)
Leave(s) ==
  /\ handler[s] = "leave" /\ LockFree
  /\ registered' = registered \ {s} /\ SocketGoes(s, "ended")
  /\ UNCHANGED <<alive, lockedBy, latestFrame, held, broadcast>>

(* ConnectionManager.broadcast: a copy of the sockets, the sends, and out  *)
(* with those that failed, though their handlers are still there           *)
BroadcastStarts ==
  /\ broadcast = Quiet /\ registered # {} /\ LockFree
  /\ broadcast' = [at |-> "send", targets |-> registered]
  /\ UNCHANGED <<alive, handler, registered, lockedBy, latestFrame, held>>

BroadcastEnds ==
  /\ broadcast.at = "send" /\ LockFree
  /\ \E dead \in SUBSET (broadcast.targets \ alive) : registered' = registered \ dead
  /\ broadcast' = Quiet
  /\ UNCHANGED <<alive, handler, lockedBy, latestFrame, held>>

StreamNext ==
  \/ NewFrame \/ BroadcastStarts \/ BroadcastEnds
  \/ \E s \in Sockets :
       \/ ClientComes(s) \/ ClientGoes(s) \/ Admit(s) \/ Rejected(s) \/ SocketAccepted(s)
       \/ Receive(s) \/ Encoded(s) \/ Leave(s)

StreamSpec == StreamInit /\ [][StreamNext]_streamVars

-----------------------------------------------------------------------------
(* The registry never holds more sockets than its limit, and every socket  *)
(* in it has a handler that will take it out: no seat is lost to a client  *)
(* that went away between accept and register, or during a broadcast       *)
(* (stream.py:59-84, 124-205).                                             *)
StreamSeats ==
  /\ Cardinality(registered) <= MaxConnections
  /\ \A s \in registered : handler[s] \in {"receive", "encode", "leave"}

-----------------------------------------------------------------------------
OptInit ==
  /\ optConns = [s \in {} |-> 0] /\ optSubs = [s \in {} |-> {}]
  /\ optSends = {} /\ optClock = 0

AllTypes == PriorityTypes \cup CappedTypes
With(f, s, v) == [x \in DOMAIN f \cup {s} |-> IF x = s THEN v ELSE f[x]]
Without(f, s) == [x \in DOMAIN f \ {s} |-> f[x]]

(* no subscriptions, or an empty set of them, stands for all *)
OptConnect(s) ==
  /\ s \notin DOMAIN optSubs
  /\ optConns' = With(optConns, s, 0)
  /\ \E subs \in SUBSET AllTypes : optSubs' = With(optSubs, s, IF subs = {} THEN AllTypes ELSE subs)
  /\ UNCHANGED <<optSends, optClock>>

Removed(s) == optConns' = Without(optConns, s) /\ optSubs' = Without(optSubs, s)

OptDisconnect(s) ==
  /\ s \in DOMAIN optSubs
  /\ Removed(s)
  /\ UNCHANGED <<optSends, optClock>>

ShouldSend(s, type) ==
  \/ type \in PriorityTypes
  \/ /\ s \in DOMAIN optSubs => type \in optSubs[s]
     /\ optClock - optConns[s] >= FrameGap

(* broadcast: all sends start together *)
OptBroadcast(type) ==
  LET targets == {s \in DOMAIN optConns : ShouldSend(s, type)} IN
  /\ targets # {} /\ \A m \in optSends : m.type # type
  /\ optSends' = optSends \cup {[to |-> s, type |-> type, at |-> optClock] : s \in targets}
  /\ UNCHANGED <<optConns, optSubs, optClock>>

(* a send that succeeds writes the time of its socket, which registers one *)
(* that has been disconnected meanwhile again; one that fails removes it   *)
OptSent(m) ==
  /\ optSends' = optSends \ {m}
  /\ \/ optConns' = With(optConns, m.to, m.at) /\ UNCHANGED optSubs
     \/ Removed(m.to)
  /\ UNCHANGED optClock

OptTick ==
  /\ optClock < LastOptTick /\ optClock' = optClock + 1
  /\ UNCHANGED <<optConns, optSubs, optSends>>

OptNext ==
  \/ \E s \in OptSockets : OptConnect(s) \/ OptDisconnect(s)
  \/ \E type \in AllTypes : OptBroadcast(type)
  \/ \E m \in optSends : OptSent(m)
  \/ OptTick

=============================================================================
