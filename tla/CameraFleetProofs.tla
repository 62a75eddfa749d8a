------------------------- MODULE CameraFleetProofs -------------------------
(* Proofs about CameraFleet, for any cameras, callers and attempt limit.   *)
EXTENDS CameraFleet, TLAPS

(* An addition that has its row and has not started its child yet. *)
Starts(k) == (At(k, "add") \/ At(k, "spawn")) /\ request[k].op = "add"
Holds(k) == At(k, "register") \/ At(k, "stop")

(* A camera gets one child ever: its row is inserted once. *)
OneChildEver == \A i, j \in DOMAIN child : child[i].camera = child[j].camera => i = j

StartsFirst ==
  \A k \in Callers : Starts(k) => \A i \in DOMAIN child : child[i].camera # request[k].camera

StartsAlone ==
  \A k, l \in Callers :
    Starts(k) /\ Starts(l) /\ request[k].camera = request[l].camera => k = l

RowFirst ==
  \A c \in Cameras : camRow[c] = "none" =>
    /\ \A i \in DOMAIN child : child[i].camera # c
    /\ \A k \in Callers : Starts(k) => request[k].camera # c

HoldsItsOwn ==
  \A k \in Callers : Holds(k) => child[request[k].child].camera = request[k].camera

(* An addition finds nothing registered, so it never has to stop a child. *)
AdditionsDoNotStop ==
  \A k \in Callers : At(k, "stop") \/ At(k, "remove") => request[k].op # "add"

IInv ==
  /\ FleetTypeOK
  /\ OneChildEver
  /\ StartsFirst
  /\ StartsAlone
  /\ RowFirst
  /\ HoldsItsOwn
  /\ AdditionsDoNotStop
  /\ NoOrphans

-----------------------------------------------------------------------------
(* How a step changes the request of the client that takes it. *)

RequestsTyped == request \in [Callers -> {Done} \cup Request]

(* A request that begins has the fields it was begun with. *)
LEMMA BeginEffect ==
  ASSUME RequestsTyped, NEW k \in Callers, NEW op \in {"add", "remove", "restart"},
         NEW c \in Cameras, NEW stage \in Stages, NEW i \in Nat, Begin(k, op, c, stage, i)
  PROVE  /\ RequestsTyped'
         /\ request'[k] # Done
         /\ request'[k].op = op /\ request'[k].camera = c
         /\ request'[k].stage = stage /\ request'[k].child = i
         /\ \A l \in Callers : l # k => request'[l] = request[l]
<1> DEFINE new == [op |-> op, camera |-> c, stage |-> stage, child |-> i]
<1>1. new \in Request /\ new # Done
  BY DEF Request, Done
<1>2. request' = [request EXCEPT ![k] = new]
  BY DEF Begin
<1>3. request'[k] = new /\ \A l \in Callers : l # k => request'[l] = request[l]
  BY <1>2 DEF RequestsTyped
<1>4. RequestsTyped'
  BY <1>1, <1>2 DEF RequestsTyped
<1> QED
  BY <1>1, <1>3, <1>4

(* A request that continues keeps its kind and its camera. *)
LEMMA ContinueEffect ==
  ASSUME RequestsTyped, NEW k \in Callers, request[k] # Done,
         NEW stage \in Stages, NEW i \in Nat, Continue(k, stage, i)
  PROVE  /\ RequestsTyped'
         /\ request'[k] # Done
         /\ request'[k].op = request[k].op /\ request'[k].camera = request[k].camera
         /\ request'[k].stage = stage /\ request'[k].child = i
         /\ \A l \in Callers : l # k => request'[l] = request[l]
<1> DEFINE new == [request[k] EXCEPT !.stage = stage, !.child = i]
<1>1. request[k] \in Request
  BY DEF RequestsTyped
<1>2. /\ new \in Request
      /\ new.op = request[k].op /\ new.camera = request[k].camera
      /\ new.stage = stage /\ new.child = i
  BY <1>1 DEF Request
<1>3. new # Done
  BY <1>2, <1>1 DEF Request, Done
<1>4. request' = [request EXCEPT ![k] = new]
  BY DEF Continue
<1>5. request'[k] = new /\ \A l \in Callers : l # k => request'[l] = request[l]
  BY <1>4 DEF RequestsTyped
<1>6. RequestsTyped'
  BY <1>2, <1>4 DEF RequestsTyped
<1> QED
  BY <1>2, <1>3, <1>5, <1>6

(* A request that finishes leaves the others alone. *)
LEMMA FinishEffect ==
  ASSUME RequestsTyped, NEW k \in Callers, Finish(k)
  PROVE  /\ RequestsTyped'
         /\ request'[k] = Done
         /\ \A l \in Callers : l # k => request'[l] = request[l]
  BY DEF RequestsTyped, Finish

(* What TypeOK says of one request, one child and one registration. *)
LEMMA Typed ==
  ASSUME FleetTypeOK
  PROVE  /\ RequestsTyped
         /\ Len(child) \in Nat /\ DOMAIN child = 1..Len(child)
         /\ \A i \in DOMAIN child : child[i] \in Child /\ child[i].camera \in Cameras
         /\ \A c \in Cameras : processes[c] # NoChild => processes[c] \in DOMAIN child
         /\ \A k \in Callers : request[k] # Done => request[k].camera \in Cameras
<1>1. child \in Seq(Child)
  BY DEF FleetTypeOK
<1>2. Len(child) \in Nat /\ DOMAIN child = 1..Len(child) /\ \A i \in DOMAIN child : child[i] \in Child
  BY <1>1
<1>3. \A i \in DOMAIN child : child[i].camera \in Cameras
  BY <1>2 DEF Child
<1>4. RequestsTyped
  BY DEF FleetTypeOK, RequestsTyped
<1>5. \A k \in Callers : request[k] # Done => request[k].camera \in Cameras
  BY <1>4 DEF RequestsTyped, Request
<1>6. \A c \in Cameras : processes[c] # NoChild => processes[c] \in DOMAIN child
  BY DEF FleetTypeOK
<1> QED
  BY <1>2, <1>3, <1>4, <1>5, <1>6

(* A stage that needs a child names one that was started. *)
HoldersTyped == \A k \in Callers : Holds(k) => request[k].child \in DOMAIN child

LEMMA HoldersAreTyped == FleetTypeOK => HoldersTyped
  BY DEF FleetTypeOK, HoldersTyped, Holds

(* TypeOK from its parts, after a step. *)
LEMMA TypeAfter ==
  ASSUME RequestsTyped', HoldersTyped', (child \in Seq(Child))',
         (camRow \in [Cameras -> {"none", "active", "disabled"}])',
         (processes \in [Cameras -> {NoChild} \cup DOMAIN child])',
         (\A c \in Cameras : processes[c] # NoChild => child[processes[c]].camera = c)'
  PROVE  FleetTypeOK'
  BY DEF FleetTypeOK, RequestsTyped, HoldersTyped, Holds

-----------------------------------------------------------------------------
(* Steps that leave the children and what is registered alone: only the    *)
(* request of k moves, and only into Starts when nothing of its camera was *)
(* started before.                                                         *)
LEMMA RequestStep ==
  ASSUME IInv, NEW k \in Callers,
         UNCHANGED <<processes, child>>,
         RequestsTyped', \A l \in Callers : l # k => request'[l] = request[l],
         (camRow \in [Cameras -> {"none", "active", "disabled"}])',
         \A c \in Cameras : camRow'[c] = "none" => camRow[c] = "none",
         ~Holds(k), ~Holds(k)',
         At(k, "remove")' => request'[k].op # "add",
         Starts(k)' =>
           /\ camRow'[request'[k].camera] # "none"
           /\ \A i \in DOMAIN child : child[i].camera # request'[k].camera
           /\ \A l \in Callers : l # k /\ Starts(l) => request[l].camera # request'[k].camera
  PROVE  IInv'
<1> USE DEF IInv
<1>1. \A l \in Callers : l # k => (Holds(l)' <=> Holds(l)) /\ (Starts(l)' <=> Starts(l))
  BY DEF Holds, Starts, At
<1>2. HoldersTyped'
  BY <1>1, HoldersAreTyped DEF HoldersTyped
<1>3. FleetTypeOK'
  BY <1>2, TypeAfter DEF FleetTypeOK
<1>4. OneChildEver'
  BY DEF OneChildEver
<1>5. StartsFirst'
  BY <1>1 DEF StartsFirst
<1>6. StartsAlone'
  BY <1>1 DEF StartsAlone
<1>7. RowFirst'
  BY <1>1 DEF RowFirst
<1>8. HoldsItsOwn'
  BY <1>1 DEF HoldsItsOwn
<1>9. AdditionsDoNotStop'
  BY DEF AdditionsDoNotStop, At, Holds
<1>10. NoOrphans'
  <2> SUFFICES ASSUME NEW i \in DOMAIN child, Alive(i)
               PROVE  \/ processes[child[i].camera] = i
                      \/ \E l \in Callers : Holds(l)' /\ request'[l].child = i
    BY DEF NoOrphans, Alive, Holds
  <2>1. \/ processes[child[i].camera] = i
        \/ \E l \in Callers : Holds(l) /\ request[l].child = i
    BY DEF NoOrphans, Holds
  <2> QED
    BY <2>1, <1>1
<1> QED
  BY <1>3, <1>4, <1>5, <1>6, <1>7, <1>8, <1>9, <1>10

(* Steps that take the child of c, if there is one, out of the registry:   *)
(* from then on the request of k holds it.                                 *)
LEMMA TakeOutStep ==
  ASSUME IInv, NEW k \in Callers, NEW c \in Cameras,
         UNCHANGED <<camRow, child>>,
         processes' = [processes EXCEPT ![c] = NoChild],
         RequestsTyped', \A l \in Callers : l # k => request'[l] = request[l],
         ~Holds(k),
         Starts(k)' => Starts(k) /\ request'[k].camera = request[k].camera,
         ~At(k, "remove")',
         processes[c] = NoChild => ~Holds(k)',
         processes[c] # NoChild =>
           /\ At(k, "stop")'
           /\ request'[k].child = processes[c]
           /\ request'[k].camera = c
           /\ request'[k].op # "add"
  PROVE  IInv'
<1> USE DEF IInv
<1>1. \A l \in Callers : l # k => (Holds(l)' <=> Holds(l)) /\ (Starts(l)' <=> Starts(l))
  BY DEF Holds, Starts, At
<1>2. processes \in [Cameras -> {NoChild} \cup DOMAIN child]
  BY DEF FleetTypeOK
<1>3. /\ processes'[c] = NoChild
      /\ \A d \in Cameras : d # c => processes'[d] = processes[d]
      /\ processes' \in [Cameras -> {NoChild} \cup DOMAIN child]
  BY <1>2
<1>4. Holds(k)' => processes[c] # NoChild
  OBVIOUS
<1>5. HoldersTyped'
  BY <1>1, <1>2, <1>4, HoldersAreTyped DEF HoldersTyped
<1>6. FleetTypeOK'
  <2>1. (\A d \in Cameras : processes[d] # NoChild => child[processes[d]].camera = d)'
    BY <1>3 DEF FleetTypeOK
  <2> QED
    BY <1>3, <1>5, <2>1, TypeAfter DEF FleetTypeOK
<1>7. OneChildEver'
  BY DEF OneChildEver
<1>8. StartsFirst'
  BY <1>1 DEF StartsFirst
<1>9. StartsAlone'
  BY <1>1 DEF StartsAlone
<1>10. RowFirst'
  BY <1>1 DEF RowFirst
<1>11. HoldsItsOwn'
  BY <1>1, <1>4 DEF HoldsItsOwn, FleetTypeOK
<1>12. AdditionsDoNotStop'
  BY <1>1, <1>4 DEF AdditionsDoNotStop, At, Holds
<1>13. NoOrphans'
  <2> SUFFICES ASSUME NEW i \in DOMAIN child, Alive(i)
               PROVE  \/ processes'[child[i].camera] = i
                      \/ \E l \in Callers : Holds(l)' /\ request'[l].child = i
    BY DEF NoOrphans, Alive, Holds
  <2>1. child[i].camera \in Cameras /\ i # NoChild
    BY Typed DEF NoChild
  <2>2. CASE processes[child[i].camera] = i
    <3>1. CASE child[i].camera = c
      <4>1. Holds(k)' /\ request'[k].child = i
        BY <2>1, <2>2, <3>1 DEF Holds
      <4> QED
        BY <4>1
    <3>2. CASE child[i].camera # c
      BY <1>3, <2>1, <2>2, <3>2
    <3> QED
      BY <3>1, <3>2
  <2>3. CASE \E l \in Callers : Holds(l) /\ request[l].child = i
    BY <2>3, <1>1
  <2> QED
    BY <2>2, <2>3 DEF NoOrphans, Holds
<1> QED
  BY <1>6, <1>7, <1>8, <1>9, <1>10, <1>11, <1>12, <1>13

-----------------------------------------------------------------------------
(* Steps of a child: it keeps its camera and never comes back to life. *)

SameChildren ==
  /\ child' \in Seq(Child)
  /\ DOMAIN child' = DOMAIN child
  /\ \A i \in DOMAIN child : child'[i].camera = child[i].camera /\ (Alive(i)' => Alive(i))

LEMMA OneChildMoves ==
  ASSUME FleetTypeOK, NEW i \in DOMAIN child, NEW new \in Child,
         new.camera = child[i].camera, new.phase # "gone" => Alive(i),
         child' = [child EXCEPT ![i] = new]
  PROVE  SameChildren
<1>1. child \in Seq(Child)
  BY DEF FleetTypeOK
<1>2. child' \in Seq(Child) /\ DOMAIN child' = DOMAIN child
  BY <1>1
<1>3. \A j \in DOMAIN child : child'[j] = IF j = i THEN new ELSE child[j]
  BY <1>1
<1> QED
  BY <1>2, <1>3 DEF SameChildren, Alive

LEMMA ChildEnds ==
  ASSUME FleetTypeOK, NEW i \in DOMAIN child, child' = Ended(i)
  PROVE  SameChildren /\ ~Alive(i)'
<1> DEFINE new == [child[i] EXCEPT !.phase = "gone"]
<1>1. child[i] \in Child
  BY Typed
<1>2. new \in Child /\ new.camera = child[i].camera /\ new.phase = "gone"
  BY <1>1 DEF Child, Phases
<1>3. child' = [child EXCEPT ![i] = new]
  BY DEF Ended
<1>4. child'[i] = new
  BY <1>3, Typed
<1> QED
  BY <1>2, <1>3, <1>4, OneChildMoves DEF Alive

LEMMA ChildStep ==
  ASSUME IInv, SameChildren, UNCHANGED <<camRow, processes, request>>
  PROVE  IInv'
<1> USE DEF IInv
<1>1. \A k \in Callers : (Holds(k)' <=> Holds(k)) /\ (Starts(k)' <=> Starts(k))
  BY DEF Holds, Starts, At
<1>2. HoldersTyped' /\ RequestsTyped'
  BY <1>1, HoldersAreTyped, Typed DEF HoldersTyped, SameChildren, RequestsTyped
<1>3. FleetTypeOK'
  <2>1. (\A c \in Cameras : processes[c] # NoChild => child[processes[c]].camera = c)'
    BY Typed DEF FleetTypeOK, SameChildren
  <2> QED
    BY <1>2, <2>1, TypeAfter DEF FleetTypeOK, SameChildren
<1>4. OneChildEver' /\ StartsFirst' /\ StartsAlone' /\ RowFirst'
  BY <1>1 DEF OneChildEver, StartsFirst, StartsAlone, RowFirst, SameChildren
<1>5. HoldsItsOwn'
  BY <1>1, HoldersAreTyped DEF HoldersTyped, HoldsItsOwn, SameChildren
<1>6. AdditionsDoNotStop'
  BY DEF AdditionsDoNotStop, At
<1>7. NoOrphans'
  BY DEF NoOrphans, At, SameChildren
<1> QED
  BY <1>3, <1>4, <1>5, <1>6, <1>7

(* The child that a request holds is stopped, and the request lets it go. *)
LEMMA StopStep ==
  ASSUME IInv, NEW k \in Callers, At(k, "stop"),
         NEW held, held = request[k].child, child' = Ended(held),
         UNCHANGED <<camRow, processes>>,
         RequestsTyped', \A l \in Callers : l # k => request'[l] = request[l],
         ~Holds(k)', ~Starts(k)', ~At(k, "remove")'
  PROVE  IInv'
<1> USE DEF IInv
<1>1. \A l \in Callers : l # k => (Holds(l)' <=> Holds(l)) /\ (Starts(l)' <=> Starts(l))
  BY DEF Holds, Starts, At
<1>2. held \in DOMAIN child
  BY DEF FleetTypeOK
<1>3. SameChildren /\ ~Alive(held)'
  BY <1>2, ChildEnds
<1>4. HoldersTyped'
  BY <1>1, <1>3, HoldersAreTyped DEF HoldersTyped, SameChildren
<1>5. FleetTypeOK'
  <2>1. (\A c \in Cameras : processes[c] # NoChild => child[processes[c]].camera = c)'
    BY <1>3, Typed DEF FleetTypeOK, SameChildren
  <2> QED
    BY <1>3, <1>4, <2>1, TypeAfter DEF FleetTypeOK, SameChildren
<1>6. OneChildEver' /\ StartsFirst' /\ StartsAlone' /\ RowFirst'
  BY <1>1, <1>3 DEF OneChildEver, StartsFirst, StartsAlone, RowFirst, SameChildren
<1>7. HoldsItsOwn'
  BY <1>1, <1>3, HoldersAreTyped DEF HoldersTyped, HoldsItsOwn, SameChildren
<1>8. AdditionsDoNotStop'
  BY DEF AdditionsDoNotStop, At, Holds
<1>9. NoOrphans'
  <2> SUFFICES ASSUME NEW i \in DOMAIN child, Alive(i)'
               PROVE  \/ processes[child[i].camera] = i
                      \/ \E l \in Callers : Holds(l)' /\ request'[l].child = i
    BY <1>3 DEF NoOrphans, SameChildren, Holds
  <2>1. Alive(i) /\ i # held
    BY <1>3 DEF SameChildren
  <2>2. CASE processes[child[i].camera] = i
    BY <2>2
  <2>3. CASE \E l \in Callers : Holds(l) /\ request[l].child = i
    BY <2>1, <2>3, <1>1
  <2> QED
    BY <2>1, <2>2, <2>3 DEF NoOrphans, Holds
<1> QED
  BY <1>5, <1>6, <1>7, <1>8, <1>9

-----------------------------------------------------------------------------
(* The first child of a camera is started: its request holds it. *)
LEMMA SpawnStep ==
  ASSUME IInv, NEW k \in Callers, Spawn(k)
  PROVE  IInv'
<1> USE DEF IInv
<1>1. Starts(k) /\ request[k] # Done /\ request[k].camera \in Cameras
  BY Typed DEF Spawn, Starts, At
<1>2. PICK new : new = [camera |-> request[k].camera, phase |-> "loading", failed |-> 0]
  OBVIOUS
<1>3. new \in Child /\ new.camera = request[k].camera
  BY <1>1, <1>2, FleetAssumption DEF Child, Phases
<1>4. PICK n : n = Len(child) + 1
  OBVIOUS
<1>5. /\ child' \in Seq(Child)
      /\ n \in Nat \ {NoChild} /\ n = Len(child') /\ n \notin DOMAIN child
      /\ DOMAIN child' = DOMAIN child \cup {n}
      /\ \A i \in DOMAIN child : child'[i] = child[i]
      /\ child'[n] = new
  <2>1. child' = Append(child, new) /\ child \in Seq(Child)
    BY <1>2 DEF Spawn, FleetTypeOK
  <2>2. Len(child) \in Nat /\ DOMAIN child = 1..Len(child)
    BY Typed
  <2>3. child' \in Seq(Child) /\ Len(child') = n /\ DOMAIN child' = 1..n
    BY <2>1, <2>2, <1>3, <1>4
  <2>4. (\A i \in DOMAIN child : child'[i] = child[i]) /\ child'[n] = new
    BY <2>1, <2>2, <1>3, <1>4
  <2> QED
    BY <2>2, <2>3, <2>4, <1>4 DEF NoChild
<1>6. /\ RequestsTyped' /\ At(k, "register")' /\ request'[k].child = n
      /\ request'[k].camera = request[k].camera
      /\ \A l \in Callers : l # k => request'[l] = request[l]
  <2>1. Continue(k, "register", n) /\ "register" \in Stages
    BY <1>5 DEF Spawn, Stages
  <2> QED
    BY <2>1, <1>1, <1>5, ContinueEffect, Typed DEF At
<1>7. \A l \in Callers : l # k => (Holds(l)' <=> Holds(l)) /\ (Starts(l)' <=> Starts(l))
  BY <1>6 DEF Holds, Starts, At
<1>8. Holds(k)' /\ ~Starts(k)' /\ ~At(k, "stop")'
  BY <1>6 DEF Holds, Starts, At
<1>9. camRow[request[k].camera] # "none" /\ UNCHANGED <<camRow, processes>>
  BY <1>1 DEF RowFirst, Spawn
<1>10. HoldersTyped'
  BY <1>5, <1>6, <1>7, HoldersAreTyped DEF HoldersTyped
<1>11. FleetTypeOK'
  <2>1. (processes \in [Cameras -> {NoChild} \cup DOMAIN child])'
    BY <1>5, <1>9 DEF FleetTypeOK
  <2>2. (\A c \in Cameras : processes[c] # NoChild => child[processes[c]].camera = c)'
    BY <1>5, <1>9, Typed DEF FleetTypeOK
  <2>3. camRow' = camRow /\ camRow \in [Cameras -> {"none", "active", "disabled"}]
    BY <1>9 DEF FleetTypeOK
  <2>4. (camRow \in [Cameras -> {"none", "active", "disabled"}])'
    BY <2>3
  <2> QED
    BY <1>5, <1>6, <1>10, <2>1, <2>2, <2>4, TypeAfter
<1>12. OneChildEver'
  BY <1>1, <1>3, <1>5 DEF OneChildEver, StartsFirst
<1>13. StartsFirst'
  BY <1>1, <1>3, <1>5, <1>6, <1>7, <1>8 DEF StartsFirst, StartsAlone
<1>14. StartsAlone'
  BY <1>6, <1>7, <1>8 DEF StartsAlone
<1>15. RowFirst'
  BY <1>3, <1>5, <1>6, <1>7, <1>8, <1>9 DEF RowFirst
<1>16. HoldsItsOwn'
  BY <1>3, <1>5, <1>6, <1>7, HoldersAreTyped DEF HoldsItsOwn, HoldersTyped
<1>17. AdditionsDoNotStop'
  BY <1>6, <1>8 DEF AdditionsDoNotStop, At
<1>18. NoOrphans'
  <2> SUFFICES ASSUME NEW i \in DOMAIN child', Alive(i)'
               PROVE  \/ processes'[child'[i].camera] = i
                      \/ \E l \in Callers : Holds(l)' /\ request'[l].child = i
    BY DEF NoOrphans, Holds
  <2>1. CASE i = n
    BY <2>1, <1>6, <1>8
  <2>2. CASE i # n
    <3>1. i \in DOMAIN child /\ Alive(i) /\ child'[i] = child[i]
      BY <2>2, <1>5 DEF Alive
    <3>2. \/ processes[child[i].camera] = i
          \/ \E l \in Callers : Holds(l) /\ request[l].child = i
      BY <3>1 DEF NoOrphans, Holds
    <3>3. ~Holds(k)
      BY <1>1 DEF Starts, Holds, At
    <3> QED
      BY <3>1, <3>2, <3>3, <1>6, <1>7, <1>9
  <2> QED
    BY <2>1, <2>2
<1> QED
  BY <1>11, <1>12, <1>13, <1>14, <1>15, <1>16, <1>17, <1>18

(* The child that was started is registered, and its request ends. *)
LEMMA RegisterStep ==
  ASSUME IInv, NEW k \in Callers, Register(k)
  PROVE  IInv'
<1> USE DEF IInv
<1>1. PICK c, n : c = request[k].camera /\ n = request[k].child
  OBVIOUS
<1>2. Holds(k) /\ c \in Cameras /\ n \in DOMAIN child /\ n # NoChild /\ child[n].camera = c
  <2>1. Holds(k) /\ request[k] # Done
    BY DEF Register, Holds, At
  <2> QED
    BY <2>1, <1>1, HoldersAreTyped, Typed DEF HoldersTyped, HoldsItsOwn, NoChild
<1>3. /\ processes' \in [Cameras -> {NoChild} \cup DOMAIN child]
      /\ processes'[c] = n
      /\ \A d \in Cameras : d # c => processes'[d] = processes[d]
  <2>1. processes' = [processes EXCEPT ![c] = n]
    BY <1>1 DEF Register
  <2> QED
    BY <2>1, <1>2 DEF FleetTypeOK
<1>4. RequestsTyped' /\ request'[k] = Done /\ \A l \in Callers : l # k => request'[l] = request[l]
  BY FinishEffect, Typed DEF Register
<1>5. \A l \in Callers : l # k => (Holds(l)' <=> Holds(l)) /\ (Starts(l)' <=> Starts(l))
  BY <1>4 DEF Holds, Starts, At
<1>6. ~Holds(k)' /\ ~Starts(k)'
  BY <1>4 DEF Holds, Starts, At
<1>7. UNCHANGED <<camRow, child>>
  BY DEF Register
<1>8. HoldersTyped'
  BY <1>4, <1>5, <1>6, <1>7, HoldersAreTyped DEF HoldersTyped
<1>9. FleetTypeOK'
  <2>1. (\A d \in Cameras : processes[d] # NoChild => child[processes[d]].camera = d)'
    BY <1>2, <1>3, <1>7 DEF FleetTypeOK
  <2> QED
    BY <1>3, <1>4, <1>7, <1>8, <2>1, TypeAfter DEF FleetTypeOK
<1>10. OneChildEver' /\ StartsFirst' /\ StartsAlone' /\ RowFirst'
  BY <1>4, <1>5, <1>6, <1>7 DEF OneChildEver, StartsFirst, StartsAlone, RowFirst
<1>11. HoldsItsOwn' /\ AdditionsDoNotStop'
  BY <1>4, <1>5, <1>6, <1>7 DEF HoldsItsOwn, AdditionsDoNotStop, At, Holds
<1>12. NoOrphans'
  <2> SUFFICES ASSUME NEW i \in DOMAIN child, Alive(i)
               PROVE  \/ processes'[child[i].camera] = i
                      \/ \E l \in Callers : Holds(l)' /\ request'[l].child = i
    BY <1>7 DEF NoOrphans, Alive, Holds
  <2>1. CASE child[i].camera = c
    <3>1. i = n
      BY <2>1, <1>2 DEF OneChildEver
    <3> QED
      BY <3>1, <1>2, <1>3
  <2>2. CASE child[i].camera # c
    <3>1. i # n /\ child[i].camera \in Cameras
      BY <2>2, <1>2, Typed
    <3>2. CASE processes[child[i].camera] = i
      BY <3>1, <3>2, <2>2, <1>3
    <3>3. CASE \E l \in Callers : Holds(l) /\ request[l].child = i
      BY <3>1, <3>3, <1>1, <1>4, <1>5
    <3> QED
      BY <3>2, <3>3 DEF NoOrphans, Holds
  <2> QED
    BY <2>1, <2>2
<1> QED
  BY <1>9, <1>10, <1>11, <1>12

(* A restart of the server leaves dead children and no request. *)
LEMMA ServerRestartStep ==
  ASSUME IInv, ServerRestarts
  PROVE  IInv'
<1> USE DEF IInv
<1>1. /\ UNCHANGED camRow /\ RequestsTyped'
      /\ \A k \in Callers : request'[k] = Done
      /\ processes' \in [Cameras -> {NoChild}]
      /\ \A c \in Cameras : processes'[c] = NoChild
  BY DEF ServerRestarts, RequestsTyped
<1>2. \A k \in Callers : ~Holds(k)' /\ ~Starts(k)' /\ ~At(k, "stop")' /\ ~At(k, "remove")'
  BY <1>1 DEF Holds, Starts, At
<1>3. SameChildren /\ \A i \in DOMAIN child' : ~Alive(i)'
  <2>1. \A i \in DOMAIN child : /\ [child[i] EXCEPT !.phase = "gone"] \in Child
                                /\ [child[i] EXCEPT !.phase = "gone"].camera = child[i].camera
                                /\ [child[i] EXCEPT !.phase = "gone"].phase = "gone"
    BY Typed DEF Child, Phases
  <2>2. DOMAIN child' = DOMAIN child
    BY DEF ServerRestarts
  <2>3. \A i \in DOMAIN child : child'[i] = [child[i] EXCEPT !.phase = "gone"]
    BY DEF ServerRestarts
  <2>4. child' \in Seq(Child)
    BY <2>1, Typed DEF ServerRestarts
  <2> QED
    BY <2>1, <2>2, <2>3, <2>4 DEF SameChildren, Alive
<1>4. FleetTypeOK'
  <2>1. HoldersTyped'
    BY <1>2 DEF HoldersTyped
  <2> QED
    BY <1>1, <1>3, <2>1, TypeAfter DEF FleetTypeOK, SameChildren
<1>5. OneChildEver' /\ StartsFirst' /\ StartsAlone' /\ RowFirst'
  BY <1>1, <1>2, <1>3 DEF OneChildEver, StartsFirst, StartsAlone, RowFirst, SameChildren
<1>6. HoldsItsOwn' /\ AdditionsDoNotStop'
  BY <1>2 DEF HoldsItsOwn, AdditionsDoNotStop
<1>7. NoOrphans'
  BY <1>3 DEF NoOrphans
<1> QED
  BY <1>4, <1>5, <1>6, <1>7

(* The three steps that begin a request. *)
LEMMA BeginStep ==
  ASSUME IInv, NEW k \in Callers, NEW c \in Cameras,
         AddSelect(k, c) \/ RemoveUpdate(k, c) \/ Restart(k, c)
  PROVE  IInv'
<1> USE DEF IInv
<1>1. NoChild \in Nat /\ RequestsTyped /\ \A d \in Cameras : processes[d] \in Nat
  BY Typed DEF NoChild, FleetTypeOK
<1>2. "insert" \in Stages /\ "remove" \in Stages /\ "stop" \in Stages
  BY DEF Stages
<1>3. CASE AddSelect(k, c)
  <2>1. request[k] = Done /\ Begin(k, "add", c, "insert", NoChild) /\ UNCHANGED <<camRow, processes, child>>
    BY <1>3 DEF AddSelect
  <2>2. /\ RequestsTyped' /\ request'[k].stage = "insert"
        /\ \A l \in Callers : l # k => request'[l] = request[l]
    BY <2>1, <1>1, <1>2, BeginEffect
  <2>3. ~Holds(k) /\ ~Holds(k)' /\ ~Starts(k)' /\ ~At(k, "remove")'
    BY <2>1, <2>2 DEF Holds, Starts, At
  <2> QED
    BY <2>1, <2>2, <2>3, RequestStep DEF FleetTypeOK
<1>4. CASE RemoveUpdate(k, c)
  <2>1. /\ request[k] = Done /\ Begin(k, "remove", c, "remove", NoChild)
        /\ camRow[c] # "none" /\ camRow' = [camRow EXCEPT ![c] = "disabled"]
        /\ UNCHANGED <<processes, child>>
    BY <1>4 DEF RemoveUpdate
  <2>2. /\ RequestsTyped' /\ request'[k].stage = "remove" /\ request'[k].op = "remove"
        /\ \A l \in Callers : l # k => request'[l] = request[l]
    BY <2>1, <1>1, <1>2, BeginEffect
  <2>3. ~Holds(k) /\ ~Holds(k)' /\ ~Starts(k)'
    BY <2>1, <2>2 DEF Holds, Starts, At
  <2>4. /\ camRow' \in [Cameras -> {"none", "active", "disabled"}]
        /\ \A d \in Cameras : camRow'[d] = "none" => camRow[d] = "none"
    BY <2>1 DEF FleetTypeOK
  <2> QED
    BY <2>1, <2>2, <2>3, <2>4, RequestStep
<1>5. CASE Restart(k, c)
  <2>1. PICK i \in Nat : i = processes[c]
    BY <1>1
  <2>2. /\ request[k] = Done /\ Begin(k, "restart", c, "stop", i) /\ i # NoChild
        /\ processes' = [processes EXCEPT ![c] = NoChild] /\ UNCHANGED <<camRow, child>>
    BY <1>5, <2>1 DEF Restart
  <2>3. /\ RequestsTyped' /\ request'[k] # Done /\ request'[k].stage = "stop"
        /\ request'[k].op = "restart" /\ request'[k].camera = c /\ request'[k].child = i
        /\ \A l \in Callers : l # k => request'[l] = request[l]
    BY <2>2, <1>1, <1>2, BeginEffect
  <2>4. ~Holds(k) /\ At(k, "stop")' /\ ~Starts(k)' /\ ~At(k, "remove")'
    BY <2>2, <2>3 DEF Holds, Starts, At
  <2> QED
    BY <2>1, <2>2, <2>3, <2>4, TakeOutStep
<1> QED
  BY <1>3, <1>4, <1>5

(* The steps that carry a request on. *)
LEMMA ProceedStep ==
  ASSUME IInv, NEW k \in Callers, Proceed(k)
  PROVE  IInv'
<1> USE DEF IInv
<1>1. NoChild \in Nat /\ RequestsTyped /\ \A d \in Cameras : processes[d] \in Nat
  BY Typed DEF NoChild, FleetTypeOK
<1>2. \A stage \in {"add", "spawn", "stop"} : stage \in Stages
  BY DEF Stages
<1>3. CASE AddInsert(k)
  <2>1. PICK c : c = request[k].camera
    OBVIOUS
  <2>2. /\ request[k] # Done /\ c \in Cameras /\ At(k, "insert") /\ Continue(k, "add", NoChild)
        /\ camRow[c] = "none" /\ camRow' = [camRow EXCEPT ![c] = "active"]
        /\ UNCHANGED <<processes, child>>
    BY <1>3, <2>1, Typed DEF AddInsert, At
  <2>3. /\ RequestsTyped' /\ request'[k].stage = "add" /\ request'[k].camera = c
        /\ \A l \in Callers : l # k => request'[l] = request[l]
    BY <2>1, <2>2, <1>1, <1>2, ContinueEffect
  <2>4. ~Holds(k) /\ ~Holds(k)' /\ ~At(k, "remove")'
    BY <2>2, <2>3 DEF Holds, At
  <2>5. /\ camRow' \in [Cameras -> {"none", "active", "disabled"}]
        /\ camRow'[c] # "none"
        /\ \A d \in Cameras : camRow'[d] = "none" => camRow[d] = "none"
    BY <2>2 DEF FleetTypeOK
  <2>6. /\ \A i \in DOMAIN child : child[i].camera # c
        /\ \A l \in Callers : Starts(l) => request[l].camera # c
    BY <2>2 DEF RowFirst
  <2> QED
    BY <2>2, <2>3, <2>4, <2>5, <2>6, RequestStep
<1>4. CASE InsertFails(k) \/ SpawnFails(k)
  <2>1. ~Holds(k) /\ Finish(k) /\ UNCHANGED <<camRow, processes, child>>
    BY <1>4 DEF InsertFails, SpawnFails, Holds, At
  <2>2. /\ RequestsTyped' /\ request'[k] = Done
        /\ \A l \in Callers : l # k => request'[l] = request[l]
    BY <2>1, <1>1, FinishEffect
  <2>3. ~Holds(k)' /\ ~Starts(k)' /\ ~At(k, "remove")'
    BY <2>2 DEF Holds, Starts, At
  <2> QED
    BY <2>1, <2>2, <2>3, RequestStep DEF FleetTypeOK
<1>5. CASE Remove(k)
  <2>1. PICK c, i : c = request[k].camera /\ i = processes[c]
    OBVIOUS
  <2>2. /\ At(k, "remove") /\ request[k] # Done /\ c \in Cameras /\ i \in Nat
        /\ processes' = [processes EXCEPT ![c] = NoChild] /\ UNCHANGED <<camRow, child>>
        /\ IF i = NoChild THEN Finish(k) ELSE Continue(k, "stop", i)
    BY <1>1, <1>5, <2>1, Typed DEF Remove, At
  <2>3. ~Holds(k) /\ ~Starts(k)
    BY <2>2 DEF Holds, Starts, At
  <2>4. request[k].op # "add"
    BY <2>2 DEF AdditionsDoNotStop
  <2>5. CASE i = NoChild
    <3>1. /\ RequestsTyped' /\ request'[k] = Done
          /\ \A l \in Callers : l # k => request'[l] = request[l]
      BY <2>2, <2>5, <1>1, FinishEffect
    <3>2. ~Holds(k)' /\ ~Starts(k)' /\ ~At(k, "remove")'
      BY <3>1 DEF Holds, Starts, At
    <3> QED
      BY <2>1, <2>2, <2>3, <2>5, <3>1, <3>2, TakeOutStep
  <2>6. CASE i # NoChild
    <3>1. /\ RequestsTyped' /\ request'[k] # Done /\ request'[k].op = request[k].op
          /\ request'[k].camera = c /\ request'[k].stage = "stop" /\ request'[k].child = i
          /\ \A l \in Callers : l # k => request'[l] = request[l]
      BY <2>1, <2>2, <2>6, <1>1, <1>2, ContinueEffect
    <3>2. At(k, "stop")' /\ ~Starts(k)' /\ ~At(k, "remove")'
      BY <3>1 DEF Starts, At
    <3> QED
      BY <2>1, <2>2, <2>3, <2>4, <2>6, <3>1, <3>2, TakeOutStep
  <2> QED
    BY <2>5, <2>6
<1>6. CASE StopChild(k)
  <2>1. PICK held : held = request[k].child
    OBVIOUS
  <2>2. /\ At(k, "stop") /\ request[k] # Done /\ child' = Ended(held) /\ UNCHANGED <<camRow, processes>>
        /\ IF request[k].op = "remove" THEN Finish(k) ELSE Continue(k, "add", NoChild)
    BY <1>6, <2>1 DEF StopChild, At
  <2>3. request[k].op # "add"
    BY <2>2 DEF AdditionsDoNotStop
  <2>4. CASE request[k].op = "remove"
    <3>1. /\ RequestsTyped' /\ request'[k] = Done
          /\ \A l \in Callers : l # k => request'[l] = request[l]
      BY <2>2, <2>4, <1>1, FinishEffect
    <3>2. ~Holds(k)' /\ ~Starts(k)' /\ ~At(k, "remove")'
      BY <3>1 DEF Holds, Starts, At
    <3> QED
      BY <2>1, <2>2, <3>1, <3>2, StopStep
  <2>5. CASE request[k].op # "remove"
    <3>1. /\ RequestsTyped' /\ request'[k].op = request[k].op /\ request'[k].stage = "add"
          /\ \A l \in Callers : l # k => request'[l] = request[l]
      BY <2>2, <2>5, <1>1, <1>2, ContinueEffect
    <3>2. ~Holds(k)' /\ ~Starts(k)' /\ ~At(k, "remove")'
      BY <2>3, <3>1 DEF Holds, Starts, At
    <3> QED
      BY <2>1, <2>2, <3>1, <3>2, StopStep
  <2> QED
    BY <2>4, <2>5
<1>7. CASE Add(k)
  <2>1. PICK c, i : c = request[k].camera /\ i = processes[c]
    OBVIOUS
  <2>2. /\ At(k, "add") /\ request[k] # Done /\ c \in Cameras /\ i \in Nat
        /\ processes' = [processes EXCEPT ![c] = NoChild] /\ UNCHANGED <<camRow, child>>
        /\ IF i = NoChild THEN Continue(k, "spawn", NoChild) ELSE Continue(k, "stop", i)
    BY <1>1, <1>7, <2>1, Typed DEF Add, At
  <2>3. ~Holds(k)
    BY <2>2 DEF Holds, At
  <2>4. CASE i = NoChild
    <3>1. /\ RequestsTyped' /\ request'[k].op = request[k].op
          /\ request'[k].camera = c /\ request'[k].stage = "spawn"
          /\ \A l \in Callers : l # k => request'[l] = request[l]
      BY <2>1, <2>2, <2>4, <1>1, <1>2, ContinueEffect
    <3>2. ~Holds(k)' /\ ~At(k, "remove")' /\ (Starts(k)' => Starts(k))
      BY <2>2, <3>1 DEF Holds, Starts, At
    <3> QED
      BY <2>1, <2>2, <2>3, <2>4, <3>1, <3>2, TakeOutStep
  <2>5. CASE i # NoChild
    <3>1. /\ RequestsTyped' /\ request'[k] # Done /\ request'[k].op = request[k].op
          /\ request'[k].camera = c /\ request'[k].stage = "stop" /\ request'[k].child = i
          /\ \A l \in Callers : l # k => request'[l] = request[l]
      BY <2>1, <2>2, <2>5, <1>1, <1>2, ContinueEffect
    <3>2. At(k, "stop")' /\ ~Starts(k)' /\ ~At(k, "remove")'
      BY <3>1 DEF Starts, At
    <3>3. i \in DOMAIN child /\ child[i].camera = c
      BY <2>1, <2>2, <2>5, Typed DEF FleetTypeOK
    <3>4. request[k].op # "add"
      BY <2>1, <2>2, <3>3 DEF StartsFirst, Starts
    <3> QED
      BY <2>1, <2>2, <2>3, <2>5, <3>1, <3>2, <3>4, TakeOutStep
  <2> QED
    BY <2>4, <2>5
<1> QED
  BY <1>3, <1>4, <1>5, <1>6, <1>7, SpawnStep, RegisterStep DEF Proceed

(* The steps of a child. *)
LEMMA RunStep ==
  ASSUME IInv, NEW i \in DOMAIN child, Run(i)
  PROVE  IInv'
<1>1. FleetTypeOK /\ child[i] \in Child
  BY Typed DEF IInv
<1>2. UNCHANGED <<camRow, processes, request>>
  BY DEF Run, Load, Connect, Disconnect, Errs
<1>3. CASE child' = Ended(i)
  BY <1>1, <1>2, <1>3, ChildEnds, ChildStep
<1>4. CASE child' = [child EXCEPT ![i].phase = "opening"] /\ (Load(i) \/ Errs(i))
  <2>1. PICK new : new = [child[i] EXCEPT !.phase = "opening"]
    OBVIOUS
  <2>2. new \in Child /\ new.camera = child[i].camera /\ Alive(i)
    BY <1>1, <1>4, <2>1 DEF Child, Phases, Alive, Load, Errs
  <2>3. child' = [child EXCEPT ![i] = new]
    BY <1>4, <2>1
  <2> QED
    BY <1>1, <1>2, <2>2, <2>3, OneChildMoves, ChildStep
<1>5. CASE Connect(i)
  <2>1. PICK new : new = [child[i] EXCEPT !.phase = "reading", !.failed = 0]
    OBVIOUS
  <2>2. new \in Child /\ new.camera = child[i].camera /\ Alive(i)
    BY <1>1, <1>5, <2>1, FleetAssumption DEF Child, Phases, Alive, Connect
  <2>3. child' = [child EXCEPT ![i] = new]
    BY <1>5, <2>1 DEF Connect
  <2> QED
    BY <1>1, <1>2, <2>2, <2>3, OneChildMoves, ChildStep
<1>6. CASE Disconnect(i) /\ child[i].failed + 1 < MaxAttempts
  <2>1. PICK new : new = [child[i] EXCEPT !.phase = "opening", !.failed = @ + 1]
    OBVIOUS
  <2>2. new \in Child /\ new.camera = child[i].camera /\ Alive(i)
    BY <1>1, <1>6, <2>1, FleetAssumption DEF Child, Phases, Alive, Disconnect
  <2>3. child[i].failed \in Nat
    BY <1>1 DEF Child
  <2>4. child' = [child EXCEPT ![i] = new]
    <3>1. ~(child[i].failed + 1 >= MaxAttempts)
      BY <1>6, <2>3, FleetAssumption
    <3>2. child' = [child EXCEPT ![i].phase = "opening", ![i].failed = child[i].failed + 1]
      BY <1>6, <3>1 DEF Disconnect
    <3>3. child \in Seq(Child)
      BY <1>1 DEF FleetTypeOK
    <3> QED
      BY <2>1, <3>2, <3>3
  <2> QED
    BY <1>1, <1>2, <2>2, <2>4, OneChildMoves, ChildStep
<1> QED
  <2>1. child[i].failed \in Nat
    BY <1>1 DEF Child
  <2> QED
    BY <1>3, <1>4, <1>5, <1>6, <2>1, FleetAssumption DEF Run, Load, Disconnect, Errs

-----------------------------------------------------------------------------
(* Nothing is registered, started or under way at first. *)
LEMMA InitIInv == FleetInit => IInv
<1> SUFFICES ASSUME FleetInit PROVE IInv
  OBVIOUS
<1>1. child = << >> /\ DOMAIN child = {} /\ \A k \in Callers : request[k] = Done
  BY DEF FleetInit
<1>2. \A k \in Callers : \A stage \in Stages : ~At(k, stage)
  BY <1>1 DEF At
<1>3. \A k \in Callers : ~Holds(k) /\ ~Starts(k) /\ ~At(k, "stop") /\ ~At(k, "remove")
  BY <1>1 DEF Holds, Starts, At
<1>4. FleetTypeOK
  BY <1>1 DEF FleetTypeOK, FleetInit, At
<1> QED
  BY <1>1, <1>3, <1>4
  DEF IInv, OneChildEver, StartsFirst, StartsAlone, RowFirst, HoldsItsOwn, AdditionsDoNotStop, NoOrphans

LEMMA StutterIInv == ASSUME IInv, UNCHANGED fleetVars PROVE IInv'
<1>1. UNCHANGED <<camRow, processes, child, request>>
  BY DEF fleetVars
<1>2. \A k \in Callers : (Holds(k)' <=> Holds(k)) /\ (Starts(k)' <=> Starts(k))
  BY <1>1 DEF Holds, Starts, At
<1>3. SameChildren
  BY <1>1 DEF SameChildren, IInv, FleetTypeOK, Alive
<1> QED
  BY <1>1, <1>3, ChildStep

(* The invariant the three theorems rest on. *)
LEMMA Invariant == FleetSpec => []IInv
<1>1. ASSUME IInv, [FleetNext]_fleetVars PROVE IInv'
  BY <1>1, BeginStep, ProceedStep, RunStep, ServerRestartStep, StutterIInv DEF FleetNext
<1> QED
  BY InitIInv, <1>1, PTL DEF FleetSpec

(* Requests and children stay well formed, and what is registered under a  *)
(* camera is a child of that camera, for any number of concurrent requests.*)
THEOREM TypeCorrect == FleetSpec => []FleetTypeOK
<1>1. IInv => FleetTypeOK
  BY DEF IInv
<1> QED
  BY <1>1, Invariant, PTL

(* However additions, removals, restarts and server restarts overlap, two  *)
(* live children never read one camera (stream_manager.py, add_camera).    *)
THEOREM OneChildAlways == FleetSpec => []OneChildPerCamera
<1>1. IInv => OneChildPerCamera
  BY DEF IInv, OneChildEver, OneChildPerCamera
<1> QED
  BY <1>1, Invariant, PTL

(* Every live child is registered or held by a request: none escapes a     *)
(* later DELETE (stream_manager.py, _start_camera and remove_camera).      *)
THEOREM NeverOrphaned == FleetSpec => []NoOrphans
<1>1. IInv => NoOrphans
  BY DEF IInv
<1> QED
  BY <1>1, Invariant, PTL
=============================================================================
