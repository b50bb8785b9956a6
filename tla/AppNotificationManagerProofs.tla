--------------------- MODULE AppNotificationManagerProofs ---------------------
(***************************************************************************)
(* Proofs about AppNotificationManager, for any processes, threads and     *)
(* notifications, any number of failures and whatever calls overlap.       *)
(* CallInv: m_registering is set while one thread of the process is in a   *)
(* call.  On it rest WaitInv (the event a thread waits for is the one      *)
(* Activate signals), UseInv (an instance without handlers is given one    *)
(* notification) and RegistryInv, the inductive invariant of the registry: *)
(* ChangeInv (who changes it found it as it still is), ServersInv (its     *)
(* servers while it changes) and ReachInv (a registration on its way has   *)
(* its server in the registry).                                            *)
(***************************************************************************)
EXTENDS AppNotificationManager, FiniteSetTheorems, TLAPS

(* Every actor is at a step of its own, and holds a notification while it  *)
(* is in Activate.                                                         *)
Positions == {"idle", "wait", "failed"} \union Operations \union Registering
             \union Unregistering \union Activating
Shapes ==
  /\ pc \in [Actors -> Positions]
  /\ args \in [Processes -> Notes \union {None}]
  /\ \A p \in Processes : pc[p] # "idle" => cur[p] \in Notes
TypeInv == TypeOK /\ Shapes

(* What m_registering is for: one thread of the process is in a call.      *)
InCall(p) == {t \in Threads : ProcessOf[t] = p /\ pc[t] \in InACall}
OneCall ==
  \A p \in Processes :
    IF registering[p] THEN \E t \in Threads : InCall(p) = {t}
                      ELSE InCall(p) = {}
CallInv == TypeInv /\ OneCall

(* Who changes the registry looked the CLSID up when nobody else was about *)
(* to change it: a new CLSID replaces one without a server.                *)
GuidsAreOld ==
  /\ activator <= lastGuid /\ 0 \notin servers
  /\ \A a \in Actors :
       pc[a] \in {"register server", "assets", "create event",
                  "register class"} =>
         guid[a] # 0 /\ guid[a] <= lastGuid
OneChanges == \A a, b \in Actors : Changing(a) /\ Changing(b) => a = b
ReplacesNone ==
  \A a \in Actors :
    /\ pc[a] = "register server" => ~IsIntact /\ guid[a] # activator
    /\ pc[a] = "assets" => /\ guid[a] \in servers
                           /\ guid[a] = activator \/ ~IsIntact
    /\ pc[a] = "delete server" => guid[a] = activator /\ IsIntact
ChangeInv == GuidsAreOld /\ (~overlapped => OneChanges /\ ReplacesNone)

(* The servers while the registry changes, if no call failed.              *)
ServersAreKnown ==
  \A a \in Actors :
    /\ pc[a] \in {"register server", "delete key"} => servers = {}
    /\ pc[a] = "assets" => servers \subseteq {guid[a]}
ServersInv ==
  faults = 0 /\ ~overlapped => NoServerIsLeft /\ ServersAreKnown

(* A registration that is on its way has found its server in the registry. *)
RunsHere ==
  /\ \A a \in Actors : pc[a] # "idle" => launch[Own(a)] # "off"
  /\ \A p \in Processes : first[p] \/ p \in believes => launch[p] # "off"
  /\ \A p \in Processes : HasClass(p) => class[p].clsid # 0
  /\ \A t \in Threads : pc[t] \in Unregistering => ProcessOf[t] \notin believes
Past == {"create event", "register class", "registered"}
IsOnItsWay(t) ==
  pc[t] \in Past => /\ guid[t] = activator /\ IsIntact
                    /\ pc[t] = "registered" =>
                         /\ HasClass(ProcessOf[t])
                         /\ class[ProcessOf[t]].clsid = guid[t]
ReachInv ==
  /\ RunsHere /\ RegisteredIsReachable
  /\ \A t \in Threads :
       ~overlapped /\ ProcessOf[t] \notin spoiled => IsOnItsWay(t)
RegistryInv == CallInv /\ ChangeInv /\ ServersInv /\ ReachInv

(* The event a thread waits for is the one Activate signals.               *)
WaitsAlone ==
  \A t, u \in Threads :
    /\ pc[t] = "wait" /\ pc[u] = "wait" /\ ProcessOf[t] = ProcessOf[u]
    /\ ProcessOf[t] \notin unsure
    => t = u
WaitsForEvent ==
  \A t \in Threads : pc[t] = "wait" /\ ProcessOf[t] \notin unsure =>
                       guid[t] = event[ProcessOf[t]]
WaitInv == TypeInv /\ WaiterIsWoken /\ WaitsAlone /\ WaitsForEvent

(* An instance without handlers is given one notification.                 *)
Rerouting == Activating \ {"handler", "calls back"}
ActivateHolds ==
  \A p \in Processes : /\ pc[p] # "idle" => first[p]
                       /\ pc[p] \in Rerouting => ~handlers[p]
Fresh(p) == ~HasClass(p) /\ incoming[p] = {} /\ ~first[p]
FirstIsFresh ==
  \A p \in Processes :
    /\ event[p] = 0 => Fresh(p)
    /\ \A t \in Threads : ProcessOf[t] = p /\ pc[t] = "register class" =>
                            event[p] # 0 /\ (event[p] = 1 => Fresh(p))
IsGivenOne(p) ==
  /\ HasClass(p) => ~class[p].multiple
  /\ first[p] \/ incoming[p] # {} => (HasClass(p) => class[p].used)
  /\ first[p] => incoming[p] = {}
  /\ \A n, m \in incoming[p] : n = m
UseInv ==
  /\ CallInv /\ ActivateHolds /\ FirstIsFresh /\ silent \subseteq loose
  /\ \A p \in Processes \ loose : ~handlers[p] => IsGivenOne(p)

-----------------------------------------------------------------------------
(* Where a thread can be, and where a process in Activate.                 *)
ThreadAt  == {"idle", "wait", "failed"} \union Operations \union Registering
             \union Unregistering
ProcessAt == {"idle"} \union Activating

(* An actor that moves to a step of its own leaves the others where they   *)
(* are.                                                                    *)
LEMMA ActorsMove ==
  ASSUME TypeInv, NEW a \in Actors, NEW x,
         pc' = [pc EXCEPT ![a] = x],
         \/ a \in Threads /\ x \in ThreadAt
         \/ a \in Processes /\ x \in ProcessAt
  PROVE  /\ pc' \in [Actors -> Positions]
         /\ \A t \in Threads : pc'[t] \in ThreadAt
         /\ \A p \in Processes : pc'[p] \in ProcessAt
         /\ pc'[a] = x /\ \A b \in Actors \ {a} : pc'[b] = pc[b]
<1>1. /\ Threads \intersect Processes = {}
      /\ Threads \subseteq Actors /\ Processes \subseteq Actors
      /\ ThreadAt \subseteq Positions /\ ProcessAt \subseteq Positions
  BY ProcessAssumption DEF Actors, ThreadAt, ProcessAt, Positions
<1>2. /\ pc \in [Actors -> Positions]
      /\ \A t \in Threads : pc[t] \in ThreadAt
      /\ \A p \in Processes : pc[p] \in ProcessAt
  BY DEF TypeInv, TypeOK, Shapes, ThreadAt, ProcessAt
<1>3. QED
  BY <1>1, <1>2

(* The class objects, NoClass among them.                                  *)
Classes == [clsid : Nat, multiple : BOOLEAN, used : BOOLEAN]

(* No class object is recorded as one.                                     *)
LEMMA NoClassIsOne == NoClass \in Classes
BY DEF NoClass, Classes

(* Every step keeps the types and shapes.                                  *)
LEMMA TypeInvariant ==
  TypeInv /\ [Next]_vars => TypeInv'
<1> SUFFICES ASSUME TypeInv, [Next]_vars PROVE TypeInv'
  OBVIOUS
<1> USE DEF registry, fields, com, history
<1> DEFINE Rest == /\ activator \in Nat /\ servers \subseteq Nat
                   /\ lastGuid \in Nat
                   /\ launch \in [Processes -> {"off", "app", "toast"}]
                   /\ registering \in [Processes -> BOOLEAN]
                   /\ class \in [Processes -> [clsid : Nat, multiple : BOOLEAN,
                                               used : BOOLEAN]]
                   /\ handlers \in [Processes -> BOOLEAN]
                   /\ first \in [Processes -> BOOLEAN]
                   /\ event \in [Processes -> Nat]
                   /\ signalled \in [Processes -> SUBSET Nat]
                   /\ args \in [Processes -> Notes \union {None}]
                   /\ guid \in [Actors -> Nat]
                   /\ incoming \in [Processes -> SUBSET Notes]
                   /\ wanted \in [Processes -> Sinks \union {Nothing}]
                   /\ fate \in [Notes -> {"shown", "sent", "stored", "handled",
                                          "dropped", "lost"}]
                   /\ believes \subseteq Processes
                   /\ spoiled \subseteq Processes
                   /\ loose \subseteq Processes /\ silent \subseteq Processes
                   /\ unsure \subseteq Processes
                   /\ overlapped \in BOOLEAN /\ calls \in Nat /\ faults \in Nat
       PcOK == /\ pc \in [Actors -> Positions]
               /\ \A t \in Threads : pc[t] \in ThreadAt
               /\ \A p \in Processes : pc[p] \in ProcessAt
       CurOK == /\ cur \in [Processes -> Notes \union {None}]
                /\ \A p \in Processes : pc[p] # "idle" => cur[p] \in Notes
<1>1. Rest /\ PcOK /\ CurOK
  BY DEF TypeInv, TypeOK, Shapes, ThreadAt, ProcessAt
<1>2. /\ \A t \in Threads : /\ t \in Actors /\ t \notin Processes
                            /\ ProcessOf[t] \in Processes
      /\ Processes \subseteq Actors
  BY ProcessAssumption DEF Actors
<1>3. ASSUME Rest', PcOK', CurOK' PROVE TypeInv'
  BY <1>3 DEF TypeInv, TypeOK, Shapes, ThreadAt, ProcessAt
<1>4. ASSUME NEW a \in Actors, NEW x, pc' = [pc EXCEPT ![a] = x],
             a \in Threads /\ x \in ThreadAt, cur' = cur
      PROVE  PcOK' /\ CurOK'
  <2>1. PcOK' /\ \A b \in Actors \ {a} : pc'[b] = pc[b]
    BY <1>4, ActorsMove
  <2>2. QED
    BY <1>1, <1>2, <1>4, <2>1
<1>5. ASSUME NEW p \in Processes, NEW x, pc' = [pc EXCEPT ![p] = x],
             x \in ProcessAt,
             \/ cur' = cur /\ pc[p] # "idle"
             \/ cur' = [cur EXCEPT ![p] = None] /\ x = "idle"
             \/ \E n \in Notes : cur' = [cur EXCEPT ![p] = n]
      PROVE  PcOK' /\ CurOK'
  <2>1. PcOK' /\ pc'[p] = x /\ \A b \in Actors \ {p} : pc'[b] = pc[b]
    BY <1>2, <1>5, ActorsMove
  <2>2. cur' \in [Processes -> Notes \union {None}]
    BY <1>1, <1>5
  <2>3. \A q \in Processes : pc'[q] # "idle" => cur'[q] \in Notes
    BY <1>1, <1>2, <1>5, <2>1
  <2>4. QED
    BY <2>1, <2>2, <2>3
<1>6. CASE UNCHANGED vars
  BY <1>1, <1>3, <1>6 DEF vars
<1>7. ASSUME pc' = pc, cur' = cur PROVE PcOK' /\ CurOK'
  BY <1>1, <1>7
<1> USE DEF Goes, Forgets, Fault, Overlaps, Removes
<1>8. ASSUME NEW t \in Threads, ThreadStep(t) \/ StepFails(t)
               \/ BeginDeserialize(t) \/ \E op \in Operations : Begin(t, op)
      PROVE  PcOK' /\ CurOK'
  <2>1. cur' = cur
    BY <1>8 DEF ThreadStep, StepFails, BeginDeserialize, Begin, Register,
       LookUp,
       RegisterComServer, RegisterAssets, CreateEvent, RegisterClass, Leave,
       Unregister, UnregisterAll, LookUpAll, UnRegisterComServer,
       UnRegisterNotificationAppIdentifier, AddHandler, RemoveHandler,
       Deserialize, WaitReturns, WaitTimesOut
  <2>2. \E x \in ThreadAt : pc' = [pc EXCEPT ![t] = x]
    BY <1>2, <1>8 DEF ThreadStep, StepFails, BeginDeserialize, Begin, Register,
       LookUp, RegisterComServer, RegisterAssets, CreateEvent, RegisterClass,
       Leave, Unregister, UnregisterAll, LookUpAll, UnRegisterComServer,
       UnRegisterNotificationAppIdentifier, AddHandler, RemoveHandler,
       Deserialize, WaitReturns, WaitTimesOut, ThreadAt, Operations,
       Registering, Unregistering
  <2>3. QED
    BY <1>2, <1>4, <2>1, <2>2
<1>9. ASSUME NEW p \in Processes, LookUp(p) \/ RegisterComServer(p)
             \/ RegisterAssets(p)
      PROVE  PcOK' /\ CurOK'
  <2>1. cur' = cur /\ pc[p] # "idle"
    BY <1>9 DEF LookUp, RegisterComServer, RegisterAssets
  <2>2. \E x \in ProcessAt : pc' = [pc EXCEPT ![p] = x]
    BY <1>2, <1>9 DEF LookUp, RegisterComServer, RegisterAssets, ProcessAt,
       Activating
  <2>3. QED
    BY <1>5, <2>1, <2>2
<1>10. ASSUME NEW a \in Actors, LookUp(a) \/ RegisterComServer(a)
              \/ RegisterAssets(a)
       PROVE  Rest'
  <2>1. CASE LookUp(a)
    <3>1. lastGuid' = lastGuid \/ lastGuid' = lastGuid + 1
      BY <2>1 DEF LookUp
    <3>2. lastGuid' \in Nat
      BY <1>1, <3>1
    <3>3. lastGuid + 1 \in Nat
      BY <1>1
    <3>4. guid' \in [Actors -> Nat]
      BY <1>1, <2>1, <3>3 DEF LookUp
    <3>5. overlapped' \in BOOLEAN
      BY <2>1 DEF LookUp
    <3>6. QED
      BY <1>1, <2>1, <3>2, <3>4, <3>5 DEF LookUp
  <2>2. CASE RegisterComServer(a)
    BY <1>1, <1>10, <2>2 DEF RegisterComServer
  <2>3. CASE RegisterAssets(a)
    BY <1>1, <1>10, <2>3 DEF RegisterAssets
  <2>4. QED
    BY <1>10, <2>1, <2>2, <2>3
<1>11. ASSUME NEW t \in Threads, ThreadStep(t) \/ StepFails(t)
                \/ BeginDeserialize(t) \/ \E op \in Operations : Begin(t, op)
       PROVE  Rest'
  <2>1. CASE Register(t)
    BY <1>1, <1>2, <2>1 DEF Register
  <2>2. CASE CreateEvent(t)
    <3>1. event[ProcessOf[t]] + 1 \in Nat
      BY <1>1, <1>2
    <3>2. event' \in [Processes -> Nat]
      BY <1>1, <2>2, <3>1 DEF CreateEvent
    <3>3. unsure' \subseteq Processes
      <4>1. unsure' = unsure \/ unsure' = unsure \union {ProcessOf[t]}
        BY <2>2 DEF CreateEvent
      <4>2. QED
        BY <1>1, <1>2, <4>1
    <3>4. QED
      BY <1>1, <2>2, <3>2, <3>3 DEF CreateEvent
  <2>3. CASE RegisterClass(t)
    <3>1. guid[t] \in Nat /\ ForMultipleUse(ProcessOf[t]) \in BOOLEAN
      BY <1>1, <1>2 DEF ForMultipleUse
    <3>2. [clsid |-> guid[t], used |-> FALSE,
           multiple |-> ForMultipleUse(ProcessOf[t])] \in Classes
      BY <3>1 DEF Classes
    <3>3. class' \in [Processes -> Classes]
      BY <1>1, <2>3, <3>2 DEF RegisterClass, Classes
    <3>4. loose' \subseteq Processes
      <4>1. loose' = loose \/ loose' = loose \union {ProcessOf[t]}
        BY <2>3 DEF RegisterClass
      <4>2. QED
        BY <1>1, <1>2, <4>1
    <3>5. QED
      BY <1>1, <2>3, <3>3, <3>4 DEF RegisterClass, Classes
  <2>4. CASE Leave(t)
    BY <1>1, <1>2, <2>4 DEF Leave
  <2>5. CASE Unregister(t)
    <3>1. class' \in [Processes -> Classes] /\ believes' \subseteq Processes
      BY <1>1, <2>5, NoClassIsOne DEF Unregister, Classes
    <3>2. QED
      BY <1>1, <2>5, <3>1 DEF Unregister, Classes
  <2>6. CASE UnregisterAll(t)
    <3>1. class' \in [Processes -> Classes]
      BY <1>1, <2>6, NoClassIsOne DEF UnregisterAll, Classes
    <3>2. spoiled' \subseteq Processes
      <4>1. spoiled' = spoiled \/ spoiled' = spoiled \union {ProcessOf[t]}
        BY <2>6 DEF UnregisterAll
      <4>2. QED
        BY <1>1, <1>2, <4>1
    <3>3. registering' \in [Processes -> BOOLEAN]
          /\ believes' \subseteq Processes
      BY <1>1, <2>6 DEF UnregisterAll
    <3>4. QED
      BY <1>1, <2>6, <3>2, <3>1, <3>3 DEF UnregisterAll, Classes
  <2>7. CASE LookUpAll(t)
    BY <1>1, <1>2, <2>7 DEF LookUpAll
  <2>8. CASE UnRegisterComServer(t)
    BY <1>1, <1>2, <2>8 DEF UnRegisterComServer
  <2>9. CASE UnRegisterNotificationAppIdentifier(t)
    BY <1>1, <1>2, <2>9 DEF UnRegisterNotificationAppIdentifier
  <2>10. CASE AddHandler(t)
    BY <1>1, <1>2, <2>10 DEF AddHandler, HasClass
  <2>11. CASE RemoveHandler(t)
    BY <1>1, <1>2, <2>11 DEF RemoveHandler
  <2>12. CASE Deserialize(t)
    BY <1>1, <1>2, <2>12 DEF Deserialize
  <2>13. CASE WaitReturns(t)
    BY <1>1, <1>2, <2>13 DEF WaitReturns
  <2>14. CASE WaitTimesOut(t)
    BY <1>1, <1>2, <2>14 DEF WaitTimesOut
  <2>15. CASE StepFails(t)
    BY <1>1, <1>2, <2>15 DEF StepFails
  <2>16. CASE BeginDeserialize(t) \/ \E op \in Operations : Begin(t, op)
    <3>1. /\ calls' = calls + 1
          /\ UNCHANGED <<registry, fields, com, guid, history, faults>>
      BY <2>16 DEF BeginDeserialize, Begin
    <3>2. calls' \in Nat
      BY <1>1, <3>1
    <3>3. QED
      BY <1>1, <3>1, <3>2
  <2>17. CASE LookUp(t) \/ RegisterComServer(t) \/ RegisterAssets(t)
    BY <1>2, <1>10, <2>17
  <2> HIDE DEF Rest
  <2>18. QED
    BY <1>11, <2>1, <2>2, <2>3, <2>4, <2>5, <2>6, <2>7, <2>8, <2>9, <2>10,
       <2>11, <2>12, <2>13, <2>14, <2>15, <2>16, <2>17 DEF ThreadStep
<1>12. ASSUME NEW p \in Processes, NEW n \in Notes, Deliver(p, n)
      PROVE  /\ class' \in [Processes -> Classes]
             /\ incoming' \in [Processes -> SUBSET Notes]
  <2>1. class \in [Processes -> Classes]
    BY <1>1 DEF Classes
  <2>2. [class[p] EXCEPT !.used = ~class[p].multiple] \in Classes
    BY <2>1 DEF Classes
  <2>3. class' = [class EXCEPT ![p] =
                 [class[p] EXCEPT !.used = ~class[p].multiple]]
    BY <1>12 DEF Deliver
  <2>4. QED
    BY <1>1, <1>12, <2>1, <2>2, <2>3 DEF Deliver
<1>13. ASSUME NEW c \in Nat, NEW n \in Notes, CoCreateInstance(c, n)
      PROVE  /\ class' \in [Processes -> [clsid : Nat, multiple : BOOLEAN,
                                         used : BOOLEAN]]
             /\ incoming' \in [Processes -> SUBSET Notes]
             /\ launch' \in [Processes -> {"off", "app", "toast"}]
             /\ wanted' \in [Processes -> Sinks \union {Nothing}]
  <2>1. CASE \E p \in Free(c) : Deliver(p, n) /\ UNCHANGED <<launch, wanted>>
    BY <1>1, <1>12, <2>1 DEF Free, Classes
  <2>2. CASE \E p \in Processes : StartServer(p, c, n)
             /\ UNCHANGED <<incoming, class>>
    BY <1>1, <2>2 DEF StartServer, Sinks
  <2>3. QED
    BY <1>13, <2>1, <2>2 DEF CoCreateInstance
<1>14. ASSUME NEW p \in Processes,
              \/ \E n \in Notes : \/ StoreArgs(p, n) \/ Reroute(p, n)
                                  \/ InvokeHandlers(p, n) \/ Drop(p, n)
              \/ PassOn(p) \/ PassOnFails(p) \/ RemoteReturns(p)
              \/ HandlerReturns(p) \/ ActivateFails(p) \/ HandlerCallsBack(p)
              \/ Start(p) \/ ComStep(p)
       PROVE  Rest' /\ PcOK' /\ CurOK'
  <2>1. ASSUME NEW n \in Notes, StoreArgs(p, n)
        PROVE  Rest' /\ PcOK' /\ CurOK'
    BY <1>1, <1>7, <2>1 DEF StoreArgs, Takes
  <2>2. ASSUME NEW n \in Notes, NEW at \in ProcessAt, Holds(p, n, at)
        PROVE  Rest' /\ PcOK' /\ CurOK'
    <3>1. Rest'
      BY <1>1, <2>2 DEF Holds, Takes
    <3>2. QED
      BY <1>5, <2>2, <3>1 DEF Holds
  <2>3. ASSUME NEW n \in Notes, Drop(p, n)
        PROVE  Rest' /\ PcOK' /\ CurOK'
    BY <1>1, <1>7, <2>3 DEF Drop, Takes
  <2>4. CASE PassOn(p)
    <3>1. cur[p] \in Notes /\ guid[p] \in Nat
      BY <1>1, <1>2, <2>4 DEF PassOn
    <3>2. Rest'
      BY <1>1, <1>2, <2>4, <3>1, <1>13 DEF PassOn
    <3>3. "remote" \in ProcessAt
      BY DEF ProcessAt, Activating
    <3>4. QED
      BY <1>5, <2>4, <3>2, <3>3 DEF PassOn
  <2>5. CASE PassOnFails(p)
    BY <1>1, <1>2, <1>5, <2>5 DEF PassOnFails, ProcessAt
  <2>6. CASE RemoteReturns(p)
    BY <1>1, <1>2, <1>5, <2>6 DEF RemoteReturns, ProcessAt
  <2>7. CASE HandlerReturns(p)
    BY <1>1, <1>2, <1>5, <2>7 DEF HandlerReturns, ProcessAt
  <2>8. CASE ActivateFails(p)
    <3>1. faults' = faults + 1
      BY <2>8 DEF ActivateFails
    <3>2. faults' \in Nat
      BY <1>1, <3>1
    <3>3. fate' \in [Notes -> {"shown", "sent", "stored", "handled", "dropped",
                             "lost"}]
          /\ guid' \in [Actors -> Nat]
      BY <1>1, <2>8 DEF ActivateFails
    <3>4. Rest'
      BY <1>1, <2>8, <3>2, <3>3 DEF ActivateFails
    <3>5. QED
      BY <1>5, <2>8, <3>4 DEF ActivateFails, ProcessAt
  <2>9. CASE HandlerCallsBack(p)
    <3>1. Rest'
      BY <1>1, <2>9 DEF HandlerCallsBack
    <3>2. "calls back" \in ProcessAt
      BY DEF ProcessAt, Activating
    <3>3. QED
      BY <1>5, <2>9, <3>1, <3>2 DEF HandlerCallsBack
  <2>10. CASE Start(p)
    BY <1>1, <1>7, <2>10 DEF Start
  <2>11. CASE ServerIsReady(p)
    <3>1. wanted[p].note \in Notes
      BY <1>1, <2>11 DEF ServerIsReady, Sinks
    <3>2. class' \in [Processes -> Classes]
          /\ incoming' \in [Processes -> SUBSET Notes]
      BY <2>11, <3>1, <1>12 DEF ServerIsReady
    <3>3. QED
      BY <1>1, <1>7, <2>11, <3>2 DEF ServerIsReady, Classes
  <2>12. CASE ServerTimesOut(p)
    BY <1>1, <1>7, <2>12 DEF ServerTimesOut
  <2>13. {"look up", "handler"} \subseteq ProcessAt
    BY DEF ProcessAt, Activating
  <2> HIDE DEF Rest, PcOK, CurOK
  <2>14. QED
    BY <1>14, <2>1, <2>2, <2>3, <2>4, <2>5, <2>6, <2>7, <2>8, <2>9, <2>10,
       <2>11, <2>12, <2>13
       DEF Reroute, InvokeHandlers, ComStep
<1>15. ASSUME NEW p \in Processes, ProcessEnds(p)
       PROVE  Rest' /\ PcOK' /\ CurOK'
  <2>1. Rest'
    BY <1>1, <1>2, <1>15 DEF ProcessEnds, NoClass
  <2>2. PcOK'
    BY <1>1, <1>2, <1>15 DEF ProcessEnds, ThreadAt, ProcessAt, Positions
  <2>3. CurOK'
    BY <1>1, <1>2, <1>15 DEF ProcessEnds, Own
  <2>4. QED
    BY <2>1, <2>2, <2>3
<1>16. ASSUME NEW n \in Notes, Click(n)
       PROVE  Rest' /\ PcOK' /\ CurOK'
  <2>1. Rest'
    BY <1>1, <1>13, <1>16 DEF Click
  <2>2. QED
    BY <1>7, <1>16, <2>1 DEF Click
<1> HIDE DEF Rest, PcOK, CurOK
<1>17. QED
  BY <1>2, <1>3, <1>6, <1>8, <1>9, <1>10, <1>11, <1>14, <1>15, <1>16
     DEF Next, ActivateStep

-----------------------------------------------------------------------------
(* The steps, by who takes them: a thread in the API, a process that holds *)
(* m_lock in Activate or takes it, and COM or the user.                    *)
ApiStep(t) == \/ \E op \in Operations : Begin(t, op)
              \/ BeginDeserialize(t) \/ ThreadStep(t) \/ StepFails(t)
HolderStep(p) == ActivateStep(p) \/ ActivateFails(p) \/ HandlerCallsBack(p)
ComOrStart == \/ \E p \in Processes : ComStep(p) \/ Start(p)
              \/ \E n \in Notes : Click(n)

(* There are no others but the end of a process.                           *)
LEMMA StepsAreOf ==
  Next => \/ \E t \in Threads : ApiStep(t)
          \/ \E p \in Processes : HolderStep(p) \/ ProcessEnds(p)
          \/ ComOrStart
BY DEF Next, ApiStep, HolderStep, ComOrStart

(* A thread in the API changes its own place, its own process, and what    *)
(* only grows.                                                             *)
LEMMA ThreadsMove ==
  ASSUME TypeInv, NEW t \in Threads, ApiStep(t)
  PROVE  /\ \A b \in Actors \ {t} : pc'[b] = pc[b] /\ guid'[b] = guid[b]
         /\ UNCHANGED <<com, cur, first, args, silent>>
         /\ \A q \in Processes \ {ProcessOf[t]} :
              /\ registering'[q] = registering[q] /\ class'[q] = class[q]
              /\ handlers'[q] = handlers[q] /\ event'[q] = event[q]
              /\ signalled'[q] = signalled[q]
              /\ q \in believes' <=> q \in believes
              /\ q \in loose' <=> q \in loose
              /\ q \in unsure' <=> q \in unsure
         /\ loose \subseteq loose' /\ unsure \subseteq unsure'
         /\ spoiled \subseteq spoiled' /\ (overlapped => overlapped')
<1>1. /\ pc \in [Actors -> Positions] /\ guid \in [Actors -> Nat]
      /\ t \in Actors
      /\ registering \in [Processes -> BOOLEAN]
      /\ class \in [Processes -> Classes]
      /\ handlers \in [Processes -> BOOLEAN] /\ event \in [Processes -> Nat]
      /\ signalled \in [Processes -> SUBSET Nat]
  BY DEF TypeInv, TypeOK, Shapes, Actors, Classes
<1> USE DEF ApiStep, ThreadStep, StepFails, BeginDeserialize, Begin, Register,
      LookUp, RegisterComServer, RegisterAssets, CreateEvent, RegisterClass,
      Leave, Unregister, UnregisterAll, LookUpAll, UnRegisterComServer,
      UnRegisterNotificationAppIdentifier, AddHandler, RemoveHandler,
      Deserialize, WaitReturns, WaitTimesOut, Goes, Forgets, registry, fields,
      com,
      history, Overlaps, Removes
<1>2. \A b \in Actors \ {t} : pc'[b] = pc[b] /\ guid'[b] = guid[b]
  <2>1. \E x : pc' = [pc EXCEPT ![t] = x]
    OBVIOUS
  <2>2. guid' = guid \/ \E x : guid' = [guid EXCEPT ![t] = x]
    OBVIOUS
  <2>3. QED
    BY <1>1, <2>1, <2>2
<1>3. UNCHANGED <<com, cur, first, args, silent>>
  OBVIOUS
<1>4. \A q \in Processes \ {ProcessOf[t]} :
        registering'[q] = registering[q] /\ class'[q] = class[q]
  <2>1. registering' = registering
        \/ \E x : registering' = [registering EXCEPT ![ProcessOf[t]] = x]
    OBVIOUS
  <2>2. class' = class \/ \E x : class' = [class EXCEPT ![ProcessOf[t]] = x]
    OBVIOUS
  <2>3. QED
    BY <1>1, <2>1, <2>2
<1>5. \A q \in Processes \ {ProcessOf[t]} :
        /\ handlers'[q] = handlers[q] /\ event'[q] = event[q]
        /\ signalled'[q] = signalled[q]
  <2>1. handlers' = handlers
        \/ \E x : handlers' = [handlers EXCEPT ![ProcessOf[t]] = x]
    OBVIOUS
  <2>2. event' = event \/ \E x : event' = [event EXCEPT ![ProcessOf[t]] = x]
    OBVIOUS
  <2>3. signalled' = signalled
        \/ \E x : signalled' = [signalled EXCEPT ![ProcessOf[t]] = x]
    OBVIOUS
  <2>4. QED
    BY <1>1, <2>1, <2>2, <2>3
<1>6. \A q \in Processes \ {ProcessOf[t]} : q \in believes' <=> q \in believes
  OBVIOUS
<1>7. /\ \A q \in Processes \ {ProcessOf[t]} : q \in loose' <=> q \in loose
      /\ loose \subseteq loose'
  OBVIOUS
<1>8. /\ \A q \in Processes \ {ProcessOf[t]} : q \in unsure' <=> q \in unsure
      /\ unsure \subseteq unsure'
  OBVIOUS
<1>9. spoiled \subseteq spoiled' /\ (overlapped => overlapped')
  <2>1. spoiled' = spoiled \/ \E S : spoiled' = spoiled \union S
    OBVIOUS
  <2>2. overlapped => overlapped'
    <3>1. CASE UNCHANGED overlapped
      BY <3>1
    <3>2. CASE Overlaps(t)
      BY <3>2
    <3>3. QED
      BY <3>1, <3>2
  <2>3. QED
    BY <2>1, <2>2
<1>10. QED
  BY <1>2, <1>3, <1>4, <1>5, <1>6, <1>7, <1>8, <1>9

(* Activate and COM leave the threads alone, take nothing back from the    *)
(* history, and change of a class object only whether it is used.          *)
LEMMA ProcessesMove ==
  ASSUME TypeInv,
         \/ ComOrStart
         \/ \E p \in Processes : HolderStep(p)
  PROVE  /\ \A t \in Threads : pc'[t] = pc[t] /\ guid'[t] = guid[t]
         /\ UNCHANGED <<registering, handlers, event, believes, spoiled, loose,
                        unsure>>
         /\ \A q \in Processes : launch[q] # "off" => launch'[q] # "off"
         /\ \A q \in Processes : /\ HasClass(q)' => HasClass(q)
                                 /\ HasClass(q) /\ class[q].clsid # 0 =>
                                      HasClass(q)'
                                 /\ class'[q].clsid = class[q].clsid
                                 /\ class'[q].multiple = class[q].multiple
         /\ (overlapped => overlapped')
<1>1. /\ pc \in [Actors -> Positions] /\ guid \in [Actors -> Nat]
      /\ launch \in [Processes -> {"off", "app", "toast"}]
      /\ class \in [Processes -> Classes]
      /\ \A t \in Threads : t \in Actors /\ t \notin Processes
  BY ProcessAssumption DEF TypeInv, TypeOK, Shapes, Actors, Classes
<1>2. ASSUME NEW c, NEW n, CoCreateInstance(c, n)
      PROVE  /\ \A q \in Processes : launch[q] # "off" => launch'[q] # "off"
             /\ \/ class' = class
                \/ \E p \in Processes : \E m : HasClass(p) /\ Deliver(p, m)
  BY <1>1, <1>2 DEF CoCreateInstance, StartServer, Free
<1>3. ASSUME \/ class' = class
             \/ \E p \in Processes : \E n : HasClass(p) /\ Deliver(p, n)
      PROVE  \A q \in Processes : /\ HasClass(q)' => HasClass(q)
                                  /\ HasClass(q) /\ class[q].clsid # 0 =>
                                       HasClass(q)'
                                  /\ class'[q].clsid = class[q].clsid
                                  /\ class'[q].multiple = class[q].multiple
  <2>1. CASE class' = class
    BY <2>1 DEF HasClass
  <2>2. ASSUME NEW p \in Processes, HasClass(p), NEW n, Deliver(p, n)
        PROVE  \A q \in Processes : /\ HasClass(q)' => HasClass(q)
                                    /\ HasClass(q) /\ class[q].clsid # 0 =>
                                         HasClass(q)'
                                    /\ class'[q].clsid = class[q].clsid
                                    /\ class'[q].multiple = class[q].multiple
    <3>1. class' = [class EXCEPT ![p] =
                 [class[p] EXCEPT !.used = ~class[p].multiple]]
      BY <2>2 DEF Deliver
    <3>2. class[p] \in Classes
      BY <1>1
    <3>3. /\ class'[p] = [class[p] EXCEPT !.used = ~class[p].multiple]
          /\ \A q \in Processes \ {p} : class'[q] = class[q]
      BY <1>1, <3>1
    <3>4. class'[p].clsid = class[p].clsid
          /\ class'[p].multiple = class[p].multiple
      BY <3>2, <3>3 DEF Classes
    <3>5. class[p].clsid # 0 => class'[p] # NoClass
      BY <3>4 DEF NoClass
    <3>6. QED
      BY <2>2, <3>3, <3>4, <3>5 DEF HasClass
  <2>3. QED
    BY <1>3, <2>1, <2>2
<1> DEFINE Stay == UNCHANGED <<registering, handlers, event, believes, spoiled,
                               loose, unsure>>
                   /\ (overlapped => overlapped')
           PcStay == \/ UNCHANGED <<pc, guid>>
                     \/ \E p \in Processes : \E x, y :
                          /\ pc' = [pc EXCEPT ![p] = x]
                          /\ guid' = guid \/ guid' = [guid EXCEPT ![p] = y]
           LaunchStay == \A q \in Processes : launch[q] # "off" =>
                           launch'[q] # "off"
           ClassStay == \/ class' = class
                        \/ \E p \in Processes :
                             \E n : HasClass(p) /\ Deliver(p, n)
           All == Stay /\ PcStay /\ LaunchStay /\ ClassStay
<1> USE DEF Goes, Forgets, registry, fields, com, history
<1>4. ASSUME NEW p \in Processes, NEW n \in Notes,
             \/ StoreArgs(p, n) \/ Reroute(p, n)
             \/ InvokeHandlers(p, n) \/ Drop(p, n)
      PROVE  All
  <2>1. UNCHANGED <<registering, handlers, event, believes, spoiled, loose,
                    unsure, overlapped, launch, class>>
    BY <1>4 DEF StoreArgs, Reroute, InvokeHandlers, Drop, Holds
  <2>2. PcStay
    BY <1>4 DEF StoreArgs, Reroute, InvokeHandlers, Drop, Holds
  <2>3. QED
    BY <2>1, <2>2
<1>5. ASSUME NEW p \in Processes,
             LookUp(p) \/ RegisterComServer(p) \/ RegisterAssets(p)
      PROVE  All
  <2>1. UNCHANGED <<registering, handlers, event, believes, spoiled, loose,
                    unsure, launch, class>>
    BY <1>5 DEF LookUp, RegisterComServer, RegisterAssets
  <2>2. overlapped => overlapped'
    BY <1>5 DEF LookUp, RegisterComServer, RegisterAssets, Overlaps
  <2>3. PcStay
    BY <1>5 DEF LookUp, RegisterComServer, RegisterAssets
  <2>4. QED
    BY <2>1, <2>2, <2>3
<1>6. ASSUME NEW p \in Processes, PassOn(p)
      PROVE  All
  BY <1>2, <1>6 DEF PassOn
<1>7. ASSUME NEW p \in Processes,
             \/ PassOnFails(p) \/ RemoteReturns(p) \/ HandlerReturns(p)
             \/ ActivateFails(p) \/ HandlerCallsBack(p)
      PROVE  All
  <2>1. UNCHANGED <<registering, handlers, event, believes, spoiled, loose,
                    unsure, overlapped, launch, class>>
    BY <1>7 DEF PassOnFails, RemoteReturns, HandlerReturns, ActivateFails,
       HandlerCallsBack
  <2> SUFFICES PcStay
    BY <2>1
  <2>2. CASE PassOnFails(p)
    BY <2>2 DEF PassOnFails
  <2>3. CASE RemoteReturns(p) \/ HandlerReturns(p) \/ HandlerCallsBack(p)
    BY <2>3 DEF RemoteReturns, HandlerReturns, HandlerCallsBack
  <2>4. CASE ActivateFails(p)
    BY <2>4 DEF ActivateFails
  <2>5. QED
    BY <1>7, <2>1, <2>2, <2>3, <2>4
<1>8. ASSUME NEW p \in Processes, ComStep(p) \/ Start(p)
      PROVE  All
  BY <1>1, <1>8 DEF ComStep, ServerIsReady, ServerTimesOut, Start, Free
<1>9. ASSUME NEW n \in Notes, Click(n)
      PROVE  All
  BY <1>2, <1>9 DEF Click
<1>10. All
  <2> HIDE DEF All
  <2>1. QED
    BY <1>4, <1>5, <1>6, <1>7, <1>8, <1>9
       DEF ComOrStart, HolderStep, ActivateStep
<1>11. \A t \in Threads : pc'[t] = pc[t] /\ guid'[t] = guid[t]
  BY <1>1, <1>10
<1>12. QED
  BY <1>3, <1>10, <1>11

(* What the end of a process does to its actors and its fields, to the     *)
(* others', and to the history.                                            *)
ActorsEnd(p) ==
  \A a \in Actors : /\ Own(a) = p => pc'[a] = "idle" /\ guid'[a] = 0
                    /\ Own(a) # p => pc'[a] = pc[a] /\ guid'[a] = guid[a]
FieldsEnd(p) ==
  /\ launch'[p] = "off" /\ registering'[p] = FALSE /\ class'[p] = NoClass
  /\ handlers'[p] = FALSE /\ first'[p] = FALSE /\ event'[p] = 0
  /\ signalled'[p] = {} /\ args'[p] = None /\ incoming'[p] = {}
OthersStay(p) ==
  \A q \in Processes \ {p} :
    /\ launch'[q] = launch[q] /\ registering'[q] = registering[q]
    /\ class'[q] = class[q] /\ handlers'[q] = handlers[q]
    /\ first'[q] = first[q] /\ event'[q] = event[q]
    /\ signalled'[q] = signalled[q] /\ args'[q] = args[q]
    /\ incoming'[q] = incoming[q]
HistoryEnds(p) ==
  /\ believes' = believes \ {p} /\ spoiled' = spoiled \ {p}
  /\ loose' = loose \ {p} /\ silent' = silent \ {p} /\ unsure' = unsure \ {p}
  /\ UNCHANGED <<registry, overlapped>> /\ faults' = faults + 1

(* That is all it does.                                                    *)
LEMMA ProcessesEnd ==
  ASSUME TypeInv, NEW p \in Processes, ProcessEnds(p)
  PROVE  ActorsEnd(p) /\ FieldsEnd(p) /\ OthersStay(p) /\ HistoryEnds(p)
<1>1. /\ launch \in [Processes -> {"off", "app", "toast"}]
      /\ registering \in [Processes -> BOOLEAN]
      /\ class \in [Processes -> Classes]
      /\ handlers \in [Processes -> BOOLEAN]
      /\ first \in [Processes -> BOOLEAN]
      /\ event \in [Processes -> Nat]
      /\ signalled \in [Processes -> SUBSET Nat]
      /\ args \in [Processes -> Notes \union {None}]
      /\ incoming \in [Processes -> SUBSET Notes]
  BY DEF TypeInv, TypeOK, Shapes, Classes
<1>2. FieldsEnd(p)
  BY <1>1 DEF ProcessEnds, FieldsEnd
<1>3. OthersStay(p)
  BY <1>1 DEF ProcessEnds, OthersStay
<1>4. ActorsEnd(p)
  BY DEF ProcessEnds, ActorsEnd
<1>5. HistoryEnds(p)
  BY DEF ProcessEnds, HistoryEnds, Fault
<1>6. QED
  BY <1>2, <1>3, <1>4, <1>5

-----------------------------------------------------------------------------
(* A call begins when it sets m_registering, which nobody has set, and     *)
(* ends at the scope exit, which resets it.                                *)
LEMMA CallsBeginAndEnd ==
  ASSUME TypeInv, NEW t \in Threads, ApiStep(t)
  PROVE  LET p == ProcessOf[t] IN
         \/ /\ pc[t] \notin InACall /\ pc'[t] \in InACall
            /\ ~registering[p] /\ registering'[p]
            /\ pc[t] \in {"register", "unregister all"}
         \/ /\ pc[t] \in InACall /\ pc'[t] \notin InACall /\ ~registering'[p]
            /\ Leave(t)
         \/ /\ pc'[t] \in InACall <=> pc[t] \in InACall
            /\ registering'[p] <=> registering[p]
<1>1. /\ pc \in [Actors -> Positions] /\ t \in Actors
      /\ registering \in [Processes -> BOOLEAN] /\ ProcessOf[t] \in Processes
  BY ProcessAssumption DEF TypeInv, TypeOK, Shapes, Actors
<1> DEFINE p == ProcessOf[t]
<1> DEFINE Goal == \/ /\ pc[t] \notin InACall /\ pc'[t] \in InACall
                      /\ ~registering[p] /\ registering'[p]
                      /\ pc[t] \in {"register", "unregister all"}
                   \/ /\ pc[t] \in InACall /\ pc'[t] \notin InACall
                      /\ ~registering'[p]
                      /\ Leave(t)
                   \/ /\ pc'[t] \in InACall <=> pc[t] \in InACall
                      /\ registering'[p] <=> registering[p]
<1> SUFFICES Goal
  OBVIOUS
<1> USE DEF Goes, Forgets, fields, InACall, Registering, Unregistering
<1>2. CASE Register(t)
  BY <1>1, <1>2 DEF Register
<1>3. CASE UnregisterAll(t)
  BY <1>1, <1>3 DEF UnregisterAll
<1>4. CASE Leave(t)
  BY <1>1, <1>4 DEF Leave
<1>5. CASE \E op \in Operations : Begin(t, op)
  BY <1>1, <1>5 DEF Begin, Operations
<1>6. CASE BeginDeserialize(t)
  BY <1>1, <1>6 DEF BeginDeserialize, Begin
<1>7. CASE LookUp(t) \/ RegisterComServer(t) \/ RegisterAssets(t)
           \/ CreateEvent(t) \/ RegisterClass(t)
  BY <1>1, <1>7, ProcessAssumption
     DEF LookUp, RegisterComServer, RegisterAssets, CreateEvent, RegisterClass
<1>8. CASE LookUpAll(t) \/ UnRegisterComServer(t)
           \/ UnRegisterNotificationAppIdentifier(t) \/ StepFails(t)
  BY <1>1, <1>8 DEF LookUpAll, UnRegisterComServer,
     UnRegisterNotificationAppIdentifier, StepFails
<1>9. CASE Unregister(t) \/ AddHandler(t) \/ RemoveHandler(t) \/ Deserialize(t)
           \/ WaitReturns(t) \/ WaitTimesOut(t)
  BY <1>1, <1>9 DEF Unregister, AddHandler, RemoveHandler, Deserialize,
     WaitReturns, WaitTimesOut
<1> HIDE DEF Goal
<1>10. QED
  BY <1>2, <1>3, <1>4, <1>5, <1>6, <1>7, <1>8, <1>9 DEF ApiStep, ThreadStep

(* So no step lets a second thread of the process into a call.             *)
LEMMA CallInvariant ==
  CallInv /\ [Next]_vars => CallInv'
<1> SUFFICES ASSUME CallInv, [Next]_vars PROVE OneCall'
  BY TypeInvariant DEF CallInv
<1> USE DEF CallInv
<1>1. ASSUME NEW p \in Processes,
             \A t \in Threads : ProcessOf[t] = p =>
                                  (pc'[t] \in InACall <=> pc[t] \in InACall),
             registering'[p] <=> registering[p]
      PROVE  IF registering'[p] THEN \E t \in Threads : InCall(p)' = {t}
                                ELSE InCall(p)' = {}
  <2>1. InCall(p)' = InCall(p)
    BY <1>1 DEF InCall
  <2>2. QED
    BY <1>1, <2>1 DEF OneCall
<1>2. ASSUME NEW t \in Threads, ApiStep(t) PROVE OneCall'
  <2> DEFINE p == ProcessOf[t]
  <2>1. p \in Processes /\ t \in Actors /\ Threads \subseteq Actors
    BY ProcessAssumption DEF Actors
  <2>2. \A u \in Threads \ {t} : pc'[u] = pc[u]
    BY <1>2, <2>1, ThreadsMove
  <2>3. \A q \in Processes \ {p} :
          IF registering'[q] THEN \E u \in Threads : InCall(q)' = {u}
                             ELSE InCall(q)' = {}
    BY <1>1, <1>2, <2>2, ThreadsMove
  <2>4. IF registering'[p] THEN \E u \in Threads : InCall(p)' = {u}
                           ELSE InCall(p)' = {}
    <3>1. CASE /\ pc[t] \notin InACall /\ pc'[t] \in InACall
               /\ ~registering[p] /\ registering'[p]
      <4>1. InCall(p) = {}
        BY <2>1, <3>1 DEF OneCall
      <4>2. InCall(p)' = {t}
        BY <2>2, <3>1, <4>1 DEF InCall
      <4>3. QED
        BY <3>1, <4>2
    <3>2. CASE pc[t] \in InACall /\ pc'[t] \notin InACall /\ ~registering'[p]
      <4>1. t \in InCall(p)
        BY <3>2 DEF InCall
      <4>2. InCall(p) = {t}
        BY <2>1, <4>1 DEF OneCall
      <4>3. InCall(p)' = {}
        BY <2>2, <3>2, <4>2 DEF InCall
      <4>4. QED
        BY <3>2, <4>3
    <3>3. CASE /\ pc'[t] \in InACall <=> pc[t] \in InACall
               /\ registering'[p] <=> registering[p]
      BY <1>1, <2>1, <2>2, <3>3
    <3>4. QED
      BY <1>2, <3>1, <3>2, <3>3, CallsBeginAndEnd
  <2>5. QED
    BY <2>3, <2>4 DEF OneCall
<1>3. ASSUME NEW p \in Processes, ProcessEnds(p) PROVE OneCall'
  <2>1. /\ \A t \in Threads : t \in Actors /\ Own(t) = ProcessOf[t]
        /\ "idle" \notin InACall
    BY DEF Actors, Own, InACall, Registering, Unregistering
  <2>2. ActorsEnd(p) /\ FieldsEnd(p) /\ OthersStay(p)
    BY <1>3, ProcessesEnd
  <2>3. \A q \in Processes \ {p} :
          IF registering'[q] THEN \E u \in Threads : InCall(q)' = {u}
                             ELSE InCall(q)' = {}
    <3>1. ASSUME NEW q \in Processes \ {p}
          PROVE  /\ \A t \in Threads : ProcessOf[t] = q => pc'[t] = pc[t]
                 /\ registering'[q] = registering[q]
      BY <2>1, <2>2 DEF ActorsEnd, OthersStay
    <3>2. QED
      BY <1>1, <3>1
  <2>4. InCall(p)' = {} /\ ~registering'[p]
    BY <2>1, <2>2 DEF InCall, ActorsEnd, FieldsEnd
  <2>5. QED
    BY <2>3, <2>4 DEF OneCall
<1>4. CASE ComOrStart \/ \E p \in Processes : HolderStep(p)
  BY <1>1, <1>4, ProcessesMove DEF OneCall
<1>5. CASE UNCHANGED vars
  BY <1>1, <1>5 DEF vars, fields, OneCall
<1>6. QED
  BY <1>2, <1>3, <1>4, <1>5, StepsAreOf

-----------------------------------------------------------------------------
(* A wait begins for the event of the process, and while there is none;    *)
(* another event, or another wait beside it, makes the process unsure.     *)
LEMMA WaitsAreBegun ==
  ASSUME TypeInv, NEW t \in Threads, ApiStep(t)
  PROVE  LET p == ProcessOf[t] IN
         /\ pc'[t] = "wait" =>
              /\ Deserialize(t) /\ args[p] = None /\ guid'[t] = event[p]
              /\ event'[p] = event[p]
              /\ (\E u \in Threads : ProcessOf[u] = p /\ pc[u] = "wait")
                   => p \in unsure'
         /\ event'[p] # event[p]
              /\ (\E u \in Threads : ProcessOf[u] = p /\ pc[u] = "wait")
              => p \in unsure'
         /\ signalled'[p] # signalled[p] =>
              WaitReturns(t) /\ signalled'[p] = signalled[p] \ {guid[t]}
<1>1. /\ pc \in [Actors -> Positions] /\ guid \in [Actors -> Nat]
      /\ t \in Actors
      /\ event \in [Processes -> Nat]
      /\ signalled \in [Processes -> SUBSET Nat]
      /\ ProcessOf[t] \in Processes
  BY ProcessAssumption DEF TypeInv, TypeOK, Shapes, Actors
<1> DEFINE p == ProcessOf[t]
           Other == pc'[t] # "wait" /\ event' = event /\ signalled' = signalled
<1> USE DEF Goes, Forgets, fields
<1>2. CASE Deserialize(t)
  BY <1>1, <1>2 DEF Deserialize
<1>3. CASE CreateEvent(t)
  BY <1>1, <1>3 DEF CreateEvent
<1>4. CASE WaitReturns(t)
  BY <1>1, <1>4 DEF WaitReturns
<1>5. CASE \/ \E op \in Operations : Begin(t, op)
           \/ BeginDeserialize(t) \/ StepFails(t)
  <2>1. Other
    BY <1>1, <1>5 DEF Begin, BeginDeserialize, StepFails, Operations
  <2>2. QED
    BY <2>1
<1>6. CASE Register(t) \/ LookUp(t) \/ RegisterComServer(t)
           \/ RegisterAssets(t)
           \/ RegisterClass(t) \/ Leave(t)
  <2>1. Other
    BY <1>1, <1>6 DEF Register, LookUp, RegisterComServer, RegisterAssets,
       RegisterClass, Leave
  <2>2. QED
    BY <2>1
<1>7. CASE Unregister(t) \/ UnregisterAll(t) \/ LookUpAll(t)
           \/ UnRegisterComServer(t) \/ UnRegisterNotificationAppIdentifier(t)
  <2>1. Other
    BY <1>1, <1>7 DEF Unregister, UnregisterAll, LookUpAll,
       UnRegisterComServer,
       UnRegisterNotificationAppIdentifier
  <2>2. QED
    BY <2>1
<1>8. CASE AddHandler(t) \/ RemoveHandler(t) \/ WaitTimesOut(t)
  <2>1. Other
    BY <1>1, <1>8 DEF AddHandler, RemoveHandler, WaitTimesOut
  <2>2. QED
    BY <2>1
<1>9. QED
  BY <1>2, <1>3, <1>4, <1>5, <1>6, <1>7, <1>8 DEF ApiStep, ThreadStep

(* Activate signals the event when it stores the arguments.                *)
LEMMA ArgsAreSignalled ==
  ASSUME TypeInv, ComOrStart \/ \E p \in Processes : HolderStep(p)
  PROVE  \A q \in Processes :
           \/ args'[q] = args[q] /\ signalled'[q] = signalled[q]
           \/ signalled'[q] = signalled[q] \union {event[q]}
<1>1. /\ args \in [Processes -> Notes \union {None}]
      /\ signalled \in [Processes -> SUBSET Nat]
  BY DEF TypeInv, TypeOK, Shapes
<1>2. ASSUME NEW p \in Processes, NEW n \in Notes, StoreArgs(p, n)
      PROVE  \A q \in Processes :
               \/ args'[q] = args[q] /\ signalled'[q] = signalled[q]
               \/ signalled'[q] = signalled[q] \union {event[q]}
  BY <1>1, <1>2 DEF StoreArgs
<1> USE DEF fields
<1>3. ASSUME NEW p \in Processes, NEW n \in Notes,
             Reroute(p, n) \/ InvokeHandlers(p, n) \/ Drop(p, n)
      PROVE  UNCHANGED <<args, signalled>>
  BY <1>3 DEF Reroute, InvokeHandlers, Drop, Holds
<1>4. ASSUME NEW p \in Processes,
             \/ LookUp(p) \/ RegisterComServer(p)
             \/ RegisterAssets(p) \/ PassOn(p)
             \/ PassOnFails(p) \/ RemoteReturns(p) \/ HandlerReturns(p)
             \/ ActivateFails(p) \/ HandlerCallsBack(p)
      PROVE  UNCHANGED <<args, signalled>>
  BY <1>4 DEF LookUp, RegisterComServer, RegisterAssets, PassOn, PassOnFails,
     RemoteReturns, HandlerReturns, ActivateFails, HandlerCallsBack
<1>5. CASE ComOrStart
  BY <1>5 DEF ComOrStart, ComStep, ServerIsReady, ServerTimesOut, Start, Click
<1>6. QED
  BY <1>2, <1>3, <1>4, <1>5 DEF HolderStep, ActivateStep

(* Every step keeps that a thread waits alone, for the event of its        *)
(* process, and that the event is signalled once the arguments are there.  *)
LEMMA WaitInvariant ==
  WaitInv /\ [Next]_vars => WaitInv'
<1> SUFFICES ASSUME WaitInv, [Next]_vars
             PROVE  WaiterIsWoken' /\ WaitsAlone' /\ WaitsForEvent'
  BY TypeInvariant DEF WaitInv
<1>1. /\ TypeInv /\ WaiterIsWoken /\ WaitsAlone /\ WaitsForEvent
      /\ Threads \subseteq Actors
      /\ \A t \in Threads : ProcessOf[t] \in Processes /\ Own(t) = ProcessOf[t]
  BY ProcessAssumption DEF WaitInv, Actors, Own
<1>2. ASSUME NEW t \in Threads, ApiStep(t)
      PROVE  WaiterIsWoken' /\ WaitsAlone' /\ WaitsForEvent'
  <2>1. /\ \A u \in Threads \ {t} : pc'[u] = pc[u] /\ guid'[u] = guid[u]
        /\ UNCHANGED args /\ unsure \subseteq unsure'
        /\ \A q \in Processes \ {ProcessOf[t]} :
             event'[q] = event[q] /\ signalled'[q] = signalled[q]
    BY <1>1, <1>2, ThreadsMove
  <2> DEFINE p == ProcessOf[t]
  <2>2. /\ pc'[t] = "wait" =>
             /\ args[p] = None /\ guid'[t] = event[p]
             /\ event'[p] = event[p]
             /\ (\E u \in Threads : ProcessOf[u] = p /\ pc[u] = "wait")
                  => p \in unsure'
        /\ event'[p] # event[p]
             /\ (\E u \in Threads : ProcessOf[u] = p /\ pc[u] = "wait")
             => p \in unsure'
        /\ signalled'[p] # signalled[p] =>
             pc[t] = "wait" /\ pc'[t] = "idle"
             /\ signalled'[p] = signalled[p] \ {guid[t]}
    <3>1. WaitReturns(t) => pc[t] = "wait" /\ pc'[t] = "idle"
      BY <1>1 DEF WaitReturns, Goes, TypeInv, Shapes
    <3>2. QED
      BY <1>1, <1>2, <3>1, WaitsAreBegun
  <2>3. WaitsAlone'
    BY <1>1, <2>1, <2>2 DEF WaitsAlone
  <2>4. WaitsForEvent'
    BY <1>1, <2>1, <2>2 DEF WaitsForEvent
  <2>5. ASSUME NEW u \in Threads, pc'[u] = "wait", args'[ProcessOf[u]] # None,
               ProcessOf[u] \notin unsure'
        PROVE  guid'[u] \in signalled'[ProcessOf[u]]
    <3>1. u # t /\ pc[u] = "wait" /\ guid'[u] = guid[u]
          /\ ProcessOf[u] \notin unsure
      BY <2>1, <2>2, <2>5
    <3>2. guid[u] \in signalled[ProcessOf[u]]
      BY <1>1, <2>1, <2>5, <3>1 DEF WaiterIsWoken
    <3>3. ProcessOf[u] = p => pc[t] # "wait"
      BY <1>1, <3>1 DEF WaitsAlone
    <3>4. signalled'[ProcessOf[u]] = signalled[ProcessOf[u]]
      BY <1>1, <2>1, <2>2, <3>3
    <3>5. QED
      BY <3>1, <3>2, <3>4
  <2>6. QED
    BY <2>3, <2>4, <2>5 DEF WaiterIsWoken
<1>3. ASSUME NEW p \in Processes, ProcessEnds(p)
      PROVE  WaiterIsWoken' /\ WaitsAlone' /\ WaitsForEvent'
  <2>1. /\ \A t \in Threads : /\ ProcessOf[t] = p => pc'[t] = "idle"
                              /\ ProcessOf[t] # p =>
                                   pc'[t] = pc[t] /\ guid'[t] = guid[t]
        /\ \A q \in Processes \ {p} :
             /\ args'[q] = args[q] /\ event'[q] = event[q]
             /\ signalled'[q] = signalled[q]
             /\ q \in unsure' <=> q \in unsure
    <3>1. ActorsEnd(p) /\ OthersStay(p) /\ HistoryEnds(p)
      BY <1>1, <1>3, ProcessesEnd
    <3>2. QED
      BY <1>1, <3>1 DEF ActorsEnd, OthersStay, HistoryEnds
  <2>2. \A t \in Threads : pc'[t] = "wait" =>
          ProcessOf[t] # p /\ ProcessOf[t] \in Processes
    BY <1>1, <2>1
  <2>3. WaiterIsWoken'
    BY <2>1, <2>2, <1>1 DEF WaiterIsWoken
  <2>4. WaitsAlone'
    BY <2>1, <2>2, <1>1 DEF WaitsAlone
  <2>5. WaitsForEvent'
    BY <2>1, <2>2, <1>1 DEF WaitsForEvent
  <2>6. QED
    BY <2>3, <2>4, <2>5
<1>4. ASSUME ComOrStart \/ \E p \in Processes : HolderStep(p)
      PROVE  WaiterIsWoken' /\ WaitsAlone' /\ WaitsForEvent'
  <2>1. /\ \A t \in Threads : pc'[t] = pc[t] /\ guid'[t] = guid[t]
        /\ UNCHANGED <<event, unsure>>
    BY <1>1, <1>4, ProcessesMove
  <2>2. \A q \in Processes :
          \/ args'[q] = args[q] /\ signalled'[q] = signalled[q]
          \/ signalled'[q] = signalled[q] \union {event[q]}
    BY <1>1, <1>4, ArgsAreSignalled
  <2>3. WaitsAlone' /\ WaitsForEvent'
    BY <1>1, <2>1 DEF WaitsAlone, WaitsForEvent
  <2>4. WaiterIsWoken'
    BY <1>1, <2>1, <2>2 DEF WaiterIsWoken, WaitsForEvent
  <2>5. QED
    BY <2>3, <2>4
<1>5. CASE UNCHANGED vars
  BY <1>1, <1>5 DEF vars, fields, history, WaiterIsWoken, WaitsAlone,
     WaitsForEvent
<1>6. QED
  BY <1>2, <1>3, <1>4, <1>5, StepsAreOf

-----------------------------------------------------------------------------
(* CoRegisterClassObject: for single use unless there is a handler.        *)
Registers(t) ==
  LET p == ProcessOf[t] IN
  /\ pc[t] = "register class" /\ pc'[t] # "register class"
  /\ event'[p] = event[p] /\ ~HasClass(p)
  /\ class'[p] = [clsid |-> guid[t], used |-> FALSE, multiple |-> handlers[p]]
  /\ event[p] > 1 /\ ~handlers[p] => p \in loose'
  /\ handlers'[p] = handlers[p]

(* Handlers, class object and event of a process change in these ways      *)
(* only: a handler is not added once there is a class object, and giving   *)
(* it up after an event was made is noted in loose.                        *)
LEMMA ClassesAreRegistered ==
  ASSUME TypeInv, NEW t \in Threads, ApiStep(t)
  PROVE  LET p == ProcessOf[t] IN
         /\ \/ handlers'[p] = handlers[p]
            \/ /\ Unlocked(p) /\ event'[p] = event[p] /\ class'[p] = class[p]
               /\ event[p] # 0 /\ ~handlers'[p] => p \in loose'
         /\ class'[p] = class[p] \/ class'[p] = NoClass \/ Registers(t)
         /\ \/ event'[p] = event[p]
            \/ event'[p] = event[p] + 1 /\ pc[t] \in InACall
         /\ pc'[t] = "register class" =>
              /\ event'[p] = event[p] + 1 /\ class'[p] = class[p]
              /\ pc[t] = "create event"
<1>1. /\ pc \in [Actors -> Positions] /\ t \in Actors
      /\ event \in [Processes -> Nat] /\ handlers \in [Processes -> BOOLEAN]
      /\ class \in [Processes -> Classes]
      /\ ProcessOf[t] \in Processes
  BY ProcessAssumption DEF TypeInv, TypeOK, Shapes, Actors, Classes
<1> DEFINE p == ProcessOf[t]
           Other == /\ pc'[t] # "register class"
                    /\ UNCHANGED <<event, class, handlers>>
<1> USE DEF Goes, Forgets, fields
<1>2. CASE RegisterClass(t)
  <2>1. UNCHANGED <<event, handlers>> /\ pc'[t] # "register class"
    BY <1>1, <1>2 DEF RegisterClass
  <2>2. class' = class \/ Registers(t)
    BY <1>1, <1>2, <2>1 DEF RegisterClass, Registers, ForMultipleUse
  <2>3. QED
    BY <2>1, <2>2
<1>3. CASE CreateEvent(t)
  <2>1. /\ pc[t] = "create event" /\ UNCHANGED <<class, handlers>>
        /\ event'[p] = event[p] + 1
    BY <1>1, <1>3 DEF CreateEvent
  <2>2. QED
    BY <2>1 DEF InACall, Registering
<1>4. CASE Unregister(t) \/ UnregisterAll(t)
  <2>1. pc'[t] # "register class" /\ UNCHANGED <<event, handlers>>
    BY <1>1, <1>4 DEF Unregister, UnregisterAll
  <2>2. class'[p] = class[p] \/ class'[p] = NoClass
    BY <1>1, <1>4 DEF Unregister, UnregisterAll
  <2>3. QED
    BY <2>1, <2>2
<1>5. CASE AddHandler(t)
  <2>1. /\ pc'[t] # "register class" /\ UNCHANGED <<event, class>>
        /\ Unlocked(p)
        /\ handlers'[p] = (handlers[p] \/ ~HasClass(p))
    BY <1>1, <1>5 DEF AddHandler
  <2>2. handlers'[p] = handlers[p] \/ handlers'[p] = TRUE
    <3>1. handlers[p] \in BOOLEAN
      BY <1>1
    <3>2. QED
      BY <2>1, <3>1
  <2>3. QED
    BY <2>1, <2>2
<1>6. CASE RemoveHandler(t)
  <2>1. /\ pc'[t] # "register class" /\ UNCHANGED <<event, class>>
        /\ Unlocked(p)
        /\ event[p] # 0 => p \in loose'
    BY <1>1, <1>6 DEF RemoveHandler
  <2>2. QED
    BY <2>1
<1>7. CASE \/ \E op \in Operations : Begin(t, op)
           \/ BeginDeserialize(t) \/ StepFails(t)
  <2>1. Other
    BY <1>1, <1>7 DEF Begin, BeginDeserialize, StepFails, Operations
  <2>2. QED
    BY <2>1
<1>8. CASE Register(t) \/ LookUp(t) \/ RegisterComServer(t)
           \/ RegisterAssets(t)
           \/ Leave(t)
  <2>1. Other
    BY <1>1, <1>8 DEF Register, LookUp, RegisterComServer, RegisterAssets,
       Leave
  <2>2. QED
    BY <2>1
<1>9. CASE LookUpAll(t) \/ UnRegisterComServer(t)
           \/ UnRegisterNotificationAppIdentifier(t)
  <2>1. Other
    BY <1>1, <1>9 DEF LookUpAll, UnRegisterComServer,
       UnRegisterNotificationAppIdentifier
  <2>2. QED
    BY <2>1
<1>10. CASE Deserialize(t) \/ WaitReturns(t) \/ WaitTimesOut(t)
  <2>1. Other
    BY <1>1, <1>10 DEF Deserialize, WaitReturns, WaitTimesOut
  <2>2. QED
    BY <2>1
<1>11. QED
  BY <1>2, <1>3, <1>4, <1>5, <1>6, <1>7, <1>8, <1>9, <1>10
     DEF ApiStep, ThreadStep

(* What a step of Activate or COM does with the notifications of a         *)
(* process: it keeps them, COM gives it one, or Activate takes one; Locked *)
(* says how Activate begins.                                               *)
Kept(q) == /\ incoming'[q] = incoming[q] /\ first'[q] = first[q]
           /\ class'[q] = class[q]
Given(q) == /\ HasClass(q) /\ ~class[q].used /\ first'[q] = first[q]
            /\ \E n : incoming'[q] = incoming[q] \union {n}
            /\ class'[q].used = ~class[q].multiple
            /\ class'[q].multiple = class[q].multiple
Taken(q) == /\ incoming[q] # {} /\ first'[q] /\ class'[q] = class[q]
            /\ \E n \in incoming[q] : incoming'[q] = incoming[q] \ {n}
Locked(q) == /\ pc'[q] # "idle" => pc[q] # "idle" \/ first'[q]
             /\ pc'[q] \in Rerouting => pc[q] \in Rerouting \/ ~handlers[q]

(* COM gives a notification to a class object that is free.                *)
LEMMA DeliveriesAreGiven ==
  ASSUME TypeInv, NEW p \in Processes, HasClass(p), ~class[p].used,
         NEW n, Deliver(p, n), first' = first
  PROVE  \A q \in Processes : Kept(q) \/ Given(q)
<1>1. /\ class \in [Processes -> Classes]
      /\ incoming \in [Processes -> SUBSET Notes]
  BY DEF TypeInv, TypeOK, Classes
<1>2. class' = [class EXCEPT ![p] =
                 [class[p] EXCEPT !.used = ~class[p].multiple]]
  BY DEF Deliver
<1>3. class[p] \in Classes
  BY <1>1
<1>4. /\ class'[p] = [class[p] EXCEPT !.used = ~class[p].multiple]
      /\ \A q \in Processes \ {p} : class'[q] = class[q]
  BY <1>1, <1>2
<1>5. class'[p].used = ~class[p].multiple
      /\ class'[p].multiple = class[p].multiple
  BY <1>3, <1>4 DEF Classes
<1>6. /\ incoming'[p] = incoming[p] \union {n}
      /\ \A q \in Processes \ {p} : incoming'[q] = incoming[q]
  BY <1>1 DEF Deliver
<1>7. QED
  BY <1>4, <1>5, <1>6 DEF Kept, Given

(* Each step of Activate and COM is one of these for each process.         *)
LEMMA NotesAreTaken ==
  ASSUME TypeInv, ComOrStart \/ \E p \in Processes : HolderStep(p)
  PROVE  \A q \in Processes : /\ Kept(q) \/ Given(q) \/ Taken(q)
                              /\ Locked(q)
<1>1. /\ pc \in [Actors -> Positions]
      /\ incoming \in [Processes -> SUBSET Notes]
      /\ first \in [Processes -> BOOLEAN]
      /\ Processes \subseteq Actors
      /\ \A p \in Processes : p \notin Threads
  BY ProcessAssumption DEF TypeInv, TypeOK, Shapes, Actors
<1> DEFINE Goal == \A q \in Processes : /\ Kept(q) \/ Given(q) \/ Taken(q)
                                        /\ Locked(q)
<1>2. ASSUME NEW c, NEW n, CoCreateInstance(c, n), first' = first
      PROVE  \A q \in Processes : Kept(q) \/ Given(q)
  <2>1. ASSUME NEW p \in Free(c), Deliver(p, n)
        PROVE  \A q \in Processes : Kept(q) \/ Given(q)
    BY <1>2, <2>1, DeliveriesAreGiven DEF Free
  <2>2. CASE UNCHANGED <<incoming, class>>
    BY <1>2, <2>2 DEF Kept
  <2>3. QED
    BY <1>2, <2>1, <2>2 DEF CoCreateInstance
<1> USE DEF Goes, Forgets, fields
<1>3. ASSUME UNCHANGED <<incoming, first, class>>
      PROVE  \A q \in Processes : Kept(q)
  BY <1>3 DEF Kept
<1>4. ASSUME UNCHANGED pc PROVE \A q \in Processes : Locked(q)
  BY <1>4 DEF Locked
<1>5. ASSUME NEW p \in Processes, NEW n, Takes(p, n), UNCHANGED class,
             \/ first' = [first EXCEPT ![p] = TRUE]
             \/ first[p] /\ UNCHANGED first
      PROVE  \A q \in Processes : Kept(q) \/ Taken(q)
  BY <1>1, <1>5 DEF Takes, Kept, Taken
<1>6. ASSUME NEW p \in Processes, NEW x, pc' = [pc EXCEPT ![p] = x],
             x # "idle" => pc[p] # "idle" \/ first'[p],
             x \in Rerouting => pc[p] \in Rerouting \/ ~handlers[p]
      PROVE  \A q \in Processes : Locked(q)
  BY <1>1, <1>6 DEF Locked
<1>7. ASSUME NEW p \in Processes, NEW n \in Notes,
             StoreArgs(p, n) \/ Drop(p, n)
      PROVE  Goal
  BY <1>4, <1>5, <1>7 DEF StoreArgs, Drop
<1>8. ASSUME NEW p \in Processes, NEW n \in Notes,
             Reroute(p, n) \/ InvokeHandlers(p, n)
      PROVE  Goal
  <2>1. \A q \in Processes : Kept(q) \/ Taken(q)
    BY <1>5, <1>8 DEF Reroute, InvokeHandlers, Holds
  <2>2. first'[p]
    BY <1>1, <1>8 DEF Reroute, InvokeHandlers, Holds
  <2>3. "handler" \notin Rerouting
    BY DEF Rerouting
  <2>4. \A q \in Processes : Locked(q)
    BY <1>6, <1>8, <2>2, <2>3 DEF Reroute, InvokeHandlers, Holds
  <2>5. QED
    BY <2>1, <2>4
<1>9. ASSUME NEW p \in Processes,
             LookUp(p) \/ RegisterComServer(p) \/ RegisterAssets(p)
      PROVE  Goal
  <2>1. UNCHANGED <<incoming, first, class>>
    BY <1>9 DEF LookUp, RegisterComServer, RegisterAssets, com
  <2>2. /\ pc[p] \in {"look up", "register server", "assets"}
        /\ \E x : pc' = [pc EXCEPT ![p] = x]
    BY <1>9 DEF LookUp, RegisterComServer, RegisterAssets
  <2>3. pc[p] \in Rerouting /\ pc[p] # "idle"
    BY <2>2 DEF Rerouting, Activating
  <2>4. QED
    BY <1>3, <1>6, <2>1, <2>2, <2>3
<1>10. ASSUME NEW p \in Processes, PassOn(p)
       PROVE  Goal
  <2>1. "create instance" \in Rerouting
    BY DEF Rerouting, Activating
  <2>2. QED
    BY <1>2, <1>6, <1>10, <2>1 DEF PassOn
<1>11. ASSUME NEW p \in Processes,
              \/ PassOnFails(p) \/ RemoteReturns(p) \/ HandlerReturns(p)
              \/ ActivateFails(p)
       PROVE  Goal
  <2>1. UNCHANGED <<incoming, first, class>> /\ pc' = [pc EXCEPT ![p] = "idle"]
    BY <1>11 DEF PassOnFails, RemoteReturns, HandlerReturns, ActivateFails, com
  <2>2. "idle" \notin Rerouting
    BY DEF Rerouting, Activating
  <2>3. QED
    BY <1>3, <1>6, <2>1, <2>2
<1>12. ASSUME NEW p \in Processes, HandlerCallsBack(p)
       PROVE  Goal
  <2>1. /\ UNCHANGED <<incoming, first, class>> /\ pc[p] = "handler"
        /\ pc' = [pc EXCEPT ![p] = "calls back"]
    BY <1>12 DEF HandlerCallsBack, com
  <2>2. "calls back" \notin Rerouting
    BY DEF Rerouting
  <2>3. QED
    BY <1>3, <1>6, <2>1, <2>2
<1>13. ASSUME NEW p \in Processes, ServerIsReady(p) PROVE Goal
  BY <1>4, <1>13, DeliveriesAreGiven DEF ServerIsReady, Free
<1>14. ASSUME NEW p \in Processes, ServerTimesOut(p) \/ Start(p) PROVE Goal
  BY <1>3, <1>4, <1>14 DEF ServerTimesOut, Start
<1>15. ASSUME NEW n \in Notes, Click(n) PROVE Goal
  BY <1>2, <1>4, <1>15 DEF Click
<1> HIDE DEF Goal
<1>16. Goal
  BY <1>7, <1>8, <1>9, <1>10, <1>11, <1>12, <1>13, <1>14, <1>15
     DEF ComOrStart, ComStep, HolderStep, ActivateStep
<1>17. QED
  BY <1>16 DEF Goal

(* Where Activate may drop a notification.                                 *)
DropsOf == {p \in Processes : first[p] /\ ~handlers[p] /\ incoming[p] # {}}

(* It drops none elsewhere.                                                *)
LEMMA OnlyDropsAreSilent ==
  ASSUME ComOrStart \/ \E p \in Processes : HolderStep(p)
  PROVE  silent' \subseteq silent \union DropsOf
<1> USE DEF history
<1>1. ASSUME NEW p \in Processes, NEW n \in Notes, Drop(p, n)
      PROVE  silent' \subseteq silent \union DropsOf
  BY <1>1 DEF Drop, Takes, DropsOf
<1>2. ASSUME NEW p \in Processes, NEW n \in Notes,
             StoreArgs(p, n) \/ Reroute(p, n) \/ InvokeHandlers(p, n)
      PROVE  silent' = silent
  BY <1>2 DEF StoreArgs, Reroute, InvokeHandlers, Holds
<1>3. ASSUME NEW p \in Processes,
             LookUp(p) \/ RegisterComServer(p) \/ RegisterAssets(p)
             \/ PassOn(p)
      PROVE  silent' = silent
  BY <1>3 DEF LookUp, RegisterComServer, RegisterAssets, PassOn
<1>4. ASSUME NEW p \in Processes,
             \/ PassOnFails(p) \/ RemoteReturns(p) \/ HandlerReturns(p)
             \/ ActivateFails(p) \/ HandlerCallsBack(p)
      PROVE  silent' = silent
  BY <1>4 DEF PassOnFails, RemoteReturns, HandlerReturns, ActivateFails,
     HandlerCallsBack
<1>5. CASE ComOrStart
  BY <1>5 DEF ComOrStart, ComStep, ServerIsReady, ServerTimesOut, Start, Click
<1>6. QED
  BY <1>1, <1>2, <1>3, <1>4, <1>5 DEF HolderStep, ActivateStep

(* Every step keeps that an instance that has no handlers, and did not     *)
(* give them up after it registered, is given one notification at most:    *)
(* its class object is for single use and there is no second one before    *)
(* Activate has had the first.                                             *)
LEMMA UseInvariant ==
  UseInv /\ [Next]_vars => UseInv'
<1> DEFINE Given1 == \A p \in Processes \ loose : ~handlers[p] => IsGivenOne(p)
           Goal == /\ ActivateHolds' /\ FirstIsFresh'
                   /\ (silent \subseteq loose)'
                   /\ Given1'
<1> SUFFICES ASSUME UseInv, [Next]_vars PROVE Goal
  BY CallInvariant DEF UseInv
<1>1. /\ TypeInv /\ OneCall /\ ActivateHolds /\ FirstIsFresh
      /\ silent \subseteq loose
      /\ Given1
  BY DEF UseInv, CallInv
<1>2. /\ Threads \subseteq Actors /\ Processes \subseteq Actors
      /\ \A t \in Threads : ProcessOf[t] \in Processes /\ Own(t) = ProcessOf[t]
                            /\ t \notin Processes
      /\ \A p \in Processes : Own(p) = p
      /\ event \in [Processes -> Nat] /\ handlers \in [Processes -> BOOLEAN]
      /\ incoming \in [Processes -> SUBSET Notes]
  BY <1>1, ProcessAssumption DEF Actors, Own, TypeInv, TypeOK
<1>3. ASSUME NEW t \in Threads, NEW u \in Threads, ProcessOf[t] = ProcessOf[u],
             pc[t] \in InACall, pc[u] \in InACall
      PROVE  t = u
  <2>1. t \in InCall(ProcessOf[t]) /\ u \in InCall(ProcessOf[t])
    BY <1>3 DEF InCall
  <2>2. QED
    BY <1>1, <1>2, <2>1 DEF OneCall
<1>4. ASSUME NEW t \in Threads, ApiStep(t) PROVE Goal
  <2> DEFINE p == ProcessOf[t]
  <2>1. p \in Processes
    BY <1>2
  <2>2. /\ \A b \in Actors \ {t} : pc'[b] = pc[b]
        /\ UNCHANGED <<incoming, first, silent>>
        /\ \A q \in Processes \ {p} :
              /\ class'[q] = class[q] /\ handlers'[q] = handlers[q]
              /\ event'[q] = event[q]
              /\ q \in loose' <=> q \in loose
        /\ loose \subseteq loose'
    BY <1>1, <1>4, ThreadsMove DEF com
  <2>3. /\ \/ handlers'[p] = handlers[p]
           \/ /\ Unlocked(p) /\ event'[p] = event[p] /\ class'[p] = class[p]
              /\ event[p] # 0 /\ ~handlers'[p] => p \in loose'
        /\ class'[p] = class[p] \/ class'[p] = NoClass \/ Registers(t)
        /\ \/ event'[p] = event[p]
           \/ event'[p] = event[p] + 1 /\ pc[t] \in InACall
        /\ pc'[t] = "register class" =>
             /\ event'[p] = event[p] + 1 /\ class'[p] = class[p]
             /\ pc[t] = "create event"
    BY <1>1, <1>4, ClassesAreRegistered
  <2>4. ActivateHolds'
    <3>1. \A q \in Processes : pc'[q] = pc[q] /\ first'[q] = first[q]
      BY <1>2, <2>2
    <3>2. \A q \in Processes : pc[q] \in Rerouting =>
            handlers'[q] = handlers[q]
      <4>1. "idle" \notin Rerouting
        BY DEF Rerouting, Activating
      <4>2. QED
        BY <2>2, <2>3, <4>1 DEF Unlocked
    <3>3. QED
      BY <1>1, <3>1, <3>2 DEF ActivateHolds
  <2>5. event'[p] = 0 => event[p] = 0
    <3>1. /\ event[p] \in Nat
          /\ event'[p] = event[p] \/ event'[p] = event[p] + 1
      BY <1>2, <2>1, <2>3
    <3>2. QED
      BY <3>1
  <2>6. \A q \in Processes : Fresh(q) /\ class'[q] = class[q] => Fresh(q)'
    BY <2>2 DEF Fresh, HasClass
  <2>7. \A q \in Processes : Fresh(q) /\ class'[q] = NoClass => Fresh(q)'
    BY <2>2 DEF Fresh, HasClass
  <2>8. Registers(t) => /\ event[p] # 0 /\ (event[p] = 1 => Fresh(p))
                        /\ pc[t] \in InACall
    BY <1>1, <2>1 DEF Registers, FirstIsFresh, InACall, Registering
  <2>9. \A q \in Processes : event'[q] = 0 => Fresh(q)'
    <3>1. event'[p] = 0 => Fresh(p)'
      <4>1. Registers(t) => event'[p] # 0
        BY <2>8 DEF Registers
      <4>2. event[p] = 0 => Fresh(p)
        BY <1>1, <2>1 DEF FirstIsFresh
      <4>3. QED
        BY <2>1, <2>3, <2>5, <2>6, <2>7, <4>1, <4>2
    <3>2. \A q \in Processes \ {p} : event'[q] = 0 => Fresh(q)'
      BY <1>1, <2>2, <2>6 DEF FirstIsFresh
    <3>3. QED
      BY <3>1, <3>2
  <2>10. ASSUME NEW q \in Processes, NEW u \in Threads, ProcessOf[u] = q,
                pc'[u] = "register class"
         PROVE  event'[q] # 0 /\ (event'[q] = 1 => Fresh(q)')
    <3>1. CASE u = t
      <4>1. event'[p] = event[p] + 1 /\ class'[p] = class[p]
        BY <2>3, <2>10, <3>1
      <4>2. event'[p] # 0 /\ (event'[p] = 1 => event[p] = 0)
        <5>1. event[p] \in Nat
          BY <1>2, <2>1
        <5>2. QED
          BY <4>1, <5>1
      <4>3. event[p] = 0 => Fresh(p)
        BY <1>1, <2>1 DEF FirstIsFresh
      <4>4. QED
        BY <2>1, <2>6, <2>10, <3>1, <4>1, <4>2, <4>3
    <3>2. CASE u # t
      <4>1. pc[u] = "register class" /\ pc[u] \in InACall
        BY <1>2, <2>2, <2>10, <3>2 DEF InACall, Registering
      <4>2. event[q] # 0 /\ (event[q] = 1 => Fresh(q))
        BY <1>1, <2>10, <4>1 DEF FirstIsFresh
      <4>3. q = p => pc[t] \notin InACall
        BY <1>3, <2>10, <3>2, <4>1
      <4>4. /\ event'[q] = event[q]
            /\ class'[q] = class[q] \/ class'[q] = NoClass
        BY <2>2, <2>3, <2>8, <4>3
      <4>5. QED
        BY <2>6, <2>7, <4>2, <4>4
    <3>3. QED
      BY <3>1, <3>2
  <2>11. FirstIsFresh'
    BY <2>9, <2>10 DEF FirstIsFresh
  <2>12. (silent \subseteq loose)'
    BY <1>1, <2>2
  <2>13. \A q \in Processes : IsGivenOne(q) /\ class'[q] = class[q] =>
           IsGivenOne(q)'
    BY <2>2 DEF IsGivenOne, HasClass
  <2>14. \A q \in Processes : IsGivenOne(q) /\ class'[q] = NoClass =>
           IsGivenOne(q)'
    BY <2>2 DEF IsGivenOne, HasClass
  <2>15. ASSUME NEW q \in Processes, Fresh(q)' PROVE IsGivenOne(q)'
    BY <2>15 DEF Fresh, IsGivenOne
  <2>16. ASSUME p \notin loose', ~handlers'[p] PROVE IsGivenOne(p)'
    <3>1. CASE handlers'[p] # handlers[p]
      <4>1. event'[p] = 0
        BY <2>3, <2>16, <3>1
      <4>2. QED
        BY <2>1, <2>9, <2>15, <4>1
    <3>2. CASE handlers'[p] = handlers[p]
      <4>1. ~handlers[p] /\ p \notin loose /\ IsGivenOne(p)
        BY <1>1, <2>1, <2>2, <2>16, <3>2
      <4>2. CASE Registers(t)
        <5>1. event[p] \in Nat /\ ~(event[p] > 1)
          BY <1>2, <2>1, <2>16, <4>1, <4>2 DEF Registers
        <5>2. event[p] = 1 /\ Fresh(p)
          <6>1. event[p] # 0 /\ (event[p] = 1 => Fresh(p))
            BY <2>8, <4>2
          <6>2. event[p] = 1
            BY <5>1, <6>1
          <6>3. QED
            BY <6>1, <6>2
        <5>3. class'[p].multiple = FALSE
          <6>1. class'[p] = [clsid |-> guid[t], used |-> FALSE,
                             multiple |-> handlers[p]]
            BY <4>2 DEF Registers
          <6>2. handlers[p] = FALSE
            BY <1>2, <2>1, <4>1
          <6>3. QED
            BY <6>1, <6>2
        <5>4. incoming'[p] = {} /\ ~first'[p]
          BY <2>2, <5>2 DEF Fresh
        <5>5. QED
          BY <4>1, <5>3, <5>4 DEF IsGivenOne
      <4>3. QED
        BY <2>1, <2>3, <2>13, <2>14, <4>1, <4>2
    <3>3. QED
      BY <3>1, <3>2
  <2>17. Given1'
    <3>1. \A q \in Processes \ {p} : q \notin loose' /\ ~handlers'[q] =>
            IsGivenOne(q)'
      BY <1>1, <2>2, <2>13
    <3>2. QED
      BY <2>16, <3>1
  <2>18. QED
    BY <2>4, <2>11, <2>12, <2>17
<1>5. ASSUME NEW p \in Processes, ProcessEnds(p) PROVE Goal
  <2>1. ActorsEnd(p) /\ FieldsEnd(p) /\ OthersStay(p) /\ HistoryEnds(p)
    BY <1>1, <1>5, ProcessesEnd
  <2>2. \A q \in Processes \ {p} :
          /\ pc'[q] = pc[q] /\ first'[q] = first[q]
          /\ handlers'[q] = handlers[q]
          /\ event'[q] = event[q] /\ class'[q] = class[q]
          /\ incoming'[q] = incoming[q]
          /\ q \in loose' <=> q \in loose
          /\ \A t \in Threads : ProcessOf[t] = q => pc'[t] = pc[t]
    BY <1>2, <2>1 DEF ActorsEnd, OthersStay, HistoryEnds
  <2>3. /\ pc'[p] = "idle" /\ ~first'[p] /\ incoming'[p] = {}
        /\ class'[p] = NoClass
        /\ \A t \in Threads : ProcessOf[t] = p => pc'[t] = "idle"
    BY <1>2, <2>1 DEF ActorsEnd, FieldsEnd
  <2>4. Fresh(p)' /\ IsGivenOne(p)'
    BY <2>3 DEF Fresh, IsGivenOne, HasClass
  <2>5. \A q \in Processes \ {p} : /\ Fresh(q) => Fresh(q)'
                                   /\ IsGivenOne(q) => IsGivenOne(q)'
    BY <2>2 DEF Fresh, IsGivenOne, HasClass
  <2>6. ActivateHolds'
    <3>1. "idle" \notin Rerouting
      BY DEF Rerouting, Activating
    <3>2. QED
      BY <1>1, <2>2, <2>3, <3>1 DEF ActivateHolds
  <2>7. \A q \in Processes : event'[q] = 0 => Fresh(q)'
    BY <1>1, <2>2, <2>4, <2>5 DEF FirstIsFresh
  <2>8. ASSUME NEW q \in Processes, NEW t \in Threads, ProcessOf[t] = q,
               pc'[t] = "register class"
        PROVE  event'[q] # 0 /\ (event'[q] = 1 => Fresh(q)')
    <3>1. q # p
      BY <2>3, <2>8
    <3>2. pc[t] = "register class" /\ event'[q] = event[q]
      BY <2>2, <2>8, <3>1
    <3>3. event[q] # 0 /\ (event[q] = 1 => Fresh(q))
      BY <1>1, <2>8, <3>2 DEF FirstIsFresh
    <3>4. QED
      BY <2>5, <3>1, <3>2, <3>3
  <2>9. FirstIsFresh'
    BY <2>7, <2>8 DEF FirstIsFresh
  <2>10. (silent \subseteq loose)'
    BY <1>1, <2>1 DEF HistoryEnds
  <2>11. Given1'
    BY <1>1, <2>2, <2>4, <2>5
  <2>12. QED
    BY <2>6, <2>9, <2>10, <2>11
<1>6. ASSUME ComOrStart \/ \E p \in Processes : HolderStep(p) PROVE Goal
  <2>1. /\ \A t \in Threads : pc'[t] = pc[t]
        /\ UNCHANGED <<handlers, event, loose>>
        /\ \A q \in Processes : HasClass(q)' => HasClass(q)
    BY <1>1, <1>6, ProcessesMove
  <2>2. \A q \in Processes : /\ Kept(q) \/ Given(q) \/ Taken(q)
                             /\ Locked(q)
    BY <1>1, <1>6, NotesAreTaken
  <2>3. silent' \subseteq silent \union DropsOf
    BY <1>6, OnlyDropsAreSilent
  <2>4. ActivateHolds'
    <3>1. ASSUME NEW q \in Processes, pc'[q] # "idle" PROVE first'[q]
      BY <1>1, <2>2, <3>1 DEF ActivateHolds, Locked, Kept, Given, Taken
    <3>2. ASSUME NEW q \in Processes, pc'[q] \in Rerouting PROVE ~handlers'[q]
      BY <1>1, <2>1, <2>2, <3>2 DEF ActivateHolds, Locked
    <3>3. QED
      BY <3>1, <3>2 DEF ActivateHolds
  <2>5. \A q \in Processes : Fresh(q) => Fresh(q)'
    BY <2>1, <2>2 DEF Fresh, Kept, Given, Taken
  <2>6. FirstIsFresh'
    BY <1>1, <2>1, <2>5 DEF FirstIsFresh
  <2>7. (silent \subseteq loose)'
    <3>1. \A p \in DropsOf : p \in loose
      BY <1>1 DEF DropsOf, IsGivenOne
    <3>2. QED
      BY <1>1, <2>1, <2>3, <3>1
  <2>8. ASSUME NEW q \in Processes, IsGivenOne(q) PROVE IsGivenOne(q)'
    <3>1. CASE Kept(q)
      BY <2>8, <3>1 DEF Kept, IsGivenOne, HasClass
    <3>2. CASE Given(q)
      <4>1. ~first[q] /\ incoming[q] = {} /\ ~class[q].multiple
        BY <2>8, <3>2 DEF Given, IsGivenOne
      <4>2. /\ ~first'[q] /\ class'[q].used /\ ~class'[q].multiple
            /\ \E n : incoming'[q] = {n}
        BY <3>2, <4>1 DEF Given
      <4>3. QED
        BY <4>2 DEF IsGivenOne
    <3>3. CASE Taken(q)
      <4>1. incoming'[q] = {} /\ class'[q] = class[q]
        BY <2>8, <3>3 DEF Taken, IsGivenOne
      <4>2. HasClass(q) => class[q].used /\ ~class[q].multiple
        BY <2>8, <3>3 DEF Taken, IsGivenOne
      <4>3. QED
        BY <4>1, <4>2 DEF IsGivenOne, HasClass
    <3>4. QED
      BY <2>2, <3>1, <3>2, <3>3
  <2>9. Given1'
    BY <1>1, <2>1, <2>8
  <2>10. QED
    BY <2>4, <2>6, <2>7, <2>9
<1>7. CASE UNCHANGED vars
  <2>1. UNCHANGED <<pc, first, handlers, event, class, incoming, silent,
        loose>>
    BY <1>7 DEF vars, fields, history, com
  <2>2. ActivateHolds' /\ FirstIsFresh' /\ (silent \subseteq loose)'
    BY <1>1, <2>1 DEF ActivateHolds, FirstIsFresh, Fresh, HasClass
  <2>3. Given1'
    BY <1>1, <2>1 DEF IsGivenOne, HasClass
  <2>4. QED
    BY <2>2, <2>3
<1> HIDE DEF Goal
<1>8. QED
  BY <1>4, <1>5, <1>6, <1>7, StepsAreOf

-----------------------------------------------------------------------------
(* The initial states have the types and shapes.                           *)
LEMMA InitTypes == Init => TypeInv
<1> SUFFICES ASSUME Init PROVE TypeInv
  OBVIOUS
<1>1. activator \in Nat /\ lastGuid \in Nat /\ servers \subseteq Nat
  BY DEF Init
<1>2. /\ \A t \in Threads : pc[t] = "idle"
      /\ \A p \in Processes : pc[p] = "idle"
      /\ "idle" \in Positions /\ pc \in [Actors -> Positions]
  BY DEF Init, Actors, Positions
<1>3. class \in [Processes -> Classes]
  BY NoClassIsOne DEF Init
<1>4. /\ launch \in [Processes -> {"off", "app", "toast"}]
      /\ registering \in [Processes -> BOOLEAN]
      /\ handlers \in [Processes -> BOOLEAN]
      /\ first \in [Processes -> BOOLEAN]
      /\ event \in [Processes -> Nat]
      /\ signalled \in [Processes -> SUBSET Nat]
      /\ args \in [Processes -> Notes \union {None}]
      /\ cur \in [Processes -> Notes \union {None}]
      /\ guid \in [Actors -> Nat]
      /\ incoming \in [Processes -> SUBSET Notes]
      /\ wanted \in [Processes -> Sinks \union {Nothing}]
      /\ fate \in [Notes -> {"shown", "sent", "stored", "handled", "dropped",
                             "lost"}]
  BY DEF Init
<1>5. /\ {believes, spoiled, loose, silent, unsure} \subseteq SUBSET Processes
      /\ overlapped \in BOOLEAN /\ calls \in Nat /\ faults \in Nat
  BY DEF Init
<1>6. QED
  BY <1>1, <1>2, <1>3, <1>4, <1>5 DEF TypeInv, TypeOK, Shapes, Classes

(* Nobody is in a call then.                                               *)
LEMMA InitCalls == Init => CallInv
<1> SUFFICES ASSUME Init PROVE OneCall
  BY InitTypes DEF CallInv
<1>1. \A t \in Threads : pc[t] \notin InACall
  BY DEF Init, Actors, InACall, Registering, Unregistering
<1>2. \A p \in Processes : ~registering[p]
  BY DEF Init
<1>3. QED
  BY <1>1, <1>2 DEF OneCall, InCall

(* WaitInv, the inductive invariant of Deserialize: a thread that waits is *)
(* the only one, waits for the event that Activate signals (84-94,         *)
(* 323-324), and finds it signalled if the arguments are there.            *)
THEOREM WaitersAreWoken == Spec => []WaitInv
<1>1. ASSUME Init PROVE WaitInv
  <2>1. \A t \in Threads : pc[t] = "idle"
    BY <1>1 DEF Init, Actors
  <2>2. QED
    BY <1>1, <2>1, InitTypes DEF WaitInv, WaiterIsWoken, WaitsAlone,
       WaitsForEvent
<1>2. QED
  BY <1>1, WaitInvariant, PTL DEF Spec

(* UseInv, the inductive invariant of Activate: an instance without        *)
(* handlers registered its class object for single use (149-160), and COM  *)
(* gives it one notification.                                              *)
THEOREM ClassesAreUsedOnce == Spec => []UseInv
<1>1. ASSUME Init PROVE UseInv
  <2>1. \A a \in Actors : pc[a] = "idle"
    BY <1>1 DEF Init
  <2>2. \A p \in Processes : class[p] = NoClass /\ incoming[p] = {}
        /\ ~first[p]
    BY <1>1 DEF Init
  <2>3. silent = {}
    BY <1>1 DEF Init
  <2>4. ActivateHolds
    BY <2>1 DEF ActivateHolds, Actors, Rerouting, Activating
  <2>5. FirstIsFresh
    BY <2>1, <2>2 DEF FirstIsFresh, Fresh, HasClass, Actors
  <2>6. \A p \in Processes : IsGivenOne(p)
    BY <2>2 DEF IsGivenOne, HasClass
  <2>7. QED
    BY <1>1, <2>3, <2>4, <2>5, <2>6, InitCalls DEF UseInv
<1>2. QED
  BY <1>1, UseInvariant, PTL DEF Spec

(* NotificationsArrive: who waits for the arguments is woken, and an       *)
(* instance that kept its handlers drops nothing.                          *)
THEOREM NotificationsAreNotLost == Spec => []NotificationsArrive
BY WaitersAreWoken, ClassesAreUsedOnce, PTL DEF WaitInv, UseInv,
   NotificationsArrive

(* NoCircularWait: an instance that passes a notification on under m_lock  *)
(* (287-314) has no other notification waiting for that lock, so that no   *)
(* instance that waits in this way is waited for.                          *)
THEOREM NobodyWaitsInACircle == Spec => []NoCircularWait
<1>1. UseInv => NoCircularWait
  <2> SUFFICES ASSUME UseInv, NEW p \in Processes \ loose, pc[p] = "remote"
               PROVE  incoming[p] = {}
    BY DEF NoCircularWait
  <2>1. first[p] /\ ~handlers[p]
    BY DEF UseInv, ActivateHolds, Rerouting, Activating
  <2>2. QED
    BY <2>1 DEF UseInv, IsGivenOne
<1>2. QED
  BY <1>1, ClassesAreUsedOnce, PTL

-----------------------------------------------------------------------------
(* The steps that read or write the registry.                              *)
RegistryStep(a) ==
  \/ LookUp(a) \/ RegisterComServer(a) \/ RegisterAssets(a)
  \/ a \in Threads /\ \/ LookUpAll(a) \/ UnRegisterComServer(a)
                      \/ UnRegisterNotificationAppIdentifier(a)

(* The other steps: they bring nobody to where the registry is about to be *)
(* changed, and take who writes it away only by a failure.                 *)
Guarded == {"register server", "assets", "delete server", "delete key"}
Quiet == /\ UNCHANGED <<registry, overlapped>>
         /\ \A a \in Actors :
              /\ pc'[a] \in Guarded => pc[a] = pc'[a] /\ guid'[a] = guid[a]
              /\ pc'[a] \in Past => pc[a] \in Past /\ guid'[a] = guid[a]
              /\ pc'[a] \in {"create event", "register class"} =>
                   pc[a] \in {"create event", "register class"}
              /\ pc[a] = "assets" /\ faults' = 0 =>
                   pc'[a] = "assets" /\ guid'[a] = guid[a]
         /\ faults' = 0 => faults = 0

(* An actor that leaves the registry alone is quiet if it goes elsewhere.  *)
LEMMA SomeAreQuiet ==
  ASSUME TypeInv, NEW a \in Actors, NEW x, pc' = [pc EXCEPT ![a] = x],
         guid' = guid \/ \E g : guid' = [guid EXCEPT ![a] = g],
         UNCHANGED <<registry, overlapped>>,
         \/ x \notin Guarded \union Past
         \/ /\ x \in {"register class", "registered"} /\ guid' = guid
            /\ pc[a] \in {"create event", "register class"},
         \/ pc[a] # "assets" /\ faults' = faults
         \/ faults' = faults + 1
  PROVE  Quiet
<1>1. /\ pc \in [Actors -> Positions] /\ guid \in [Actors -> Nat]
      /\ faults \in Nat
  BY DEF TypeInv, TypeOK, Shapes
<1>2. /\ pc'[a] = x
      /\ \A b \in Actors \ {a} : pc'[b] = pc[b] /\ guid'[b] = guid[b]
  BY <1>1
<1>3. faults' = 0 => faults = 0 /\ pc[a] # "assets"
  <2>1. CASE faults' = faults + 1
    <3>1. faults' # 0
      BY ONLY <1>1, <2>1
    <3>2. QED
      BY <3>1
  <2>2. CASE pc[a] # "assets" /\ faults' = faults
    BY <2>2
  <2>3. QED
    BY <2>1, <2>2
<1>4. /\ x \in Past => pc[a] \in Past /\ guid' = guid
      /\ x \notin Guarded
      /\ x \in {"create event", "register class"} =>
           pc[a] \in {"create event", "register class"}
  BY DEF Past, Guarded
<1>5. \A b \in Actors :
        /\ pc'[b] \in Guarded => pc[b] = pc'[b] /\ guid'[b] = guid[b]
        /\ pc'[b] \in Past => pc[b] \in Past /\ guid'[b] = guid[b]
        /\ pc'[b] \in {"create event", "register class"} =>
             pc[b] \in {"create event", "register class"}
  BY <1>2, <1>4
<1>6. \A b \in Actors : pc[b] = "assets" /\ faults' = 0 =>
                          pc'[b] = "assets" /\ guid'[b] = guid[b]
  BY <1>2, <1>3
<1>7. QED
  BY <1>3, <1>5, <1>6 DEF Quiet

(* Every step that is no registry step is quiet.                           *)
LEMMA OthersAreQuiet ==
  ASSUME TypeInv, Next
  PROVE  Quiet \/ \E a \in Actors : RegistryStep(a)
<1>1. /\ pc \in [Actors -> Positions] /\ guid \in [Actors -> Nat]
      /\ faults \in Nat /\ Threads \subseteq Actors
      /\ Processes \subseteq Actors
  BY DEF TypeInv, TypeOK, Shapes, Actors
<1> USE DEF Goes, Forgets, Fault, fields, history
<1>2. ASSUME UNCHANGED <<pc, guid, registry, overlapped, faults>> PROVE Quiet
  BY <1>2 DEF Quiet
<1>3. ASSUME NEW t \in Threads, ApiStep(t)
      PROVE  Quiet \/ RegistryStep(t)
  <2>1. t \in Actors
    BY <1>1
  <2>2. CASE (\E op \in Operations : Begin(t, op)) \/ BeginDeserialize(t)
    <3>1. /\ UNCHANGED <<guid, registry, overlapped, faults>>
          /\ pc[t] # "assets"
          /\ \E x \in Operations : pc' = [pc EXCEPT ![t] = x]
      BY <2>2 DEF Begin, BeginDeserialize, Operations
    <3>2. Operations \intersect (Guarded \union Past) = {}
      BY DEF Operations, Guarded, Past
    <3>3. QED
      BY <2>1, <3>1, <3>2, SomeAreQuiet
  <2>3. CASE Register(t) \/ UnregisterAll(t)
    <3>1. /\ UNCHANGED <<guid, registry, overlapped, faults>>
          /\ pc[t] # "assets"
          /\ \E x \in {"idle", "look up", "look up all"} :
               pc' = [pc EXCEPT ![t] = x]
      BY <2>3 DEF Register, UnregisterAll
    <3>2. {"idle", "look up", "look up all"}
            \intersect (Guarded \union Past) = {}
      BY DEF Guarded, Past
    <3>3. QED
      BY <2>1, <3>1, <3>2, SomeAreQuiet
  <2>4. CASE CreateEvent(t)
    <3>1. /\ UNCHANGED <<guid, registry, overlapped, faults>>
          /\ pc[t] = "create event"
          /\ pc' = [pc EXCEPT ![t] = "register class"]
      BY <2>4 DEF CreateEvent
    <3>2. "register class" \in Past
      BY DEF Past
    <3>3. QED
      BY <2>1, <3>1, <3>2, SomeAreQuiet
  <2>5. CASE RegisterClass(t)
    <3>1. /\ UNCHANGED <<guid, registry, overlapped, faults>>
          /\ pc[t] = "register class"
          /\ \E x \in {"registered", "failed"} : pc' = [pc EXCEPT ![t] = x]
      BY <2>5 DEF RegisterClass
    <3>2. "registered" \in Past /\ "failed" \notin Guarded \union Past
      BY DEF Past, Guarded
    <3>3. QED
      BY <2>1, <3>1, <3>2, SomeAreQuiet
  <2>6. CASE Leave(t) \/ WaitReturns(t) \/ WaitTimesOut(t)
    <3>1. /\ UNCHANGED <<registry, overlapped, faults>> /\ pc[t] # "assets"
          /\ guid' = [guid EXCEPT ![t] = 0] /\ pc' = [pc EXCEPT ![t] = "idle"]
      BY <2>6 DEF Leave, WaitReturns, WaitTimesOut
    <3>2. "idle" \notin Guarded \union Past
      BY DEF Guarded, Past
    <3>3. QED
      BY <2>1, <3>1, <3>2, SomeAreQuiet
  <2>7. CASE StepFails(t)
    <3>1. /\ UNCHANGED <<guid, registry, overlapped>> /\ faults' = faults + 1
          /\ pc' = [pc EXCEPT ![t] = "failed"]
      BY <2>7 DEF StepFails
    <3>2. "failed" \notin Guarded \union Past
      BY DEF Guarded, Past
    <3>3. QED
      BY <2>1, <3>1, <3>2, SomeAreQuiet
  <2>8. CASE Unregister(t) \/ AddHandler(t) \/ RemoveHandler(t)
             \/ Deserialize(t)
    <3>1. /\ UNCHANGED <<registry, overlapped, faults>> /\ pc[t] # "assets"
          /\ guid' = guid \/ \E g : guid' = [guid EXCEPT ![t] = g]
          /\ \E x \in {"idle", "wait"} : pc' = [pc EXCEPT ![t] = x]
      BY <2>8 DEF Unregister, AddHandler, RemoveHandler, Deserialize
    <3>2. {"idle", "wait"} \intersect (Guarded \union Past) = {}
      BY DEF Guarded, Past
    <3>3. QED
      BY <2>1, <3>1, <3>2, SomeAreQuiet
  <2>9. QED
    BY <1>3, <2>2, <2>3, <2>4, <2>5, <2>6, <2>7, <2>8
       DEF ApiStep, ThreadStep, RegistryStep
<1>4. ASSUME NEW p \in Processes, HolderStep(p)
      PROVE  Quiet \/ RegistryStep(p)
  <2>1. p \in Actors
    BY <1>1
  <2>2. {"idle", "look up", "handler", "calls back", "remote"}
          \intersect (Guarded \union Past) = {}
    BY DEF Guarded, Past
  <2>3. ASSUME NEW n \in Notes, \/ StoreArgs(p, n) \/ Reroute(p, n)
                               \/ InvokeHandlers(p, n) \/ Drop(p, n)
        PROVE  Quiet
    <3>1. CASE StoreArgs(p, n) \/ Drop(p, n)
      BY <1>2, <3>1 DEF StoreArgs, Drop
    <3>2. CASE Reroute(p, n) \/ InvokeHandlers(p, n)
      <4>1. /\ UNCHANGED <<guid, registry, overlapped, faults>>
            /\ pc[p] # "assets"
            /\ \E x \in {"look up", "handler"} : pc' = [pc EXCEPT ![p] = x]
        BY <3>2 DEF Reroute, InvokeHandlers, Holds
      <4>2. QED
        BY <2>1, <2>2, <4>1, SomeAreQuiet
    <3>3. QED
      BY <2>3, <3>1, <3>2
  <2>4. CASE PassOn(p) \/ PassOnFails(p)
    <3>1. /\ UNCHANGED <<registry, overlapped, faults>> /\ pc[p] # "assets"
          /\ guid' = [guid EXCEPT ![p] = 0]
          /\ \E x \in {"remote", "idle"} : pc' = [pc EXCEPT ![p] = x]
      BY <2>4 DEF PassOn, PassOnFails
    <3>2. QED
      BY <2>1, <2>2, <3>1, SomeAreQuiet
  <2>5. CASE RemoteReturns(p) \/ HandlerReturns(p) \/ HandlerCallsBack(p)
    <3>1. /\ UNCHANGED <<guid, registry, overlapped, faults>>
          /\ pc[p] # "assets"
          /\ \E x \in {"idle", "calls back"} : pc' = [pc EXCEPT ![p] = x]
      BY <2>5 DEF RemoteReturns, HandlerReturns, HandlerCallsBack
    <3>2. QED
      BY <2>1, <2>2, <3>1, SomeAreQuiet
  <2>6. CASE ActivateFails(p)
    <3>1. /\ UNCHANGED <<registry, overlapped>> /\ faults' = faults + 1
          /\ guid' = [guid EXCEPT ![p] = 0] /\ pc' = [pc EXCEPT ![p] = "idle"]
      BY <2>6 DEF ActivateFails
    <3>2. QED
      BY <2>1, <2>2, <3>1, SomeAreQuiet
  <2>7. QED
    BY <1>4, <2>3, <2>4, <2>5, <2>6 DEF HolderStep, ActivateStep, RegistryStep
<1>5. ASSUME NEW p \in Processes, ProcessEnds(p) PROVE Quiet
  <2>1. ActorsEnd(p) /\ HistoryEnds(p)
    BY <1>5, ProcessesEnd
  <2>2. \A a \in Actors : \/ pc'[a] = pc[a] /\ guid'[a] = guid[a]
                          \/ pc'[a] = "idle"
    BY <2>1 DEF ActorsEnd
  <2>3. "idle" \notin Guarded \union Past
    BY DEF Guarded, Past
  <2>4. UNCHANGED <<registry, overlapped>> /\ faults' # 0
    BY <1>1, <2>1 DEF HistoryEnds
  <2>5. QED
    BY <2>2, <2>3, <2>4 DEF Quiet
<1>6. CASE ComOrStart
  BY <1>2, <1>6 DEF ComOrStart, ComStep, ServerIsReady, ServerTimesOut, Start,
     Click
<1>7. QED
  BY <1>1, <1>3, <1>4, <1>5, <1>6, StepsAreOf

(* Nobody else is about to change the registry.                            *)
Alone(a) == \A b \in Actors \ {a} : ~Changing(b) /\ ~Changing(b)'

(* A registry step moves one actor, and one that looks up the CLSID notes  *)
(* whether somebody else is about to change it.                            *)
LEMMA RegistryMoves ==
  ASSUME TypeInv, NEW a \in Actors, RegistryStep(a)
  PROVE  /\ \A b \in Actors \ {a} : pc'[b] = pc[b] /\ guid'[b] = guid[b]
         /\ UNCHANGED <<fields, com, believes, loose, faults>>
         /\ overlapped => overlapped'
         /\ \/ Changing(a)
            \/ \A b \in Actors \ {a} : Changing(b) => overlapped'
<1>1. pc \in [Actors -> Positions] /\ guid \in [Actors -> Nat]
  BY DEF TypeInv, TypeOK, Shapes
<1> USE DEF Goes, history, Changing
<1>2. CASE LookUp(a)
  BY <1>1, <1>2 DEF LookUp, Overlaps
<1>3. CASE RegisterComServer(a)
  BY <1>1, <1>3 DEF RegisterComServer
<1>4. CASE RegisterAssets(a)
  BY <1>1, <1>4 DEF RegisterAssets
<1>5. CASE LookUpAll(a)
  BY <1>1, <1>5 DEF LookUpAll, Overlaps
<1>6. CASE UnRegisterComServer(a)
  BY <1>1, <1>6 DEF UnRegisterComServer
<1>7. CASE UnRegisterNotificationAppIdentifier(a)
  BY <1>1, <1>7 DEF UnRegisterNotificationAppIdentifier
<1>8. QED
  BY <1>2, <1>3, <1>4, <1>5, <1>6, <1>7 DEF RegistryStep

(* As long as no look-up overlapped, who reads or writes is alone.         *)
LEMMA OneIsAlone ==
  ASSUME TypeInv, ChangeInv, NEW a \in Actors, RegistryStep(a), ~overlapped'
  PROVE  ~overlapped /\ Alone(a) /\ ReplacesNone
<1>1. /\ \A b \in Actors \ {a} : pc'[b] = pc[b]
      /\ overlapped => overlapped'
      /\ \/ Changing(a)
         \/ \A b \in Actors \ {a} : Changing(b) => overlapped'
  BY RegistryMoves
<1>2. ~overlapped /\ OneChanges /\ ReplacesNone
  BY <1>1 DEF ChangeInv
<1>3. \A b \in Actors \ {a} : ~Changing(b)
  BY <1>1, <1>2 DEF OneChanges
<1>4. QED
  BY <1>1, <1>2, <1>3 DEF Alone, Changing

(* Two facts of arithmetic, for CoCreateGuid: <= is transitive.            *)
LEMMA OrderIsTransitive ==
  ASSUME NEW i \in Nat, NEW j \in Nat, NEW k \in Nat, i <= j, j <= k
  PROVE  i <= k
BY ONLY i \in Nat, j \in Nat, k \in Nat, i <= j, j <= k

(* And a number that follows is a new one.                                 *)
LEMMA ItsSuccessorIsLarger ==
  ASSUME NEW i \in Nat, NEW j \in Nat, i <= j
  PROVE  /\ j + 1 \in Nat /\ j <= j + 1 /\ j <= j /\ i <= j + 1
         /\ j + 1 # i /\ j + 1 # 0
BY ONLY i \in Nat, j \in Nat, i <= j

(* Every step keeps that CLSIDs in use are not new, and that a new one is  *)
(* about to replace only one that has no server.                           *)
LEMMA ChangeInvariant ==
  TypeInv /\ ChangeInv /\ [Next]_vars => ChangeInv'
<1> SUFFICES ASSUME TypeInv, ChangeInv, [Next]_vars
             PROVE  /\ GuidsAreOld'
                    /\ ~overlapped' => OneChanges' /\ ReplacesNone'
  BY DEF ChangeInv
<1>1. /\ activator \in Nat /\ lastGuid \in Nat /\ servers \subseteq Nat
      /\ guid \in [Actors -> Nat] /\ pc \in [Actors -> Positions]
      /\ GuidsAreOld
  BY DEF TypeInv, TypeOK, Shapes, ChangeInv
<1> DEFINE HasOld(g) == g \in Nat /\ g # 0 /\ g <= lastGuid'
           Holding == {"register server", "assets", "create event",
                       "register class"}
<1>2. ASSUME lastGuid' \in Nat, lastGuid <= lastGuid',
             activator' <= lastGuid', 0 \notin servers',
             \A a \in Actors : pc'[a] \in Holding =>
               \/ pc[a] \in Holding /\ guid'[a] = guid[a]
               \/ HasOld(guid'[a])
      PROVE  GuidsAreOld'
  <2>1. ASSUME NEW a \in Actors, pc'[a] \in Holding
        PROVE  guid'[a] # 0 /\ guid'[a] <= lastGuid'
    <3>1. CASE pc[a] \in Holding /\ guid'[a] = guid[a]
      <4>1. guid[a] \in Nat /\ guid[a] # 0 /\ guid[a] <= lastGuid
        BY <1>1, <3>1 DEF GuidsAreOld
      <4>2. guid[a] <= lastGuid'
        BY <1>1, <1>2, <4>1, OrderIsTransitive
      <4>3. QED
        BY <3>1, <4>1, <4>2
    <3>2. QED
      BY <1>2, <2>1, <3>1
  <2>2. QED
    BY <1>2, <2>1 DEF GuidsAreOld
<1>3. ASSUME NEW a \in Actors, RegistryStep(a)
      PROVE  GuidsAreOld' /\ (~overlapped' => OneChanges' /\ ReplacesNone')
  <2>1. \A b \in Actors \ {a} : pc'[b] = pc[b] /\ guid'[b] = guid[b]
    BY <1>3, RegistryMoves
  <2>2. ASSUME ~overlapped' PROVE ~overlapped /\ Alone(a) /\ ReplacesNone
    BY <1>3, <2>2, OneIsAlone
  <2>3. ~overlapped' => OneChanges'
    BY <2>2 DEF OneChanges, Alone
  <2> DEFINE Mine ==
        /\ pc'[a] = "register server" => ~IsIntact' /\ guid'[a] # activator'
        /\ pc'[a] = "assets" => /\ guid'[a] \in servers'
                                /\ guid'[a] = activator' \/ ~IsIntact'
        /\ pc'[a] = "delete server" => guid'[a] = activator' /\ IsIntact'
  <2>4. ASSUME ~overlapped' => Mine PROVE ~overlapped' => ReplacesNone'
    <3>1. ASSUME ~overlapped', NEW b \in Actors, b # a
          PROVE  pc'[b] \notin {"register server", "assets", "delete server"}
      BY <2>2, <3>1 DEF Alone, Changing
    <3>2. QED
      BY <2>4, <3>1 DEF ReplacesNone
  <2> USE DEF Goes
  <2>5. CASE LookUp(a)
    <3>1. /\ UNCHANGED <<activator, servers>>
          /\ \/ /\ IsIntact /\ pc'[a] = "assets" /\ guid'[a] = activator
                /\ lastGuid' = lastGuid
             \/ /\ ~IsIntact /\ pc'[a] = "register server"
                /\ guid'[a] = lastGuid + 1 /\ lastGuid' = lastGuid + 1
      BY <1>1, <2>5 DEF LookUp
    <3>2. /\ lastGuid' \in Nat /\ lastGuid <= lastGuid'
          /\ activator' <= lastGuid'
          /\ lastGuid + 1 # activator /\ lastGuid + 1 # 0
      BY <1>1, <3>1, ItsSuccessorIsLarger DEF GuidsAreOld
    <3>3. HasOld(guid'[a])
      <4>1. CASE IsIntact /\ guid'[a] = activator
        <5>1. guid'[a] \in Nat /\ guid'[a] # 0
          BY <1>1, <4>1 DEF IsIntact
        <5>2. guid'[a] <= lastGuid'
          BY <3>1, <3>2, <4>1
        <5>3. QED
          BY <5>1, <5>2
      <4>2. CASE guid'[a] = lastGuid + 1 /\ lastGuid' = lastGuid + 1
        BY <1>1, <4>2
      <4>3. QED
        BY <3>1, <4>1, <4>2
    <3>4. GuidsAreOld'
      BY <1>1, <1>2, <2>1, <3>1, <3>2, <3>3 DEF GuidsAreOld
    <3>5. Mine
      BY <3>1, <3>2 DEF IsIntact
    <3>6. QED
      BY <2>3, <2>4, <3>4, <3>5
  <2>6. CASE RegisterComServer(a)
    <3>1. /\ UNCHANGED <<activator, lastGuid, guid, overlapped>>
          /\ pc[a] = "register server" /\ pc'[a] = "assets"
          /\ servers' = servers \union {guid[a]}
      BY <1>1, <2>6 DEF RegisterComServer, history
    <3>2. guid[a] # 0
      BY <1>1, <3>1 DEF GuidsAreOld
    <3>3. GuidsAreOld'
      BY <1>1, <1>2, <2>1, <3>1, <3>2 DEF GuidsAreOld
    <3>4. ~overlapped' => Mine
      BY <2>2, <3>1 DEF ReplacesNone, IsIntact
    <3>5. QED
      BY <2>3, <2>4, <3>3, <3>4
  <2>7. CASE RegisterAssets(a)
    <3>1. /\ UNCHANGED <<servers, lastGuid, guid, overlapped>>
          /\ pc[a] = "assets" /\ pc'[a] \in {"create event", "create instance"}
          /\ activator' = guid[a]
      BY <1>1, <2>7 DEF RegisterAssets, history
    <3>2. guid[a] <= lastGuid
      BY <1>1, <3>1 DEF GuidsAreOld
    <3>3. GuidsAreOld'
      <4>1. lastGuid' \in Nat /\ lastGuid <= lastGuid'
            /\ activator' <= lastGuid'
        BY <1>1, <3>1, <3>2, ItsSuccessorIsLarger DEF GuidsAreOld
      <4>2. 0 \notin servers'
        BY <1>1, <3>1 DEF GuidsAreOld
      <4>3. \A b \in Actors : pc'[b] \in Holding =>
                               pc[b] \in Holding /\ guid'[b] = guid[b]
        BY <2>1, <3>1
      <4>4. QED
        BY <1>2, <4>1, <4>2, <4>3
    <3>4. QED
      BY <2>3, <2>4, <3>1, <3>3
  <2>8. CASE LookUpAll(a)
    <3>1. /\ UNCHANGED <<servers, lastGuid, activator>>
          /\ \/ IsIntact /\ pc'[a] = "delete server" /\ guid'[a] = activator
             \/ pc'[a] = "failed"
      BY <1>1, <2>8 DEF LookUpAll, registry
    <3>2. GuidsAreOld'
      BY <1>1, <1>2, <2>1, <3>1 DEF GuidsAreOld
    <3>3. Mine
      BY <3>1 DEF IsIntact
    <3>4. QED
      BY <2>3, <2>4, <3>2, <3>3
  <2>9. CASE UnRegisterComServer(a) \/ UnRegisterNotificationAppIdentifier(a)
    <3>1. /\ UNCHANGED lastGuid /\ servers' \subseteq servers
          /\ activator' \in {activator, 0}
          /\ pc'[a] \in {"delete key", "failed", "removed"}
      BY <1>1, <2>9 DEF UnRegisterComServer,
         UnRegisterNotificationAppIdentifier
    <3>2. 0 <= lastGuid
      <4>1. lastGuid \in Nat
        BY <1>1
      <4>2. QED
        BY ONLY <4>1
    <3>3. activator' <= lastGuid'
      <4>1. activator <= lastGuid
        BY <1>1 DEF GuidsAreOld
      <4>2. CASE activator' = activator
        BY <3>1, <4>1, <4>2
      <4>3. CASE activator' = 0
        BY <3>2, <3>1, <4>3
      <4>4. QED
        BY <3>1, <4>2, <4>3
    <3>4. GuidsAreOld'
      BY <1>1, <1>2, <2>1, <3>1, <3>3 DEF GuidsAreOld
    <3>5. QED
      BY <2>3, <2>4, <3>1, <3>4
  <2>10. QED
    BY <1>3, <2>5, <2>6, <2>7, <2>8, <2>9 DEF RegistryStep
<1>4. CASE Quiet
  <2>1. /\ UNCHANGED <<activator, servers, lastGuid, overlapped>>
        /\ \A a \in Actors :
             /\ pc'[a] \in Guarded => pc[a] = pc'[a] /\ guid'[a] = guid[a]
             /\ pc'[a] \in Past => pc[a] \in Past /\ guid'[a] = guid[a]
             /\ pc'[a] \in {"create event", "register class"} =>
                  pc[a] \in {"create event", "register class"}
    BY <1>4 DEF Quiet, registry
  <2>2. \A a \in Actors :
          pc'[a] \in Holding => pc[a] \in Holding /\ guid'[a] = guid[a]
    BY <2>1 DEF Guarded, Past
  <2>3. GuidsAreOld'
    BY <1>1, <1>2, <2>1, <2>2 DEF GuidsAreOld
  <2>4. \A a \in Actors : Changing(a)' => Changing(a)
    BY <2>1 DEF Changing, Guarded
  <2>5. ~overlapped' => OneChanges'
    BY <2>1, <2>4 DEF ChangeInv, OneChanges
  <2>6. ~overlapped' => ReplacesNone'
    <3>1. ~overlapped' => ReplacesNone
      BY <2>1 DEF ChangeInv
    <3>2. IsIntact' <=> IsIntact
      BY <2>1 DEF IsIntact
    <3>3. ASSUME NEW a \in Actors, pc'[a] \in {"register server", "assets",
                                             "delete server"}
          PROVE  pc[a] = pc'[a] /\ guid'[a] = guid[a]
      BY <2>1, <3>3 DEF Guarded
    <3>4. ASSUME ~overlapped', NEW a \in Actors
          PROVE  /\ pc'[a] = "register server" =>
                      ~IsIntact' /\ guid'[a] # activator'
                 /\ pc'[a] = "assets" => /\ guid'[a] \in servers'
                                         /\ guid'[a] = activator' \/ ~IsIntact'
                 /\ pc'[a] = "delete server" =>
                      guid'[a] = activator' /\ IsIntact'
      <4>1. CASE pc'[a] \in {"register server", "assets", "delete server"}
        <5>1. UNCHANGED <<activator, servers>> /\ (IsIntact' <=> IsIntact)
          BY <2>1, <3>2
        <5>2. pc[a] = pc'[a] /\ guid'[a] = guid[a]
          BY <3>3, <4>1
        <5>3. QED
          BY <3>1, <3>4, <5>1, <5>2 DEF ReplacesNone
      <4>2. QED
        BY <4>1
    <3>5. QED
      BY <3>4 DEF ReplacesNone
  <2>7. QED
    BY <2>3, <2>5, <2>6
<1>5. CASE UNCHANGED vars
  <2>1. UNCHANGED <<activator, servers, lastGuid, overlapped, pc, guid>>
    BY <1>5 DEF vars, registry, history
  <2>2. QED
    BY <2>1 DEF ChangeInv, GuidsAreOld, OneChanges, ReplacesNone, Changing,
       IsIntact
<1>6. QED
  BY <1>3, <1>4, <1>5, OthersAreQuiet

(* Every step keeps what the servers are while the registry changes: a     *)
(* call that removes or replaces a CLSID removes its server first, or      *)
(* found it had none.                                                      *)
LEMMA ServersInvariant ==
  TypeInv /\ ChangeInv /\ ServersInv /\ [Next]_vars => ServersInv'
<1> SUFFICES ASSUME TypeInv, ChangeInv, ServersInv, [Next]_vars,
                    faults' = 0, ~overlapped'
             PROVE  NoServerIsLeft' /\ ServersAreKnown'
  BY DEF ServersInv
<1>1. /\ guid \in [Actors -> Nat] /\ pc \in [Actors -> Positions]
      /\ 0 \notin servers
  BY DEF TypeInv, TypeOK, Shapes, ChangeInv, GuidsAreOld
<1>2. ASSUME NEW a \in Actors, RegistryStep(a)
      PROVE  NoServerIsLeft' /\ ServersAreKnown'
  <2>1. /\ \A b \in Actors \ {a} : pc'[b] = pc[b] /\ guid'[b] = guid[b]
        /\ faults' = faults
    BY <1>2, RegistryMoves
  <2>2. ~overlapped /\ Alone(a) /\ ReplacesNone
    BY <1>2, OneIsAlone
  <2>3. /\ NoServerIsLeft /\ ServersAreKnown /\ faults = 0
    BY <2>1, <2>2 DEF ServersInv
  <2>4. \A b \in Actors \ {a} :
          /\ pc[b] \notin {"register server", "assets", "delete key"}
          /\ pc'[b] \notin {"register server", "assets", "delete key"}
    BY <2>2 DEF Alone, Changing
  <2>5. pc[a] # "assets" => servers \subseteq {activator}
    BY <2>2, <2>3, <2>4 DEF NoServerIsLeft
  <2>6. ASSUME \/ servers' \subseteq {activator'}
               \/ pc'[a] = "assets" /\ servers' \subseteq {guid'[a]},
               pc'[a] \in {"register server", "delete key"} => servers' = {},
               pc'[a] = "assets" => servers' \subseteq {guid'[a]}
        PROVE  NoServerIsLeft' /\ ServersAreKnown'
    <3>1. NoServerIsLeft'
      BY <2>6 DEF NoServerIsLeft
    <3>2. ServersAreKnown'
      BY <2>4, <2>6 DEF ServersAreKnown
    <3>3. QED
      BY <3>1, <3>2
  <2> USE DEF Goes
  <2>7. CASE LookUp(a)
    <3>1. /\ UNCHANGED <<activator, servers>> /\ pc[a] = "look up"
          /\ \/ IsIntact /\ pc'[a] = "assets" /\ guid'[a] = activator
             \/ ~IsIntact /\ pc'[a] = "register server"
      BY <1>1, <2>7 DEF LookUp
    <3>2. ~IsIntact => servers = {}
      BY <1>1, <2>5, <3>1 DEF IsIntact
    <3>3. QED
      BY <2>5, <2>6, <3>1, <3>2
  <2>8. CASE RegisterComServer(a)
    <3>1. /\ UNCHANGED guid /\ pc[a] = "register server" /\ pc'[a] = "assets"
          /\ servers' = servers \union {guid[a]}
      BY <1>1, <2>8 DEF RegisterComServer
    <3>2. servers = {}
      BY <2>3, <3>1 DEF ServersAreKnown
    <3>3. QED
      BY <2>6, <3>1, <3>2
  <2>9. CASE RegisterAssets(a)
    <3>1. /\ UNCHANGED <<servers, guid>> /\ activator' = guid[a]
          /\ pc[a] = "assets" /\ pc'[a] \in {"create event", "create instance"}
      BY <1>1, <2>9 DEF RegisterAssets
    <3>2. servers \subseteq {guid[a]}
      BY <2>3, <3>1 DEF ServersAreKnown
    <3>3. QED
      BY <2>6, <3>1, <3>2
  <2>10. CASE LookUpAll(a)
    <3>1. /\ UNCHANGED <<activator, servers>> /\ pc[a] = "look up all"
          /\ pc'[a] \in {"delete server", "failed"}
      BY <1>1, <2>10 DEF LookUpAll, registry
    <3>2. servers' \subseteq {activator'}
      BY <2>5, <3>1
    <3>3. QED
      BY <2>6, <3>1, <3>2
  <2>11. CASE UnRegisterComServer(a)
    <3>1. /\ servers' = servers \ {guid[a]} /\ pc[a] = "delete server"
          /\ pc'[a] \in {"delete key", "failed"}
      BY <1>1, <2>11 DEF UnRegisterComServer
    <3>2. servers' = {}
      BY <2>2, <2>5, <3>1 DEF ReplacesNone
    <3>3. QED
      BY <2>6, <3>1, <3>2
  <2>12. CASE UnRegisterNotificationAppIdentifier(a)
    <3>1. /\ UNCHANGED servers /\ pc[a] = "delete key"
          /\ pc'[a] \in {"removed", "failed"}
      BY <1>1, <2>12 DEF UnRegisterNotificationAppIdentifier
    <3>2. servers' = {}
      BY <2>3, <3>1 DEF ServersAreKnown
    <3>3. QED
      BY <2>6, <3>1, <3>2
  <2>13. QED
    BY <1>2, <2>7, <2>8, <2>9, <2>10, <2>11, <2>12 DEF RegistryStep
<1>3. CASE Quiet
  <2>1. /\ UNCHANGED <<activator, servers, overlapped>> /\ faults = 0
        /\ \A a \in Actors :
             /\ pc'[a] \in Guarded => pc[a] = pc'[a] /\ guid'[a] = guid[a]
             /\ pc[a] = "assets" => pc'[a] = "assets" /\ guid'[a] = guid[a]
    BY <1>3 DEF Quiet, registry
  <2>2. NoServerIsLeft /\ ServersAreKnown
    BY <2>1 DEF ServersInv
  <2>3. NoServerIsLeft'
    BY <2>1, <2>2 DEF NoServerIsLeft
  <2>4. ServersAreKnown'
    BY <2>1, <2>2 DEF ServersAreKnown, Guarded
  <2>5. QED
    BY <2>3, <2>4
<1>4. CASE UNCHANGED vars
  <2>1. UNCHANGED <<activator, servers, faults, pc, guid>>
    BY <1>4 DEF vars, registry
  <2>2. overlapped' = overlapped
    BY <1>4 DEF vars, history
  <2>3. QED
    BY <2>1, <2>2 DEF ServersInv, NoServerIsLeft, ServersAreKnown
<1>5. QED
  BY <1>2, <1>3, <1>4, OthersAreQuiet

(* m_registering lets one thread of a process into a call.                 *)
LEMMA OneThreadCalls ==
  ASSUME CallInv, NEW t \in Threads, NEW u \in Threads,
         ProcessOf[t] = ProcessOf[u], pc[t] \in InACall, pc[u] \in InACall
  PROVE  t = u /\ registering[ProcessOf[t]]
<1>1. ProcessOf[t] \in Processes /\ t \in InCall(ProcessOf[t])
      /\ u \in InCall(ProcessOf[t])
  BY ProcessAssumption DEF InCall
<1>2. QED
  BY <1>1 DEF CallInv, OneCall

(* What a thread does to its class object and to whether the process       *)
(* believes it is registered: nothing but to report success, take it away, *)
(* or register it.                                                         *)
ClassStays(t) ==
  LET p == ProcessOf[t] IN
  /\ class'[p] = class[p]
  /\ p \in believes' => p \in believes \/ pc[t] = "registered"
ClassGoes(t) ==
  LET p == ProcessOf[t] IN
  p \notin believes' /\ (registering[p] => p \in spoiled')
ClassComes(t) ==
  LET p == ProcessOf[t] IN
  /\ pc'[t] = "registered" /\ Registers(t)
  /\ p \in believes' => p \in believes

(* It does one of these, and registers in RegisterClass only.              *)
LEMMA ClassesGo ==
  ASSUME TypeInv, NEW t \in Threads, ApiStep(t)
  PROVE  LET p == ProcessOf[t] IN
         /\ ClassStays(t) \/ ClassGoes(t) \/ ClassComes(t)
         /\ pc'[t] = "registered" => ClassComes(t)
         /\ pc'[t] \in Unregistering => \/ pc[t] \in Unregistering
                                        \/ p \notin believes'
         /\ pc[t] = "idle" /\ pc'[t] # "idle" => launch[p] # "off"
<1>1. /\ pc \in [Actors -> Positions] /\ t \in Actors
      /\ class \in [Processes -> Classes]
      /\ registering \in [Processes -> BOOLEAN]
      /\ ProcessOf[t] \in Processes
  BY ProcessAssumption DEF TypeInv, TypeOK, Shapes, Actors, Classes
<1> DEFINE p == ProcessOf[t]
           Goal == /\ ClassStays(t) \/ ClassGoes(t) \/ ClassComes(t)
                   /\ pc'[t] = "registered" => ClassComes(t)
                   /\ pc'[t] \in Unregistering => \/ pc[t] \in Unregistering
                                                  \/ p \notin believes'
                   /\ pc[t] = "idle" /\ pc'[t] # "idle" => launch[p] # "off"
<1> SUFFICES Goal
  OBVIOUS
<1>2. ASSUME UNCHANGED <<class, believes>>, pc'[t] # "registered",
             pc'[t] \in Unregistering => pc[t] \in Unregistering,
             pc[t] # "idle" \/ launch[p] # "off"
      PROVE  Goal
  BY <1>2 DEF ClassStays
<1> USE DEF Goes, Forgets, fields, history
<1>3. CASE RegisterClass(t)
  <2>1. /\ pc[t] = "register class" /\ UNCHANGED <<event, handlers, believes>>
        /\ \/ HasClass(p) /\ pc'[t] = "failed" /\ class' = class
           \/ /\ ~HasClass(p) /\ pc'[t] = "registered"
              /\ class'[p] = [clsid |-> guid[t], used |-> FALSE,
                              multiple |-> handlers[p]]
        /\ event[p] > 1 /\ ~handlers[p] => p \in loose'
    BY <1>1, <1>3 DEF RegisterClass, ForMultipleUse
  <2>2. "failed" \notin Unregistering /\ "registered" \notin Unregistering
    BY DEF Unregistering
  <2>3. CASE HasClass(p)
    BY <1>2, <2>1, <2>2, <2>3
  <2>4. CASE ~HasClass(p)
    <3>1. ClassComes(t)
      BY <2>1, <2>4 DEF ClassComes, Registers
    <3>2. QED
      BY <2>1, <2>2, <2>4, <3>1
  <2>5. QED
    BY <2>3, <2>4
<1>4. CASE Leave(t)
  <2>1. /\ pc'[t] = "idle" /\ pc[t] # "idle" /\ class' = class
        /\ p \in believes' => p \in believes \/ pc[t] = "registered"
    BY <1>1, <1>4 DEF Leave
  <2>2. QED
    BY <2>1 DEF ClassStays, Unregistering
<1>5. CASE Unregister(t) \/ UnregisterAll(t)
  <2>1. /\ pc[t] # "idle" /\ pc'[t] \in {"idle", "look up all"}
    BY <1>1, <1>5 DEF Unregister, UnregisterAll
  <2>2. \/ class' = class /\ believes' = believes /\ pc'[t] = "idle"
        \/ ClassGoes(t)
    BY <1>1, <1>5 DEF Unregister, UnregisterAll, ClassGoes
  <2>3. QED
    BY <2>1, <2>2 DEF ClassStays, ClassGoes, Unregistering
<1>6. CASE (\E op \in Operations : Begin(t, op)) \/ BeginDeserialize(t)
  <2>1. /\ UNCHANGED <<class, believes>> /\ pc'[t] \in Operations
        /\ launch[p] # "off"
    BY <1>1, <1>6 DEF Begin, BeginDeserialize, Operations
  <2>2. QED
    BY <1>2, <2>1 DEF Operations, Unregistering
<1>7. CASE LookUpAll(t) \/ UnRegisterComServer(t)
           \/ UnRegisterNotificationAppIdentifier(t)
  <2>1. /\ UNCHANGED <<class, believes>> /\ pc'[t] # "registered"
        /\ pc[t] \in Unregistering
    BY <1>1, <1>7 DEF LookUpAll, UnRegisterComServer,
       UnRegisterNotificationAppIdentifier, Unregistering
  <2>2. QED
    BY <1>2, <2>1 DEF Unregistering
<1>8. CASE Register(t) \/ LookUp(t) \/ RegisterComServer(t)
           \/ RegisterAssets(t)
           \/ CreateEvent(t) \/ StepFails(t)
  <2>1. /\ UNCHANGED <<class, believes>> /\ pc[t] # "idle"
        /\ pc'[t] \in {"idle", "look up", "register server", "assets",
                       "create event", "create instance", "register class",
                       "failed"}
    BY <1>1, <1>8 DEF Register, LookUp, RegisterComServer, RegisterAssets,
       CreateEvent, StepFails, Registering, Unregistering
  <2>2. QED
    BY <1>2, <2>1 DEF Unregistering
<1>9. CASE AddHandler(t) \/ RemoveHandler(t) \/ Deserialize(t)
           \/ WaitReturns(t) \/ WaitTimesOut(t)
  <2>1. /\ UNCHANGED <<class, believes>> /\ pc[t] # "idle"
        /\ pc'[t] \in {"idle", "wait"}
    BY <1>1, <1>9 DEF AddHandler, RemoveHandler, Deserialize, WaitReturns,
       WaitTimesOut
  <2>2. QED
    BY <1>2, <2>1 DEF Unregistering
<1> HIDE DEF Goal
<1>10. QED
  BY <1>3, <1>4, <1>5, <1>6, <1>7, <1>8, <1>9 DEF ApiStep, ThreadStep

(* Activate runs in a process that was started.                            *)
LEMMA HoldersRun ==
  ASSUME TypeInv, RunsHere, NEW p \in Processes, HolderStep(p)
  PROVE  /\ \A q \in Processes \ {p} : pc'[q] = pc[q] /\ first'[q] = first[q]
         /\ pc'[p] # "idle" \/ first'[p] => launch[p] # "off"
<1>1. /\ pc \in [Actors -> Positions] /\ p \in Actors /\ Own(p) = p
      /\ first \in [Processes -> BOOLEAN] /\ Processes \subseteq Actors
  BY ProcessAssumption DEF TypeInv, TypeOK, Shapes, Actors, Own
<1>2. pc[p] # "idle" \/ first[p] => launch[p] # "off"
  BY <1>1 DEF RunsHere
<1> USE DEF Goes, fields
<1>3. ASSUME NEW n \in Notes, \/ StoreArgs(p, n) \/ Reroute(p, n)
                             \/ InvokeHandlers(p, n) \/ Drop(p, n)
      PROVE  /\ \A q \in Processes \ {p} :
                  pc'[q] = pc[q] /\ first'[q] = first[q]
             /\ launch[p] # "off"
  BY <1>1, <1>2, <1>3 DEF StoreArgs, Reroute, InvokeHandlers, Drop, Holds
<1>4. CASE LookUp(p) \/ RegisterComServer(p) \/ RegisterAssets(p) \/ PassOn(p)
           \/ PassOnFails(p) \/ RemoteReturns(p) \/ HandlerReturns(p)
           \/ ActivateFails(p) \/ HandlerCallsBack(p)
  BY <1>1, <1>2, <1>4 DEF LookUp, RegisterComServer, RegisterAssets, PassOn,
     PassOnFails, RemoteReturns, HandlerReturns, ActivateFails,
     HandlerCallsBack
<1>5. QED
  BY <1>3, <1>4 DEF HolderStep, ActivateStep

(* Every step keeps that what is under way, registered or believed is in a *)
(* process that runs, and that a process in UnregisterAll does not believe *)
(* it is registered.                                                       *)
LEMMA RunsHereInvariant ==
  CallInv /\ GuidsAreOld /\ RunsHere /\ [Next]_vars => RunsHere'
<1> SUFFICES ASSUME CallInv, GuidsAreOld, RunsHere, [Next]_vars
             PROVE  RunsHere'
  OBVIOUS
<1>1. /\ pc \in [Actors -> Positions] /\ TypeInv
      /\ \A t \in Threads : /\ t \in Actors /\ t \notin Processes
                            /\ Own(t) = ProcessOf[t]
                            /\ ProcessOf[t] \in Processes
      /\ \A p \in Processes : p \in Actors /\ Own(p) = p
      /\ Actors = Threads \union Processes
  BY ProcessAssumption DEF CallInv, TypeInv, TypeOK, Shapes, Actors, Own
<1>2. /\ \A a \in Actors : pc[a] # "idle" => launch[Own(a)] # "off"
      /\ \A p \in Processes : first[p] \/ p \in believes => launch[p] # "off"
      /\ \A p \in Processes : HasClass(p) => class[p].clsid # 0
      /\ \A t \in Threads : pc[t] \in Unregistering =>
           ProcessOf[t] \notin believes
  BY DEF RunsHere
<1> DEFINE Goal == RunsHere'
<1> SUFFICES Goal
  OBVIOUS
<1>3. ASSUME NEW t \in Threads, ApiStep(t) PROVE Goal
  <2> DEFINE p == ProcessOf[t]
  <2>1. /\ \A b \in Actors \ {t} : pc'[b] = pc[b]
        /\ UNCHANGED <<launch, first>>
        /\ \A q \in Processes \ {p} : /\ class'[q] = class[q]
                                      /\ q \in believes' <=> q \in believes
    BY <1>1, <1>3, ThreadsMove DEF com
  <2>2. /\ ClassStays(t) \/ ClassGoes(t) \/ ClassComes(t)
        /\ pc'[t] \in Unregistering =>
             pc[t] \in Unregistering \/ p \notin believes'
        /\ pc[t] = "idle" /\ pc'[t] # "idle" => launch[p] # "off"
    BY <1>1, <1>3, ClassesGo
  <2>3. p \in believes' => p \in believes \/ pc[t] = "registered"
    BY <2>2 DEF ClassStays, ClassGoes, ClassComes
  <2>4. \A a \in Actors : pc'[a] # "idle" => launch'[Own(a)] # "off"
    BY <1>1, <1>2, <2>1, <2>2
  <2>5. \A q \in Processes : first'[q] \/ q \in believes' => launch'[q] # "off"
    BY <1>1, <1>2, <2>1, <2>3
  <2>6. class'[p] = class[p] \/ class'[p] = NoClass \/ Registers(t)
    BY <1>1, <1>3, ClassesAreRegistered
  <2>7. \A q \in Processes : HasClass(q)' => class'[q].clsid # 0
    <3>1. CASE class'[p] = class[p] \/ class'[p] = NoClass
      BY <1>2, <2>1, <3>1 DEF HasClass
    <3>2. CASE Registers(t)
      <4>1. guid[t] # 0 /\ class'[p].clsid = guid[t]
        <5>1. pc[t] = "register class"
          BY <3>2 DEF Registers
        <5>2. class'[p] = [clsid |-> guid[t], used |-> FALSE,
                           multiple |-> handlers[p]]
          BY <3>2 DEF Registers
        <5>3. class'[p].clsid = guid[t]
          BY <5>2
        <5>4. guid[t] # 0
          BY <1>1, <5>1 DEF GuidsAreOld
        <5>5. QED
          BY <5>3, <5>4
      <4>2. QED
        BY <1>2, <2>1, <4>1 DEF HasClass
    <3>3. QED
      BY <2>6, <3>1, <3>2
  <2>8. \A u \in Threads : pc'[u] \in Unregistering =>
          ProcessOf[u] \notin believes'
    <3>1. ASSUME NEW u \in Threads, u # t, pc[u] \in Unregistering,
                 ProcessOf[u] = p
          PROVE  p \notin believes'
      <4>1. pc[u] \in InACall /\ p \notin believes
        BY <1>2, <3>1 DEF InACall
      <4>2. pc[t] = "registered" => pc[t] \in InACall
        BY DEF InACall, Registering
      <4>3. QED
        BY <2>3, <3>1, <4>1, <4>2, OneThreadCalls
    <3>2. pc[t] \in Unregistering => p \notin believes'
      BY <1>2, <2>3 DEF Unregistering
    <3>3. QED
      BY <1>1, <1>2, <2>1, <2>2, <3>1, <3>2
  <2>9. QED
    BY <2>4, <2>5, <2>7, <2>8 DEF RunsHere
<1>4. ASSUME UNCHANGED believes,
             \A t \in Threads : pc'[t] = pc[t],
             \A q \in Processes : launch[q] # "off" => launch'[q] # "off",
             \A q \in Processes : /\ HasClass(q)' => HasClass(q)
                                  /\ class'[q].clsid = class[q].clsid,
             \A q \in Processes : pc'[q] # "idle" \/ first'[q] =>
               launch[q] # "off"
      PROVE  Goal
  <2>1. \A a \in Actors : pc'[a] # "idle" => launch'[Own(a)] # "off"
    BY <1>1, <1>2, <1>4
  <2>2. \A q \in Processes : first'[q] \/ q \in believes' => launch'[q] # "off"
    BY <1>2, <1>4
  <2>3. \A q \in Processes : HasClass(q)' => class'[q].clsid # 0
    BY <1>2, <1>4
  <2>4. \A u \in Threads : pc'[u] \in Unregistering =>
          ProcessOf[u] \notin believes'
    BY <1>2, <1>4
  <2>5. QED
    BY <2>1, <2>2, <2>3, <2>4 DEF RunsHere
<1>5. ASSUME NEW p \in Processes, HolderStep(p) PROVE Goal
  <2>1. /\ \A t \in Threads : pc'[t] = pc[t]
        /\ UNCHANGED believes
        /\ \A q \in Processes : launch[q] # "off" => launch'[q] # "off"
        /\ \A q \in Processes : /\ HasClass(q)' => HasClass(q)
                                /\ class'[q].clsid = class[q].clsid
    BY <1>1, <1>5, ProcessesMove
  <2>2. \A q \in Processes : pc'[q] # "idle" \/ first'[q] => launch[q] # "off"
    BY <1>1, <1>2, <1>5, HoldersRun
  <2>3. QED
    BY <1>4, <2>1, <2>2
<1>6. CASE ComOrStart
  <2>1. /\ \A t \in Threads : pc'[t] = pc[t]
        /\ UNCHANGED believes
        /\ \A q \in Processes : launch[q] # "off" => launch'[q] # "off"
        /\ \A q \in Processes : /\ HasClass(q)' => HasClass(q)
                                /\ class'[q].clsid = class[q].clsid
    BY <1>1, <1>6, ProcessesMove
  <2>2. UNCHANGED <<pc, first>>
    BY <1>6 DEF ComOrStart, ComStep, ServerIsReady, ServerTimesOut, Start,
       Click, fields
  <2>3. \A q \in Processes : pc'[q] # "idle" \/ first'[q] => launch[q] # "off"
    BY <1>1, <1>2, <2>2
  <2>4. QED
    BY <1>4, <2>1, <2>3
<1>7. ASSUME NEW p \in Processes, ProcessEnds(p) PROVE Goal
  <2>1. /\ \A a \in Actors : /\ Own(a) = p => pc'[a] = "idle"
                             /\ Own(a) # p => pc'[a] = pc[a]
        /\ ~first'[p] /\ class'[p] = NoClass /\ believes' = believes \ {p}
        /\ \A q \in Processes \ {p} : /\ launch'[q] = launch[q]
                                      /\ class'[q] = class[q]
                                      /\ first'[q] = first[q]
    <3>1. ActorsEnd(p) /\ FieldsEnd(p) /\ OthersStay(p) /\ HistoryEnds(p)
      BY <1>1, <1>7, ProcessesEnd
    <3>2. \A a \in Actors : /\ Own(a) = p => pc'[a] = "idle"
                            /\ Own(a) # p => pc'[a] = pc[a]
      BY <3>1 DEF ActorsEnd
    <3>3. first'[p] = FALSE /\ class'[p] = NoClass
      BY <3>1 DEF FieldsEnd
    <3>4. believes' = believes \ {p}
      BY <3>1 DEF HistoryEnds
    <3>5. \A q \in Processes \ {p} : /\ launch'[q] = launch[q]
                                      /\ class'[q] = class[q]
                                      /\ first'[q] = first[q]
      BY <3>1 DEF OthersStay
    <3>6. QED
      BY <3>2, <3>3, <3>4, <3>5
  <2>2. \A a \in Actors : pc'[a] # "idle" => launch'[Own(a)] # "off"
    BY <1>1, <1>2, <2>1
  <2>3. \A q \in Processes : first'[q] \/ q \in believes' => launch'[q] # "off"
    BY <1>2, <2>1
  <2>4. \A q \in Processes : HasClass(q)' => class'[q].clsid # 0
    BY <1>2, <2>1 DEF HasClass
  <2>5. \A u \in Threads : pc'[u] \in Unregistering =>
          ProcessOf[u] \notin believes'
    BY <1>1, <1>2, <2>1 DEF Unregistering
  <2>6. QED
    BY <2>2, <2>3, <2>4, <2>5 DEF RunsHere
<1>8. CASE UNCHANGED vars
  <2>1. UNCHANGED <<pc, launch, first, believes, class>>
    BY <1>8 DEF vars, com, fields, history
  <2>2. QED
    BY <2>1 DEF RunsHere, HasClass
<1> HIDE DEF Goal
<1>9. QED
  BY <1>3, <1>5, <1>6, <1>7, <1>8, StepsAreOf

(* A registry step leaves every registered instance where COM looks for    *)
(* it: a new CLSID comes when the old one had no server, so nobody was     *)
(* reachable; a removal spoils the belief of every other instance.         *)
LEMMA RegistryReaches ==
  ASSUME CallInv, ChangeInv, ReachInv, NEW a \in Actors, RegistryStep(a),
         ~overlapped'
  PROVE  /\ RegisteredIsReachable'
         /\ \A t \in Threads : ProcessOf[t] \notin spoiled' => IsOnItsWay(t)'
<1>1. /\ guid \in [Actors -> Nat] /\ pc \in [Actors -> Positions] /\ TypeInv
      /\ Threads \subseteq Actors /\ spoiled \subseteq Processes
      /\ \A t \in Threads : /\ ProcessOf[t] \in Processes /\ t \notin Processes
                            /\ Own(t) = ProcessOf[t]
  BY ProcessAssumption DEF CallInv, TypeInv, TypeOK, Shapes, Actors, Own
<1>2. /\ \A b \in Actors \ {a} : pc'[b] = pc[b] /\ guid'[b] = guid[b]
      /\ UNCHANGED <<class, believes, launch>>
  BY <1>1, RegistryMoves DEF fields, com
<1>3. ~overlapped /\ Alone(a) /\ ReplacesNone
  BY <1>1, OneIsAlone
<1>4. /\ RegisteredIsReachable /\ RunsHere
      /\ \A t \in Threads : ProcessOf[t] \notin spoiled => IsOnItsWay(t)
  BY <1>3 DEF ReachInv
<1> DEFINE Goal == /\ RegisteredIsReachable'
                   /\ \A t \in Threads : ProcessOf[t] \notin spoiled' =>
                        IsOnItsWay(t)'
<1> SUFFICES Goal
  OBVIOUS
<1>5. ASSUME spoiled' = spoiled, activator' = activator,
             servers \subseteq servers',
             pc'[a] \in Past => guid'[a] = activator /\ activator # 0
                                /\ activator \in servers'
                                /\ pc'[a] # "registered"
      PROVE  Goal
  <2>1. RegisteredIsReachable'
    BY <1>2, <1>3, <1>4, <1>5 DEF RegisteredIsReachable, HasClass
  <2>2. ASSUME NEW t \in Threads, ProcessOf[t] \notin spoiled', pc'[t] \in Past
        PROVE  IsOnItsWay(t)'
    <3>1. CASE t = a
      BY <1>5, <2>2, <3>1 DEF IsOnItsWay, IsIntact
    <3>2. CASE t # a
      BY <1>1, <1>2, <1>4, <1>5, <2>2, <3>2 DEF IsOnItsWay, IsIntact, HasClass
    <3>3. QED
      BY <3>1, <3>2
  <2>3. QED
    BY <2>1, <2>2 DEF IsOnItsWay
<1> USE DEF Goes, history
<1>6. CASE LookUp(a)
  <2>1. /\ UNCHANGED <<activator, servers, spoiled>>
        /\ pc'[a] \in {"assets", "register server"}
    BY <1>1, <1>6 DEF LookUp
  <2>2. QED
    BY <1>5, <2>1 DEF Past
<1>7. CASE RegisterComServer(a)
  <2>1. /\ UNCHANGED <<activator, spoiled>> /\ pc'[a] = "assets"
        /\ servers \subseteq servers'
    BY <1>1, <1>7 DEF RegisterComServer
  <2>2. QED
    BY <1>5, <2>1 DEF Past
<1>8. CASE RegisterAssets(a)
  <2>1. /\ UNCHANGED <<servers, spoiled, guid>> /\ activator' = guid[a]
        /\ pc[a] = "assets" /\ pc'[a] \in {"create event", "create instance"}
    BY <1>1, <1>8 DEF RegisterAssets
  <2>2. /\ guid[a] \in servers /\ guid[a] # 0
        /\ guid[a] = activator \/ ~IsIntact
    BY <1>3, <2>1 DEF ReplacesNone, ChangeInv, GuidsAreOld
  <2>3. CASE guid[a] = activator
    <3>1. guid'[a] = activator /\ activator' = activator
      BY <2>1, <2>3
    <3>2. activator # 0 /\ activator \in servers' /\ pc'[a] # "registered"
      BY <2>1, <2>2, <2>3
    <3>3. QED
      BY <1>5, <2>1, <3>1, <3>2
  <2>4. CASE ~IsIntact
    <3>1. believes \subseteq spoiled
      <4>1. believes \subseteq Processes
        BY <1>1 DEF TypeInv, TypeOK
      <4>2. QED
        BY <1>3, <1>4, <2>4, <4>1 DEF RegisteredIsReachable, RunsHere, IsIntact
    <3>2. RegisteredIsReachable'
      BY <1>2, <2>1, <3>1 DEF RegisteredIsReachable
    <3>3. \A t \in Threads \ {a} :
            ProcessOf[t] \notin spoiled' => pc'[t] \notin Past
      BY <1>1, <1>2, <1>4, <2>1, <2>4 DEF IsOnItsWay
    <3>4. pc'[a] # "registered" /\ guid'[a] = activator' /\ IsIntact'
      BY <2>1, <2>2 DEF IsIntact
    <3>5. \A t \in Threads : ProcessOf[t] \notin spoiled' => IsOnItsWay(t)'
      BY <3>3, <3>4 DEF IsOnItsWay
    <3>6. QED
      BY <3>2, <3>5
  <2>5. QED
    BY <2>2, <2>3, <2>4
<1>9. CASE a \in Threads /\ LookUpAll(a)
  <2>1. /\ UNCHANGED <<activator, servers, spoiled>>
        /\ pc'[a] \in {"delete server", "failed"}
    BY <1>1, <1>9 DEF LookUpAll, registry
  <2>2. QED
    BY <1>5, <2>1 DEF Past
<1>10. CASE a \in Threads /\ \/ UnRegisterComServer(a)
                             \/ UnRegisterNotificationAppIdentifier(a)
  <2>1. /\ pc[a] \in {"delete server", "delete key"}
        /\ pc'[a] \in {"delete key", "failed", "removed"}
        /\ Removes(a)
    BY <1>1, <1>10 DEF UnRegisterComServer, UnRegisterNotificationAppIdentifier
  <2>2. pc[a] \in Unregistering /\ pc[a] \in InACall /\ pc'[a] \notin Past
    BY <2>1 DEF Unregistering, InACall, Past
  <2>3. \A p \in Processes \ spoiled' : launch[p] # "off" => p = ProcessOf[a]
    BY <2>1 DEF Removes
  <2>4. believes' \subseteq spoiled'
    <3>1. ProcessOf[a] \notin believes
      BY <1>4, <1>10, <2>2 DEF RunsHere
    <3>2. believes \subseteq Processes
      BY <1>1 DEF TypeInv, TypeOK
    <3>3. \A p \in believes : launch[p] # "off"
      BY <1>4, <3>2 DEF RunsHere
    <3>4. QED
      BY <1>2, <2>3, <3>1, <3>2, <3>3
  <2>5. ASSUME NEW t \in Threads, ProcessOf[t] \notin spoiled'
        PROVE  pc'[t] \notin Past
    <3>1. CASE t = a
      BY <2>2, <3>1
    <3>2. CASE t # a
      <4>1. SUFFICES ASSUME pc[t] \in Past PROVE FALSE
        BY <1>1, <1>2, <3>2
      <4>2. pc[t] # "idle" /\ pc[t] \in InACall
        BY <4>1 DEF Past, InACall, Registering
      <4>3. launch[ProcessOf[t]] # "off"
        BY <1>1, <1>4, <4>2 DEF RunsHere
      <4>4. ProcessOf[t] = ProcessOf[a]
        BY <1>1, <2>3, <2>5, <4>3
      <4>5. QED
        BY <1>10, <2>2, <3>2, <4>2, <4>4, OneThreadCalls
    <3>3. QED
      BY <3>1, <3>2
  <2>6. QED
    BY <2>4, <2>5 DEF RegisteredIsReachable, IsOnItsWay
<1> HIDE DEF Goal
<1>11. QED
  BY <1>6, <1>7, <1>8, <1>9, <1>10 DEF RegistryStep

(* So does every other step.                                               *)
LEMMA ReachInvariant ==
  CallInv /\ ChangeInv /\ ReachInv /\ [Next]_vars => ReachInv'
<1> SUFFICES ASSUME CallInv, ChangeInv, ReachInv, [Next]_vars
             PROVE  ReachInv'
  OBVIOUS
<1>1. /\ guid \in [Actors -> Nat] /\ pc \in [Actors -> Positions] /\ TypeInv
      /\ \A t \in Threads : /\ t \in Actors /\ t \notin Processes
                            /\ Own(t) = ProcessOf[t]
                            /\ ProcessOf[t] \in Processes
      /\ RunsHere
  BY ProcessAssumption DEF CallInv, TypeInv, TypeOK, Shapes, Actors, Own,
     ReachInv
<1> DEFINE Goal == /\ RegisteredIsReachable'
                   /\ \A t \in Threads : ProcessOf[t] \notin spoiled' =>
                        IsOnItsWay(t)'
<1>2. RunsHere'
  BY <1>1, RunsHereInvariant DEF ChangeInv
<1>3. SUFFICES ASSUME ~overlapped' PROVE Goal
  <2>1. overlapped' => RegisteredIsReachable'
    BY DEF RegisteredIsReachable
  <2>2. QED
    BY <1>2, <1>3, <2>1 DEF ReachInv
<1>4. ASSUME NEW a \in Actors, RegistryStep(a) PROVE Goal
  BY <1>3, <1>4, RegistryReaches
<1>5. ASSUME UNCHANGED <<activator, servers>>, ~overlapped
      PROVE  /\ IsIntact' <=> IsIntact
             /\ \A p \in believes \ spoiled : /\ HasClass(p)
                                              /\ class[p].clsid = activator
                                              /\ activator \in servers
             /\ \A t \in Threads : ProcessOf[t] \notin spoiled => IsOnItsWay(t)
  BY <1>5 DEF IsIntact, ReachInv, RegisteredIsReachable
<1>6. CASE Quiet /\ \E t \in Threads : ApiStep(t)
  <2>1. PICK t \in Threads : ApiStep(t)
    BY <1>6
  <2> DEFINE p == ProcessOf[t]
  <2>2. /\ UNCHANGED <<activator, servers>> /\ ~overlapped
        /\ pc'[t] \in Past => pc[t] \in Past /\ guid'[t] = guid[t]
    BY <1>1, <1>3, <1>6 DEF Quiet, registry
  <2>3. /\ \A b \in Actors \ {t} : pc'[b] = pc[b] /\ guid'[b] = guid[b]
        /\ spoiled \subseteq spoiled'
        /\ \A q \in Processes \ {p} : /\ class'[q] = class[q]
                                      /\ q \in believes' <=> q \in believes
    BY <1>1, <2>1, ThreadsMove
  <2>4. /\ ClassStays(t) \/ ClassGoes(t) \/ ClassComes(t)
        /\ pc'[t] = "registered" => ClassComes(t)
    BY <1>1, <2>1, ClassesGo
  <2>5. ClassComes(t) => /\ pc[t] = "register class" /\ ~HasClass(p)
                         /\ HasClass(p)' /\ class'[p].clsid = guid[t]
                         /\ pc'[t] = "registered"
    <3>1. ASSUME ClassComes(t)
          PROVE  class'[p] = [clsid |-> guid[t], used |-> FALSE,
                              multiple |-> handlers[p]]
      BY <3>1 DEF ClassComes, Registers
    <3>2. ASSUME ClassComes(t)
          PROVE  class'[p].clsid = guid[t] /\ class'[p].used = FALSE
      BY <3>1, <3>2
    <3>3. ASSUME ClassComes(t) PROVE HasClass(p)'
      <4>1. class'[p].used = FALSE
        BY <3>2, <3>3
      <4>2. NoClass.used = TRUE
        BY DEF NoClass
      <4>3. class'[p] # NoClass
        BY <4>1, <4>2
      <4>4. QED
        BY <4>3 DEF HasClass
    <3>4. QED
      BY <3>2, <3>3 DEF ClassComes, Registers
  <2>6. /\ \A q \in believes \ spoiled : /\ HasClass(q)
                                         /\ class[q].clsid = activator
                                         /\ activator \in servers
        /\ \A u \in Threads : ProcessOf[u] \notin spoiled => IsOnItsWay(u)
        /\ IsIntact' <=> IsIntact
    BY <1>5, <2>2
  <2>7. ASSUME NEW q \in believes' \ spoiled'
        PROVE  /\ HasClass(q)' /\ class'[q].clsid = activator'
               /\ activator' \in servers'
    <3>1. q \notin spoiled
      BY <2>3
    <3>2. CASE q # p
      <4>1. q \in believes /\ class'[q] = class[q]
        <5>1. believes' \subseteq Processes
          BY <1>1, TypeInvariant DEF TypeInv, TypeOK
        <5>2. QED
          BY <2>3, <3>2, <5>1
      <4>2. QED
        BY <2>2, <2>6, <3>1, <4>1 DEF HasClass
    <3>3. CASE q = p
      <4>1. CASE ClassStays(t)
        <5>1. class'[p] = class[p] /\ (p \in believes \/ pc[t] = "registered")
          BY <2>7, <3>3, <4>1 DEF ClassStays
        <5>2. CASE p \in believes
          BY <2>2, <2>6, <3>1, <3>3, <5>1, <5>2 DEF HasClass
        <5>3. CASE pc[t] = "registered"
          <6>1. IsOnItsWay(t) /\ pc[t] \in Past
            BY <2>6, <3>1, <3>3, <5>3 DEF Past
          <6>2. HasClass(p) /\ class[p].clsid = activator
                /\ activator \in servers
            BY <5>3, <6>1 DEF IsOnItsWay, IsIntact
          <6>3. QED
            BY <2>2, <3>3, <5>1, <6>2 DEF HasClass
        <5>4. QED
          BY <5>1, <5>2, <5>3
      <4>2. CASE ClassGoes(t)
        BY <2>7, <3>3, <4>2 DEF ClassGoes
      <4>3. CASE ClassComes(t)
        <5>1. p \in believes /\ ~HasClass(p)
          BY <2>5, <2>7, <3>3, <4>3 DEF ClassComes
        <5>2. QED
          BY <2>6, <3>1, <3>3, <5>1
      <4>4. QED
        BY <2>4, <4>1, <4>2, <4>3
    <3>4. QED
      BY <3>2, <3>3
  <2>8. ASSUME NEW u \in Threads, ProcessOf[u] \notin spoiled', pc'[u] \in Past
        PROVE  IsOnItsWay(u)'
    <3>1. ProcessOf[u] \notin spoiled /\ IsOnItsWay(u)
      BY <2>3, <2>6, <2>8
    <3>2. pc[u] \in Past /\ guid'[u] = guid[u] /\ (u # t => pc'[u] = pc[u])
      BY <1>1, <2>2, <2>3, <2>8
    <3>3. guid'[u] = activator' /\ IsIntact'
      BY <2>2, <2>6, <3>1, <3>2 DEF IsOnItsWay
    <3>4. ASSUME pc'[u] = "registered"
          PROVE  HasClass(ProcessOf[u])'
                 /\ class'[ProcessOf[u]].clsid = guid'[u]
      <4>1. CASE u = t
        BY <2>4, <2>5, <3>2, <3>4, <4>1
      <4>2. CASE u # t
        <5>1. /\ pc[u] = "registered" /\ HasClass(ProcessOf[u])
              /\ class[ProcessOf[u]].clsid = guid[u]
          BY <3>1, <3>2, <3>4, <4>2 DEF IsOnItsWay
        <5>2. class'[ProcessOf[u]] = class[ProcessOf[u]]
          <6>1. CASE ProcessOf[u] # p
            BY <1>1, <2>3, <6>1
          <6>2. CASE ProcessOf[u] = p
            <7>1. pc[u] \in InACall /\ registering[p]
              <8>1. pc[u] \in InACall
                BY <5>1 DEF InACall, Registering
              <8>2. QED
                BY <6>2, <8>1, OneThreadCalls
            <7>2. ~ClassGoes(t)
              BY <2>8, <6>2, <7>1 DEF ClassGoes
            <7>3. ~ClassComes(t)
              BY <2>5, <5>1, <6>2
            <7>4. QED
              BY <2>4, <6>2, <7>2, <7>3 DEF ClassStays
          <6>3. QED
            BY <6>1, <6>2
        <5>3. QED
          BY <3>2, <5>1, <5>2 DEF HasClass
      <4>3. QED
        BY <4>1, <4>2
    <3>5. QED
      BY <3>3, <3>4 DEF IsOnItsWay
  <2>9. RegisteredIsReachable'
    BY <2>7 DEF RegisteredIsReachable
  <2>10. QED
    BY <2>8, <2>9 DEF IsOnItsWay
<1>7. CASE Quiet /\ (ComOrStart \/ \E p \in Processes : HolderStep(p))
  <2>1. UNCHANGED <<activator, servers>> /\ ~overlapped
    BY <1>3, <1>7 DEF Quiet, registry
  <2>2. /\ \A t \in Threads : pc'[t] = pc[t] /\ guid'[t] = guid[t]
        /\ UNCHANGED <<believes, spoiled>>
        /\ \A q \in Processes :
             /\ HasClass(q) /\ class[q].clsid # 0 => HasClass(q)'
             /\ class'[q].clsid = class[q].clsid
    BY <1>1, <1>7, ProcessesMove
  <2>3. \A q \in Processes : HasClass(q) => HasClass(q)'
    BY <1>1, <2>2 DEF RunsHere
  <2>4. believes \subseteq Processes
    BY <1>1 DEF TypeInv, TypeOK
  <2>5. RegisteredIsReachable'
    BY <1>5, <2>1, <2>2, <2>3, <2>4 DEF RegisteredIsReachable
  <2>6. ASSUME NEW t \in Threads, ProcessOf[t] \notin spoiled'
        PROVE  IsOnItsWay(t)'
    BY <1>1, <1>5, <2>1, <2>2, <2>3, <2>6 DEF IsOnItsWay
  <2>7. QED
    BY <2>5, <2>6
<1>8. CASE Quiet /\ \E p \in Processes : ProcessEnds(p)
  <2>1. PICK p \in Processes : ProcessEnds(p)
    BY <1>8
  <2>2. UNCHANGED <<activator, servers>> /\ ~overlapped
    BY <1>3, <1>8 DEF Quiet, registry
  <2>3. ActorsEnd(p) /\ OthersStay(p) /\ HistoryEnds(p)
    BY <1>1, <2>1, ProcessesEnd
  <2>4. believes' = believes \ {p} /\ spoiled' = spoiled \ {p}
    BY <2>3 DEF HistoryEnds
  <2>5. \A q \in Processes \ {p} : class'[q] = class[q]
    BY <2>3 DEF OthersStay
  <2>6. \A t \in Threads :
          \/ ProcessOf[t] = p /\ pc'[t] = "idle"
          \/ ProcessOf[t] # p /\ pc'[t] = pc[t] /\ guid'[t] = guid[t]
    BY <1>1, <2>3 DEF ActorsEnd
  <2>7. believes \subseteq Processes
    BY <1>1 DEF TypeInv, TypeOK
  <2>8. RegisteredIsReachable'
    BY <1>5, <2>2, <2>4, <2>5, <2>7 DEF RegisteredIsReachable, HasClass
  <2>9. ASSUME NEW t \in Threads, ProcessOf[t] \notin spoiled', pc'[t] \in Past
        PROVE  IsOnItsWay(t)'
    <3>1. /\ ProcessOf[t] \notin spoiled /\ pc'[t] = pc[t]
          /\ guid'[t] = guid[t]
          /\ class'[ProcessOf[t]] = class[ProcessOf[t]]
      BY <1>1, <2>4, <2>5, <2>6, <2>9 DEF Past
    <3>2. IsOnItsWay(t) /\ (IsIntact' <=> IsIntact)
      BY <1>5, <2>2, <3>1
    <3>3. QED
      BY <2>2, <3>1, <3>2 DEF IsOnItsWay, HasClass
  <2>10. QED
    BY <2>8, <2>9 DEF IsOnItsWay
<1>9. CASE UNCHANGED vars
  <2>1. UNCHANGED <<activator, servers, believes, spoiled, pc, guid, class>>
    BY <1>9 DEF vars, registry, history, fields
  <2>2. overlapped' = overlapped
    BY <1>9 DEF vars, history
  <2>3. RegisteredIsReachable'
    BY <1>3, <1>5, <2>1, <2>2 DEF RegisteredIsReachable, HasClass
  <2>4. ASSUME NEW t \in Threads, ProcessOf[t] \notin spoiled'
        PROVE  IsOnItsWay(t)'
    BY <1>3, <1>5, <2>1, <2>2, <2>4 DEF IsOnItsWay, HasClass
  <2>5. QED
    BY <2>3, <2>4
<1> HIDE DEF Goal
<1>10. QED
  BY <1>1, <1>4, <1>6, <1>7, <1>8, <1>9, OthersAreQuiet, StepsAreOf

(* One call at a time, in numbers.                                         *)
LEMMA OneCallIsCounted == OneCall => RegisteringIsACall
<1> SUFFICES ASSUME OneCall, NEW p \in Processes
             PROVE  Cardinality(InCall(p)) = IF registering[p] THEN 1 ELSE 0
  BY DEF RegisteringIsACall, InCall
<1>1. CASE registering[p]
  <2>1. PICK t \in Threads : InCall(p) = {t}
    BY <1>1 DEF OneCall
  <2>2. QED
    BY <1>1, <2>1, FS_Singleton
<1>2. CASE ~registering[p]
  <2>1. InCall(p) = {}
    BY <1>2 DEF OneCall
  <2>2. QED
    BY <1>2, <2>1, FS_EmptySet
<1>3. QED
  BY <1>1, <1>2

(* RegistrationInv, by RegistryInv: m_registering is set exactly during a  *)
(* call (107-116, 215-225); the servers in the registry are the one        *)
(* CustomActivator names or is about to name, if no call failed and no     *)
(* look-up overlapped another's change; and an instance that registered is *)
(* where COM looks for it, unless an UnregisterAll took that away.         *)
THEOREM RegistrationIsConsistent == Spec => []RegistrationInv
<1>1. ASSUME Init PROVE RegistryInv
  <2>1. /\ believes = {} /\ \A a \in Actors : pc[a] = "idle"
        /\ \A p \in Processes : class[p] = NoClass /\ first[p] = FALSE
        /\ \A t \in Threads : t \in Actors
    BY <1>1 DEF Init, Actors
  <2>2. activator <= lastGuid /\ servers = {activator} \ {0}
    <3>1. PICK g \in {0, 1} : activator = g /\ lastGuid = g
          /\ servers = {g} \ {0}
      BY <1>1 DEF Init
    <3>2. g <= g
      BY ONLY g \in {0, 1}
    <3>3. QED
      BY <3>1, <3>2
  <2>3. ChangeInv
    BY <2>1, <2>2 DEF ChangeInv, GuidsAreOld, OneChanges, ReplacesNone,
       Changing
  <2>4. ServersInv
    BY <2>1, <2>2 DEF ServersInv, NoServerIsLeft, ServersAreKnown
  <2>5. ReachInv
    <3>1. \A t \in Threads : pc[t] = "idle"
      BY <2>1
    <3>2. RunsHere
      BY <2>1, <3>1 DEF RunsHere, HasClass, Unregistering
    <3>3. RegisteredIsReachable
      BY <2>1 DEF RegisteredIsReachable
    <3>4. \A t \in Threads : IsOnItsWay(t)
      BY <3>1 DEF IsOnItsWay, Past
    <3>5. QED
      BY <3>2, <3>3, <3>4 DEF ReachInv
  <2>6. QED
    BY <1>1, <2>3, <2>4, <2>5, InitCalls DEF RegistryInv
<1>2. RegistryInv /\ [Next]_vars => RegistryInv'
  BY CallInvariant, ChangeInvariant, ServersInvariant, ReachInvariant
     DEF RegistryInv, CallInv
<1>3. RegistryInv => RegistrationInv
  <2> SUFFICES ASSUME RegistryInv PROVE NoServerIsLeft
    BY OneCallIsCounted DEF RegistryInv, CallInv, TypeInv, ReachInv,
       RegistrationInv
  <2>1. QED
    BY DEF RegistryInv, ServersInv, NoServerIsLeft
<1>4. QED
  BY <1>1, <1>2, <1>3, PTL DEF Spec

=============================================================================
