-------------------- MODULE PushNotificationManagerProofs --------------------
(***************************************************************************)
(* Proofs about PushNotificationManager and NotificationPlatform, for any  *)
(* processes, threads and apps, any number of failures and whatever calls  *)
(* overlap.  LockInv: what the shared lock of the activator calls keeps.   *)
(* NamesInv: whose an identifier is, and where each call is.  On these     *)
(* rest StartInv (the process can be started again), LeftInv (nothing is   *)
(* left of an app) and ClientInv (what a registered process relies on).    *)
(***************************************************************************)
EXTENDS PushNotificationManager, TLAPS

Waiting == {"in activator", "in removal"}
Naming  == Registering \union {"unsink", "erase", "unraw", "unclsid"}

(* A thread that is not waiting for an activator call has none, and a call *)
(* that works on an identifier has found one.                              *)
CallsAreWaitedFor == \A t \in Tasks : pc[t] \notin Waiting => call[t] = "none"
CallsHaveIds      == \A t \in Tasks : call[t] \in Naming => id[t] \in Ids

CallKinds == {"none", "done", "failed"} \union Registering
             \union Unregistering

(* The steps of a thread that are not about an activator call.             *)
QuietStep(t) ==
  \/ Register(t) \/ CreateChannelAsync(t) \/ Unregister(t) \/ UnregisterAll(t)
  \/ RegisterFullTrust(t) \/ FullTrustFails(t) \/ CreateChannel(t)
  \/ RegisterForeground(t) \/ AddToast(t) \/ UndoForeground(t)
  \/ UndoFullTrust(t) \/ UnregisterForeground(t) \/ CloseChannel(t)
  \/ RemoveFullTrust(t) \/ CallFails(t)

LockInv ==
  /\ PlatformInv /\ TrackedIsNotTimed
  /\ CallsAreWaitedFor /\ CallsHaveIds

-----------------------------------------------------------------------------
(* BuildAppIdentifier finds or makes an identifier within the bound.       *)
LEMMA BuildKeepsTypes ==
  ASSUME TypeOK, NEW a \in Apps, NEW i, BuildAppIdentifier(a, i)
  PROVE  i \in Ids /\ owner' \in Seq(Apps) /\ Len(owner') <= MaxIds
         /\ raw' \subseteq Ids
<1>1. owner \in Seq(Apps) /\ Len(owner) \in Nat /\ Len(owner) <= MaxIds
      /\ raw \subseteq Ids /\ MaxIds \in Nat
  BY BoundAssumption DEF TypeOK, PlatformTypeOK
<1>2. CASE i \in AppIds(a) /\ UNCHANGED <<owner, raw>>
  BY <1>1, <1>2 DEF AppIds
<1>3. CASE /\ Len(owner) < MaxIds /\ i = Len(owner) + 1
           /\ owner' = Append(owner, a) /\ raw' = raw \union {i}
  <2>1. i \in Ids
    BY <1>1, <1>3 DEF Ids
  <2>2. owner' \in Seq(Apps) /\ Len(owner') = Len(owner) + 1
    BY <1>1, <1>3
  <2>3. Len(owner) + 1 <= MaxIds
    BY <1>1, <1>3
  <2>4. raw' \subseteq Ids
    BY <1>1, <1>3, <2>1
  <2>5. QED
    BY <2>1, <2>2, <2>3, <2>4
<1>4. QED
  BY <1>2, <1>3 DEF BuildAppIdentifier

(* A fault is counted as long as there is room for it.                     *)
LEMMA FaultKeepsType ==
  ASSUME TypeOK, Fault
  PROVE  faults' \in 0..MaxFaults
BY BoundAssumption DEF TypeOK, PlatformTypeOK, Fault

(* So is a call of an app.                                                 *)
LEMMA CallKeepsCount ==
  ASSUME made \in 0..MaxCalls, made < MaxCalls, made' = made + 1
  PROVE  made' \in 0..MaxCalls
BY TaskAssumption

(* Every step keeps the types, those of the calls included.                *)
LEMMA TypeInvariant ==
  TypeOK /\ CallsHaveIds /\ [Next]_vars => TypeOK'
<1> SUFFICES ASSUME TypeOK, CallsHaveIds, [Next]_vars PROVE TypeOK'
  OBVIOUS
<1> USE TaskAssumption, BoundAssumption
<1> USE DEF TypeOK, PlatformTypeOK, platformVars, storage, core, process,
        calls, Step, Goes, Steps, Undoing, App
<1>1. ASSUME NEW t \in Tasks,
             Register(t) \/ CreateChannelAsync(t) \/ Unregister(t)
               \/ UnregisterAll(t)
      PROVE  TypeOK'
  <2>1. made' \in 0..MaxCalls
    <3>1. made < MaxCalls /\ made' = made + 1
      BY <1>1 DEF Register, CreateChannelAsync, Unregister, UnregisterAll,
         BeginCall, Begin
    <3>2. QED
      BY <3>1, CallKeepsCount
  <2>2. pc' \in [Tasks -> Steps]
    BY <1>1 DEF Register, CreateChannelAsync, Unregister, UnregisterAll,
       BeginCall, Begin
  <2>3. UNCHANGED <<foreground, longRunning, channel, appId, failed, storage,
                    wpn, channels, calls, faults>>
    BY <1>1 DEF Register, CreateChannelAsync, Unregister, UnregisterAll,
       BeginCall, Connect
  <2>4. UNCHANGED <<sinks, process>> \/ GetNotificationPlatform(t)
    BY <1>1 DEF Register, CreateChannelAsync, Unregister, UnregisterAll,
       BeginCall, Connect
  <2>5. QED
    BY <2>1, <2>2, <2>3, <2>4
       DEF GetNotificationPlatform, Initialize, TrackedApps
<1>2. ASSUME NEW t \in Tasks, ClientStep(t) PROVE TypeOK'
  <2>1. CASE RegisterFullTrust(t)
    BY <2>1, BuildKeepsTypes
       DEF RegisterFullTrust, RegisterFullTrustApplication
  <2>2. CASE FullTrustFails(t)
    BY <2>2, BuildKeepsTypes, FaultKeepsType
       DEF FullTrustFails, RegisterFullTrustFails
  <2>3. CASE CreateChannel(t)
    BY <2>3 DEF CreateChannel
  <2>4. CASE RegisterForeground(t)
    BY <2>4 DEF RegisterForeground, RegisterForegroundActivator
  <2>5. CASE CallRegisterActivator(t)
    <3>1. /\ \/ call' = [call EXCEPT ![t] = "done"]
             \/ call' = [call EXCEPT ![t] = "clsid"]
          /\ id' = id \/ \E i \in Ids : id' = [id EXCEPT ![t] = i]
          /\ overlap' \in BOOLEAN
          /\ UNCHANGED <<storage, core, process>>
      BY <2>5 DEF CallRegisterActivator, BeginRegister, AppIds
    <3>2. /\ pc' = [pc EXCEPT ![t] = "in activator"]
          /\ UNCHANGED <<foreground, longRunning, channel, appId, failed,
                        faults, made>>
      BY <2>5 DEF CallRegisterActivator
    <3>3. call' \in [Tasks -> CallKinds]
      <4>1. call \in [Tasks -> CallKinds]
        BY DEF CallKinds
      <4>2. {"done", "clsid"} \subseteq CallKinds
        BY DEF CallKinds, Registering
      <4>3. QED
        BY <3>1, <4>1, <4>2
    <3>4. id' \in [Tasks -> Ids \union {0}]
      BY <3>1
    <3>5. pc' \in [Tasks -> Steps]
      BY <3>2
    <3>6. QED
      BY <3>1, <3>2, <3>3, <3>4, <3>5 DEF CallKinds
  <2>6. CASE ActivatorReturns(t)
    BY <2>6 DEF ActivatorReturns
  <2>7. CASE AddToast(t)
    <3>1. channel' \in [Clients -> Ids \union {0}]
      BY <2>7 DEF AddToast
    <3>2. appId' \in [Tasks -> Ids \union {0}]
      BY <2>7 DEF AddToast
    <3>3. AppOf[ClientOf[t]] \in Apps
      OBVIOUS
    <3>4. toast' = toast \/ toast' = toast \union {AppOf[ClientOf[t]]}
      BY <2>7 DEF AddToast, AddToastRegistrationMapping
    <3>5. toast' \subseteq Apps
      BY <3>3, <3>4 DEF AddToast, AddToastRegistrationMapping
    <3>6. pc' \in [Tasks -> Steps]
      BY <2>7 DEF AddToast
    <3>7. QED
      BY <2>7, <3>1, <3>2, <3>5, <3>6
         DEF AddToast, AddToastRegistrationMapping
  <2>8. CASE UndoForeground(t) \/ UnregisterForeground(t)
    BY <2>8 DEF UndoForeground, UnregisterForeground,
       UnregisterForegroundActivator
  <2>9. CASE UndoFullTrust(t) \/ RemoveFullTrust(t)
    BY <2>9 DEF UndoFullTrust, RemoveFullTrust, UnregisterFullTrustApplication
  <2>10. CASE CloseChannel(t)
    BY <2>10 DEF CloseChannel, GetNotificationPlatform, Initialize, TrackedApps
  <2>11. CASE CallUnregisterActivator(t)
    <3>1. /\ \/ call' = [call EXCEPT ![t] = "isempty"]
             \/ call' = [call EXCEPT ![t] = "unsink"]
          /\ id' = id \/ \E i \in Ids : id' = [id EXCEPT ![t] = i]
          /\ overlap' \in BOOLEAN
          /\ UNCHANGED <<storage, core, process>>
      BY <2>11 DEF CallUnregisterActivator, BeginUnregister, AppIds
    <3>2. "isempty" \in CallKinds /\ "unsink" \in CallKinds
      BY DEF CallKinds, Unregistering
    <3>3. call \in [Tasks -> CallKinds]
      BY DEF CallKinds
    <3>4. call' \in [Tasks -> CallKinds]
      BY <3>1, <3>2, <3>3
    <3>5. id' \in [Tasks -> Ids \union {0}]
      BY <3>1
    <3>6. pc' \in [Tasks -> Steps]
      BY <2>11 DEF CallUnregisterActivator
    <3>7. QED
      BY <2>11, <3>1, <3>4, <3>5, <3>6 DEF CallUnregisterActivator, CallKinds
  <2>12. CASE RemovalReturns(t)
    BY <2>12 DEF RemovalReturns
  <2>13. CASE CallFails(t)
    <3>1. faults' \in 0..MaxFaults
      BY <2>13, FaultKeepsType DEF CallFails, Fails
    <3>2. pc' \in [Tasks -> Steps]
      BY <2>13 DEF CallFails, Calling
    <3>3. QED
      BY <2>13, <3>1, <3>2 DEF CallFails
  <2>14. QED
    BY <1>2, <2>1, <2>2, <2>3, <2>4, <2>5, <2>6, <2>7, <2>8, <2>9, <2>10,
       <2>11, <2>12, <2>13 DEF ClientStep
<1>3. ASSUME NEW c \in Clients, ClientEnds(c) PROVE TypeOK'
  <2>1. faults' \in 0..MaxFaults
    BY <1>3, FaultKeepsType DEF ClientEnds
  <2>2. fg' \in [Ids -> Clients \union {Nobody, Gone}]
    BY <1>3 DEF ClientEnds
  <2>3. QED
    BY <1>3, <2>1, <2>2 DEF ClientEnds
<1>4. CASE Platform
  <2>1. CASE SignalEvent \/ WaitForLifetimeEvent \/ Shutdown
    BY <1>4, <2>1 DEF Platform, SignalEvent, WaitForLifetimeEvent, Shutdown,
       ProcessEnds
  <2>2. CASE PlatformCrash
    <3>1. faults' \in 0..MaxFaults
      BY <2>2, FaultKeepsType DEF PlatformCrash
    <3>2. \A t \in Tasks : call'[t] = "failed" \/ call'[t] = call[t]
      BY <2>2 DEF PlatformCrash
    <3>3. call' \in [Tasks -> CallKinds]
      BY <2>2, <3>2 DEF PlatformCrash, CallKinds
    <3>4. QED
      BY <1>4, <2>2, <3>1, <3>3 DEF Platform, PlatformCrash, ProcessEnds,
         CallKinds
  <2>3. ASSUME NEW i \in Ids, DropDeadSink(i) PROVE TypeOK'
    BY <1>4, <2>3 DEF Platform, DropDeadSink
  <2>4. ASSUME NEW t \in Tasks, ActivatorStep(t) PROVE TypeOK'
    <3> USE DEF Goto, Registering, Unregistering
    <3>1. CASE StoreClsid(t) \/ RegisterSink(t) \/ AddListener(t)
      BY <1>4, <3>1 DEF Platform, CallsHaveIds, Naming, StoreClsid,
         RegisterSink, AddListener
    <3>2. CASE RegisterSinkFails(t) \/ Cancel(t) \/ IsEmpty(t) \/ Setup(t)
      BY <1>4, <3>2, FaultKeepsType
         DEF Platform, RegisterSinkFails, Cancel, IsEmpty, Setup
    <3>3. CASE UnregisterSink(t) \/ EraseListener(t) \/ RemoveRaw(t)
               \/ RemoveClsidAndToast(t)
      BY <1>4, <3>3 DEF Platform, UnregisterSink, EraseListener, RemoveRaw,
         RemoveClsidAndToast
    <3>4. QED
      BY <2>4, <3>1, <3>2, <3>3 DEF ActivatorStep
  <2>5. QED
    BY <1>4, <2>1, <2>2, <2>3, <2>4 DEF Platform, PlatformStep
<1>5. CASE UNCHANGED vars
  BY <1>5 DEF vars, clientVars
<1>6. QED
  BY <1>1, <1>2, <1>3, <1>4, <1>5 DEF Next

(* They leave the activator calls alone, and at most start the process.    *)
LEMMA QuietStepIsQuiet ==
  ASSUME TypeOK, OffIsEmpty, NEW t \in Tasks, QuietStep(t)
  PROVE  /\ UNCHANGED <<call, id, overlap>>
         /\ pc[t] \notin Waiting
         /\ \A u \in Tasks \ {t} : pc'[u] = pc[u]
         /\ \/ lrp' = "up" /\ lrp = "off" /\ (timer' => listeners' = {})
            \/ /\ UNCHANGED <<lrp, listeners>> /\ (timer' => timer)
               /\ proxies' = proxies \/ lrp # "off"
<1>1. pc \in [Tasks -> Steps] /\ (lrp = "off" => proxies = {})
  BY DEF TypeOK, OffIsEmpty
<1>2. PICK p \in Steps \ Waiting : \E q : Goes(t, p, q)
  <2>1. \A p, q : Step(t, p, q) => Goes(t, p, q)
    BY DEF Step
  <2>2. CASE Register(t) \/ CreateChannelAsync(t) \/ Unregister(t)
             \/ UnregisterAll(t)
    BY <2>2 DEF Register, CreateChannelAsync, Unregister, UnregisterAll,
       BeginCall, Begin, Steps, Waiting
  <2>3. CASE RegisterFullTrust(t) \/ FullTrustFails(t) \/ CreateChannel(t)
             \/ RegisterForeground(t) \/ AddToast(t) \/ UndoForeground(t)
             \/ UndoFullTrust(t)
    BY <2>1, <2>3 DEF RegisterFullTrust, FullTrustFails, CreateChannel,
       RegisterForeground, AddToast, UndoForeground, UndoFullTrust, Steps,
       Undoing, Waiting
  <2>4. CASE UnregisterForeground(t) \/ CloseChannel(t) \/ RemoveFullTrust(t)
    BY <2>1, <2>4 DEF UnregisterForeground, CloseChannel, RemoveFullTrust,
       Steps, Waiting
  <2>5. CASE CallFails(t)
    BY <2>1, <2>5 DEF CallFails, Calling, Steps, Waiting
  <2>6. QED
    BY <2>2, <2>3, <2>4, <2>5 DEF QuietStep
<1>3. pc[t] \notin Waiting /\ \A u \in Tasks \ {t} : pc'[u] = pc[u]
  BY <1>1, <1>2 DEF Goes
<1> USE DEF storage, core, process, calls, platformVars
<1>4. UNCHANGED <<call, id, overlap>>
  BY DEF QuietStep, Register, CreateChannelAsync, Unregister, UnregisterAll,
     BeginCall, Connect, RegisterFullTrust, FullTrustFails, CreateChannel,
     RegisterForeground, AddToast, UndoForeground, UndoFullTrust,
     UnregisterForeground, CloseChannel, RemoveFullTrust, CallFails
<1>5. \/ UNCHANGED <<lrp, listeners, timer, proxies>>
      \/ UNCHANGED <<lrp, listeners, proxies>> /\ timer' = FALSE
      \/ GetNotificationPlatform(t)
  <2>1. CASE Register(t) \/ CreateChannelAsync(t) \/ Unregister(t)
             \/ UnregisterAll(t)
    BY <2>1 DEF Register, CreateChannelAsync, Unregister, UnregisterAll,
       BeginCall, Connect
  <2>2. CASE RegisterFullTrust(t) \/ FullTrustFails(t) \/ CreateChannel(t)
    BY <2>2 DEF RegisterFullTrust, FullTrustFails, CreateChannel,
       RegisterFullTrustApplication, RegisterFullTrustFails
  <2>3. CASE RegisterForeground(t) \/ UndoForeground(t)
             \/ UnregisterForeground(t)
    BY <2>3 DEF RegisterForeground, UndoForeground, UnregisterForeground,
       RegisterForegroundActivator, UnregisterForegroundActivator
  <2>4. CASE AddToast(t) \/ UndoFullTrust(t) \/ RemoveFullTrust(t)
    BY <2>4 DEF AddToast, UndoFullTrust, RemoveFullTrust,
       AddToastRegistrationMapping, UnregisterFullTrustApplication
  <2>5. CASE CloseChannel(t) \/ CallFails(t)
    BY <2>5 DEF CloseChannel, CallFails
  <2>6. QED
    BY <2>1, <2>2, <2>3, <2>4, <2>5 DEF QuietStep
<1>6. Initialize => lrp' = "up" /\ lrp = "off" /\ (timer' => listeners' = {})
  BY Zenon DEF Initialize
<1>7. GetNotificationPlatform(t) =>
        Initialize \/ (lrp # "off" /\ UNCHANGED <<lrp, timer, listeners>>)
  BY DEF GetNotificationPlatform
<1>8. CASE UNCHANGED <<lrp, listeners, timer, proxies>>
  BY <1>3, <1>4, <1>8
<1>9. CASE UNCHANGED <<lrp, listeners, proxies>> /\ timer' = FALSE
  BY <1>3, <1>4, <1>9
<1>10. CASE GetNotificationPlatform(t)
  BY <1>3, <1>4, <1>6, <1>7, <1>10
<1>11. QED
  BY <1>5, <1>8, <1>9, <1>10

(* A step of an activator call belongs to registering or to unregistering. *)
LEMMA KindsAreApart ==
  /\ Registering \intersect Unregistering = {}
  /\ "clsid" \in Registering /\ {"isempty", "unsink"} \subseteq Unregistering
  /\ {"none", "done", "failed"} \intersect (Registering \union Unregistering)
       = {}
BY DEF Registering, Unregistering

(* Every step keeps what the shared lock is for: the listeners change, the *)
(* timer is set and the process ends only as LockInv allows.               *)
LEMMA LockInvariant ==
  LockInv /\ [Next]_vars => LockInv'
<1> SUFFICES ASSUME LockInv, [Next]_vars PROVE LockInv'
  OBVIOUS
<1> DEFINE Rest == /\ CallsNeedProcess /\ OffIsEmpty /\ CallsApart
                   /\ SetupSawEmpty /\ TrackedIsNotTimed
                   /\ CallsAreWaitedFor /\ CallsHaveIds
<1>1. TypeOK' /\ Rest
  <2>1. TypeOK /\ Rest
    BY DEF LockInv, PlatformInv
  <2>2. QED
    BY <2>1, TypeInvariant
<1>2. /\ call \in [Tasks -> CallKinds] /\ id \in [Tasks -> Ids \union {0}]
      /\ pc \in [Tasks -> Steps] /\ TypeOK
  BY DEF LockInv, PlatformInv, TypeOK, PlatformTypeOK, CallKinds
<1> USE DEF CallsNeedProcess, OffIsEmpty, CallsApart, SetupSawEmpty,
        TrackedIsNotTimed, CallsAreWaitedFor, CallsHaveIds
<1>3. ASSUME NEW t \in Tasks, QuietStep(t) PROVE Rest'
  <2>1. /\ UNCHANGED <<call, id, overlap>>
        /\ pc[t] \notin Waiting
        /\ \A u \in Tasks \ {t} : pc'[u] = pc[u]
        /\ \/ lrp' = "up" /\ lrp = "off" /\ (timer' => listeners' = {})
           \/ /\ UNCHANGED <<lrp, listeners>> /\ (timer' => timer)
              /\ proxies' = proxies \/ lrp # "off"
    BY <1>1, <1>2, <1>3, QuietStepIsQuiet
  <2>2. CallsAreWaitedFor' /\ CallsHaveIds' /\ CallsApart'
    BY <1>1, <2>1
  <2>3. CallsNeedProcess' /\ OffIsEmpty'
    BY <1>1, <2>1 DEF InPlatform
  <2>4. SetupSawEmpty'
    BY <1>1, <2>1 DEF InPlatform, Unregistering
  <2>5. TrackedIsNotTimed'
    BY <1>1, <2>1
  <2>6. QED
    BY <2>2, <2>3, <2>4, <2>5
<1>4. ASSUME NEW t \in Tasks, CallRegisterActivator(t) PROVE Rest'
  <2>1. /\ pc[t] = "activator" /\ pc' = [pc EXCEPT ![t] = "in activator"]
        /\ t \in proxies /\ UNCHANGED <<lrp, timer, listeners, proxies>>
    BY <1>4 DEF CallRegisterActivator, BeginRegister, Step, Goes, process
  <2>2. lrp # "off"
    BY <1>1, <2>1
  <2>3. \/ /\ call' = [call EXCEPT ![t] = "done"] /\ id' = id
           /\ overlap' = overlap
        \/ /\ call' = [call EXCEPT ![t] = "clsid"]
           /\ \E i \in Ids : id' = [id EXCEPT ![t] = i]
           /\ ~overlap' => ~overlap /\ ~Overlaps(Unregistering)
    <3>1. AppIds(App(t)) \subseteq Ids
      BY <1>2 DEF AppIds, TypeOK, PlatformTypeOK
    <3>2. \/ /\ call' = [call EXCEPT ![t] = "done"] /\ id' = id
             /\ overlap' = overlap
          \/ \E i \in AppIds(App(t)) :
               /\ call' = [call EXCEPT ![t] = "clsid"]
               /\ id' = [id EXCEPT ![t] = i]
               /\ overlap' = (overlap \/ Overlaps(Unregistering))
      BY <1>4 DEF CallRegisterActivator, BeginRegister
    <3>3. QED
      BY <3>1, <3>2, Zenon
  <2>4. CallsAreWaitedFor' /\ CallsHaveIds'
    BY <1>1, <1>2, <2>1, <2>3 DEF Waiting, Naming, Registering
  <2>5. CallsNeedProcess' /\ OffIsEmpty'
    BY <1>1, <2>1, <2>2
  <2>6. CallsApart'
    <3>1. ASSUME ~overlap', NEW u \in Tasks, NEW v \in Tasks,
                 call'[u] \in Registering, call'[v] \in Unregistering
          PROVE  FALSE
      BY <1>1, <1>2, <2>3, <3>1, KindsAreApart DEF Overlaps
    <3>2. QED
      BY <3>1
  <2>7. call[t] = "none"
    BY <1>1, <2>1 DEF Waiting
  <2>8. SetupSawEmpty' /\ TrackedIsNotTimed'
    BY <1>1, <1>2, <2>1, <2>3, <2>7
  <2>9. QED
    BY <2>4, <2>5, <2>6, <2>8
<1>5. ASSUME NEW t \in Tasks, CallUnregisterActivator(t) PROVE Rest'
  <2>1. /\ pc[t] = "remove activator" /\ pc' = [pc EXCEPT ![t] = "in removal"]
        /\ t \in proxies /\ UNCHANGED <<lrp, timer, listeners, proxies>>
    BY <1>5 DEF CallUnregisterActivator, BeginUnregister, Step, Goes, process
  <2>2. lrp # "off"
    BY <1>1, <2>1
  <2>3. /\ \/ call' = [call EXCEPT ![t] = "isempty"] /\ id' = id
           \/ /\ call' = [call EXCEPT ![t] = "unsink"]
              /\ \E i \in Ids : id' = [id EXCEPT ![t] = i]
        /\ ~overlap' => ~overlap /\ ~Overlaps(Registering)
    <3>1. AppIds(App(t)) \subseteq Ids
      BY <1>2 DEF AppIds, TypeOK, PlatformTypeOK
    <3>2. /\ \/ call' = [call EXCEPT ![t] = "isempty"] /\ id' = id
             \/ \E i \in AppIds(App(t)) :
                  /\ call' = [call EXCEPT ![t] = "unsink"]
                  /\ id' = [id EXCEPT ![t] = i]
          /\ overlap' = (overlap \/ Overlaps(Registering))
      BY <1>5 DEF CallUnregisterActivator, BeginUnregister
    <3>3. QED
      BY <3>1, <3>2, Zenon
  <2>4. CallsAreWaitedFor' /\ CallsHaveIds'
    BY <1>1, <1>2, <2>1, <2>3 DEF Waiting, Naming, Registering
  <2>5. CallsNeedProcess' /\ OffIsEmpty'
    BY <1>1, <2>1, <2>2
  <2>6. CallsApart'
    <3>1. ASSUME ~overlap', NEW u \in Tasks, NEW v \in Tasks,
                 call'[u] \in Registering, call'[v] \in Unregistering
          PROVE  FALSE
      BY <1>1, <1>2, <2>3, <3>1, KindsAreApart DEF Overlaps
    <3>2. QED
      BY <3>1
  <2>7. call[t] = "none"
    BY <1>1, <2>1 DEF Waiting
  <2>8. SetupSawEmpty' /\ TrackedIsNotTimed'
    BY <1>1, <1>2, <2>1, <2>3, <2>7
  <2>9. QED
    BY <2>4, <2>5, <2>6, <2>8
<1>6. ASSUME NEW t \in Tasks, ActivatorReturns(t) \/ RemovalReturns(t)
      PROVE  Rest'
  <2>1. /\ call' = [call EXCEPT ![t] = "none"] /\ id' = [id EXCEPT ![t] = 0]
        /\ UNCHANGED <<lrp, timer, listeners, proxies, overlap>>
        /\ call[t] \in {"done", "failed"}
    BY <1>6 DEF ActivatorReturns, RemovalReturns, process
  <2>2. \A u \in Tasks \ {t} : pc'[u] = pc[u]
    BY <1>2, <1>6 DEF ActivatorReturns, RemovalReturns, Step, Goes
  <2>3. CallsAreWaitedFor' /\ CallsHaveIds'
    BY <1>1, <1>2, <2>1, <2>2 DEF Naming, Registering
  <2>4. CallsNeedProcess' /\ OffIsEmpty' /\ CallsApart'
    BY <1>1, <1>2, <2>1 DEF InPlatform, Registering, Unregistering
  <2>5. SetupSawEmpty' /\ TrackedIsNotTimed'
    BY <1>1, <1>2, <2>1
  <2>6. QED
    BY <2>3, <2>4, <2>5
<1>7. ASSUME NEW c \in Clients, ClientEnds(c) PROVE Rest'
  <2>1. /\ UNCHANGED <<lrp, timer, listeners, call, id, overlap>>
        /\ proxies' \subseteq proxies
        /\ \A t \in Tasks : call[t] = "none" \/ pc'[t] = pc[t]
    BY <1>2, <1>7 DEF ClientEnds, calls
  <2>2. QED
    BY <1>1, <2>1 DEF InPlatform
<1>8. ASSUME Platform PROVE Rest'
  <2>1. pc' = pc
    BY <1>8 DEF Platform
  <2>2. CASE SignalEvent \/ WaitForLifetimeEvent
    <3>1. /\ UNCHANGED <<listeners, proxies, call, id, overlap>>
          /\ lrp # "off" /\ lrp' # "off" /\ (timer' => timer)
      BY <1>1, <2>2 DEF SignalEvent, WaitForLifetimeEvent, calls
    <3>2. QED
      BY <1>1, <2>1, <3>1 DEF InPlatform
  <2>3. CASE Shutdown
    <3>1. /\ UNCHANGED <<call, id, overlap>> /\ \A t \in Tasks : ~InPlatform(t)
          /\ lrp' = "off" /\ listeners' = {} /\ timer' = FALSE /\ proxies' = {}
      BY <2>3 DEF Shutdown, ProcessEnds, calls
    <3>2. QED
      BY <1>1, <2>1, <3>1 DEF InPlatform
  <2>4. CASE PlatformCrash
    <3>1. /\ UNCHANGED <<id, overlap>>
          /\ \A t \in Tasks :
               IF InPlatform(t) THEN call'[t] = "failed"
               ELSE call'[t] = call[t]
          /\ lrp' = "off" /\ listeners' = {} /\ timer' = FALSE /\ proxies' = {}
      BY <2>4 DEF PlatformCrash, ProcessEnds
    <3>2. \A t \in Tasks : call'[t] \notin Registering \union Unregistering
      BY <3>1, KindsAreApart DEF InPlatform
    <3>3. CallsNeedProcess' /\ CallsApart' /\ OffIsEmpty'
      BY <3>1, <3>2 DEF InPlatform
    <3>4. SetupSawEmpty' /\ TrackedIsNotTimed'
      BY <3>1
    <3>5. CallsAreWaitedFor' /\ CallsHaveIds'
      BY <1>1, <2>1, <3>1, <3>2 DEF InPlatform, Naming, Registering,
         Unregistering
    <3>6. QED
      BY <3>3, <3>4, <3>5
  <2>5. ASSUME NEW i \in Ids, DropDeadSink(i) PROVE Rest'
    BY <1>1, <2>1, <2>5 DEF DropDeadSink, calls, InPlatform
  <2>6. ASSUME NEW t \in Tasks, ActivatorStep(t) PROVE Rest'
    <3>1. /\ UNCHANGED <<id, overlap, proxies, lrp>>
          /\ \A u \in Tasks \ {t} : call'[u] = call[u]
          /\ InPlatform(t)
      BY <1>2, <2>6 DEF ActivatorStep, Goto, process, StoreClsid, RegisterSink,
         RegisterSinkFails, AddListener, Cancel, UnregisterSink,
         EraseListener, RemoveRaw, RemoveClsidAndToast, IsEmpty, Setup,
         InPlatform, Registering, Unregistering
    <3>2. lrp # "off" /\ lrp' # "off" /\ pc'[t] \in Waiting
      BY <1>1, <2>1, <3>1, KindsAreApart DEF InPlatform
    <3>3. CallsNeedProcess' /\ OffIsEmpty'
      BY <3>2
    <3>4. /\ call'[t] \in Registering => call[t] \in Registering
          /\ call'[t] \in Unregistering => call[t] \in Unregistering
          /\ call'[t] \in Naming => call[t] \in Naming
      BY <1>2, <2>6 DEF ActivatorStep, Goto, StoreClsid, RegisterSink,
         RegisterSinkFails, AddListener, Cancel, UnregisterSink,
         EraseListener, RemoveRaw, RemoveClsidAndToast, IsEmpty, Setup,
         Naming, Registering, Unregistering
    <3>5. CallsAreWaitedFor' /\ CallsHaveIds'
      BY <1>1, <2>1, <3>1, <3>2, <3>4
    <3>6. CallsApart'
      <4>1. \A u \in Tasks :
              /\ call'[u] \in Registering => call[u] \in Registering
              /\ call'[u] \in Unregistering => call[u] \in Unregistering
        BY <3>1, <3>4
      <4>2. QED
        BY <1>1, <3>1, <4>1
    <3>7. SetupSawEmpty'
      <4>1. SUFFICES ASSUME ~overlap', NEW u \in Tasks, call'[u] = "setup"
                     PROVE  listeners' = {}
        OBVIOUS
      <4>2. CASE u = t
        BY <1>2, <2>6, <4>1, <4>2 DEF ActivatorStep, Goto, StoreClsid,
           RegisterSink, RegisterSinkFails, AddListener, Cancel,
           UnregisterSink, EraseListener, RemoveRaw, RemoveClsidAndToast,
           IsEmpty, Setup, process
      <4>3. CASE u # t
        <5>1. call[u] = "setup" /\ ~overlap /\ call[t] # "listen"
          BY <1>1, <3>1, <4>1, <4>3 DEF Registering, Unregistering
        <5>2. listeners' = listeners \/ listeners' = listeners \ {id[t]}
          BY <2>6, <5>1 DEF ActivatorStep, Goto, StoreClsid, RegisterSink,
             RegisterSinkFails, AddListener, Cancel, UnregisterSink,
             EraseListener, RemoveRaw, RemoveClsidAndToast, IsEmpty, Setup,
             process
        <5>3. QED
          BY <1>1, <5>1, <5>2
      <4>4. QED
        BY <4>2, <4>3
    <3>8. TrackedIsNotTimed'
      <4>1. CASE Setup(t)
        <5>1. listeners' = listeners /\ call[t] = "setup"
          BY <4>1 DEF Setup, Goto
        <5>2. QED
          BY <1>1, <3>1, <5>1
      <4>2. CASE Cancel(t)
        BY <4>2 DEF Cancel
      <4>3. CASE AddListener(t)
        <5>1. call'[t] = "cancel"
          BY <1>2, <4>3 DEF AddListener, Goto
        <5>2. QED
          BY <5>1
      <4>4. CASE ~Setup(t) /\ ~Cancel(t) /\ ~AddListener(t)
        <5>1. /\ listeners' \subseteq listeners /\ (timer' => timer)
              /\ call[t] # "cancel"
          BY <2>6, <4>4 DEF ActivatorStep, Goto, StoreClsid, RegisterSink,
             RegisterSinkFails, UnregisterSink, EraseListener, RemoveRaw,
             RemoveClsidAndToast, IsEmpty, process
        <5>2. QED
          BY <1>1, <3>1, <5>1
      <4>5. QED
        BY <4>1, <4>2, <4>3, <4>4
    <3>9. QED
      BY <3>3, <3>5, <3>6, <3>7, <3>8
  <2> HIDE DEF Rest
  <2>7. QED
    BY <1>8, <2>2, <2>3, <2>4, <2>5, <2>6 DEF Platform, PlatformStep
<1>9. ASSUME UNCHANGED vars PROVE Rest'
  <2>1. UNCHANGED <<lrp, timer, listeners, proxies, call, id, overlap, pc>>
    BY <1>9 DEF vars, platformVars, clientVars, process, calls
  <2>2. CallsNeedProcess' /\ OffIsEmpty' /\ CallsApart'
    BY <1>1, <2>1 DEF InPlatform
  <2>3. SetupSawEmpty' /\ TrackedIsNotTimed'
    BY <1>1, <2>1
  <2>4. CallsAreWaitedFor' /\ CallsHaveIds'
    BY <1>1, <2>1
  <2>5. QED
    BY <2>2, <2>3, <2>4
<1>10. QED
  BY <1>1, <1>3, <1>4, <1>5, <1>6, <1>7, <1>8, <1>9
     DEF Next, ClientStep, QuietStep, LockInv, PlatformInv

(* Nothing runs yet.                                                       *)
LEMMA InitLock == Init => LockInv
<1> SUFFICES ASSUME Init PROVE LockInv
  OBVIOUS
<1>1. PlatformTypeOK
  <2>1. owner \in Seq(Apps) /\ Len(owner) <= MaxIds
    BY BoundAssumption DEF Init, PlatformInit
  <2>2. faults \in 0..MaxFaults
    BY BoundAssumption DEF Init, PlatformInit
  <2>3. QED
    BY <2>1, <2>2 DEF Init, PlatformInit, PlatformTypeOK
<1>2. TypeOK
  BY <1>1, TaskAssumption DEF Init, TypeOK, Steps
<1>3. CallsNeedProcess /\ OffIsEmpty /\ CallsApart /\ SetupSawEmpty
  BY KindsAreApart DEF Init, PlatformInit, CallsNeedProcess, OffIsEmpty,
     CallsApart, SetupSawEmpty, InPlatform
<1>4. TrackedIsNotTimed /\ CallsAreWaitedFor /\ CallsHaveIds
  BY DEF Init, PlatformInit, TrackedIsNotTimed, CallsAreWaitedFor,
     CallsHaveIds, Naming, Registering
<1>5. QED
  BY <1>2, <1>3, <1>4 DEF LockInv, PlatformInv

(* LockInv, the inductive invariant of the process and its lock.           *)
THEOREM LockIsKept == Spec => []LockInv
BY InitLock, LockInvariant, PTL DEF Spec

(* PlatformInv: the types, no call in a process that is gone, nothing held *)
(* by one that is off, and the timer only set for an empty platform.       *)
THEOREM PlatformIsCorrect == Spec => []PlatformInv
BY LockIsKept, PTL DEF LockInv

(* TrackedIsNotTimed: as long as no two calls of apps have overlapped in   *)
(* the process, it is not about to end while an app has a listener, but    *)
(* before Cancel.  Of processes in which calls overlapped it says nothing. *)
THEOREM TrackedAppsAreNotTimed == Spec => []TrackedIsNotTimed
BY LockIsKept, PTL DEF LockInv

-----------------------------------------------------------------------------
(* The identifiers of the apps.                                            *)
ApiSteps == Undoing \union {"unregister", "unregister first", "close channel",
                            "remove activator", "in removal",
                            "remove full trust"}

(* A stored identifier was made for an app, one that a thread works with   *)
(* for its own app; an app has one at most.                                *)
StoredAreOwned ==
  raw \union clsid \union listeners \union channels \subseteq DOMAIN owner
OneIdPerApp == \A i, j \in raw : owner[i] = owner[j] => i = j
OwnedBy(i, a) == i \in DOMAIN owner /\ owner[i] = a
IdIsOwned == \A t \in Tasks : call[t] \in Naming => OwnedBy(id[t], App(t))
AppIdIsOwned == \A t \in Tasks : appId[t] # 0 => OwnedBy(appId[t], App(t))
RemovedIsGone == \A t \in Tasks : call[t] = "unclsid" => id[t] \notin raw

(* Who makes which call, and where it is.                                  *)
CallsFitSteps ==
  \A t \in Tasks :
    /\ call[t] \in Registering => pc[t] = "in activator"
    /\ call[t] \in Unregistering => pc[t] = "in removal"
    /\ pc[t] \in ApiSteps => t \in ApiTasks
    /\ pc[t] \in {"create channel", "toast"} => t \in ChannelTasks
    /\ pc[t] \in Undoing => t \in failed

NamesInv ==
  /\ LockInv /\ StoredAreOwned /\ OneIdPerApp /\ IdIsOwned /\ AppIdIsOwned
  /\ RemovedIsGone /\ CallsFitSteps

(* An identifier with a channel has its CLSID, or the CreateChannelAsync   *)
(* that made it failed or has not stored it yet.                           *)
Early(t) == \/ pc[t] \in {"foreground", "activator"}
            \/ pc[t] = "in activator" /\ call[t] \in {"clsid", "failed"}
ChannelsAreStored ==
  \A i \in (raw \intersect channels) \ clsid :
    \E t \in ChannelTasks : t \in failed \/ (appId[t] = i /\ Early(t))
StoresItsOwn ==
  \A t \in ChannelTasks :
    call[t] = "clsid" /\ appId[t] \in raw => id[t] = appId[t]
StartInv == NamesInv /\ ChannelsAreStored /\ StoresItsOwn

(* What an app that makes one call at a time has in the platform.          *)
Mine(a) == {i \in DOMAIN owner : owner[i] = a}
Emptied(t) == \/ pc[t] = "remove full trust"
              \/ /\ pc[t] = "in removal"
                 /\ call[t] \in {"isempty", "setup", "done"}
LeftIsKnown(t) ==
  LET mine == Mine(App(t)) IN
  /\ Emptied(t) => mine \intersect (listeners \union clsid \union raw) = {}
  /\ call[t] = "unclsid" => /\ mine \intersect (listeners \union raw) = {}
                            /\ mine \intersect clsid \subseteq {id[t]}
  /\ call[t] \notin {"unclsid", "failed"} =>
       mine \intersect (listeners \union clsid) \subseteq raw
  /\ call[t] \in Naming \ {"unclsid"} => id[t] \in raw
  /\ call[t] = "unraw" => id[t] \notin listeners
LeftInv ==
  NamesInv /\ \A t \in Tasks \ failed : Sequential(App(t)) => LeftIsKnown(t)

(* What a process that is the only one of its name and calls from one      *)
(* thread has in the platform.                                             *)
Stored(c) == \E i \in clsid : AppIds(AppOf[c]) = {i}
RegistrationIsKnown(t) ==
  LET c == ClientOf[t] IN
  /\ pc[t] \in {"foreground", "activator", "in activator"} =>
       AppIds(App(t)) # {}
  /\ pc[t] = "in activator" /\ call[t] # "failed" =>
       /\ id[t] \in AppIds(App(t))
       /\ call[t] # "clsid" => id[t] \in clsid
  /\ pc[t] = "remove full trust" => ~longRunning[c]
  /\ longRunning[c] /\ t \notin failed /\ pc[t] # "in removal" => Stored(c)
RegistersByThread ==
  \A c \in Clients : longRunning[c] \/ foreground[c] # "no" =>
    \E t \in ApiTasks : ClientOf[t] = c
SinkIsKnown(t) ==
  LET c == ClientOf[t] IN
  /\ pc[t] \in {"full trust", "foreground", "undo full trust", "close channel",
                "remove activator", "in removal", "remove full trust"}
       => foreground[c] = "no"
  /\ foreground[c] = "yes" => \E i \in AppIds(App(t)) : fg[i] = c
ClientInv ==
  /\ NamesInv /\ RegistersByThread
  /\ \A t \in ApiTasks :
       Alone(ClientOf[t]) /\ OneCaller(ClientOf[t]) =>
         RegistrationIsKnown(t) /\ SinkIsKnown(t)

-----------------------------------------------------------------------------
(* An identifier is made for an app that has none, and the identifiers of  *)
(* an app are only removed by its own threads.                             *)
MakesId(t) ==
  /\ pc[t] = "full trust" /\ AppIds(App(t)) = {}
  /\ \E p : p # "full trust" /\ Goes(t, "full trust", p)
  /\ owner' = Append(owner, App(t)) /\ raw' = raw \union {Len(owner) + 1}
  /\ UNCHANGED <<clsid, listeners, channels, call, id>>
DropsIds(t) ==
  \/ /\ \E p \in {"undo full trust", "remove full trust"} : Goes(t, p, "idle")
     /\ raw' = raw \ AppIds(App(t)) /\ owner' = owner
     /\ UNCHANGED <<clsid, listeners, call, id, fg>>
  \/ RemoveRaw(t) /\ pc' = pc

(* Only these steps touch the identifiers.                                 *)
LEMMA RawStep ==
  ASSUME TypeOK, [Next]_vars
  PROVE  \/ UNCHANGED <<owner, raw>>
         \/ \E t \in Tasks : MakesId(t) \/ DropsIds(t)
<1> USE DEF platformVars, storage, core, process, calls
<1>1. ASSUME NEW t \in Tasks,
             Register(t) \/ CreateChannelAsync(t) \/ Unregister(t)
               \/ UnregisterAll(t)
      PROVE  UNCHANGED <<owner, raw>>
  BY <1>1 DEF Register, CreateChannelAsync, Unregister, UnregisterAll,
     BeginCall, Connect
<1>2. ASSUME NEW t \in Tasks, ClientStep(t)
      PROVE  UNCHANGED <<owner, raw>> \/ MakesId(t) \/ DropsIds(t)
  <2>1. CASE RegisterFullTrust(t) \/ FullTrustFails(t)
    BY <2>1 DEF RegisterFullTrust, FullTrustFails, BuildAppIdentifier,
       RegisterFullTrustApplication, RegisterFullTrustFails, MakesId, Step,
       Goes
  <2>2. CASE UndoFullTrust(t) \/ RemoveFullTrust(t)
    BY <2>2 DEF UndoFullTrust, RemoveFullTrust, DropsIds, Step, Goes,
       UnregisterFullTrustApplication
  <2>3. CASE CreateChannel(t) \/ CallRegisterActivator(t)
             \/ ActivatorReturns(t) \/ AddToast(t) \/ CloseChannel(t)
    BY <2>3 DEF CreateChannel, CallRegisterActivator, BeginRegister,
       ActivatorReturns, AddToast, AddToastRegistrationMapping, CloseChannel
  <2>4. CASE RegisterForeground(t) \/ UndoForeground(t)
             \/ UnregisterForeground(t)
    BY <2>4 DEF RegisterForeground, UndoForeground, UnregisterForeground,
       RegisterForegroundActivator, UnregisterForegroundActivator
  <2>5. CASE CallUnregisterActivator(t) \/ RemovalReturns(t) \/ CallFails(t)
    BY <2>5 DEF CallUnregisterActivator, BeginUnregister, RemovalReturns,
       CallFails
  <2>6. QED
    BY <1>2, <2>1, <2>2, <2>3, <2>4, <2>5 DEF ClientStep
<1>3. ASSUME NEW c \in Clients, ClientEnds(c) PROVE UNCHANGED <<owner, raw>>
  BY <1>3 DEF ClientEnds
<1>4. ASSUME Platform
      PROVE  UNCHANGED <<owner, raw>> \/ \E t \in Tasks : DropsIds(t)
  <2>1. ASSUME NEW t \in Tasks, ActivatorStep(t), ~RemoveRaw(t)
        PROVE  UNCHANGED <<owner, raw>>
    BY <2>1 DEF ActivatorStep, StoreClsid, RegisterSink, RegisterSinkFails,
       AddListener, Cancel, UnregisterSink, EraseListener,
       RemoveClsidAndToast, IsEmpty, Setup
  <2>2. QED
    BY <1>4, <2>1 DEF Platform, PlatformStep, SignalEvent,
       WaitForLifetimeEvent, Shutdown, PlatformCrash, DropDeadSink, DropsIds
<1>5. CASE UNCHANGED vars
  BY <1>5 DEF vars
<1>6. QED
  BY <1>1, <1>2, <1>3, <1>4, <1>5 DEF Next

(* What was made for an app stays its own; a new identifier is a new one.  *)
LEMMA OwnerStep ==
  ASSUME TypeOK, StoredAreOwned, [Next]_vars
  PROVE  /\ \A i \in DOMAIN owner : i \in DOMAIN owner' /\ owner'[i] = owner[i]
         /\ \A i \in DOMAIN owner : i \in raw' => i \in raw
         /\ raw' \subseteq DOMAIN owner'
         /\ \A t \in Tasks : MakesId(t) =>
              raw' = raw \union {Len(owner) + 1}
              /\ Len(owner) + 1 \notin DOMAIN owner
              /\ DOMAIN owner' = DOMAIN owner \union {Len(owner) + 1}
              /\ owner'[Len(owner) + 1] = App(t)
<1>1. /\ owner \in Seq(Apps) /\ Len(owner) \in Nat
      /\ DOMAIN owner = 1..Len(owner)
      /\ raw \subseteq DOMAIN owner
  BY DEF TypeOK, PlatformTypeOK, StoredAreOwned
<1>2. ASSUME NEW t \in Tasks, MakesId(t)
      PROVE  /\ DOMAIN owner' = 1..(Len(owner) + 1)
             /\ \A i \in 1..Len(owner) : owner'[i] = owner[i]
             /\ owner'[Len(owner) + 1] = App(t)
             /\ raw' = raw \union {Len(owner) + 1}
  <2>1. App(t) \in Apps /\ owner' = Append(owner, App(t))
    BY <1>2, TaskAssumption DEF MakesId, App
  <2>2. /\ owner' \in Seq(Apps) /\ Len(owner') = Len(owner) + 1
        /\ \A i \in 1..Len(owner) : owner'[i] = owner[i]
        /\ owner'[Len(owner) + 1] = App(t)
    BY <1>1, <2>1
  <2>3. DOMAIN owner' = 1..(Len(owner) + 1)
    BY <2>2
  <2>4. QED
    BY <1>2, <2>2, <2>3 DEF MakesId
<1>3. /\ Len(owner) + 1 \notin 1..Len(owner)
      /\ 1..(Len(owner) + 1) = 1..Len(owner) \union {Len(owner) + 1}
  BY <1>1
<1>4. ASSUME NEW t \in Tasks, DropsIds(t)
      PROVE  owner' = owner /\ raw' \subseteq raw
  BY <1>4 DEF DropsIds, RemoveRaw
<1>5. QED
  BY <1>1, <1>2, <1>3, <1>4, RawStep

(* BuildAppIdentifier finds or makes the identifier of the app.            *)
LEMMA BuiltIsOwned ==
  ASSUME TypeOK, StoredAreOwned, NEW a \in Apps, NEW i,
         BuildAppIdentifier(a, i)
  PROVE  i \in DOMAIN owner' /\ owner'[i] = a /\ i \in raw'
<1>1. owner \in Seq(Apps) /\ Len(owner) \in Nat /\ DOMAIN owner = 1..Len(owner)
      /\ raw \subseteq DOMAIN owner
  BY DEF TypeOK, PlatformTypeOK, StoredAreOwned
<1>2. CASE i \in AppIds(a) /\ UNCHANGED <<owner, raw>>
  BY <1>1, <1>2 DEF AppIds
<1>3. CASE /\ i = Len(owner) + 1
           /\ owner' = Append(owner, a) /\ raw' = raw \union {i}
  <2>1. /\ owner' \in Seq(Apps) /\ Len(owner') = Len(owner) + 1
        /\ owner'[Len(owner) + 1] = a
    BY <1>1, <1>3
  <2>2. Len(owner) + 1 \in DOMAIN owner'
    BY <1>1, <2>1
  <2>3. QED
    BY <1>3, <2>1, <2>2
<1>4. QED
  BY <1>2, <1>3 DEF BuildAppIdentifier

(* What a step is for one thread: one of its own, the end of its process   *)
(* or of the LRP, or nothing.                                              *)
Rests(t) == /\ pc'[t] = pc[t] /\ call'[t] = call[t]
            /\ id'[t] = id[t] /\ appId'[t] = appId[t]
OwnStep(t) ==
  \/ QuietStep(t)
  \/ CallRegisterActivator(t) \/ CallUnregisterActivator(t)
  \/ ActivatorReturns(t) \/ RemovalReturns(t)
  \/ Platform /\ ActivatorStep(t)
IsCutShort(t) == /\ pc'[t] = pc[t] /\ id'[t] = id[t] /\ appId'[t] = appId[t]
                 /\ InPlatform(t) /\ call'[t] = "failed"
IsEnded(t) == /\ call[t] = "none" /\ call'[t] = call[t] /\ id'[t] = id[t]
              /\ appId'[t] = appId[t] /\ pc'[t] = "idle" /\ t \in failed'

(* Those are the cases, and a failure is never forgotten.                  *)
LEMMA ThreadStep ==
  ASSUME LockInv, [Next]_vars, NEW t \in Tasks
  PROVE  /\ failed \subseteq failed'
         /\ Rests(t) \/ OwnStep(t) \/ IsCutShort(t) \/ IsEnded(t)
<1>1. TypeOK /\ OffIsEmpty
  BY DEF LockInv, PlatformInv
<1>2. ASSUME NEW u \in Tasks, QuietStep(u)
      PROVE  /\ failed \subseteq failed'
             /\ u # t => Rests(t)
  <2>1. UNCHANGED <<call, id>> /\ (u # t => pc'[t] = pc[t])
    BY <1>1, <1>2, QuietStepIsQuiet
  <2>2. (u # t => appId'[t] = appId[t]) /\ failed \subseteq failed'
    BY <1>1, <1>2 DEF QuietStep, Register, CreateChannelAsync, Unregister,
       UnregisterAll, RegisterFullTrust, FullTrustFails, CreateChannel,
       RegisterForeground, AddToast, UndoForeground, UndoFullTrust,
       UnregisterForeground, CloseChannel, RemoveFullTrust, CallFails, TypeOK
  <2>3. QED
    BY <2>1, <2>2 DEF Rests
<1>3. ASSUME NEW u \in Tasks, CallRegisterActivator(u)
                               \/ CallUnregisterActivator(u)
      PROVE  /\ failed \subseteq failed'
             /\ u # t => Rests(t)
  BY <1>1, <1>3 DEF CallRegisterActivator, CallUnregisterActivator,
     BeginRegister, BeginUnregister, Rests, TypeOK, PlatformTypeOK, Step, Goes
<1>4. ASSUME NEW u \in Tasks, ActivatorReturns(u) \/ RemovalReturns(u)
      PROVE  /\ failed \subseteq failed'
             /\ u # t => Rests(t)
  BY <1>1, <1>4 DEF ActivatorReturns, RemovalReturns, Rests, TypeOK,
     PlatformTypeOK, Step, Goes
<1>5. ASSUME NEW c \in Clients, ClientEnds(c)
      PROVE  /\ failed \subseteq failed'
             /\ Rests(t) \/ IsEnded(t)
  BY <1>1, <1>5 DEF ClientEnds, Rests, IsEnded, TypeOK, calls
<1>6. ASSUME Platform
      PROVE  /\ failed \subseteq failed'
             /\ Rests(t) \/ OwnStep(t) \/ IsCutShort(t)
  <2>1. UNCHANGED <<pc, appId, failed>>
    BY <1>6 DEF Platform
  <2>2. CASE SignalEvent \/ WaitForLifetimeEvent \/ Shutdown
             \/ \E i \in Ids : DropDeadSink(i)
    BY <2>1, <2>2 DEF SignalEvent, WaitForLifetimeEvent, Shutdown,
       DropDeadSink, Rests, calls
  <2>3. CASE PlatformCrash
    BY <2>1, <2>3 DEF PlatformCrash, Rests, IsCutShort
  <2>4. ASSUME NEW u \in Tasks, ActivatorStep(u), u # t PROVE Rests(t)
    BY <1>1, <2>1, <2>4 DEF ActivatorStep, Goto, StoreClsid, RegisterSink,
       RegisterSinkFails, AddListener, Cancel, UnregisterSink, EraseListener,
       RemoveRaw, RemoveClsidAndToast, IsEmpty, Setup, Rests, TypeOK,
       PlatformTypeOK
  <2>5. QED
    BY <1>6, <2>1, <2>2, <2>3, <2>4 DEF Platform, PlatformStep, OwnStep
<1>7. CASE UNCHANGED vars
  BY <1>7 DEF vars, platformVars, clientVars, calls, Rests
<1>8. QED
  BY <1>2, <1>3, <1>4, <1>5, <1>6, <1>7
     DEF Next, ClientStep, QuietStep, OwnStep

(* What comes into the tables of the platform and goes out of them.        *)
ComesIn ==
  /\ \A i \in clsid' \ clsid : \E t \in Tasks : StoreClsid(t) /\ i = id[t]
  /\ \A i \in listeners' \ listeners :
       \/ lrp = "off" /\ i \in raw
       \/ \E t \in Tasks : AddListener(t) /\ i = id[t]
  /\ \A i \in channels' \ channels :
       \E t \in Tasks :
         /\ CreateChannel(t) /\ appId[t] = i /\ appId[t] # 0
         /\ UNCHANGED <<owner, raw, clsid>>
GoesOut ==
  \A i \in clsid \ clsid' :
    \E t \in Tasks : call[t] = "unclsid" /\ i = id[t] /\ raw' = raw

(* An identifier is new in a table because of its own app's thread, or     *)
(* because a starting process read it; a CLSID only goes once its          *)
(* identifier is gone.                                                     *)
LEMMA TablesStep ==
  ASSUME TypeOK, [Next]_vars
  PROVE  ComesIn /\ GoesOut
<1> USE DEF platformVars, storage, core, process, calls
<1>1. ASSUME NEW t \in Tasks,
             Register(t) \/ CreateChannelAsync(t) \/ Unregister(t)
               \/ UnregisterAll(t)
      PROVE  clsid' = clsid /\ channels' = channels
             /\ \/ listeners' \subseteq listeners
                \/ lrp = "off" /\ listeners' \subseteq raw
  BY <1>1 DEF Register, CreateChannelAsync, Unregister, UnregisterAll,
     BeginCall, Connect, GetNotificationPlatform, Initialize, TrackedApps
<1>2. ASSUME NEW t \in Tasks, ClientStep(t), ~CreateChannel(t)
      PROVE  clsid' = clsid /\ channels' \subseteq channels
             /\ \/ listeners' \subseteq listeners
                \/ lrp = "off" /\ listeners' \subseteq raw
  <2>1. CASE RegisterFullTrust(t) \/ FullTrustFails(t) \/ UndoFullTrust(t)
             \/ RemoveFullTrust(t)
    BY <2>1 DEF RegisterFullTrust, FullTrustFails, UndoFullTrust,
       RegisterFullTrustApplication, RegisterFullTrustFails,
       RemoveFullTrust, UnregisterFullTrustApplication
  <2>2. CASE CallRegisterActivator(t) \/ ActivatorReturns(t) \/ AddToast(t)
             \/ CloseChannel(t)
    BY <2>2 DEF CallRegisterActivator, BeginRegister, ActivatorReturns,
       AddToast, AddToastRegistrationMapping, CloseChannel,
       GetNotificationPlatform, Initialize, TrackedApps
  <2>3. CASE RegisterForeground(t) \/ UndoForeground(t)
             \/ UnregisterForeground(t)
    BY <2>3 DEF RegisterForeground, UndoForeground, UnregisterForeground,
       RegisterForegroundActivator, UnregisterForegroundActivator
  <2>4. CASE CallUnregisterActivator(t) \/ RemovalReturns(t) \/ CallFails(t)
    BY <2>4 DEF CallUnregisterActivator, BeginUnregister, RemovalReturns,
       CallFails
  <2>5. QED
    BY <1>2, <2>1, <2>2, <2>3, <2>4 DEF ClientStep
<1>3. ASSUME NEW t \in Tasks, CreateChannel(t)
      PROVE  /\ UNCHANGED <<owner, raw, clsid, listeners>>
             /\ channels' = channels \union {appId[t]} /\ appId[t] # 0
  <2>1. appId[t] \in Ids
    BY <1>3 DEF CreateChannel, TypeOK, PlatformTypeOK
  <2>2. appId[t] # 0
    BY <2>1, BoundAssumption DEF Ids
  <2>3. QED
    BY <1>3, <2>2 DEF CreateChannel
<1>4. ASSUME NEW c \in Clients, ClientEnds(c)
      PROVE  UNCHANGED <<clsid, listeners, channels>>
  BY <1>4 DEF ClientEnds
<1>5. ASSUME Platform
      PROVE  ComesIn /\ GoesOut
  <2>1. ASSUME NEW t \in Tasks, ActivatorStep(t)
        PROVE  /\ channels' = channels
               /\ \/ clsid' = clsid
                  \/ StoreClsid(t) /\ clsid' = clsid \union {id[t]}
                  \/ call[t] = "unclsid" /\ clsid' = clsid \ {id[t]}
                     /\ raw' = raw
               /\ \/ listeners' \subseteq listeners
                  \/ AddListener(t)
                     /\ listeners' = listeners \union {id[t]}
    BY <2>1 DEF ActivatorStep, Goto, StoreClsid, RegisterSink,
       RegisterSinkFails, AddListener, Cancel, UnregisterSink, EraseListener,
       RemoveRaw, RemoveClsidAndToast, IsEmpty, Setup
  <2>2. ASSUME NEW t \in Tasks, ActivatorStep(t)
        PROVE  ComesIn /\ GoesOut
    BY <2>1, <2>2 DEF ComesIn, GoesOut
  <2>3. ASSUME \/ SignalEvent \/ WaitForLifetimeEvent \/ Shutdown
               \/ PlatformCrash \/ \E i \in Ids : DropDeadSink(i)
        PROVE  clsid' = clsid /\ channels' = channels
               /\ listeners' \subseteq listeners
    BY <2>3 DEF SignalEvent, WaitForLifetimeEvent, Shutdown, PlatformCrash,
       ProcessEnds, DropDeadSink
  <2>4. QED
    BY <1>5, <2>2, <2>3 DEF Platform, PlatformStep, ComesIn, GoesOut
<1>6. CASE UNCHANGED vars
  BY <1>6 DEF vars, ComesIn, GoesOut
<1>7. ASSUME NEW t \in Tasks, CreateChannel(t) PROVE ComesIn /\ GoesOut
  BY <1>3, <1>7 DEF ComesIn, GoesOut
<1>8. ASSUME clsid' = clsid, channels' \subseteq channels,
             \/ listeners' \subseteq listeners
             \/ lrp = "off" /\ listeners' \subseteq raw
      PROVE  ComesIn /\ GoesOut
  BY <1>8 DEF ComesIn, GoesOut
<1>9. QED
  BY <1>1, <1>2, <1>4, <1>5, <1>6, <1>7, <1>8 DEF Next

(* An activator call works on the identifier it found when it began, and a *)
(* thread keeps the one RegisterFullTrustApplication returned.             *)
LEMMA ThreadIds ==
  ASSUME LockInv, [Next]_vars, NEW t \in Tasks
  PROVE  /\ call'[t] \in Naming =>
              \/ call[t] \in Naming /\ id'[t] = id[t]
              \/ id'[t] \in AppIds(App(t)) /\ UNCHANGED <<owner, raw>>
         /\ call'[t] = "unclsid" =>
              id'[t] = id[t] /\ (call[t] = "unclsid" \/ RemoveRaw(t))
         /\ appId'[t] # 0 =>
              \/ appId'[t] = appId[t]
              \/ BuildAppIdentifier(App(t), appId'[t])
<1> DEFINE Goal == /\ call'[t] \in Naming =>
                        \/ call[t] \in Naming /\ id'[t] = id[t]
                        \/ id'[t] \in AppIds(App(t))
                           /\ UNCHANGED <<owner, raw>>
                   /\ call'[t] = "unclsid" =>
                        /\ id'[t] = id[t]
                        /\ call[t] = "unclsid" \/ RemoveRaw(t)
                   /\ appId'[t] # 0 =>
                        \/ appId'[t] = appId[t]
                        \/ BuildAppIdentifier(App(t), appId'[t])
<1> SUFFICES Goal
  OBVIOUS
<1>1. TypeOK /\ OffIsEmpty
  BY DEF LockInv, PlatformInv
<1>2. CASE Rests(t) \/ IsEnded(t)
  BY <1>2 DEF Rests, IsEnded
<1>3. CASE IsCutShort(t)
  BY <1>3 DEF IsCutShort, Naming, Registering
<1>4. CASE QuietStep(t)
  <2>1. UNCHANGED <<call, id>>
    BY <1>1, <1>4, QuietStepIsQuiet
  <2>2. CASE RegisterFullTrust(t)
    <3>1. appId \in [Tasks -> Ids \union {0}]
      BY <1>1 DEF TypeOK
    <3>2. BuildAppIdentifier(App(t), appId'[t])
      BY <2>2, <3>1 DEF RegisterFullTrust, RegisterFullTrustApplication
    <3>3. QED
      BY <2>1, <3>2 DEF Naming, Registering
  <2>3. CASE ~RegisterFullTrust(t)
    <3>1. appId'[t] = appId[t] \/ appId'[t] = 0
      BY <1>1, <1>4, <2>3 DEF QuietStep, Register, CreateChannelAsync,
         Unregister, UnregisterAll, FullTrustFails, CreateChannel,
         RegisterForeground, AddToast, UndoForeground, UndoFullTrust,
         UnregisterForeground, CloseChannel, RemoveFullTrust, CallFails,
         TypeOK
    <3>2. QED
      BY <2>1, <3>1 DEF Naming, Registering
  <2>4. QED
    BY <2>2, <2>3
<1>5. CASE CallRegisterActivator(t) \/ CallUnregisterActivator(t)
  <2>1. /\ \/ call'[t] \in {"done", "isempty"}
           \/ call'[t] \in {"clsid", "unsink"} /\ id'[t] \in AppIds(App(t))
        /\ UNCHANGED <<owner, raw, appId>>
    BY <1>1, <1>5 DEF CallRegisterActivator, CallUnregisterActivator,
       BeginRegister, BeginUnregister, TypeOK, PlatformTypeOK, storage
  <2>2. QED
    BY <2>1 DEF Naming, Registering
<1>6. CASE ActivatorReturns(t) \/ RemovalReturns(t)
  BY <1>1, <1>6 DEF ActivatorReturns, RemovalReturns, TypeOK, PlatformTypeOK,
     Naming, Registering
<1>7. CASE Platform /\ ActivatorStep(t)
  <2>1. UNCHANGED <<id, appId>>
    BY <1>7 DEF Platform, ActivatorStep, Goto, StoreClsid, RegisterSink,
       RegisterSinkFails, AddListener, Cancel, UnregisterSink, EraseListener,
       RemoveRaw, RemoveClsidAndToast, IsEmpty, Setup
  <2>2. /\ call'[t] \in Naming => call[t] \in Naming
        /\ call'[t] = "unclsid" => RemoveRaw(t)
    BY <1>1, <1>7 DEF ActivatorStep, Goto, StoreClsid, RegisterSink,
       RegisterSinkFails, AddListener, Cancel, UnregisterSink, EraseListener,
       RemoveRaw, RemoveClsidAndToast, IsEmpty, Setup, TypeOK, PlatformTypeOK,
       Naming, Registering
  <2>3. QED
    BY <2>1, <2>2
<1> HIDE DEF Goal
<1>8. QED
  BY <1>2, <1>3, <1>4, <1>5, <1>6, <1>7, ThreadStep DEF OwnStep

(* A thread registers from CallRegisterActivator on and unregisters from   *)
(* CallUnregisterActivator on, and undoes only what failed.                *)
LEMMA CallsFit ==
  ASSUME LockInv, CallsFitSteps, [Next]_vars
  PROVE  CallsFitSteps'
<1> DEFINE Fits(t) == /\ call[t] \in Registering => pc[t] = "in activator"
                      /\ call[t] \in Unregistering => pc[t] = "in removal"
                      /\ pc[t] \in ApiSteps => t \in ApiTasks
                      /\ pc[t] \in {"create channel", "toast"} =>
                           t \in ChannelTasks
                      /\ pc[t] \in Undoing => t \in failed
<1> SUFFICES ASSUME NEW t \in Tasks PROVE Fits(t)'
  BY DEF CallsFitSteps
<1>1. TypeOK /\ OffIsEmpty /\ CallsAreWaitedFor /\ Fits(t)
  BY DEF LockInv, PlatformInv, CallsFitSteps
<1>2. failed \subseteq failed'
  BY ThreadStep
<1>3. CASE Rests(t)
  BY <1>1, <1>2, <1>3 DEF Rests
<1>4. CASE IsEnded(t)
  BY <1>1, <1>4, KindsAreApart DEF IsEnded, ApiSteps, Undoing
<1>5. CASE IsCutShort(t)
  BY <1>1, <1>2, <1>5, KindsAreApart DEF IsCutShort
<1>6. CASE QuietStep(t)
  <2>1. call'[t] = "none"
    BY <1>1, <1>6, QuietStepIsQuiet DEF CallsAreWaitedFor
  <2>2. call'[t] \notin Registering \union Unregistering
    BY <2>1, KindsAreApart
  <2>3. pc \in [Tasks -> Steps]
    BY <1>1 DEF TypeOK
  <2>4. CASE Register(t) \/ CreateChannelAsync(t) \/ Unregister(t)
             \/ UnregisterAll(t)
    BY <2>2, <2>3, <2>4 DEF Register, CreateChannelAsync, Unregister,
       UnregisterAll, BeginCall, Begin, Goes, ApiSteps, Undoing
  <2>5. CASE RegisterFullTrust(t) \/ CreateChannel(t)
             \/ RegisterForeground(t) \/ AddToast(t)
    BY <2>2, <2>3, <2>5 DEF RegisterFullTrust, CreateChannel,
       RegisterForeground, AddToast, Step, Goes, ApiSteps, Undoing
  <2>6. CASE UndoForeground(t)
    BY <1>1, <1>2, <2>2, <2>3, <2>6 DEF UndoForeground, Step, Goes, ApiSteps,
       Undoing
  <2>7. CASE UnregisterForeground(t) \/ CloseChannel(t)
    BY <1>1, <2>2, <2>3, <2>7 DEF UnregisterForeground, CloseChannel, Step,
       Goes, ApiSteps, Undoing
  <2>8. CASE FullTrustFails(t) \/ UndoFullTrust(t) \/ RemoveFullTrust(t)
    BY <2>2, <2>3, <2>8 DEF FullTrustFails, UndoFullTrust, RemoveFullTrust,
       Step, Goes, ApiSteps, Undoing
  <2>9. CASE CallFails(t)
    <3>1. t \in failed'
      BY <2>9 DEF CallFails
    <3>2. /\ pc'[t] \in {"idle", "undo full trust", "undo foreground"}
          /\ pc'[t] # "idle" => t \in ApiTasks
      BY <2>3, <2>9 DEF CallFails, Step, Goes, ApiTasks
    <3>3. QED
      BY <2>2, <3>1, <3>2 DEF Undoing, ApiSteps
  <2>10. QED
    BY <1>6, <2>4, <2>5, <2>6, <2>7, <2>8, <2>9 DEF QuietStep
<1>7. CASE CallRegisterActivator(t)
  <2>1. call'[t] \in {"done", "clsid"} /\ pc'[t] = "in activator"
    BY <1>1, <1>7 DEF CallRegisterActivator, BeginRegister, Step, Goes,
       TypeOK, PlatformTypeOK
  <2>2. QED
    BY <2>1, KindsAreApart DEF Registering, Unregistering, ApiSteps, Undoing
<1>8. CASE CallUnregisterActivator(t)
  <2>1. /\ call'[t] \in {"isempty", "unsink"} /\ pc'[t] = "in removal"
        /\ pc[t] = "remove activator"
    BY <1>1, <1>8 DEF CallUnregisterActivator, BeginUnregister, Step, Goes,
       TypeOK, PlatformTypeOK
  <2>2. QED
    BY <1>1, <2>1 DEF Registering, Unregistering, ApiSteps, Undoing
<1>9. CASE ActivatorReturns(t)
  <2>1. call'[t] = "none" /\ call'[t] \notin Registering \union Unregistering
    BY <1>1, <1>9, KindsAreApart DEF ActivatorReturns, TypeOK, PlatformTypeOK
  <2>2. \/ pc'[t] = "idle"
        \/ pc'[t] = "toast" /\ t \in ChannelTasks
        \/ pc'[t] = "undo foreground" /\ t \in ApiTasks /\ t \in failed'
    BY <1>1, <1>9 DEF ActivatorReturns, Step, Goes, TypeOK, ApiTasks
  <2>3. QED
    BY <2>1, <2>2 DEF ApiSteps, Undoing
<1>10. CASE RemovalReturns(t)
  <2>1. call'[t] = "none" /\ call'[t] \notin Registering \union Unregistering
    BY <1>1, <1>10, KindsAreApart DEF RemovalReturns, TypeOK, PlatformTypeOK
  <2>2. /\ pc[t] = "in removal"
        /\ pc'[t] \in {"idle", "remove full trust"}
    BY <1>1, <1>10 DEF RemovalReturns, Step, Goes, TypeOK
  <2>3. QED
    BY <1>1, <2>1, <2>2 DEF ApiSteps, Undoing
<1>11. CASE Platform /\ ActivatorStep(t)
  <2>1. pc' = pc /\ failed' = failed
    BY <1>11 DEF Platform
  <2>2. /\ call'[t] \in Registering => call[t] \in Registering
        /\ call'[t] \in Unregistering => call[t] \in Unregistering
    BY <1>1, <1>11 DEF ActivatorStep, Goto, StoreClsid, RegisterSink,
       RegisterSinkFails, AddListener, Cancel, UnregisterSink, EraseListener,
       RemoveRaw, RemoveClsidAndToast, IsEmpty, Setup, TypeOK, PlatformTypeOK,
       Registering, Unregistering
  <2>3. QED
    BY <1>1, <2>1, <2>2
<1> HIDE DEF Fits
<1>12. QED
  BY <1>3, <1>4, <1>5, <1>6, <1>7, <1>8, <1>9, <1>10, <1>11, ThreadStep
     DEF OwnStep

(* Every step keeps the identifiers apart: each belongs to one app, and an *)
(* app has one at most.                                                    *)
LEMMA NamesInvariant ==
  NamesInv /\ [Next]_vars => NamesInv'
<1> SUFFICES ASSUME NamesInv, [Next]_vars PROVE NamesInv'
  OBVIOUS
<1>1. /\ LockInv /\ StoredAreOwned /\ OneIdPerApp /\ IdIsOwned
      /\ AppIdIsOwned /\ RemovedIsGone /\ CallsFitSteps /\ TypeOK
  BY DEF NamesInv, LockInv, PlatformInv
<1>2. LockInv' /\ CallsFitSteps'
  BY <1>1, LockInvariant, CallsFit
<1>3. \A t \in Tasks : App(t) \in Apps
  BY TaskAssumption DEF App
<1>4. \A i, a : OwnedBy(i, a) => OwnedBy(i, a)'
  BY <1>1, OwnerStep DEF OwnedBy
<1>5. StoredAreOwned'
  <2>1. \A i \in DOMAIN owner : i \in DOMAIN owner'
    BY <1>1, OwnerStep
  <2>2. raw' \subseteq DOMAIN owner'
    BY <1>1, OwnerStep
  <2>3. ComesIn
    BY <1>1, TablesStep
  <2>4. \A t \in Tasks :
          call[t] \in {"clsid", "listen"} => id[t] \in DOMAIN owner
    BY <1>1 DEF IdIsOwned, OwnedBy, Naming, Registering
  <2>5. \A t \in Tasks : appId[t] # 0 => appId[t] \in DOMAIN owner
    BY <1>1 DEF AppIdIsOwned, OwnedBy
  <2>6. clsid' \subseteq DOMAIN owner'
    BY <1>1, <2>1, <2>3, <2>4 DEF ComesIn, StoredAreOwned, StoreClsid,
       AddListener, Goto
  <2>7. listeners' \subseteq DOMAIN owner'
    BY <1>1, <2>1, <2>3, <2>4 DEF ComesIn, StoredAreOwned, StoreClsid,
       AddListener, Goto
  <2>8. channels' \subseteq DOMAIN owner'
    BY <1>1, <2>1, <2>3, <2>5 DEF ComesIn, StoredAreOwned
  <2>9. QED
    BY <2>2, <2>6, <2>7, <2>8 DEF StoredAreOwned
<1>6. OneIdPerApp'
  <2>1. CASE UNCHANGED <<owner, raw>>
    BY <1>1, <2>1 DEF OneIdPerApp
  <2>2. ASSUME NEW t \in Tasks, MakesId(t) PROVE OneIdPerApp'
    <3>1. /\ raw' = raw \union {Len(owner) + 1}
          /\ owner'[Len(owner) + 1] = App(t)
          /\ \A i \in raw : owner'[i] = owner[i]
      BY <1>1, <2>2, OwnerStep DEF StoredAreOwned
    <3>2. \A i \in raw : owner[i] # App(t)
      BY <2>2 DEF MakesId, AppIds
    <3>3. QED
      BY <1>1, <3>1, <3>2 DEF OneIdPerApp
  <2>3. ASSUME NEW t \in Tasks, DropsIds(t) PROVE OneIdPerApp'
    BY <1>1, <2>3 DEF DropsIds, RemoveRaw, OneIdPerApp
  <2>4. QED
    BY <1>1, <2>1, <2>2, <2>3, RawStep
<1>7. IdIsOwned'
  <2>1. SUFFICES ASSUME NEW t \in Tasks, call'[t] \in Naming
                 PROVE  OwnedBy(id[t], App(t))'
    BY DEF IdIsOwned
  <2>2. CASE call[t] \in Naming /\ id'[t] = id[t]
    BY <1>1, <1>4, <2>2 DEF IdIsOwned, OwnedBy
  <2>3. CASE id'[t] \in AppIds(App(t)) /\ UNCHANGED <<owner, raw>>
    BY <1>1, <2>3 DEF AppIds, OwnedBy, StoredAreOwned
  <2>4. QED
    BY <1>1, <2>1, <2>2, <2>3, ThreadIds
<1>8. AppIdIsOwned'
  <2>1. SUFFICES ASSUME NEW t \in Tasks, appId'[t] # 0
                 PROVE  OwnedBy(appId[t], App(t))'
    BY DEF AppIdIsOwned
  <2>2. CASE appId'[t] = appId[t]
    BY <1>1, <1>4, <2>1, <2>2 DEF AppIdIsOwned, OwnedBy
  <2>3. CASE BuildAppIdentifier(App(t), appId'[t])
    BY <1>1, <1>3, <2>3, BuiltIsOwned DEF OwnedBy
  <2>4. QED
    BY <1>1, <2>1, <2>2, <2>3, ThreadIds
<1>9. RemovedIsGone'
  <2>1. SUFFICES ASSUME NEW t \in Tasks, call'[t] = "unclsid"
                 PROVE  id'[t] \notin raw'
    BY DEF RemovedIsGone
  <2>2. id'[t] = id[t] /\ (call[t] = "unclsid" \/ RemoveRaw(t))
    BY <1>1, <2>1, ThreadIds
  <2>3. CASE RemoveRaw(t)
    BY <2>2, <2>3 DEF RemoveRaw
  <2>4. CASE call[t] = "unclsid"
    BY <1>1, <2>2, <2>4, OwnerStep DEF RemovedIsGone, IdIsOwned, OwnedBy,
       Naming
  <2>5. QED
    BY <2>2, <2>3, <2>4
<1>10. QED
  BY <1>2, <1>5, <1>6, <1>7, <1>8, <1>9 DEF NamesInv

(* No identifier was made yet.                                             *)
LEMMA InitNames == Init => NamesInv
<1> SUFFICES ASSUME Init PROVE NamesInv
  OBVIOUS
<1>1. LockInv
  BY InitLock
<1>2. StoredAreOwned /\ OneIdPerApp
  BY DEF Init, PlatformInit, StoredAreOwned, OneIdPerApp
<1>3. IdIsOwned /\ AppIdIsOwned /\ RemovedIsGone
  BY DEF Init, PlatformInit, IdIsOwned, AppIdIsOwned, RemovedIsGone, Naming,
     Registering
<1>4. CallsFitSteps
  BY KindsAreApart DEF Init, PlatformInit, CallsFitSteps, ApiSteps, Undoing
<1>5. QED
  BY <1>1, <1>2, <1>3, <1>4 DEF NamesInv

-----------------------------------------------------------------------------
(* A channel whose CLSID is not stored has its CreateChannelAsync: it goes *)
(* on to store it, or it fails.                                            *)
LEMMA EarlyThreads ==
  ASSUME StartInv, [Next]_vars, NEW t \in Tasks, t \notin failed', Early(t),
         appId[t] \in raw, appId[t] \notin clsid', t \in ChannelTasks
  PROVE  Early(t)' /\ appId'[t] = appId[t]
<1>1. /\ NamesInv /\ LockInv /\ TypeOK /\ OffIsEmpty /\ CallsAreWaitedFor
      /\ pc[t] # "in removal" /\ t \notin failed
      /\ call[t] \notin Unregistering
      /\ pc[t] # "in activator" => call[t] = "none"
  BY ThreadStep DEF StartInv, NamesInv, LockInv, PlatformInv, CallsFitSteps,
     CallsAreWaitedFor, Early, Waiting
<1>2. CASE Rests(t)
  BY <1>2 DEF Rests, Early
<1>3. CASE IsEnded(t)
  BY <1>3 DEF IsEnded
<1>4. CASE IsCutShort(t)
  BY <1>1, <1>4, KindsAreApart DEF IsCutShort, Early, InPlatform
<1>5. CASE QuietStep(t)
  <2>1. pc[t] \in {"foreground", "activator"}
    BY <1>1, <1>5, QuietStepIsQuiet DEF Early, Waiting
  <2>2. RegisterForeground(t)
    BY <1>5, <2>1 DEF QuietStep, Register, CreateChannelAsync, Unregister,
       UnregisterAll, BeginCall, Begin, RegisterFullTrust, FullTrustFails,
       CreateChannel, AddToast, UndoForeground, UndoFullTrust,
       UnregisterForeground, CloseChannel, RemoveFullTrust, CallFails, Step,
       Goes
  <2>3. QED
    BY <1>1, <2>2 DEF RegisterForeground, Step, Goes, Early, TypeOK
<1>6. CASE CallRegisterActivator(t)
  <2>1. AppIds(App(t)) # {}
    <3>1. appId[t] \in Ids
      BY <1>1 DEF TypeOK, PlatformTypeOK
    <3>2. appId[t] # 0
      BY <3>1, BoundAssumption DEF Ids
    <3>3. owner[appId[t]] = App(t)
      BY <1>1, <3>2 DEF NamesInv, AppIdIsOwned, OwnedBy
    <3>4. QED
      BY <3>3 DEF AppIds
  <2>2. call'[t] = "clsid" /\ pc'[t] = "in activator" /\ appId' = appId
    BY <1>1, <1>6, <2>1 DEF CallRegisterActivator, BeginRegister, Step, Goes,
       TypeOK, PlatformTypeOK
  <2>3. QED
    BY <2>2 DEF Early
<1>7. CASE CallUnregisterActivator(t) \/ RemovalReturns(t)
  BY <1>7 DEF CallUnregisterActivator, RemovalReturns, Step, Goes, Early
<1>8. CASE ActivatorReturns(t)
  BY <1>8 DEF ActivatorReturns, Step, Goes, Early
<1>9. CASE Platform /\ ActivatorStep(t)
  <2>1. call[t] = "clsid" \/ call[t] = "failed" \/ call[t] = "none"
    BY <1>1 DEF Early
  <2>2. StoreClsid(t)
    BY <1>9, <2>1 DEF ActivatorStep, Goto, RegisterSink,
       RegisterSinkFails, AddListener, Cancel, UnregisterSink, EraseListener,
       RemoveRaw, RemoveClsidAndToast, IsEmpty, Setup
  <2>3. call[t] = "clsid" /\ clsid' = clsid \union {id[t]}
    BY <2>2 DEF StoreClsid, Goto
  <2>4. QED
    BY <2>3 DEF StartInv, StoresItsOwn
<1>10. QED
  BY <1>1, <1>2, <1>3, <1>4, <1>5, <1>6, <1>7, <1>8, <1>9, ThreadStep
     DEF OwnStep

(* Every step keeps the channels that way.                                 *)
LEMMA StartInvariant ==
  StartInv /\ [Next]_vars => StartInv'
<1> SUFFICES ASSUME StartInv, [Next]_vars PROVE StartInv'
  OBVIOUS
<1>1. /\ NamesInv /\ LockInv /\ TypeOK /\ StoredAreOwned /\ RemovedIsGone
      /\ ChannelsAreStored /\ StoresItsOwn /\ ChannelTasks \subseteq Tasks
  BY TaskAssumption DEF StartInv, NamesInv, LockInv, PlatformInv
<1>2. NamesInv'
  BY <1>1, NamesInvariant
<1>3. ChannelsAreStored'
  <2>1. SUFFICES ASSUME NEW i \in (raw' \intersect channels') \ clsid'
                 PROVE  \E t \in ChannelTasks :
                          t \in failed' \/ (appId'[t] = i /\ Early(t)')
    BY DEF ChannelsAreStored
  <2>2. CASE i \notin channels
    <3>1. PICK t \in Tasks : CreateChannel(t) /\ appId[t] = i
      BY <1>1, <2>2, TablesStep DEF ComesIn
    <3>2. /\ t \in ChannelTasks /\ appId'[t] = i
          /\ pc'[t] = "foreground"
      BY <1>1, <3>1 DEF CreateChannel, Step, Goes, TypeOK, NamesInv,
         CallsFitSteps
    <3>3. QED
      BY <3>2 DEF Early
  <2>3. CASE i \in channels
    <3>1. i \in raw
      BY <1>1, <2>3, OwnerStep DEF StoredAreOwned
    <3>2. i \notin clsid
      BY <1>1, <3>1, TablesStep DEF GoesOut, RemovedIsGone
    <3>3. PICK t \in ChannelTasks : t \in failed \/ (appId[t] = i /\ Early(t))
      BY <1>1, <2>3, <3>1, <3>2 DEF ChannelsAreStored
    <3>4. t \in failed' \/ (t \notin failed /\ appId[t] = i /\ Early(t))
      BY <1>1, <3>3, ThreadStep
    <3>5. QED
      BY <1>1, <3>1, <3>4, EarlyThreads
  <2>4. QED
    BY <2>2, <2>3
<1>4. StoresItsOwn'
  <2>1. SUFFICES ASSUME NEW t \in ChannelTasks, call'[t] = "clsid",
                        appId'[t] \in raw'
                 PROVE  id'[t] = appId'[t]
    BY DEF StoresItsOwn
  <2>2. /\ id'[t] \in DOMAIN owner' /\ owner'[id'[t]] = App(t)
        /\ appId'[t] \in DOMAIN owner' /\ owner'[appId'[t]] = App(t)
    <3>1. appId'[t] # 0
      BY <1>2, <2>1 DEF NamesInv, LockInv, PlatformInv, TypeOK,
         PlatformTypeOK, Ids
    <3>2. QED
      BY <1>1, <1>2, <2>1, <3>1 DEF NamesInv, IdIsOwned, AppIdIsOwned,
         OwnedBy, Naming, Registering, App
  <2>3. CASE id'[t] \in raw'
    BY <1>2, <2>1, <2>2, <2>3 DEF NamesInv, OneIdPerApp
  <2>4. CASE call[t] = "clsid" /\ id'[t] = id[t] /\ appId'[t] = appId[t]
    <3>1. appId[t] \in DOMAIN owner
      BY <1>1, <1>2, <2>1, <2>4 DEF NamesInv, AppIdIsOwned, OwnedBy, LockInv,
         PlatformInv, TypeOK, PlatformTypeOK, Ids
    <3>2. appId[t] \in raw
      BY <1>1, <2>1, <2>4, <3>1, OwnerStep
    <3>3. QED
      BY <1>1, <2>4, <3>2 DEF StoresItsOwn
  <2>5. CASE CallRegisterActivator(t)
    <3>1. id'[t] \in AppIds(App(t)) /\ raw' = raw
      BY <1>1, <2>1, <2>5 DEF CallRegisterActivator, BeginRegister, storage,
         TypeOK, PlatformTypeOK
    <3>2. QED
      BY <2>3, <3>1 DEF AppIds
  <2>6. CASE ~CallRegisterActivator(t) /\ OwnStep(t)
    <3>1. QuietStep(t)
      BY <1>1, <2>1, <2>6 DEF OwnStep, CallUnregisterActivator,
         BeginUnregister, ActivatorReturns, RemovalReturns, ActivatorStep,
         Goto, StoreClsid, RegisterSink, RegisterSinkFails, AddListener,
         Cancel, UnregisterSink, EraseListener, RemoveRaw,
         RemoveClsidAndToast, IsEmpty, Setup, TypeOK, PlatformTypeOK
    <3>2. call' = call /\ call[t] = "none"
      BY <1>1, <3>1, QuietStepIsQuiet DEF LockInv, PlatformInv,
         CallsAreWaitedFor
    <3>3. QED
      BY <2>1, <3>2
  <2>7. CASE Rests(t) \/ IsCutShort(t) \/ IsEnded(t)
    BY <2>1, <2>4, <2>7 DEF Rests, IsCutShort, IsEnded
  <2>8. QED
    BY <1>1, <2>5, <2>6, <2>7, ThreadStep
<1>5. QED
  BY <1>2, <1>3, <1>4 DEF StartInv

(* StartsAgain: while no CreateChannelAsync is under way and none failed,  *)
(* the LRP can be started again, whatever else was called, crashed or      *)
(* overlapped before, because every identifier with a channel has its      *)
(* CLSID.  Of a failed CreateChannelAsync it says nothing.                 *)
THEOREM PlatformStartsAgain == Spec => []StartsAgain
<1>1. Init => StartInv
  BY InitNames, KindsAreApart DEF Init, PlatformInit, StartInv,
     ChannelsAreStored, StoresItsOwn
<1>2. StartInv => StartsAgain
  BY DEF StartInv, ChannelsAreStored, StartsAgain, CanStart, TrackedApps, Early
<1>3. QED
  BY <1>1, <1>2, StartInvariant, PTL DEF Spec

-----------------------------------------------------------------------------
(* The identifiers of an app are those made for it, the stored one last.   *)
LEMMA MineStep ==
  ASSUME NamesInv, [Next]_vars, NEW a
  PROVE  \A i \in Mine(a)' :
           \/ i \in Mine(a) /\ (i \in raw' => i \in raw)
           \/ i \in raw' /\ \E t \in Tasks : MakesId(t) /\ App(t) = a
<1>1. TypeOK /\ StoredAreOwned
  BY DEF NamesInv, LockInv, PlatformInv
<1>2. ASSUME NEW i \in DOMAIN owner', i \notin DOMAIN owner
      PROVE  \E t \in Tasks : /\ MakesId(t) /\ i = Len(owner) + 1
                              /\ owner'[i] = App(t) /\ i \in raw'
  <2>1. owner' # owner
    BY <1>2
  <2>2. PICK t \in Tasks : MakesId(t)
    BY <1>1, <2>1, RawStep DEF DropsIds, RemoveRaw
  <2>3. i = Len(owner) + 1 /\ owner'[i] = App(t) /\ i \in raw'
    BY <1>1, <1>2, <2>2, OwnerStep
  <2>4. QED
    BY <2>2, <2>3
<1>3. QED
  BY <1>1, <1>2, OwnerStep DEF Mine

(* The steps of other threads leave what an app has in the platform alone, *)
(* if the thread is its only one; a start of the LRP reads the storage.    *)
LEMMA OthersStay ==
  ASSUME NamesInv, [Next]_vars, NEW t \in Tasks, Sequential(App(t)), Rests(t)
  PROVE  /\ Mine(App(t))' = Mine(App(t))
         /\ Mine(App(t)) \intersect raw' = Mine(App(t)) \intersect raw
         /\ Mine(App(t)) \intersect clsid' \subseteq clsid
         /\ \A i \in Mine(App(t)) \intersect listeners' :
              i \in listeners \/ (lrp = "off" /\ i \in raw)
<1>1. TypeOK /\ StoredAreOwned /\ IdIsOwned
  BY DEF NamesInv, LockInv, PlatformInv
<1>2. \A u \in Tasks : App(u) = App(t) => u = t
  BY DEF Sequential
<1>3. ~MakesId(t)
  BY <1>1 DEF Rests, MakesId, Goes, TypeOK
<1>4. ~DropsIds(t)
  BY <1>1 DEF Rests, DropsIds, Goes, RemoveRaw, Goto, TypeOK, PlatformTypeOK
<1>5. ~StoreClsid(t) /\ ~AddListener(t)
  BY <1>1 DEF Rests, StoreClsid, AddListener, Goto, TypeOK, PlatformTypeOK
<1>6. Mine(App(t))' = Mine(App(t))
  <2>1. Mine(App(t))' \subseteq Mine(App(t))
    BY <1>2, <1>3, MineStep
  <2>2. Mine(App(t)) \subseteq Mine(App(t))'
    BY <1>1, OwnerStep DEF Mine
  <2>3. QED
    BY <2>1, <2>2
<1>7. ASSUME NEW i \in Mine(App(t)) PROVE i \in raw' <=> i \in raw
  <2>1. i \in raw' => i \in raw
    BY <1>1, <1>7, OwnerStep DEF Mine
  <2>2. ASSUME i \in raw, i \notin raw' PROVE FALSE
    <3>1. PICK u \in Tasks : DropsIds(u)
      BY <1>1, <2>2, RawStep DEF MakesId
    <3>2. OwnedBy(i, App(u))
      BY <1>1, <2>2, <3>1 DEF DropsIds, RemoveRaw, Goto, AppIds, OwnedBy,
         StoredAreOwned, IdIsOwned, Naming
    <3>3. u = t
      BY <1>2, <1>7, <3>2 DEF Mine, OwnedBy
    <3>4. QED
      BY <1>4, <3>1, <3>3
  <2>3. QED
    BY <2>1, <2>2
<1>8. ASSUME NEW i \in Mine(App(t)), i \in clsid' PROVE i \in clsid
  <2>1. ASSUME i \notin clsid PROVE FALSE
    <3>1. PICK u \in Tasks : StoreClsid(u) /\ i = id[u]
      BY <1>1, <1>8, <2>1, TablesStep DEF ComesIn
    <3>2. OwnedBy(i, App(u))
      BY <1>1, <3>1 DEF StoreClsid, Goto, IdIsOwned, Naming, Registering
    <3>3. QED
      BY <1>2, <1>5, <1>8, <3>1, <3>2 DEF Mine, OwnedBy
  <2>2. QED
    BY <2>1
<1>9. ASSUME NEW i \in Mine(App(t)), i \in listeners'
      PROVE  i \in listeners \/ (lrp = "off" /\ i \in raw)
  <2>1. ASSUME i \notin listeners, ~(lrp = "off" /\ i \in raw) PROVE FALSE
    <3>1. PICK u \in Tasks : AddListener(u) /\ i = id[u]
      BY <1>1, <1>9, <2>1, TablesStep DEF ComesIn
    <3>2. OwnedBy(i, App(u))
      BY <1>1, <3>1 DEF AddListener, Goto, IdIsOwned, Naming, Registering
    <3>3. QED
      BY <1>2, <1>5, <1>9, <3>1, <3>2 DEF Mine, OwnedBy
  <2>2. QED
    BY <2>1
<1>10. QED
  BY <1>6, <1>7, <1>8, <1>9

(* Every step keeps what is known of an app with one thread, none of whose *)
(* calls failed, each step of its activator calls in turn.                 *)
LEMMA LeftInvariant ==
  LeftInv /\ [Next]_vars => LeftInv'
<1> SUFFICES ASSUME LeftInv, [Next]_vars, NEW t \in Tasks, t \notin failed',
                    Sequential(App(t))
             PROVE  LeftIsKnown(t)'
  BY NamesInvariant DEF LeftInv, Sequential, App
<1> DEFINE mine == Mine(App(t))
<1>1. /\ NamesInv /\ LockInv /\ TypeOK /\ OffIsEmpty /\ StoredAreOwned
      /\ OneIdPerApp /\ IdIsOwned /\ CallsAreWaitedFor /\ CallsFitSteps
  BY DEF LeftInv, NamesInv, LockInv, PlatformInv
<1>2. /\ Emptied(t) => mine \intersect (listeners \union clsid \union raw) = {}
      /\ call[t] = "unclsid" => /\ mine \intersect (listeners \union raw) = {}
                                /\ mine \intersect clsid \subseteq {id[t]}
      /\ call[t] \notin {"unclsid", "failed"} =>
           mine \intersect (listeners \union clsid) \subseteq raw
      /\ call[t] \in Naming \ {"unclsid"} => id[t] \in raw
      /\ call[t] = "unraw" => id[t] \notin listeners
  <2>1. t \notin failed
    BY <1>1, ThreadStep
  <2>2. LeftIsKnown(t)
    BY <2>1 DEF LeftInv
  <2>3. QED
    BY <2>2 DEF LeftIsKnown
<1>3. /\ AppIds(App(t)) = mine \intersect raw
      /\ \A i, j \in mine \intersect raw : i = j
      /\ call[t] \in Naming => id[t] \in mine
  BY <1>1 DEF AppIds, Mine, StoredAreOwned, OneIdPerApp, IdIsOwned, OwnedBy
<1>4. t \notin failed
  BY <1>1, ThreadStep
<1>5. CASE Rests(t)
  <2>1. /\ mine' = mine /\ mine \intersect raw' = mine \intersect raw
        /\ mine \intersect clsid' \subseteq clsid
        /\ \A i \in mine \intersect listeners' :
             i \in listeners \/ (lrp = "off" /\ i \in raw)
    BY <1>1, <1>5, OthersStay
  <2>2. /\ pc'[t] = pc[t] /\ call'[t] = call[t] /\ id'[t] = id[t]
        /\ (Emptied(t)' <=> Emptied(t))
    BY <1>5 DEF Rests, Emptied
  <2>3. call[t] \in Naming => (id[t] \in raw' <=> id[t] \in raw)
    BY <1>3, <2>1
  <2>4. call[t] = "unraw" => id[t] \notin listeners'
    <3>1. call[t] = "unraw" => lrp # "off" /\ id[t] \in mine
      BY <1>1, <1>3 DEF LockInv, PlatformInv, CallsNeedProcess, InPlatform,
         Unregistering, Naming
    <3>2. QED
      BY <1>2, <2>1, <3>1
  <2>5. QED
    BY <1>2, <1>3, <2>1, <2>2, <2>3, <2>4 DEF LeftIsKnown, Naming
<1>6. CASE IsCutShort(t) \/ IsEnded(t)
  BY <1>1, <1>6, KindsAreApart DEF IsCutShort, IsEnded, LeftIsKnown, Emptied,
     Naming, CallsFitSteps, InPlatform
<1>7. CASE QuietStep(t)
  <2>1. /\ UNCHANGED call /\ call[t] = "none"
        /\ \A u \in Tasks \ {t} : pc'[u] = pc[u]
    BY <1>1, <1>7, QuietStepIsQuiet DEF CallsAreWaitedFor
  <2>2. ~Emptied(t)'
    <3>1. pc'[t] # "remove full trust"
      BY <1>1, <1>7 DEF QuietStep, Register, CreateChannelAsync, Unregister,
         UnregisterAll, BeginCall, Begin, RegisterFullTrust, FullTrustFails,
         CreateChannel, RegisterForeground, AddToast, UndoForeground,
         UndoFullTrust, UnregisterForeground, CloseChannel, RemoveFullTrust,
         CallFails, Step, Goes, TypeOK
    <3>2. QED
      BY <2>1, <3>1 DEF Emptied
  <2>3. ASSUME NEW i \in Mine(App(t))', i \in listeners' \union clsid',
               i \notin raw'
        PROVE  FALSE
    <3>1. i \in mine
      BY <1>1, <2>3, MineStep
    <3>2. \A u \in Tasks : ~StoreClsid(u) /\ ~AddListener(u) /\ ~RemoveRaw(u)
      BY <1>1, <2>1 DEF StoreClsid, AddListener, RemoveRaw, Goto, TypeOK,
         PlatformTypeOK
    <3>3. i \in clsid \/ i \in listeners \/ i \in raw
      BY <1>1, <2>3, <3>2, TablesStep DEF ComesIn
    <3>4. i \in raw
      BY <1>2, <2>1, <3>1, <3>3
    <3>5. PICK u \in Tasks : DropsIds(u)
      BY <1>1, <2>3, <3>4, RawStep DEF MakesId
    <3>6. PICK p \in {"undo full trust", "remove full trust"} :
            Goes(u, p, "idle")
      BY <3>2, <3>5 DEF DropsIds
    <3>7. u = t
      BY <1>1, <2>1, <3>6 DEF Goes, TypeOK
    <3>8. pc[t] = "remove full trust"
      BY <1>1, <1>4, <3>6, <3>7 DEF Goes, CallsFitSteps, Undoing
    <3>9. QED
      BY <1>2, <3>1, <3>4, <3>8 DEF Emptied
  <2>4. QED
    BY <2>1, <2>2, <2>3 DEF LeftIsKnown, Naming, Registering
<1>8. CASE CallRegisterActivator(t) \/ CallUnregisterActivator(t)
  <2>1. call[t] = "none"
    BY <1>1, <1>8 DEF CallRegisterActivator, CallUnregisterActivator, Step,
       Goes, CallsAreWaitedFor, Waiting
  <2>2. UNCHANGED <<owner, raw, clsid, listeners>> /\ mine' = mine
    BY <1>8 DEF CallRegisterActivator, CallUnregisterActivator, BeginRegister,
       BeginUnregister, storage, process, Mine
  <2>3. \/ call'[t] = "done" /\ pc'[t] = "in activator"
        \/ call'[t] = "isempty" /\ mine \intersect raw = {}
        \/ /\ call'[t] \in {"clsid", "unsink"}
           /\ id'[t] \in mine \intersect raw
           /\ pc'[t] \in {"in activator", "in removal"}
    BY <1>1, <1>3, <1>8 DEF CallRegisterActivator, CallUnregisterActivator,
       BeginRegister, BeginUnregister, Step, Goes, TypeOK, PlatformTypeOK
  <2>4. QED
    BY <1>2, <2>1, <2>2, <2>3 DEF LeftIsKnown, Emptied, Naming, Registering
<1>9. CASE ActivatorReturns(t) \/ RemovalReturns(t)
  <2>1. call'[t] = "none" /\ call[t] \in {"done", "failed"}
    BY <1>1, <1>9 DEF ActivatorReturns, RemovalReturns, TypeOK, PlatformTypeOK
  <2>2. UNCHANGED <<owner, raw, clsid, listeners>> /\ mine' = mine
    BY <1>9 DEF ActivatorReturns, RemovalReturns, storage, process, Mine
  <2>3. call[t] = "done"
    BY <2>1, <1>9 DEF ActivatorReturns, RemovalReturns
  <2>4. pc'[t] = "remove full trust" => Emptied(t)
    BY <1>1, <1>9, <2>3 DEF ActivatorReturns, RemovalReturns, Step, Goes,
       TypeOK, Emptied
  <2>5. QED
    BY <1>2, <2>1, <2>2, <2>3, <2>4 DEF LeftIsKnown, Emptied, Naming,
       Registering
<1>10. CASE Platform /\ ActivatorStep(t)
  <2>1. pc' = pc /\ id' = id /\ owner' = owner /\ mine' = mine
    BY <1>10 DEF Platform, ActivatorStep, Goto, StoreClsid, RegisterSink,
       RegisterSinkFails, AddListener, Cancel, UnregisterSink, EraseListener,
       RemoveRaw, RemoveClsidAndToast, IsEmpty, Setup, storage, Mine
  <2>2. /\ call[t] \in Registering => pc[t] = "in activator"
        /\ call[t] \in Unregistering => pc[t] = "in removal"
    BY <1>1 DEF CallsFitSteps
  <2>3. call \in [Tasks -> {"none", "done", "failed"} \union Registering
                            \union Unregistering]
    BY <1>1 DEF TypeOK, PlatformTypeOK
  <2>4. CASE StoreClsid(t)
    <3>1. /\ call[t] = "clsid" /\ call'[t] = "sink"
          /\ clsid' = clsid \union {id[t]} /\ UNCHANGED <<raw, listeners>>
          /\ pc'[t] = "in activator"
      BY <2>1, <2>2, <2>3, <2>4 DEF StoreClsid, Goto, process, Registering
    <3>2. QED
      BY <1>2, <2>1, <3>1 DEF LeftIsKnown, Emptied, Naming, Registering
  <2>5. CASE RegisterSink(t)
    <3>1. /\ call[t] = "sink" /\ call'[t] = "listen"
          /\ UNCHANGED <<raw, clsid, listeners>> /\ pc'[t] = "in activator"
      BY <2>1, <2>2, <2>3, <2>5 DEF RegisterSink, Goto, process, storage,
         Registering
    <3>2. QED
      BY <1>2, <2>1, <3>1 DEF LeftIsKnown, Emptied, Naming, Registering
  <2>6. CASE RegisterSinkFails(t)
    <3>1. call'[t] = "failed" /\ pc'[t] = "in activator"
      BY <2>1, <2>2, <2>3, <2>6 DEF RegisterSinkFails, Registering
    <3>2. QED
      BY <3>1 DEF LeftIsKnown, Emptied, Naming, Registering
  <2>7. CASE AddListener(t)
    <3>1. /\ call[t] = "listen" /\ call'[t] = "cancel"
          /\ listeners' = listeners \union {id[t]} /\ UNCHANGED <<raw, clsid>>
          /\ pc'[t] = "in activator"
      BY <2>1, <2>2, <2>3, <2>7 DEF AddListener, Goto, storage, Registering
    <3>2. QED
      BY <1>2, <2>1, <3>1 DEF LeftIsKnown, Emptied, Naming, Registering
  <2>8. CASE Cancel(t)
    <3>1. /\ call[t] = "cancel" /\ call'[t] = "done"
          /\ UNCHANGED <<raw, clsid, listeners>> /\ pc'[t] = "in activator"
      BY <2>1, <2>2, <2>3, <2>8 DEF Cancel, Goto, storage, Registering
    <3>2. QED
      BY <1>2, <2>1, <3>1 DEF LeftIsKnown, Emptied, Naming, Registering
  <2>9. CASE UnregisterSink(t)
    <3>1. /\ call[t] = "unsink" /\ call'[t] = "erase"
          /\ UNCHANGED <<raw, clsid, listeners>> /\ pc'[t] = "in removal"
      BY <2>1, <2>2, <2>3, <2>9 DEF UnregisterSink, Goto, storage, process,
         Unregistering
    <3>2. QED
      BY <1>2, <2>1, <3>1 DEF LeftIsKnown, Emptied, Naming, Registering
  <2>10. CASE EraseListener(t)
    <3>1. /\ call[t] = "erase" /\ call'[t] = "unraw"
          /\ listeners' = listeners \ {id[t]} /\ UNCHANGED <<raw, clsid>>
          /\ pc'[t] = "in removal"
      BY <2>1, <2>2, <2>3, <2>10 DEF EraseListener, Goto, storage,
         Unregistering
    <3>2. QED
      BY <1>2, <2>1, <3>1 DEF LeftIsKnown, Emptied, Naming, Registering
  <2>11. CASE RemoveRaw(t)
    <3>1. /\ call[t] = "unraw" /\ call'[t] = "unclsid"
          /\ raw' = raw \ {id[t]} /\ UNCHANGED <<clsid, listeners>>
          /\ pc'[t] = "in removal"
      BY <2>1, <2>2, <2>3, <2>11 DEF RemoveRaw, Goto, Unregistering
    <3>2. id[t] \in mine \intersect raw /\ id[t] \notin listeners
      BY <1>2, <1>3, <3>1 DEF Naming
    <3>3. mine \intersect raw = {id[t]}
      BY <1>3, <3>2
    <3>4. mine \intersect (listeners \union clsid) \subseteq raw
      BY <1>2, <3>1
    <3>5. mine \intersect (listeners \union clsid) \subseteq {id[t]}
      BY <3>3, <3>4
    <3>6. /\ mine \intersect (listeners' \union raw') = {}
          /\ mine \intersect clsid' \subseteq {id[t]}
      BY <3>1, <3>2, <3>3, <3>5
    <3>7. QED
      BY <2>1, <3>1, <3>6 DEF LeftIsKnown, Emptied, Naming, Registering
  <2>12. CASE RemoveClsidAndToast(t)
    <3>1. /\ call[t] = "unclsid" /\ call'[t] = "isempty"
          /\ clsid' = clsid \ {id[t]} /\ UNCHANGED <<raw, listeners>>
      BY <2>3, <2>12 DEF RemoveClsidAndToast, Goto, process
    <3>2. mine \intersect (listeners' \union clsid' \union raw') = {}
      BY <1>2, <3>1
    <3>3. QED
      BY <2>1, <3>1, <3>2 DEF LeftIsKnown, Naming, Registering
  <2>13. CASE IsEmpty(t) \/ Setup(t)
    <3>1. /\ call[t] \in {"isempty", "setup"} /\ call'[t] \in {"setup", "done"}
          /\ UNCHANGED <<raw, clsid, listeners>> /\ pc[t] = "in removal"
      BY <2>2, <2>3, <2>13 DEF IsEmpty, Setup, Goto, storage, process,
         Unregistering
    <3>2. mine \intersect (listeners \union clsid \union raw) = {}
      BY <1>2, <3>1 DEF Emptied
    <3>3. QED
      BY <2>1, <3>1, <3>2 DEF LeftIsKnown, Naming, Registering
  <2>14. QED
    BY <1>10, <2>4, <2>5, <2>6, <2>7, <2>8, <2>9, <2>10, <2>11, <2>12, <2>13
       DEF ActivatorStep
<1> HIDE DEF mine
<1>11. QED
  BY <1>1, <1>5, <1>6, <1>7, <1>8, <1>9, <1>10, ThreadStep DEF OwnStep

(* NothingIsLeft: an app that makes its calls one at a time, none of which *)
(* failed, has no listener and no CLSID that is not a stored one's.        *)
THEOREM UnregisteredAppsLeaveNothing == Spec => []NothingIsLeft
<1>1. Init => LeftInv
  BY InitNames, KindsAreApart DEF Init, PlatformInit, LeftInv, LeftIsKnown,
     Emptied, Naming, Registering
<1>2. LeftInv => NothingIsLeft
  <2>1. SUFFICES ASSUME LeftInv, NEW t \in Tasks, t \notin failed,
                        Sequential(App(t)), pc[t] = "idle"
                 PROVE  {i \in listeners \union clsid : owner[i] = App(t)}
                          \subseteq raw
    BY DEF NothingIsLeft
  <2>2. call[t] = "none" /\ StoredAreOwned /\ LeftIsKnown(t)
    BY <2>1 DEF LeftInv, NamesInv, LockInv, CallsAreWaitedFor, Waiting
  <2>3. QED
    BY <2>2 DEF LeftIsKnown, Mine, StoredAreOwned
<1>3. QED
  BY <1>1, <1>2, LeftInvariant, PTL DEF Spec

-----------------------------------------------------------------------------
(* What a step does to the registrations of a process and to its sink.     *)
RegistersSink(c) ==
  \E t \in ApiTasks : ClientOf[t] = c /\ RegisterForeground(t)
LosesSink(i) ==
  \E t \in Tasks :
    \/ i \in AppIds(App(t)) /\ foreground'[ClientOf[t]] = "no"
    \/ i = id[t] /\ RemoveRaw(t)
KeepsSink(c) ==
  \A i \in Ids : fg[i] = c => \/ fg'[i] = c \/ LosesSink(i)
                             \/ \E d \in Clients \ {c} : AppOf[d] = owner[i]
RegistrationsStep(c) ==
  /\ longRunning'[c] =>
       \/ longRunning[c]
       \/ \E t \in ApiTasks : /\ ClientOf[t] = c /\ call[t] = "done"
                              /\ ActivatorReturns(t)
  /\ foreground'[c] # "no" => foreground[c] # "no" \/ RegistersSink(c)
  /\ foreground'[c] = "yes" => \/ foreground[c] = "yes" /\ KeepsSink(c)
                              \/ RegistersSink(c)

(* A process is registered by its own threads, and a sink that goes was    *)
(* unregistered, or its identifier was removed.                            *)
LEMMA RegistrationsChange ==
  ASSUME LockInv, [Next]_vars, NEW c \in Clients
  PROVE  RegistrationsStep(c)
<1> USE DEF platformVars, storage, core, process, calls
<1>1. TypeOK /\ c # Gone /\ c # Nobody
  BY SinkAssumption DEF LockInv, PlatformInv
<1>2. /\ foreground \in [Clients -> {"no", "yes", "lost"}]
      /\ longRunning \in [Clients -> BOOLEAN]
      /\ fg \in [Ids -> Clients \union {Nobody, Gone}]
      /\ \A t \in Tasks : ClientOf[t] \in Clients
      /\ \A a : AppIds(a) \subseteq Ids
  BY <1>1, TaskAssumption DEF TypeOK, PlatformTypeOK, AppIds
<1>3. ASSUME UNCHANGED <<foreground, longRunning, fg>>
      PROVE  RegistrationsStep(c)
  BY <1>3 DEF RegistrationsStep, KeepsSink
<1>4. ASSUME NEW t \in Tasks,
             Register(t) \/ CreateChannelAsync(t) \/ Unregister(t)
               \/ UnregisterAll(t)
      PROVE  UNCHANGED <<foreground, longRunning, fg>>
  BY <1>4 DEF Register, CreateChannelAsync, Unregister, UnregisterAll,
     BeginCall, Connect, GetNotificationPlatform, Initialize
<1>5. ASSUME NEW t \in Tasks, ClientStep(t) PROVE RegistrationsStep(c)
  <2>1. CASE RegisterFullTrust(t) \/ FullTrustFails(t) \/ CreateChannel(t)
             \/ CallRegisterActivator(t) \/ AddToast(t) \/ UndoFullTrust(t)
             \/ CloseChannel(t) \/ CallUnregisterActivator(t)
             \/ RemoveFullTrust(t) \/ CallFails(t)
    <3>1. UNCHANGED <<foreground, longRunning, fg>>
      BY <2>1 DEF RegisterFullTrust, FullTrustFails, CreateChannel,
         RegisterFullTrustApplication, RegisterFullTrustFails,
         CallRegisterActivator, BeginRegister, AddToast,
         AddToastRegistrationMapping, UndoFullTrust, CloseChannel,
         GetNotificationPlatform, Initialize, CallUnregisterActivator,
         BeginUnregister, RemoveFullTrust, CallFails,
         UnregisterFullTrustApplication
    <3>2. QED
      BY <1>3, <3>1
  <2>2. CASE RegisterForeground(t)
    <3>1. longRunning' = longRunning
      BY <2>2 DEF RegisterForeground
    <3>2. CASE t \in ApiTasks /\ ClientOf[t] = c
      BY <1>2, <2>2, <3>1, <3>2 DEF RegistrationsStep, RegistersSink
    <3>3. CASE ~(t \in ApiTasks /\ ClientOf[t] = c)
      <4>1. foreground'[c] = foreground[c]
        BY <1>2, <2>2, <3>3 DEF RegisterForeground, ApiTasks
      <4>2. \/ fg' = fg
            \/ \E i \in AppIds(App(t)) : fg' = [fg EXCEPT ![i] = ClientOf[t]]
        BY <2>2 DEF RegisterForeground, RegisterForegroundActivator
      <4>3. ASSUME NEW i \in Ids, fg[i] = c
            PROVE  fg'[i] = c \/ \E d \in Clients \ {c} : AppOf[d] = owner[i]
        BY <1>2, <4>2, <4>3 DEF AppIds, App
      <4>4. QED
        BY <3>1, <4>1, <4>3 DEF RegistrationsStep, KeepsSink
    <3>4. QED
      BY <3>2, <3>3
  <2>3. CASE UndoForeground(t) \/ UnregisterForeground(t)
    <3>1. /\ longRunning' = longRunning
          /\ foreground' = [foreground EXCEPT ![ClientOf[t]] = "no"]
          /\ fg' = [i \in Ids |-> IF i \in AppIds(App(t)) THEN Nobody
                                   ELSE fg[i]]
      BY <2>3 DEF UndoForeground, UnregisterForeground,
         UnregisterForegroundActivator
    <3>2. foreground'[ClientOf[t]] = "no"
      BY <1>2, <3>1
    <3>3. KeepsSink(c)
      BY <3>1, <3>2 DEF KeepsSink, LosesSink
    <3>4. foreground'[c] = "no" \/ foreground'[c] = foreground[c]
      BY <1>2, <3>1
    <3>5. QED
      BY <3>1, <3>3, <3>4 DEF RegistrationsStep
  <2>4. CASE ActivatorReturns(t)
    <3>1. UNCHANGED <<foreground, fg>>
      BY <2>4 DEF ActivatorReturns
    <3>2. longRunning'[c] => \/ longRunning[c]
                             \/ /\ t \in ApiTasks /\ ClientOf[t] = c
                                /\ call[t] = "done"
      BY <1>2, <2>4 DEF ActivatorReturns
    <3>3. QED
      BY <2>4, <3>1, <3>2 DEF RegistrationsStep, KeepsSink
  <2>5. CASE RemovalReturns(t)
    <3>1. UNCHANGED <<foreground, fg>>
      BY <2>5 DEF RemovalReturns
    <3>2. longRunning'[c] => longRunning[c]
      BY <1>2, <2>5 DEF RemovalReturns
    <3>3. QED
      BY <3>1, <3>2 DEF RegistrationsStep, KeepsSink
  <2>6. QED
    BY <1>5, <2>1, <2>2, <2>3, <2>4, <2>5 DEF ClientStep
<1>6. ASSUME NEW d \in Clients, ClientEnds(d) PROVE RegistrationsStep(c)
  <2>1. /\ fg' = [i \in Ids |-> IF fg[i] = d THEN Gone ELSE fg[i]]
        /\ foreground' = [foreground EXCEPT ![d] = "no"]
        /\ longRunning' = [longRunning EXCEPT ![d] = FALSE]
    BY <1>6 DEF ClientEnds
  <2>2. CASE c = d
    BY <1>2, <2>1, <2>2 DEF RegistrationsStep
  <2>3. CASE c # d
    BY <1>2, <2>1, <2>3 DEF RegistrationsStep, KeepsSink
  <2>4. QED
    BY <2>2, <2>3
<1>7. ASSUME Platform PROVE RegistrationsStep(c)
  <2>1. /\ longRunning' = longRunning
        /\ foreground'[c] = IF lrp' = "off" /\ foreground[c] = "yes"
                            THEN "lost" ELSE foreground[c]
    BY <1>7 DEF Platform
  <2>2. lrp' = "off" \/ KeepsSink(c)
    <3>1. CASE Shutdown \/ PlatformCrash
      BY <3>1 DEF Shutdown, PlatformCrash, ProcessEnds
    <3>2. CASE SignalEvent \/ WaitForLifetimeEvent
      BY <3>2 DEF SignalEvent, WaitForLifetimeEvent, KeepsSink
    <3>3. ASSUME NEW i \in Ids, DropDeadSink(i) PROVE KeepsSink(c)
      BY <1>1, <1>2, <3>3 DEF DropDeadSink, KeepsSink
    <3>4. ASSUME NEW t \in Tasks, ActivatorStep(t), ~RemoveRaw(t)
          PROVE  KeepsSink(c)
      BY <3>4 DEF ActivatorStep, StoreClsid, RegisterSink, RegisterSinkFails,
         AddListener, Cancel, UnregisterSink, EraseListener,
         RemoveClsidAndToast, IsEmpty, Setup, KeepsSink
    <3>5. ASSUME NEW t \in Tasks, RemoveRaw(t) PROVE KeepsSink(c)
      <4>1. fg' = [fg EXCEPT ![id[t]] = Nobody]
        BY <3>5 DEF RemoveRaw
      <4>2. QED
        BY <1>2, <3>5, <4>1 DEF KeepsSink, LosesSink
    <3>6. QED
      BY <1>7, <3>1, <3>2, <3>3, <3>4, <3>5 DEF Platform, PlatformStep
  <2>3. QED
    BY <2>1, <2>2 DEF RegistrationsStep
<1>8. CASE UNCHANGED vars
  BY <1>3, <1>8 DEF vars, clientVars
<1>9. QED
  BY <1>3, <1>4, <1>5, <1>6, <1>7, <1>8 DEF Next

(* Where a thread that calls Register and Unregister comes from.           *)
ComesFrom(t) ==
  /\ pc'[t] = "full trust" => pc[t] = "full trust" \/ Register(t)
  /\ pc'[t] = "foreground" => pc[t] = "foreground" \/ RegisterFullTrust(t)
  /\ pc'[t] = "activator" => pc[t] = "activator" \/ RegisterForeground(t)
  /\ pc'[t] = "in activator" =>
       pc[t] = "in activator" \/ CallRegisterActivator(t)
  /\ pc'[t] = "undo full trust" =>
       pc[t] \in {"undo full trust", "foreground"} \/ UndoForeground(t)
  /\ pc'[t] = "close channel" =>
       \/ pc[t] = "close channel" \/ UnregisterForeground(t)
       \/ foreground[ClientOf[t]] = "no"
  /\ pc'[t] = "remove activator" =>
       pc[t] \in {"remove activator", "close channel"}
  /\ pc'[t] = "in removal" => pc[t] \in {"in removal", "remove activator"}
  /\ pc'[t] = "remove full trust" =>
       \/ pc[t] = "remove full trust"
       \/ pc[t] = "in removal" /\ ~longRunning'[ClientOf[t]]

(* Those are the ways there.                                               *)
LEMMA ThreadComesFrom ==
  ASSUME NamesInv, [Next]_vars, NEW t \in ApiTasks
  PROVE  ComesFrom(t)
<1>1. /\ LockInv /\ TypeOK /\ t \in Tasks /\ t \notin ChannelTasks
      /\ pc[t] # "create channel"
  BY DEF NamesInv, LockInv, PlatformInv, ApiTasks, CallsFitSteps
<1>2. pc \in [Tasks -> Steps]
  BY <1>1 DEF TypeOK
<1>3. CASE Rests(t) \/ IsCutShort(t)
  BY <1>3 DEF Rests, IsCutShort, ComesFrom
<1>4. CASE IsEnded(t)
  BY <1>4 DEF IsEnded, ComesFrom
<1>5. CASE QuietStep(t)
  <2>1. CASE Register(t) \/ Unregister(t) \/ UnregisterAll(t)
    BY <1>1, <1>2, <2>1 DEF Register, Unregister, UnregisterAll, BeginCall,
       Begin, Goes, ComesFrom
  <2>2. CASE CreateChannelAsync(t) \/ RegisterFullTrust(t)
             \/ RegisterForeground(t)
    BY <1>1, <1>2, <2>2 DEF CreateChannelAsync, RegisterFullTrust,
       RegisterForeground, Step, Goes, ComesFrom
  <2>3. CASE CreateChannel(t) \/ FullTrustFails(t) \/ AddToast(t)
             \/ UndoFullTrust(t) \/ RemoveFullTrust(t)
    <3>1. pc'[t] = "idle"
      BY <1>1, <1>2, <2>3 DEF CreateChannel, FullTrustFails, AddToast,
         UndoFullTrust, RemoveFullTrust, Step, Goes
    <3>2. QED
      BY <3>1 DEF ComesFrom
  <2>4. CASE UndoForeground(t) \/ UnregisterForeground(t)
    BY <1>1, <1>2, <2>4 DEF UndoForeground, UnregisterForeground, Step, Goes,
       ComesFrom
  <2>5. CASE CloseChannel(t)
    BY <1>1, <1>2, <2>5 DEF CloseChannel, Step, Goes, ComesFrom
  <2>6. CASE CallFails(t)
    <3>1. \/ pc'[t] \in {"idle", "undo foreground"}
          \/ pc[t] = "foreground" /\ pc'[t] = "undo full trust"
      BY <1>1, <1>2, <2>6 DEF CallFails, Step, Goes
    <3>2. QED
      BY <3>1 DEF ComesFrom
  <2>7. QED
    BY <1>5, <2>1, <2>2, <2>3, <2>4, <2>5, <2>6 DEF QuietStep
<1>6. CASE CallRegisterActivator(t) \/ CallUnregisterActivator(t)
  BY <1>2, <1>6 DEF CallRegisterActivator, CallUnregisterActivator, Step, Goes,
     ComesFrom
<1>7. CASE ActivatorReturns(t)
  BY <1>1, <1>2, <1>7 DEF ActivatorReturns, Step, Goes, ComesFrom
<1>8. CASE RemovalReturns(t)
  <2>1. /\ pc[t] = "in removal"
        /\ pc'[t] = IF call[t] = "done" THEN "remove full trust" ELSE "idle"
    BY <1>1, <1>2, <1>8 DEF RemovalReturns, Step, Goes
  <2>2. call[t] = "done" => ~longRunning'[ClientOf[t]]
    <3>1. longRunning \in [Clients -> BOOLEAN] /\ ClientOf[t] \in Clients
      BY <1>1, TaskAssumption DEF TypeOK
    <3>2. call[t] = "done" =>
            longRunning' = [longRunning EXCEPT ![ClientOf[t]] = FALSE]
      BY <1>8 DEF RemovalReturns
    <3>3. QED
      BY <3>1, <3>2
  <2>3. QED
    BY <2>1, <2>2 DEF ComesFrom
<1>9. CASE Platform /\ ActivatorStep(t)
  BY <1>9 DEF Platform, ComesFrom
<1>10. QED
  BY <1>1, <1>3, <1>4, <1>5, <1>6, <1>7, <1>8, <1>9, ThreadStep DEF OwnStep

(* An identifier goes away by its app's own calls, and its CLSID stays as  *)
(* long as it does.                                                        *)
LEMMA StoredStays ==
  ASSUME NamesInv, [Next]_vars, NEW t \in ApiTasks,
         Alone(ClientOf[t]), OneCaller(ClientOf[t]), ~DropsIds(t)
  PROVE  /\ AppIds(App(t)) \subseteq AppIds(App(t))'
         /\ AppIds(App(t)) # {} => AppIds(App(t))' = AppIds(App(t))
         /\ AppIds(App(t)) \intersect clsid \subseteq clsid'
<1>1. /\ TypeOK /\ StoredAreOwned /\ IdIsOwned /\ RemovedIsGone
      /\ CallsFitSteps /\ OneIdPerApp' /\ t \in Tasks
  BY NamesInvariant DEF NamesInv, LockInv, PlatformInv, ApiTasks
<1>2. \A u \in ApiTasks : App(u) = App(t) => u = t
  BY TaskAssumption DEF Alone, OneCaller, App, ApiTasks
<1>3. ASSUME NEW i \in AppIds(App(t)) PROVE i \in AppIds(App(t))'
  <2>1. i \in raw /\ i \in DOMAIN owner /\ owner'[i] = App(t)
    BY <1>1, <1>3, OwnerStep DEF AppIds, StoredAreOwned
  <2>2. ASSUME i \notin raw' PROVE FALSE
    <3>1. PICK u \in Tasks : DropsIds(u)
      BY <1>1, <2>1, <2>2, RawStep DEF MakesId
    <3>2. App(u) = App(t)
      BY <1>1, <1>3, <2>1, <2>2, <3>1 DEF DropsIds, RemoveRaw, Goto, AppIds,
         IdIsOwned, OwnedBy, Naming
    <3>3. u \in ApiTasks
      BY <1>1, <3>1 DEF DropsIds, RemoveRaw, Goto, Goes, CallsFitSteps,
         ApiSteps, Undoing, Unregistering
    <3>4. QED
      BY <1>2, <3>1, <3>2, <3>3
  <2>3. QED
    BY <2>1, <2>2 DEF AppIds, App
<1>4. ASSUME NEW i \in AppIds(App(t)), NEW j \in AppIds(App(t))'
      PROVE  i = j
  BY <1>1, <1>3, <1>4 DEF OneIdPerApp, AppIds, App
<1>5. ASSUME NEW i \in AppIds(App(t)), i \in clsid PROVE i \in clsid'
  BY <1>1, <1>5, TablesStep DEF GoesOut, RemovedIsGone, AppIds
<1>6. QED
  BY <1>3, <1>4, <1>5

(* Every step keeps what a process knows of its own registration: a call   *)
(* under way, what it has stored so far, and its sink.                     *)
LEMMA ClientInvariant ==
  ClientInv /\ [Next]_vars => ClientInv'
<1> SUFFICES ASSUME ClientInv, [Next]_vars PROVE ClientInv'
  OBVIOUS
<1>1. /\ NamesInv /\ LockInv /\ TypeOK /\ CallsFitSteps /\ CallsAreWaitedFor
      /\ NamesInv' /\ OneIdPerApp' /\ IdIsOwned' /\ RegistersByThread
  BY NamesInvariant DEF ClientInv, NamesInv, LockInv, PlatformInv
<1>2. RegistersByThread'
  BY <1>1, RegistrationsChange DEF RegistersByThread, RegistrationsStep,
     RegistersSink
<1>3. ASSUME NEW t \in ApiTasks, Alone(ClientOf[t]), OneCaller(ClientOf[t])
      PROVE  RegistrationIsKnown(t)' /\ SinkIsKnown(t)'
  <2> DEFINE c == ClientOf[t]
  <2>1. /\ RegistrationIsKnown(t) /\ SinkIsKnown(t) /\ ComesFrom(t)
        /\ RegistrationsStep(c) /\ t \in Tasks /\ c \in Clients
        /\ failed \subseteq failed' /\ App(t) = AppOf[c]
    BY <1>1, <1>3, TaskAssumption, ThreadComesFrom, RegistrationsChange,
       ThreadStep DEF ClientInv, ApiTasks, App
  <2>2. \A u \in Tasks : App(u) = App(t) => ClientOf[u] = c
    BY <1>3, <2>1, TaskAssumption DEF Alone, App
  <2>3. \A u \in ApiTasks : ClientOf[u] = c => u = t
    BY <1>3 DEF OneCaller
  <2>4. DropsIds(t) => \/ pc[t] = "in removal" /\ pc'[t] = "in removal"
                       \/ pc[t] = "undo full trust" /\ pc'[t] = "idle"
                          /\ t \in failed'
                       \/ pc[t] = "remove full trust" /\ pc'[t] = "idle"
    BY <1>1, <2>1 DEF DropsIds, RemoveRaw, Goto, Goes, TypeOK, CallsFitSteps,
       Undoing, Unregistering
  <2>5. ~DropsIds(t) /\ AppIds(App(t)) # {} =>
          /\ AppIds(App(t))' = AppIds(App(t))
          /\ AppIds(App(t)) \intersect clsid \subseteq clsid'
    BY <1>1, <1>3, StoredStays
  <2>6. pc'[t] \in {"foreground", "activator", "in activator"} =>
          /\ ~DropsIds(t) /\ AppIds(App(t))' # {}
          /\ pc'[t] = "in activator" => AppIds(App(t)) # {}
    <3>1. SUFFICES ASSUME pc'[t] \in {"foreground", "activator",
                                      "in activator"}
                   PROVE  /\ ~DropsIds(t) /\ AppIds(App(t))' # {}
                          /\ pc'[t] = "in activator" => AppIds(App(t)) # {}
      OBVIOUS
    <3>2. ~DropsIds(t)
      BY <2>4, <3>1
    <3>3. \/ pc[t] \in {"foreground", "activator", "in activator"}
          \/ RegisterFullTrust(t) /\ pc'[t] = "foreground"
      BY <2>1, <3>1 DEF ComesFrom, RegisterForeground, CallRegisterActivator,
         Step, Goes
    <3>4. CASE pc[t] \in {"foreground", "activator", "in activator"}
      BY <2>1, <2>5, <3>2, <3>4 DEF RegistrationIsKnown
    <3>5. CASE RegisterFullTrust(t) /\ pc'[t] = "foreground"
      <4>1. PICK i \in Ids : BuildAppIdentifier(App(t), i)
        BY <3>5 DEF RegisterFullTrust, RegisterFullTrustApplication
      <4>2. App(t) \in Apps
        BY <2>1, TaskAssumption
      <4>3. i \in AppIds(App(t))'
        BY <1>1, <4>1, <4>2, BuiltIsOwned DEF NamesInv, AppIds, App
      <4>4. QED
        BY <3>2, <3>5, <4>3
    <3>6. QED
      BY <3>3, <3>4, <3>5
  <2>7. ASSUME pc'[t] = "in activator", call'[t] # "failed"
        PROVE  /\ id'[t] \in AppIds(App(t))'
               /\ call'[t] # "clsid" => id'[t] \in clsid'
    <3>1. /\ AppIds(App(t))' = AppIds(App(t))
          /\ AppIds(App(t)) \intersect clsid \subseteq clsid'
          /\ AppIds(App(t)) # {}
      BY <2>5, <2>6, <2>7
    <3>2. CASE CallRegisterActivator(t)
      BY <1>1, <2>1, <3>1, <3>2 DEF CallRegisterActivator, BeginRegister,
         TypeOK, PlatformTypeOK
    <3>3. CASE ~CallRegisterActivator(t)
      <4>1. pc[t] = "in activator"
        BY <2>1, <2>7, <3>3 DEF ComesFrom
      <4>2. Rests(t) \/ (Platform /\ ActivatorStep(t))
        BY <1>1, <2>1, <2>7, <3>3, <4>1, ThreadStep, QuietStepIsQuiet
           DEF OwnStep, IsCutShort, IsEnded, Waiting, CallUnregisterActivator,
           ActivatorReturns, RemovalReturns, Step, Goes, LockInv, PlatformInv,
           TypeOK
      <4>3. CASE Rests(t)
        BY <2>1, <2>7, <3>1, <4>1, <4>3 DEF Rests, RegistrationIsKnown
      <4>4. CASE Platform /\ ActivatorStep(t)
        <5>1. /\ call[t] # "failed" /\ id' = id
              /\ StoreClsid(t) \/ call[t] # "clsid"
          BY <1>1, <4>4 DEF ActivatorStep, Goto, StoreClsid, RegisterSink,
             RegisterSinkFails, AddListener, Cancel, UnregisterSink,
             EraseListener, RemoveRaw, RemoveClsidAndToast, IsEmpty, Setup
        <5>2. StoreClsid(t) => id[t] \in clsid'
          BY DEF StoreClsid
        <5>3. QED
          BY <2>1, <3>1, <4>1, <5>1, <5>2 DEF RegistrationIsKnown
      <4>5. QED
        BY <4>2, <4>3, <4>4
    <3>4. QED
      BY <3>2, <3>3
  <2>8. longRunning'[c] => \/ longRunning[c]
                           \/ ActivatorReturns(t) /\ call[t] = "done"
    <3>1. SUFFICES ASSUME longRunning'[c], ~longRunning[c]
                   PROVE  ActivatorReturns(t) /\ call[t] = "done"
      OBVIOUS
    <3>2. PICK u \in ApiTasks : /\ ClientOf[u] = c /\ call[u] = "done"
                               /\ ActivatorReturns(u)
      BY <2>1, <3>1, Zenon DEF RegistrationsStep
    <3>3. QED
      BY <2>3, <3>2
  <2>9. pc'[t] = "remove full trust" => ~longRunning'[c]
    BY <2>1, <2>8 DEF ComesFrom, RegistrationIsKnown, ActivatorReturns, Step,
       Goes
  <2>10. ASSUME longRunning'[c], t \notin failed', pc'[t] # "in removal"
         PROVE  Stored(c)'
    <3>1. SUFFICES /\ ~DropsIds(t)
                   /\ \E i \in clsid : i \in AppIds(App(t))
      <4>1. ASSUME ~DropsIds(t), NEW i \in clsid, i \in AppIds(App(t))
            PROVE  Stored(c)'
        <5>1. i \in AppIds(App(t))' /\ i \in clsid'
          BY <2>5, <4>1
        <5>2. AppIds(App(t))' = {i}
          BY <1>1, <5>1 DEF AppIds, OneIdPerApp
        <5>3. QED
          BY <2>1, <5>1, <5>2 DEF Stored
      <4>2. QED
        BY <4>1
    <3>2. CASE ActivatorReturns(t) /\ call[t] = "done"
      <4>1. pc[t] = "in activator"
        BY <3>2 DEF ActivatorReturns, Step, Goes
      <4>2. QED
        BY <2>1, <2>4, <3>2, <4>1 DEF RegistrationIsKnown
    <3>3. CASE longRunning[c]
      <4>1. t \notin failed /\ pc[t] # "remove full trust"
        BY <2>1, <2>10, <3>3 DEF RegistrationIsKnown
      <4>2. ASSUME pc[t] = "in removal" PROVE FALSE
        <5>1. RemovalReturns(t)
          BY <1>1, <2>1, <2>10, <4>2, ThreadStep, QuietStepIsQuiet
             DEF OwnStep, Rests, IsCutShort, IsEnded, Waiting, Platform,
             CallRegisterActivator, CallUnregisterActivator, ActivatorReturns,
             Step, Goes, LockInv, PlatformInv
        <5>2. call[t] = "done" =>
                longRunning' = [longRunning EXCEPT ![ClientOf[t]] = FALSE]
          BY <5>1 DEF RemovalReturns
        <5>3. call[t] = "done"
          BY <2>10, <5>1 DEF RemovalReturns
        <5>4. longRunning \in [Clients -> BOOLEAN]
          BY <1>1 DEF TypeOK
        <5>5. QED
          BY <2>1, <2>10, <5>2, <5>3, <5>4
      <4>3. ~DropsIds(t)
        BY <2>4, <2>10, <4>1, <4>2
      <4>4. QED
        BY <2>1, <3>3, <4>1, <4>2, <4>3 DEF RegistrationIsKnown, Stored
    <3>4. QED
      BY <2>8, <2>10, <3>2, <3>3
  <2>11. RegistrationIsKnown(t)'
    BY <2>6, <2>7, <2>9, <2>10 DEF RegistrationIsKnown, App
  <2>12. pc'[t] \in {"full trust", "foreground", "undo full trust",
                    "close channel", "remove activator", "in removal",
                    "remove full trust"} => foreground'[c] = "no"
    <3>1. SUFFICES ASSUME pc'[t] \in {"full trust", "foreground",
                                      "undo full trust", "close channel",
                                      "remove activator", "in removal",
                                      "remove full trust"},
                          foreground'[c] # "no"
                   PROVE  FALSE
      OBVIOUS
    <3>2. ~RegistersSink(c)
      BY <1>1, <2>1, <2>3, <3>1 DEF RegistersSink, RegisterForeground, Step,
         Goes, TypeOK
    <3>3. foreground[c] # "no"
      BY <2>1, <3>1, <3>2 DEF RegistrationsStep
    <3>4. ~Register(t)
      BY <3>3 DEF Register, Registered
    <3>5. ~UndoForeground(t) /\ ~UnregisterForeground(t)
      BY <1>1, <2>1, <3>1 DEF UndoForeground, UnregisterForeground, TypeOK
    <3>6. ~RegisterFullTrust(t) \/ pc[t] = "full trust"
      BY DEF RegisterFullTrust, Step, Goes
    <3>7. QED
      BY <2>1, <3>1, <3>3, <3>4, <3>5, <3>6 DEF ComesFrom, SinkIsKnown
  <2>13. ASSUME foreground'[c] = "yes"
         PROVE  \E i \in AppIds(App(t))' : fg'[i] = c
    <3>1. CASE RegistersSink(c)
      <4>1. RegisterForeground(t)
        BY <2>3, <3>1 DEF RegistersSink
      <4>2. AppIds(App(t)) # {}
        BY <2>1, <4>1 DEF RegisterForeground, Step, Goes, RegistrationIsKnown
      <4>3. PICK i \in AppIds(App(t)) : fg' = [fg EXCEPT ![i] = c]
        BY <4>1, <4>2 DEF RegisterForeground, RegisterForegroundActivator
      <4>4. i \in AppIds(App(t))'
        BY <4>1 DEF RegisterForeground, RegisterForegroundActivator, storage,
           AppIds, App
      <4>5. fg'[i] = c
        BY <1>1, <4>3 DEF AppIds, TypeOK, PlatformTypeOK
      <4>6. QED
        BY <4>4, <4>5
    <3>2. CASE foreground[c] = "yes" /\ KeepsSink(c)
      <4>1. PICK i \in AppIds(App(t)) : fg[i] = c
        BY <2>1, <3>2 DEF SinkIsKnown
      <4>2. i \in Ids /\ owner[i] = App(t)
        BY <1>1, <4>1 DEF AppIds, TypeOK, PlatformTypeOK
      <4>3. pc[t] \notin {"undo full trust", "remove full trust", "in removal"}
        BY <2>1, <3>2 DEF SinkIsKnown
      <4>4. i \in AppIds(App(t))'
        BY <2>4, <2>5, <4>3
      <4>5. ~LosesSink(i)
        <5>1. ASSUME NEW u \in Tasks, i \in AppIds(App(u)),
                     foreground'[ClientOf[u]] = "no"
              PROVE  FALSE
          BY <2>2, <2>13, <4>2, <5>1 DEF AppIds
        <5>2. ASSUME NEW u \in Tasks, i = id[u], RemoveRaw(u) PROVE FALSE
          <6>1. call[u] \in Naming /\ pc[u] = "in removal"
            BY <1>1, <5>2 DEF RemoveRaw, Goto, Naming, CallsFitSteps,
               Unregistering
          <6>2. u \in ApiTasks /\ App(u) = App(t)
            BY <1>1, <4>2, <5>2, <6>1 DEF NamesInv, IdIsOwned, OwnedBy,
               CallsFitSteps, ApiSteps
          <6>3. QED
            BY <2>2, <2>3, <4>3, <6>1, <6>2 DEF ApiTasks
        <5>3. QED
          BY <5>1, <5>2 DEF LosesSink
      <4>6. fg'[i] = c
        BY <1>3, <2>1, <3>2, <4>1, <4>2, <4>5 DEF KeepsSink, Alone
      <4>7. QED
        BY <4>4, <4>6
    <3>3. QED
      BY <2>1, <2>13, <3>1, <3>2 DEF RegistrationsStep
  <2>14. SinkIsKnown(t)'
    BY <2>12, <2>13 DEF SinkIsKnown, App
  <2>15. QED
    BY <2>11, <2>14
<1>4. QED
  BY <1>1, <1>2, <1>3 DEF ClientInv, Alone, OneCaller

(* ClientInv, the inductive invariant of a process's registration.         *)
THEOREM ClientsAreKnown == Spec => []ClientInv
<1>1. ASSUME Init PROVE ClientInv
  <2>1. \A c \in Clients : ~longRunning[c] /\ foreground[c] = "no"
    BY <1>1 DEF Init
  <2>2. \A t \in ApiTasks : ClientOf[t] \in Clients /\ pc[t] = "idle"
    BY <1>1, TaskAssumption DEF Init, ApiTasks
  <2>3. \A t \in ApiTasks : RegistrationIsKnown(t) /\ SinkIsKnown(t)
    BY <2>1, <2>2 DEF RegistrationIsKnown, SinkIsKnown
  <2>4. QED
    BY <1>1, <2>1, <2>3, InitNames DEF ClientInv, RegistersByThread
<1>2. QED
  BY <1>1, ClientInvariant, PTL DEF Spec

(* RegisteredIsStored: as long as a process that alone has its name and    *)
(* calls from one thread is registered, and no call of that thread failed, *)
(* the app has exactly one identifier in the storage, with its CLSID.      *)
THEOREM RegisteredAppsAreStored == Spec => []RegisteredIsStored
<1>1. ASSUME ClientInv, NEW c \in Clients, longRunning[c], Idle(c), Alone(c),
             OneCaller(c),
             \A t \in ApiTasks \intersect failed : ClientOf[t] # c
      PROVE  \E i \in clsid : AppIds(AppOf[c]) = {i}
  <2>1. PICK t \in ApiTasks : ClientOf[t] = c
    BY <1>1, Zenon DEF ClientInv, RegistersByThread
  <2>2. t \in Tasks /\ t \notin failed /\ pc[t] = "idle"
    BY <1>1, <2>1 DEF ApiTasks, Idle
  <2>3. QED
    BY <1>1, <2>1, <2>2 DEF ClientInv, RegistrationIsKnown, Stored
<1>2. ClientInv => RegisteredIsStored
  BY <1>1 DEF RegisteredIsStored
<1>3. QED
  BY <1>2, ClientsAreKnown, PTL

(* ForegroundIsKept: the foreground sink of such a process is there until  *)
(* the LRP ends or the process unregisters it.                             *)
THEOREM ForegroundSinksAreKept == Spec => []ForegroundIsKept
<1>1. ASSUME ClientInv, NEW c \in Clients, foreground[c] = "yes", Alone(c),
             OneCaller(c)
      PROVE  \E i \in AppIds(AppOf[c]) : fg[i] = c
  <2>1. PICK t \in ApiTasks : ClientOf[t] = c
    BY <1>1 DEF ClientInv, RegistersByThread
  <2>2. QED
    BY <1>1, <2>1 DEF ClientInv, SinkIsKnown, App
<1>2. ClientInv => ForegroundIsKept
  BY <1>1 DEF ForegroundIsKept
<1>3. QED
  BY <1>2, ClientsAreKnown, PTL

=============================================================================
