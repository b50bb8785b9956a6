----------------------- MODULE PushNotificationManager -----------------------
(***************************************************************************)
(* Unpackaged apps that use PushNotificationManager                        *)
(* (src/dev/PushNotifications/PushNotificationManager.cpp) against the     *)
(* platform of NotificationPlatform: Register with its rollback,           *)
(* Unregister, UnregisterAll and CreateChannelAsync, which no lock keeps   *)
(* apart from the others.  m_registering lets one of the first three run   *)
(* at a time: one thread of each process calls them.                       *)
(***************************************************************************)
EXTENDS NotificationPlatform, FiniteSets

CONSTANTS
  ClientOf,     (* the process of each thread                              *)
  AppOf,        (* the process name of each process                        *)
  ChannelTasks, (* the threads that run CreateChannelAsync                 *)
  MaxCalls      (* bound: calls the apps make                              *)

ASSUME TaskAssumption ==
  /\ ClientOf \in [Tasks -> Clients] /\ AppOf \in [Clients -> Apps]
  /\ ChannelTasks \subseteq Tasks /\ MaxCalls \in Nat

VARIABLES
  pc,           (* where each thread is                                    *)
  foreground,   (* m_singletonForegroundRegistration: "no", "yes", or      *)
                (* "lost": yes, but the LRP ended since (history)          *)
  longRunning,  (* m_singletonLongRunningSinkRegistration                  *)
  channel,      (* m_channel: the identifier it was opened for, or 0       *)
  appId,        (* unpackagedAppUserModelId, which the LRP returned        *)
  failed,       (* history: the threads with a call that failed            *)
  made          (* history: the number of calls begun                      *)

clientVars == <<pc, foreground, longRunning, channel, appId, failed, made>>
vars       == <<platformVars, clientVars>>

App(t) == AppOf[ClientOf[t]]
ApiTasks == Tasks \ ChannelTasks

Undoing  == {"undo foreground", "undo full trust"}
Steps    == {"idle", "full trust", "foreground", "activator", "in activator",
             "toast", "create channel", "unregister", "unregister first",
             "close channel", "remove activator", "in removal",
             "remove full trust"} \union Undoing

TypeOK ==
  /\ PlatformTypeOK
  /\ pc \in [Tasks -> Steps]
  /\ foreground \in [Clients -> {"no", "yes", "lost"}]
  /\ longRunning \in [Clients -> BOOLEAN]
  /\ channel \in [Clients -> Ids \union {0}]
  /\ appId \in [Tasks -> Ids \union {0}]
  /\ failed \subseteq Tasks /\ made \in 0..MaxCalls

Init ==
  /\ PlatformInit
  /\ pc = [t \in Tasks |-> "idle"]
  /\ foreground = [c \in Clients |-> "no"]
  /\ longRunning = [c \in Clients |-> FALSE]
  /\ channel = [c \in Clients |-> 0]
  /\ appId = [t \in Tasks |-> 0]
  /\ failed = {} /\ made = 0

Goes(t, from, to) == pc[t] = from /\ pc' = [pc EXCEPT ![t] = to]
Step(t, from, to) == Goes(t, from, to) /\ UNCHANGED made

-----------------------------------------------------------------------------
(* The beginnings of the calls: checks, and a proxy of the platform.       *)

Connect(t) ==
  /\ GetNotificationPlatform(t)
  /\ UNCHANGED <<storage, wpn, channels, calls, faults>>

Begin(t, to) ==
  Goes(t, "idle", to) /\ made < MaxCalls /\ made' = made + 1

BeginCall(t, to) == Begin(t, to) /\ Connect(t)

Registered(c) == foreground[c] # "no" \/ longRunning[c]

Register(t) ==
  /\ t \in ApiTasks /\ ~Registered(ClientOf[t])
  /\ BeginCall(t, "full trust")
  /\ UNCHANGED <<foreground, longRunning, channel, appId, failed>>

CreateChannelAsync(t) ==
  /\ t \in ChannelTasks
  /\ BeginCall(t, "full trust")
  /\ UNCHANGED <<foreground, longRunning, channel, appId, failed>>

Unregister(t) ==
  /\ t \in ApiTasks /\ foreground[ClientOf[t]] # "no"
  /\ BeginCall(t, "unregister")
  /\ UNCHANGED <<foreground, longRunning, channel, appId, failed>>

(* UnregisterAll calls Unregister first if there is something for it to do *)
UnregisterAll(t) ==
  /\ t \in ApiTasks
  /\ IF foreground[ClientOf[t]] # "no"
     THEN BeginCall(t, "unregister first")
     ELSE Begin(t, "close channel") /\ UNCHANGED platformVars
  /\ UNCHANGED <<foreground, longRunning, channel, appId, failed>>

-----------------------------------------------------------------------------
(* Register and CreateChannelAsync                                         *)

RegisterFullTrust(t) ==
  /\ Step(t, "full trust",
          IF t \in ChannelTasks THEN "create channel" ELSE "foreground")
  /\ \E i \in Ids : /\ RegisterFullTrustApplication(t, App(t), i)
                    /\ appId' = [appId EXCEPT ![t] = i]
  /\ UNCHANGED <<calls, faults, foreground, longRunning, channel, failed>>

FullTrustFails(t) ==
  /\ Step(t, "full trust", "idle") /\ Fault
  /\ \E i \in Ids : RegisterFullTrustFails(t, App(t), i)
  /\ failed' = failed \union {t}
  /\ UNCHANGED <<calls, foreground, longRunning, channel, appId>>

(* PushNotifications_CreateChannelWithRemoteIdentifier, for the identifier *)
(* RegisterFullTrustApplication returned.                                  *)
CreateChannel(t) ==
  /\ Step(t, "create channel", "foreground")
  /\ appId[t] \in wpn
  /\ channels' = channels \union {appId[t]}
  /\ UNCHANGED <<storage, wpn, sinks, process, calls, faults, foreground,
                 longRunning, channel, appId, failed>>

RegisterForeground(t) ==
  /\ Step(t, "foreground", "activator")
  /\ RegisterForegroundActivator(t, App(t), ClientOf[t])
  /\ foreground' = IF t \in ChannelTasks THEN foreground
                   ELSE [foreground EXCEPT ![ClientOf[t]] = "yes"]
  /\ UNCHANGED <<calls, faults, longRunning, channel, appId, failed>>

CallRegisterActivator(t) ==
  /\ Step(t, "activator", "in activator")
  /\ BeginRegister(t, App(t))
  /\ UNCHANGED <<faults, foreground, longRunning, channel, appId, failed>>

(* What becomes of the activator call: CreateChannelAsync goes on, Register *)
(* is complete, or its scope exits undo it.                                *)
ActivatorReturns(t) ==
  /\ call[t] \in {"done", "failed"}
  /\ call' = [call EXCEPT ![t] = "none"] /\ id' = [id EXCEPT ![t] = 0]
  /\ Step(t, "in activator",
          IF call[t] = "failed"
          THEN IF t \in ChannelTasks THEN "idle" ELSE "undo foreground"
          ELSE IF t \in ChannelTasks THEN "toast" ELSE "idle")
  /\ longRunning' =
       IF t \in ApiTasks /\ call[t] = "done"
       THEN [longRunning EXCEPT ![ClientOf[t]] = TRUE] ELSE longRunning
  /\ failed' = IF call[t] = "failed" THEN failed \union {t} ELSE failed
  /\ UNCHANGED <<storage, core, process, overlap, faults, foreground,
                 channel, appId>>

AddToast(t) ==
  /\ Step(t, "toast", "idle")
  /\ AddToastRegistrationMapping(t, App(t))
  /\ channel' = [channel EXCEPT ![ClientOf[t]] = appId[t]]
  /\ appId' = [appId EXCEPT ![t] = 0]
  /\ UNCHANGED <<calls, faults, foreground, longRunning, failed>>

UndoForeground(t) ==
  /\ Step(t, "undo foreground", "undo full trust")
  /\ UnregisterForegroundActivator(t, App(t))
  /\ foreground' = [foreground EXCEPT ![ClientOf[t]] = "no"]
  /\ UNCHANGED <<calls, faults, longRunning, channel, appId, failed>>

UndoFullTrust(t) ==
  /\ Step(t, "undo full trust", "idle")
  /\ UnregisterFullTrustApplication(t, App(t))
  /\ UNCHANGED <<calls, faults, foreground, longRunning, channel, appId,
                 failed>>

-----------------------------------------------------------------------------
(* Unregister and UnregisterAll                                            *)

UnregisterForeground(t) ==
  /\ \/ Step(t, "unregister", "idle")
     \/ Step(t, "unregister first", "close channel")
  /\ UnregisterForegroundActivator(t, App(t))
  /\ foreground' = [foreground EXCEPT ![ClientOf[t]] = "no"]
  /\ UNCHANGED <<calls, faults, longRunning, channel, appId, failed>>

(* m_channel is closed; without a long running registration the call       *)
(* throws E_UNEXPECTED, with one it asks for the platform again.           *)
CloseChannel(t) ==
  /\ channels' = channels \ {channel[ClientOf[t]]}
  /\ \/ /\ ~longRunning[ClientOf[t]]
        /\ Step(t, "close channel", "idle")
        /\ UNCHANGED <<process, sinks>>
     \/ /\ longRunning[ClientOf[t]]
        /\ Step(t, "close channel", "remove activator")
        /\ GetNotificationPlatform(t)
  /\ UNCHANGED <<storage, wpn, calls, faults, foreground, longRunning, channel,
                 appId, failed>>

CallUnregisterActivator(t) ==
  /\ Step(t, "remove activator", "in removal")
  /\ BeginUnregister(t, App(t))
  /\ UNCHANGED <<faults, foreground, longRunning, channel, appId, failed>>

RemovalReturns(t) ==
  /\ call[t] \in {"done", "failed"}
  /\ call' = [call EXCEPT ![t] = "none"] /\ id' = [id EXCEPT ![t] = 0]
  /\ Step(t, "in removal",
          IF call[t] = "done" THEN "remove full trust" ELSE "idle")
  /\ longRunning' = IF call[t] = "done"
                    THEN [longRunning EXCEPT ![ClientOf[t]] = FALSE]
                    ELSE longRunning
  /\ failed' = IF call[t] = "failed" THEN failed \union {t} ELSE failed
  /\ UNCHANGED <<storage, core, process, overlap, faults, foreground,
                 channel, appId>>

RemoveFullTrust(t) ==
  /\ Step(t, "remove full trust", "idle")
  /\ UnregisterFullTrustApplication(t, App(t))
  /\ UNCHANGED <<calls, faults, foreground, longRunning, channel, appId,
                 failed>>

-----------------------------------------------------------------------------
(* Failures.  A call through a proxy of an LRP that ended fails, and so    *)
(* may any call.  The caller throws, or Register's scope exits run; one    *)
(* that throws ends the process.                                           *)

Calling == {"full trust", "create channel", "foreground", "activator",
            "toast", "unregister", "unregister first", "remove activator",
            "remove full trust"}

Fails(t) ==
  \/ Fault
  \/ UNCHANGED faults /\ IF pc[t] = "create channel"
                        THEN appId[t] \notin wpn ELSE t \notin proxies

CallFails(t) ==
  /\ pc[t] \in Calling /\ Fails(t)
  /\ Step(t, pc[t],
          IF t \in ChannelTasks THEN "idle"
          ELSE CASE pc[t] = "foreground" -> "undo full trust"
                 [] pc[t] = "activator" -> "undo foreground"
                 [] OTHER -> "idle")
  /\ failed' = failed \union {t}
  /\ UNCHANGED <<storage, core, process, calls, foreground, longRunning,
                 channel, appId>>

(* A process ends, by itself or by a throwing scope exit; the app may be   *)
(* started again.  The calls it has in the LRP run to their end first.     *)
ClientEnds(c) ==
  LET mine == {t \in Tasks : ClientOf[t] = c} IN
  /\ \A t \in mine : call[t] = "none"
  /\ \/ \E t \in mine : /\ pc[t] \in Undoing /\ t \notin proxies
                        /\ UNCHANGED faults
     \/ Fault
  /\ pc' = [t \in Tasks |-> IF t \in mine THEN "idle" ELSE pc[t]]
  /\ fg' = [i \in Ids |-> IF fg[i] = c THEN Gone ELSE fg[i]]
  /\ proxies' = proxies \ mine
  /\ foreground' = [foreground EXCEPT ![c] = "no"]
  /\ longRunning' = [longRunning EXCEPT ![c] = FALSE]
  /\ channel' = [channel EXCEPT ![c] = 0]
  /\ failed' = failed \union mine
  /\ UNCHANGED <<storage, core, lrp, timer, event, listeners, calls, appId,
                 made>>

ClientStep(t) ==
  \/ RegisterFullTrust(t) \/ FullTrustFails(t) \/ CreateChannel(t)
  \/ RegisterForeground(t) \/ CallRegisterActivator(t) \/ ActivatorReturns(t)
  \/ AddToast(t) \/ UndoForeground(t) \/ UndoFullTrust(t)
  \/ UnregisterForeground(t) \/ CloseChannel(t) \/ CallUnregisterActivator(t)
  \/ RemovalReturns(t) \/ RemoveFullTrust(t) \/ CallFails(t)

Platform ==
  /\ PlatformStep
  /\ foreground' =
       [c \in Clients |-> IF lrp' = "off" /\ foreground[c] = "yes"
                          THEN "lost" ELSE foreground[c]]
  /\ UNCHANGED <<pc, longRunning, channel, appId, failed, made>>

Next ==
  \/ Platform
  \/ \E t \in Tasks :
       \/ Register(t) \/ CreateChannelAsync(t) \/ Unregister(t)
       \/ UnregisterAll(t) \/ ClientStep(t)
  \/ \E c \in Clients : ClientEnds(c)

(* Calls are served and return, the timer fires, the main thread runs.     *)
Fairness ==
  /\ \A t \in Tasks : WF_vars(ClientStep(t))
  /\ \A t \in Tasks : WF_vars(ActivatorStep(t) /\ Platform)
  /\ WF_vars((SignalEvent \/ WaitForLifetimeEvent \/ Shutdown) /\ Platform)

Spec == Init /\ [][Next]_vars /\ Fairness

-----------------------------------------------------------------------------
(* Properties.                                                             *)

Idle(c) == \A t \in Tasks : ClientOf[t] = c => pc[t] = "idle"
Alone(c) == \A d \in Clients \ {c} : AppOf[d] # AppOf[c]

(* One thread of the process calls Register and Unregister.  m_registering
   keeps two of these calls apart, but for UnregisterAll: another may come
   between its Unregister and its taking the flag
   (PushNotificationManager.cpp 689-700). *)
OneCaller(c) ==
  \A t, u \in ApiTasks : ClientOf[t] = c /\ ClientOf[u] = c => t = u

(* What a registered app relies on when the LRP is started again (platform.cpp
   235-243): as long as the app is registered its identifier and its CLSID
   are stored, one identifier per app.  A call of the app that failed may have
   removed them halfway (143-148). *)
RegisteredIsStored ==
  \A c \in Clients :
    /\ longRunning[c] /\ Idle(c) /\ Alone(c) /\ OneCaller(c)
    /\ \A t \in ApiTasks \intersect failed : ClientOf[t] # c
    =>
      \E i \in clsid : AppIds(AppOf[c]) = {i}

(* The activator calls and the process they run in: a call never outlives the
   process (platform.cpp 49, 100, 136), and a process that is not there holds
   nothing.  As long as no registration overlapped an unregistration, the
   timer is only set for a platform that is still empty (151-154). *)
CallsNeedProcess == \A t \in Tasks : InPlatform(t) => lrp # "off"
OffIsEmpty == lrp = "off" => listeners = {} /\ ~timer /\ proxies = {}
CallsApart == ~overlap => \A t, u \in Tasks :
                call[t] \in Registering => call[u] \notin Unregistering
SetupSawEmpty == ~overlap => \A t \in Tasks :
                   call[t] = "setup" => listeners = {}
PlatformInv == /\ TypeOK /\ CallsNeedProcess /\ OffIsEmpty
               /\ CallsApart /\ SetupSawEmpty

(* m_lock is shared by the calls that change the listeners (platform.cpp 100,
   136): unless two of them overlapped, the timer does not run while an app
   has a listener, but between AddListener and Cancel (128-130). *)
TrackedIsNotTimed ==
  listeners # {} /\ (\A t \in Tasks : call[t] # "cancel") /\ ~overlap => ~timer

(* Nothing is left in the LRP of an app that makes its calls one at a time
   and is not registered: no listener and no CLSID (platform.cpp 134-158).
   Unregistering the full trust application removes neither (79-95). *)
Sequential(a) == \A t, u \in Tasks : App(t) = a /\ App(u) = a => t = u
NothingIsLeft ==
  \A t \in Tasks \ failed :
    Sequential(App(t)) /\ pc[t] = "idle" =>
      {i \in listeners \union clsid : owner[i] = App(t)} \subseteq raw

(* The LRP can be started again (239-241) unless a CreateChannelAsync is under
   way, or one was cut short after it had its channel. *)
StartsAgain ==
  (\A t \in ChannelTasks : pc[t] = "idle" /\ t \notin failed) => CanStart

(* The sink of a registered process is there until the LRP ends, and only
   until then (PushNotificationManager.cpp 532-542). *)
ForegroundIsKept ==
  \A c \in Clients :
    foreground[c] = "yes" /\ Idle(c) /\ Alone(c) /\ OneCaller(c) =>
      \E i \in AppIds(AppOf[c]) : fg[i] = c

(* An LRP that has no app to track and no sink of one, and that no app calls
   any more, ends (platform.cpp 19-20, 151-154).  Not so after overlapping
   calls, of which one cancels the timer the other has set; and a
   CreateChannelAsync beside an UnregisterAll may leave a sink under an
   identifier that is gone. *)
Quiet ==
  /\ \A c \in Clients : Idle(c) /\ ~Registered(c)
  /\ listeners = {} /\ failed = {} /\ ~overlap
  /\ \A i \in Ids : fg[i] = Nobody
IdlePlatformEnds == <>[]Quiet => <>[](lrp = "off")

=============================================================================
