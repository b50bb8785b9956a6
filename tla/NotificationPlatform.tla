------------------------ MODULE NotificationPlatform ------------------------
(***************************************************************************)
(* The long running process of push notifications ("LRP",                  *)
(* src/dev/PushNotifications/PushNotificationsLongRunningTask): the calls  *)
(* of INotificationsLongRunningPlatform on its storage, its listeners and  *)
(* its foreground sinks, and the timer that ends a process without apps.   *)
(*                                                                         *)
(* Calls under the exclusive m_lock are one action.  Registering and       *)
(* unregistering an activator take m_lock SHARED and change the same       *)
(* tables, so they are one action per change.                              *)
(***************************************************************************)
EXTENDS Naturals, Sequences

CONSTANTS
  Apps,         (* process names                                           *)
  Clients,      (* the processes that call, one sink each                  *)
  Tasks,        (* the threads they call from                              *)
  Nobody, Gone, (* no sink; the sink of a process that ended               *)
  MaxIds,       (* bound: app identifiers the platform may make            *)
  MaxFaults     (* bound: failing calls and processes that end             *)

ASSUME SinkAssumption == Nobody # Gone /\ {Nobody, Gone} \cap Clients = {}
ASSUME BoundAssumption == MaxIds \in Nat /\ MaxFaults \in Nat

VARIABLES
  owner,        (* the process name each identifier was made for           *)
  raw,          (* the identifiers in m_rawStorage                         *)
  clsid,        (* the identifiers in m_comServerClsidStorage              *)
  toast,        (* the process names in the toast storage                  *)
  wpn,          (* external: identifiers registered as full trust apps     *)
  channels,     (* external: identifiers with a channel                    *)
  sinks,        (* external: identifiers with a sink of the running LRP    *)
  lrp,          (* the LRP is off, up, or its main thread was woken        *)
  timer, event, (* m_timer is set, m_event is signalled                    *)
  listeners,    (* the identifiers in m_notificationListeners              *)
  fg,           (* m_foregroundMap                                         *)
  call, id,     (* each thread's activator call, and the appId it found    *)
  proxies,      (* the threads that hold a proxy of the running LRP        *)
  faults,       (* history: the number of faults                           *)
  overlap       (* history: an activator was registered while another was  *)
                (* being unregistered, or the other way round              *)

storage == <<owner, raw, clsid, toast>>
core    == <<wpn, channels, sinks>>
process == <<lrp, timer, event, listeners, fg, proxies>>
calls   == <<call, id, overlap>>
platformVars == <<storage, core, process, calls, faults>>

Ids         == 1..MaxIds
Registering == {"clsid", "sink", "listen", "cancel"}
Unregistering == {"unsink", "erase", "unraw", "unclsid", "isempty", "setup"}
InPlatform(t) == call[t] \in Registering \union Unregistering

PlatformTypeOK ==
  /\ owner \in Seq(Apps) /\ Len(owner) <= MaxIds
  /\ raw \subseteq Ids /\ clsid \subseteq Ids /\ toast \subseteq Apps
  /\ wpn \subseteq Ids /\ channels \subseteq Ids /\ sinks \subseteq Ids
  /\ lrp \in {"off", "up", "woken"}
  /\ timer \in BOOLEAN /\ event \in BOOLEAN
  /\ listeners \subseteq Ids
  /\ fg \in [Ids -> Clients \union {Nobody, Gone}]
  /\ call \in [Tasks -> {"none", "done", "failed"} \union Registering
                         \union Unregistering]
  /\ id \in [Tasks -> Ids \union {0}]
  /\ proxies \subseteq Tasks
  /\ faults \in 0..MaxFaults
  /\ overlap \in BOOLEAN

PlatformInit ==
  /\ owner = <<>>
  /\ raw = {} /\ clsid = {} /\ toast = {}
  /\ wpn = {} /\ channels = {} /\ sinks = {}
  /\ lrp = "off" /\ timer = FALSE /\ event = FALSE
  /\ listeners = {}
  /\ fg = [i \in Ids |-> Nobody]
  /\ call = [t \in Tasks |-> "none"] /\ id = [t \in Tasks |-> 0]
  /\ proxies = {}
  /\ faults = 0
  /\ overlap = FALSE

Fault == faults < MaxFaults /\ faults' = faults + 1

(* GetAppIdentifier: the storage entries whose value is the process name.  *)
AppIds(a) == {i \in raw : owner[i] = a}

(* m_lock is free for an exclusive owner that reaches the process.         *)
Exclusive(t) == t \in proxies /\ \A u \in Tasks : ~InPlatform(u)

-----------------------------------------------------------------------------
(* The process: started by the class object's activation, ended by its     *)
(* main thread when the event is signalled, or at any moment by a fault.   *)

(* GetFullTrustApps: apps with a channel whose process name is stored.     *)
TrackedApps == raw \intersect channels

(* It unboxes the stored CLSID of each; Initialize fails if one is not     *)
(* there, and WinMain returns.                                             *)
CanStart == TrackedApps \subseteq clsid

Initialize ==
  /\ lrp = "off" /\ CanStart
  /\ lrp' = "up" /\ timer' = (TrackedApps = {}) /\ event' = FALSE
  /\ listeners' = TrackedApps /\ sinks' = TrackedApps
  /\ UNCHANGED fg

(* GetNotificationPlatform: COM starts the process when it is not there.   *)
GetNotificationPlatform(t) ==
  /\ \/ Initialize
     \/ lrp # "off" /\ UNCHANGED <<lrp, timer, event, listeners, fg, sinks>>
  /\ proxies' = proxies \union {t}

SignalEvent ==
  /\ timer
  /\ timer' = FALSE /\ event' = TRUE
  /\ UNCHANGED <<storage, core, lrp, listeners, fg, proxies, calls, faults>>

WaitForLifetimeEvent ==
  /\ lrp = "up" /\ event
  /\ lrp' = "woken" /\ event' = FALSE
  /\ UNCHANGED <<storage, core, timer, listeners, fg, proxies, calls, faults>>

ProcessEnds ==
  /\ lrp' = "off" /\ timer' = FALSE /\ event' = FALSE
  /\ listeners' = {} /\ sinks' = {} /\ proxies' = {}
  /\ fg' = [i \in Ids |-> Nobody]

(* Mutant: Shutdown does not wait for the calls in the platform.           *)
ShutdownAtOnce ==
  /\ lrp = "woken"
  /\ ProcessEnds
  /\ UNCHANGED <<storage, wpn, channels, calls, faults>>

(* Shutdown takes the exclusive m_lock; the calls after it are refused.    *)
Shutdown ==
  /\ lrp = "woken" /\ \A t \in Tasks : ~InPlatform(t)
  /\ ProcessEnds
  /\ UNCHANGED <<storage, wpn, channels, calls, faults>>

PlatformCrash ==
  /\ lrp # "off" /\ Fault
  /\ ProcessEnds
  /\ call' = [t \in Tasks |-> IF InPlatform(t) THEN "failed" ELSE call[t]]
  /\ UNCHANGED <<storage, wpn, channels, id, overlap>>

-----------------------------------------------------------------------------
(* Calls under the exclusive lock.  Those a client makes are one action    *)
(* with the client's own step; they leave calls and faults alone.          *)

(* Mutant: every registration makes a new identifier.                      *)
BuildNewIdentifier(a, i) ==
  /\ Len(owner) < MaxIds
  /\ i = Len(owner) + 1
  /\ owner' = Append(owner, a) /\ raw' = raw \union {i}

(* BuildAppIdentifier: the stored identifier, or a new GUID that is stored *)
(* first.                                                                  *)
BuildAppIdentifier(a, i) ==
  \/ i \in AppIds(a) /\ UNCHANGED <<owner, raw>>
  \/ /\ AppIds(a) = {} /\ Len(owner) < MaxIds
     /\ i = Len(owner) + 1
     /\ owner' = Append(owner, a) /\ raw' = raw \union {i}

RegisterFullTrustApplication(t, a, i) ==
  /\ Exclusive(t)
  /\ BuildAppIdentifier(a, i)
  /\ wpn' = wpn \union {i}
  /\ UNCHANGED <<clsid, toast, channels, sinks, process>>

(* PushNotifications_RegisterFullTrustApplication fails after the          *)
(* identifier was stored.                                                  *)
RegisterFullTrustFails(t, a, i) ==
  /\ Exclusive(t)
  /\ BuildAppIdentifier(a, i)
  /\ UNCHANGED <<clsid, toast, core, process>>

UnregisterFullTrustApplication(t, a) ==
  /\ Exclusive(t)
  /\ wpn' = wpn \ AppIds(a)
  /\ channels' = channels \ AppIds(a)
  /\ raw' = raw \ AppIds(a)
  /\ UNCHANGED <<owner, clsid, toast, sinks, process>>

RegisterForegroundActivator(t, a, c) ==
  /\ Exclusive(t)
  /\ \/ AppIds(a) = {} /\ UNCHANGED <<fg, timer>>
     \/ \E i \in AppIds(a) : fg' = [fg EXCEPT ![i] = c] /\ timer' = FALSE
  /\ UNCHANGED <<storage, core, lrp, event, listeners, proxies>>

UnregisterForegroundActivator(t, a) ==
  /\ Exclusive(t)
  /\ fg' = [i \in Ids |-> IF i \in AppIds(a) THEN Nobody ELSE fg[i]]
  /\ UNCHANGED <<storage, core, lrp, timer, event, listeners, proxies>>

AddToastRegistrationMapping(t, a) ==
  /\ Exclusive(t)
  /\ toast' = IF AppIds(a) = {} THEN toast ELSE toast \union {a}
  /\ UNCHANGED <<owner, raw, clsid, core, process>>

(* Mutant: a sink that did not handle the notification is dropped too.     *)
DropAnySink(i) ==
  /\ lrp # "off" /\ i \in sinks /\ fg[i] # Nobody
  /\ fg' = [fg EXCEPT ![i] = Nobody]
  /\ UNCHANGED <<storage, core, lrp, timer, event, listeners, proxies, calls,
                 faults>>

(* InvokeForegroundHandlers: a notification for an app whose sink cannot   *)
(* be called any more drops the sink.                                      *)
DropDeadSink(i) ==
  /\ lrp # "off" /\ i \in sinks /\ fg[i] = Gone
  /\ fg' = [fg EXCEPT ![i] = Nobody]
  /\ UNCHANGED <<storage, core, lrp, timer, event, listeners, proxies, calls,
                 faults>>

-----------------------------------------------------------------------------
(* RegisterLongRunningActivatorWithClsid and UnregisterLongRunningActivator *)

Overlaps(others) == \E u \in Tasks : call[u] \in others

(* The caller's first step: m_lock shared, GetAppIdentifier.  Unregistering *)
(* goes on to IsEmpty when the app is unknown.                             *)
BeginRegister(t, a) ==
  /\ t \in proxies
  /\ \/ /\ AppIds(a) = {}
        /\ call' = [call EXCEPT ![t] = "done"]
        /\ UNCHANGED <<id, overlap>>
     \/ \E i \in AppIds(a) :
          /\ call' = [call EXCEPT ![t] = "clsid"]
          /\ id' = [id EXCEPT ![t] = i]
          /\ overlap' = (overlap \/ Overlaps(Unregistering))
  /\ UNCHANGED <<storage, core, process>>

BeginUnregister(t, a) ==
  /\ t \in proxies
  /\ \/ /\ AppIds(a) = {}
        /\ call' = [call EXCEPT ![t] = "isempty"]
        /\ UNCHANGED id
     \/ \E i \in AppIds(a) :
          /\ call' = [call EXCEPT ![t] = "unsink"]
          /\ id' = [id EXCEPT ![t] = i]
  /\ overlap' = (overlap \/ Overlaps(Registering))
  /\ UNCHANGED <<storage, core, process>>

(* t's call goes from one step to the next.                                *)
Goto(t, from, to) ==
  /\ call[t] = from
  /\ call' = [call EXCEPT ![t] = to]
  /\ UNCHANGED <<id, overlap, faults>>

(* Mutant: the CLSID is not stored.                                        *)
StoreNothing(t) ==
  /\ Goto(t, "clsid", "sink")
  /\ UNCHANGED <<storage, core, process>>

StoreClsid(t) ==
  /\ Goto(t, "clsid", "sink")
  /\ clsid' = clsid \union {id[t]}
  /\ UNCHANGED <<owner, raw, toast, core, process>>

(* AddListener *)
RegisterSink(t) ==
  /\ Goto(t, "sink", "listen")
  /\ sinks' = sinks \union {id[t]}
  /\ UNCHANGED <<storage, wpn, channels, process>>

RegisterSinkFails(t) ==
  /\ call[t] = "sink" /\ Fault
  /\ call' = [call EXCEPT ![t] = "failed"]
  /\ UNCHANGED <<storage, core, process, id, overlap>>

AddListener(t) ==
  /\ Goto(t, "listen", "cancel")
  /\ listeners' = listeners \union {id[t]}
  /\ UNCHANGED <<storage, core, lrp, timer, event, fg, proxies>>

(* PlatformLifetimeManager::Cancel: the timer, and not the event.          *)
(* Mutant: the registration does not cancel the timer.                     *)
CancelForgotten(t) ==
  /\ Goto(t, "cancel", "done")
  /\ UNCHANGED <<storage, core, process>>

Cancel(t) ==
  /\ Goto(t, "cancel", "done")
  /\ timer' = FALSE
  /\ UNCHANGED <<storage, core, lrp, event, listeners, fg, proxies>>

(* RemoveListener *)
UnregisterSink(t) ==
  /\ Goto(t, "unsink", "erase")
  /\ sinks' = sinks \ {id[t]}
  /\ UNCHANGED <<storage, wpn, channels, process>>

EraseListener(t) ==
  /\ Goto(t, "erase", "unraw")
  /\ listeners' = listeners \ {id[t]}
  /\ UNCHANGED <<storage, core, lrp, timer, event, fg, proxies>>

RemoveRaw(t) ==
  /\ Goto(t, "unraw", "unclsid")
  /\ fg' = [fg EXCEPT ![id[t]] = Nobody]
  /\ raw' = raw \ {id[t]}
  /\ UNCHANGED <<owner, clsid, toast, core, lrp, timer, event, listeners,
                 proxies>>

(* Mutant: the CLSID stays in the storage.                                 *)
RemoveToastOnly(t) ==
  /\ Goto(t, "unclsid", "isempty")
  /\ toast' = toast \ {owner[id[t]]}
  /\ UNCHANGED <<owner, raw, clsid, core, process>>

RemoveClsidAndToast(t) ==
  /\ Goto(t, "unclsid", "isempty")
  /\ clsid' = clsid \ {id[t]}
  /\ toast' = toast \ {owner[id[t]]}
  /\ UNCHANGED <<owner, raw, core, process>>

IsEmpty(t) ==
  /\ Goto(t, "isempty", IF listeners = {} THEN "setup" ELSE "done")
  /\ UNCHANGED <<storage, core, process>>

(* PlatformLifetimeManager::Setup: five seconds from now, and the event    *)
(* is reset.  Mutant: the timer is not set.                                *)
SetupResetsOnly(t) ==
  /\ Goto(t, "setup", "done")
  /\ event' = FALSE
  /\ UNCHANGED <<storage, core, lrp, timer, listeners, fg, proxies>>

Setup(t) ==
  /\ Goto(t, "setup", "done")
  /\ timer' = TRUE /\ event' = FALSE
  /\ UNCHANGED <<storage, core, lrp, listeners, fg, proxies>>

ActivatorStep(t) ==
  \/ StoreClsid(t) \/ RegisterSink(t) \/ RegisterSinkFails(t)
  \/ AddListener(t) \/ Cancel(t)
  \/ UnregisterSink(t) \/ EraseListener(t) \/ RemoveRaw(t)
  \/ RemoveClsidAndToast(t) \/ IsEmpty(t) \/ Setup(t)

PlatformStep ==
  \/ SignalEvent \/ WaitForLifetimeEvent \/ Shutdown \/ PlatformCrash
  \/ \E i \in Ids : DropDeadSink(i)
  \/ \E t \in Tasks : ActivatorStep(t)

=============================================================================
