----------------------- MODULE AppNotificationManager -----------------------
(***************************************************************************)
(* Instances of an unpackaged app that use AppNotificationManager          *)
(* (src/dev/AppNotifications/AppNotificationManager.cpp and                *)
(* AppNotificationUtility.cpp).  An instance registers itself as a COM     *)
(* server under a CLSID that all instances share through the registry; the *)
(* user clicks a notification and COM calls Activate in an instance that   *)
(* is registered, or starts one.  Activate holds m_lock while it stores    *)
(* the notification, calls the handlers, or passes it on.                  *)
(***************************************************************************)
EXTENDS Naturals, FiniteSets

CONSTANTS
  Processes,           (* the instances                                    *)
  Threads, ProcessOf,  (* the threads that call the API                    *)
  Notes, None,         (* the notifications that are shown                 *)
  MaxCalls, MaxFaults  (* bounds                                           *)

ASSUME ProcessAssumption ==
  /\ ProcessOf \in [Threads -> Processes] /\ Threads \cap Processes = {}
  /\ None \notin Notes

VARIABLES
  activator,    (* the value CustomActivator: a CLSID, or 0                *)
  servers,      (* the CLSIDs with a LocalServer32 key                     *)
  lastGuid,     (* CoCreateGuid                                            *)
  launch,       (* each process is off, started by the app's user, or      *)
                (* started by COM with the argument of a toast             *)
  registering, class, handlers, first, event, args,  (* the m_... fields;  *)
                (* handlers: whether there is one; event: the number of    *)
                (* the event, 0 if there is none                           *)
  signalled,    (* the numbers of the events that are signalled            *)
  pc,           (* where each thread is in its call, and each process in   *)
                (* Activate: elsewhere than "idle" it has m_lock           *)
  guid,         (* registeredGuid of both; of a thread that waits, the     *)
                (* number of its event                                     *)
  cur,          (* the notification Activate is about                      *)
  incoming,     (* external: those whose Activate waits for m_lock         *)
  wanted,       (* external: what COM has started a process for            *)
  fate,         (* what became of each notification                        *)
  believes,     (* history: processes whose last call to register them     *)
                (* or not succeeded in doing so                            *)
  spoiled,      (* history: those with a call of UnregisterAll beside it   *)
  overlapped,   (* history: the CLSID was looked up while another call     *)
                (* was about to change what it had looked up               *)
  loose,        (* history: processes that gave up their handlers          *)
  silent,       (* history: those that dropped a notification              *)
  unsure,       (* history: those with two events or two threads waiting   *)
  calls, faults

registry == <<activator, servers, lastGuid>>
fields   == <<registering, class, handlers, first, event, args, signalled>>
com      == <<launch, incoming, wanted, fate>>
history  == <<believes, spoiled, overlapped, loose, silent, unsure>>
vars     == <<registry, fields, com, pc, guid, cur, history, calls, faults>>

Actors  == Threads \union Processes
Own(a)  == IF a \in Threads THEN ProcessOf[a] ELSE a
NoClass == [clsid |-> 0, multiple |-> FALSE, used |-> TRUE]
Sinks   == [note : Notes, clsid : Nat]
Nothing == [note |-> None, clsid |-> 0]

Operations  == {"register", "unregister", "unregister all", "add", "remove",
                "deserialize"}
Registering == {"look up", "register server", "assets",
                "create event", "register class", "registered"}
Unregistering == {"look up all", "delete server", "delete key", "removed"}
Activating  == {"look up", "register server", "assets", "create instance",
                "remote", "handler", "calls back"}

TypeOK ==
  /\ activator \in Nat /\ servers \subseteq Nat /\ lastGuid \in Nat
  /\ launch \in [Processes -> {"off", "app", "toast"}]
  /\ registering \in [Processes -> BOOLEAN]
  /\ class \in [Processes -> [clsid : Nat, multiple : BOOLEAN, used : BOOLEAN]]
  /\ handlers \in [Processes -> BOOLEAN] /\ first \in [Processes -> BOOLEAN]
  /\ event \in [Processes -> Nat] /\ signalled \in [Processes -> SUBSET Nat]
  /\ {args[p] : p \in Processes} \subseteq Notes \union {None}
  /\ \A t \in Threads : pc[t] \in {"idle", "wait", "failed"} \union Operations
                                  \union Registering \union Unregistering
  /\ \A p \in Processes : pc[p] \in {"idle"} \union Activating
  /\ guid \in [Actors -> Nat] /\ cur \in [Processes -> Notes \union {None}]
  /\ incoming \in [Processes -> SUBSET Notes]
  /\ wanted \in [Processes -> Sinks \union {Nothing}]
  /\ fate \in [Notes -> {"shown", "sent", "stored", "handled", "dropped",
                         "lost"}]
  /\ {believes, spoiled, loose, silent, unsure} \subseteq SUBSET Processes
  /\ overlapped \in BOOLEAN /\ calls \in Nat /\ faults \in Nat

(* The registry may be that of an earlier instance that registered.        *)
Init ==
  /\ \E g \in {0, 1} : activator = g /\ lastGuid = g /\ servers = {g} \ {0}
  /\ launch = [p \in Processes |-> "off"]
  /\ registering = [p \in Processes |-> FALSE]
  /\ class = [p \in Processes |-> NoClass]
  /\ handlers = [p \in Processes |-> FALSE] /\ first = handlers
  /\ event = [p \in Processes |-> 0] /\ signalled = [p \in Processes |-> {}]
  /\ args = [p \in Processes |-> None] /\ cur = args
  /\ pc = [a \in Actors |-> "idle"] /\ guid = [a \in Actors |-> 0]
  /\ incoming = [p \in Processes |-> {}]
  /\ wanted = [p \in Processes |-> Nothing]
  /\ fate = [n \in Notes |-> "shown"]
  /\ believes = {} /\ spoiled = {} /\ loose = {} /\ silent = {}
  /\ unsure = {} /\ overlapped = FALSE
  /\ calls = 0 /\ faults = 0

Forgets(a) == guid' = [guid EXCEPT ![a] = 0]
Goes(a, from, to) == pc[a] = from /\ pc' = [pc EXCEPT ![a] = to]
Unlocked(p) == pc[p] = "idle"
HasClass(p) == class[p] # NoClass
Fault == faults < MaxFaults /\ faults' = faults + 1

-----------------------------------------------------------------------------
(* COM: an instance whose class object is free gets the call, or the       *)
(* LocalServer32 is started.  A class object for single use is free once.  *)

Free(c) == {p \in Processes : /\ HasClass(p) /\ class[p].clsid = c
                              /\ ~class[p].used}

Deliver(p, n) ==
  /\ incoming' = [incoming EXCEPT ![p] = @ \union {n}]
  /\ class' = [class EXCEPT ![p].used = ~class[p].multiple]

StartServer(p, c, n) ==
  /\ launch[p] = "off" /\ launch' = [launch EXCEPT ![p] = "toast"]
  /\ wanted' = [wanted EXCEPT ![p] = [note |-> n, clsid |-> c]]

CoCreateInstance(c, n) ==
  \/ \E p \in Free(c) : Deliver(p, n) /\ UNCHANGED <<launch, wanted>>
  \/ /\ Free(c) = {} /\ c \in servers
     /\ \E p \in Processes : StartServer(p, c, n)
     /\ UNCHANGED <<incoming, class>>

Click(n) ==
  /\ fate[n] = "shown" /\ activator # 0 /\ CoCreateInstance(activator, n)
  /\ fate' = [fate EXCEPT ![n] = "sent"]
  /\ UNCHANGED <<registry, registering, handlers, first, event, args,
                 signalled, pc, guid, cur, history, calls, faults>>

ServerIsReady(p) ==
  /\ wanted[p] # Nothing /\ p \in Free(wanted[p].clsid)
  /\ Deliver(p, wanted[p].note) /\ wanted' = [wanted EXCEPT ![p] = Nothing]
  /\ UNCHANGED <<registry, launch, fate, registering, handlers, first, event,
                 args, signalled, pc, guid, cur, history, calls, faults>>

ServerTimesOut(p) ==
  /\ wanted[p] # Nothing /\ wanted' = [wanted EXCEPT ![p] = Nothing]
  /\ fate' = [fate EXCEPT ![wanted[p].note] = "lost"]
  /\ UNCHANGED <<registry, fields, launch, incoming, pc, guid, cur, history,
                 calls, faults>>

-----------------------------------------------------------------------------
(* RegisterComActivatorGuidAndAssets, for Register and for Activate        *)

Changing(a) == pc[a] \in {"register server", "assets", "delete server",
                          "delete key"}
Overlaps(a) ==
  overlapped' = (overlapped \/ \E b \in Actors \ {a} : Changing(b))

(* Mutant: the key of the server is not verified                           *)
IsIntactUnverified == activator # 0

(* GetActivatorGuid                                                        *)
IsIntact == activator # 0 /\ activator \in servers

LookUp(a) ==
  /\ Goes(a, "look up", IF IsIntact THEN "assets" ELSE "register server")
  /\ guid' = [guid EXCEPT ![a] = IF IsIntact THEN activator ELSE lastGuid + 1]
  /\ lastGuid' = IF IsIntact THEN lastGuid ELSE lastGuid + 1
  /\ Overlaps(a)
  /\ UNCHANGED <<activator, servers, fields, com, cur, believes,
                 spoiled, loose, silent, unsure, calls, faults>>

RegisterComServer(a) ==
  /\ Goes(a, "register server", "assets")
  /\ servers' = servers \union {guid[a]}
  /\ UNCHANGED <<activator, lastGuid, fields, com, guid, cur, history,
                 calls, faults>>

RegisterAssets(a) ==
  /\ Goes(a, "assets", IF a \in Threads THEN "create event"
                                        ELSE "create instance")
  /\ activator' = guid[a]
  /\ UNCHANGED <<servers, lastGuid, fields, com, guid, cur, history,
                 calls, faults>>

-----------------------------------------------------------------------------
(* The API.  A call that needs m_lock waits until Activate lets go of it.  *)

(* A handler is added if there is none, and removed if there is one.       *)
Begin(t, op) ==
  /\ launch[ProcessOf[t]] # "off" /\ Goes(t, "idle", op)
  /\ op \in {"add", "remove"} => handlers[ProcessOf[t]] = (op = "remove")
  /\ calls < MaxCalls /\ calls' = calls + 1
  /\ UNCHANGED <<registry, fields, com, guid, cur, history, faults>>

(* Of use to a process started for a notification, which must register     *)
(* before: without an event the wait fails fast.                           *)
BeginDeserialize(t) ==
  /\ launch[ProcessOf[t]] = "toast" /\ event[ProcessOf[t]] # 0
  /\ Begin(t, "deserialize")

Register(t) ==
  LET p == ProcessOf[t] IN
  /\ Unlocked(p) /\ Goes(t, "register", IF registering[p] THEN "idle"
                                                          ELSE "look up")
  /\ registering' = [registering EXCEPT ![p] = TRUE]
  /\ UNCHANGED <<registry, class, handlers, first, event, args, signalled,
                 com, guid, cur, history, calls, faults>>

CreateEvent(t) ==
  LET p == ProcessOf[t] IN
  /\ Goes(t, "create event", "register class")
  /\ event' = [event EXCEPT ![p] = @ + 1]
  /\ unsure' = IF \E u \in Threads : ProcessOf[u] = p /\ pc[u] = "wait"
               THEN unsure \union {p} ELSE unsure
  /\ UNCHANGED <<registry, registering, class, handlers, first, args,
                 signalled, com, guid, cur, believes, spoiled, overlapped,
                 loose, silent, calls, faults>>

(* Mutant: REGCLS_MULTIPLEUSE in any case                                  *)
IsMultipleUse(p) == TRUE

ForMultipleUse(p) == handlers[p]

RegisterClass(t) ==
  LET p == ProcessOf[t] IN
  /\ Unlocked(p)
  /\ Goes(t, "register class", IF HasClass(p) THEN "failed" ELSE "registered")
  /\ class' = IF HasClass(p) THEN class ELSE
       [class EXCEPT ![p] = [clsid |-> guid[t], used |-> FALSE,
                             multiple |-> ForMultipleUse(p)]]
  /\ loose' = IF event[p] > 1 /\ ~handlers[p] THEN loose \union {p} ELSE loose
  /\ UNCHANGED <<registry, registering, handlers, first, event, args,
                 signalled, com, guid, cur, believes, spoiled, overlapped,
                 silent, unsure, calls, faults>>

(* The scope exit of Register and UnregisterAll                            *)
Leave(t) ==
  LET p == ProcessOf[t] IN
  /\ Unlocked(p) /\ pc[t] \in {"registered", "removed", "failed"}
  /\ Goes(t, pc[t], "idle")
  /\ registering' = [registering EXCEPT ![p] = FALSE]
  /\ Forgets(t)
  /\ believes' = IF pc[t] = "registered" THEN believes \union {p} ELSE believes
  /\ UNCHANGED <<registry, class, handlers, first, event, args, signalled,
                 com, cur, spoiled, overlapped, loose, silent, unsure,
                 calls, faults>>

StepFails(t) ==
  /\ pc[t] \in (Registering \union Unregistering) \ {"registered", "removed"}
  /\ Fault /\ Goes(t, pc[t], "failed")
  /\ UNCHANGED <<registry, fields, com, guid, cur, history, calls>>

Unregister(t) ==
  LET p == ProcessOf[t] IN
  /\ Unlocked(p) /\ Goes(t, "unregister", "idle")
  /\ IF registering[p] THEN UNCHANGED <<class, believes>> ELSE
       /\ class' = [class EXCEPT ![p] = NoClass]
       /\ believes' = believes \ {p}
  /\ UNCHANGED <<registry, registering, handlers, first, event, args,
                 signalled, com, guid, cur, spoiled, overlapped, loose,
                 silent, unsure, calls, faults>>

(* The class object is revoked before m_registering is looked at           *)
UnregisterAll(t) ==
  LET p == ProcessOf[t] IN
  /\ Unlocked(p) /\ class' = [class EXCEPT ![p] = NoClass]
  /\ Goes(t, "unregister all", IF registering[p] THEN "idle"
                                                 ELSE "look up all")
  /\ registering' = [registering EXCEPT ![p] = TRUE]
  /\ believes' = believes \ {p}
  /\ spoiled' = IF registering[p] THEN spoiled \union {p} ELSE spoiled
  /\ UNCHANGED <<registry, handlers, first, event, args, signalled, com, guid,
                 cur, overlapped, loose, silent, unsure, calls, faults>>

(* What UnregisterAll removes is shared by all instances                   *)
Removes(t) == spoiled' = spoiled \union {p \in Processes \ {ProcessOf[t]} :
                                           launch[p] # "off"}

LookUpAll(t) ==
  /\ Goes(t, "look up all", IF IsIntact THEN "delete server" ELSE "failed")
  /\ guid' = [guid EXCEPT ![t] = activator] /\ Overlaps(t)
  /\ UNCHANGED <<registry, fields, com, cur, believes, spoiled, loose, silent,
                 unsure, calls, faults>>

UnRegisterComServer(t) ==
  /\ Goes(t, "delete server",
          IF guid[t] \in servers THEN "delete key" ELSE "failed")
  /\ servers' = servers \ {guid[t]} /\ Removes(t)
  /\ UNCHANGED <<activator, lastGuid, fields, com, guid, cur,
                 believes, overlapped, loose, silent, unsure, calls, faults>>

(* The key can be there without a value, or be gone                        *)
UnRegisterNotificationAppIdentifier(t) ==
  /\ \/ Goes(t, "delete key", "removed")
     \/ activator = 0 /\ Goes(t, "delete key", "failed")
  /\ activator' = 0 /\ Removes(t)
  /\ UNCHANGED <<servers, lastGuid, fields, com, guid, cur, believes,
                 overlapped, loose, silent, unsure, calls, faults>>

(* NotificationInvoked, to add a handler and to remove it                  *)
AddHandler(t) ==
  LET p == ProcessOf[t] IN
  /\ Unlocked(p) /\ Goes(t, "add", "idle")
  /\ handlers' = [handlers EXCEPT ![p] = @ \/ ~HasClass(p)]
  /\ UNCHANGED <<registry, registering, class, first, event, args, signalled,
                 com, guid, cur, history, calls, faults>>

RemoveHandler(t) ==
  LET p == ProcessOf[t] IN
  /\ Unlocked(p) /\ Goes(t, "remove", "idle")
  /\ handlers' = [handlers EXCEPT ![p] = FALSE]
  /\ loose' = IF event[p] # 0 THEN loose \union {p} ELSE loose
  /\ UNCHANGED <<registry, registering, class, first, event, args, signalled,
                 com, guid, cur, believes, spoiled, overlapped, silent,
                 unsure, calls, faults>>

Deserialize(t) ==
  LET p == ProcessOf[t] IN
  /\ Goes(t, "deserialize", IF args[p] = None THEN "wait" ELSE "idle")
  /\ guid' = [guid EXCEPT ![t] = IF args[p] = None THEN event[p] ELSE 0]
  /\ unsure' = IF \E u \in Threads : ProcessOf[u] = p /\ pc[u] = "wait"
               THEN unsure \union {p} ELSE unsure
  /\ UNCHANGED <<registry, fields, com, cur, believes, spoiled, overlapped,
                 loose, silent, calls, faults>>

(* The event resets itself                                                 *)
WaitReturns(t) ==
  LET p == ProcessOf[t] IN
  /\ guid[t] \in signalled[p] /\ Goes(t, "wait", "idle") /\ Forgets(t)
  /\ signalled' = [signalled EXCEPT ![p] = @ \ {guid[t]}]
  /\ UNCHANGED <<registry, registering, class, handlers, first, event, args,
                 com, cur, history, calls, faults>>

WaitTimesOut(t) ==
  /\ guid[t] \notin signalled[ProcessOf[t]] /\ Goes(t, "wait", "idle")
  /\ Forgets(t)
  /\ UNCHANGED <<registry, fields, com, cur, history, calls, faults>>

-----------------------------------------------------------------------------
(* Activate                                                                *)

Takes(p, n) == Unlocked(p) /\ n \in incoming[p]
               /\ incoming' = [incoming EXCEPT ![p] = @ \ {n}]

StoreArgs(p, n) ==
  /\ Takes(p, n) /\ launch[p] = "toast" /\ ~first[p]
  /\ first' = [first EXCEPT ![p] = TRUE]
  /\ args' = [args EXCEPT ![p] = n]
  /\ signalled' = [signalled EXCEPT ![p] = @ \union {event[p]}]
  /\ fate' = [fate EXCEPT ![n] = "stored"]
  /\ UNCHANGED <<registry, registering, class, handlers, event, launch,
                 wanted, pc, guid, cur, history, calls, faults>>

Holds(p, n, at) ==
  /\ Takes(p, n) /\ Goes(p, "idle", at) /\ cur' = [cur EXCEPT ![p] = n]
  /\ first' = [first EXCEPT ![p] = TRUE]
  /\ UNCHANGED <<registry, registering, class, handlers, event, args,
                 signalled, launch, wanted, fate, guid, history, calls,
                 faults>>

(* Mutant: without a look at the handlers                                  *)
RerouteAlways(p, n) ==
  launch[p] = "app" /\ ~first[p] /\ Holds(p, n, "look up")

Reroute(p, n) ==
  launch[p] = "app" /\ ~first[p] /\ ~handlers[p] /\ Holds(p, n, "look up")

InvokeHandlers(p, n) ==
  (launch[p] = "app" \/ first[p]) /\ handlers[p] /\ Holds(p, n, "handler")

(* m_notificationHandlers has no handler to call                           *)
Drop(p, n) ==
  /\ Takes(p, n) /\ first[p] /\ ~handlers[p]
  /\ fate' = [fate EXCEPT ![n] = "dropped"]
  /\ silent' = silent \union {p}
  /\ UNCHANGED <<registry, fields, launch, wanted, pc, guid, cur, believes,
                 spoiled, overlapped, loose, unsure, calls, faults>>

HandlerReturns(p) ==
  /\ Goes(p, "handler", "idle")
  /\ fate' = [fate EXCEPT ![cur[p]] = "handled"]
  /\ cur' = [cur EXCEPT ![p] = None]
  /\ UNCHANGED <<registry, fields, launch, incoming, wanted, guid, history,
                 calls, faults>>

(* A handler calls Unregister or NotificationInvoked                       *)
HandlerCallsBack(p) ==
  /\ Goes(p, "handler", "calls back")
  /\ UNCHANGED <<registry, fields, com, guid, cur, history, calls, faults>>

(* create_instance and Activate there                                      *)
PassOn(p) ==
  /\ Goes(p, "create instance", "remote")
  /\ CoCreateInstance(guid[p], cur[p])
  /\ Forgets(p)
  /\ UNCHANGED <<registry, fate, registering, handlers, first, event, args,
                 signalled, cur, history, calls, faults>>

PassOnFails(p) ==
  /\ Goes(p, "create instance", "idle") /\ Free(guid[p]) = {}
  /\ guid[p] \notin servers \/ \A q \in Processes : launch[q] # "off"
  /\ fate' = [fate EXCEPT ![cur[p]] = "lost"]
  /\ cur' = [cur EXCEPT ![p] = None]
  /\ Forgets(p)
  /\ UNCHANGED <<registry, fields, launch, incoming, wanted, history,
                 calls, faults>>

ActivateFails(p) ==
  /\ pc[p] \in {"look up", "register server", "assets", "create instance"}
  /\ Fault /\ Goes(p, pc[p], "idle") /\ Forgets(p)
  /\ fate' = [fate EXCEPT ![cur[p]] = "lost"]
  /\ cur' = [cur EXCEPT ![p] = None]
  /\ UNCHANGED <<registry, fields, launch, incoming, wanted, history, calls>>

RemoteReturns(p) ==
  /\ Goes(p, "remote", "idle") /\ fate[cur[p]] # "sent"
  /\ cur' = [cur EXCEPT ![p] = None]
  /\ UNCHANGED <<registry, fields, com, guid, history, calls, faults>>

-----------------------------------------------------------------------------
Start(p) ==
  /\ launch[p] = "off" /\ launch' = [launch EXCEPT ![p] = "app"]
  /\ UNCHANGED <<registry, fields, incoming, wanted, fate, pc, guid, cur,
                 history, calls, faults>>

InHandsOf(p) == incoming[p] \union {wanted[p].note}
                \union (IF pc[p] = "remote" THEN {} ELSE {cur[p]})

ProcessEnds(p) ==
  /\ launch[p] # "off" /\ Fault
  /\ launch' = [launch EXCEPT ![p] = "off"]
  /\ registering' = [registering EXCEPT ![p] = FALSE]
  /\ class' = [class EXCEPT ![p] = NoClass]
  /\ handlers' = [handlers EXCEPT ![p] = FALSE]
  /\ first' = [first EXCEPT ![p] = FALSE]
  /\ event' = [event EXCEPT ![p] = 0]
  /\ signalled' = [signalled EXCEPT ![p] = {}]
  /\ args' = [args EXCEPT ![p] = None] /\ cur' = [cur EXCEPT ![p] = None]
  /\ pc' = [a \in Actors |-> IF Own(a) = p THEN "idle" ELSE pc[a]]
  /\ guid' = [a \in Actors |-> IF Own(a) = p THEN 0 ELSE guid[a]]
  /\ incoming' = [incoming EXCEPT ![p] = {}]
  /\ wanted' = [wanted EXCEPT ![p] = Nothing]
  /\ fate' = [n \in Notes |-> IF n \in InHandsOf(p) THEN "lost" ELSE fate[n]]
  /\ believes' = believes \ {p} /\ spoiled' = spoiled \ {p}
  /\ loose' = loose \ {p} /\ silent' = silent \ {p}
  /\ unsure' = unsure \ {p}
  /\ UNCHANGED <<registry, overlapped, calls>>

ThreadStep(t) ==
  \/ Register(t) \/ LookUp(t) \/ RegisterComServer(t) \/ RegisterAssets(t)
  \/ CreateEvent(t) \/ RegisterClass(t) \/ Leave(t)
  \/ Unregister(t)
  \/ UnregisterAll(t) \/ LookUpAll(t) \/ UnRegisterComServer(t)
  \/ UnRegisterNotificationAppIdentifier(t)
  \/ AddHandler(t) \/ RemoveHandler(t)
  \/ Deserialize(t) \/ WaitReturns(t) \/ WaitTimesOut(t)

ActivateStep(p) ==
  \/ \E n \in Notes : \/ StoreArgs(p, n) \/ Reroute(p, n)
                      \/ InvokeHandlers(p, n) \/ Drop(p, n)
  \/ LookUp(p) \/ RegisterComServer(p) \/ RegisterAssets(p) \/ PassOn(p)
  \/ PassOnFails(p) \/ RemoteReturns(p) \/ HandlerReturns(p)

ComStep(p) == ServerIsReady(p) \/ ServerTimesOut(p)

Next ==
  \/ \E t \in Threads :
       \/ \E op \in Operations \ {"deserialize"} : Begin(t, op)
       \/ BeginDeserialize(t) \/ ThreadStep(t) \/ StepFails(t)
  \/ \E p \in Processes :
       \/ ActivateStep(p) \/ ActivateFails(p) \/ HandlerCallsBack(p)
       \/ ComStep(p) \/ Start(p) \/ ProcessEnds(p)
  \/ \E n \in Notes : Click(n)

Spec == Init /\ [][Next]_vars

-----------------------------------------------------------------------------
(* m_registering is set exactly while one thread is between the lock of
   Register or UnregisterAll and their scope exit (107-116, 215-225). *)
InACall == Registering \union Unregistering \union {"failed"}
RegisteringIsACall ==
  \A p \in Processes :
    Cardinality({t \in Threads : ProcessOf[t] = p /\ pc[t] \in InACall})
      = IF registering[p] THEN 1 ELSE 0

(* The COM servers of the app in the registry are those that CustomActivator
   names, or is about to: none is left behind (AppNotificationUtility.cpp
   244-272), unless a call failed, or looked the CLSID up while another was
   changing it. *)
NoServerIsLeft ==
  faults = 0 /\ ~overlapped =>
    \A s \in servers : s = activator
                       \/ \E a \in Actors : pc[a] = "assets" /\ guid[a] = s

(* An instance whose Register returned and which has not unregistered since
   is where COM looks for it: its class object has the CLSID that the registry
   names (AppNotificationManager.cpp 125, 155-160).  Not so after an
   UnregisterAll in another instance, or one refused in this, which had
   revoked the class object already (216-217). *)
RegisteredIsReachable ==
  \A p \in believes \ spoiled :
    ~overlapped => /\ HasClass(p) /\ class[p].clsid = activator
                   /\ activator \in servers

(* What the API keeps in the process and what it keeps in the registry agree
   about who is registered: the three formulas above. *)
RegistrationInv ==
  TypeOK /\ RegisteringIsACall /\ NoServerIsLeft /\ RegisteredIsReachable

(* A thread that waits for the arguments of the notification the process was
   started for is woken once they are there (84-94, 323-324), unless a second
   Register replaced the event it waits for (142), or two threads wait. *)
WaiterIsWoken ==
  \A t \in Threads :
    LET p == ProcessOf[t] IN
    pc[t] = "wait" /\ args[p] # None /\ p \notin unsure =>
      guid[t] \in signalled[p]

(* "If this isn't done, the OS will launch a new process for every subsequent
   invocation" (specs/AppNotifications/AppNotifications-spec.md:321): an
   instance without handlers gets no notification it would drop (329), unless
   it has removed its handlers, or registered again; and the one it was
   started for reaches the thread that waits for it. *)
NotificationsArrive == WaiterIsWoken /\ silent \subseteq loose

(* m_lock is held while Activate waits for the instance it passed the
   notification on to (287-314), and an Activate there or a call of the app
   here may wait for m_lock.  No instance that waits in this way is waited for
   itself, so there is no circle - unless it gave up its handlers after it
   registered: the class object it would "re-route the payload to a new
   process" with (299-300) is then for multiple use, COM finds it in the
   caller's own process, and Activate waits for the lock it has. *)
NoCircularWait ==
  \A p \in Processes \ loose :
    pc[p] = "remote" =>
      \A q \in Processes : pc[q] = "remote" => cur[q] \notin incoming[p]

=============================================================================
