---------------------------- MODULE PowerManager ----------------------------
(***************************************************************************)
(* The events and getters of PowerManager                                  *)
(* (src/dev/PowerNotifications/PowerNotifications.h and .cpp).  An event   *)
(* that gets its first handler registers a listener with Windows; an event *)
(* that loses its last one unregisters it.  While an event has handlers    *)
(* its getter returns what the listener last stored; otherwise it asks     *)
(* Windows.  BatteryStatus, PowerSupplyStatus and RemainingChargePercent   *)
(* are fed by one snapshot, share one handle, and all their getters look   *)
(* at the handlers of BatteryStatus.  AddCallback, RemoveCallback and the  *)
(* getters hold m_mutex; the callbacks of Windows hold nothing, and the    *)
(* handlers run later on a thread of the pool.                             *)
(***************************************************************************)
EXTENDS Integers, FiniteSets

CONSTANTS
  Clients,      (* who subscribes and reads; one handler for each event    *)
  Wanted,       (* which of the events each of them has to do with         *)
  Composite,    (* the events fed by the composite battery status          *)
  Status,       (* of those, BatteryStatus                                 *)
  Charge,       (* and RemainingChargePercent                              *)
  Singles,      (* the events with a value and a listener of their own     *)
  Suspend,      (* SystemSuspendStatus                                     *)
  Battery,      (* the listener of the composite battery status            *)
  Values,
  Reports,      (* what Windows reports of the composite battery status    *)
  Unknown,      (* an unknown capacity, Uninitialized, a field never set   *)
  First,        (* the values at the start                                 *)
  Leftovers,    (* what the fields without an initial value may hold       *)
  MaxEvents,    (* bounds the calls and the changes; and a behaviour uses  *)
  MaxSources    (* at most this many listeners: they share only m_mutex    *)

Kinds == Composite \union Singles \union {Suspend}
Sources == Singles \union {Battery, Suspend}
SourceOf(k) == IF k \in Composite THEN Battery ELSE k
KindsOf(s) == {k \in Kinds : SourceOf(k) = s}

ASSUME PowerAssumption ==
  /\ {Status, Charge} \subseteq Composite /\ IsFiniteSet(Composite)
  /\ Composite \intersect (Sources \union {Unknown}) = {}
  /\ Battery \notin Singles \union {Suspend} /\ Suspend \notin Singles
  /\ Unknown \notin Values /\ First \in Values
  /\ Reports \subseteq [Composite -> Values \union {Unknown}]
  /\ Leftovers \subseteq [Composite -> Values]

VARIABLES
  handlers,     (* the clients with a handler of each event                *)
  handle,       (* the handle of each listener: its last registration      *)
  live,         (* the registrations Windows knows                         *)
  due,          (* those it still has to call with the present value       *)
  running,      (* the callbacks on their way, with the values they carry  *)
  os,           (* the values of Windows                                   *)
  cache, old,   (* m_cached..., m_batteryStatus...; m_oldBatteryStatus...  *)
  raised,       (* the events RaiseEvent has a coroutine for               *)
  reading,      (* the handlers called and about to read their value       *)
  call,         (* what a client does while it holds m_mutex               *)
  untold,       (* the events whose stored value no callback brought       *)
  seen,         (* what a subscriber last read, if it had been announced   *)
  raced,        (* listeners of which an older snapshot was still to be    *)
                (* stored when a newer one was taken                       *)
  crossed,      (* of which a callback with another snapshot was still     *)
                (* comparing when one was taken, or stored by a getter     *)
  leaky,        (* registered twice at once or not unregistered            *)
  lost,         (* how many registrations of a listener were undone for an *)
                (* event that had none to undo                             *)
  used,         (* the listeners used so far                               *)
  events        (* the calls and changes so far                            *)

vars == <<handlers, handle, live, due, running, os, cache, old, raised,
          reading, call, untold, seen, raced, crossed, leaky, lost, used,
          events>>

AnyValue == Values \union {Unknown}
Idle == [at |-> "idle"]
Snapshots == UNION {[KindsOf(s) -> AnyValue] : s \in Sources}
Callbacks ==
  [source : Sources, id : Nat, value : Snapshots,
   at : {"process", "compare", "load", "store", "reset"},
   left : SUBSET Composite,                 \* the events still to compare
   kind : Composite, read : AnyValue]       \* what is loaded to be stored
Calls == {Idle} \union [at : {"add"}, kind : Kinds]
           \union [at : {"get"}, kind : Kinds, value : Snapshots]

TypeOK ==
  /\ handlers \in [Kinds -> SUBSET Clients]
  /\ handle \in [Sources -> Nat]
  /\ live \in [Sources -> SUBSET Nat] /\ due \in [Sources -> SUBSET Nat]
  /\ running \subseteq Callbacks
  /\ os \in [Kinds -> AnyValue] /\ cache \in [Kinds -> AnyValue]
  /\ old \in [Composite -> AnyValue]
  /\ raised \subseteq Kinds /\ reading \subseteq Clients \X Kinds
  /\ call \in [Clients -> Calls]
  /\ untold \subseteq Composite
  /\ seen \in [Clients -> [Kinds -> AnyValue]]
  /\ raced \subseteq Sources /\ crossed \subseteq Sources
  /\ leaky \subseteq Sources /\ lost \in [Sources -> Nat]
  /\ used \subseteq Sources
  /\ events \in Nat

(* m_batteryStatus, m_powerSupplyStatus and m_batteryChargePercent have an *)
(* initial value.  The other fields have none: what the m_old... fields    *)
(* happen to hold decides on the first event.                              *)
Init ==
  /\ handlers = [k \in Kinds |-> {}]
  /\ handle = [s \in Sources |-> 0]
  /\ live = [s \in Sources |-> {}] /\ due = live
  /\ running = {}
  /\ os = [k \in Kinds |-> First]
  /\ cache = [k \in Kinds |-> IF k \in Composite THEN First ELSE Unknown]
  /\ old \in Leftovers
  /\ raised = {} /\ reading = {}
  /\ call = [c \in Clients |-> Idle]
  /\ untold = Composite
  /\ seen = [c \in Clients |-> [k \in Kinds |-> Unknown]]
  /\ raced = {} /\ crossed = {} /\ leaky = {} /\ used = {}
  /\ lost = [s \in Sources |-> 0]
  /\ events = 0

Locked == \E c \in Clients : call[c] # Idle

Uses(s) == used' = used \union {s} /\ Cardinality(used') <= MaxSources

CallStarts(c, k) ==
  /\ ~ Locked /\ <<c, k>> \in Wanted /\ Uses(SourceOf(k))
  /\ events < MaxEvents /\ events' = events + 1

Snapshot(s) == [k \in KindsOf(s) |-> os[k]]

-----------------------------------------------------------------------------
(* AddCallback.  Windows may call the new listener before the handler is   *)
(* in the event; a registration that fails changes nothing.                *)
AddCallback(c, k) ==
  /\ CallStarts(c, k) /\ c \notin handlers[k]
  /\ \/ /\ handlers[k] # {}
        /\ handlers' = [handlers EXCEPT ![k] = @ \union {c}]
        /\ UNCHANGED <<handle, live, due, call, leaky>>
     \/ /\ handlers[k] = {}
        /\ LET s == SourceOf(k)
               id == handle[s] + 1
           IN  /\ handle' = [handle EXCEPT ![s] = id]
               /\ live' = [live EXCEPT ![s] = @ \union {id}]
               /\ due' = [due EXCEPT ![s] = @ \union {id}]
               /\ leaky' = IF live[s] = {} THEN leaky ELSE leaky \union {s}
        /\ call' = [call EXCEPT ![c] = [at |-> "add", kind |-> k]]
        /\ UNCHANGED handlers
     \/ /\ handlers[k] = {}
        /\ UNCHANGED <<handlers, handle, live, due, call, leaky>>
  /\ UNCHANGED <<running, os, cache, old, raised, reading, untold, seen,
                 raced, crossed, lost>>

HandlerIsAdded(c) ==
  /\ call[c].at = "add"
  /\ handlers' = [handlers EXCEPT ![call[c].kind] = @ \union {c}]
  /\ call' = [call EXCEPT ![c] = Idle]
  /\ UNCHANGED <<handle, live, due, running, os, cache, old, raised, reading,
                 untold, seen, raced, crossed, leaky, lost, used, events>>

(* Mutant: nobody asks whether the event has handlers left                 *)
AnyHandlers(c, k) == TRUE

NoOtherHandler(c, k) == handlers[k] \subseteq {c}

(* RemoveCallback with the token of c's handler, or with one the event     *)
(* does not know, or not any more: all that matters is whether the event   *)
(* is empty afterwards.  Unregistering a handle Windows does not know      *)
(* fails, and the call throws with the handler already gone.               *)
RemoveCallback(c, k) ==
  LET s == SourceOf(k) IN
  /\ CallStarts(c, k)
  /\ handlers' = [handlers EXCEPT ![k] = @ \ {c}]
  /\ seen' = [seen EXCEPT ![c][k] = Unknown]
  /\ \/ /\ NoOtherHandler(c, k)
        /\ live' = [live EXCEPT ![s] = @ \ {handle[s]}]
        /\ due' = [due EXCEPT ![s] = @ \ {handle[s]}]
        /\ UNCHANGED leaky
     \/ /\ NoOtherHandler(c, k) /\ handle[s] \in live[s]
        /\ leaky' = leaky \union {s}
        /\ UNCHANGED <<live, due>>
     \/ /\ ~ NoOtherHandler(c, k)
        /\ UNCHANGED <<live, due, leaky>>
  /\ lost' = [lost EXCEPT ![s] =
                IF \A j \in KindsOf(s) : handlers'[j] = {} THEN 0
                ELSE IF live' # live /\ c \notin handlers[k] THEN @ + 1
                ELSE @]
  /\ UNCHANGED <<handle, running, os, cache, old, raised, reading, call,
                 untold, raced, crossed>>

-----------------------------------------------------------------------------
(* The getters.                                                            *)

(* The event whose handlers UpdateValuesIfNecessary looks at               *)
Checked(k) == IF k \in Composite THEN Status ELSE k

(* What c knows after reading v: nothing, if no callback has brought or    *)
(* announced it                                                            *)
Learn(c, k, v, unbrought) ==
  IF c \notin handlers[k] THEN seen
  ELSE [seen EXCEPT ![c][k] =
          IF k \in unbrought /\ old[k] # v THEN Unknown ELSE v]

(* A call of the program's own, or of a handler that was called.           *)
Getter(c, k) ==
  /\ ~ Locked
  /\ \/ <<c, k>> \in reading /\ reading' = reading \ {<<c, k>>}
        /\ UNCHANGED <<used, events>>
     \/ <<c, k>> \notin reading /\ CallStarts(c, k) /\ UNCHANGED reading
  /\ IF handlers[Checked(k)] = {} /\ k # Suspend
       THEN /\ call' = [call EXCEPT ![c] =
                 [at |-> "get", kind |-> k, value |-> Snapshot(SourceOf(k))]]
            /\ UNCHANGED seen
       ELSE seen' = Learn(c, k, cache[k], untold) /\ UNCHANGED call
  /\ UNCHANGED <<handlers, handle, live, due, running, os, cache, old,
                 raised, untold, raced, crossed, leaky, lost>>

(* Mutant: an unknown capacity makes the whole snapshot useless            *)
StoredIfKnown(v) ==
  IF \E k \in DOMAIN v : v[k] = Unknown THEN cache
  ELSE [k \in Kinds |-> IF k \in DOMAIN v THEN v[k] ELSE cache[k]]

(* ProcessCompositeBatteryStatus: the percentage stays when the capacity   *)
(* is unknown                                                              *)
Stored(v) ==
  [k \in Kinds |-> IF k \in DOMAIN v /\ v[k] # Unknown THEN v[k] ELSE cache[k]]

(* A callback with another snapshot than v is between its comparisons      *)
OtherIsCompared(s, v) ==
  \E r \in running : /\ r.source = s /\ r.at \in {"compare", "load", "store"}
                     /\ r.value # v

GetterStores(c) ==
  /\ call[c].at = "get"
  /\ cache' = Stored(call[c].value)
  /\ untold' = untold \union {k \in Composite : cache'[k] # cache[k]}
  /\ seen' = Learn(c, call[c].kind, cache'[call[c].kind], untold')
  /\ call' = [call EXCEPT ![c] = Idle]
  /\ LET s == SourceOf(call[c].kind)
     IN  crossed' = IF OtherIsCompared(s, call[c].value)
                      THEN crossed \union {s} ELSE crossed
  /\ UNCHANGED <<handlers, handle, live, due, running, os, old, raised,
                 reading, raced, leaky, lost, used, events>>

-----------------------------------------------------------------------------
(* Windows: a value changes, and every registration is called with it, the *)
(* calls of one registration one after the other.                          *)
Change(s) ==
  /\ events < MaxEvents /\ events' = events + 1 /\ Uses(s)
  /\ s = Suspend => due[s] = {}
  /\ \E v \in IF s = Battery THEN Reports ELSE [{s} -> Values] :
       /\ s = Suspend \/ v # Snapshot(s)
       /\ os' = [k \in Kinds |-> IF k \in KindsOf(s) THEN v[k] ELSE os[k]]
  /\ due' = [due EXCEPT ![s] = live[s]]
  /\ UNCHANGED <<handlers, handle, live, running, cache, old, raised,
                 reading, call, untold, seen, raced, crossed, leaky, lost>>

(* An older snapshot of s is still to be stored                            *)
OlderIsPending(s) ==
  \/ \E r \in running :
       r.source = s /\ r.at = "process" /\ r.value # Snapshot(s)
  \/ \E c \in Clients : /\ call[c].at = "get"
                        /\ SourceOf(call[c].kind) = s
                        /\ call[c].value # Snapshot(s)

CallbackStarts(s, id) ==
  /\ id \in due[s] /\ due' = [due EXCEPT ![s] = @ \ {id}]
  /\ \A r \in running : <<r.source, r.id>> # <<s, id>>
  /\ running' = running \union
       {[source |-> s, id |-> id, value |-> Snapshot(s), at |-> "process",
         left |-> {}, kind |-> Status, read |-> Unknown]}
  /\ raced' = IF OlderIsPending(s) THEN raced \union {s} ELSE raced
  /\ crossed' = IF OtherIsCompared(s, Snapshot(s))
                  THEN crossed \union {s} ELSE crossed
  /\ UNCHANGED <<handlers, handle, live, os, cache, old, raised, reading,
                 call, untold, seen, leaky, lost, used, events>>

Becomes(r, new) == running' = (running \ {r}) \union {new}

(* ..._Callback: the value is stored; then RaiseEvent starts a coroutine,  *)
(* for the battery after comparisons, for suspend before a reset.          *)
Process(r) ==
  /\ r.at = "process"
  /\ cache' = Stored(r.value)
  /\ untold' = untold \ {k \in DOMAIN r.value : r.value[k] # Unknown}
  /\ \/ /\ r.source = Battery /\ UNCHANGED raised
        /\ Becomes(r, [r EXCEPT !.at = "compare", !.left = Composite])
     \/ /\ r.source = Suspend /\ raised' = raised \union {Suspend}
        /\ Becomes(r, [r EXCEPT !.at = "reset"])
     \/ /\ r.source \in Singles /\ raised' = raised \union {r.source}
        /\ running' = running \ {r}
  /\ UNCHANGED <<handlers, handle, live, due, os, old, reading, call, seen,
                 raced, crossed, leaky, lost, used, events>>

(* FireCorrespondingCompositeBatteryEvent: for each event a comparison, a  *)
(* load, and a store with RaiseEvent, none of them under a lock.  The      *)
(* events do not share a field, so their order does not matter.            *)
GoesOnWith(r, left) ==
  IF left = {} THEN running' = running \ {r}
  ELSE Becomes(r, [r EXCEPT !.at = "compare", !.left = left, !.kind = Status,
                            !.read = Unknown])

Compare(r) ==
  LET k == CHOOSE j \in r.left : TRUE IN
  /\ r.at = "compare" /\ r.left # {}
  /\ IF old[k] = cache[k] THEN GoesOnWith(r, r.left \ {k})
     ELSE Becomes(r, [r EXCEPT !.at = "load", !.kind = k])
  /\ UNCHANGED <<handlers, handle, live, due, os, cache, old, raised,
                 reading, call, untold, seen, raced, crossed, leaky, lost,
                 used, events>>

LoadNew(r) ==
  /\ r.at = "load"
  /\ Becomes(r, [r EXCEPT !.at = "store", !.read = cache[r.kind]])
  /\ UNCHANGED <<handlers, handle, live, due, os, cache, old, raised,
                 reading, call, untold, seen, raced, crossed, leaky, lost,
                 used, events>>

(* Mutant: the events are compared in an else-if chain                     *)
NoMoreLeft(r) == {}

StillLeft(r) == r.left \ {r.kind}

StoreOld(r) ==
  /\ r.at = "store"
  /\ old' = [old EXCEPT ![r.kind] = r.read]
  /\ raised' = raised \union {r.kind}
  /\ GoesOnWith(r, StillLeft(r))
  /\ UNCHANGED <<handlers, handle, live, due, os, cache, reading, call,
                 untold, seen, raced, crossed, leaky, lost, used, events>>

ResetSuspend(r) ==
  /\ r.at = "reset"
  /\ cache' = [cache EXCEPT ![Suspend] = Unknown]
  /\ running' = running \ {r}
  /\ UNCHANGED <<handlers, handle, live, due, os, old, raised, reading, call,
                 untold, seen, raced, crossed, leaky, lost, used, events>>

(* RaiseEvent's coroutine calls the handlers the event has by now.         *)
Notify(k) ==
  /\ k \in raised /\ raised' = raised \ {k}
  /\ reading' = reading \union (handlers[k] \X {k})
  /\ UNCHANGED <<handlers, handle, live, due, running, os, cache, old, call,
                 untold, seen, raced, crossed, leaky, lost, used, events>>

-----------------------------------------------------------------------------
CallGoesOn == \E c \in Clients : HandlerIsAdded(c) \/ GetterStores(c)
Fire(r) == Compare(r) \/ LoadNew(r) \/ StoreOld(r)
CallbackGoesOn ==
  \E r \in running : Process(r) \/ Fire(r) \/ ResetSuspend(r)
HandlerReads == \E c \in Clients, k \in Kinds :
                  <<c, k>> \in reading /\ Getter(c, k)

Next ==
  \/ \E c \in Clients, k \in Kinds :
       AddCallback(c, k) \/ RemoveCallback(c, k) \/ Getter(c, k)
  \/ \E c \in Clients : HandlerIsAdded(c) \/ GetterStores(c)
  \/ \E s \in Sources : Change(s)
  \/ \E s \in Sources : \E id \in due[s] : CallbackStarts(s, id)
  \/ CallbackGoesOn
  \/ \E k \in Kinds : Notify(k)

(* Some thread runs while one can: a call that has m_mutex goes on,        *)
(* Windows makes and finishes its callbacks, the pool runs the coroutines, *)
(* handlers read.                                                          *)
SomeThreadRuns ==
  \/ CallGoesOn \/ CallbackGoesOn \/ HandlerReads
  \/ \E s \in Sources : \E id \in due[s] : CallbackStarts(s, id)
  \/ \E k \in Kinds : Notify(k)

Spec == Init /\ [][Next]_vars /\ WF_vars(SomeThreadRuns)

-----------------------------------------------------------------------------
Subscribed(s) ==
  {k \in KindsOf(s) : \/ handlers[k] # {}
                      \/ \E c \in Clients :
                           /\ call[c].at = "add" /\ call[c].kind = k}

(* Windows has at least as many registrations of a listener as it has      *)
(* events with a handler, although RemoveCallback of one composite event   *)
(* unregisters the handle another one registered (cpp 49-111) - but for    *)
(* those RemoveCallback undid for an event that had no handlers at all, to *)
(* which a token was given that it did not know (h 251-260).  And a        *)
(* registration outlives its event only where two composite events         *)
(* overlapped or unregistering failed.                                     *)
SubscribedIsRegistered ==
  \A s \in Sources :
    /\ Cardinality(live[s]) + lost[s] >= Cardinality(Subscribed(s))
    /\ s \notin leaky =>
         live[s] \subseteq IF Subscribed(s) = {} THEN {} ELSE {handle[s]}

PowerInv == TypeOK /\ SubscribedIsRegistered

(* Unknown tokens cost the events of s as many registrations as they have  *)
Unfed(s) == lost[s] >= Cardinality(Subscribed(s))

(* While an event has a handler its getter no longer asks Windows          *)
(* (UpdateValuesIfNecessary, h 271-279), so what the listener stored must  *)
(* be the present value once every callback has run - although composite   *)
(* getters and callbacks of leaked registrations write the same fields     *)
(* without a common lock.  The exceptions are a snapshot stored after a    *)
(* newer one was taken, and a listener whose registrations were undone     *)
(* with unknown tokens.                                                    *)
CacheIsCurrent ==
  \A k \in Kinds \ {Suspend} :
    LET s == SourceOf(k) IN
    (/\ handlers[k] # {} /\ due[s] = {} /\ os[k] # Unknown
     /\ s \notin raced /\ ~ Unfed(s)
     /\ \A r \in running : r.source # s \/ r.at # "process"
     /\ \A c \in Clients : call[c].at = "get" => SourceOf(call[c].kind) # s)
      => cache[k] = os[k]

(* A subscriber that read an announced value is told, and reads again,     *)
(* when it changes (h 263-268, 372-391): once Windows reports no further   *)
(* change, what every subscriber read last is the present value.  The      *)
(* value may change before a handler runs, handlers may go and come,       *)
(* callbacks with the same snapshot may compare and store at once, and     *)
(* getters of another composite event may store the new value before a     *)
(* callback compares.  The exceptions are a callback that takes a newer    *)
(* snapshot while another has still to store, or to compare, an older one  *)
(* (the older one may be left in the fields, and the change back raises no *)
(* event); a listener unregistered with unknown tokens; and a value that a *)
(* getter found before a callback announced it.                            *)
SubscribersHear ==
  <>[](\A c \in Clients, k \in Kinds \ {Suspend} :
         LET s == SourceOf(k) IN
         \/ c \notin handlers[k] \/ Unknown \in {seen[c][k], os[k]}
         \/ s \in raced \union crossed \/ Unfed(s)
         \/ seen[c][k] = os[k])

(* "Resetting the value after the callback" (h 636), and "API only         *)
(* callable after a SystemSuspendStatusChanged callback" (h 603): a        *)
(* handler that was called can read the status.                            *)
SuspendStatusIsReadable ==
  \A c \in Clients : <<c, Suspend>> \in reading => cache[Suspend] # Unknown

=============================================================================
