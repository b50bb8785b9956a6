----------------------------- MODULE Redirection -----------------------------
(***************************************************************************)
(* Redirecting an activation to another instance of the app                *)
(* (src/dev/AppLifecycle/AppInstance.cpp): the construction of the current *)
(* instance, QueueRequest in the process that redirects, the watcher on    *)
(* the instance's event and ProcessRedirectionRequests in the one          *)
(* redirected to.  The queue is used by what RequestFifo promises, which   *)
(* RedirectionRequestQueue implements: a FIFO, until a process ends while  *)
(* it links its item, and nothing from then on.  The packet and the        *)
(* cleanup event of a request exist while its coroutine is running.        *)
(***************************************************************************)
EXTENDS Naturals, SequencesExt

CONSTANTS
  Procs,        (* the instances of the app                                *)
  Ids,          (* the GUIDs of the requests                               *)
  NoProc, NoId,
  Mortal,       (* the processes that may end at any moment                *)
  MaxHandled    (* bound: the ids a broken queue's callback may meet       *)

ASSUME NoneAssumption == NoProc \notin Procs /\ NoId \notin Ids
ASSUME MortalAssumption == Mortal \subseteq Procs
ASSUME BoundAssumption == MaxHandled \in Nat

VARIABLES
  life,         (* life[p]: how far p's constructor is, or that p ended    *)
  event,        (* event[p]: m_innerActivated is signalled                 *)
  watcher,      (* watcher[p]: where m_activationWatcher's callback is     *)
  handling,     (* handling[p]: the request it handles                     *)
  blank,        (* blank[p]: the packet it opened was not there            *)
  queue,        (* queue[p]: the ids in p's m_redirectionArgs              *)
  broken,       (* the instances whose queue was left half written         *)
  pc,           (* where each QueueRequest is                              *)
  from, to,     (* who redirects, and to whom                              *)
  cleanup,      (* the requests whose cleanup event is set                 *)
  handled,      (* history: handled[p], the requests the app was told of   *)
  faults        (* history: <<p, id>>, p ended by an exception over id     *)

reqVars  == <<pc, from, to>>
procVars == <<life, event, watcher, handling, blank>>
vars     == <<procVars, queue, broken, reqVars, cleanup, handled, faults>>

Lives    == {"new", "created", "listed", "running", "ended"}
Watching == {"armed", "called", "drain", "open", "unmarshal", "raise",
             "cleanup"}
InHand   == {"open", "unmarshal", "raise", "cleanup"}
Sending  == {"new", "marshal", "create", "enqueue", "signal", "wait", "done",
             "failed"}

TypeOK ==
  /\ life \in [Procs -> Lives]
  /\ event \in [Procs -> BOOLEAN]
  /\ watcher \in [Procs -> Watching]
  /\ handling \in [Procs -> Ids \union {NoId}]
  /\ blank \in [Procs -> BOOLEAN]
  /\ queue \in [Procs -> Seq(Ids)]
  /\ broken \subseteq Procs
  /\ pc \in [Ids -> Sending]
  /\ from \in [Ids -> Procs \union {NoProc}]
  /\ to \in [Ids -> Procs \union {NoProc}]
  /\ cleanup \subseteq Ids
  /\ handled \in [Procs -> Seq(Ids)]
  /\ faults \subseteq Procs \X Ids

Init ==
  /\ life = [p \in Procs |-> "new"]
  /\ event = [p \in Procs |-> FALSE]
  /\ watcher = [p \in Procs |-> "armed"]
  /\ handling = [p \in Procs |-> NoId]
  /\ blank = [p \in Procs |-> FALSE]
  /\ queue = [p \in Procs |-> <<>>]
  /\ broken = {}
  /\ pc = [id \in Ids |-> "new"]
  /\ from = [id \in Ids |-> NoProc]
  /\ to = [id \in Ids |-> NoProc]
  /\ cleanup = {}
  /\ handled = [p \in Procs |-> <<>>]
  /\ faults = {}

-----------------------------------------------------------------------------
(* The constructor of the current instance.  It holds m_dataMutex from its *)
(* creation, before the instance can be found, until the queue is there.   *)

LifeStep(p, a, b) ==
  /\ life[p] = a
  /\ life' = [life EXCEPT ![p] = b]
  /\ UNCHANGED <<event, watcher, handling, blank, queue, broken, reqVars,
                 cleanup, handled, faults>>

CreateInstance(p) == LifeStep(p, "new", "created")
InsertInstance(p) == LifeStep(p, "created", "listed")
InitQueue(p)      == LifeStep(p, "listed", "running")

(* Another process can have an AppInstance of p: its constructor waits for *)
(* m_dataMutex, and it outlives p.                                         *)
CanBeOpened(p) == life[p] \in {"running", "ended"}

-----------------------------------------------------------------------------
(* QueueRequest, in the process that redirects                             *)

Send(id, a, b) ==
  /\ pc[id] = a
  /\ life[from[id]] = "running"
  /\ pc' = [pc EXCEPT ![id] = b]

RedirectActivationToAsync(id, p, q) ==
  /\ pc[id] = "new" /\ p # q
  /\ life[p] = "running" /\ CanBeOpened(q)
  /\ pc' = [pc EXCEPT ![id] = "marshal"]
  /\ from' = [from EXCEPT ![id] = p]
  /\ to' = [to EXCEPT ![id] = q]
  /\ UNCHANGED <<procVars, queue, broken, cleanup, handled, faults>>

MarshalArguments(id) ==
  /\ Send(id, "marshal", "create") \/ Send(id, "marshal", "failed")
  /\ UNCHANGED <<procVars, queue, broken, from, to, cleanup, handled,
                 faults>>

CreateCleanupEvent(id) ==
  /\ Send(id, "create", "enqueue")
  /\ UNCHANGED <<procVars, queue, broken, from, to, cleanup, handled,
                 faults>>

(* What is put into a broken queue may come out, once, again or never.     *)
Put(q, id) ==
  queue' = IF q \in broken THEN queue ELSE [queue EXCEPT ![q] = Append(@, id)]

(* Mutant: the id goes into the sender's own queue.                        *)
EnqueueToSelf(id) ==
  /\ Send(id, "enqueue", "signal")
  /\ Put(from[id], id)
  /\ UNCHANGED <<procVars, broken, from, to, cleanup, handled, faults>>

EnqueueRedirectionRequestId(id) ==
  /\ Send(id, "enqueue", "signal")
  /\ Put(to[id], id)
  /\ UNCHANGED <<procVars, broken, from, to, cleanup, handled, faults>>

SignalActivated(id) ==
  /\ Send(id, "signal", "wait")
  /\ event' = [event EXCEPT ![to[id]] = TRUE]
  /\ UNCHANGED <<life, watcher, handling, blank, queue, broken, from, to,
                 cleanup, handled, faults>>

WaitForCleanup(id) ==
  /\ id \in cleanup
  /\ Send(id, "wait", "done")
  /\ UNCHANGED <<procVars, queue, broken, from, to, cleanup, handled,
                 faults>>

(* The coroutine runs and so has the packet and the cleanup event open:    *)
(* they close when it ends, with its process at the latest.                *)
HasHandles(id) ==
  life[from[id]] = "running" /\ pc[id] \in {"enqueue", "signal", "wait"}

-----------------------------------------------------------------------------
(* The watcher and ProcessRedirectionRequests, in the one redirected to    *)

Runs(p) == life[p] \in {"created", "listed", "running"}

Watch(p, a, b) ==
  /\ Runs(p)
  /\ watcher[p] = a
  /\ watcher' = [watcher EXCEPT ![p] = b]

(* The wait on the event is satisfied; the watcher resets it and calls.    *)
EventFires(p) ==
  /\ event[p]
  /\ Watch(p, "armed", "called")
  /\ event' = [event EXCEPT ![p] = FALSE]
  /\ UNCHANGED <<life, handling, blank, queue, broken, reqVars, cleanup,
                 handled, faults>>

ProcessRedirectionRequests(p) ==
  /\ Watch(p, "called", "drain")
  /\ event' = [event EXCEPT ![p] = FALSE]
  /\ UNCHANGED <<life, handling, blank, queue, broken, reqVars, cleanup,
                 handled, faults>>

(* Mutant: the id stays in the queue.                                      *)
PeekRedirectionRequestId(p) ==
  /\ queue[p] # <<>>
  /\ Watch(p, "drain", "open")
  /\ handling' = [handling EXCEPT ![p] = Head(queue[p])]
  /\ UNCHANGED <<life, event, blank, queue, broken, reqVars, cleanup,
                 handled, faults>>

DequeueRedirectionRequestId(p) ==
  /\ queue[p] # <<>>
  /\ Watch(p, "drain", "open")
  /\ handling' = [handling EXCEPT ![p] = Head(queue[p])]
  /\ queue' = [queue EXCEPT ![p] = Tail(@)]
  /\ UNCHANGED <<life, event, blank, broken, reqVars, cleanup, handled,
                 faults>>

(* Mutant: the callback returns with requests in the queue.                *)
RearmAnyway(p) ==
  /\ Watch(p, "drain", "armed")
  /\ UNCHANGED <<life, event, handling, blank, queue, broken, reqVars,
                 cleanup, handled, faults>>

(* In a broken queue the callback meets any id that was ever written to    *)
(* its items, for Dequeue leaves the ids there.                            *)
Written(p) ==
  {id \in Ids : /\ to[id] = p
                /\ \/ pc[id] \in {"signal", "wait", "done"}
                   \/ pc[id] = "enqueue" /\ life[from[id]] = "ended"}

DequeueStaleId(p) ==
  /\ p \in broken /\ Len(handled[p]) < MaxHandled
  /\ Watch(p, "drain", "open")
  /\ \E id \in Written(p) : handling' = [handling EXCEPT ![p] = id]
  /\ UNCHANGED <<life, event, blank, queue, broken, reqVars, cleanup, handled,
                 faults>>

(* The queue is empty, or the id is GUID_NULL in a broken one: the         *)
(* callback returns and the wait is set again.                             *)
Rearm(p) ==
  /\ queue[p] = <<>>
  /\ Watch(p, "drain", "armed")
  /\ UNCHANGED <<life, event, handling, blank, queue, broken, reqVars,
                 cleanup, handled, faults>>

(* A packet that is no longer there is created again, with nothing in it.  *)
OpenRequest(p) ==
  /\ Watch(p, "open", "unmarshal")
  /\ blank' = [blank EXCEPT ![p] = ~HasHandles(handling[p])]
  /\ UNCHANGED <<life, event, handling, queue, broken, reqVars, cleanup,
                 handled, faults>>

(* Mutant: the sender is let go before the app is told.                    *)
UnmarshalAndRelease(p) ==
  /\ ~blank[p]
  /\ Watch(p, "unmarshal", "raise")
  /\ cleanup' = cleanup \union {handling[p]}
  /\ UNCHANGED <<life, event, handling, blank, queue, broken, reqVars,
                 handled, faults>>

UnmarshalArguments(p) ==
  /\ ~blank[p]
  /\ Watch(p, "unmarshal", "raise")
  /\ UNCHANGED <<life, event, handling, blank, queue, broken, reqVars,
                 cleanup, handled, faults>>

RaiseActivated(p) ==
  /\ Watch(p, "raise", "cleanup")
  /\ handled' = [handled EXCEPT ![p] = Append(@, handling[p])]
  /\ UNCHANGED <<life, event, handling, blank, queue, broken, reqVars,
                 cleanup, faults>>

(* Mutant: the callback handles one request only.                          *)
SetCleanupEventOnce(p) ==
  /\ Watch(p, "cleanup", "armed")
  /\ HasHandles(handling[p])
  /\ cleanup' = cleanup \union {handling[p]}
  /\ handling' = [handling EXCEPT ![p] = NoId]
  /\ UNCHANGED <<life, event, blank, queue, broken, reqVars, handled,
                 faults>>

SetCleanupEvent(p) ==
  /\ Watch(p, "cleanup", "drain")
  /\ HasHandles(handling[p])
  /\ cleanup' = cleanup \union {handling[p]}
  /\ handling' = [handling EXCEPT ![p] = NoId]
  /\ UNCHANGED <<life, event, blank, queue, broken, reqVars, handled,
                 faults>>

(* p ends, with every thread of it: one that is inside of Enqueue may have *)
(* linked its item and not yet written it.  (It ends there by itself when  *)
(* AllocateItem runs past a full queue.)                                   *)
EnqueuesTo(p) ==
  {to[id] : id \in {i \in Ids : from[i] = p /\ pc[i] = "enqueue"}}

End(p) ==
  /\ life' = [life EXCEPT ![p] = "ended"]
  /\ \E Q \in SUBSET EnqueuesTo(p) :
       /\ broken' = broken \union Q
       /\ queue' = [q \in Procs |-> IF q \in Q THEN <<>> ELSE queue[q]]

(* There is nothing to unmarshal, or the arguments are a proxy to an       *)
(* object of a process that ended; or the cleanup event cannot be opened:  *)
(* an exception leaves the callback, and the process with it.              *)
CallbackThrows(p) ==
  LET id == handling[p] IN
  /\ Runs(p)
  /\ \/ watcher[p] = "unmarshal" /\ (blank[p] \/ life[from[id]] = "ended")
     \/ watcher[p] = "cleanup" /\ ~HasHandles(id)
  /\ End(p)
  /\ faults' = faults \union {<<p, id>>}
  /\ UNCHANGED <<event, watcher, handling, blank, reqVars, cleanup, handled>>

Terminate(p) ==
  /\ p \in Mortal /\ Runs(p)
  /\ End(p)
  /\ UNCHANGED <<event, watcher, handling, blank, reqVars, cleanup, handled,
                 faults>>

-----------------------------------------------------------------------------
Construct(p) == CreateInstance(p) \/ InsertInstance(p) \/ InitQueue(p)

QueueRequest(id) ==
  \/ MarshalArguments(id) \/ CreateCleanupEvent(id)
  \/ EnqueueRedirectionRequestId(id) \/ SignalActivated(id)
  \/ WaitForCleanup(id)

Callback(p) ==
  \/ EventFires(p) \/ ProcessRedirectionRequests(p)
  \/ DequeueRedirectionRequestId(p) \/ DequeueStaleId(p) \/ Rearm(p)
  \/ OpenRequest(p) \/ UnmarshalArguments(p) \/ RaiseActivated(p)
  \/ SetCleanupEvent(p) \/ CallbackThrows(p)

Next ==
  \/ \E p \in Procs : Construct(p) \/ Callback(p) \/ Terminate(p)
  \/ \E id \in Ids : QueueRequest(id)
  \/ \E id \in Ids, p, q \in Procs : RedirectActivationToAsync(id, p, q)

Spec == Init /\ [][Next]_vars

(* Threads of a running process run, and the thread pool calls a watcher   *)
(* whose event is set.  Nothing is asked of those that use a broken queue: *)
(* its links may be a circle, and Enqueue may follow them for ever.        *)
Fairness ==
  /\ \A p \in Procs : WF_vars(p \notin broken /\ Callback(p))
  /\ \A id \in Ids : WF_vars(to[id] \notin broken /\ QueueRequest(id))

FairSpec == Spec /\ Fairness

-----------------------------------------------------------------------------
(* Safety: a request in the queue of a running instance whose sender has   *)
(* set the event, even if it ended since, is not forgotten: the event is   *)
(* still set or the callback has yet to find the queue empty.  This is so  *)
(* until a process ends while it links an item into that queue: a broken   *)
(* queue has no requests that could be counted on.                         *)
(* ResetEvent before the drain, AppInstance.cpp:186-189 and :249.          *)
NoLostWakeup ==
  \A p \in Procs : Runs(p) =>
    \A id \in ToSet(queue[p]) :
      pc[id] # "signal" => event[p] \/ watcher[p] # "armed"

(* Safety: RedirectActivationToAsync completes only once the instance      *)
(* redirected to has raised Activated for the request, be its queue broken *)
(* or not.  AppInstance.cpp:202-211 and :252.                              *)
DoneMeansHandled ==
  \A id \in Ids : pc[id] = "done" => id \in ToSet(handled[to[id]])

(* Safety: Activated is raised for a request in no other instance than the *)
(* one redirected to, and there once, unless its queue is broken: Dequeue  *)
(* leaves the id in the item, and an item that was linked but not written  *)
(* brings it back.  RedirectionRequestQueue.h:43-57 and :67-70.            *)
HandledOnce ==
  \A p \in Procs :
    /\ p \notin broken => IsInjective(handled[p])
    /\ \A id \in ToSet(handled[p]) : to[id] = p

(* Safety: what a request's handler needs, its packet and cleanup event,   *)
(* is there as long as the process that sent it runs: an instance whose    *)
(* queue is not broken ends by an exception in the callback only over a    *)
(* request whose sender ended.  The wait at AppInstance.cpp:251-252.       *)
FaultOnlyIfSenderEnded ==
  \A f \in faults : f[1] \in broken \/ life[from[f[2]]] = "ended"

(* Safety: nobody can make the callback run before the constructor has     *)
(* given the instance its queue, although its pid is in the list and its   *)
(* watcher is armed by then.  m_dataMutex, AppInstance.cpp:113-163.        *)
CallbackHasQueue ==
  \A p \in Procs : watcher[p] # "armed" => life[p] \in {"running", "ended"}

(* What a request in p's queue or in its callback's hands relies on, and   *)
(* what has become of those that left them: with TypeOK and the safety     *)
(* properties above they make an inductive invariant.                      *)
InHandOf(p) == IF watcher[p] \in InHand THEN {handling[p]} ELSE {}
Unraised(p) == IF watcher[p] \in InHand \ {"cleanup"} THEN {handling[p]} ELSE {}

RequestsAreKnown ==
  /\ \A id \in Ids : pc[id] # "new" =>
       /\ from[id] \in Procs /\ life[from[id]] \in {"running", "ended"}
       /\ to[id] \in Procs /\ life[to[id]] \in {"running", "ended"}
  /\ \A id \in cleanup : pc[id] \in {"signal", "wait", "done"}
  /\ \A p \in Procs :
       /\ \A id \in InHandOf(p) : id \in Written(p)
       /\ watcher[p] \in {"raise", "cleanup"} => pc[handling[p]] # "enqueue"
       /\ watcher[p] = "unmarshal" /\ pc[handling[p]] = "enqueue" => blank[p]

RequestsAreInFlight ==
  \A p \in Procs :
    /\ p \in broken => queue[p] = <<>>
    /\ IsInjective(queue[p])
    /\ \A id \in ToSet(queue[p]) :
         to[id] = p /\ pc[id] \in {"signal", "wait"} /\ id \notin cleanup
    /\ p \notin broken => \A id \in InHandOf(p) :
         /\ id \notin ToSet(queue[p])
         /\ pc[id] \in {"signal", "wait"} /\ id \notin cleanup

HandledAreKnown ==
  /\ \A p \in Procs :
       /\ \A id \in ToSet(handled[p]) : pc[id] \in {"signal", "wait", "done"}
       /\ p \notin broken =>
            ToSet(handled[p]) \intersect (ToSet(queue[p]) \union Unraised(p)) = {}
       /\ watcher[p] = "cleanup" => handling[p] \in ToSet(handled[p])
  /\ \A id \in cleanup : to[id] \in Procs /\ id \in ToSet(handled[to[id]])
  /\ \A id \in Ids : pc[id] = "done" => id \in cleanup

FaultsAreExcused ==
  /\ \A p \in Procs \ broken : watcher[p] = "unmarshal" /\ blank[p] =>
       life[from[handling[p]]] = "ended"
  /\ \A f \in faults : pc[f[2]] # "new"

CalledWhenReachable ==
  /\ \A p \in Procs : event[p] => life[p] \in {"running", "ended"}
  /\ CallbackHasQueue

RedirectionInv ==
  /\ TypeOK /\ RequestsAreKnown /\ RequestsAreInFlight /\ NoLostWakeup
  /\ HandledAreKnown /\ HandledOnce
  /\ FaultsAreExcused /\ FaultOnlyIfSenderEnded
  /\ CalledWhenReachable

(* Liveness: a request that was queued and signalled completes, unless the *)
(* sender or the instance redirected to ends, or a process that ended has  *)
(* left that instance's queue broken.  Nothing else can hold it up: there  *)
(* is no timeout on the wait.                                              *)
RedirectionCompletes ==
  \A id \in Ids :
    pc[id] = "signal" ~>
      \/ pc[id] = "done"
      \/ \E p \in {from[id], to[id]} \ {NoProc} : life[p] = "ended"
      \/ to[id] \in broken

=============================================================================
