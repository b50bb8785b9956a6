---------------------------- MODULE InstanceKeys ----------------------------
(***************************************************************************)
(* Key registration between the instances of one app                       *)
(* (src/dev/AppLifecycle/AppInstance.cpp): FindOrRegisterForKey,           *)
(* UnregisterKey and Key over three kinds of named kernel objects:         *)
(*   - <proc>_Mutex, m_dataMutex: one per instance, guards its key;        *)
(*   - <app>_<key>_Mutex, m_keyCreationMutex: exists while some process    *)
(*     holds a handle to it, and whoever CREATES it owns the key;          *)
(*   - <proc>_Key, m_key: the shared section the key's text is kept in.    *)
(* An instance is named by the slot of the shared process list it takes,   *)
(* so the list is the set of taken slots, in their order;                  *)
(* SharedProcessList models how slots are taken.  One thread per instance  *)
(* calls the API.                                                          *)
(***************************************************************************)
EXTENDS Naturals

CONSTANTS
  MaxCount,   (* c_maxInstanceCount, the slots of the process list         *)
  Keys,       (* the keys the app asks for                                 *)
  NoKey,      (* the empty key                                             *)
  Mortal,     (* the processes that may end                                *)
  Holders     (* the processes whose app calls GetInstances itself, and    *)
              (* keeps the instances it is given by any call               *)

ASSUME CountAssumption == MaxCount \in Nat
ASSUME NoKeyAssumption == NoKey \notin Keys

Procs == 1..MaxCount

ASSUME RoleAssumption == Mortal \subseteq Procs /\ Holders \subseteq Procs

VARIABLES
  alive,      (* the processes that are running                            *)
  listed,     (* the pids in the shared process list, m_instances          *)
  locked,     (* the processes that hold their own m_dataMutex             *)
  creation,   (* creation[p]: whose mutex p's m_keyCreationMutex is        *)
  keyState,   (* p's own m_key: "named", "reset" or "private"              *)
  section,    (* section[p]: the text in the section named <p>_Key         *)
  view,       (* view[p]: the instances p holds an AppInstance object of   *)
  pc,         (* where p's API call is                                     *)
  arg,        (* the key of p's call, NoKey when it is GetInstances        *)
  todo,       (* pids p has still to open, then instances still to ask     *)
  found,      (* the AppInstance objects this call has made                *)
  stale,      (* history: processes that advertise a key they gave up      *)
  rivals      (* history: who owned the key p was refused, while they do   *)

procVars == <<alive, listed>>
keyVars  == <<creation, keyState, section, stale>>
callVars == <<pc, arg, todo, found>>
vars     == <<procVars, keyVars, callVars, locked, view, rivals>>

PCs == {"idle", "create", "write", "snapshot", "open", "ask"}

TypeOK ==
  /\ alive \subseteq Procs
  /\ listed \subseteq Procs
  /\ locked \subseteq Procs
  /\ creation \in [Procs -> Keys \union {NoKey}]
  /\ keyState \in [Procs -> {"named", "reset", "private"}]
  /\ section \in [Procs -> Keys \union {NoKey}]
  /\ view \in [Procs -> SUBSET Procs]
  /\ pc \in [Procs -> PCs]
  /\ arg \in [Procs -> Keys \union {NoKey}]
  /\ todo \in [Procs -> SUBSET Procs]
  /\ found \in [Procs -> SUBSET Procs]
  /\ stale \subseteq Procs
  /\ rivals \in [Procs -> SUBSET Procs]

-----------------------------------------------------------------------------
(* A named object lives as long as some process has a handle to it.        *)

KeyMutexExists(k) == \E p \in alive : creation[p] = k

(* The instances each process has an AppInstance object of, given those it *)
(* holds and those a call has made: it has their keys mapped.              *)
MapsIn(held, made) == [o \in Procs |-> (held[o] \union made[o]) \ {o}]
Maps(o) == MapsIn(view, found)[o]

(* What is left in the sections once every handle that closes is closed:   *)
(* a section lives while its process, running, has it open by name or a    *)
(* running process maps it as another's.                                   *)
Surviving(running, own, maps) ==
  [q \in Procs |-> IF \/ q \in running /\ own[q] = "named"
                     \/ \E o \in running : q \in maps[o]
                  THEN section[q] ELSE NoKey]

(* What a process reads as its own Key, and what every other one reads.    *)
OwnKey(p)   == IF keyState[p] = "named" THEN section[p] ELSE NoKey
Key(p, q)   == IF p = q THEN OwnKey(q) ELSE section[q]

(* q has k, or has its mutex and is about to write it.                     *)
Owns(q, k) ==
  /\ q \in alive
  /\ keyState[q] = "named"
  /\ IF pc[q] = "write" THEN arg[q] = k ELSE section[q] = k

(* q gives its key up: it is nobody's rival any more.                      *)
Forget(q) == [p \in Procs |-> rivals[p] \ {q}]

(* OpenProcess succeeds on a process that runs, and on one that ended but  *)
(* that an AppInstance object still has a handle to.                       *)
CanOpen(q) == q \in alive \/ \E o \in alive : q \in Maps(o)

-----------------------------------------------------------------------------
Init ==
  /\ alive = {} /\ listed = {} /\ locked = {} /\ stale = {}
  /\ creation = [p \in Procs |-> NoKey]
  /\ keyState = [p \in Procs |-> "reset"]
  /\ section = [p \in Procs |-> NoKey]
  /\ view = [p \in Procs |-> {}]
  /\ pc = [p \in Procs |-> "idle"]
  /\ arg = [p \in Procs |-> NoKey]
  /\ todo = [p \in Procs |-> {}]
  /\ found = [p \in Procs |-> {}]
  /\ rivals = [p \in Procs |-> {}]

(* GetCurrent: the constructor opens <p>_Key and takes the first free slot *)
(* of the list.                                                            *)
Start(p) ==
  /\ ~CanOpen(p) /\ p \notin listed
  /\ 1..(p - 1) \subseteq listed
  /\ alive' = alive \union {p}
  /\ listed' = listed \union {p}
  /\ keyState' = [keyState EXCEPT ![p] = "named"]
  /\ UNCHANGED <<creation, section, stale, callVars, locked, view, rivals>>

Idle(p) == p \in alive /\ pc[p] = "idle"

(* TrySetKey takes the caller's own m_dataMutex first ...                  *)
FindOrRegisterForKey(p, k) ==
  /\ Idle(p)
  /\ p \notin locked
  /\ locked' = locked \union {p}
  /\ pc' = [pc EXCEPT ![p] = "create"]
  /\ arg' = [arg EXCEPT ![p] = k]
  /\ UNCHANGED <<procVars, keyVars, todo, found, view, rivals>>

(* Mutants: `exists' is not looked at; the mutex is released too early.    *)
CreateKeyMutexAnyway(p) ==
  /\ p \in alive /\ pc[p] = "create"
  /\ creation' = [creation EXCEPT ![p] = arg[p]]
  /\ pc' = [pc EXCEPT ![p] = "write"]
  /\ rivals' = Forget(p)
  /\ UNCHANGED <<procVars, keyState, section, stale, arg, todo, found,
                 locked, view>>

CreateKeyMutexUnlocks(p) ==
  /\ p \in alive /\ pc[p] = "create"
  /\ ~KeyMutexExists(arg[p])
  /\ creation' = [creation EXCEPT ![p] = arg[p]]
  /\ pc' = [pc EXCEPT ![p] = "write"]
  /\ rivals' = Forget(p)
  /\ locked' = locked \ {p}
  /\ UNCHANGED <<procVars, keyState, section, stale, arg, todo, found, view>>

(* ... then makes m_keyCreationMutex a handle to the key's mutex, closing  *)
(* the handle it had.  It did not exist before: the caller is the owner.   *)
CreateKeyMutex(p) ==
  /\ p \in alive /\ pc[p] = "create"
  /\ ~KeyMutexExists(arg[p])
  /\ creation' = [creation EXCEPT ![p] = arg[p]]
  /\ pc' = [pc EXCEPT ![p] = "write"]
  /\ rivals' = Forget(p)
  /\ UNCHANGED <<procVars, keyState, section, stale, arg, todo, found,
                 locked, view>>

(* It existed: the caller keeps the handle and its old key, and looks for  *)
(* the instance that owns the key.                                         *)
OpenKeyMutex(p) ==
  LET k == arg[p] IN
  /\ p \in alive /\ pc[p] = "create"
  /\ KeyMutexExists(k)
  /\ creation' = [creation EXCEPT ![p] = k]
  /\ stale' = IF OwnKey(p) \in {NoKey, k} THEN stale ELSE stale \union {p}
  /\ rivals' = [rivals EXCEPT ![p] = {q \in Procs : Owns(q, k)}]
  /\ locked' = locked \ {p}
  /\ pc' = [pc EXCEPT ![p] = "snapshot"]
  /\ UNCHANGED <<procVars, keyState, section, arg, todo, found, view>>

(* Mutant: the instance's mutex is not released.                           *)
WriteKeyLocked(p) ==
  /\ p \in alive /\ pc[p] = "write"
  /\ keyState[p] = "named"
  /\ section' = [section EXCEPT ![p] = arg[p]]
  /\ stale' = stale \ {p}
  /\ pc' = [pc EXCEPT ![p] = "idle"]
  /\ arg' = [arg EXCEPT ![p] = NoKey]
  /\ UNCHANGED <<procVars, creation, keyState, todo, found, locked, view,
                 rivals>>

(* Resize reopens the section by m_name, which UnregisterKey has erased:   *)
(* after it the text goes to a section nobody else can open, and IsValid   *)
(* stays false.                                                            *)
WriteKey(p) ==
  /\ p \in alive /\ pc[p] = "write"
  /\ IF keyState[p] = "named"
     THEN /\ section' = [section EXCEPT ![p] = arg[p]]
          /\ stale' = stale \ {p}
          /\ UNCHANGED keyState
     ELSE /\ keyState' = [keyState EXCEPT ![p] = "private"]
          /\ UNCHANGED <<section, stale>>
  /\ locked' = locked \ {p}
  /\ pc' = [pc EXCEPT ![p] = "idle"]
  /\ arg' = [arg EXCEPT ![p] = NoKey]
  /\ UNCHANGED <<procVars, creation, todo, found, view, rivals>>

(* GetInstances, called by FindForKey or by the app itself: the pids in    *)
(* the list are copied under the caller's own mutex, which is then let go. *)
GetInstances(p) ==
  /\ Idle(p) /\ p \in Holders
  /\ arg' = [arg EXCEPT ![p] = NoKey]
  /\ pc' = [pc EXCEPT ![p] = "snapshot"]
  /\ UNCHANGED <<procVars, keyVars, todo, found, locked, view, rivals>>

IsNext(p, q) == q \in todo[p] /\ \A r \in todo[p] : q <= r

Snapshot(p) ==
  /\ p \in alive /\ pc[p] = "snapshot"
  /\ p \notin locked
  /\ todo' = [todo EXCEPT ![p] = listed]
  /\ pc' = [pc EXCEPT ![p] = "open"]
  /\ UNCHANGED <<procVars, keyVars, arg, found, locked, view, rivals>>

(* The constructor of an AppInstance of another process waits for that     *)
(* process's mutex and opens its key.  The current instance is at hand.    *)
OpenInstance(p, q) ==
  /\ p \in alive /\ pc[p] = "open" /\ IsNext(p, q)
  /\ p = q \/ (CanOpen(q) /\ q \notin locked)
  /\ found' = [found EXCEPT ![p] = @ \union {q}]
  /\ todo' = [todo EXCEPT ![p] = @ \ {q}]
  /\ UNCHANGED <<procVars, keyVars, pc, arg, locked, view, rivals>>

RemoveOrphan(p, q) ==
  /\ p \in alive /\ pc[p] = "open" /\ IsNext(p, q)
  /\ p # q /\ ~CanOpen(q) /\ p \notin locked
  /\ listed' = listed \ {q}
  /\ todo' = [todo EXCEPT ![p] = @ \ {q}]
  /\ UNCHANGED <<alive, keyVars, pc, arg, found, locked, view, rivals>>

(* FindForKey asks the instances one by one, each under its own mutex.     *)
BeginAsking(p) ==
  /\ p \in alive /\ pc[p] = "open" /\ todo[p] = {} /\ arg[p] # NoKey
  /\ todo' = [todo EXCEPT ![p] = found[p]]
  /\ pc' = [pc EXCEPT ![p] = "ask"]
  /\ UNCHANGED <<procVars, keyVars, arg, found, locked, view, rivals>>

Asks(p, q) ==
  p \in alive /\ pc[p] = "ask" /\ IsNext(p, q) /\ q \notin locked

NoMatch(p, q) ==
  /\ Asks(p, q) /\ Key(p, q) # arg[p]
  /\ todo' = [todo EXCEPT ![p] = @ \ {q}]
  /\ UNCHANGED <<procVars, keyVars, pc, arg, found, locked, view, rivals>>

(* The call returns the instances in given, and the app keeps them if it   *)
(* keeps any; the other AppInstance objects the call made are released.    *)
Return(p, given) ==
  LET held == [view EXCEPT ![p] =
                 IF p \in Holders THEN @ \union (given \ {p}) ELSE @]
      made == [found EXCEPT ![p] = {}]
  IN
  /\ pc' = [pc EXCEPT ![p] = "idle"]
  /\ arg' = [arg EXCEPT ![p] = NoKey]
  /\ todo' = [todo EXCEPT ![p] = {}]
  /\ view' = held
  /\ found' = made
  /\ section' = Surviving(alive, keyState, MapsIn(held, made))
  /\ rivals' = [rivals EXCEPT ![p] = {}]
  /\ UNCHANGED <<procVars, creation, keyState, stale, locked>>

(* The app's own call gives it every instance.                             *)
ReturnInstances(p) ==
  /\ p \in alive /\ pc[p] = "open" /\ todo[p] = {} /\ arg[p] = NoKey
  /\ Return(p, found[p])

Match(p, q) ==
  /\ Asks(p, q) /\ Key(p, q) = arg[p]
  /\ Return(p, {q})

NobodyHasIt(p) ==
  /\ p \in alive /\ pc[p] = "ask" /\ todo[p] = {}
  /\ Return(p, {})

(* Mutant: the key's mutex is closed and the key's section is not.         *)
UnregisterMutexOnly(p) ==
  /\ Idle(p) /\ p \notin locked
  /\ creation' = [creation EXCEPT ![p] = NoKey]
  /\ UNCHANGED <<procVars, keyState, section, stale, callVars, locked, view,
                 rivals>>

UnregisterKey(p) ==
  LET own == [keyState EXCEPT ![p] = "reset"] IN
  /\ Idle(p) /\ p \notin locked
  /\ keyState' = own
  /\ creation' = [creation EXCEPT ![p] = NoKey]
  /\ section' = Surviving(alive, own, MapsIn(view, found))
  /\ stale' = stale \ {p}
  /\ rivals' = Forget(p)
  /\ UNCHANGED <<procVars, callVars, locked, view>>

(* The app lets go of the AppInstance objects it holds.                    *)
ReleaseInstances(p) ==
  LET kept == [view EXCEPT ![p] = {}] IN
  /\ Idle(p) /\ view[p] # {}
  /\ view' = kept
  /\ section' = Surviving(alive, keyState, MapsIn(kept, found))
  /\ UNCHANGED <<procVars, creation, keyState, stale, callVars, locked,
                 rivals>>

(* A process ends, wherever it is: its handles close, a mutex it held is   *)
(* abandoned, which lets the next one who waits for it in, and the list    *)
(* goes with the last process that maps it.                                *)
Terminate(p) ==
  LET running == alive \ {p} IN
  /\ p \in alive \intersect Mortal
  /\ alive' = running
  /\ locked' = locked \ {p}
  /\ creation' = [creation EXCEPT ![p] = NoKey]
  /\ keyState' = [keyState EXCEPT ![p] = "reset"]
  /\ section' = Surviving(running, keyState, MapsIn(view, found))
  /\ view' = [view EXCEPT ![p] = {}]
  /\ pc' = [pc EXCEPT ![p] = "idle"]
  /\ arg' = [arg EXCEPT ![p] = NoKey]
  /\ todo' = [todo EXCEPT ![p] = {}]
  /\ found' = [found EXCEPT ![p] = {}]
  /\ stale' = stale \ {p}
  /\ rivals' = [Forget(p) EXCEPT ![p] = {}]
  /\ listed' = IF running = {} THEN {} ELSE listed

(* The wait a non-current AppInstance registers on its process fires.      *)
RemoveInstance(o, q) ==
  /\ o \in alive /\ q \in Maps(o) /\ q \notin alive /\ q \in listed
  /\ o \notin locked
  /\ listed' = listed \ {q}
  /\ UNCHANGED <<alive, keyVars, callVars, locked, view, rivals>>

-----------------------------------------------------------------------------
(* The steps of a call in progress, as opposed to those the app chooses.   *)
Step(p) ==
  \/ CreateKeyMutex(p) \/ OpenKeyMutex(p) \/ WriteKey(p) \/ Snapshot(p)
  \/ \E q \in Procs : RemoveOrphan(p, q)
  \/ ReturnInstances(p) \/ BeginAsking(p) \/ NobodyHasIt(p)

Waits(p, q) == OpenInstance(p, q) \/ NoMatch(p, q) \/ Match(p, q)

Next ==
  \E p \in Procs :
    \/ Start(p) \/ GetInstances(p) \/ UnregisterKey(p)
    \/ ReleaseInstances(p) \/ Terminate(p) \/ Step(p)
    \/ \E k \in Keys : FindOrRegisterForKey(p, k)
    \/ \E q \in Procs : Waits(p, q) \/ RemoveInstance(p, q)

Spec == Init /\ [][Next]_vars

(* A thread that can run runs; a wait for a mutex that is free again and   *)
(* again succeeds, as the kernel queues the threads that wait for it.      *)
Fairness ==
  \A p \in Procs :
    /\ WF_vars(Step(p))
    /\ \A q \in Procs : SF_vars(Waits(p, q))

FairSpec == Spec /\ Fairness

-----------------------------------------------------------------------------
(* p is the one instance entitled to k: it has created the mutex, or shows *)
(* the key and has not since been refused another.                         *)
Entitled(p, k) ==
  /\ p \in alive
  /\ IF pc[p] = "write" THEN arg[p] = k ELSE p \notin stale /\ OwnKey(p) = k

(* The mutex of an instance is held exactly while its own call is between  *)
(* taking and releasing it, for a key; a process that ended does nothing.  *)
LocksAreCalls ==
  /\ locked = {p \in alive : pc[p] \in {"create", "write"}}
  /\ \A p \in Procs \ alive : pc[p] = "idle"
  /\ \A p \in locked : arg[p] # NoKey
  /\ stale \subseteq alive

(* A section nobody has open is gone, so a new instance has no key.        *)
SectionsAreOpen ==
  \A q \in Procs : section[q] # NoKey =>
    \/ q \in alive /\ keyState[q] = "named"
    \/ \E o \in alive : q \in Maps(o)

(* An entitled instance has a handle to the key's mutex, so that nobody    *)
(* else creates it, and is the only one.                                   *)
EntitledOwnMutex ==
  \A p \in Procs, k \in Keys : Entitled(p, k) =>
    /\ creation[p] = k
    /\ \A q \in Procs : Entitled(q, k) => q = p

(* The inductive invariant behind OneOwnerPerKey: the four together.       *)
KeyInv == TypeOK /\ LocksAreCalls /\ SectionsAreOpen /\ EntitledOwnMutex

(* Safety: no two running instances have the same key, as another instance *)
(* could read it (neither holds its own mutex), unless one of them only    *)
(* still shows a key it gave up by asking for one that was taken.          *)
(* TrySetKey, AppInstance.cpp:570-594.                                     *)
OneOwnerPerKey ==
  \A p, q \in alive \ (locked \union stale) :
    p # q /\ OwnKey(p) # NoKey => OwnKey(p) # OwnKey(q)

(* Safety: an instance that was refused a key finds the instance that had  *)
(* it, provided that one still runs and has neither unregistered nor set   *)
(* another key: the comment on m_dataMutex, AppInstance.cpp:575-579.       *)
RefusedFindsOwner ==
  [][\A p \in Procs : NobodyHasIt(p) => rivals[p] = {}]_vars

(* Liveness: a call of a running instance returns, also when the instance  *)
(* whose mutex it waits for is inside TrySetKey or ends there.             *)
CallsReturn == \A p \in Procs : pc[p] # "idle" ~> pc[p] = "idle"

-----------------------------------------------------------------------------
(* What the instancing spec promises and the code does not do:             *)
(* "A given key can only be registered for one instance."                  *)
KeyRegisteredOnce ==
  \A p, q \in alive \ locked :
    p # q /\ OwnKey(p) # NoKey => OwnKey(p) # OwnKey(q)

=============================================================================
