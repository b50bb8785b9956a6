---------------------------- MODULE Bootstrapper ----------------------------
(***************************************************************************)
(* MddBootstrapInitialize and MddBootstrapShutdown                         *)
(* (src/dev/WindowsAppRuntime_BootstrapDLL/MddBootstrap.cpp) among the     *)
(* other calls of PackageDependencies: the first initialization starts a   *)
(* lifetime manager process that keeps the framework package from being    *)
(* serviced, puts the framework on PATH for as long as it takes to load    *)
(* the runtime DLL, and adds it to the package graph.  The lock of the     *)
(* initialization is released before the count is incremented.  The        *)
(* lifetime manager is found by enumeration                                *)
(* (DynamicDependencyLifetimeManagerShadow/winmain.cpp).                   *)
(***************************************************************************)
EXTENDS PackageDependencies

CONSTANTS
  Framework,         (* the framework package the manager depends on       *)
  FrameworkCriteria, (* what FirstTimeInitialization creates               *)
  DefaultRank        (* MDD_PACKAGE_DEPENDENCY_RANK_DEFAULT                *)

ASSUME FrameworkAssumption ==
  /\ Framework \in Packages /\ DefaultRank \in Ranks
  /\ FrameworkCriteria \in Criteria /\ ~FrameworkCriteria.kept

VARIABLES
  count,        (* g_initializationCount                                   *)
  boot,         (* the other globals, or NotBooted                         *)
  bootLock,     (* g_initializationLock between two steps: who holds it    *)
  seen,         (* the PATH read by the thread that initializes            *)
  managers,     (* the lifetime managers that run                          *)
  ending,       (* those whose event is set or whose process is gone       *)
  lastManager,
  inits,        (* history: initializations each thread has to balance     *)
  orphans,      (* history: the managers of initializations that failed    *)
  ahead,        (* history: an initialization ended and did not take the   *)
                (* framework from PATH                                     *)
  raced,        (* history: the count was read before an increment         *)
  failedFast    (* history: FAIL_FAST_HR_IF ended the process              *)

managerVars == <<managers, ending, lastManager>>
flags    == <<ahead, raced, failedFast>>
initVars == <<count, boot, bootLock, managerVars, inits, orphans, flags>>
bootVars == <<initVars, seen>>
vars     == <<depVars, bootVars>>

NotBooted == [context |-> 0, manager |-> 0]

TypeOK ==
  /\ DependenciesTypeOK
  /\ count \in Nat /\ boot \in [context : Nat, manager : 0..MaxCalls]
  /\ bootLock \in Threads \union {NoThread}
  /\ seen \in Seq(Packages \union AppDirs)
  /\ ending \subseteq managers /\ managers \subseteq 1..MaxCalls
  /\ lastManager \in 0..MaxCalls
  /\ inits \in [Threads -> Nat] /\ orphans \subseteq 1..MaxCalls
  /\ ahead \in BOOLEAN /\ raced \in BOOLEAN /\ failedFast \in BOOLEAN

Init ==
  /\ DependenciesInit
  /\ count = 0 /\ boot = NotBooted /\ bootLock = NoThread /\ seen = <<>>
  /\ managers = {} /\ ending = {} /\ lastManager = 0
  /\ inits = [t \in Threads |-> 0] /\ orphans = {}
  /\ ahead = FALSE /\ raced = FALSE /\ failedFast = FALSE

Incrementing == At({"increment"})

(* The framework's directory is on PATH, or about to be, for the moment    *)
InWindow == At({"add path", "create", "boot lookup", "boot resolve",
                "boot update", "trim"}) # {}

ProcessRestarts ==
  /\ Restarts
  /\ count' = 0 /\ boot' = NotBooted /\ bootLock' = NoThread /\ seen' = <<>>
  /\ ending' = managers
  /\ inits' = [t \in Threads |-> 0] /\ ahead' = FALSE
  /\ UNCHANGED <<managers, lastManager, orphans>>

-----------------------------------------------------------------------------
(* MddBootstrapInitialize2                                                 *)

(* The count is compared while another thread is about to increment it.    *)
Races(n) == raced' = (raced \/ (count = n /\ Incrementing # {}))

BeginInitialize(t) ==
  /\ Begins(t) /\ bootLock = NoThread
  /\ (count > 0) = (boot # NotBooted)
  /\ Races(0)
  /\ IF count > 0
     THEN Goes(t, [at |-> "increment"]) /\ UNCHANGED bootLock
     ELSE Goes(t, [at |-> "manager"]) /\ bootLock' = t
  /\ UNCHANGED <<libVars, faults, count, boot, seen, managerVars, inits, orphans,
                 ahead, failedFast>>

(* The sanity checks of VerifyInitializationIsCompatible and               *)
(* FirstTimeInitialization                                                 *)
FailsFast(t) ==
  /\ call[t] = Idle /\ bootLock = NoThread
  /\ (count > 0) # (boot # NotBooted)
  /\ Races(0)
  /\ ProcessRestarts
  /\ failedFast' = TRUE
  /\ UNCHANGED faults

(* CreateLifetimeManagerViaEnumeration; AddFrameworkToPath reads PATH      *)
CreateLifetimeManager(t) ==
  /\ call[t].at = "manager"
  /\ lastManager' = lastManager + 1
  /\ managers' = managers \union {lastManager'}
  /\ Goes(t, [at |-> "add path", manager |-> lastManager'])
  /\ seen' = path
  /\ UNCHANGED <<libVars, made, faults, count, boot, bootLock, ending, inits,
                 orphans, flags>>

(* A step of the initialization throws: what it did so far stays done, and *)
(* the event of the manager is closed without having been set.             *)
InitializationFails(t) ==
  /\ bootLock' = NoThread
  /\ orphans' = orphans \union ({call[t].manager} \ ending)
  /\ Goes(t, Idle)
  /\ UNCHANGED <<made, count, boot, managerVars, inits, flags>>

NoManager(t) ==
  /\ call[t].at = "manager" /\ Fault
  /\ bootLock' = NoThread /\ Goes(t, Idle)
  /\ UNCHANGED <<libVars, made, count, boot, seen, managerVars, inits, orphans,
                 flags>>

WritePath(p, cuts) ==
  /\ path' = p /\ torn' = (torn \/ path # seen \/ cuts)
  /\ UNCHANGED <<usable, listVars, ids, graphLock, held, moved, leaked, others>>

(* The PATH that was read is written back with the framework before it;    *)
(* then LoadLibrary.  Each may fail.                                       *)
AddFrameworkToPath(t) ==
  /\ call[t].at = "add path"
  /\ \/ /\ WritePath(<<Framework>> \o seen, FALSE)
        /\ Goes(t, [call[t] EXCEPT !.at = "create"])
        /\ UNCHANGED <<made, faults, initVars>>
     \/ /\ WritePath(<<Framework>> \o seen, FALSE) \/ UNCHANGED libVars
        /\ Fault /\ InitializationFails(t)
  /\ UNCHANGED seen

(* MddTryCreatePackageDependency                                           *)
CreateFrameworkDependency(t) ==
  /\ call[t].at = "create"
  /\ IF Resolutions(FrameworkCriteria) = {NoPackage}
     THEN InitializationFails(t) /\ UNCHANGED libVars
     ELSE /\ lastId' = lastId + 1
          /\ PushBack(lastId', FrameworkCriteria)
          /\ Goes(t, [at |-> "boot lookup", manager |-> call[t].manager,
                      id |-> lastId'])
          /\ UNCHANGED <<usable, graphVars, store, defined, graphLock,
                         historyVars, made, initVars>>
  /\ UNCHANGED <<faults, seen>>

(* MddAddPackageDependency                                                 *)
LookupFramework(t) ==
  /\ call[t].at = "boot lookup"
  /\ Lookup(t, call[t].id, [call[t] EXCEPT !.at = "boot resolve"])
  /\ UNCHANGED <<usable, graphVars, memory, defined, lastId, historyVars, made,
                 faults, bootVars>>

(* The Add itself                                                          *)
AddFramework(t) ==
  /\ call[t].at = "boot resolve"
  /\ \/ /\ \E p \in Packages : Resolves(t, DefaultRank, FALSE, p)
        /\ Goes(t, [at |-> "boot update", manager |-> call[t].manager,
                    context |-> lastContext'])
        /\ UNCHANGED initVars
     \/ NotFound(t) /\ InitializationFails(t)
  /\ UNCHANGED seen

(* RemoveFrameworkFromPath reads PATH.                                     *)
AddFrameworkReturns(t) ==
  /\ call[t].at = "boot update"
  /\ \E ok \in BOOLEAN :
       /\ Added(t, ok)
       /\ IF ok THEN Goes(t, [call[t] EXCEPT !.at = "trim"]) /\ UNCHANGED initVars
                ELSE InitializationFails(t)
  /\ seen' = path'
  /\ UNCHANGED held

(* PATH is written if what was read starts with the framework's directory, *)
(* which is that of the graph by now: with other packages in the graph     *)
(* that cuts into their block.  A failure is only logged.  The globals are *)
(* set, the lock is released.                                              *)
StartsWithFramework == seen # <<>> /\ Head(seen) = Framework

RemoveFrameworkFromPath(t) ==
  /\ call[t].at = "trim"
  /\ \/ /\ StartsWithFramework /\ WritePath(Tail(seen), Len(added) > 1)
        /\ UNCHANGED <<faults, ahead>>
     \/ /\ IF StartsWithFramework THEN Fault ELSE UNCHANGED faults
        /\ ahead' = TRUE /\ UNCHANGED libVars
  /\ boot' = [context |-> call[t].context, manager |-> call[t].manager]
  /\ bootLock' = NoThread
  /\ Goes(t, [at |-> "increment"])
  /\ UNCHANGED <<made, count, seen, managerVars, inits, orphans, raced,
                 failedFast>>

(* ++g_initializationCount, without the lock                               *)
IncrementCount(t) ==
  /\ call[t].at = "increment"
  /\ count' = count + 1
  /\ inits' = [inits EXCEPT ![t] = @ + 1]
  /\ Goes(t, Idle)
  /\ UNCHANGED <<libVars, made, faults, boot, bootLock, seen, managerVars,
                 orphans, flags>>

-----------------------------------------------------------------------------
(* Mutant: the lights go out with the last but one *)
LastTwoOut == count \in {1, 2}

LastOut == count = 1

(* Mutant: the event is closed without being set *)
CloseEvent(m) == UNCHANGED ending

SetEvent(m) == ending' = ending \union ({m} \intersect managers)

(* MddBootstrapShutdown, by a thread that has an initialization to balance *)
BeginShutdown(t) ==
  /\ Begins(t) /\ inits[t] > 0 /\ bootLock = NoThread
  /\ inits' = [inits EXCEPT ![t] = @ - 1]
  /\ Races(1)
  /\ UNCHANGED <<usable, ids, moved, leaked, torn, others, faults, held, seen,
                 managerVars, orphans, ahead, failedFast>>

(* Others have initialized too, or nothing is left to undo.                *)
Shutdown(t) ==
  /\ BeginShutdown(t)
  /\ ~LastOut \/ boot = NotBooted
  /\ count' = IF count = 0 THEN 0 ELSE count - 1
  /\ UNCHANGED <<graphVars, graphLock, call, boot, bootLock>>

(* The last one removes the framework from the graph, ...                  *)
ShutdownLast(t) ==
  /\ BeginShutdown(t)
  /\ LastOut /\ boot # NotBooted
  /\ graphLock = NoThread /\ graphLock' = t
  /\ RemoveNode(boot.context)
  /\ boot' = [boot EXCEPT !.context = 0]
  /\ bootLock' = t /\ Goes(t, [at |-> "shut down"])
  /\ UNCHANGED count

(* ... whether or not PATH can be updated, and goes on.                    *)
ShutdownReturns(t) ==
  /\ call[t].at = "shut down"
  /\ \E ok \in BOOLEAN : RemoveFromDllSearchOrder(ok) /\ EndsUpdate(ok)
  /\ SetEvent(boot.manager)
  /\ boot' = NotBooted /\ count' = count - 1
  /\ bootLock' = NoThread /\ Goes(t, Idle)
  /\ UNCHANGED <<held, leaked, seen, managers, lastManager, inits, orphans, flags>>

-----------------------------------------------------------------------------
(* winmain of the lifetime manager: it waits for its event or the end of   *)
(* the process that started it.                                            *)
LifetimeManagerEnds(m) ==
  /\ m \in ending
  /\ managers' = managers \ {m} /\ ending' = ending \ {m}
  /\ UNCHANGED <<depVars, count, boot, bootLock, seen, lastManager, inits,
                 orphans, flags>>

Restart == ProcessRestarts /\ Fault /\ UNCHANGED <<raced, failedFast>>

DependencyCall(t) ==
  \/ \E c \in Criteria \ {FrameworkCriteria} : TryCreate(t, c)
  \/ WriteFile(t) \/ WriteFails(t) \/ CreateReturns(t)
  \/ \E id \in Ids :
       \/ DeletePackageDependency(t, id)
       \/ \E rank \in Ranks, prepend \in BOOLEAN :
            AddPackageDependency(t, id, rank, prepend)
  \/ DeleteReturns(t) \/ Resolve(t) \/ AddReturns(t)
  \/ \E x \in held : RemovePackageDependency(t, x)
  \/ RemoveReturns(t)
  \/ \E i \in DOMAIN path : AppDrops(t, i)

BootstrapCall(t) ==
  \/ BeginInitialize(t) \/ FailsFast(t) \/ CreateLifetimeManager(t)
  \/ NoManager(t) \/ AddFrameworkToPath(t) \/ CreateFrameworkDependency(t)
  \/ LookupFramework(t) \/ AddFramework(t) \/ AddFrameworkReturns(t)
  \/ RemoveFrameworkFromPath(t) \/ IncrementCount(t) \/ Shutdown(t)
  \/ ShutdownLast(t) \/ ShutdownReturns(t)

Next ==
  \/ \E t \in Threads :
       \/ DependencyCall(t) /\ UNCHANGED bootVars
       \/ BootstrapCall(t)
       \/ \E d \in AppDirs : /\ AppPrepends(t, d)
                            /\ torn' = (torn \/ InWindow)
                            /\ UNCHANGED bootVars
  \/ \E p \in Packages : PackageChanges(p) /\ UNCHANGED bootVars
  \/ Restart
  \/ \E m \in managers : LifetimeManagerEnds(m)

(* A lifetime manager that can end does: it waits on the two handles.      *)
Spec == Init /\ [][Next]_vars /\ \A m \in 1..MaxCalls : WF_vars(LifetimeManagerEnds(m))

-----------------------------------------------------------------------------
(* The graph of the process is sound, whatever the threads' calls did: it  *)
(* is in the order of the ranks; it holds exactly the packages somebody    *)
(* holds a context of, the initialization's included, and those of calls   *)
(* that failed too late (PackageGraph.cpp:106); the others have their DLL  *)
(* directories; and until something is removed (PackageGraph.cpp:200       *)
(* leaves its WinRT package) activation goes through the packages in the   *)
(* order of the graph.                                                     *)
Sorted == \A i, j \in DOMAIN graph : i < j => graph[i].rank <= graph[j].rank

(* Calls inside UpdatePath                                                 *)
Adding   == At({"update", "boot update"})
Updating == Adding \union At({"remove", "shut down"})

HeldIsInGraph ==
  Contexts = held \union leaked \union ({boot.context} \ {0})
             \union {call[t].context : t \in Adding \union At({"trim"})}

ActivationOrder ==
  Len(winrt) = Len(graph) => \A i \in DOMAIN graph : winrt[i] = graph[i].context

GraphInv ==
  /\ TypeOK
  /\ Sorted
  /\ Cardinality(Contexts) = Len(graph)
  /\ HeldIsInGraph
  /\ dirs = Contexts \ (leaked \union {call[t].context : t \in Adding})
  /\ ActivationOrder

(* The directories of S that are on p, in their order                      *)
Kept(p, S) ==
  LET kept[n \in 0..Len(p)] ==
        IF n = 0 THEN <<>>
        ELSE IF p[n] \in S THEN Append(kept[n - 1], p[n]) ELSE kept[n - 1]
  IN kept[Len(p)]

(* Unless somebody else writes into our part of PATH, or between the read  *)
(* and the write of an update (PackageGraph.cpp:302, 368), or in the       *)
(* moment the initialization has its own directory there, the app's own    *)
(* directories stay on PATH in their order, and the block put there last   *)
(* is there to be found by the next UpdatePath - which drops all of PATH   *)
(* when it is not (PackageGraph.cpp:299).  Whenever no update is under way *)
(* and the last did not fail, that block is that of the graph.             *)
PathIsKept ==
  ~torn => /\ Kept(path, AppDirs) = others
           /\ ~behind /\ Updating = {} => added = BuildPathList(graph)
           /\ added # <<>> => Offsets(path, added) # {}

(* With no failed initialization, and none that left its directory on PATH *)
(* since it was not first or PATH could not be written, the packages'      *)
(* directories on PATH are those of the last update, once each: the        *)
(* temporary one is gone (MddBootstrap.cpp:439).  The writes PathIsKept    *)
(* excepts are excepted here.                                              *)
PathIsBalanced ==
  ~torn /\ ~ahead /\ orphans = {} /\ ~InWindow =>
    Kept(path, Packages) = added

(* A thread that has initialized and not shut down can rely on the         *)
(* framework: it is in the graph, its lifetime manager runs, and no check  *)
(* fails fast - unless a count was read just before it was incremented     *)
(* (MddBootstrap.cpp:151).                                                 *)
InitializedStays ==
  ~raced =>
    /\ ~failedFast
    /\ \A t \in Threads : inits[t] > 0 => /\ boot.context \in Contexts
                                         /\ boot.manager \in managers \ ending

(* What outlives the process and was not deleted is in the data store,     *)
(* whole; the other files there are those of calls that are under way or   *)
(* were cut short (DataStore.cpp:78, PackageDependencyManager.cpp:91).     *)
PinsStay ==
  /\ \A id \in DOMAIN defined :
       IF defined[id].kept THEN id \in DOMAIN store /\ store[id] = defined[id]
                           ELSE id \notin DOMAIN store
  /\ \A id \in DOMAIN store \ DOMAIN defined :
       \/ faults > 0 \/ failedFast
       \/ \E t \in At({"write", "push", "delete"}) : call[t].id = id

(* A dependency is resolved to a usable package that fits, if there is     *)
(* one; and to the same one, the highest version, in whatever order the    *)
(* system reports a family without architecture-neutral packages           *)
(* (PackageGraph.cpp:147).                                                 *)
Fits(p, c) ==
  /\ FamilyOf[p] = c.family /\ VersionOf[p] >= c.minVersion /\ p \in usable
  /\ ArchitectureOf[p] \in IF c.architectures = {} THEN {"neutral", Current}
                           ELSE c.architectures

ResolutionFits ==
  \A c \in Criteria : \A r \in Resolutions(c) :
    LET fit == {p \in Packages : Fits(p, c)}
    IN /\ IF fit = {} THEN r = NoPackage ELSE r \in fit
       /\ (\A p \in fit : ArchitectureOf[p] # "neutral") =>
            \A p \in fit : VersionOf[p] <= VersionOf[r]

(* A lifetime manager nobody relies on ends: after the last Shutdown, and  *)
(* after the process, unless its initialization failed (MddBootstrap.cpp:  *)
(* 302-321 close its event without setting it).                            *)
InUse(m) ==
  \/ m = boot.manager
  \/ \E t \in Threads : "manager" \in DOMAIN call[t] /\ call[t].manager = m

LifetimeManagersEnd ==
  \A m \in 1..MaxCalls :
    m \in managers /\ ~InUse(m) /\ m \notin orphans ~> m \notin managers

=============================================================================
