------------------------- MODULE PackageDependencies -------------------------
(***************************************************************************)
(* The package dependencies of one unpackaged process                      *)
(* (src/dev/DynamicDependency/API/MsixDynamicDependency.cpp,               *)
(* PackageDependencyManager.cpp, PackageDependency.cpp, DataStore.cpp):    *)
(* threads create, delete, add and remove dependencies over the graph of   *)
(* PackageGraph and over files that outlive the process.  The list of      *)
(* dependencies has a lock of its own, g_lock, which Add does not take.    *)
(***************************************************************************)
EXTENDS PackageGraph

CONSTANTS
  Threads, NoThread,
  NoData,       (* an empty file                                           *)
  Criteria,     (* what dependencies ask for, see CriteriaAssumption       *)
  MaxCalls,     (* bound: calls made, and edits of PATH                    *)
  MaxFaults     (* bound: failures, restarts and changes of packages       *)

(* kept: the lifetime is a file's or a registry key's, not the process's   *)
ASSUME CriteriaAssumption ==
  /\ NoThread \notin Threads /\ NoData \notin Criteria
  /\ \A c \in Criteria : /\ c.minVersion \in Nat /\ c.kept \in BOOLEAN
                         /\ c.architectures \subseteq STRING

ASSUME BoundAssumption == MaxCalls \in Nat /\ MaxFaults \in Nat

VARIABLES
  memory,       (* g_packageDependencies: the criteria of each id          *)
  store,        (* the files of the data store: criteria, or NoData        *)
  call,         (* where each thread is, and what its call is about        *)
  graphLock,    (* s_lock between two steps of a call: who holds it        *)
  held,         (* history: the contexts the app was given                 *)
  defined,      (* history: the ids the app was given, and their criteria  *)
  moved,        (* history: the threads whose dependency may have moved    *)
  leaked,       (* history: contexts nobody was given                      *)
  torn,         (* history: somebody else wrote into our part of PATH, or  *)
                (* between the read and the write of one who updates it    *)
  others,       (* history: the app's own directories, as it arranged them *)
  lastId, made, faults

ids      == <<memory, store, defined, lastId>>
historyVars == <<held, leaked, torn, others>>
appVars  == <<graphLock, moved, historyVars>>
libVars  == <<usable, graphVars, ids, appVars>>
depVars  == <<libVars, call, made, faults>>

Ids      == 1..MaxCalls
Idle     == [at |-> "idle"]
Nothing  == [i \in {} |-> NoData]

With(f, id, c)  == [i \in DOMAIN f \union {id} |-> IF i = id THEN c ELSE f[i]]
Without(f, S)   == [i \in DOMAIN f \ S |-> f[i]]
At(S)           == {t \in Threads : call[t].at \in S}
Resolving       == At({"resolve", "boot resolve"})

DependenciesTypeOK ==
  /\ GraphTypeOK
  /\ \A f \in {memory, store, defined} :
       DOMAIN f \subseteq Ids /\ \A i \in DOMAIN f : f[i] \in Criteria \union {NoData}
  /\ DOMAIN call = Threads /\ graphLock \in Threads \union {NoThread}
  /\ held \subseteq Nat /\ leaked \subseteq Nat /\ moved \subseteq Threads
  /\ torn \in BOOLEAN /\ others \in Seq(AppDirs)
  /\ lastId \in 0..MaxCalls /\ made \in 0..MaxCalls /\ faults \in 0..MaxFaults

DependenciesInit ==
  /\ GraphInit
  /\ memory = Nothing /\ store = Nothing /\ defined = Nothing
  /\ call = [t \in Threads |-> Idle] /\ graphLock = NoThread
  /\ held = {} /\ moved = {} /\ leaked = {}
  /\ torn = FALSE /\ others = FirstPath
  /\ lastId = 0 /\ made = 0 /\ faults = 0

Goes(t, to) == call' = [call EXCEPT ![t] = to]
Begins(t)   == call[t] = Idle /\ made < MaxCalls /\ made' = made + 1
Fault       == faults < MaxFaults /\ faults' = faults + 1

-----------------------------------------------------------------------------
(* MddTryCreatePackageDependency                                           *)

(* Verify, and the file of a dependency that outlives the process, which   *)
(* CREATE_ALWAYS leaves empty                                              *)
TryCreate(t, c) ==
  /\ Begins(t)
  /\ Resolutions(c) # {NoPackage}
  /\ lastId' = lastId + 1
  /\ store' = IF c.kept THEN With(store, lastId', NoData) ELSE store
  /\ Goes(t, [at |-> IF c.kept THEN "write" ELSE "push", id |-> lastId', c |-> c])
  /\ UNCHANGED <<usable, graphVars, memory, defined, appVars, faults>>

WriteFile(t) ==
  /\ call[t].at = "write"
  /\ store' = With(store, call[t].id, call[t].c)
  /\ Goes(t, [call[t] EXCEPT !.at = "push"])
  /\ UNCHANGED <<usable, graphVars, memory, defined, lastId, appVars, made,
                 faults>>

WriteFails(t) ==
  /\ call[t].at = "write" /\ Fault
  /\ Goes(t, Idle)
  /\ UNCHANGED <<libVars, made>>

(* g_lock: nobody is between the two steps of a Delete                     *)
ListIsFree == At({"delete"}) = {}

(* The vector may grow, and move what Add has found in it                  *)
PushBack(id, c) ==
  /\ ListIsFree
  /\ memory' = With(memory, id, c) /\ moved' = Resolving

CreateReturns(t) ==
  /\ call[t].at = "push"
  /\ PushBack(call[t].id, call[t].c)
  /\ defined' = With(defined, call[t].id, call[t].c)
  /\ Goes(t, Idle)
  /\ UNCHANGED <<usable, graphVars, store, lastId, graphLock, historyVars, made,
                 faults>>

(* Mutant: only the list in memory is cleaned *)
DeleteNoFile(id) == UNCHANGED store

DeleteFile(id) == store' = Without(store, {id})

(* The dependency is erased from the vector ...                            *)
DeletePackageDependency(t, id) ==
  /\ Begins(t) /\ id \in DOMAIN defined /\ ListIsFree
  /\ memory' = Without(memory, {id})
  /\ moved' = IF id \in DOMAIN memory THEN Resolving ELSE moved
  /\ defined' = Without(defined, {id})
  /\ Goes(t, [at |-> "delete", id |-> id])
  /\ UNCHANGED <<usable, graphVars, store, lastId, graphLock, historyVars, faults>>

(* ... then its file is deleted, or cannot be, which is only logged.       *)
DeleteReturns(t) ==
  /\ call[t].at = "delete"
  /\ \/ DeleteFile(call[t].id) /\ UNCHANGED faults
     \/ UNCHANGED store /\ Fault
  /\ Goes(t, Idle)
  /\ UNCHANGED <<usable, graphVars, memory, defined, lastId, appVars, made>>

-----------------------------------------------------------------------------
(* MddAddPackageDependency and MddRemovePackageDependency                  *)

(* GetPackageDependency.  FromJSON leaves the id of what Load returns      *)
(* empty, and operator! takes that for no dependency: nothing is found in  *)
(* the data store.  Load removes an empty file.                            *)
Lookup(t, id, found) ==
  IF id \in DOMAIN memory
  THEN /\ graphLock = NoThread /\ graphLock' = t
       /\ Goes(t, found) /\ moved' = moved \ {t}
       /\ UNCHANGED store
  ELSE /\ graphLock = NoThread
       /\ store' = IF id \in DOMAIN store /\ store[id] = NoData
                   THEN Without(store, {id}) ELSE store
       /\ UNCHANGED <<call, graphLock, moved>>

AddPackageDependency(t, id, rank, prepend) ==
  /\ Begins(t) /\ id \in DOMAIN defined
  /\ Lookup(t, id, [at |-> "resolve", id |-> id, rank |-> rank,
                    prepend |-> prepend])
  /\ UNCHANGED <<usable, graphVars, memory, defined, lastId, historyVars, faults>>

(* What the pointer into the vector gives: anything, once the vector moved *)
Found(t) ==
  IF t \in moved THEN Packages \union {NoPackage}
                 ELSE Resolutions(memory[call[t].id])

(* The package found is added to the list, and UpdatePath begins ...       *)
Resolves(t, rank, prepend, p) ==
  /\ p \in Found(t)
  /\ AddNode(call[t].id, p, rank, prepend)
  /\ UNCHANGED <<usable, ids, appVars, made, faults>>

NotFound(t) ==
  /\ NoPackage \in Found(t) /\ graphLock' = NoThread
  /\ UNCHANGED <<usable, graphVars, ids, moved, historyVars, made, faults>>

(* ... and ends, or fails.                                                 *)
EndsUpdate(ok) ==
  /\ graphLock' = NoThread
  /\ IF ok THEN UNCHANGED faults ELSE Fault
  /\ torn' = (torn \/ (path # read /\ ~behind'))
  /\ UNCHANGED <<usable, ids, moved, others, made>>

Added(t, ok) ==
  /\ AddToDllSearchOrder(call[t].context, ok)
  /\ EndsUpdate(ok)
  /\ leaked' = IF ok THEN leaked ELSE leaked \union {call[t].context}

Resolve(t) ==
  /\ call[t].at = "resolve"
  /\ \/ /\ \E p \in Packages : Resolves(t, call[t].rank, call[t].prepend, p)
        /\ Goes(t, [at |-> "update", context |-> lastContext'])
     \/ NotFound(t) /\ Goes(t, Idle)

AddReturns(t) ==
  /\ call[t].at = "update"
  /\ \E ok \in BOOLEAN :
       /\ Added(t, ok)
       /\ held' = IF ok THEN held \union {call[t].context} ELSE held
  /\ Goes(t, Idle)

RemovePackageDependency(t, context) ==
  /\ Begins(t) /\ context \in held
  /\ graphLock = NoThread /\ graphLock' = t
  /\ RemoveNode(context)
  /\ held' = held \ {context}
  /\ Goes(t, [at |-> "remove"])
  /\ UNCHANGED <<usable, ids, moved, leaked, torn, others, faults>>

RemoveReturns(t) ==
  /\ call[t].at = "remove"
  /\ \E ok \in BOOLEAN : RemoveFromDllSearchOrder(ok) /\ EndsUpdate(ok)
  /\ Goes(t, Idle)
  /\ UNCHANGED <<held, leaked>>

-----------------------------------------------------------------------------
(* Around the process                                                      *)

(* The app puts a directory of its own first on PATH, as other code may.   *)
AppPrepends(t, d) ==
  /\ Begins(t)
  /\ path' = <<d>> \o path /\ others' = <<d>> \o others
  /\ UNCHANGED <<usable, listVars, ids, call, graphLock, held, moved, leaked,
                 faults>>

(* The app takes one of the packages' directories from PATH.               *)
AppDrops(t, i) ==
  /\ Begins(t)
  /\ i \in DOMAIN path /\ path[i] \in Packages
  /\ path' = RemoveAt(path, i) /\ torn' = TRUE
  /\ UNCHANGED <<usable, listVars, ids, call, graphLock, held, moved, leaked,
                 others, faults>>

(* A package becomes unusable, or usable again                             *)
PackageChanges(p) ==
  /\ Fault
  /\ usable' = IF p \in usable THEN usable \ {p} ELSE usable \union {p}
  /\ UNCHANGED <<graphVars, ids, appVars, call, made>>

(* The process ends and a new one of the app starts: the files are left,   *)
(* and the app keeps the ids that outlive it.                              *)
Restarts ==
  /\ GraphRestarts
  /\ memory' = Nothing /\ call' = [t \in Threads |-> Idle]
  /\ graphLock' = NoThread
  /\ held' = {} /\ moved' = {} /\ leaked' = {}
  /\ torn' = FALSE /\ others' = FirstPath
  /\ defined' = Without(defined, {i \in DOMAIN defined : ~defined[i].kept})
  /\ UNCHANGED <<usable, store, lastId, made>>
=============================================================================
