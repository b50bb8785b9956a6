---------------------------- MODULE PackageGraph ----------------------------
(***************************************************************************)
(* The package graph of one unpackaged process                             *)
(* (src/dev/DynamicDependency/API/PackageGraph.cpp, PackageGraphManager.cpp*)
(* and WinRTModuleManager.cpp): how a dependency is resolved to a package, *)
(* the list of packages in rank order, and the three places a package in   *)
(* the graph is found through - the PATH of the process, the loader's list *)
(* of DLL directories, and the list of WinRT packages.  Every operation    *)
(* here runs under PackageGraphManager::s_lock.  PATH is a sequence of     *)
(* directories, one for each package; anybody in the process may write it, *)
(* between the two halves of an update too: Add and Remove change the list *)
(* and read PATH in one step, and write it in another.                     *)
(***************************************************************************)
EXTENDS Integers, FiniteSets, SequencesExt

CONSTANTS
  NoPackage,
  Packages,     (* the packages registered for the user, each with one     *)
                (* directory                                               *)
  FamilyOf, VersionOf, ArchitectureOf,
  Current,      (* GetCurrentArchitecture()                                *)
  Ranks,        (* the ranks packages are added with                       *)
  AppDirs,      (* directories of the app's own on PATH                    *)
  FirstPath     (* PATH when a process starts                              *)

ASSUME CatalogAssumption ==
  /\ VersionOf \in [Packages -> Nat] /\ Ranks \subseteq Int
  /\ FirstPath \in Seq(AppDirs) /\ AppDirs \cap Packages = {}
  /\ NoPackage \notin Packages /\ IsFiniteSet(Packages)

VARIABLES
  usable,       (* the packages whose status is OK                         *)
  graph,        (* m_packageGraphNodes                                     *)
  winrt,        (* s_winrtPackages, by their contexts                      *)
  dirs,         (* the nodes that hold AddDllDirectory cookies             *)
  path,         (* PATH                                                    *)
  read,         (* the PATH UpdatePath has read                            *)
  added,        (* m_pathListLastAddedToPath                               *)
  behind,       (* history: the last update could not write PATH           *)
  lastContext,  (* s_lastContext                                           *)
  generation    (* s_generationId                                          *)

listVars  == <<graph, winrt, dirs, read, added, behind, lastContext, generation>>
graphVars == <<path, listVars>>

Nodes == [context : Nat, id : Nat, package : Packages, rank : Ranks]

GraphTypeOK ==
  /\ usable \subseteq Packages
  /\ graph \in Seq(Nodes)
  /\ winrt \in Seq(Nat) /\ dirs \subseteq Nat
  /\ {path, read} \subseteq Seq(Packages \union AppDirs)
  /\ added \in Seq(Packages) /\ behind \in BOOLEAN
  /\ lastContext \in Nat /\ generation \in Nat

GraphInit ==
  /\ usable = Packages
  /\ graph = <<>> /\ winrt = <<>> /\ dirs = {}
  /\ path = FirstPath /\ read = <<>> /\ added = <<>> /\ behind = FALSE
  /\ lastContext = 0 /\ generation = 0

(* The process is gone and a new one starts                                *)
GraphRestarts ==
  /\ graph' = <<>> /\ winrt' = <<>> /\ dirs' = {}
  /\ path' = FirstPath /\ read' = <<>> /\ added' = <<>> /\ behind' = FALSE
  /\ lastContext' = 0 /\ generation' = 0

Contexts == {graph[i].context : i \in DOMAIN graph}

-----------------------------------------------------------------------------
(* Resolving a dependency.  FindPackagesByPackageFamily may report the     *)
(* packages of the family in any order.                                    *)

(* IsPackageABetterFitPerArchitecture *)
FitsBetter(best, p) ==
  /\ ArchitectureOf[p] \in {"neutral", Current}
  /\ ~ /\ best # NoPackage /\ ArchitectureOf[best] = "neutral"
       /\ ArchitectureOf[p] # "neutral"

FitsArchitecture(best, p, c) ==
  IF c.architectures = {} THEN FitsBetter(best, p)
                          ELSE ArchitectureOf[p] \in c.architectures

(* Mutant: the last package reported wins *)
NotCompared(best, p) == TRUE

(* Not when a higher version is under consideration already *)
NotLower(best, p) == best = NoPackage \/ VersionOf[best] <= VersionOf[p]

BetterFit(best, p, c) ==
  IF /\ NotLower(best, p)
     /\ VersionOf[p] >= c.minVersion
     /\ FitsArchitecture(best, p, c)
     /\ p \in usable
  THEN p ELSE best

(* best[n]: the best fit among the first n packages reported               *)
BestFit(order, c) ==
  LET best[n \in 0..Len(order)] ==
        IF n = 0 THEN NoPackage ELSE BetterFit(best[n - 1], order[n], c)
  IN best[Len(order)]

FindPackagesByFamily(c) ==
  SetToSeqs({p \in Packages : FamilyOf[p] = c.family})

Resolutions(c) == {BestFit(order, c) : order \in FindPackagesByFamily(c)}

-----------------------------------------------------------------------------
(* PATH                                                                    *)

BuildPathList(g) == [i \in DOMAIN g |-> g[i].package]

(* Where the block stands in p, at whole directories                       *)
Offsets(p, block) ==
  {i \in 1..(Len(p) - Len(block) + 1) :
     SubSeq(p, i, i + Len(block) - 1) = block}

(* Mutant: the block is looked for at the start of PATH only *)
WithoutPrefix(p, block) ==
  IF IsPrefix(block, p) THEN SubSeq(p, Len(block) + 1, Len(p)) ELSE p

(* The rest of p if the block is taken out where it first stands: nothing  *)
(* at all if it is not there.                                              *)
WithoutBlock(p, block) ==
  IF block = <<>> THEN p
  ELSE IF Offsets(p, block) = {} THEN <<>>
  ELSE LET i == Min(Offsets(p, block))
       IN SubSeq(p, 1, i - 1) \o SubSeq(p, i + Len(block), Len(p))

(* Mutant: the new block is not remembered *)
UpdatePathForgets ==
  /\ UNCHANGED added /\ behind' = FALSE
  /\ path' = BuildPathList(graph) \o WithoutBlock(read, added)

(* UpdatePath writes what it has made of the PATH it read ...              *)
UpdatePath ==
  /\ added' = BuildPathList(graph) /\ behind' = FALSE
  /\ path' = added' \o WithoutBlock(read, added)

(* ... or SetEnvironmentVariable fails, and it throws.                     *)
UpdateFails == behind' = TRUE /\ UNCHANGED <<path, added>>

-----------------------------------------------------------------------------
(* Add and Remove                                                          *)

(* Mutant: the wrong side of the packages of the same rank is searched for *)
InsertAfterFirst(rank, prepend) ==
  LET same == {i \in DOMAIN graph : rank <= graph[i].rank}
  IN IF same = {} THEN Len(graph) + 1 ELSE Min(same) + (IF prepend THEN 0 ELSE 1)

InsertionPoint(rank, prepend) ==
  LET stops == {i \in DOMAIN graph :
                  \/ rank < graph[i].rank
                  \/ prepend /\ rank = graph[i].rank}
  IN IF stops = {} THEN Len(graph) + 1 ELSE Min(stops)

(* WinRTModuleManager::Insert, at the same index as the node               *)
InsertWinRT(i) ==
  winrt' = InsertAt(winrt, IF i <= Len(winrt) THEN i ELSE Len(winrt) + 1,
                    lastContext')

(* The node and its WinRT package are in place when UpdatePath begins.     *)
AddNode(id, p, rank, prepend) ==
  LET i == InsertionPoint(rank, prepend)
  IN /\ lastContext' = lastContext + 1
     /\ graph' = InsertAt(graph, i, [context |-> lastContext', id |-> id,
                                     package |-> p, rank |-> rank])
     /\ InsertWinRT(i)
     /\ read' = path
     /\ UNCHANGED <<dirs, path, added, behind, generation>>

(* Its end, and AddDllDirectory.  If one of them fails, the caller has no  *)
(* context and the generation stays.                                       *)
AddToDllSearchOrder(context, ok) ==
  /\ UpdatePath \/ (~ok /\ UpdateFails)
  /\ dirs' = IF ok THEN dirs \union {context} ELSE dirs
  /\ generation' = IF ok THEN generation + 1 ELSE generation
  /\ UNCHANGED <<graph, winrt, read, lastContext>>

(* The first node with the context                                         *)
NodeOf(context) == Min({i \in DOMAIN graph : graph[i].context = context})

(* The node and its cookies go; the WinRT package stays.                   *)
RemoveNode(context) ==
  /\ context \in Contexts
  /\ graph' = RemoveAt(graph, NodeOf(context))
  /\ dirs' = dirs \ {context}
  /\ read' = path
  /\ UNCHANGED <<winrt, path, added, behind, lastContext, generation>>

(* The end of UpdatePath.  Its failure is thrown past the new generation.  *)
RemoveFromDllSearchOrder(ok) ==
  /\ IF ok THEN UpdatePath ELSE UpdateFails
  /\ generation' = IF ok THEN generation + 1 ELSE generation
  /\ UNCHANGED <<graph, winrt, dirs, read, lastContext>>
=============================================================================
