-------------------------- MODULE SharedProcessList --------------------------
(***************************************************************************)
(* The list of running instances of an app: an array of pids in shared     *)
(* memory (src/dev/AppLifecycle/SharedProcessList.h) that every instance   *)
(* reads and writes under its OWN m_dataMutex (AppInstance.cpp:145, 167,   *)
(* 288, 319), so that operations of different processes interleave slot    *)
(* by slot.  With it the constructor's Insert, GetInstances, RemoveOrphan  *)
(* and the wait that removes an instance when its process ends.  A pid is  *)
(* not given to another process while the model runs.                      *)
(***************************************************************************)
EXTENDS Naturals

CONSTANTS
  Procs,        (* the processes, named by their pids                      *)
  Empty,        (* 0, an empty slot                                        *)
  MaxCount,     (* c_maxInstanceCount                                      *)
  Fragile       (* the processes whose constructor may fail after Insert   *)

ASSUME EmptyAssumption == Empty \notin Procs
ASSUME CountAssumption == MaxCount \in Nat
ASSUME FragileAssumption == Fragile \subseteq Procs

VARIABLES
  slots,        (* the shared array                                        *)
  life,         (* what p's current instance is                            *)
  op,           (* op[p]: the list operation p's mutex is held for         *)
  at,           (* at[p]: the slot it has got to                           *)
  target,       (* target[p]: the pid it inserts or removes                *)
  call,         (* where p's call of GetInstances is                       *)
  pids,         (* pids[p]: the pids it has copied and not yet opened      *)
  opened,       (* opened[p]: the instances it has opened                  *)
  holds,        (* holds[p]: the processes p has an AppInstance object of  *)
  waits,        (* waits[p]: those whose wait has not fired yet            *)
  watched,      (* history: who was listed when p's call began, and still  *)
  raced         (* history: a slot changed between its read and its write  *)

opVars   == <<op, at, target>>
callVars == <<call, pids, opened, watched>>
held     == <<holds, waits>>
vars     == <<slots, life, opVars, callVars, held, raced>>

Slots == 1..MaxCount
Lives == {"new", "constructing", "inserted", "running", "broken", "ended"}
Ops   == {"none", "insert", "insertWrite", "remove", "removeWrite", "copy"}

TypeOK ==
  /\ slots \in [Slots -> Procs \union {Empty}]
  /\ life \in [Procs -> Lives]
  /\ op \in [Procs -> Ops]
  /\ at \in [Procs -> 1..(MaxCount + 1)]
  /\ target \in [Procs -> Procs \union {Empty}]
  /\ call \in [Procs -> {"idle", "copy", "open", "orphan"}]
  /\ pids \in [Procs -> SUBSET Procs]
  /\ opened \in [Procs -> SUBSET Procs]
  /\ holds \in [Procs -> SUBSET Procs]
  /\ waits \in [Procs -> SUBSET Procs]
  /\ watched \in [Procs -> SUBSET Procs]
  /\ raced \in BOOLEAN

Init ==
  /\ slots = [s \in Slots |-> Empty]
  /\ life = [p \in Procs |-> "new"]
  /\ op = [p \in Procs |-> "none"]
  /\ at = [p \in Procs |-> 1]
  /\ target = [p \in Procs |-> Empty]
  /\ call = [p \in Procs |-> "idle"]
  /\ pids = [p \in Procs |-> {}]
  /\ opened = [p \in Procs |-> {}]
  /\ holds = [p \in Procs |-> {}]
  /\ waits = [p \in Procs |-> {}]
  /\ watched = [p \in Procs |-> {}]
  /\ raced = FALSE

-----------------------------------------------------------------------------
Lists(q) == \E s \in Slots : slots[s] = q

(* p's mutex is free, and is taken for an operation on the list.           *)
Begin(p, o, q) ==
  /\ op[p] = "none"
  /\ op' = [op EXCEPT ![p] = o]
  /\ at' = [at EXCEPT ![p] = 1]
  /\ target' = [target EXCEPT ![p] = q]

Finished(p) ==
  /\ op' = [op EXCEPT ![p] = "none"]
  /\ at' = [at EXCEPT ![p] = 1]
  /\ target' = [target EXCEPT ![p] = Empty]

(* p reads one slot and goes on to the next.                               *)
NextSlot(p) ==
  /\ at' = [at EXCEPT ![p] = @ + 1]
  /\ UNCHANGED <<op, target>>

In(p, o)  == op[p] = o /\ at[p] <= MaxCount
Past(p, o) == op[p] = o /\ at[p] > MaxCount

(* p writes v; the slot held what p found there, unless it was overwritten. *)
Write(p, expected, v) ==
  /\ slots' = [slots EXCEPT ![at[p]] = v]
  /\ raced' = (raced \/ slots[at[p]] # expected)
  /\ watched' = [r \in Procs |-> {q \in watched[r] :
                   \E s \in Slots : slots'[s] = q}]
  /\ Finished(p)

-----------------------------------------------------------------------------
(* GetCurrent: the constructor, and Insert                                 *)

GetCurrent(p) ==
  /\ life[p] \in {"new", "broken"}
  /\ Begin(p, "insert", p)
  /\ life' = [life EXCEPT ![p] = "constructing"]
  /\ UNCHANGED <<slots, callVars, held, raced>>

InsertSkips(p) ==
  /\ In(p, "insert") /\ slots[at[p]] \notin {p, Empty}
  /\ NextSlot(p)
  /\ UNCHANGED <<slots, life, callVars, held, raced>>

InsertFindsSlot(p) ==
  /\ In(p, "insert") /\ slots[at[p]] = Empty
  /\ op' = [op EXCEPT ![p] = "insertWrite"]
  /\ UNCHANGED <<slots, life, at, target, callVars, held, raced>>

(* Mutant: the scan goes on after the pid was written.                     *)
InsertWritesOn(p) ==
  /\ op[p] = "insertWrite"
  /\ slots' = [slots EXCEPT ![at[p]] = p]
  /\ op' = [op EXCEPT ![p] = "insert"]
  /\ at' = [at EXCEPT ![p] = @ + 1]
  /\ UNCHANGED <<life, target, callVars, held, raced>>

InsertWrites(p) ==
  /\ op[p] = "insertWrite"
  /\ Write(p, Empty, p)
  /\ life' = [life EXCEPT ![p] = "inserted"]
  /\ UNCHANGED <<call, pids, opened, held>>

(* Mutant: the instance goes on without a slot.                            *)
InsertGivesUp(p) ==
  /\ Past(p, "insert") \/ (In(p, "insert") /\ slots[at[p]] = p)
  /\ Finished(p)
  /\ life' = [life EXCEPT ![p] = "inserted"]
  /\ UNCHANGED <<slots, callVars, held, raced>>

(* E_UNEXPECTED: the pid is there already; E_OUTOFMEMORY: no slot is free. *)
InsertThrows(p) ==
  /\ Past(p, "insert") \/ (In(p, "insert") /\ slots[at[p]] = p)
  /\ Finished(p)
  /\ life' = [life EXCEPT ![p] = "broken"]
  /\ UNCHANGED <<slots, callVars, held, raced>>

(* The last thing the constructor does is to open the redirection queue.   *)
Constructed(p) ==
  /\ life[p] = "inserted"
  /\ life' = [life EXCEPT ![p] = "running"]
  /\ UNCHANGED <<slots, opVars, callVars, held, raced>>

ConstructorThrows(p) ==
  /\ life[p] = "inserted" /\ p \in Fragile
  /\ life' = [life EXCEPT ![p] = "broken"]
  /\ UNCHANGED <<slots, opVars, callVars, held, raced>>

-----------------------------------------------------------------------------
(* Remove, for an orphan or for a process that ended                       *)

RemoveSkips(p) ==
  /\ In(p, "remove") /\ slots[at[p]] # target[p]
  /\ NextSlot(p)
  /\ UNCHANGED <<slots, life, callVars, held, raced>>

RemoveFindsSlot(p) ==
  /\ In(p, "remove") /\ slots[at[p]] = target[p]
  /\ op' = [op EXCEPT ![p] = "removeWrite"]
  /\ UNCHANGED <<slots, life, at, target, callVars, held, raced>>

AfterRemove(p) == call' = [call EXCEPT ![p] = IF @ = "orphan" THEN "open" ELSE @]

RemoveWrites(p) ==
  /\ op[p] = "removeWrite"
  /\ Write(p, target[p], Empty)
  /\ AfterRemove(p)
  /\ UNCHANGED <<life, pids, opened, held>>

RemoveFindsNothing(p) ==
  /\ Past(p, "remove")
  /\ Finished(p)
  /\ AfterRemove(p)
  /\ UNCHANGED <<slots, life, pids, opened, watched, held, raced>>

(* The wait that an AppInstance object of q in p has registered fires,     *)
(* once: WT_EXECUTEONLYONCE.                                               *)
RemoveInstance(p, q) ==
  /\ life[p] = "running"
  /\ q \in waits[p] /\ life[q] = "ended"
  /\ waits' = [waits EXCEPT ![p] = @ \ {q}]
  /\ Begin(p, "remove", q)
  /\ UNCHANGED <<slots, life, callVars, holds, raced>>

-----------------------------------------------------------------------------
(* GetInstances                                                            *)

GetInstances(p) ==
  /\ life[p] = "running" /\ call[p] = "idle"
  /\ Begin(p, "copy", Empty)
  /\ call' = [call EXCEPT ![p] = "copy"]
  /\ watched' = [watched EXCEPT ![p] =
                   {q \in Procs : life[q] = "running" /\ Lists(q)}]
  /\ UNCHANGED <<slots, life, pids, opened, held, raced>>

(* Mutant: the copy ends at the first empty slot.                          *)
CopyUntilEmpty(p) ==
  /\ In(p, "copy")
  /\ pids' = [pids EXCEPT ![p] = @ \union ({slots[at[p]]} \ {Empty})]
  /\ at' = [at EXCEPT ![p] = IF slots[@] = Empty THEN MaxCount + 1 ELSE @ + 1]
  /\ UNCHANGED <<slots, life, op, target, call, opened, watched, held, raced>>

CopySlot(p) ==
  /\ In(p, "copy")
  /\ pids' = [pids EXCEPT ![p] = @ \union ({slots[at[p]]} \ {Empty})]
  /\ NextSlot(p)
  /\ UNCHANGED <<slots, life, call, opened, watched, held, raced>>

CopyEnds(p) ==
  /\ Past(p, "copy")
  /\ Finished(p)
  /\ call' = [call EXCEPT ![p] = "open"]
  /\ UNCHANGED <<slots, life, pids, opened, watched, held, raced>>

(* OpenProcess succeeds on a process that runs, and on one that ended but  *)
(* that an AppInstance object still has a handle to.                       *)
CanOpen(q) ==
  \/ life[q] # "ended"
  \/ \E r \in Procs : life[r] # "ended" /\ q \in holds[r]

(* The constructor of an AppInstance of q waits for q's mutex, which q      *)
(* holds while it is constructed and while it is at the list.              *)
MutexFree(q) == op[q] = "none" /\ life[q] \notin {"constructing", "inserted"}

Opening(p, q) == life[p] = "running" /\ call[p] = "open" /\ q \in pids[p]

(* Mutant: no wait is registered for the process.                          *)
OpenWithoutWait(p, q) ==
  /\ Opening(p, q) /\ CanOpen(q) /\ MutexFree(q)
  /\ pids' = [pids EXCEPT ![p] = @ \ {q}]
  /\ opened' = [opened EXCEPT ![p] = @ \union {q}]
  /\ holds' = [holds EXCEPT ![p] = @ \union ({q} \ {p})]
  /\ UNCHANGED <<slots, life, opVars, call, waits, watched, raced>>

OpenInstance(p, q) ==
  /\ Opening(p, q) /\ CanOpen(q) /\ MutexFree(q)
  /\ pids' = [pids EXCEPT ![p] = @ \ {q}]
  /\ opened' = [opened EXCEPT ![p] = @ \union {q}]
  /\ holds' = [holds EXCEPT ![p] = @ \union ({q} \ {p})]
  /\ waits' = [waits EXCEPT ![p] = @ \union ({q} \ {p})]
  /\ UNCHANGED <<slots, life, opVars, call, watched, raced>>

(* Mutant: any process that is not opened yet is taken for an orphan.      *)
RemoveUnopened(p, q) ==
  /\ Opening(p, q)
  /\ Begin(p, "remove", q)
  /\ pids' = [pids EXCEPT ![p] = @ \ {q}]
  /\ call' = [call EXCEPT ![p] = "orphan"]
  /\ UNCHANGED <<slots, life, opened, watched, held, raced>>

RemoveOrphan(p, q) ==
  /\ Opening(p, q) /\ ~CanOpen(q)
  /\ Begin(p, "remove", q)
  /\ pids' = [pids EXCEPT ![p] = @ \ {q}]
  /\ call' = [call EXCEPT ![p] = "orphan"]
  /\ UNCHANGED <<slots, life, opened, watched, held, raced>>

ReturnInstances(p) ==
  /\ life[p] = "running" /\ call[p] = "open" /\ pids[p] = {}
  /\ call' = [call EXCEPT ![p] = "idle"]
  /\ opened' = [opened EXCEPT ![p] = {}]
  /\ watched' = [watched EXCEPT ![p] = {}]
  /\ UNCHANGED <<slots, life, opVars, pids, held, raced>>

ReleaseInstances(p) ==
  /\ life[p] = "running" /\ call[p] = "idle" /\ holds[p] # {}
  /\ holds' = [holds EXCEPT ![p] = {}]
  /\ waits' = [waits EXCEPT ![p] = {}]
  /\ UNCHANGED <<slots, life, opVars, callVars, raced>>

(* p ends, at any step; the list goes with the last process that maps it.  *)
Terminate(p) ==
  /\ life[p] \notin {"new", "ended"}
  /\ life' = [life EXCEPT ![p] = "ended"]
  /\ slots' = IF \A q \in Procs \ {p} : life[q] \in {"new", "ended"}
              THEN [s \in Slots |-> Empty] ELSE slots
  /\ Finished(p)
  /\ call' = [call EXCEPT ![p] = "idle"]
  /\ pids' = [pids EXCEPT ![p] = {}]
  /\ opened' = [opened EXCEPT ![p] = {}]
  /\ holds' = [holds EXCEPT ![p] = {}]
  /\ waits' = [waits EXCEPT ![p] = {}]
  /\ watched' = [r \in Procs |-> IF r = p THEN {} ELSE watched[r] \ {p}]
  /\ UNCHANGED raced

-----------------------------------------------------------------------------
ListStep(p) ==
  \/ InsertSkips(p) \/ InsertFindsSlot(p) \/ InsertWrites(p) \/ InsertThrows(p)
  \/ RemoveSkips(p) \/ RemoveFindsSlot(p) \/ RemoveWrites(p) \/ RemoveFindsNothing(p)
  \/ CopySlot(p) \/ CopyEnds(p)

CallStep(p) ==
  \/ \E q \in Procs : OpenInstance(p, q) \/ RemoveOrphan(p, q)
  \/ ReturnInstances(p)

Next ==
  \E p \in Procs :
    \/ GetCurrent(p) \/ Constructed(p) \/ ConstructorThrows(p)
    \/ GetInstances(p) \/ ReleaseInstances(p) \/ Terminate(p)
    \/ ListStep(p) \/ CallStep(p)
    \/ \E q \in Procs : RemoveInstance(p, q)

Spec == Init /\ [][Next]_vars

(* A thread that holds its mutex can run, and a wait whose process has     *)
(* ended is called by the thread pool.  The mutex a callback waits for is  *)
(* its own process's, which gives waiting threads their turn.              *)
FairSpec ==
  /\ Spec
  /\ \A p \in Procs : WF_vars(ListStep(p)) /\ WF_vars(CallStep(p))
  /\ \A p, q \in Procs : SF_vars(RemoveInstance(p, q))

-----------------------------------------------------------------------------
(* "GetInstances returns all running instances of the app": every running  *)
(* instance is in the list.                                                *)
RunningIsListed == \A p \in Procs : life[p] = "running" => Lists(p)

(* Safety: a running instance is missing from the list only if some slot   *)
(* was written by two processes, one over the other.  Orphans and ended    *)
(* instances are removed without touching the others, whatever ends when.  *)
(* SharedProcessList.h:21-46 under the mutexes of AppInstance.cpp.         *)
OnlyRacesLoseInstances == ~raced => RunningIsListed

(* The inductive invariant behind it: an instance has its pid in the list  *)
(* from Insert on, and what is about to be removed is a process that ended. *)
ListInv ==
  /\ TypeOK
  /\ \A p \in Procs : op[p] \in {"insertWrite", "removeWrite"} => at[p] \in Slots
  /\ \A p \in Procs : op[p] \in {"insert", "insertWrite"} =>
       life[p] = "constructing" /\ target[p] = p
  /\ \A p \in Procs : op[p] \in {"remove", "removeWrite"} =>
       target[p] \in Procs /\ life[target[p]] = "ended"
  /\ \A p \in Procs : life[p] \in {"new", "ended"} => op[p] = "none"
  /\ ~raced => \A p \in Procs : life[p] \in {"inserted", "running"} => Lists(p)

(* Safety: without such a race a pid has one slot, except that of a        *)
(* process whose constructor failed after Insert and ran again.            *)
ListedOnce ==
  ~raced => \A s, t \in Slots :
    slots[s] = slots[t] /\ slots[s] \notin Fragile \union {Empty} => s = t

(* Safety: GetInstances returns every instance that was running and listed *)
(* when it began and still is, although it copies the list slot by slot    *)
(* while other processes write it and opens the pids afterwards.           *)
(* AppInstance.cpp:278-326.                                                *)
CallIsComplete ==
  [][\A p \in Procs : ReturnInstances(p) => watched[p] \subseteq opened[p]]_vars

(* Liveness: when an instance ends that another one holds an AppInstance   *)
(* of, its pid leaves the list, unless the other ends or lets go of it.    *)
(* onInstanceTerminated, AppInstance.cpp:151-159.                          *)
EndedIsRemoved ==
  \A p, q \in Procs :
    life[p] = "running" /\ q \in holds[p] /\ life[q] = "ended"
      ~> ~Lists(q) \/ life[p] # "running" \/ q \notin holds[p]

=============================================================================
