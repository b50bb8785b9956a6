----------------------- MODULE RedirectionRequestQueue -----------------------
(***************************************************************************)
(* The queue of redirection requests of one instance: a linked list in     *)
(* shared memory (src/dev/AppLifecycle/RedirectionRequestQueue.h), written *)
(* one field at a time under the instance's m_dataMutex.  Each request is  *)
(* enqueued by a coroutine of its own, named here by the request's id; the *)
(* instance itself dequeues.  A redirecting process may end at any of the  *)
(* steps named in CrashPoints: the mutex is then abandoned, and the next   *)
(* one to wait for it takes it and goes on with the memory as it is.       *)
(***************************************************************************)
EXTENDS Naturals, Sequences

CONSTANTS
  Guids,        (* the GUIDs of the requests                               *)
  NoGuid,       (* GUID_NULL                                               *)
  Nobody,       (* no holder of the mutex                                  *)
  Dequeuer,     (* the instance the queue belongs to                       *)
  ViewItems,    (* how many items fit in the mapped view                   *)
  BoundItems,   (* from which index on AllocateItem throws E_OUTOFMEMORY   *)
  CrashPoints   (* the steps of Enqueue at which the process may end       *)

ASSUME GuidsAssumption == NoGuid \notin Guids
ASSUME HolderAssumption ==
  Nobody \notin Guids \union {Dequeuer} /\ Dequeuer \notin Guids
ASSUME SizeAssumption == ViewItems \in Nat /\ BoundItems \in Nat

VARIABLES
  mutex,        (* who holds m_dataMutex                                   *)
  head,         (* the offset of the first item, 0 when there is none      *)
  inUse, next, guid,   (* the fields of each QueueItem                     *)
  at,           (* where each Enqueue is                                   *)
  newItem, cur, (* its locals                                              *)
  reader,       (* where Dequeue is                                        *)
  taken,        (* its local "head"                                        *)
  returned,     (* history: what Dequeue returned                          *)
  chain,        (* history: the items linked and not dequeued, in order    *)
  torn          (* history: a process ended between linking and finishing  *)

items     == <<head, inUse, next, guid>>
locals    == <<newItem, cur>>
queueVars == <<mutex, items, at, locals, reader, taken, returned, chain, torn>>

Offsets == 1..ViewItems       (* an item is named by its position          *)
Points  == {"idle", "allocate", "walk", "head", "mark", "fill", "clear"}
Linking == {"mark", "fill", "clear"}

QueueTypeOK ==
  /\ mutex \in Guids \union {Nobody, Dequeuer}
  /\ head \in Offsets \union {0}
  /\ inUse \in [Offsets -> BOOLEAN]
  /\ next \in [Offsets -> Offsets \union {0}]
  /\ guid \in [Offsets -> Guids \union {NoGuid}]
  /\ at \in [Guids -> Points \union {"queued", "full", "fault", "ended"}]
  /\ newItem \in [Guids -> Offsets \union {0}]
  /\ cur \in [Guids -> Offsets \union {0}]
  /\ reader \in {"idle", "head", "release", "unlink", "read"}
  /\ taken \in Offsets \union {0}
  /\ returned \in Seq(Guids \union {NoGuid})
  /\ chain \in Seq(Offsets)
  /\ torn \in BOOLEAN

QueueInit ==
  /\ mutex = Nobody
  /\ head = 0
  /\ inUse = [o \in Offsets |-> FALSE]
  /\ next = [o \in Offsets |-> 0]
  /\ guid = [o \in Offsets |-> NoGuid]
  /\ at = [id \in Guids |-> "idle"]
  /\ newItem = [id \in Guids |-> 0]
  /\ cur = [id \in Guids |-> 0]
  /\ reader = "idle"
  /\ taken = 0
  /\ returned = <<>>
  /\ chain = <<>>
  /\ torn = FALSE

-----------------------------------------------------------------------------
(* Enqueue                                                                 *)

Goto(id, a, b) == at[id] = a /\ at' = [at EXCEPT ![id] = b]

Enter(id) ==
  /\ mutex = Nobody
  /\ mutex' = id
  /\ Goto(id, "idle", "allocate")
  /\ UNCHANGED <<items, locals, reader, taken, returned, chain, torn>>

FirstFree(o) == ~inUse[o] /\ \A p \in 1..(o - 1) : inUse[p]

AllocateItem(id) ==
  /\ \E o \in Offsets :
       FirstFree(o) /\ o <= BoundItems /\ newItem' = [newItem EXCEPT ![id] = o]
  /\ cur' = [cur EXCEPT ![id] = head]
  /\ Goto(id, "allocate", IF head = 0 THEN "head" ELSE "walk")
  /\ UNCHANGED <<mutex, items, reader, taken, returned, chain, torn>>

(* The scan reaches the bound with every item before it in use and throws  *)
(* E_OUTOFMEMORY, or leaves the view before that: the read faults.         *)
AllocateFails(id) ==
  /\ \A o \in Offsets : o <= BoundItems => inUse[o]
  /\ mutex' = Nobody
  /\ Goto(id, "allocate", IF BoundItems <= ViewItems THEN "full" ELSE "fault")
  /\ UNCHANGED <<items, locals, reader, taken, returned, chain, torn>>

Walk(id) ==
  /\ at[id] = "walk" /\ next[cur[id]] # 0
  /\ cur' = [cur EXCEPT ![id] = next[@]]
  /\ UNCHANGED <<mutex, items, at, newItem, reader, taken, returned, chain,
                 torn>>

LinkHead(id) ==
  /\ head' = newItem[id]
  /\ chain' = Append(chain, newItem[id])
  /\ Goto(id, "head", "mark")
  /\ UNCHANGED <<mutex, inUse, next, guid, locals, reader, taken, returned,
                 torn>>

(* Mutant: the item is linked without looking for the last one.            *)
LinkAnywhere(id) ==
  /\ at[id] = "walk"
  /\ next' = [next EXCEPT ![cur[id]] = newItem[id]]
  /\ chain' = Append(chain, newItem[id])
  /\ at' = [at EXCEPT ![id] = "mark"]
  /\ UNCHANGED <<mutex, head, inUse, guid, locals, reader, taken, returned,
                 torn>>

LinkLast(id) ==
  /\ at[id] = "walk" /\ next[cur[id]] = 0
  /\ next' = [next EXCEPT ![cur[id]] = newItem[id]]
  /\ chain' = Append(chain, newItem[id])
  /\ at' = [at EXCEPT ![id] = "mark"]
  /\ UNCHANGED <<mutex, head, inUse, guid, locals, reader, taken, returned,
                 torn>>

(* Mutant: the item stays free.                                            *)
LeaveFree(id) == Goto(id, "mark", "fill") /\
  UNCHANGED <<mutex, items, locals, reader, taken, returned, chain, torn>>

MarkInUse(id) ==
  /\ Goto(id, "mark", "fill")
  /\ inUse' = [inUse EXCEPT ![newItem[id]] = TRUE]
  /\ UNCHANGED <<mutex, head, next, guid, locals, reader, taken, returned,
                 chain, torn>>

FillId(id) ==
  /\ Goto(id, "fill", "clear")
  /\ guid' = [guid EXCEPT ![newItem[id]] = id]
  /\ UNCHANGED <<mutex, head, inUse, next, locals, reader, taken, returned,
                 chain, torn>>

(* Mutant: the new item is linked to the head.                             *)
NextIsHead(id) ==
  /\ Goto(id, "clear", "queued")
  /\ next' = [next EXCEPT ![newItem[id]] = head]
  /\ mutex' = Nobody
  /\ UNCHANGED <<head, inUse, guid, locals, reader, taken, returned, chain,
                 torn>>

ClearNext(id) ==
  /\ Goto(id, "clear", "queued")
  /\ next' = [next EXCEPT ![newItem[id]] = 0]
  /\ mutex' = Nobody
  /\ UNCHANGED <<head, inUse, guid, locals, reader, taken, returned, chain,
                 torn>>

(* The redirecting process ends: its locals and its hold are gone.         *)
Crash(id) ==
  /\ at[id] \in CrashPoints
  /\ at' = [at EXCEPT ![id] = "ended"]
  /\ mutex' = IF mutex = id THEN Nobody ELSE mutex
  /\ torn' = (torn \/ at[id] \in Linking)
  /\ UNCHANGED <<items, locals, reader, taken, returned, chain>>

-----------------------------------------------------------------------------
(* Dequeue                                                                 *)

DequeueEnter ==
  /\ reader = "idle" /\ mutex = Nobody
  /\ mutex' = Dequeuer
  /\ reader' = "head"
  /\ UNCHANGED <<items, at, locals, taken, returned, chain, torn>>

DequeueNothing ==
  /\ reader = "head" /\ head = 0
  /\ mutex' = Nobody
  /\ reader' = "idle"
  /\ UNCHANGED <<items, at, locals, taken, returned, chain, torn>>

MoveHead ==
  /\ reader = "head" /\ head # 0
  /\ taken' = head
  /\ head' = next[head]
  /\ chain' = SubSeq(chain, 2, Len(chain))
  /\ reader' = "release"
  /\ UNCHANGED <<mutex, inUse, next, guid, at, locals, returned, torn>>

ReleaseItem ==
  /\ reader = "release"
  /\ inUse' = [inUse EXCEPT ![taken] = FALSE]
  /\ reader' = "unlink"
  /\ UNCHANGED <<mutex, head, next, guid, at, locals, taken, returned, chain,
                 torn>>

UnlinkItem ==
  /\ reader = "unlink"
  /\ next' = [next EXCEPT ![taken] = 0]
  /\ reader' = "read"
  /\ UNCHANGED <<mutex, head, inUse, guid, at, locals, taken, returned,
                 chain, torn>>

ReadId ==
  /\ reader = "read"
  /\ returned' = Append(returned, guid[taken])
  /\ taken' = 0
  /\ mutex' = Nobody
  /\ reader' = "idle"
  /\ UNCHANGED <<items, at, locals, chain, torn>>

-----------------------------------------------------------------------------
Enqueue(id) ==
  \/ Enter(id) \/ AllocateItem(id) \/ AllocateFails(id)
  \/ Walk(id) \/ LinkHead(id) \/ LinkLast(id)
  \/ MarkInUse(id) \/ FillId(id) \/ ClearNext(id)

Dequeue ==
  \/ DequeueEnter \/ DequeueNothing \/ MoveHead
  \/ ReleaseItem \/ UnlinkItem \/ ReadId

QueueNext == Dequeue \/ \E id \in Guids : Enqueue(id) \/ Crash(id)

QueueSpec == QueueInit /\ [][QueueNext]_queueVars

(* The one who holds the mutex is a thread that can run.                   *)
QueueFairness ==
  WF_queueVars(Dequeue) /\ \A id \in Guids : WF_queueVars(Enqueue(id))
QueueFairSpec == QueueSpec /\ QueueFairness

-----------------------------------------------------------------------------
(* The items that are linked, and those of them that are finished.         *)
Linked     == {chain[i] : i \in DOMAIN chain}
Finishing  == {newItem[id] : id \in {i \in Guids : at[i] \in Linking}}
Unmarked   == {newItem[id] : id \in {i \in Guids : at[i] = "mark"}}
Unreleased == IF reader = "release" THEN {taken} ELSE {}

(* Safety: unless a process ended between linking an item and finishing    *)
(* it, the memory holds the list of the items linked and not dequeued, in  *)
(* order and without a cycle, exactly those items are in use, and every    *)
(* item that is in the list and finished has the id of a request.          *)
(* Enqueue and Dequeue, RedirectionRequestQueue.h:29-74.                   *)
ListIsSound ==
  QueueTypeOK /\ (~torn =>
    /\ head = IF chain = <<>> THEN 0 ELSE chain[1]
    /\ \A i \in DOMAIN chain :
         next[chain[i]] = IF i = Len(chain) THEN 0 ELSE chain[i + 1]
    /\ \A i, j \in DOMAIN chain : chain[i] = chain[j] => i = j
    /\ \A o \in Offsets :
         inUse[o] <=> o \in (Linked \union Unreleased) \ Unmarked
    /\ \A o \in Linked \ Finishing : guid[o] # NoGuid)

(* Refinement: until such an end the queue is the FIFO its users rely on.  *)
(* An id is in it from the last write of its Enqueue, and has been taken   *)
(* from the moment the head moves past it.                                 *)
Pending  == [i \in 1..(Len(chain) - IF Finishing = {} THEN 0 ELSE 1) |->
              guid[chain[i]]]
Returned == IF reader \in {"release", "unlink", "read"}
            THEN Append(returned, guid[taken]) ELSE returned

Fifo == INSTANCE RequestFifo
          WITH Ids <- Guids, pending <- Pending, returned <- Returned
ImplementsFifo == Fifo!Spec

(* Liveness: an Enqueue that has the mutex finishes: unless the list is    *)
(* torn, its walk to the last item comes to an end.                        *)
EnqueueEnds ==
  \A id \in Guids :
    at[id] = "allocate" ~>
      torn \/ at[id] \in {"queued", "full", "fault", "ended"}

=============================================================================
