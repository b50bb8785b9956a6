-------------------------- MODULE RedirectionProofs --------------------------
(***************************************************************************)
(* Proofs about RedirectionRequestQueue, for any requests, any size of the *)
(* view and any steps at which a process may end: the memory holds a sound *)
(* list, and the list implements RequestFifo, until the queue is torn.     *)
(* Then, from the second half on, proofs about Redirection, whose queues   *)
(* are that FIFO until they are torn, for any instances and any requests.  *)
(***************************************************************************)
EXTENDS Redirection, RedirectionRequestQueue, SequenceTheorems, TLAPS

Busy    == {"allocate", "walk", "head"} \union Linking
Holding == {"walk", "head"} \union Linking
Taking  == {"release", "unlink", "read"}

(* Who is inside Enqueue or Dequeue has the mutex, so there is one.        *)
HolderIsInside ==
  /\ \A i \in Guids : at[i] \in Busy <=> mutex = i
  /\ reader # "idle" <=> mutex = Dequeuer

(* The locals name items where they are used.                              *)
LocalsAreItems ==
  /\ \A i \in Guids : at[i] \in Holding => newItem[i] \in Offsets
  /\ \A i \in Guids : at[i] = "walk" => cur[i] \in Offsets
  /\ reader \in Taking => taken \in Offsets

(* The list is in order, and an item outside of it is linked to nothing.   *)
ChainIsLinked ==
  /\ head = IF chain = <<>> THEN 0 ELSE chain[1]
  /\ \A i \in DOMAIN chain :
       next[chain[i]] = IF i = Len(chain) THEN 0 ELSE chain[i + 1]
  /\ \A i, j \in DOMAIN chain : chain[i] = chain[j] => i = j
  /\ \A o \in Offsets \ Linked :
       next[o] = 0 \/ (reader \in {"release", "unlink"} /\ o = taken)
  /\ reader \in Taking => taken \notin Linked

(* What an Enqueue in progress has found, and what it has linked.          *)
NewItemFits ==
  \A i \in Guids :
    /\ at[i] \in {"walk", "head"} =>
         newItem[i] \notin Linked /\ ~inUse[newItem[i]]
    /\ at[i] = "head" => chain = <<>>
    /\ at[i] = "walk" => cur[i] \in Linked
    /\ at[i] \in Linking => chain # <<>> /\ newItem[i] = chain[Len(chain)]
    /\ at[i] = "clear" => guid[newItem[i]] = i

UseIsKnown ==
  \A o \in Offsets : inUse[o] <=> o \in (Linked \union Unreleased) \ Unmarked

(* A finished item has the id of a request that was queued, and so has     *)
(* what was returned.                                                      *)
WasQueued(i) == i \in Guids /\ at[i] \in {"queued", "ended"}
IdsWereQueued ==
  /\ \A o \in Linked \ Finishing : WasQueued(guid[o])
  /\ reader \in Taking => WasQueued(guid[taken])
  /\ \A k \in DOMAIN returned : WasQueued(returned[k])

QueueInv ==
  /\ QueueTypeOK /\ HolderIsInside /\ LocalsAreItems
  /\ ~torn => ChainIsLinked /\ NewItemFits /\ UseIsKnown /\ IdsWereQueued

-----------------------------------------------------------------------------
(* What linking an item and moving the head do to the chain.               *)
LEMMA AppendItem ==
  ASSUME NEW S, NEW s \in Seq(S), NEW e \in S
  PROVE  LET t == Append(s, e) IN
         /\ t \in Seq(S) /\ t # <<>> /\ Len(t) = Len(s) + 1
         /\ DOMAIN t = 1..Len(t) /\ DOMAIN s = 1..Len(s) /\ Len(s) \in Nat
         /\ \A i \in 1..Len(s) : t[i] = s[i] /\ s[i] \in S
         /\ t[Len(t)] = e /\ (s = <<>> <=> Len(s) = 0)
OBVIOUS

(* MoveHead drops the first item of the chain.                             *)
LEMMA FirstIsRemoved ==
  ASSUME NEW S, NEW s \in Seq(S), s # <<>>
  PROVE  LET t == SubSeq(s, 2, Len(s)) IN
         /\ t \in Seq(S) /\ Len(t) = Len(s) - 1 /\ Len(s) \in Nat \ {0}
         /\ DOMAIN t = 1..Len(t) /\ DOMAIN s = 1..Len(s)
         /\ \A i \in 1..Len(s) : s[i] \in S
         /\ \A i \in 1..Len(t) : t[i] = s[i + 1]
         /\ (t = <<>> <=> Len(t) = 0)
<1> DEFINE t == SubSeq(s, 2, Len(s))
<1>1. /\ Len(s) \in Nat \ {0} /\ DOMAIN s = 1..Len(s)
      /\ \A i \in 1..Len(s) : s[i] \in S
  OBVIOUS
<1>2. \A i \in 2..Len(s) : s[i] \in S
  BY <1>1
<1>3. /\ t \in Seq(S)
      /\ Len(t) = IF 2 <= Len(s) THEN Len(s) - 2 + 1 ELSE 0
      /\ \A i \in 1..(Len(s) - 2 + 1) : t[i] = s[2 + i - 1]
  BY <1>1, <1>2, SubSeqProperties
<1> HIDE DEF t
<1>4. /\ DOMAIN t = 1..Len(t)
      /\ (t = <<>> <=> Len(t) = 0)
  BY <1>3
<1>5. Len(t) = Len(s) - 1
  <2>1. Len(s) = 1 \/ 2 <= Len(s)
    BY <1>1
  <2>2. CASE Len(s) = 1
    BY <1>3, <2>2
  <2>3. CASE 2 <= Len(s)
    BY <1>1, <1>3, <2>3
  <2>4. QED
    BY <2>1, <2>2, <2>3
<1>6. ASSUME NEW i \in 1..Len(t) PROVE t[i] = s[i + 1]
  <2>1. i \in 1..(Len(s) - 2 + 1) /\ 2 + i - 1 = i + 1
    BY <1>1, <1>5
  <2>2. QED
    BY <1>3, <2>1
<1>7. QED
  BY <1>1, <1>3, <1>4, <1>5, <1>6 DEF t

(* What is left of the chain is a sequence of items again.                 *)
LEMMA RestIsSeq ==
  ASSUME NEW S, NEW s \in Seq(S)
  PROVE  SubSeq(s, 2, Len(s)) \in Seq(S)
<1>1. Len(s) \in Nat /\ \A i \in 2..Len(s) : s[i] \in S
  OBVIOUS
<1>2. QED
  BY <1>1, SubSeqProperties

(* Every step keeps the types.                                             *)
LEMMA QueueTypeInvariant ==
  QueueTypeOK /\ LocalsAreItems /\ [QueueNext]_queueVars => QueueTypeOK'
<1> SUFFICES ASSUME QueueTypeOK, LocalsAreItems, [QueueNext]_queueVars
             PROVE  QueueTypeOK'
  OBVIOUS
<1> USE DEF QueueTypeOK, items, locals, Goto, Points, Linking, Offsets
<1>1. ASSUME NEW i \in Guids, Enqueue(i) PROVE QueueTypeOK'
  <2>1. CASE Enter(i)
    BY <2>1 DEF Enter
  <2>2. CASE AllocateItem(i)
    BY <2>2 DEF AllocateItem
  <2>3. CASE AllocateFails(i)
    BY <2>3 DEF AllocateFails
  <2>4. CASE Walk(i)
    BY <2>4 DEF Walk, LocalsAreItems
  <2>5. CASE LinkHead(i)
    BY <2>5 DEF LinkHead, LocalsAreItems, Holding
  <2>6. CASE LinkLast(i)
    BY <2>6 DEF LinkLast, LocalsAreItems, Holding
  <2>7. CASE MarkInUse(i)
    BY <2>7 DEF MarkInUse
  <2>8. CASE FillId(i)
    BY <2>8 DEF FillId
  <2>9. CASE ClearNext(i)
    BY <2>9 DEF ClearNext
  <2>10. QED
    BY <1>1, <2>1, <2>2, <2>3, <2>4, <2>5, <2>6, <2>7, <2>8, <2>9 DEF Enqueue
<1>2. ASSUME NEW i \in Guids, Crash(i) PROVE QueueTypeOK'
  BY <1>2 DEF Crash
<1>3. CASE Dequeue
  <2>1. CASE MoveHead
    <3>1. head \in Offsets
      BY <2>1 DEF MoveHead
    <3>2. SubSeq(chain, 2, Len(chain)) \in Seq(Offsets)
      BY RestIsSeq
    <3>3. QED
      BY <2>1, <3>1, <3>2 DEF MoveHead
  <2>2. CASE ReadId
    BY <2>2 DEF ReadId, LocalsAreItems, Taking
  <2>3. CASE DequeueEnter \/ DequeueNothing \/ ReleaseItem \/ UnlinkItem
    BY <2>3 DEF DequeueEnter, DequeueNothing, ReleaseItem, UnlinkItem
  <2>4. QED
    BY <1>3, <2>1, <2>2, <2>3 DEF Dequeue
<1>4. CASE UNCHANGED queueVars
  BY <1>4 DEF queueVars
<1>5. QED
  BY <1>1, <1>2, <1>3, <1>4 DEF QueueNext

(* Enter and DequeueEnter wait for the mutex, and every way out gives it   *)
(* back.                                                                   *)
LEMMA HolderInvariant ==
  QueueTypeOK /\ HolderIsInside /\ [QueueNext]_queueVars => HolderIsInside'
<1> SUFFICES ASSUME QueueTypeOK, HolderIsInside, [QueueNext]_queueVars
             PROVE  HolderIsInside'
  OBVIOUS
<1> USE HolderAssumption DEF QueueTypeOK, HolderIsInside, Goto, Busy, Linking
<1>1. ASSUME NEW i \in Guids, Enqueue(i) PROVE HolderIsInside'
  <2>1. CASE Enter(i)
    BY <2>1 DEF Enter
  <2>2. CASE AllocateItem(i) \/ Walk(i) \/ LinkHead(i) \/ LinkLast(i)
             \/ MarkInUse(i) \/ FillId(i)
    BY <2>2 DEF AllocateItem, Walk, LinkHead, LinkLast, MarkInUse, FillId
  <2>3. CASE AllocateFails(i) \/ ClearNext(i)
    BY <2>3 DEF AllocateFails, ClearNext
  <2>4. QED
    BY <1>1, <2>1, <2>2, <2>3 DEF Enqueue
<1>2. ASSUME NEW i \in Guids, Crash(i) PROVE HolderIsInside'
  BY <1>2 DEF Crash
<1>3. CASE Dequeue
  BY <1>3 DEF Dequeue, DequeueEnter, DequeueNothing, MoveHead, ReleaseItem,
     UnlinkItem, ReadId
<1>4. CASE UNCHANGED queueVars
  BY <1>4 DEF queueVars
<1>5. QED
  BY <1>1, <1>2, <1>3, <1>4 DEF QueueNext

(* The locals name items where Enqueue and Dequeue use them.               *)
LEMMA LocalsInvariant ==
  QueueTypeOK /\ HolderIsInside /\ LocalsAreItems /\ [QueueNext]_queueVars
    => LocalsAreItems'
<1> SUFFICES ASSUME QueueTypeOK, HolderIsInside, LocalsAreItems,
                    [QueueNext]_queueVars
             PROVE  LocalsAreItems'
  OBVIOUS
<1> USE DEF QueueTypeOK, LocalsAreItems, Goto, Holding, Taking, Linking,
            Offsets
<1>1. ASSUME NEW i \in Guids, Enqueue(i) PROVE LocalsAreItems'
  <2>1. CASE AllocateItem(i)
    BY <2>1 DEF AllocateItem
  <2>2. CASE Walk(i)
    BY <2>2 DEF Walk, items
  <2>3. CASE Enter(i) \/ AllocateFails(i)
    BY <2>3 DEF Enter, AllocateFails, locals, items
  <2>4. CASE LinkHead(i) \/ LinkLast(i) \/ MarkInUse(i) \/ FillId(i)
             \/ ClearNext(i)
    BY <2>4 DEF LinkHead, LinkLast, MarkInUse, FillId, ClearNext, locals
  <2>5. QED
    BY <1>1, <2>1, <2>2, <2>3, <2>4 DEF Enqueue
<1>2. ASSUME NEW i \in Guids, Crash(i) PROVE LocalsAreItems'
  BY <1>2 DEF Crash, locals
<1>3. CASE Dequeue
  BY <1>3 DEF Dequeue, DequeueEnter, DequeueNothing, MoveHead, ReleaseItem,
     UnlinkItem, ReadId, locals
<1>4. CASE UNCHANGED queueVars
  BY <1>4 DEF queueVars, locals
<1>5. QED
  BY <1>1, <1>2, <1>3, <1>4 DEF QueueNext

(* The set of the linked items follows the chain.                          *)
LEMMA LinkedAppend ==
  ASSUME NEW e \in Offsets, chain \in Seq(Offsets), chain' = Append(chain, e)
  PROVE  Linked' = Linked \union {e}
<1>1. /\ Len(chain) \in Nat /\ DOMAIN chain = 1..Len(chain)
      /\ DOMAIN chain' = 1..(Len(chain) + 1) /\ chain'[Len(chain) + 1] = e
      /\ \A k \in 1..Len(chain) : chain'[k] = chain[k]
  BY AppendItem
<1>2. \A o : o \in Linked' <=> \E k \in 1..(Len(chain) + 1) : chain'[k] = o
  BY <1>1 DEF Linked
<1>3. \A o : o \in Linked <=> \E k \in 1..Len(chain) : chain[k] = o
  BY <1>1 DEF Linked
<1>4. QED
  BY <1>1, <1>2, <1>3

(* MoveHead takes one item out of it.                                      *)
LEMMA LinkedRemove ==
  ASSUME chain \in Seq(Offsets), chain # <<>>,
         chain' = SubSeq(chain, 2, Len(chain)),
         \A i, j \in DOMAIN chain : chain[i] = chain[j] => i = j
  PROVE  Linked' = Linked \ {chain[1]} /\ chain[1] \in Linked
<1> DEFINE n == Len(chain)
           rest == chain'
<1>1. /\ n \in Nat \ {0} /\ DOMAIN chain = 1..n
      /\ DOMAIN rest = 1..(n - 1)
      /\ \A k \in 1..(n - 1) : rest[k] = chain[k + 1]
  BY FirstIsRemoved
<1> HIDE DEF n, rest
<1>2. \A o : o \in Linked' <=> \E k \in 1..(n - 1) : rest[k] = o
  BY <1>1 DEF Linked, rest
<1>3. \A o : o \in Linked <=> \E k \in 1..n : chain[k] = o
  BY <1>1 DEF Linked
<1>4. \A k \in 1..n : chain[k] = chain[1] <=> k = 1
  BY <1>1
<1>5. \A k \in 1..(n - 1) : k + 1 \in 1..n /\ k + 1 # 1
  BY <1>1
<1>6. Linked' \subseteq Linked \ {chain[1]}
  BY <1>1, <1>2, <1>3, <1>4, <1>5
<1>7. ASSUME NEW o \in Linked \ {chain[1]} PROVE o \in Linked'
  <2>1. PICK k \in 1..n : chain[k] = o
    BY <1>3
  <2>2. k # 1
    BY <1>7, <2>1
  <2>3. k - 1 \in 1..(n - 1)
    BY <1>1, <2>2
  <2>4. rest[k - 1] = o
    BY <1>1, <2>1, <2>3
  <2>5. QED
    BY <1>2, <2>3, <2>4
<1>8. chain[1] \in Linked
  BY <1>1, <1>3
<1>9. QED
  BY <1>6, <1>7, <1>8

(* The offset 0 stands for no item.                                        *)
LEMMA ItemsAreNotZero == 0 \notin Offsets
BY SizeAssumption DEF Offsets

(* The mutex keeps everybody else outside.                                 *)
LEMMA AloneInside ==
  ASSUME QueueTypeOK, HolderIsInside
  PROVE  /\ \A i \in Guids : at[i] \in Busy =>
              reader = "idle" /\ \A j \in Guids \ {i} : at[j] \notin Busy
         /\ reader # "idle" => \A i \in Guids : at[i] \notin Busy
BY HolderAssumption DEF HolderIsInside, QueueTypeOK

(* Dequeue runs alone, and leaves Enqueue's locals alone.                  *)
LEMMA DequeueAlone ==
  ASSUME QueueTypeOK, HolderIsInside, Dequeue
  PROVE  at' = at /\ locals' = locals /\ \A i \in Guids : at[i] \notin Busy
<1>1. at' = at /\ locals' = locals
  BY DEF Dequeue, DequeueEnter, DequeueNothing, MoveHead, ReleaseItem,
     UnlinkItem, ReadId
<1>2. reader # "idle" \/ mutex = Nobody
  BY DEF Dequeue, DequeueEnter, DequeueNothing, MoveHead, ReleaseItem,
     UnlinkItem, ReadId
<1>3. QED
  BY <1>1, <1>2, AloneInside, HolderAssumption DEF HolderIsInside

(* A step that leaves the queue as it should be was made in such a queue.  *)
LEMMA TornStays ==
  ASSUME QueueTypeOK, [QueueNext]_queueVars
  PROVE  torn' \in BOOLEAN /\ (~torn' => torn = FALSE)
BY DEF QueueNext, queueVars, Enqueue, Dequeue, Crash, Enter, AllocateItem,
   AllocateFails, Walk, LinkHead, LinkLast, MarkInUse, FillId, ClearNext,
   DequeueEnter, DequeueNothing, MoveHead, ReleaseItem, UnlinkItem, ReadId,
   QueueTypeOK

(* Unless the queue is torn, a step keeps the order of the list.           *)
LEMMA ChainInvariant ==
  QueueInv /\ [QueueNext]_queueVars /\ ~torn' => ChainIsLinked'
<1> SUFFICES ASSUME QueueInv, [QueueNext]_queueVars, ~torn'
             PROVE  ChainIsLinked'
  OBVIOUS
<1>1. /\ QueueTypeOK /\ HolderIsInside /\ LocalsAreItems
      /\ chain \in Seq(Offsets) /\ Len(chain) \in Nat
      /\ DOMAIN chain = 1..Len(chain)
  BY DEF QueueInv, QueueTypeOK
<1>2. ASSUME NEW i \in Guids, Enqueue(i), ~torn PROVE ChainIsLinked'
  <2> USE DEF Goto
  <2>1. ChainIsLinked /\ NewItemFits
    BY <1>2 DEF QueueInv
  <2>2. at[i] \in Busy =>
          reader = "idle" /\ \A j \in Guids \ {i} : at[j] \notin Busy
    BY <1>1, AloneInside
  <2>3. CASE LinkHead(i)
    <3>1. /\ reader = "idle" /\ chain = <<>> /\ newItem[i] \in Offsets
          /\ next[newItem[i]] = 0
      BY <1>1, <2>1, <2>2, <2>3 DEF LinkHead, ChainIsLinked, NewItemFits,
         LocalsAreItems, Busy, Holding
    <3>2. /\ chain' = <<newItem[i]>> /\ Len(chain') = 1
          /\ DOMAIN chain' = {1} /\ chain'[1] = newItem[i] /\ chain' # <<>>
      BY <2>3, <3>1 DEF LinkHead
    <3>3. /\ head' = newItem[i] /\ next' = next /\ reader' = reader
      BY <2>3 DEF LinkHead
    <3>4. Linked = {}
      BY <3>1 DEF Linked
    <3>5. QED
      BY <1>1, <2>1, <3>1, <3>2, <3>3, <3>4 DEF ChainIsLinked, Linked, Taking
  <2>4. CASE LinkLast(i)
    <3> DEFINE new == newItem[i]
               last == Len(chain)
    <3>1. /\ reader = "idle" /\ new \in Offsets /\ new \notin Linked
          /\ next[new] = 0 /\ cur[i] \in Linked /\ next[cur[i]] = 0
      BY <1>1, <2>1, <2>2, <2>4 DEF LinkLast, ChainIsLinked, NewItemFits,
         LocalsAreItems, Busy, Holding
    <3>2. last \in 1..Len(chain) /\ cur[i] = chain[last]
      <4>1. \A k \in 1..Len(chain) : chain[k] \in Offsets /\ chain[k] # 0
        BY <1>1, ItemsAreNotZero
      <4>2. PICK k \in 1..Len(chain) : cur[i] = chain[k]
        BY <1>1, <3>1 DEF Linked
      <4>3. k = Len(chain)
        <5>1. SUFFICES ASSUME k # Len(chain) PROVE FALSE
          OBVIOUS
        <5>2. Len(chain) \in Nat
          BY <1>1
        <5>3. k + 1 \in 1..Len(chain)
          BY <5>2, <5>1
        <5>4. next[chain[k]] = IF k = Len(chain) THEN 0 ELSE chain[k + 1]
          BY <1>1, <2>1, <4>2 DEF ChainIsLinked
        <5>5. k + 1 \in 1..Len(chain) /\ next[chain[k]] = chain[k + 1]
          BY <5>1, <5>3, <5>4
        <5>6. QED
          BY <3>1, <4>1, <4>2, <5>5
      <4>4. QED
        BY <4>2, <4>3
    <3>3. /\ Len(chain') = last + 1 /\ DOMAIN chain' = 1..(last + 1)
          /\ \A k \in 1..last : chain'[k] = chain[k] /\ chain[k] \in Offsets
          /\ chain'[last + 1] = new /\ chain' # <<>> /\ chain # <<>>
      BY <1>1, <2>4, <3>1, <3>2, AppendItem DEF LinkLast
    <3>4. /\ head' = head /\ reader' = reader /\ torn' = torn
          /\ next' = [next EXCEPT ![cur[i]] = new]
      BY <2>4 DEF LinkLast
    <3>5. next \in [Offsets -> Offsets \union {0}] /\ cur[i] \in Offsets
      BY <1>1, <3>2, <3>3 DEF QueueTypeOK
    <3> HIDE DEF new, last
    <3>6. head' = IF chain' = <<>> THEN 0 ELSE chain'[1]
      BY <1>1, <2>1, <3>2, <3>3, <3>4 DEF ChainIsLinked, last
    <3>7. \A k, l \in DOMAIN chain' : chain'[k] = chain'[l] => k = l
      BY <1>1, <2>1, <3>1, <3>3 DEF ChainIsLinked, Linked, last
    <3>8. ASSUME NEW k \in DOMAIN chain'
          PROVE next'[chain'[k]] = IF k = Len(chain') THEN 0 ELSE chain'[k + 1]
      <4>1. CASE k = last + 1
        <5>1. new # cur[i]
          BY <3>1
        <5>2. QED
          BY <3>1, <3>3, <3>4, <3>5, <4>1, <5>1
      <4>2. CASE k = last
        BY <1>1, <3>1, <3>2, <3>3, <3>4, <3>5, <4>2 DEF last
      <4>3. CASE k # last /\ k # last + 1
        <5>1. k \in 1..last /\ k + 1 \in 1..last /\ k \in DOMAIN chain
          BY <1>1, <3>3, <4>3 DEF last
        <5>2. chain[k] # cur[i] /\ next[chain[k]] = chain[k + 1]
          BY <1>1, <2>1, <3>2, <4>3, <5>1 DEF ChainIsLinked, last
        <5>3. QED
          BY <1>1, <3>3, <3>4, <3>5, <4>3, <5>1, <5>2 DEF last
      <4>4. QED
        BY <4>1, <4>2, <4>3
    <3>9. Linked' = Linked \union {new}
      BY <1>1, <2>4, <3>1, LinkedAppend DEF LinkLast, new
    <3>10. \A o \in Offsets \ Linked' : next'[o] = 0
      BY <2>1, <3>1, <3>4, <3>9, <3>5 DEF ChainIsLinked
    <3>11. QED
      BY <3>1, <3>4, <3>6, <3>7, <3>8, <3>10 DEF ChainIsLinked, Taking
  <2>5. CASE ClearNext(i)
    <3>1. chain # <<>> /\ newItem[i] = chain[Len(chain)]
      BY <2>1, <2>5 DEF ClearNext, NewItemFits, Linking
    <3>2. Len(chain) \in DOMAIN chain
      BY <1>1, <3>1
    <3>3. next[newItem[i]] = 0 /\ newItem[i] \in Offsets
      BY <1>1, <2>1, <3>1, <3>2 DEF ChainIsLinked
    <3>4. next' = next
      BY <1>1, <2>5, <3>3 DEF ClearNext, QueueTypeOK
    <3>5. QED
      BY <2>1, <2>5, <3>4 DEF ClearNext, ChainIsLinked, Linked
  <2>6. CASE Enter(i) \/ AllocateItem(i) \/ AllocateFails(i) \/ Walk(i)
             \/ MarkInUse(i) \/ FillId(i)
    BY <2>1, <2>6 DEF Enter, AllocateItem, AllocateFails, Walk, MarkInUse,
       FillId, items, ChainIsLinked, Linked
  <2>7. QED
    BY <1>2, <2>3, <2>4, <2>5, <2>6 DEF Enqueue
<1>3. ASSUME NEW i \in Guids, Crash(i), ~torn PROVE ChainIsLinked'
  BY <1>3 DEF Crash, QueueInv, ChainIsLinked, items, Linked
<1>4. CASE Dequeue /\ ~torn
  <2>1. ChainIsLinked
    BY <1>4 DEF QueueInv
  <2>2. CASE MoveHead
    <3>1. /\ reader = "head" /\ head # 0 /\ chain # <<>> /\ head = chain[1]
          /\ taken' = head /\ head' = next[head] /\ next' = next
          /\ chain' = SubSeq(chain, 2, Len(chain)) /\ reader' = "release"
      BY <2>1, <2>2 DEF MoveHead, ChainIsLinked
    <3>2. /\ Len(chain') = Len(chain) - 1 /\ Len(chain) \in Nat \ {0}
          /\ DOMAIN chain' = 1..Len(chain')
          /\ \A k \in 1..Len(chain) : chain[k] \in Offsets
          /\ \A k \in 1..Len(chain') : chain'[k] = chain[k + 1]
          /\ (chain' = <<>> <=> Len(chain') = 0)
      BY <1>1, <3>1, FirstIsRemoved
    <3>3. head' = IF chain' = <<>> THEN 0 ELSE chain'[1]
      BY <1>1, <2>1, <3>1, <3>2 DEF ChainIsLinked
    <3>4. \A k \in DOMAIN chain' :
            next'[chain'[k]] = IF k = Len(chain') THEN 0 ELSE chain'[k + 1]
      BY <1>1, <2>1, <3>1, <3>2 DEF ChainIsLinked
    <3>5. \A k, l \in DOMAIN chain' : chain'[k] = chain'[l] => k = l
      BY <1>1, <2>1, <3>1, <3>2 DEF ChainIsLinked
    <3>6. Linked' = Linked \ {taken'}
      BY <1>1, <2>1, <3>1, LinkedRemove DEF ChainIsLinked
    <3>7. \A o \in Offsets \ Linked' :
            next'[o] = 0 \/ (reader' \in {"release", "unlink"} /\ o = taken')
      BY <2>1, <3>1, <3>6 DEF ChainIsLinked
    <3>8. QED
      BY <3>3, <3>4, <3>5, <3>6, <3>7 DEF ChainIsLinked
  <2>3. CASE ReleaseItem
    BY <1>4, <2>3 DEF QueueInv, ReleaseItem, ChainIsLinked, Linked, Taking
  <2>4. CASE UnlinkItem
    <3>1. taken \in Offsets /\ taken \notin Linked
      BY <1>1, <2>1, <2>4 DEF UnlinkItem, LocalsAreItems, ChainIsLinked, Taking
    <3>2. \A k \in DOMAIN chain : chain[k] # taken
      BY <3>1 DEF Linked
    <3>3. QED
      BY <1>1, <2>1, <2>4, <3>1, <3>2
         DEF UnlinkItem, ChainIsLinked, Linked, Taking, QueueTypeOK
  <2>5. CASE DequeueEnter \/ DequeueNothing \/ ReadId
    BY <1>4, <2>5 DEF QueueInv, DequeueEnter, DequeueNothing, ReadId, items,
       ChainIsLinked, Linked, Taking
  <2>6. QED
    BY <1>4, <2>2, <2>3, <2>4, <2>5 DEF Dequeue
<1>5. CASE UNCHANGED queueVars
  BY <1>5 DEF queueVars, items, QueueInv, ChainIsLinked, Linked
<1>6. torn = FALSE
  BY <1>1, TornStays
<1>7. QED
  BY <1>2, <1>3, <1>4, <1>5, <1>6 DEF QueueNext

(* What an Enqueue has found stays as it was, for it has the mutex.        *)
LEMMA NewItemInvariant ==
  QueueInv /\ [QueueNext]_queueVars /\ ~torn' => NewItemFits'
<1> SUFFICES ASSUME QueueInv, [QueueNext]_queueVars, ~torn' PROVE NewItemFits'
  OBVIOUS
<1>1. /\ QueueTypeOK /\ HolderIsInside /\ LocalsAreItems
      /\ chain \in Seq(Offsets) /\ Len(chain) \in Nat
      /\ DOMAIN chain = 1..Len(chain)
      /\ at \in [Guids -> Points \union {"queued", "full", "fault", "ended"}]
  BY DEF QueueInv, QueueTypeOK
<1>2. ~torn /\ ChainIsLinked /\ NewItemFits /\ UseIsKnown
  BY <1>1, TornStays DEF QueueInv
<1>3. ASSUME NEW i \in Guids, Enqueue(i) PROVE NewItemFits'
  <2> USE DEF Goto
  <2>1. at[i] \in Busy =>
          reader = "idle" /\ \A j \in Guids \ {i} : at[j] \notin Busy
    BY <1>1, AloneInside
  <2>2. CASE AllocateItem(i)
    <3>1. PICK o \in Offsets :
            FirstFree(o) /\ newItem' = [newItem EXCEPT ![i] = o]
      BY <2>2 DEF AllocateItem
    <3>2. reader = "idle" /\ Unmarked = {} /\ Unreleased = {}
      BY <2>1, <2>2 DEF AllocateItem, Busy, Linking, Unmarked, Unreleased
    <3>3. ~inUse[o] /\ o \notin Linked
      BY <1>2, <3>1, <3>2 DEF FirstFree, UseIsKnown
    <3>4. head = 0 <=> chain = <<>>
      BY <1>1, <1>2, ItemsAreNotZero DEF ChainIsLinked
    <3>5. head # 0 => head \in Linked
      BY <1>1, <1>2, <3>4 DEF ChainIsLinked, Linked
    <3>6. newItem'[i] = o /\ cur'[i] = head
      BY <1>1, <2>2, <3>1 DEF AllocateItem, QueueTypeOK
    <3>7. at' = [at EXCEPT ![i] = IF head = 0 THEN "head" ELSE "walk"]
      BY <2>2 DEF AllocateItem
    <3>8. \A j \in Guids \ {i} : at'[j] \notin Busy
      BY <1>1, <2>1, <2>2 DEF AllocateItem, Busy
    <3>9. QED
      BY <1>1, <2>2, <3>3, <3>4, <3>5, <3>6, <3>7, <3>8
         DEF AllocateItem, items, NewItemFits, Linked, Busy, Linking
  <2>3. CASE Walk(i)
    <3>1. PICK k \in DOMAIN chain : cur[i] = chain[k]
      BY <1>2, <2>3 DEF Walk, NewItemFits, Linked
    <3>2. next[cur[i]] = IF k = Len(chain) THEN 0 ELSE chain[k + 1]
      BY <1>2, <3>1 DEF ChainIsLinked
    <3>3. k # Len(chain) /\ next[cur[i]] = chain[k + 1]
      BY <2>3, <3>2 DEF Walk
    <3>4. k + 1 \in DOMAIN chain
      <4>1. Len(chain) \in Nat /\ k \in 1..Len(chain)
        BY <1>1
      <4>2. k + 1 \in 1..Len(chain)
        BY <3>3, <4>1
      <4>3. QED
        BY <1>1, <4>2
    <3>5. cur'[i] \in Linked
      BY <1>1, <2>3, <3>3, <3>4 DEF Walk, Linked, QueueTypeOK
    <3>6. QED
      BY <1>2, <2>1, <2>3, <3>5
         DEF Walk, items, NewItemFits, Linked, Busy, Linking
  <2>4. CASE LinkHead(i) \/ LinkLast(i)
    <3>1. newItem[i] \in Offsets /\ chain' = Append(chain, newItem[i])
      BY <1>1, <2>4 DEF LinkHead, LinkLast, LocalsAreItems, Holding
    <3>2. chain' # <<>> /\ chain'[Len(chain')] = newItem[i]
      BY <1>1, <3>1, AppendItem
    <3>3. newItem' = newItem /\ at' = [at EXCEPT ![i] = "mark"]
      BY <2>4 DEF LinkHead, LinkLast, locals
    <3>4. \A j \in Guids \ {i} : at'[j] \notin Busy
      BY <1>1, <2>1, <2>4, <3>3 DEF LinkHead, LinkLast, Busy
    <3>5. QED
      BY <1>1, <3>2, <3>3, <3>4 DEF NewItemFits, Busy, Linking
  <2>5. CASE Enter(i) \/ AllocateFails(i) \/ ClearNext(i)
    <3>1. at'[i] \notin Holding
      BY <1>1, <2>5 DEF Enter, AllocateFails, ClearNext, Holding, Linking
    <3>2. \A j \in Guids \ {i} : at'[j] = at[j]
      BY <1>1, <2>5 DEF Enter, AllocateFails, ClearNext
    <3>3. UNCHANGED <<newItem, cur, inUse, chain, guid>>
      BY <2>5 DEF Enter, AllocateFails, ClearNext, items, locals
    <3>4. QED
      BY <1>2, <3>1, <3>2, <3>3 DEF NewItemFits, Holding, Linking, Linked
  <2>6. CASE MarkInUse(i) \/ FillId(i)
    <3>1. \A j \in Guids \ {i} : at'[j] \notin Busy
      BY <1>1, <2>1, <2>6 DEF MarkInUse, FillId, Busy, Linking
    <3>2. /\ at[i] \in Linking /\ at'[i] \in {"fill", "clear"}
          /\ newItem' = newItem /\ chain' = chain
      BY <1>1, <2>6 DEF MarkInUse, FillId, Linking, locals
    <3>3. at'[i] = "clear" => guid'[newItem[i]] = i
      BY <1>1, <2>6 DEF MarkInUse, FillId, LocalsAreItems, Holding, Linking,
         QueueTypeOK
    <3>4. QED
      BY <1>2, <3>1, <3>2, <3>3 DEF NewItemFits, Busy, Linking
  <2>7. QED
    BY <1>3, <2>2, <2>3, <2>4, <2>5, <2>6 DEF Enqueue
<1>4. ASSUME NEW i \in Guids, Crash(i) PROVE NewItemFits'
  <2>1. at'[i] = "ended" /\ \A j \in Guids \ {i} : at'[j] = at[j]
    BY <1>1, <1>4 DEF Crash
  <2>2. UNCHANGED <<newItem, cur, inUse, chain, guid>>
    BY <1>4 DEF Crash, items, locals
  <2>3. Linked' = Linked
    BY <2>2 DEF Linked
  <2>4. ASSUME NEW j \in Guids
        PROVE  /\ at'[j] \in {"walk", "head"} =>
                    newItem'[j] \notin Linked' /\ ~inUse'[newItem'[j]]
               /\ at'[j] = "head" => chain' = <<>>
               /\ at'[j] = "walk" => cur'[j] \in Linked'
               /\ at'[j] \in Linking =>
                    chain' # <<>> /\ newItem'[j] = chain'[Len(chain')]
               /\ at'[j] = "clear" => guid'[newItem'[j]] = j
    BY <1>2, <2>1, <2>2, <2>3 DEF NewItemFits, Linking
  <2>5. QED
    BY <2>4 DEF NewItemFits
<1>5. CASE Dequeue
  <2>1. \A i \in Guids : at'[i] \notin Busy
    BY <1>1, <1>5, DequeueAlone
  <2>2. QED
    BY <2>1 DEF NewItemFits, Busy, Linking
<1>6. CASE UNCHANGED queueVars
  BY <1>2, <1>6 DEF queueVars, items, locals, NewItemFits, Linked
<1>7. QED
  BY <1>3, <1>4, <1>5, <1>6 DEF QueueNext

(* Exactly the items that are linked are in use, but for the one an        *)
(* Enqueue has not marked yet and the one a Dequeue has not released yet.  *)
LEMMA UseInvariant ==
  QueueInv /\ [QueueNext]_queueVars /\ ~torn' => UseIsKnown'
<1> SUFFICES ASSUME QueueInv, [QueueNext]_queueVars, ~torn' PROVE UseIsKnown'
  OBVIOUS
<1>1. /\ QueueTypeOK /\ HolderIsInside /\ LocalsAreItems
      /\ chain \in Seq(Offsets) /\ Len(chain) \in Nat
      /\ DOMAIN chain = 1..Len(chain)
      /\ at \in [Guids -> Points \union {"queued", "full", "fault", "ended"}]
      /\ inUse \in [Offsets -> BOOLEAN]
  BY DEF QueueInv, QueueTypeOK
<1>2. ~torn /\ ChainIsLinked /\ NewItemFits /\ UseIsKnown
  BY <1>1, TornStays DEF QueueInv
<1>3. ASSUME NEW i \in Guids, Enqueue(i) PROVE UseIsKnown'
  <2> USE DEF Goto
  <2>1. at[i] \in Busy =>
          reader = "idle" /\ \A j \in Guids \ {i} : at[j] \notin Busy
    BY <1>1, AloneInside
  <2>2. CASE LinkHead(i) \/ LinkLast(i)
    <3>1. newItem[i] \in Offsets /\ chain' = Append(chain, newItem[i])
      BY <1>1, <2>2 DEF LinkHead, LinkLast, LocalsAreItems, Holding
    <3>2. Linked' = Linked \union {newItem[i]}
      BY <1>1, <3>1, LinkedAppend
    <3>3. /\ Unmarked = {} /\ Unmarked' = {newItem[i]}
          /\ Unreleased = {} /\ Unreleased' = {} /\ newItem[i] \notin Linked
          /\ inUse' = inUse
      BY <1>1, <1>2, <2>1, <2>2 DEF LinkHead, LinkLast, Unmarked, Unreleased,
         NewItemFits, Busy, Linking, locals
    <3>4. QED
      BY <1>2, <3>2, <3>3 DEF UseIsKnown
  <2>3. CASE MarkInUse(i)
    <3>1. newItem[i] \in Offsets /\ newItem[i] \in Linked
      BY <1>1, <1>2, <2>3 DEF MarkInUse, LocalsAreItems, NewItemFits, Holding,
         Linking, Linked
    <3>2. /\ Unmarked = {newItem[i]} /\ Unmarked' = {}
          /\ Unreleased' = Unreleased /\ Linked' = Linked
      BY <1>1, <2>1, <2>3 DEF MarkInUse, Unmarked, Unreleased, Busy, Linking,
         Linked, locals
    <3>3. inUse' = [inUse EXCEPT ![newItem[i]] = TRUE]
      BY <2>3 DEF MarkInUse
    <3>4. QED
      BY <1>1, <1>2, <3>1, <3>2, <3>3 DEF UseIsKnown
  <2>4. CASE Enter(i) \/ AllocateItem(i) \/ AllocateFails(i) \/ Walk(i)
             \/ FillId(i) \/ ClearNext(i)
    <3>1. \A j \in Guids : at'[j] = "mark" <=> at[j] = "mark"
      BY <1>1, <2>4 DEF Enter, AllocateItem, AllocateFails, Walk, FillId,
         ClearNext
    <3>2. \A j \in Guids : at[j] = "mark" => newItem'[j] = newItem[j]
      BY <1>1, <2>4 DEF Enter, AllocateItem, AllocateFails, Walk, FillId,
         ClearNext, locals, QueueTypeOK
    <3>3. Unmarked' = Unmarked
      BY <3>1, <3>2 DEF Unmarked
    <3>4. Unreleased' = Unreleased /\ Linked' = Linked /\ inUse' = inUse
      BY <2>4 DEF Enter, AllocateItem, AllocateFails, Walk, FillId, ClearNext,
         items, Unreleased, Linked
    <3>5. QED
      BY <1>2, <3>3, <3>4 DEF UseIsKnown
  <2>5. QED
    BY <1>3, <2>2, <2>3, <2>4 DEF Enqueue
<1>4. ASSUME NEW i \in Guids, Crash(i) PROVE UseIsKnown'
  <2>1. at[i] \notin Linking /\ at'[i] = "ended"
        /\ \A j \in Guids \ {i} : at'[j] = at[j]
    BY <1>1, <1>4 DEF Crash
  <2>2. UNCHANGED <<newItem, inUse, chain, reader, taken>>
    BY <1>4 DEF Crash, items, locals
  <2>3. Unmarked' = Unmarked /\ Unreleased' = Unreleased /\ Linked' = Linked
    BY <2>1, <2>2 DEF Unmarked, Unreleased, Linked, Linking
  <2>4. QED
    BY <1>2, <2>2, <2>3 DEF UseIsKnown
<1>5. CASE Dequeue
  <2>1. at' = at /\ newItem' = newItem /\ \A i \in Guids : at[i] \notin Busy
    BY <1>1, <1>5, DequeueAlone DEF locals
  <2>2. Unmarked = {} /\ Unmarked' = {}
    BY <2>1 DEF Unmarked, Busy, Linking
  <2>3. CASE MoveHead
    <3>1. /\ chain # <<>> /\ taken' = chain[1] /\ reader = "head"
          /\ chain' = SubSeq(chain, 2, Len(chain)) /\ reader' = "release"
          /\ inUse' = inUse
      BY <1>2, <2>3 DEF MoveHead, ChainIsLinked
    <3>2. Linked' = Linked \ {chain[1]} /\ chain[1] \in Linked
      BY <1>1, <1>2, <3>1, LinkedRemove DEF ChainIsLinked
    <3>3. Unreleased = {} /\ Unreleased' = {chain[1]}
      BY <3>1 DEF Unreleased
    <3>4. QED
      BY <1>2, <2>2, <3>1, <3>2, <3>3 DEF UseIsKnown
  <2>4. CASE ReleaseItem
    <3>1. taken \in Offsets /\ taken \notin Linked
      BY <1>1, <1>2, <2>4 DEF ReleaseItem, LocalsAreItems, ChainIsLinked,
         Taking
    <3>2. Linked' = Linked /\ Unreleased = {taken} /\ Unreleased' = {}
      BY <2>4 DEF ReleaseItem, Linked, Unreleased
    <3>3. inUse' = [inUse EXCEPT ![taken] = FALSE]
      BY <2>4 DEF ReleaseItem
    <3>4. QED
      BY <1>1, <1>2, <2>2, <3>1, <3>2, <3>3 DEF UseIsKnown
  <2>5. CASE DequeueEnter \/ DequeueNothing \/ UnlinkItem \/ ReadId
    <3>1. Linked' = Linked /\ Unreleased' = Unreleased /\ inUse' = inUse
      BY <2>5 DEF DequeueEnter, DequeueNothing, UnlinkItem, ReadId, items,
         Linked, Unreleased
    <3>2. QED
      BY <1>2, <2>2, <3>1 DEF UseIsKnown
  <2>6. QED
    BY <1>5, <2>3, <2>4, <2>5 DEF Dequeue
<1>6. CASE UNCHANGED queueVars
  BY <1>2, <1>6 DEF queueVars, items, locals, UseIsKnown, Linked, Unreleased,
     Unmarked
<1>7. QED
  BY <1>3, <1>4, <1>5, <1>6 DEF QueueNext

(* A request that was queued stays so.                                     *)
LEMMA QueuedStays ==
  ASSUME QueueTypeOK, [QueueNext]_queueVars, NEW g, WasQueued(g)
  PROVE  WasQueued(g)'
BY DEF QueueTypeOK, WasQueued, QueueNext, queueVars, Enqueue, Dequeue, Crash,
   Goto, Enter,
   AllocateItem, AllocateFails, Walk, LinkHead, LinkLast, MarkInUse, FillId,
   ClearNext, DequeueEnter, DequeueNothing, MoveHead, ReleaseItem, UnlinkItem,
   ReadId

(* Every finished item and every id returned is a request that was queued. *)
LEMMA IdsInvariant ==
  QueueInv /\ [QueueNext]_queueVars /\ ~torn' => IdsWereQueued'
<1> SUFFICES ASSUME QueueInv, [QueueNext]_queueVars, ~torn'
             PROVE  IdsWereQueued'
  OBVIOUS
<1>1. /\ QueueTypeOK /\ HolderIsInside /\ LocalsAreItems
      /\ chain \in Seq(Offsets) /\ Len(chain) \in Nat
      /\ DOMAIN chain = 1..Len(chain)
      /\ at \in [Guids -> Points \union {"queued", "full", "fault", "ended"}]
      /\ guid \in [Offsets -> Guids \union {NoGuid}]
  BY DEF QueueInv, QueueTypeOK
<1>2. ~torn /\ ChainIsLinked /\ NewItemFits /\ IdsWereQueued
  BY <1>1, TornStays DEF QueueInv
<1>3. \A g : WasQueued(g) => WasQueued(g)'
  BY <1>1, QueuedStays
<1>4. ASSUME NEW i \in Guids, Enqueue(i) PROVE IdsWereQueued'
  <2> USE DEF Goto
  <2>1. at[i] \in Busy =>
          reader = "idle" /\ \A j \in Guids \ {i} : at[j] \notin Busy
    BY <1>1, AloneInside
  <2>2. returned' = returned /\ reader' = reader /\ taken' = taken
    BY <1>4 DEF Enqueue, Enter, AllocateItem, AllocateFails, Walk, LinkHead,
       LinkLast, MarkInUse, FillId, ClearNext
  <2>3. at[i] \in Busy => reader \notin Taking
    BY <2>1 DEF Taking
  <2>4. CASE LinkHead(i) \/ LinkLast(i)
    <3>1. newItem[i] \in Offsets /\ chain' = Append(chain, newItem[i])
      BY <1>1, <2>4 DEF LinkHead, LinkLast, LocalsAreItems, Holding
    <3>2. Linked' = Linked \union {newItem[i]}
      BY <1>1, <3>1, LinkedAppend
    <3>3. Finishing = {} /\ Finishing' = {newItem[i]} /\ guid' = guid
      BY <1>1, <2>1, <2>4 DEF LinkHead, LinkLast, Finishing, Busy, Linking,
         locals
    <3>4. reader' \notin Taking
      BY <2>4, <2>2, <2>3 DEF LinkHead, LinkLast, Busy
    <3>5. QED
      BY <1>2, <1>3, <2>2, <3>2, <3>3, <3>4 DEF IdsWereQueued
  <2>5. CASE MarkInUse(i) \/ FillId(i)
    <3>1. Finishing' = {newItem[i]} /\ Finishing = {newItem[i]}
      BY <1>1, <2>1, <2>5 DEF MarkInUse, FillId, Finishing, Busy, Linking,
         locals
    <3>2. Linked' = Linked
      BY <2>5 DEF MarkInUse, FillId, Linked
    <3>3. \A o \in Offsets \ {newItem[i]} : guid'[o] = guid[o]
      BY <1>1, <2>5 DEF MarkInUse, FillId
    <3>4. reader' \notin Taking /\ Linked \subseteq Offsets
      BY <1>1, <2>5, <2>2, <2>3 DEF MarkInUse, FillId, Busy, Linking, Linked
    <3>5. QED
      BY <1>2, <1>3, <2>2, <3>1, <3>2, <3>3, <3>4 DEF IdsWereQueued
  <2>6. CASE ClearNext(i)
    <3>1. Finishing = {newItem[i]} /\ Finishing' = {} /\ guid' = guid
      BY <1>1, <2>1, <2>6 DEF ClearNext, Finishing, Busy, Linking, locals
    <3>2. guid[newItem[i]] = i /\ WasQueued(i)' /\ Linked' = Linked
      BY <1>1, <1>2, <2>6 DEF ClearNext, NewItemFits, WasQueued, Linked
    <3>3. reader' \notin Taking
      BY <2>6, <2>2, <2>3 DEF ClearNext, Busy, Linking
    <3>4. QED
      BY <1>2, <1>3, <2>2, <3>1, <3>2, <3>3 DEF IdsWereQueued
  <2>7. CASE Enter(i) \/ AllocateItem(i) \/ AllocateFails(i) \/ Walk(i)
    <3>1. \A j \in Guids : at'[j] \in Linking <=> at[j] \in Linking
      BY <1>1, <2>7 DEF Enter, AllocateItem, AllocateFails, Walk, Linking
    <3>2. \A j \in Guids : at[j] \in Linking => newItem'[j] = newItem[j]
      BY <1>1, <2>7 DEF Enter, AllocateItem, AllocateFails, Walk, Linking,
         locals, QueueTypeOK
    <3>3. Finishing' = Finishing
      BY <3>1, <3>2 DEF Finishing
    <3>4. Linked' = Linked /\ guid' = guid
      BY <2>7 DEF Enter, AllocateItem, AllocateFails, Walk, items, Linked
    <3>5. QED
      BY <1>2, <1>3, <2>2, <3>3, <3>4 DEF IdsWereQueued
  <2>8. QED
    BY <1>4, <2>4, <2>5, <2>6, <2>7 DEF Enqueue
<1>5. ASSUME NEW i \in Guids, Crash(i) PROVE IdsWereQueued'
  <2>1. at[i] \notin Linking /\ at'[i] = "ended"
        /\ \A j \in Guids \ {i} : at'[j] = at[j]
    BY <1>1, <1>5 DEF Crash
  <2>2. UNCHANGED <<newItem, guid, chain, reader, taken, returned>>
    BY <1>5 DEF Crash, items, locals
  <2>3. Finishing' = Finishing /\ Linked' = Linked
    BY <2>1, <2>2 DEF Finishing, Linked, Linking
  <2>4. QED
    BY <1>2, <1>3, <2>2, <2>3 DEF IdsWereQueued
<1>6. CASE Dequeue
  <2>1. at' = at /\ newItem' = newItem /\ \A i \in Guids : at[i] \notin Busy
    BY <1>1, <1>6, DequeueAlone DEF locals
  <2>2. Finishing = {} /\ Finishing' = {}
    BY <2>1 DEF Finishing, Busy
  <2>3. CASE MoveHead
    <3>1. /\ chain # <<>> /\ taken' = chain[1] /\ guid' = guid
          /\ chain' = SubSeq(chain, 2, Len(chain)) /\ returned' = returned
      BY <1>2, <2>3 DEF MoveHead, ChainIsLinked
    <3>2. Linked' = Linked \ {chain[1]} /\ chain[1] \in Linked
      BY <1>1, <1>2, <3>1, LinkedRemove DEF ChainIsLinked
    <3>3. QED
      BY <1>2, <1>3, <2>2, <3>1, <3>2 DEF IdsWereQueued
  <2>4. CASE ReadId
    <3>1. /\ reader = "read" /\ reader' = "idle" /\ guid' = guid
          /\ Linked' = Linked /\ returned' = Append(returned, guid[taken])
      BY <2>4 DEF ReadId, items, Linked
    <3>2. WasQueued(guid[taken]) /\ guid[taken] \in Guids
      BY <1>2, <3>1 DEF IdsWereQueued, Taking, WasQueued
    <3>3. returned \in Seq(Guids \union {NoGuid})
      BY <1>1 DEF QueueTypeOK
    <3>4. /\ DOMAIN returned = 1..Len(returned) /\ Len(returned) \in Nat
          /\ DOMAIN returned' = 1..(Len(returned) + 1)
          /\ \A k \in 1..Len(returned) : returned'[k] = returned[k]
          /\ returned'[Len(returned) + 1] = guid[taken]
      BY <3>1, <3>2, <3>3, AppendItem
    <3>5. \A k \in DOMAIN returned' : \/ returned'[k] = guid[taken]
                                     \/ /\ k \in DOMAIN returned
                                        /\ returned'[k] = returned[k]
      BY <3>4
    <3>6. QED
      BY <1>2, <1>3, <2>2, <3>1, <3>2, <3>5 DEF IdsWereQueued, Taking
  <2>5. CASE DequeueEnter \/ DequeueNothing \/ ReleaseItem \/ UnlinkItem
    <3>1. /\ Linked' = Linked /\ guid' = guid /\ returned' = returned
          /\ taken' = taken /\ (reader' \in Taking => reader \in Taking)
      BY <2>5 DEF DequeueEnter, DequeueNothing, ReleaseItem, UnlinkItem,
         items, Linked, Taking
    <3>2. QED
      BY <1>2, <1>3, <2>2, <3>1 DEF IdsWereQueued
  <2>6. QED
    BY <1>6, <2>3, <2>4, <2>5 DEF Dequeue
<1>7. CASE UNCHANGED queueVars
  BY <1>2, <1>7 DEF queueVars, items, locals, IdsWereQueued, Linked, Finishing,
     WasQueued
<1>8. QED
  BY <1>4, <1>5, <1>6, <1>7 DEF QueueNext

(* The inductive invariant holds in every state of the queue.              *)
THEOREM QueueInvariant == QueueSpec => []QueueInv
<1>1. QueueInit => QueueInv
  <2> SUFFICES ASSUME QueueInit PROVE QueueInv
    OBVIOUS
  <2>1. QueueTypeOK /\ LocalsAreItems
    <3>1. <<>> \in Seq(Guids \union {NoGuid}) /\ <<>> \in Seq(Offsets)
      OBVIOUS
    <3>2. QED
      BY <3>1 DEF QueueInit, QueueTypeOK, LocalsAreItems, Points, Holding,
         Linking,
         Taking
  <2>2. HolderIsInside
    BY HolderAssumption DEF QueueInit, HolderIsInside, Busy, Linking
  <2>3. Linked = {} /\ Finishing = {} /\ Unmarked = {} /\ Unreleased = {}
    BY DEF QueueInit, Linked, Finishing, Unmarked, Unreleased, Linking
  <2>4. ChainIsLinked /\ NewItemFits /\ UseIsKnown /\ IdsWereQueued
    BY <2>3 DEF QueueInit, ChainIsLinked, NewItemFits, UseIsKnown,
       IdsWereQueued,
       Linking, Taking
  <2>5. QED
    BY <2>1, <2>2, <2>4 DEF QueueInv
<1>2. QueueInv /\ [QueueNext]_queueVars => QueueInv'
  <2> SUFFICES ASSUME QueueInv, [QueueNext]_queueVars PROVE QueueInv'
    OBVIOUS
  <2>1. QueueTypeOK' /\ HolderIsInside' /\ LocalsAreItems'
    BY QueueTypeInvariant, HolderInvariant, LocalsInvariant DEF QueueInv
  <2>2. ~torn' => /\ ChainIsLinked' /\ NewItemFits'
                  /\ UseIsKnown' /\ IdsWereQueued'
    BY ChainInvariant, NewItemInvariant, UseInvariant, IdsInvariant
  <2>3. QED
    BY <2>1, <2>2 DEF QueueInv
<1>3. QED
  BY <1>1, <1>2, PTL DEF QueueSpec

(* Safety, RedirectionRequestQueue.h:29-74: whatever the redirecting       *)
(* processes do, and wherever they end outside of the three writes that    *)
(* finish an item, the memory holds the list of the queued requests.       *)
THEOREM TheListIsSound == QueueSpec => []ListIsSound
<1>1. QueueInv => ListIsSound
  <2> SUFFICES ASSUME QueueInv PROVE ListIsSound
    OBVIOUS
  <2>1. ASSUME ~torn, NEW o \in Linked \ Finishing PROVE guid[o] # NoGuid
    BY <2>1, GuidsAssumption DEF QueueInv, IdsWereQueued, WasQueued
  <2>2. QED
    BY <2>1 DEF QueueInv, ChainIsLinked, UseIsKnown, ListIsSound
<1>2. QED
  BY <1>1, QueueInvariant, PTL

-----------------------------------------------------------------------------
(* The refinement of RequestFifo.                                          *)
Finished == Len(chain) - IF Finishing = {} THEN 0 ELSE 1

(* A function over 1..n is a sequence of n items.                          *)
LEMMA FunctionIsSeq ==
  ASSUME NEW S, NEW n \in Nat, NEW f \in [1..n -> S]
  PROVE  f \in Seq(S) /\ Len(f) = n
<1>1. f \in Seq(S)
  BY SeqDef
<1>2. DOMAIN f = 1..Len(f) /\ Len(f) \in Nat
  BY <1>1, LenProperties
<1>3. DOMAIN f = 1..n
  OBVIOUS
<1>4. QED
  BY <1>1, <1>2, <1>3

(* Every item of the chain but an unfinished last one is in the queue.     *)
LEMMA PendingIsFinished ==
  ASSUME QueueInv, ~torn
  PROVE  /\ Finished \in Nat
         /\ Pending \in Seq(Guids) /\ Len(Pending) = Finished
         /\ Pending \in [1..Finished -> Guids]
         /\ \A k \in 1..Finished :
              /\ Pending[k] = guid[chain[k]] /\ WasQueued(guid[chain[k]])
              /\ k \in DOMAIN chain /\ chain[k] \in Offsets \ Finishing
<1>1. /\ Len(chain) \in Nat /\ DOMAIN chain = 1..Len(chain)
      /\ \A k \in 1..Len(chain) : chain[k] \in Offsets
      /\ chain = <<>> <=> Len(chain) = 0
  BY DEF QueueInv, QueueTypeOK
<1>2. CASE Finishing = {}
  <2>1. Finished = Len(chain)
    BY <1>1, <1>2 DEF Finished
  <2>2. \A k \in 1..Len(chain) : chain[k] \in Linked \ Finishing
    BY <1>1, <1>2 DEF Linked
  <2>3. \A k \in 1..Len(chain) :
          chain[k] \in Offsets \ Finishing /\ WasQueued(guid[chain[k]])
    BY <1>1, <2>2 DEF QueueInv, IdsWereQueued
  <2>4. Pending \in [1..Len(chain) -> Guids]
    BY <1>1, <1>2, <2>3 DEF Pending, WasQueued
  <2>5. QED
    BY <1>1, <1>2, <2>1, <2>3, <2>4, FunctionIsSeq DEF Pending
<1>3. CASE Finishing # {}
  <2> DEFINE n == Len(chain) - 1
  <2>1. PICK i \in Guids : at[i] \in Linking
    BY <1>3 DEF Finishing
  <2>2. \A j \in Guids : at[j] \in Linking => j = i
    BY <2>1, AloneInside DEF QueueInv, Busy
  <2>3. /\ chain # <<>> /\ newItem[i] = chain[Len(chain)]
        /\ Finishing = {newItem[i]}
    BY <2>1, <2>2 DEF QueueInv, NewItemFits, Finishing
  <2>4. Len(chain) \in Nat /\ Len(chain) # 0
    BY <1>1, <2>3
  <2>5. n \in Nat /\ Len(chain) \in 1..Len(chain)
        /\ \A k \in 1..n : k \in 1..Len(chain) /\ k # Len(chain)
    BY <2>4
  <2>6. Finished = n
    BY <1>1, <1>3 DEF Finished
  <2> HIDE DEF n
  <2>7. \A k \in 1..n : chain[k] \in Linked \ Finishing
    BY <1>1, <2>3, <2>5 DEF Linked, QueueInv, ChainIsLinked
  <2>8. \A k \in 1..n :
          chain[k] \in Offsets \ Finishing /\ WasQueued(guid[chain[k]])
    BY <1>1, <2>5, <2>7 DEF QueueInv, IdsWereQueued
  <2>9. Pending = [k \in 1..n |-> guid[chain[k]]]
    BY <1>3 DEF Pending, n
  <2>10. Pending \in [1..n -> Guids]
    BY <2>8, <2>9 DEF WasQueued
  <2>11. QED
    BY <1>1, <2>5, <2>6, <2>8, <2>9, <2>10, FunctionIsSeq
<1>4. QED
  BY <1>2, <1>3

(* A step that keeps the finished items keeps what is pending.             *)
LEMMA PendingStays ==
  ASSUME QueueInv, ~torn, Finished' = Finished,
         \A k \in 1..Finished : guid'[chain'[k]] = guid[chain[k]]
  PROVE  Pending' = Pending
<1>1. Pending = [k \in 1..Finished |-> guid[chain[k]]]
  BY DEF Pending, Finished
<1>2. Pending' = [k \in 1..Finished' |-> guid'[chain'[k]]]
  BY DEF Pending, Finished
<1>3. QED
  BY <1>1, <1>2

(* Every step is one of RequestFifo or changes nothing of it: the last     *)
(* write of an Enqueue puts the request, and Dequeue's first takes it.     *)
LEMMA FifoStep ==
  QueueInv /\ [QueueNext]_queueVars => [Fifo!Next]_(Fifo!fifoVars)
<1> SUFFICES ASSUME QueueInv, [QueueNext]_queueVars
             PROVE  \/ Fifo!Take \/ Fifo!Tear \/ \E i \in Guids : Fifo!Put(i)
                    \/ UNCHANGED <<Pending, Returned, torn>>
  BY DEF Fifo!Next, Fifo!fifoVars
<1>1. /\ QueueTypeOK /\ HolderIsInside /\ LocalsAreItems
      /\ chain \in Seq(Offsets) /\ Len(chain) \in Nat
      /\ DOMAIN chain = 1..Len(chain)
      /\ at \in [Guids -> Points \union {"queued", "full", "fault", "ended"}]
  BY DEF QueueInv, QueueTypeOK
<1>2. CASE torn'
  <2>1. torn' = TRUE
    BY <1>1, <1>2, TornStays
  <2>2. QED
    BY <2>1 DEF Fifo!Tear
<1>3. CASE ~torn'
  <2>1. /\ torn = FALSE /\ ~torn /\ ChainIsLinked /\ NewItemFits
        /\ IdsWereQueued
    BY <1>1, <1>3, TornStays DEF QueueInv
  <2>2. torn' = FALSE
    BY <1>1, <1>3, TornStays
  <2>3. ASSUME NEW i \in Guids, Enqueue(i)
        PROVE  \/ Fifo!Put(i) \/ UNCHANGED <<Pending, Returned, torn>>
    <3> USE DEF Goto
    <3>1. at[i] \in Busy =>
            reader = "idle" /\ \A j \in Guids \ {i} : at[j] \notin Busy
      BY <1>1, AloneInside
    <3>2. /\ returned' = returned /\ reader' = reader /\ taken' = taken
      BY <2>3 DEF Enqueue, Enter, AllocateItem, AllocateFails, Walk, LinkHead,
         LinkLast, MarkInUse, FillId, ClearNext
    <3>3. at[i] \in Busy => Returned' = Returned /\ Returned = returned
      BY <3>1, <3>2 DEF Returned
    <3>4. CASE LinkHead(i) \/ LinkLast(i)
      <4>1. newItem[i] \in Offsets /\ chain' = Append(chain, newItem[i])
        BY <1>1, <3>4 DEF LinkHead, LinkLast, LocalsAreItems, Holding
      <4>2. /\ Len(chain') = Len(chain) + 1
            /\ \A k \in 1..Len(chain) : chain'[k] = chain[k]
        BY <1>1, <4>1, AppendItem
      <4>3. Finishing = {} /\ Finishing' = {newItem[i]} /\ guid' = guid
        BY <1>1, <3>1, <3>4 DEF LinkHead, LinkLast, Finishing, Busy, Linking,
           locals
      <4>4. Finished = Len(chain) /\ Finished' = Finished
        <5>1. Len(chain) \in Nat
          BY <1>1
        <5>2. Finished = Len(chain)
          BY <4>3, <5>1 DEF Finished
        <5>3. Finishing' # {}
          BY <4>3
        <5>4. Finished' = Len(chain') - 1
          BY <5>3 DEF Finished
        <5>5. QED
          BY <4>2, <5>1, <5>2, <5>4
      <4>5. Pending' = Pending
        BY <2>1, <4>2, <4>3, <4>4, PendingStays
      <4>6. QED
        BY <2>1, <2>2, <3>3, <3>4, <4>5 DEF LinkHead, LinkLast, Busy
    <3>5. CASE MarkInUse(i) \/ FillId(i)
      <4>1. Finishing' = {newItem[i]} /\ Finishing = {newItem[i]}
        BY <1>1, <3>1, <3>5 DEF MarkInUse, FillId, Finishing, Busy, Linking,
           locals
      <4>2. chain' = chain
        BY <3>5 DEF MarkInUse, FillId
      <4>3. \A o \in Offsets \ Finishing : guid'[o] = guid[o]
        <5>1. guid \in [Offsets -> Guids \union {NoGuid}]
          BY <1>1 DEF QueueTypeOK
        <5>2. guid' = guid \/ guid' = [guid EXCEPT ![newItem[i]] = i]
          BY <3>5 DEF MarkInUse, FillId
        <5>3. QED
          BY <4>1, <5>1, <5>2
      <4>4. Finished' = Finished
        BY <4>1, <4>2 DEF Finished
      <4>5. \A k \in 1..Finished : guid'[chain'[k]] = guid[chain[k]]
        BY <2>1, <4>2, <4>3, PendingIsFinished
      <4>6. Pending' = Pending
        BY <2>1, <4>4, <4>5, PendingStays
      <4>7. QED
        BY <2>1, <2>2, <3>3, <3>5, <4>6 DEF MarkInUse, FillId, Busy, Linking
    <3>6. CASE ClearNext(i)
      <4>1. /\ Finishing = {newItem[i]} /\ Finishing' = {} /\ guid' = guid
            /\ chain' = chain
        BY <1>1, <3>1, <3>6 DEF ClearNext, Finishing, Busy, Linking, locals
      <4>2. /\ chain # <<>> /\ newItem[i] = chain[Len(chain)]
            /\ guid[newItem[i]] = i /\ ~WasQueued(i)
        BY <1>1, <2>1, <3>6 DEF ClearNext, NewItemFits, Linking, WasQueued
      <4>3. Finished + 1 = Len(chain) /\ Finished' = Len(chain)
        BY <1>1, <4>1, <4>2 DEF Finished
      <4>4. Pending' = [k \in 1..(Finished + 1) |-> guid[chain[k]]]
        BY <4>1, <4>3 DEF Pending, Finished
      <4>5. Pending' = Append(Pending, i)
        <5>1. /\ Append(Pending, i) \in Seq(Guids)
              /\ Len(Append(Pending, i)) = Finished + 1
              /\ \A k \in 1..Finished : Append(Pending, i)[k] = Pending[k]
              /\ Append(Pending, i)[Finished + 1] = i
          BY <2>1, PendingIsFinished, AppendItem
        <5>2. \A k \in 1..(Finished + 1) :
                Append(Pending, i)[k] = guid[chain[k]]
          BY <2>1, <4>2, <4>3, <5>1, PendingIsFinished
        <5>3. Append(Pending, i) \in [1..(Finished + 1) -> Guids]
          BY <5>1, LenProperties
        <5>4. QED
          BY <4>4, <5>2, <5>3
      <4>6. \A k \in DOMAIN Pending : Pending[k] # i
        BY <2>1, <4>2, PendingIsFinished
      <4>7. \A k \in DOMAIN returned : returned[k] # i
        BY <2>1, <4>2 DEF IdsWereQueued
      <4>8. Returned' = Returned /\ Returned = returned
        BY <3>3, <3>6 DEF ClearNext, Busy, Linking
      <4>9. QED
        BY <2>1, <2>2, <4>5, <4>6, <4>7, <4>8 DEF Fifo!Put
    <3>7. CASE Enter(i) \/ AllocateItem(i) \/ AllocateFails(i) \/ Walk(i)
      <4>1. \A j \in Guids : at'[j] \in Linking <=> at[j] \in Linking
        BY <1>1, <3>7 DEF Enter, AllocateItem, AllocateFails, Walk, Linking
      <4>2. Finishing = {} <=> Finishing' = {}
        BY <4>1 DEF Finishing
      <4>3. chain' = chain /\ guid' = guid
        BY <3>7 DEF Enter, AllocateItem, AllocateFails, Walk, items
      <4>4. Pending' = Pending /\ Returned' = Returned
        BY <3>2, <4>2, <4>3 DEF Pending, Returned
      <4>5. QED
        BY <2>1, <2>2, <4>4
    <3>8. QED
      BY <2>3, <3>4, <3>5, <3>6, <3>7 DEF Enqueue
  <2>4. ASSUME NEW i \in Guids, Crash(i)
        PROVE  UNCHANGED <<Pending, Returned, torn>>
    <3>1. at[i] \notin Linking /\ at'[i] = "ended"
          /\ \A j \in Guids \ {i} : at'[j] = at[j]
      BY <1>1, <1>3, <2>4 DEF Crash
    <3>2. UNCHANGED <<newItem, guid, chain, reader, taken, returned>>
      BY <2>4 DEF Crash, items, locals
    <3>3. Finishing' = Finishing
      BY <3>1, <3>2 DEF Finishing, Linking
    <3>4. QED
      BY <2>1, <2>2, <3>2, <3>3 DEF Pending, Returned
  <2>5. ASSUME Dequeue
        PROVE  Fifo!Take \/ UNCHANGED <<Pending, Returned, torn>>
    <3>1. at' = at /\ newItem' = newItem /\ \A i \in Guids : at[i] \notin Busy
      BY <1>1, <2>5, DequeueAlone DEF locals
    <3>2. Finishing = {} /\ Finishing' = {}
      BY <3>1 DEF Finishing, Busy
    <3>3. CASE MoveHead
      <4>1. /\ chain # <<>> /\ taken' = chain[1] /\ guid' = guid
            /\ chain' = SubSeq(chain, 2, Len(chain)) /\ returned' = returned
            /\ reader = "head" /\ reader' = "release"
        BY <2>1, <3>3 DEF MoveHead, ChainIsLinked
      <4>2. /\ Len(chain') = Len(chain) - 1 /\ Len(chain) \in Nat \ {0}
            /\ \A k \in 1..Len(chain') : chain'[k] = chain[k + 1]
        BY <1>1, <4>1, FirstIsRemoved
      <4>3. Finished = Len(chain) /\ Finished' = Len(chain) - 1
        BY <1>1, <3>2, <4>2 DEF Finished
      <4>4. Pending' = [k \in 1..(Finished - 1) |-> guid[chain'[k]]]
        BY <3>2, <4>1, <4>2, <4>3 DEF Pending
      <4>5. /\ Pending \in Seq(Guids) /\ Len(Pending) = Finished
            /\ Finished \in Nat \ {0} /\ Pending # <<>>
        BY <2>1, <4>2, <4>3, PendingIsFinished
      <4>6. Head(Pending) = guid[taken']
        BY <2>1, <4>1, <4>5, PendingIsFinished
      <4>7. Pending' = Tail(Pending)
        <5>1. /\ Tail(Pending) \in Seq(Guids)
              /\ Len(Tail(Pending)) = Finished - 1
              /\ \A k \in 1..(Finished - 1) : Tail(Pending)[k] = Pending[k + 1]
          BY <4>5, HeadTailProperties
        <5>2. \A k \in 1..(Finished - 1) :
                k + 1 \in 1..Finished /\ k \in 1..Len(chain')
          BY <4>2, <4>3, <4>5
        <5>3. \A k \in 1..(Finished - 1) : Tail(Pending)[k] = guid[chain'[k]]
          <6>1. \A k \in 1..Finished : Pending[k] = guid[chain[k]]
            BY <2>1, PendingIsFinished
          <6>2. QED
            BY <4>2, <5>1, <5>2, <6>1
        <5>4. Tail(Pending) \in [1..(Finished - 1) -> Guids]
          BY <5>1, LenProperties
        <5>5. QED
          BY <4>4, <5>3, <5>4
      <4>8. Returned = returned /\ Returned' = Append(returned, guid[taken'])
        BY <4>1 DEF Returned
      <4>9. QED
        BY <2>1, <2>2, <4>5, <4>6, <4>7, <4>8 DEF Fifo!Take
    <3>4. CASE DequeueEnter \/ DequeueNothing \/ ReleaseItem \/ UnlinkItem
               \/ ReadId
      <4>1. chain' = chain /\ guid' = guid
        BY <3>4 DEF DequeueEnter, DequeueNothing, ReleaseItem, UnlinkItem,
           ReadId, items
      <4>2. Pending' = Pending
        BY <3>2, <4>1 DEF Pending
      <4>3. Returned' = Returned
        BY <3>4, <4>1 DEF DequeueEnter, DequeueNothing, ReleaseItem,
           UnlinkItem, ReadId, Returned
      <4>4. QED
        BY <2>1, <2>2, <4>2, <4>3
    <3>5. QED
      BY <2>5, <3>3, <3>4 DEF Dequeue
  <2>6. CASE UNCHANGED queueVars
    BY <2>6 DEF queueVars, items, locals, Pending, Returned, Finishing
  <2>7. QED
    BY <2>3, <2>4, <2>5, <2>6 DEF QueueNext
<1>4. QED
  BY <1>2, <1>3

(* Refinement: the linked list is the FIFO of RequestFifo until a process  *)
(* ends between linking its item and finishing it.                         *)
THEOREM QueueImplementsFifo == QueueSpec => ImplementsFifo
<1>1. QueueInit => Fifo!Init
  <2> SUFFICES ASSUME QueueInit PROVE Fifo!Init
    OBVIOUS
  <2>1. Len(chain) = 0 /\ Finishing = {}
    BY DEF QueueInit, Finishing, Linking
  <2>2. 1..(Len(chain) - IF Finishing = {} THEN 0 ELSE 1) = {}
    BY <2>1
  <2>3. Pending = <<>>
    BY <2>2 DEF Pending
  <2>4. QED
    BY <2>3 DEF QueueInit, Returned, Fifo!Init
<1>2. QED
  BY <1>1, FifoStep, QueueInvariant, PTL
     DEF QueueSpec, ImplementsFifo, Fifo!Spec

-----------------------------------------------------------------------------
(* Redirection                                                             *)

(* What Append and Tail do to the elements of a sequence without           *)
(* repetition.                                                             *)
LEMMA AppendElements ==
  ASSUME NEW S, NEW s \in Seq(S), NEW e \in S
  PROVE  /\ Append(s, e) \in Seq(S)
         /\ ToSet(Append(s, e)) = ToSet(s) \union {e}
         /\ IsInjective(s) /\ e \notin ToSet(s) => IsInjective(Append(s, e))
<1> DEFINE t == Append(s, e)
<1>1. /\ t \in Seq(S) /\ DOMAIN t = 1..(Len(s) + 1) /\ DOMAIN s = 1..Len(s)
      /\ Len(s) \in Nat
  OBVIOUS
<1>2. /\ \A i \in 1..Len(s) : t[i] = s[i]
      /\ t[Len(s) + 1] = e
  OBVIOUS
<1> HIDE DEF t
<1>3. ToSet(t) = ToSet(s) \union {e}
  <2>1. ASSUME NEW x \in ToSet(t) PROVE x \in ToSet(s) \union {e}
    BY <1>1, <1>2 DEF ToSet
  <2>2. e \in ToSet(t)
    BY <1>1, <1>2 DEF ToSet
  <2>3. ASSUME NEW x \in ToSet(s) PROVE x \in ToSet(t)
    BY <1>1, <1>2 DEF ToSet
  <2>4. QED
    BY <2>1, <2>2, <2>3
<1>4. IsInjective(s) /\ e \notin ToSet(s) => IsInjective(t)
  BY <1>1, <1>2 DEF ToSet, IsInjective
<1>5. QED
  BY <1>1, <1>3, <1>4 DEF t

LEMMA TailElements ==
  ASSUME NEW S, NEW s \in Seq(S), s # <<>>
  PROVE  /\ Tail(s) \in Seq(S) /\ Head(s) \in S
         /\ ToSet(s) = ToSet(Tail(s)) \union {Head(s)}
         /\ IsInjective(s) =>
              IsInjective(Tail(s)) /\ Head(s) \notin ToSet(Tail(s))
<1> DEFINE t == Tail(s)
<1>1. /\ t \in Seq(S) /\ DOMAIN t = 1..(Len(s) - 1) /\ DOMAIN s = 1..Len(s)
      /\ Len(s) \in Nat /\ Len(s) > 0 /\ Head(s) = s[1] /\ Head(s) \in S
  OBVIOUS
<1>2. \A i \in 1..(Len(s) - 1) : t[i] = s[i + 1]
  OBVIOUS
<1> HIDE DEF t
<1>3. ToSet(s) = ToSet(t) \union {Head(s)}
  <2>1. ASSUME NEW i \in 1..Len(s) PROVE s[i] \in ToSet(t) \union {Head(s)}
    <3>1. CASE i = 1
      BY <3>1, <1>1
    <3>2. CASE i # 1
      <4>1. i - 1 \in 1..(Len(s) - 1) /\ (i - 1) + 1 = i
        BY <3>2, <1>1
      <4>2. QED
        BY <4>1, <1>1, <1>2 DEF ToSet
    <3>3. QED
      BY <3>1, <3>2
  <2>2. ASSUME NEW i \in 1..(Len(s) - 1) PROVE t[i] \in ToSet(s)
    BY <1>1, <1>2 DEF ToSet
  <2>3. Head(s) \in ToSet(s)
    BY <1>1 DEF ToSet
  <2>4. QED
    BY <1>1, <2>1, <2>2, <2>3 DEF ToSet
<1>4. IsInjective(s) => IsInjective(t)
  <2> SUFFICES ASSUME IsInjective(s),
                      NEW i \in 1..(Len(s) - 1), NEW j \in 1..(Len(s) - 1),
                      t[i] = t[j]
               PROVE  i = j
    BY <1>1 DEF IsInjective
  <2>1. /\ i \in Nat /\ j \in Nat
        /\ i + 1 \in 1..Len(s) /\ j + 1 \in 1..Len(s) /\ s[i + 1] = s[j + 1]
    BY <1>1, <1>2
  <2>2. i + 1 = j + 1
    BY <2>1, <1>1 DEF IsInjective
  <2>3. QED
    BY <2>1, <2>2
<1>5. IsInjective(s) => Head(s) \notin ToSet(t)
  <2> SUFFICES ASSUME IsInjective(s), NEW i \in 1..(Len(s) - 1), t[i] = s[1]
               PROVE  FALSE
    BY <1>1 DEF ToSet
  <2>1. i \in Nat /\ i + 1 \in 1..Len(s) /\ 1 \in 1..Len(s) /\ i + 1 # 1
    BY <1>1
  <2>2. s[i + 1] = s[1]
    BY <1>2
  <2>3. QED
    BY <2>1, <2>2, <1>1 DEF IsInjective
<1>6. QED
  BY <1>1, <1>3, <1>4, <1>5 DEF t

LEMMA ElementsTyped ==
  ASSUME NEW S, NEW s \in Seq(S)
  PROVE  ToSet(s) \subseteq S
BY DEF ToSet

LEMMA EmptyElements == ToSet(<<>>) = {} /\ IsInjective(<<>>)
BY DEF ToSet, IsInjective

(* A process that ends leaves some of the queues it puts ids into broken,  *)
(* and the others as they are.                                             *)
LEMMA EndStep ==
  ASSUME TypeOK, RequestsAreKnown, RequestsAreInFlight, NEW p \in Procs, End(p)
  PROVE  /\ life' = [life EXCEPT ![p] = "ended"]
         /\ broken' \subseteq Procs /\ broken \subseteq broken'
         /\ queue' \in [Procs -> Seq(Ids)]
         /\ \A q \in broken' : queue'[q] = <<>>
         /\ \A q \in Procs : q \notin broken' => queue'[q] = queue[q]
<1>1. PICK Q \in SUBSET EnqueuesTo(p) :
        /\ broken' = broken \union Q
        /\ queue' = [q \in Procs |-> IF q \in Q THEN <<>> ELSE queue[q]]
  BY DEF End
<1>2. Q \subseteq Procs
  BY DEF EnqueuesTo, RequestsAreKnown
<1>3. <<>> \in Seq(Ids)
  OBVIOUS
<1>4. QED
  BY <1>1, <1>2, <1>3 DEF TypeOK, RequestsAreInFlight, End

(* Every step keeps the types.                                             *)
LEMMA TypeInvariant ==
  TypeOK /\ RequestsAreKnown /\ RequestsAreInFlight /\ [Next]_vars => TypeOK'
<1> SUFFICES ASSUME TypeOK, RequestsAreKnown, RequestsAreInFlight, [Next]_vars
             PROVE  TypeOK'
  OBVIOUS
<1> USE DEF TypeOK, Lives, Watching, Sending, InHand
<1>1. ASSUME NEW p \in Procs, Construct(p) PROVE TypeOK'
  BY <1>1 DEF Construct, CreateInstance, InsertInstance, InitQueue, LifeStep,
     reqVars
<1>2. ASSUME NEW p \in Procs, Callback(p) PROVE TypeOK'
  <2> USE DEF Watch, Runs, reqVars
  <2>1. CASE EventFires(p)
    BY <2>1 DEF EventFires
  <2>2. CASE ProcessRedirectionRequests(p)
    BY <2>2 DEF ProcessRedirectionRequests
  <2>3. CASE DequeueRedirectionRequestId(p)
    BY <2>3, TailElements DEF DequeueRedirectionRequestId
  <2>4. CASE Rearm(p)
    BY <2>4 DEF Rearm
  <2>5. CASE OpenRequest(p)
    BY <2>5 DEF OpenRequest
  <2>6. CASE UnmarshalArguments(p)
    BY <2>6 DEF UnmarshalArguments
  <2>7. CASE RaiseActivated(p)
    BY <2>7, AppendElements DEF RaiseActivated, RequestsAreKnown, InHandOf,
        Written
  <2>8. CASE SetCleanupEvent(p)
    BY <2>8 DEF SetCleanupEvent, RequestsAreKnown, InHandOf, Written
  <2>11. CASE DequeueStaleId(p)
    BY <2>11 DEF DequeueStaleId, Written
  <2>9. CASE CallbackThrows(p)
    <3>1. handling[p] \in Ids
      BY <2>9 DEF CallbackThrows, RequestsAreKnown, InHandOf, Written
    <3>2. faults' \subseteq Procs \X Ids
      BY <2>9, <3>1 DEF CallbackThrows
    <3>3. UNCHANGED <<event, watcher, handling, blank, reqVars, cleanup,
                      handled>>
      BY <2>9 DEF CallbackThrows
    <3>4. End(p)
      BY <2>9 DEF CallbackThrows
    <3>5. QED
      BY <3>2, <3>3, <3>4, EndStep
  <2>10. QED
    BY <1>2, <2>1, <2>2, <2>3, <2>4, <2>5, <2>6, <2>7, <2>8, <2>9, <2>11
      DEF Callback
<1>3. ASSUME NEW p \in Procs, Terminate(p) PROVE TypeOK'
  BY <1>3, EndStep DEF Terminate, Runs, reqVars
<1>4. ASSUME NEW id \in Ids, QueueRequest(id) PROVE TypeOK'
  <2> USE DEF Send, procVars
  <2>1. CASE MarshalArguments(id)
    BY <2>1 DEF MarshalArguments
  <2>2. CASE CreateCleanupEvent(id)
    BY <2>2 DEF CreateCleanupEvent
  <2>3. CASE EnqueueRedirectionRequestId(id)
    BY <2>3, AppendElements DEF EnqueueRedirectionRequestId, Put,
        RequestsAreKnown
  <2>4. CASE SignalActivated(id)
    BY <2>4 DEF SignalActivated, RequestsAreKnown
  <2>5. CASE WaitForCleanup(id)
    BY <2>5 DEF WaitForCleanup
  <2>6. QED
    BY <1>4, <2>1, <2>2, <2>3, <2>4, <2>5 DEF QueueRequest
<1>5. ASSUME NEW id \in Ids, NEW p \in Procs, NEW q \in Procs,
             RedirectActivationToAsync(id, p, q)
      PROVE  TypeOK'
  BY <1>5 DEF RedirectActivationToAsync, CanBeOpened, procVars
<1>6. CASE UNCHANGED vars
  BY <1>6 DEF vars, procVars, reqVars
<1>7. QED
  BY <1>1, <1>2, <1>3, <1>4, <1>5, <1>6 DEF Next

(* The requests that are known to anyone have a sender and a target, and   *)
(* what is in a callback's hands was written to its instance's queue.      *)
LEMMA KnownInvariant ==
  TypeOK /\ RequestsAreKnown /\ RequestsAreInFlight /\ [Next]_vars
    => RequestsAreKnown'
<1> SUFFICES ASSUME TypeOK, RequestsAreKnown, RequestsAreInFlight, [Next]_vars
             PROVE  RequestsAreKnown'
  OBVIOUS
<1> USE DEF TypeOK, Lives, Watching, Sending, InHand, RequestsAreKnown,
            InHandOf, Written
<1>1. ASSUME NEW p \in Procs, Construct(p) PROVE RequestsAreKnown'
  <2>1. /\ life[p] \notin {"running", "ended"}
        /\ \A q \in Procs : q # p => life'[q] = life[q]
        /\ UNCHANGED <<watcher, handling, blank, pc, from, to, cleanup>>
    BY <1>1 DEF Construct, CreateInstance, InsertInstance, InitQueue, LifeStep,
       reqVars
  <2>2. \A id \in Ids : pc[id] # "new" =>
          /\ from[id] \in Procs /\ to[id] \in Procs
          /\ life'[from[id]] = life[from[id]] /\ life'[to[id]] = life[to[id]]
    BY <2>1
  <2>3. ASSUME NEW q \in Procs, NEW i \in InHandOf(q)' PROVE i \in Written(q)'
    <3>1. i \in InHandOf(q)
      BY <2>1
    <3>2. i \in Written(q) /\ pc[i] # "new"
      BY <3>1
    <3>3. QED
      BY <3>2, <2>1, <2>2
  <2>4. \A id \in Ids : pc'[id] # "new" =>
          /\ from'[id] \in Procs /\ life'[from'[id]] \in {"running", "ended"}
          /\ to'[id] \in Procs /\ life'[to'[id]] \in {"running", "ended"}
    BY <2>1, <2>2
  <2>5. QED
    BY <2>1, <2>3, <2>4
<1>2. ASSUME NEW p \in Procs, Callback(p) PROVE RequestsAreKnown'
  <2> USE DEF Watch, Runs, reqVars
  <2>1. CASE EventFires(p)
    BY <2>1 DEF EventFires
  <2>2. CASE ProcessRedirectionRequests(p)
    BY <2>2 DEF ProcessRedirectionRequests
  <2>3. CASE DequeueRedirectionRequestId(p)
    <3>1. /\ Head(queue[p]) \in ToSet(queue[p])
          /\ Head(queue[p]) \in Ids
      BY <2>3, TailElements DEF DequeueRedirectionRequestId
    <3>2. to[Head(queue[p])] = p /\ pc[Head(queue[p])] \in {"signal", "wait"}
      BY <3>1 DEF RequestsAreInFlight
    <3>3. QED
      BY <2>3, <3>1, <3>2 DEF DequeueRedirectionRequestId
  <2>4. CASE Rearm(p)
    BY <2>4 DEF Rearm
  <2>5. CASE OpenRequest(p)
    <3>1. /\ watcher[p] = "open" /\ watcher'[p] = "unmarshal"
          /\ blank'[p] = ~HasHandles(handling[p])
          /\ \A q \in Procs : q # p => /\ watcher'[q] = watcher[q]
                                       /\ blank'[q] = blank[q]
          /\ UNCHANGED <<life, handling, pc, from, to, cleanup>>
      BY <2>5 DEF OpenRequest
    <3>2. handling[p] \in Written(p)
      BY <3>1
    <3>3. pc[handling[p]] = "enqueue" => blank'[p]
      BY <3>1, <3>2 DEF HasHandles
    <3>4. \A q \in Procs : InHandOf(q)' = InHandOf(q)
      BY <3>1
    <3>5. QED
      BY <3>1, <3>3, <3>4
  <2>6. CASE UnmarshalArguments(p)
    BY <2>6 DEF UnmarshalArguments
  <2>7. CASE RaiseActivated(p)
    BY <2>7 DEF RaiseActivated
  <2>8. CASE SetCleanupEvent(p)
    BY <2>8 DEF SetCleanupEvent, HasHandles
  <2>11. CASE DequeueStaleId(p)
    BY <2>11 DEF DequeueStaleId
  <2>9. CASE CallbackThrows(p)
    <3>1. /\ life' = [life EXCEPT ![p] = "ended"]
          /\ UNCHANGED <<watcher, handling, blank, pc, from, to, cleanup>>
      BY <2>9 DEF CallbackThrows, End
    <3>2. QED
      BY <3>1
  <2>10. QED
    BY <1>2, <2>1, <2>2, <2>3, <2>4, <2>5, <2>6, <2>7, <2>8, <2>9, <2>11
      DEF Callback
<1>3. ASSUME NEW p \in Procs, Terminate(p) PROVE RequestsAreKnown'
  <2>1. /\ life' = [life EXCEPT ![p] = "ended"]
        /\ UNCHANGED <<watcher, handling, blank, pc, from, to, cleanup>>
    BY <1>3 DEF Terminate, End, reqVars
  <2>2. QED
    BY <2>1
<1>4. ASSUME NEW id \in Ids, QueueRequest(id) PROVE RequestsAreKnown'
  <2>1. /\ pc[id] \in {"marshal", "create", "enqueue", "signal", "wait"}
        /\ pc'[id] \in {"create", "enqueue", "signal", "wait", "done",
                        "failed"}
        /\ pc[id] \in {"enqueue", "signal", "wait"} /\ pc'[id] # "failed" =>
             pc'[id] \in {"signal", "wait", "done"}
        /\ pc'[id] = "failed" => pc[id] = "marshal"
        /\ life[from[id]] = "running"
        /\ pc' = [pc EXCEPT ![id] = pc'[id]]
        /\ UNCHANGED <<life, watcher, handling, blank, from, to, cleanup>>
    BY <1>4 DEF QueueRequest, MarshalArguments, CreateCleanupEvent,
       EnqueueRedirectionRequestId, SignalActivated, WaitForCleanup, Send, procVars
  <2>2. \A i \in Ids : i # id => pc'[i] = pc[i]
    BY <2>1
  <2>3. ASSUME NEW p \in Procs
        PROVE  /\ \A i \in InHandOf(p)' : i \in Written(p)'
               /\ watcher'[p] \in {"raise", "cleanup"} =>
                    pc'[handling'[p]] # "enqueue"
               /\ watcher'[p] = "unmarshal" /\ pc'[handling'[p]] = "enqueue" =>
                    blank'[p]
    <3>1. CASE handling[p] = id /\ watcher[p] \in InHand
      BY <2>1, <3>1
    <3>2. CASE handling[p] # id /\ watcher[p] \in InHand
      BY <2>1, <2>2, <3>2
    <3>3. CASE watcher[p] \notin InHand
      BY <2>1, <3>3
    <3>4. QED
      BY <3>1, <3>2, <3>3
  <2>4. \A i \in cleanup' : pc'[i] \in {"signal", "wait", "done"}
    BY <2>1, <2>2
  <2>5. QED
    BY <2>1, <2>2, <2>3, <2>4
<1>5. ASSUME NEW id \in Ids, NEW p \in Procs, NEW q \in Procs,
             RedirectActivationToAsync(id, p, q)
      PROVE  RequestsAreKnown'
  BY <1>5 DEF RedirectActivationToAsync, CanBeOpened, procVars
<1>6. CASE UNCHANGED vars
  BY <1>6 DEF vars, procVars, reqVars
<1>7. QED
  BY <1>1, <1>2, <1>3, <1>4, <1>5, <1>6 DEF Next

(* A request that is queued or in hand is its instance's own, once, and its *)
(* sender still waits, until the queue is broken.                          *)
LEMMA InFlightInvariant ==
  TypeOK /\ RequestsAreKnown /\ RequestsAreInFlight /\ [Next]_vars
    => RequestsAreInFlight'
<1> SUFFICES ASSUME TypeOK, RequestsAreKnown, RequestsAreInFlight, [Next]_vars
             PROVE  RequestsAreInFlight'
  OBVIOUS
<1> USE DEF TypeOK, Lives, Watching, Sending, InHand, RequestsAreInFlight,
            InHandOf
<1>8. ASSUME NEW p \in Procs, End(p),
             UNCHANGED <<watcher, handling, pc, to, cleanup>>
      PROVE  RequestsAreInFlight'
  <2>1. /\ broken' \subseteq Procs /\ broken \subseteq broken'
        /\ \A q \in broken' : queue'[q] = <<>>
        /\ \A q \in Procs : q \notin broken' => queue'[q] = queue[q]
    BY <1>8, EndStep
  <2>2. QED
    BY <1>8, <2>1, EmptyElements, ElementsTyped
<1>1. ASSUME NEW p \in Procs, Construct(p) PROVE RequestsAreInFlight'
  <2>1. UNCHANGED <<watcher, handling, queue, broken, pc, to, cleanup>>
    BY <1>1 DEF Construct, CreateInstance, InsertInstance, InitQueue, LifeStep,
       reqVars
  <2>2. QED
    BY <2>1, ElementsTyped
<1>2. ASSUME NEW p \in Procs, Callback(p) PROVE RequestsAreInFlight'
  <2> USE DEF Watch, Runs, reqVars
  <2>1. CASE EventFires(p)
    BY <2>1 DEF EventFires
  <2>2. CASE ProcessRedirectionRequests(p)
    BY <2>2 DEF ProcessRedirectionRequests
  <2>3. CASE DequeueRedirectionRequestId(p)
    <3>1. /\ queue[p] # <<>> /\ watcher'[p] = "open"
          /\ handling'[p] = Head(queue[p]) /\ queue'[p] = Tail(queue[p])
          /\ \A q \in Procs : q # p => /\ watcher'[q] = watcher[q]
                                       /\ handling'[q] = handling[q]
                                       /\ queue'[q] = queue[q]
          /\ UNCHANGED <<broken, pc, to, cleanup>>
      BY <2>3 DEF DequeueRedirectionRequestId
    <3>2. /\ ToSet(queue[p]) = ToSet(queue'[p]) \union {handling'[p]}
          /\ IsInjective(queue'[p]) /\ handling'[p] \notin ToSet(queue'[p])
      BY <3>1, TailElements
    <3>3. p \notin broken
      BY <3>1
    <3>4. /\ InHandOf(p)' = {handling'[p]}
          /\ \A q \in Procs : q # p => InHandOf(q)' = InHandOf(q)
      BY <3>1
    <3>5. \A i \in ToSet(queue'[p]) \union {handling'[p]} :
            to[i] = p /\ pc[i] \in {"signal", "wait"} /\ i \notin cleanup
      BY <3>2
    <3> HIDE DEF InHandOf
    <3>6. ASSUME NEW q \in Procs
          PROVE  /\ q \in broken' => queue'[q] = <<>>
                 /\ IsInjective(queue'[q])
                 /\ \A i \in ToSet(queue'[q]) :
                      /\ to'[i] = q /\ pc'[i] \in {"signal", "wait"}
                      /\ i \notin cleanup'
                 /\ q \notin broken' => \A i \in InHandOf(q)' :
                      /\ i \notin ToSet(queue'[q])
                      /\ pc'[i] \in {"signal", "wait"} /\ i \notin cleanup'
      <4>1. CASE q = p
        BY <4>1, <3>1, <3>2, <3>3, <3>4, <3>5
      <4>2. CASE q # p
        <5>1. queue'[q] = queue[q] /\ InHandOf(q)' = InHandOf(q)
          BY <4>2, <3>1, <3>4
        <5>2. QED
          BY <5>1, <3>1
      <4>3. QED
        BY <4>1, <4>2
    <3>7. QED
      BY <3>6
  <2>4. CASE Rearm(p)
    BY <2>4 DEF Rearm
  <2>5. CASE OpenRequest(p)
    BY <2>5 DEF OpenRequest
  <2>6. CASE UnmarshalArguments(p)
    BY <2>6 DEF UnmarshalArguments
  <2>7. CASE RaiseActivated(p)
    BY <2>7 DEF RaiseActivated
  <2>8. CASE SetCleanupEvent(p)
    <3>1. /\ watcher[p] = "cleanup" /\ watcher'[p] = "drain"
          /\ \A q \in Procs : q # p => /\ watcher'[q] = watcher[q]
                                       /\ handling'[q] = handling[q]
          /\ cleanup' = cleanup \union {handling[p]}
          /\ UNCHANGED <<broken, queue, pc, to>>
      BY <2>8 DEF SetCleanupEvent
    <3>2. to[handling[p]] = p /\ handling[p] \in Ids
      BY <3>1 DEF RequestsAreKnown, Written
    <3>3. ASSUME NEW q \in Procs, NEW i \in ToSet(queue[q])
          PROVE  i # handling[p]
      <4>1. CASE q = p
        BY <3>1, <4>1, EmptyElements
      <4>2. CASE q # p
        BY <3>2, <4>2
      <4>3. QED
        BY <4>1, <4>2
    <3>4. ASSUME NEW q \in Procs, NEW i \in InHandOf(q), q # p
          PROVE  i # handling[p]
      BY <3>2, <3>4 DEF RequestsAreKnown, Written
    <3>5. /\ InHandOf(p)' = {}
          /\ \A q \in Procs : q # p => InHandOf(q)' = InHandOf(q)
      BY <3>1
    <3>6. \A q \in Procs : \A i \in ToSet(queue[q]) : i \notin cleanup'
      BY <3>1, <3>3
    <3>7. \A q \in Procs : q \notin broken => \A i \in InHandOf(q)' :
            i \in InHandOf(q) /\ i \notin cleanup'
      BY <3>1, <3>4, <3>5
    <3>8. QED
      BY <3>1, <3>6, <3>7
  <2>11. CASE DequeueStaleId(p)
    BY <2>11 DEF DequeueStaleId
  <2>9. CASE CallbackThrows(p)
    BY <2>9, <1>8 DEF CallbackThrows
  <2>10. QED
    BY <1>2, <2>1, <2>2, <2>3, <2>4, <2>5, <2>6, <2>7, <2>8, <2>9, <2>11
      DEF Callback
<1>3. ASSUME NEW p \in Procs, Terminate(p) PROVE RequestsAreInFlight'
  BY <1>3, <1>8 DEF Terminate, reqVars
<1>4. ASSUME NEW id \in Ids, QueueRequest(id) PROVE RequestsAreInFlight'
  <2> USE DEF Send, procVars
  <2>8. ASSUME pc[id] \in {"marshal", "create", "enqueue"},
               life[from[id]] = "running",
               \A i \in Ids : i # id => pc'[i] = pc[i],
               UNCHANGED <<watcher, handling, queue, broken, to, cleanup>>
        PROVE  RequestsAreInFlight'
    <3>1. ASSUME NEW p \in Procs, NEW i \in ToSet(queue[p])
          PROVE  i \in Ids /\ i # id
      BY <2>8, ElementsTyped
    <3>2. ASSUME NEW p \in Procs, NEW i \in InHandOf(p), p \notin broken
          PROVE  i # id
      BY <2>8, <3>2
    <3>3. ASSUME NEW p \in Procs, NEW i \in InHandOf(p)
          PROVE  i \in Ids
      BY DEF RequestsAreKnown, Written
    <3>4. QED
      BY <2>8, <3>1, <3>2, <3>3
  <2>1. CASE MarshalArguments(id)
    BY <2>1, <2>8 DEF MarshalArguments
  <2>2. CASE CreateCleanupEvent(id)
    BY <2>2, <2>8 DEF CreateCleanupEvent
  <2>3. CASE EnqueueRedirectionRequestId(id)
    <3> DEFINE q == to[id]
    <3>1. /\ pc[id] = "enqueue" /\ pc'[id] = "signal"
          /\ \A i \in Ids : i # id => pc'[i] = pc[i]
          /\ UNCHANGED <<life, watcher, handling, broken, from, to, cleanup>>
      BY <2>3 DEF EnqueueRedirectionRequestId
    <3>2. q \in Procs /\ id \notin cleanup
      BY <3>1 DEF RequestsAreKnown
    <3>3. \A p \in Procs : id \notin ToSet(queue[p])
      BY <3>1
    <3>7. \A p \in Procs : p \notin broken => id \notin InHandOf(p)
      BY <3>1
    <3>8. \A p \in Procs : \A i \in InHandOf(p) : i \in Ids
      BY DEF RequestsAreKnown, Written
    <3>4. /\ q \notin broken =>
               /\ ToSet(queue'[q]) = ToSet(queue[q]) \union {id}
               /\ IsInjective(queue'[q])
          /\ q \in broken => queue'[q] = queue[q]
          /\ \A p \in Procs : p # q => queue'[p] = queue[p]
      BY <2>3, <3>2, <3>3, AppendElements DEF EnqueueRedirectionRequestId, Put
    <3>5. ASSUME NEW p \in Procs
          PROVE  /\ p \in broken' => queue'[p] = <<>>
                 /\ IsInjective(queue'[p])
                 /\ \A i \in ToSet(queue'[p]) :
                      /\ to'[i] = p /\ pc'[i] \in {"signal", "wait"}
                      /\ i \notin cleanup'
                 /\ p \notin broken' => \A i \in InHandOf(p)' :
                      /\ i \notin ToSet(queue'[p])
                      /\ pc'[i] \in {"signal", "wait"} /\ i \notin cleanup'
      <4>1. InHandOf(p)' = InHandOf(p)
        BY <3>1
      <4>2. CASE p = q /\ p \notin broken
        <5>1. /\ ToSet(queue'[p]) = ToSet(queue[p]) \union {id}
              /\ IsInjective(queue'[p])
          BY <4>2, <3>4
        <5>2. \A i \in ToSet(queue[p]) : i \in Ids /\ pc'[i] = pc[i]
          BY <3>1, <3>3, ElementsTyped
        <5>3. \A i \in InHandOf(p) : i # id /\ pc'[i] = pc[i]
          BY <4>2, <3>1, <3>7, <3>8
        <5>4. QED
          BY <4>1, <4>2, <5>1, <5>2, <5>3, <3>1, <3>2
      <4>4. CASE p # q \/ p \in broken
        <5>1. queue'[p] = queue[p]
          BY <4>4, <3>4
        <5>2. \A i \in ToSet(queue[p]) : pc'[i] = pc[i]
          BY <3>1, <3>3, ElementsTyped
        <5>3. p \notin broken => \A i \in InHandOf(p) : pc'[i] = pc[i]
          BY <3>1, <3>7, <3>8
        <5>4. QED
          BY <5>1, <5>2, <5>3, <4>1, <3>1
      <4>5. QED
        BY <4>2, <4>4
    <3> HIDE DEF q
    <3>6. QED
      BY <3>5
  <2>4. CASE SignalActivated(id)
    BY <2>4 DEF SignalActivated
  <2>5. CASE WaitForCleanup(id)
    BY <2>5 DEF WaitForCleanup
  <2>6. QED
    BY <1>4, <2>1, <2>2, <2>3, <2>4, <2>5 DEF QueueRequest
<1>5. ASSUME NEW id \in Ids, NEW p \in Procs, NEW q \in Procs,
             RedirectActivationToAsync(id, p, q)
      PROVE  RequestsAreInFlight'
  BY <1>5, ElementsTyped
    DEF RedirectActivationToAsync, CanBeOpened, procVars, RequestsAreKnown,
        Written
<1>6. CASE UNCHANGED vars
  BY <1>6, ElementsTyped DEF vars, procVars, reqVars
<1>7. QED
  BY <1>1, <1>2, <1>3, <1>4, <1>5, <1>6 DEF Next

(* Nobody can forget a wake-up: the event is reset before the drain, and   *)
(* the drain ends only on an empty queue.                                  *)
LEMMA WakeupInvariant ==
  TypeOK /\ RequestsAreKnown /\ RequestsAreInFlight /\ NoLostWakeup
    /\ [Next]_vars => NoLostWakeup'
<1> SUFFICES ASSUME TypeOK, RequestsAreKnown, RequestsAreInFlight,
                    NoLostWakeup, [Next]_vars
             PROVE  NoLostWakeup'
  OBVIOUS
<1> USE DEF TypeOK, Watching, RequestsAreInFlight, NoLostWakeup, InHandOf, Runs
<1>8. ASSUME NEW p \in Procs, End(p), UNCHANGED <<event, watcher, pc>>
      PROVE  NoLostWakeup'
  <2>1. /\ \A q \in broken' : queue'[q] = <<>>
        /\ \A q \in Procs : q \notin broken' => queue'[q] = queue[q]
        /\ \A q \in Procs : life'[q] = IF q = p THEN "ended" ELSE life[q]
    BY <1>8, EndStep
  <2>2. \A q \in Procs : ToSet(queue'[q]) \subseteq ToSet(queue[q])
    BY <2>1, EmptyElements
  <2>3. QED
    BY <1>8, <2>1, <2>2
<1>1. ASSUME NEW p \in Procs, Construct(p) PROVE NoLostWakeup'
  <2>1. /\ life[p] \notin {"running", "ended"}
        /\ \A q \in Procs : q # p => life'[q] = life[q]
        /\ UNCHANGED <<event, watcher, queue, pc, to>>
    BY <1>1 DEF Construct, CreateInstance, InsertInstance, InitQueue, LifeStep,
       reqVars
  <2>2. ASSUME NEW id \in ToSet(queue[p]) PROVE FALSE
    <3>1. id \in Ids
      BY ElementsTyped
    <3>2. to[id] = p /\ pc[id] # "new"
      BY <3>1
    <3>3. QED
      BY <3>1, <3>2, <2>1 DEF RequestsAreKnown
  <2>3. QED
    BY <2>1, <2>2
<1>2. ASSUME NEW p \in Procs, Callback(p) PROVE NoLostWakeup'
  <2> USE DEF Watch, Runs, reqVars
  <2>1. CASE EventFires(p)
    BY <2>1 DEF EventFires
  <2>2. CASE ProcessRedirectionRequests(p)
    BY <2>2 DEF ProcessRedirectionRequests
  <2>3. CASE DequeueRedirectionRequestId(p)
    BY <2>3, TailElements, ElementsTyped DEF DequeueRedirectionRequestId
  <2>4. CASE Rearm(p)
    BY <2>4, EmptyElements DEF Rearm
  <2>5. CASE OpenRequest(p)
    BY <2>5 DEF OpenRequest
  <2>6. CASE UnmarshalArguments(p)
    BY <2>6 DEF UnmarshalArguments
  <2>7. CASE RaiseActivated(p)
    BY <2>7 DEF RaiseActivated
  <2>8. CASE SetCleanupEvent(p)
    BY <2>8 DEF SetCleanupEvent
  <2>11. CASE DequeueStaleId(p)
    BY <2>11 DEF DequeueStaleId
  <2>9. CASE CallbackThrows(p)
    BY <2>9, <1>8 DEF CallbackThrows
  <2>10. QED
    BY <1>2, <2>1, <2>2, <2>3, <2>4, <2>5, <2>6, <2>7, <2>8, <2>9, <2>11
      DEF Callback
<1>3. ASSUME NEW p \in Procs, Terminate(p) PROVE NoLostWakeup'
  BY <1>3, <1>8 DEF Terminate, reqVars
<1>4. ASSUME NEW id \in Ids, QueueRequest(id) PROVE NoLostWakeup'
  <2> USE DEF Send, procVars
  <2>1. CASE MarshalArguments(id)
    <3>1. /\ pc[id] = "marshal" /\ \A i \in Ids : i # id => pc'[i] = pc[i]
          /\ UNCHANGED <<life, event, watcher, queue>>
      BY <2>1 DEF MarshalArguments
    <3>2. ASSUME NEW p \in Procs, NEW i \in ToSet(queue[p])
          PROVE  pc'[i] = pc[i]
      <4>1. i \in Ids /\ i # id
        BY <3>1, ElementsTyped
      <4>2. QED
        BY <4>1, <3>1
    <3>3. QED
      BY <3>1, <3>2
  <2>2. CASE CreateCleanupEvent(id)
    BY <2>2 DEF CreateCleanupEvent
  <2>3. CASE EnqueueRedirectionRequestId(id)
    BY <2>3, AppendElements, ElementsTyped
      DEF EnqueueRedirectionRequestId, Put, RequestsAreKnown
  <2>4. CASE SignalActivated(id)
    BY <2>4 DEF SignalActivated
  <2>5. CASE WaitForCleanup(id)
    BY <2>5 DEF WaitForCleanup
  <2>6. QED
    BY <1>4, <2>1, <2>2, <2>3, <2>4, <2>5 DEF QueueRequest
<1>5. ASSUME NEW id \in Ids, NEW p \in Procs, NEW q \in Procs,
             RedirectActivationToAsync(id, p, q)
      PROVE  NoLostWakeup'
  BY <1>5 DEF RedirectActivationToAsync, CanBeOpened, procVars
<1>6. CASE UNCHANGED vars
  BY <1>6, ElementsTyped DEF vars, procVars, reqVars
<1>7. QED
  BY <1>1, <1>2, <1>3, <1>4, <1>5, <1>6 DEF Next

(* The instance is told of a request when it has left the queue and before *)
(* its cleanup event is set, and only once.                                *)
LEMMA HandledInvariant ==
  TypeOK /\ RequestsAreKnown /\ RequestsAreInFlight /\ HandledAreKnown
    /\ HandledOnce /\ [Next]_vars
    => (HandledAreKnown /\ HandledOnce)'
<1> SUFFICES ASSUME TypeOK, RequestsAreKnown, RequestsAreInFlight,
                    HandledAreKnown, HandledOnce, [Next]_vars
             PROVE  (HandledAreKnown /\ HandledOnce)'
  OBVIOUS
<1> USE DEF TypeOK, Lives, Watching, Sending, InHand, RequestsAreInFlight,
            InHandOf, HandledAreKnown, HandledOnce, Unraised
<1>8. ASSUME NEW p \in Procs, End(p),
             UNCHANGED <<watcher, handling, pc, to, cleanup, handled>>
      PROVE  (HandledAreKnown /\ HandledOnce)'
  <2>1. /\ broken \subseteq broken'
        /\ \A q \in Procs : q \notin broken' => queue'[q] = queue[q]
    BY <1>8, EndStep
  <2>2. QED
    BY <1>8, <2>1
<1>1. ASSUME NEW p \in Procs, Construct(p)
      PROVE  (HandledAreKnown /\ HandledOnce)'
  BY <1>1 DEF Construct, CreateInstance, InsertInstance, InitQueue, LifeStep,
     reqVars
<1>2. ASSUME NEW p \in Procs, Callback(p)
      PROVE  (HandledAreKnown /\ HandledOnce)'
  <2> USE DEF Watch, Runs, reqVars
  <2>1. CASE EventFires(p)
    BY <2>1 DEF EventFires
  <2>2. CASE ProcessRedirectionRequests(p)
    BY <2>2 DEF ProcessRedirectionRequests
  <2>3. CASE DequeueRedirectionRequestId(p)
    <3>1. /\ queue[p] # <<>> /\ watcher'[p] = "open"
          /\ handling'[p] = Head(queue[p]) /\ queue'[p] = Tail(queue[p])
          /\ \A q \in Procs : q # p => /\ watcher'[q] = watcher[q]
                                       /\ handling'[q] = handling[q]
                                       /\ queue'[q] = queue[q]
          /\ UNCHANGED <<broken, pc, to, cleanup, handled>>
      BY <2>3 DEF DequeueRedirectionRequestId
    <3>2. ToSet(queue[p]) = ToSet(queue'[p]) \union {handling'[p]}
      BY <3>1, TailElements
    <3>3. p \notin broken
      BY <3>1
    <3>4. ToSet(handled[p]) \intersect (ToSet(queue'[p]) \union {handling'[p]}) = {}
      BY <3>2, <3>3
    <3>5. /\ Unraised(p)' = {handling'[p]}
          /\ \A q \in Procs : q # p => Unraised(q)' = Unraised(q)
      BY <3>1
    <3>6. ASSUME NEW q \in Procs, q \notin broken
          PROVE  ToSet(handled'[q])
                   \intersect (ToSet(queue'[q]) \union Unraised(q)') = {}
      <4>1. CASE q = p
        BY <4>1, <3>1, <3>4, <3>5
      <4>2. CASE q # p
        <5>1. ToSet(handled[q]) \intersect (ToSet(queue[q]) \union Unraised(q)) = {}
          BY <3>6
        <5>2. QED
          BY <4>2, <5>1, <3>1, <3>5
      <4>3. QED
        BY <4>1, <4>2
    <3> HIDE DEF Unraised
    <3>7. QED
      BY <3>1, <3>6
  <2>4. CASE Rearm(p)
    BY <2>4 DEF Rearm
  <2>5. CASE OpenRequest(p)
    BY <2>5 DEF OpenRequest
  <2>6. CASE UnmarshalArguments(p)
    BY <2>6 DEF UnmarshalArguments
  <2>7. CASE RaiseActivated(p)
    <3>1. /\ watcher[p] = "raise" /\ watcher'[p] = "cleanup"
          /\ handled'[p] = Append(handled[p], handling[p])
          /\ \A q \in Procs : q # p => /\ watcher'[q] = watcher[q]
                                       /\ handled'[q] = handled[q]
          /\ UNCHANGED <<broken, queue, handling, pc, to, cleanup>>
      BY <2>7 DEF RaiseActivated
    <3>2. /\ handling[p] \in Ids /\ to[handling[p]] = p
          /\ pc[handling[p]] \in {"signal", "wait", "done"}
      BY <3>1 DEF RequestsAreKnown, Written
    <3>3. /\ ToSet(handled'[p]) = ToSet(handled[p]) \union {handling[p]}
          /\ IsInjective(handled[p]) /\ handling[p] \notin ToSet(handled[p]) =>
               IsInjective(handled'[p])
      BY <3>1, <3>2, AppendElements
    <3>4. p \notin broken => /\ handling[p] \notin ToSet(handled[p])
                             /\ handling[p] \notin ToSet(queue[p])
      BY <3>1
    <3>5. ASSUME NEW q \in Procs
          PROVE  /\ \A i \in ToSet(handled'[q]) :
                      /\ to[i] = q /\ pc[i] \in {"signal", "wait", "done"}
                 /\ q \notin broken =>
                      /\ IsInjective(handled'[q])
                      /\ ToSet(handled'[q])
                           \intersect (ToSet(queue[q]) \union Unraised(q)') = {}
                 /\ watcher'[q] = "cleanup" => handling[q] \in ToSet(handled'[q])
                 /\ ToSet(handled[q]) \subseteq ToSet(handled'[q])
      <4>1. CASE q = p
        BY <4>1, <3>1, <3>2, <3>3, <3>4
      <4>2. CASE q # p
        BY <4>2, <3>1
      <4>3. QED
        BY <4>1, <4>2
    <3> HIDE DEF Unraised
    <3>6. QED
      BY <3>1, <3>5
  <2>8. CASE SetCleanupEvent(p)
    BY <2>8 DEF SetCleanupEvent, RequestsAreKnown, Written
  <2>11. CASE DequeueStaleId(p)
    BY <2>11 DEF DequeueStaleId
  <2>9. CASE CallbackThrows(p)
    BY <2>9, <1>8 DEF CallbackThrows
  <2>10. QED
    BY <1>2, <2>1, <2>2, <2>3, <2>4, <2>5, <2>6, <2>7, <2>8, <2>9, <2>11
      DEF Callback
<1>3. ASSUME NEW p \in Procs, Terminate(p)
      PROVE  (HandledAreKnown /\ HandledOnce)'
  BY <1>3, <1>8 DEF Terminate, reqVars
<1>4. ASSUME NEW id \in Ids, QueueRequest(id)
      PROVE  (HandledAreKnown /\ HandledOnce)'
  <2> USE DEF Send, procVars
  <2>1. CASE MarshalArguments(id)
    <3>1. /\ pc[id] = "marshal" /\ pc'[id] # "done"
          /\ \A i \in Ids : i # id => pc'[i] = pc[i]
          /\ UNCHANGED <<watcher, handling, queue, broken, to, handled, cleanup>>
      BY <2>1 DEF MarshalArguments
    <3>2. \A p \in Procs : \A i \in ToSet(handled[p]) :
            i \in Ids /\ pc'[i] = pc[i]
      BY <3>1, ElementsTyped
    <3>3. QED
      BY <3>1, <3>2
  <2>2. CASE CreateCleanupEvent(id)
    BY <2>2 DEF CreateCleanupEvent
  <2>3. CASE EnqueueRedirectionRequestId(id)
    <3>1. /\ pc[id] = "enqueue" /\ pc'[id] = "signal" /\ to[id] \in Procs
          /\ \A i \in Ids : i # id => pc'[i] = pc[i]
          /\ UNCHANGED <<watcher, handling, broken, to, handled, cleanup>>
      BY <2>3 DEF EnqueueRedirectionRequestId, RequestsAreKnown
    <3>2. ASSUME NEW p \in Procs, NEW i \in ToSet(handled[p])
          PROVE  i \in Ids /\ i # id /\ pc'[i] = pc[i]
      <4>1. i \in Ids
        BY ElementsTyped
      <4>2. i # id
        BY <3>1
      <4>3. QED
        BY <4>1, <4>2, <3>1
    <3>3. ASSUME NEW p \in Procs
          PROVE  ToSet(queue'[p]) \subseteq ToSet(queue[p]) \union {id}
      <4>1. CASE p = to[id] /\ p \notin broken
        <5>1. queue'[p] = Append(queue[p], id) /\ queue[p] \in Seq(Ids)
          BY <2>3, <4>1 DEF EnqueueRedirectionRequestId, Put
        <5>2. QED
          BY <5>1, AppendElements
      <4>2. CASE p # to[id] \/ p \in broken
        BY <2>3, <4>2 DEF EnqueueRedirectionRequestId, Put
      <4>3. QED
        BY <4>1, <4>2
    <3>4. ASSUME NEW p \in Procs, p \notin broken
          PROVE  ToSet(handled'[p])
                   \intersect (ToSet(queue'[p]) \union Unraised(p)') = {}
      <4>1. handled'[p] = handled[p] /\ Unraised(p)' = Unraised(p)
        BY <3>1
      <4>2. id \notin ToSet(handled[p])
        BY <3>2
      <4>3. ToSet(handled[p]) \intersect (ToSet(queue[p]) \union Unraised(p)) = {}
        BY <3>4
      <4> HIDE DEF Unraised, HandledAreKnown, RequestsAreInFlight, TypeOK
      <4>4. QED
        BY <4>1, <4>2, <4>3, <3>3
    <3> HIDE DEF RequestsAreInFlight, Unraised
    <3>5. HandledAreKnown'
      BY <3>1, <3>2, <3>4
    <3>6. QED
      BY <3>1, <3>5
  <2>4. CASE SignalActivated(id)
    BY <2>4 DEF SignalActivated
  <2>5. CASE WaitForCleanup(id)
    BY <2>5 DEF WaitForCleanup
  <2>6. QED
    BY <1>4, <2>1, <2>2, <2>3, <2>4, <2>5 DEF QueueRequest
<1>5. ASSUME NEW id \in Ids, NEW p \in Procs, NEW q \in Procs,
             RedirectActivationToAsync(id, p, q)
      PROVE  (HandledAreKnown /\ HandledOnce)'
  <2>1. /\ pc[id] = "new" /\ pc'[id] = "marshal"
        /\ \A i \in Ids : i # id => pc'[i] = pc[i] /\ to'[i] = to[i]
        /\ UNCHANGED <<watcher, handling, queue, broken, handled, cleanup>>
    BY <1>5 DEF RedirectActivationToAsync, procVars
  <2>2. \A r \in Procs : \A i \in ToSet(handled[r]) : i \in Ids /\ i # id
    BY <2>1, ElementsTyped
  <2>3. id \notin cleanup
    BY <2>1
  <2>4. \A i \in Ids : pc'[i] = "done" => pc[i] = "done"
    BY <2>1
  <2>5. QED
    BY <2>1, <2>2, <2>3, <2>4
<1>6. CASE UNCHANGED vars
  BY <1>6, ElementsTyped DEF vars, procVars, reqVars
<1>7. QED
  BY <1>1, <1>2, <1>3, <1>4, <1>5, <1>6 DEF Next

(* A callback throws only over a request whose sender has ended.           *)
LEMMA FaultInvariant ==
  TypeOK /\ RequestsAreKnown /\ RequestsAreInFlight /\ FaultsAreExcused
    /\ FaultOnlyIfSenderEnded /\ [Next]_vars
    => (FaultsAreExcused /\ FaultOnlyIfSenderEnded)'
<1> SUFFICES ASSUME TypeOK, RequestsAreKnown, RequestsAreInFlight,
                    FaultsAreExcused, FaultOnlyIfSenderEnded, [Next]_vars
             PROVE  (FaultsAreExcused /\ FaultOnlyIfSenderEnded)'
  OBVIOUS
<1> USE DEF TypeOK, Lives, Watching, Sending, InHand, RequestsAreKnown,
            InHandOf, Written, FaultsAreExcused, FaultOnlyIfSenderEnded,
            HasHandles
<1>1. ASSUME NEW p \in Procs, Construct(p)
      PROVE  (FaultsAreExcused /\ FaultOnlyIfSenderEnded)'
  <2>1. /\ life[p] \notin {"running", "ended"}
        /\ \A q \in Procs : q # p => life'[q] = life[q]
        /\ UNCHANGED <<watcher, blank, handling, broken, pc, from, faults>>
    BY <1>1 DEF Construct, CreateInstance, InsertInstance, InitQueue, LifeStep,
       reqVars
  <2>2. \A i \in Ids : pc[i] # "new" => life'[from[i]] = life[from[i]]
    BY <2>1
  <2>3. \A q \in Procs : watcher[q] = "unmarshal" =>
          handling[q] \in Ids /\ pc[handling[q]] # "new"
    OBVIOUS
  <2>4. \A f \in faults : f[2] \in Ids /\ pc[f[2]] # "new"
    OBVIOUS
  <2>5. QED
    BY <2>1, <2>2, <2>3, <2>4
<1>2. ASSUME NEW p \in Procs, Callback(p)
      PROVE  (FaultsAreExcused /\ FaultOnlyIfSenderEnded)'
  <2> USE DEF Watch, Runs, reqVars
  <2>1. CASE EventFires(p)
    BY <2>1 DEF EventFires
  <2>2. CASE ProcessRedirectionRequests(p)
    BY <2>2 DEF ProcessRedirectionRequests
  <2>3. CASE DequeueRedirectionRequestId(p)
    BY <2>3 DEF DequeueRedirectionRequestId
  <2>4. CASE Rearm(p)
    BY <2>4 DEF Rearm
  <2>5. CASE OpenRequest(p)
    <3>1. /\ watcher[p] = "open"
          /\ UNCHANGED <<life, handling, broken, pc, from, faults>>
          /\ blank'[p] = ~HasHandles(handling[p])
          /\ \A q \in Procs : q # p =>
               blank'[q] = blank[q] /\ watcher'[q] = watcher[q]
      BY <2>5 DEF OpenRequest
    <3>2. /\ handling[p] \in Ids
          /\ p \notin broken => pc[handling[p]] \in {"signal", "wait"}
      BY <3>1 DEF RequestsAreInFlight
    <3>3. p \notin broken /\ blank'[p] => life[from[handling[p]]] = "ended"
      BY <3>1, <3>2
    <3>7. ASSUME NEW q \in Procs, q \notin broken,
                 watcher'[q] = "unmarshal", blank'[q]
          PROVE  life[from[handling[q]]] = "ended"
      <4>1. CASE q = p
        BY <3>1, <3>3, <3>7, <4>1
      <4>2. CASE q # p
        <5>1. watcher[q] = "unmarshal" /\ blank[q]
          BY <3>1, <3>7, <4>2
        <5>2. QED
          BY <3>7, <5>1
      <4>3. QED
        BY <4>1, <4>2
    <3>4. FaultsAreExcused'
      BY <3>1, <3>7
    <3>5. FaultOnlyIfSenderEnded'
      BY <3>1
    <3>6. QED
      BY <3>4, <3>5
  <2>6. CASE UnmarshalArguments(p)
    BY <2>6 DEF UnmarshalArguments
  <2>7. CASE RaiseActivated(p)
    BY <2>7 DEF RaiseActivated
  <2>8. CASE SetCleanupEvent(p)
    BY <2>8 DEF SetCleanupEvent
  <2>11. CASE DequeueStaleId(p)
    BY <2>11 DEF DequeueStaleId
  <2>9. CASE CallbackThrows(p)
    <3>1. /\ broken' \subseteq Procs /\ broken \subseteq broken'
          /\ \A q \in Procs : life[q] = "ended" => life'[q] = "ended"
          /\ faults' = faults \union {<<p, handling[p]>>}
          /\ UNCHANGED <<watcher, blank, handling, pc, from>>
      BY <2>9, EndStep DEF CallbackThrows
    <3>2. /\ handling[p] \in Ids /\ pc[handling[p]] # "new"
          /\ p \in broken \/ life[from[handling[p]]] = "ended"
      BY <2>9 DEF CallbackThrows, RequestsAreInFlight
    <3>3. ASSUME NEW i \in Ids, pc[i] # "new", life[from[i]] = "ended"
          PROVE  life'[from[i]] = "ended"
      BY <3>1, <3>3
    <3>4. FaultsAreExcused'
      <4>1. ASSUME NEW q \in Procs \ broken', watcher[q] = "unmarshal", blank[q]
            PROVE  life'[from[handling[q]]] = "ended"
        <5>1. handling[q] \in Ids /\ pc[handling[q]] # "new"
          BY <4>1
        <5>2. life[from[handling[q]]] = "ended"
          BY <4>1, <3>1
        <5>3. QED
          BY <5>1, <5>2, <3>3
      <4>2. \A f \in faults' : pc[f[2]] # "new"
        BY <3>1, <3>2
      <4>3. QED
        BY <4>1, <4>2, <3>1
    <3>5. ASSUME NEW f \in faults'
          PROVE  f[1] \in broken' \/ life'[from[f[2]]] = "ended"
      <4>1. CASE f \in faults
        <5>1. f[2] \in Ids /\ pc[f[2]] # "new"
          BY <4>1
        <5>2. QED
          BY <4>1, <5>1, <3>1, <3>3
      <4>2. CASE f = <<p, handling[p]>>
        BY <4>2, <3>1, <3>2, <3>3
      <4>3. QED
        BY <3>1, <4>1, <4>2
    <3>6. QED
      BY <3>1, <3>4, <3>5
  <2>10. QED
    BY <1>2, <2>1, <2>2, <2>3, <2>4, <2>5, <2>6, <2>7, <2>8, <2>9, <2>11
      DEF Callback
<1>3. ASSUME NEW p \in Procs, Terminate(p)
      PROVE  (FaultsAreExcused /\ FaultOnlyIfSenderEnded)'
  <2>1. /\ broken' \subseteq Procs /\ broken \subseteq broken'
        /\ \A q \in Procs : life[q] = "ended" => life'[q] = "ended"
        /\ UNCHANGED <<watcher, blank, handling, pc, from, faults>>
    BY <1>3, EndStep DEF Terminate, reqVars
  <2>2. ASSUME NEW i \in Ids, pc[i] # "new", life[from[i]] = "ended"
        PROVE  life'[from[i]] = "ended"
    BY <2>1, <2>2
  <2>3. ASSUME NEW q \in Procs \ broken', watcher[q] = "unmarshal", blank[q]
        PROVE  life'[from[handling[q]]] = "ended"
    <3>1. handling[q] \in Ids /\ pc[handling[q]] # "new"
      BY <2>3
    <3>2. life[from[handling[q]]] = "ended"
      BY <2>3, <2>1
    <3>3. QED
      BY <3>1, <3>2, <2>2
  <2>4. ASSUME NEW f \in faults
        PROVE  f[1] \in broken' \/ life'[from[f[2]]] = "ended"
    <3>1. f[2] \in Ids /\ pc[f[2]] # "new"
      BY <2>4
    <3>2. QED
      BY <2>4, <3>1, <2>1, <2>2
  <2>5. QED
    BY <2>1, <2>3, <2>4
<1>4. ASSUME NEW id \in Ids, QueueRequest(id)
      PROVE  (FaultsAreExcused /\ FaultOnlyIfSenderEnded)'
  <2> USE DEF Send, procVars
  <2>1. CASE MarshalArguments(id)
    BY <2>1 DEF MarshalArguments
  <2>2. CASE CreateCleanupEvent(id)
    BY <2>2 DEF CreateCleanupEvent
  <2>3. CASE EnqueueRedirectionRequestId(id)
    BY <2>3 DEF EnqueueRedirectionRequestId
  <2>4. CASE SignalActivated(id)
    BY <2>4 DEF SignalActivated
  <2>5. CASE WaitForCleanup(id)
    BY <2>5 DEF WaitForCleanup
  <2>6. QED
    BY <1>4, <2>1, <2>2, <2>3, <2>4, <2>5 DEF QueueRequest
<1>5. ASSUME NEW id \in Ids, NEW p \in Procs, NEW q \in Procs,
             RedirectActivationToAsync(id, p, q)
      PROVE  (FaultsAreExcused /\ FaultOnlyIfSenderEnded)'
  <2>1. /\ pc[id] = "new"
        /\ \A i \in Ids : i # id => pc'[i] = pc[i] /\ from'[i] = from[i]
        /\ UNCHANGED <<life, watcher, blank, handling, broken, faults>>
    BY <1>5 DEF RedirectActivationToAsync, procVars
  <2>2. \A r \in Procs : watcher[r] = "unmarshal" =>
          handling[r] \in Ids /\ handling[r] # id
    BY <2>1
  <2>3. \A f \in faults : f[2] \in Ids /\ f[2] # id
    BY <2>1
  <2>4. QED
    BY <2>1, <2>2, <2>3
<1>6. CASE UNCHANGED vars
  BY <1>6, ElementsTyped DEF vars, procVars, reqVars
<1>7. QED
  BY <1>1, <1>2, <1>3, <1>4, <1>5, <1>6 DEF Next

(* Nobody reaches an instance before its queue is there.                   *)
LEMMA ConstructionInvariant ==
  TypeOK /\ RequestsAreKnown /\ CalledWhenReachable /\ [Next]_vars
    => CalledWhenReachable'
<1> SUFFICES ASSUME TypeOK, RequestsAreKnown, CalledWhenReachable, [Next]_vars
             PROVE  CalledWhenReachable'
  OBVIOUS
<1> USE DEF TypeOK, Lives, RequestsAreKnown, CalledWhenReachable,
            CallbackHasQueue
<1>1. ASSUME NEW p \in Procs, Construct(p) PROVE CalledWhenReachable'
  <2>1. /\ life[p] \notin {"running", "ended"}
        /\ \A q \in Procs : q # p => life'[q] = life[q]
        /\ UNCHANGED <<event, watcher>>
    BY <1>1 DEF Construct, CreateInstance, InsertInstance, InitQueue, LifeStep
  <2>2. QED
    BY <2>1
<1>2. ASSUME NEW p \in Procs, Callback(p) PROVE CalledWhenReachable'
  <2> USE DEF Watch, Runs, reqVars
  <2>1. CASE EventFires(p)
    BY <2>1 DEF EventFires
  <2>2. CASE ProcessRedirectionRequests(p)
    BY <2>2 DEF ProcessRedirectionRequests
  <2>3. CASE DequeueRedirectionRequestId(p)
    BY <2>3 DEF DequeueRedirectionRequestId
  <2>4. CASE Rearm(p)
    BY <2>4 DEF Rearm
  <2>5. CASE OpenRequest(p)
    BY <2>5 DEF OpenRequest
  <2>6. CASE UnmarshalArguments(p)
    BY <2>6 DEF UnmarshalArguments
  <2>7. CASE RaiseActivated(p)
    BY <2>7 DEF RaiseActivated
  <2>8. CASE SetCleanupEvent(p)
    BY <2>8 DEF SetCleanupEvent
  <2>11. CASE DequeueStaleId(p)
    BY <2>11 DEF DequeueStaleId
  <2>9. CASE CallbackThrows(p)
    BY <2>9 DEF CallbackThrows, End
  <2>10. QED
    BY <1>2, <2>1, <2>2, <2>3, <2>4, <2>5, <2>6, <2>7, <2>8, <2>9, <2>11
      DEF Callback
<1>3. ASSUME NEW p \in Procs, Terminate(p) PROVE CalledWhenReachable'
  BY <1>3 DEF Terminate, Runs, End, reqVars
<1>4. ASSUME NEW id \in Ids, QueueRequest(id) PROVE CalledWhenReachable'
  <2> USE DEF Send, procVars
  <2>1. CASE MarshalArguments(id)
    BY <2>1 DEF MarshalArguments
  <2>2. CASE CreateCleanupEvent(id)
    BY <2>2 DEF CreateCleanupEvent
  <2>3. CASE EnqueueRedirectionRequestId(id)
    BY <2>3 DEF EnqueueRedirectionRequestId
  <2>4. CASE SignalActivated(id)
    BY <2>4 DEF SignalActivated
  <2>5. CASE WaitForCleanup(id)
    BY <2>5 DEF WaitForCleanup
  <2>6. QED
    BY <1>4, <2>1, <2>2, <2>3, <2>4, <2>5 DEF QueueRequest
<1>5. ASSUME NEW id \in Ids, NEW p \in Procs, NEW q \in Procs,
             RedirectActivationToAsync(id, p, q)
      PROVE  CalledWhenReachable'
  BY <1>5 DEF RedirectActivationToAsync, CanBeOpened, procVars
<1>6. CASE UNCHANGED vars
  BY <1>6 DEF vars, procVars, reqVars
<1>7. QED
  BY <1>1, <1>2, <1>3, <1>4, <1>5, <1>6 DEF Next

(* RedirectionInv is an invariant.                                         *)
THEOREM RedirectionInvariant == Spec => []RedirectionInv
<1>1. Init => RedirectionInv
  <2> SUFFICES ASSUME Init PROVE RedirectionInv
    OBVIOUS
  <2> USE EmptyElements DEF Init
  <2>1. TypeOK
    BY DEF TypeOK, Lives, Watching, Sending
  <2>2. RequestsAreKnown /\ RequestsAreInFlight /\ NoLostWakeup
    BY DEF RequestsAreKnown, RequestsAreInFlight, NoLostWakeup, InHandOf,
       InHand
  <2>3. HandledAreKnown /\ HandledOnce
    BY DEF HandledAreKnown, HandledOnce, Unraised, InHand
  <2>4. FaultsAreExcused /\ FaultOnlyIfSenderEnded /\ CalledWhenReachable
    BY DEF FaultsAreExcused, FaultOnlyIfSenderEnded, CalledWhenReachable,
       CallbackHasQueue
  <2>5. QED
    BY <2>1, <2>2, <2>3, <2>4 DEF RedirectionInv
<1>2. RedirectionInv /\ [Next]_vars => RedirectionInv'
  BY TypeInvariant, KnownInvariant, InFlightInvariant, WakeupInvariant,
     HandledInvariant, FaultInvariant, ConstructionInvariant DEF RedirectionInv
<1>3. QED
  BY <1>1, <1>2, PTL DEF Spec

(* A request whose sender has set the event is not forgotten, as long as   *)
(* no process has ended while it linked its item into the queue: the reset *)
(* before the drain, AppInstance.cpp:186-189, loses no wake-up.            *)
THEOREM NoWakeupIsLost == Spec => []NoLostWakeup
<1>1. RedirectionInv => NoLostWakeup
  BY DEF RedirectionInv
<1>2. QED
  BY <1>1, RedirectionInvariant, PTL

(* RedirectActivationToAsync completes only when the instance redirected   *)
(* to was told of the request (AppInstance.cpp:200-211, 253-256).          *)
THEOREM CompletedIsHandled == Spec => []DoneMeansHandled
<1>1. RedirectionInv => DoneMeansHandled
  BY DEF RedirectionInv, HandledAreKnown, DoneMeansHandled
<1>2. QED
  BY <1>1, RedirectionInvariant, PTL

(* The Activated event is raised for a request in no other instance than   *)
(* the one redirected to, and there at most once, as long as no process    *)
(* has ended while it linked its item into that instance's queue           *)
(* (AppInstance.cpp:171-201).                                              *)
THEOREM RequestIsHandledOnce == Spec => []HandledOnce
<1>1. RedirectionInv => HandledOnce
  BY DEF RedirectionInv
<1>2. QED
  BY <1>1, RedirectionInvariant, PTL

(* The watcher's callback never runs before the queue is there, although   *)
(* the watcher is armed first (AppInstance.cpp:123-163).                   *)
THEOREM CallbackFindsItsQueue == Spec => []CallbackHasQueue
<1>1. RedirectionInv => CallbackHasQueue
  BY DEF RedirectionInv, CalledWhenReachable
<1>2. QED
  BY <1>1, RedirectionInvariant, PTL

(* An instance ends by an exception in the callback only over a request    *)
(* whose sender has ended, or when its queue was left half written.        *)
THEOREM FaultsNeedEndedSender == Spec => []FaultOnlyIfSenderEnded
<1>1. RedirectionInv => FaultOnlyIfSenderEnded
  BY DEF RedirectionInv
<1>2. QED
  BY <1>1, RedirectionInvariant, PTL

=============================================================================
