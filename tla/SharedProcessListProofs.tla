----------------------- MODULE SharedProcessListProofs -----------------------
(***************************************************************************)
(* Proofs about SharedProcessList, for any processes and any capacity.     *)
(***************************************************************************)
EXTENDS SharedProcessList, TLAPS

(* ListInv is an invariant: the list type-checks, every list operation     *)
(* belongs to a process in the right state, and what is removed has ended. *)
THEOREM ListInvariant == Spec => []ListInv
<1>1. Init => ListInv
  <2> SUFFICES ASSUME Init PROVE ListInv
    OBVIOUS
  <2> USE CountAssumption DEF Init
  <2>1. 1 \in 1..(MaxCount + 1)
    OBVIOUS
  <2>2. TypeOK
    BY <2>1 DEF TypeOK, Lives, Ops
  <2>3. QED
    BY <2>2 DEF ListInv
<1>2. ListInv /\ [Next]_vars => ListInv'
  <2> SUFFICES ASSUME ListInv, [Next]_vars PROVE ListInv'
    OBVIOUS
  <2> USE CountAssumption, EmptyAssumption
  <2>1. ASSUME NEW p \in Procs, GetCurrent(p) PROVE ListInv'
    BY <2>1 DEF GetCurrent, Begin, ListInv, TypeOK, Lives, Ops, Slots, Lists,
        callVars, held
  <2>2. ASSUME NEW p \in Procs, Constructed(p) \/ ConstructorThrows(p) PROVE ListInv'
    <3> USE <2>2 DEF Constructed, ConstructorThrows, callVars, held, opVars
    <3>1. TypeOK'
      BY DEF ListInv, TypeOK, Lives
    <3>2. QED
      BY <3>1 DEF ListInv, TypeOK, Lists
  <2>3. ASSUME NEW p \in Procs, GetInstances(p) PROVE ListInv'
    BY <2>3 DEF GetInstances, Begin, ListInv, TypeOK, Lives, Ops, Slots,
        Lists, held
  <2>4. ASSUME NEW p \in Procs, ReleaseInstances(p) PROVE ListInv'
    BY <2>4 DEF ReleaseInstances, ListInv, TypeOK, Lives, Ops, Slots, Lists,
        callVars, opVars
  <2>5. ASSUME NEW p \in Procs, Terminate(p) PROVE ListInv'
    <3> USE <2>5 DEF Terminate, Finished
    <3>1. TypeOK'
      BY DEF ListInv, TypeOK, Lives, Ops, Slots
    <3>2. ~raced' => \A q \in Procs : life'[q] \in {"inserted", "running"} => Lists(q)'
      <4> SUFFICES ASSUME ~raced', NEW q \in Procs, life'[q] \in {"inserted", "running"}
                   PROVE  Lists(q)'
        OBVIOUS
      <4>1. q # p /\ life[q] \in {"inserted", "running"}
        BY DEF ListInv, TypeOK
      <4>2. slots' = slots
        BY <4>1
      <4>3. QED
        BY <4>1, <4>2 DEF ListInv, Lists
    <3>3. \A q \in Procs : op'[q] \in {"remove", "removeWrite"} =>
            target'[q] \in Procs /\ life'[target'[q]] = "ended"
      BY DEF ListInv, TypeOK
    <3>4. QED
      BY <3>1, <3>2, <3>3 DEF ListInv, TypeOK
  <2>6. ASSUME NEW p \in Procs, ListStep(p) PROVE ListInv'
    <3>1. CASE InsertSkips(p)
      BY <3>1 DEF InsertSkips, In, NextSlot, ListInv, TypeOK, Lives, Ops,
          Slots, Lists, callVars, held
    <3>2. CASE InsertFindsSlot(p)
      BY <3>2 DEF InsertFindsSlot, In, ListInv, TypeOK, Lives, Ops, Slots,
          Lists, callVars, held
    <3>3. CASE InsertWrites(p)
      <4> USE <3>3 DEF InsertWrites, Write, Finished
      <4>1. at[p] \in Slots
        BY DEF ListInv
      <4>2. TypeOK'
        BY DEF ListInv, TypeOK, Lives, Ops, Slots, held
      <4>3. ~raced' => \A q \in Procs : life'[q] \in {"inserted", "running"} => Lists(q)'
        <5> SUFFICES ASSUME ~raced', NEW q \in Procs, life'[q] \in {"inserted", "running"}
                     PROVE  Lists(q)'
          OBVIOUS
        <5>1. CASE q = p
          BY <4>1, <5>1 DEF ListInv, TypeOK, Lists
        <5>2. CASE q # p
          <6>1. ~raced /\ slots[at[p]] = Empty /\ life[q] \in {"inserted", "running"}
            BY <5>2 DEF ListInv, TypeOK
          <6>2. PICK s \in Slots : slots[s] = q
            BY <6>1 DEF ListInv, Lists
          <6>3. QED
            BY <4>1, <6>1, <6>2 DEF Lists, ListInv, TypeOK
        <5>3. QED
          BY <5>1, <5>2
      <4>4. QED
        BY <4>2, <4>3 DEF ListInv, TypeOK, Ops
    <3>4. CASE InsertThrows(p)
      BY <3>4 DEF InsertThrows, Past, In, Finished, ListInv, TypeOK, Lives,
          Ops, Slots, Lists, callVars, held
    <3>5. CASE RemoveSkips(p)
      BY <3>5 DEF RemoveSkips, In, NextSlot, ListInv, TypeOK, Lives, Ops,
          Slots, Lists, callVars, held
    <3>6. CASE RemoveFindsSlot(p)
      BY <3>6 DEF RemoveFindsSlot, In, ListInv, TypeOK, Lives, Ops, Slots,
          Lists, callVars, held
    <3>7. CASE RemoveWrites(p)
      <4> USE <3>7 DEF RemoveWrites, Write, Finished, AfterRemove
      <4>1. at[p] \in Slots /\ target[p] \in Procs /\ life[target[p]] = "ended"
        BY DEF ListInv
      <4>2. TypeOK'
        BY DEF ListInv, TypeOK, Lives, Ops, Slots, held
      <4>3. ~raced' => \A q \in Procs : life'[q] \in {"inserted", "running"} => Lists(q)'
        <5> SUFFICES ASSUME ~raced', NEW q \in Procs, life'[q] \in {"inserted", "running"}
                     PROVE  Lists(q)'
          OBVIOUS
        <5>1. ~raced /\ slots[at[p]] = target[p] /\ life' = life
          BY DEF ListInv, TypeOK
        <5>2. PICK s \in Slots : slots[s] = q
          BY <5>1 DEF ListInv, Lists
        <5>3. s # at[p]
          BY <4>1, <5>1, <5>2
        <5>4. QED
          BY <5>2, <5>3 DEF Lists, ListInv, TypeOK
      <4>4. QED
        BY <4>2, <4>3 DEF ListInv, TypeOK, Ops
    <3>8. CASE RemoveFindsNothing(p)
      BY <3>8 DEF RemoveFindsNothing, Finished, AfterRemove, ListInv, TypeOK,
          Lives, Ops,
         Slots, Lists, held
    <3>9. CASE CopySlot(p)
      BY <3>9 DEF CopySlot, In, NextSlot, ListInv, TypeOK, Lives, Ops, Slots,
          Lists, held
    <3>10. CASE CopyEnds(p)
      BY <3>10 DEF CopyEnds, Finished, ListInv, TypeOK, Lives, Ops, Slots,
          Lists, held
    <3>11. QED
      BY <2>6, <3>1, <3>2, <3>3, <3>4, <3>5, <3>6, <3>7, <3>8, <3>9, <3>10
        DEF ListStep
  <2>7. ASSUME NEW p \in Procs, CallStep(p) PROVE ListInv'
    <3>1. ASSUME NEW q \in Procs, OpenInstance(p, q) PROVE ListInv'
      BY <3>1 DEF OpenInstance, Opening, ListInv, TypeOK, Lives, Ops, Slots,
          Lists, opVars
    <3>2. ASSUME NEW q \in Procs, RemoveOrphan(p, q) PROVE ListInv'
      <4>1. life[q] = "ended" /\ life[p] = "running" /\ op[p] = "none"
        BY <3>2 DEF RemoveOrphan, Opening, CanOpen, Begin
      <4>2. QED
        BY <3>2, <4>1 DEF RemoveOrphan, Begin, ListInv, TypeOK, Lives, Ops,
            Slots, Lists, held
    <3>3. CASE ReturnInstances(p)
      BY <3>3 DEF ReturnInstances, ListInv, TypeOK, Lives, Ops, Slots, Lists,
          opVars, held
    <3>4. QED
      BY <2>7, <3>1, <3>2, <3>3 DEF CallStep
  <2>8. ASSUME NEW p \in Procs, NEW q \in Procs, RemoveInstance(p, q) PROVE ListInv'
    BY <2>8 DEF RemoveInstance, Begin, ListInv, TypeOK, Lives, Ops, Slots,
        Lists, callVars
  <2>9. CASE UNCHANGED vars
    BY <2>9 DEF vars, opVars, callVars, held, ListInv, TypeOK, Lives, Ops,
        Slots, Lists
  <2>10. QED
    BY <2>1, <2>2, <2>3, <2>4, <2>5, <2>6, <2>7, <2>8, <2>9 DEF Next
<1>3. QED
  BY <1>1, <1>2, PTL DEF Spec

(* A running instance is missing from the list only after a race.          *)
THEOREM RacesOnly == Spec => []OnlyRacesLoseInstances
<1>1. ListInv => OnlyRacesLoseInstances
  BY DEF ListInv, OnlyRacesLoseInstances, RunningIsListed
<1>2. QED
  BY <1>1, ListInvariant, PTL

(* What ListedOnce rests on: a process that starts once is not listed      *)
(* before its Insert.                                                      *)
ListedWhenInserted ==
  ~raced => \A p \in Procs \ Fragile :
    Lists(p) => life[p] \in {"inserted", "running", "ended"}

OnceInv == ListInv /\ ListedWhenInserted /\ ListedOnce

LEMMA OnceStep ==
  ASSUME OnceInv, ListInv', [Next]_vars
  PROVE  OnceInv'
<1> USE EmptyAssumption
(* Steps that leave the list alone: an instance may be constructed, fail   *)
(* or end.                                                                 *)
<1>1. ASSUME slots' = slots, raced' = raced,
             \A p \in Procs \ Fragile :
               /\ Lists(p) /\ ~ raced
               /\ life[p] \in {"inserted", "running", "ended"}
               => life'[p] \in {"inserted", "running", "ended"}
      PROVE  OnceInv'
  BY <1>1 DEF OnceInv, ListedWhenInserted, ListedOnce, Lists
<1>2. ASSUME NEW p \in Procs, GetCurrent(p) PROVE OnceInv'
  BY <1>1, <1>2 DEF GetCurrent, OnceInv, ListInv, TypeOK
<1>3. ASSUME NEW p \in Procs, Constructed(p) \/ ConstructorThrows(p)
      PROVE  OnceInv'
  BY <1>1, <1>3 DEF Constructed, ConstructorThrows, OnceInv, ListInv, TypeOK
<1>4. ASSUME NEW p \in Procs, GetInstances(p) \/ ReleaseInstances(p)
      PROVE  OnceInv'
  BY <1>1, <1>4 DEF GetInstances, ReleaseInstances
<1>5. ASSUME NEW p \in Procs, Terminate(p) PROVE OnceInv'
  <2>1. CASE slots' = slots
    BY <1>1, <1>5, <2>1 DEF Terminate, OnceInv, ListInv, TypeOK
  <2>2. CASE slots' = [s \in Slots |-> Empty]
    BY <1>5, <2>2
       DEF OnceInv, ListedWhenInserted, ListedOnce, Lists
  <2>3. QED
    BY <1>5, <2>1, <2>2 DEF Terminate
<1>6. ASSUME NEW p \in Procs, ListStep(p) PROVE OnceInv'
  <2>1. CASE InsertSkips(p) \/ InsertFindsSlot(p) \/ RemoveSkips(p)
             \/ RemoveFindsSlot(p) \/ RemoveFindsNothing(p)
             \/ CopySlot(p) \/ CopyEnds(p)
    BY <1>1, <2>1 DEF InsertSkips, InsertFindsSlot, RemoveSkips,
                      RemoveFindsSlot, RemoveFindsNothing, CopySlot, CopyEnds
  (* Only a process that is listed already throws with its pid listed.     *)
  <2>2. CASE InsertThrows(p)
    <3>1. /\ op[p] = "insert" /\ life[p] = "constructing"
          /\ life' = [life EXCEPT ![p] = "broken"]
      BY <2>2 DEF InsertThrows, Past, In, OnceInv, ListInv
    <3>2. \A q \in Procs \ {p} : life'[q] = life[q]
      BY <3>1 DEF OnceInv, ListInv, TypeOK
    <3>3. QED
      BY <1>1, <2>2, <3>1, <3>2 DEF InsertThrows, callVars
  <2>3. CASE InsertWrites(p)
    <3>1. /\ at[p] \in Slots /\ life[p] = "constructing"
          /\ slots' = [slots EXCEPT ![at[p]] = p]
          /\ life' = [life EXCEPT ![p] = "inserted"]
          /\ ~ raced' => ~ raced /\ slots[at[p]] = Empty
      BY <2>3 DEF InsertWrites, Write, OnceInv, ListInv, TypeOK
    <3>2. slots \in [Slots -> Procs \union {Empty}] /\ DOMAIN life = Procs
      BY DEF OnceInv, ListInv, TypeOK
    <3>3. p \notin Fragile /\ ~ raced' => ~ Lists(p)
      BY <3>1 DEF OnceInv, ListedWhenInserted
    <3>4. ListedWhenInserted'
      BY <3>1, <3>2 DEF OnceInv, ListedWhenInserted, Lists
    <3>5. ListedOnce'
      BY <3>1, <3>2, <3>3 DEF OnceInv, ListedOnce, Lists
    <3>6. QED
      BY <3>4, <3>5 DEF OnceInv
  <2>4. CASE RemoveWrites(p)
    <3>1. /\ at[p] \in Slots /\ life' = life
          /\ slots' = [slots EXCEPT ![at[p]] = Empty]
          /\ ~ raced' => ~ raced
      BY <2>4 DEF RemoveWrites, Write, OnceInv, ListInv, TypeOK
    <3>2. slots \in [Slots -> Procs \union {Empty}]
      BY DEF OnceInv, ListInv, TypeOK
    <3>3. ListedWhenInserted' /\ ListedOnce'
      BY <3>1, <3>2 DEF OnceInv, ListedWhenInserted, ListedOnce, Lists
    <3>4. QED
      BY <3>3 DEF OnceInv
  <2>5. QED
    BY <1>6, <2>1, <2>2, <2>3, <2>4 DEF ListStep
<1>7. ASSUME NEW p \in Procs, CallStep(p) PROVE OnceInv'
  BY <1>1, <1>7 DEF CallStep, OpenInstance, RemoveOrphan, ReturnInstances
<1>8. ASSUME NEW p \in Procs, NEW q \in Procs, RemoveInstance(p, q)
      PROVE  OnceInv'
  BY <1>1, <1>8 DEF RemoveInstance
<1>9. CASE UNCHANGED vars
  BY <1>1, <1>9 DEF vars
<1>10. QED
  BY <1>2, <1>3, <1>4, <1>5, <1>6, <1>7, <1>8, <1>9 DEF Next

(* No pid is in two slots, unless a write raced or its process's           *)
(* constructor failed after Insert (SharedProcessList.h:23-31).            *)
THEOREM PidsAreListedOnce == Spec => []ListedOnce
<1>1. Init => OnceInv
  <2> SUFFICES ASSUME Init PROVE OnceInv
    OBVIOUS
  <2>1. ListInv
    <3>1. 1 \in 1..(MaxCount + 1)
      BY CountAssumption
    <3>2. QED
      BY <3>1 DEF Init, ListInv, TypeOK, Lives, Ops
  <2>2. ListedWhenInserted /\ ListedOnce
    BY EmptyAssumption DEF Init, ListedWhenInserted, ListedOnce, Lists
  <2>3. QED
    BY <2>1, <2>2 DEF OnceInv
<1>2. OnceInv /\ ListInv' /\ [Next]_vars => OnceInv'
  BY OnceStep
<1>3. OnceInv => ListedOnce
  BY DEF OnceInv
<1>4. QED
  BY <1>1, <1>2, <1>3, ListInvariant, PTL DEF Spec

(* What a call of GetInstances has not found yet is ahead of it: whoever   *)
(* it is about runs and inserts nothing, so that no slot the copy has      *)
(* passed can be given the pid.                                            *)
IsCopying == \A p \in Procs : /\ call[p] = "copy" <=> op[p] = "copy"
                              /\ call[p] = "idle" => watched[p] = {}

WillBeFound(p, q) ==
  /\ life[q] = "running" /\ Lists(q)
  /\ call[p] = "copy" =>
       \A s \in Slots : s < at[p] /\ slots[s] = q => q \in pids[p]
  /\ call[p] \in {"open", "orphan"} => q \in pids[p] \union opened[p]

WatchInv ==
  /\ ListInv /\ IsCopying
  /\ \A p \in Procs : \A q \in watched[p] : WillBeFound(p, q)

(* A write takes no pid of a running instance into another slot.           *)
LEMMA WriteIsWatched ==
  ASSUME WatchInv, NEW r \in Procs, NEW o, NEW v,
         Write(r, o, v), op[r] # "copy", at[r] \in Slots,
         v = Empty \/ (v = r /\ life[r] # "running"),
         \A q \in Procs : life[q] = "running" => life'[q] = "running",
         \A q \in Procs : \/ call'[q] = call[q]
                          \/ call[q] = "orphan" /\ call'[q] = "open",
         pids' = pids, opened' = opened
  PROVE  /\ IsCopying'
         /\ \A p \in Procs : \A q \in watched'[p] : WillBeFound(p, q)'
<1> USE EmptyAssumption
<1>1. TypeOK /\ IsCopying
  BY DEF WatchInv, ListInv
<1>2. /\ slots' = [slots EXCEPT ![at[r]] = v]
      /\ watched' = [p \in Procs |-> {q \in watched[p] :
                       \E s \in Slots : slots'[s] = q}]
      /\ op' = [op EXCEPT ![r] = "none"] /\ at' = [at EXCEPT ![r] = 1]
  BY DEF Write, Finished
<1>3. IsCopying'
  BY <1>1, <1>2 DEF IsCopying, TypeOK
<1>4. ASSUME NEW p \in Procs, NEW q \in watched'[p] PROVE WillBeFound(p, q)'
  <2>1. q \in watched[p] /\ q \in Procs /\ Lists(q)'
    BY <1>1, <1>2, <1>4 DEF TypeOK, Lists
  <2>2. WillBeFound(p, q)
    BY <2>1 DEF WatchInv
  <2>3. v # q
    BY <2>1, <2>2 DEF WillBeFound
  <2>4. \A s \in Slots : slots'[s] = q => slots[s] = q
    BY <1>1, <1>2, <2>3 DEF TypeOK
  <2>5. call'[p] = "copy" => p # r /\ at'[p] = at[p] /\ call[p] = "copy"
    BY <1>1, <1>2 DEF IsCopying, TypeOK
  <2>6. call'[p] \in {"open", "orphan"} => call[p] \in {"open", "orphan"}
    OBVIOUS
  <2>7. QED
    BY <2>1, <2>2, <2>4, <2>5, <2>6 DEF WillBeFound
<1>5. QED
  BY <1>3, <1>4

LEMMA WatchStep ==
  ASSUME WatchInv, ListInv', [Next]_vars
  PROVE  WatchInv'
<1> USE EmptyAssumption
<1>1. /\ TypeOK /\ IsCopying /\ ListInv
      /\ \A p \in Procs : \A q \in watched[p] : q \in Procs /\ WillBeFound(p, q)
  BY DEF WatchInv, ListInv, TypeOK
<1> DEFINE Rest(p) == /\ op'[p] = "copy" <=> op[p] = "copy"
                      /\ op[p] = "copy" => at'[p] = at[p]
                      /\ call'[p] = "copy" <=> call[p] = "copy"
                      /\ call'[p] = "idle" => call[p] = "idle"
                      /\ call[p] = "idle" => call'[p] = "idle"
(* Steps that neither write the list nor copy it                           *)
<1>2. ASSUME slots' = slots, watched' = watched,
             pids' = pids, opened' = opened,
             \A q \in Procs : life[q] = "running" => life'[q] = "running",
             \A p \in Procs : Rest(p)
      PROVE  WatchInv'
  <2>1. IsCopying'
    BY <1>1, <1>2 DEF IsCopying
  <2>2. ASSUME NEW p \in Procs, NEW q \in watched[p] PROVE WillBeFound(p, q)'
    <3>1. WillBeFound(p, q) /\ q \in Procs
      BY <1>1, <2>2
    <3>2. call'[p] \in {"open", "orphan"} => call[p] \in {"open", "orphan"}
      BY <1>1, <1>2 DEF TypeOK
    <3>3. call'[p] = "copy" => call[p] = "copy" /\ at'[p] = at[p]
      BY <1>1, <1>2 DEF IsCopying
    <3>4. QED
      BY <1>2, <3>1, <3>2, <3>3 DEF WillBeFound, Lists
  <2>3. QED
    BY <1>2, <2>1, <2>2 DEF WatchInv
<1>3. ASSUME NEW p \in Procs, GetCurrent(p) PROVE WatchInv'
  BY <1>1, <1>2, <1>3 DEF GetCurrent, Begin, callVars, TypeOK
<1>4. ASSUME NEW p \in Procs, Constructed(p) \/ ConstructorThrows(p)
      PROVE  WatchInv'
  BY <1>1, <1>2, <1>4
     DEF Constructed, ConstructorThrows, callVars, opVars, TypeOK
<1>5. ASSUME NEW p \in Procs, ReleaseInstances(p) PROVE WatchInv'
  BY <1>1, <1>2, <1>5 DEF ReleaseInstances, callVars, opVars
<1>6. ASSUME NEW p \in Procs, GetInstances(p) PROVE WatchInv'
  <2> USE <1>6 DEF GetInstances, Begin, callVars
  <2>1. IsCopying'
    BY <1>1 DEF IsCopying, TypeOK
  <2>2. ASSUME NEW r \in Procs, NEW q \in watched'[r] PROVE WillBeFound(r, q)'
    <3>1. CASE r = p
      <4>1. q \in Procs /\ life[q] = "running" /\ Lists(q)
        BY <1>1, <2>2, <3>1 DEF TypeOK
      <4>2. at'[r] = 1 /\ call'[r] = "copy"
        BY <1>1, <3>1 DEF TypeOK
      <4>3. \A s \in Slots : ~(s < 1)
        BY DEF Slots
      <4>4. QED
        BY <4>1, <4>2, <4>3 DEF WillBeFound, Lists
    <3>2. CASE r # p
      <4>1. q \in watched[r] /\ WillBeFound(r, q)
        BY <1>1, <2>2, <3>2 DEF TypeOK
      <4>2. call'[r] = call[r] /\ at'[r] = at[r]
        BY <1>1, <3>2 DEF TypeOK
      <4>3. QED
        BY <4>1, <4>2 DEF WillBeFound, Lists
    <3>3. QED
      BY <3>1, <3>2
  <2>3. QED
    BY <2>1, <2>2 DEF WatchInv
<1>7. ASSUME NEW p \in Procs, Terminate(p) PROVE WatchInv'
  <2> USE <1>7 DEF Terminate, Finished
  <2>1. IsCopying'
    BY <1>1 DEF IsCopying, TypeOK
  <2>2. ASSUME NEW r \in Procs, NEW q \in watched'[r] PROVE WillBeFound(r, q)'
    <3>1. r # p /\ q # p /\ q \in watched[r]
      BY <2>2
    <3>2. WillBeFound(r, q) /\ q \in Procs
      BY <1>1, <3>1
    <3>3. slots' = slots /\ life'[q] = "running"
      BY <1>1, <3>1, <3>2 DEF WillBeFound, TypeOK
    <3>4. /\ call'[r] = call[r] /\ at'[r] = at[r] /\ pids'[r] = pids[r]
          /\ opened'[r] = opened[r]
      BY <1>1, <3>1 DEF TypeOK
    <3>5. QED
      BY <3>2, <3>3, <3>4 DEF WillBeFound, Lists
  <2>3. QED
    BY <2>1, <2>2 DEF WatchInv
<1>8. ASSUME NEW p \in Procs, ListStep(p) PROVE WatchInv'
  <2>1. CASE InsertSkips(p) \/ InsertFindsSlot(p) \/ InsertThrows(p)
    BY <1>1, <1>2, <2>1
       DEF InsertSkips, InsertFindsSlot, InsertThrows, In, Past, Finished,
           NextSlot, callVars, ListInv, TypeOK
  <2>2. CASE RemoveSkips(p) \/ RemoveFindsSlot(p) \/ RemoveFindsNothing(p)
    BY <1>1, <1>2, <2>2
       DEF RemoveSkips, RemoveFindsSlot, RemoveFindsNothing, In, Past,
           Finished, AfterRemove, NextSlot, callVars, TypeOK
  <2>3. CASE InsertWrites(p)
    <3>1. /\ Write(p, Empty, p) /\ op[p] # "copy" /\ at[p] \in Slots
          /\ life[p] # "running" /\ pids' = pids /\ opened' = opened
          /\ call' = call
      BY <1>1, <2>3 DEF InsertWrites, ListInv
    <3>2. \A q \in Procs : life[q] = "running" => life'[q] = "running"
      BY <1>1, <2>3, <3>1 DEF InsertWrites, TypeOK
    <3>3. QED
      BY <3>1, <3>2, WriteIsWatched DEF WatchInv
  <2>4. CASE RemoveWrites(p)
    <3>1. /\ Write(p, target[p], Empty) /\ op[p] # "copy" /\ at[p] \in Slots
          /\ pids' = pids /\ opened' = opened /\ life' = life
      BY <1>1, <2>4 DEF RemoveWrites, ListInv
    <3>2. \A q \in Procs : \/ call'[q] = call[q]
                           \/ call[q] = "orphan" /\ call'[q] = "open"
      BY <1>1, <2>4 DEF RemoveWrites, AfterRemove, TypeOK
    <3>3. QED
      BY <3>1, <3>2, WriteIsWatched DEF WatchInv
  <2>5. CASE CopySlot(p)
    <3> USE <2>5 DEF CopySlot, In, NextSlot
    <3>1. at[p] \in Slots /\ at'[p] = at[p] + 1
      BY <1>1, CountAssumption DEF TypeOK, Slots
    <3>2. IsCopying'
      BY <1>1 DEF IsCopying, TypeOK
    <3>3. ASSUME NEW r \in Procs, NEW q \in watched[r] PROVE WillBeFound(r, q)'
      <4>1. WillBeFound(r, q) /\ q \in Procs
        BY <1>1, <3>3
      <4>2. CASE r = p
        <5>1. pids'[p] = pids[p] \union ({slots[at[p]]} \ {Empty})
          BY <1>1 DEF TypeOK
        <5>2. \A s \in Slots : s < at'[p] => s < at[p] \/ s = at[p]
          BY <3>1 DEF Slots
        <5>3. call[p] = "copy"
          BY <1>1 DEF IsCopying
        <5>4. QED
          BY <4>1, <4>2, <5>1, <5>2, <5>3 DEF WillBeFound, Lists
      <4>3. CASE r # p
        <5>1. at'[r] = at[r] /\ pids'[r] = pids[r]
          BY <1>1, <4>3 DEF TypeOK
        <5>2. QED
          BY <4>1, <5>1 DEF WillBeFound, Lists
      <4>4. QED
        BY <4>2, <4>3
    <3>4. QED
      BY <3>2, <3>3 DEF WatchInv
  <2>6. CASE CopyEnds(p)
    <3> USE <2>6 DEF CopyEnds, Past, Finished
    <3>1. IsCopying'
      BY <1>1 DEF IsCopying, TypeOK
    <3>2. ASSUME NEW r \in Procs, NEW q \in watched[r] PROVE WillBeFound(r, q)'
      <4>1. WillBeFound(r, q) /\ q \in Procs
        BY <1>1, <3>2
      <4>2. CASE r = p
        <5>1. \A s \in Slots : s < at[p]
          BY <1>1, CountAssumption DEF TypeOK, Slots
        <5>2. q \in pids[p]
          BY <1>1, <4>1, <4>2, <5>1 DEF WillBeFound, IsCopying, Lists
        <5>3. call'[p] = "open"
          BY <1>1 DEF TypeOK
        <5>4. QED
          BY <4>1, <4>2, <5>2, <5>3 DEF WillBeFound, Lists
      <4>3. CASE r # p
        <5>1. at'[r] = at[r] /\ call'[r] = call[r]
          BY <1>1, <4>3 DEF TypeOK
        <5>2. QED
          BY <4>1, <5>1 DEF WillBeFound, Lists
      <4>4. QED
        BY <4>2, <4>3
    <3>3. QED
      BY <3>1, <3>2 DEF WatchInv
  <2>7. QED
    BY <1>8, <2>1, <2>2, <2>3, <2>4, <2>5, <2>6 DEF ListStep
<1>9. ASSUME NEW p \in Procs, CallStep(p) PROVE WatchInv'
  <2>1. ASSUME NEW o \in Procs, OpenInstance(p, o) PROVE WatchInv'
    <3> USE <2>1 DEF OpenInstance, Opening, opVars
    <3>1. IsCopying'
      BY <1>1 DEF IsCopying
    <3>2. ASSUME NEW r \in Procs, NEW q \in watched[r] PROVE WillBeFound(r, q)'
      <4>1. WillBeFound(r, q) /\ q \in Procs
        BY <1>1, <3>2
      <4>2. /\ r = p => call[r] = "open"
            /\ r # p => pids'[r] = pids[r]
            /\ pids'[r] \union opened'[r] = pids[r] \union opened[r]
        BY <1>1 DEF TypeOK
      <4>3. QED
        BY <4>1, <4>2 DEF WillBeFound, Lists
    <3>3. QED
      BY <3>1, <3>2 DEF WatchInv
  (* Only a process that ended is taken for an orphan.                     *)
  <2>2. ASSUME NEW o \in Procs, RemoveOrphan(p, o) PROVE WatchInv'
    <3> USE <2>2 DEF RemoveOrphan, Opening, Begin
    <3>1. IsCopying'
      BY <1>1 DEF IsCopying, TypeOK
    <3>2. ASSUME NEW r \in Procs, NEW q \in watched[r] PROVE WillBeFound(r, q)'
      <4>1. WillBeFound(r, q) /\ q \in Procs
        BY <1>1, <3>2
      <4>2. q # o
        BY <4>1 DEF WillBeFound, CanOpen
      <4>3. CASE r = p
        BY <1>1, <4>1, <4>2, <4>3 DEF WillBeFound, Lists, TypeOK
      <4>4. CASE r # p
        <5>1. at'[r] = at[r] /\ call'[r] = call[r] /\ pids'[r] = pids[r]
          BY <1>1, <4>4 DEF TypeOK
        <5>2. QED
          BY <4>1, <5>1 DEF WillBeFound, Lists
      <4>5. QED
        BY <4>3, <4>4
    <3>3. QED
      BY <3>1, <3>2 DEF WatchInv
  <2>3. CASE ReturnInstances(p)
    <3> USE <2>3 DEF ReturnInstances, opVars
    <3>1. IsCopying'
      BY <1>1 DEF IsCopying, TypeOK
    <3>2. ASSUME NEW r \in Procs, NEW q \in watched'[r] PROVE WillBeFound(r, q)'
      <4>1. r # p /\ q \in watched[r]
        BY <1>1, <3>2 DEF TypeOK
      <4>2. WillBeFound(r, q)
        BY <1>1, <4>1
      <4>3. call'[r] = call[r] /\ opened'[r] = opened[r]
        BY <1>1, <4>1 DEF TypeOK
      <4>4. QED
        BY <4>2, <4>3 DEF WillBeFound, Lists
    <3>3. QED
      BY <3>1, <3>2 DEF WatchInv
  <2>4. QED
    BY <1>9, <2>1, <2>2, <2>3 DEF CallStep
<1>10. ASSUME NEW p \in Procs, NEW q \in Procs, RemoveInstance(p, q)
       PROVE  WatchInv'
  BY <1>1, <1>2, <1>10 DEF RemoveInstance, Begin, callVars, TypeOK
<1>11. CASE UNCHANGED vars
  BY <1>2, <1>11 DEF vars, callVars, opVars
<1>12. QED
  BY <1>3, <1>4, <1>5, <1>6, <1>7, <1>8, <1>9, <1>10, <1>11 DEF Next

(* GetInstances returns every instance that was running and listed when it *)
(* began and still is, whatever other processes insert and remove while it *)
(* copies, also where their writes race (AppInstance.cpp:278-326).         *)
THEOREM ListedAreReturned == Spec => CallIsComplete
<1>1. Init => WatchInv
  <2> SUFFICES ASSUME Init PROVE WatchInv
    OBVIOUS
  <2>1. ListInv
    <3>1. 1 \in 1..(MaxCount + 1)
      BY CountAssumption
    <3>2. QED
      BY <3>1 DEF Init, ListInv, TypeOK, Lives, Ops
  <2>2. QED
    BY <2>1 DEF Init, WatchInv, IsCopying
<1>2. WatchInv /\ ListInv' /\ [Next]_vars => WatchInv'
  BY WatchStep
<1>3. WatchInv =>
        [\A p \in Procs :
           ReturnInstances(p) => watched[p] \subseteq opened[p]]_vars
  BY DEF WatchInv, WillBeFound, ReturnInstances
<1>4. QED
  BY <1>1, <1>2, <1>3, ListInvariant, PTL DEF Spec, CallIsComplete

=============================================================================
