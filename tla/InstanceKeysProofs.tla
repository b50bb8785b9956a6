------------------------- MODULE InstanceKeysProofs -------------------------
(***************************************************************************)
(* Proofs about InstanceKeys, for any number of processes and any keys.    *)
(***************************************************************************)
EXTENDS InstanceKeys, TLAPS

(* Every step keeps the types; the steps are grouped as in Next.           *)
LEMMA TypeInvariant == TypeOK /\ [Next]_vars => TypeOK'
<1> SUFFICES ASSUME TypeOK, [Next]_vars PROVE TypeOK'
  OBVIOUS
<1> USE DEF TypeOK, PCs
<1>1. ASSUME NEW p \in Procs, Start(p) PROVE TypeOK'
  BY <1>1 DEF Start, callVars
<1>2. ASSUME NEW p \in Procs, GetInstances(p) PROVE TypeOK'
  BY <1>2 DEF GetInstances, procVars, keyVars
<1>3. ASSUME NEW p \in Procs, UnregisterKey(p) PROVE TypeOK'
  BY <1>3 DEF UnregisterKey, Surviving, Forget, procVars, callVars
<1>4. ASSUME NEW p \in Procs, ReleaseInstances(p) PROVE TypeOK'
  BY <1>4 DEF ReleaseInstances, Surviving, procVars, callVars
<1>5. ASSUME NEW p \in Procs, Terminate(p) PROVE TypeOK'
  BY <1>5 DEF Terminate, Surviving, Forget
<1>6. ASSUME NEW p \in Procs, NEW k \in Keys, FindOrRegisterForKey(p, k)
      PROVE  TypeOK'
  BY <1>6 DEF FindOrRegisterForKey, procVars, keyVars
<1>7. ASSUME NEW p \in Procs, NEW q \in Procs, RemoveInstance(p, q)
      PROVE  TypeOK'
  BY <1>7 DEF RemoveInstance, keyVars, callVars
<1>8. ASSUME NEW p \in Procs, NEW given \in SUBSET Procs, Return(p, given)
      PROVE  TypeOK'
  BY <1>8 DEF Return, Surviving, procVars
<1>9. ASSUME NEW p \in Procs, NEW q \in Procs, Waits(p, q) PROVE TypeOK'
  <2>1. CASE OpenInstance(p, q)
    BY <2>1 DEF OpenInstance, procVars, keyVars
  <2>2. CASE NoMatch(p, q)
    BY <2>2 DEF NoMatch, procVars, keyVars
  <2>3. CASE Match(p, q)
    BY <2>3, <1>8 DEF Match
  <2>4. QED
    BY <1>9, <2>1, <2>2, <2>3 DEF Waits
<1>10. ASSUME NEW p \in Procs, Step(p) PROVE TypeOK'
  <2>1. CASE CreateKeyMutex(p)
    BY <2>1 DEF CreateKeyMutex, Forget, procVars
  <2>2. CASE OpenKeyMutex(p)
    BY <2>2 DEF OpenKeyMutex, procVars
  <2>3. CASE WriteKey(p)
    BY <2>3 DEF WriteKey, procVars
  <2>4. CASE Snapshot(p)
    BY <2>4 DEF Snapshot, procVars, keyVars
  <2>5. ASSUME NEW q \in Procs, RemoveOrphan(p, q) PROVE TypeOK'
    BY <2>5 DEF RemoveOrphan, keyVars
  <2>6. CASE ReturnInstances(p)
    BY <2>6, <1>8 DEF ReturnInstances
  <2>7. CASE BeginAsking(p)
    BY <2>7 DEF BeginAsking, procVars, keyVars
  <2>8. CASE NobodyHasIt(p)
    BY <2>8, <1>8 DEF NobodyHasIt
  <2>9. QED
    BY <1>10, <2>1, <2>2, <2>3, <2>4, <2>5, <2>6, <2>7, <2>8 DEF Step
<1>11. CASE UNCHANGED vars
  BY <1>11 DEF vars, procVars, keyVars, callVars
<1>12. QED
  BY <1>1, <1>2, <1>3, <1>4, <1>5, <1>6, <1>7, <1>9, <1>10, <1>11 DEF Next

(* Whoever holds its own mutex is in the middle of a call for a key.       *)
LEMMA LocksInvariant == TypeOK /\ LocksAreCalls /\ [Next]_vars => LocksAreCalls'
<1> SUFFICES ASSUME TypeOK, LocksAreCalls, [Next]_vars PROVE LocksAreCalls'
  OBVIOUS
<1> USE DEF TypeOK, LocksAreCalls
<1>1. ASSUME NEW p \in Procs, Start(p) PROVE LocksAreCalls'
  BY <1>1 DEF Start, callVars
<1>2. ASSUME NEW p \in Procs, GetInstances(p) PROVE LocksAreCalls'
  BY <1>2 DEF GetInstances, Idle, procVars, keyVars
<1>3. ASSUME NEW p \in Procs, UnregisterKey(p) PROVE LocksAreCalls'
  BY <1>3 DEF UnregisterKey, Idle, Surviving, procVars, callVars
<1>4. ASSUME NEW p \in Procs, ReleaseInstances(p) PROVE LocksAreCalls'
  BY <1>4 DEF ReleaseInstances, Idle, Surviving, procVars, callVars
<1>5. ASSUME NEW p \in Procs, Terminate(p) PROVE LocksAreCalls'
  BY <1>5 DEF Terminate, Surviving
<1>6. ASSUME NEW p \in Procs, NEW k \in Keys, FindOrRegisterForKey(p, k)
      PROVE  LocksAreCalls'
  BY <1>6, NoKeyAssumption DEF FindOrRegisterForKey, Idle, procVars, keyVars
<1>7. ASSUME NEW p \in Procs, NEW q \in Procs, RemoveInstance(p, q)
      PROVE  LocksAreCalls'
  BY <1>7 DEF RemoveInstance, keyVars, callVars
<1>8. ASSUME NEW p \in Procs, NEW given \in SUBSET Procs, pc[p] \in {"open", "ask"},
             Return(p, given) PROVE LocksAreCalls'
  BY <1>8 DEF Return, Surviving, procVars
<1>9. ASSUME NEW p \in Procs, NEW q \in Procs, Waits(p, q) PROVE LocksAreCalls'
  <2>1. CASE OpenInstance(p, q)
    BY <2>1 DEF OpenInstance, procVars, keyVars
  <2>2. CASE NoMatch(p, q)
    BY <2>2 DEF NoMatch, Asks, procVars, keyVars
  <2>3. CASE Match(p, q)
    BY <2>3, <1>8 DEF Match, Asks
  <2>4. QED
    BY <1>9, <2>1, <2>2, <2>3 DEF Waits
<1>10. ASSUME NEW p \in Procs, Step(p) PROVE LocksAreCalls'
  <2>1. CASE CreateKeyMutex(p)
    BY <2>1 DEF CreateKeyMutex, procVars
  <2>2. CASE OpenKeyMutex(p)
    BY <2>2 DEF OpenKeyMutex, procVars
  <2>3. CASE WriteKey(p)
    BY <2>3 DEF WriteKey, procVars
  <2>4. CASE Snapshot(p)
    BY <2>4 DEF Snapshot, procVars, keyVars
  <2>5. ASSUME NEW q \in Procs, RemoveOrphan(p, q) PROVE LocksAreCalls'
    BY <2>5 DEF RemoveOrphan, keyVars
  <2>6. CASE ReturnInstances(p)
    BY <2>6, <1>8 DEF ReturnInstances
  <2>7. CASE BeginAsking(p)
    BY <2>7 DEF BeginAsking, procVars, keyVars
  <2>8. CASE NobodyHasIt(p)
    BY <2>8, <1>8 DEF NobodyHasIt
  <2>9. QED
    BY <1>10, <2>1, <2>2, <2>3, <2>4, <2>5, <2>6, <2>7, <2>8 DEF Step
<1>11. CASE UNCHANGED vars
  BY <1>11 DEF vars, procVars, keyVars, callVars
<1>12. QED
  BY <1>1, <1>2, <1>3, <1>4, <1>5, <1>6, <1>7, <1>9, <1>10, <1>11 DEF Next

(* A section that has a text is open somewhere.                            *)
LEMMA SectionsInvariant == TypeOK /\ SectionsAreOpen /\ [Next]_vars => SectionsAreOpen'
<1> SUFFICES ASSUME TypeOK, SectionsAreOpen, [Next]_vars PROVE SectionsAreOpen'
  OBVIOUS
<1> USE DEF TypeOK, SectionsAreOpen, Maps, MapsIn
<1>1. ASSUME NEW p \in Procs, Start(p) PROVE SectionsAreOpen'
  BY <1>1 DEF Start, callVars
<1>2. ASSUME NEW p \in Procs, GetInstances(p) PROVE SectionsAreOpen'
  BY <1>2 DEF GetInstances, Idle, procVars, keyVars
<1>3. ASSUME NEW p \in Procs, UnregisterKey(p) PROVE SectionsAreOpen'
  BY <1>3 DEF UnregisterKey, Idle, Surviving, procVars, callVars
<1>4. ASSUME NEW p \in Procs, ReleaseInstances(p) PROVE SectionsAreOpen'
  BY <1>4 DEF ReleaseInstances, Idle, Surviving, procVars, callVars
<1>5. ASSUME NEW p \in Procs, Terminate(p) PROVE SectionsAreOpen'
  <2> USE <1>5 DEF Terminate
  <2>1. ASSUME NEW q \in Procs, section'[q] # NoKey
        PROVE  \/ q \in alive' /\ keyState[q] = "named"
               \/ \E o \in alive' : q \in MapsIn(view, found)[o]
    BY <2>1 DEF Surviving
  <2>2. \A o \in alive' :
          keyState'[o] = keyState[o] /\ view'[o] = view[o] /\ found'[o] = found[o]
    OBVIOUS
  <2>3. alive' \subseteq Procs
    OBVIOUS
  <2> HIDE <1>5 DEF Terminate
  <2>4. QED
    BY <2>1, <2>2, <2>3
<1>6. ASSUME NEW p \in Procs, NEW k \in Keys, FindOrRegisterForKey(p, k)
      PROVE  SectionsAreOpen'
  BY <1>6 DEF FindOrRegisterForKey, Idle, procVars, keyVars
<1>7. ASSUME NEW p \in Procs, NEW q \in Procs, RemoveInstance(p, q)
      PROVE  SectionsAreOpen'
  BY <1>7 DEF RemoveInstance, keyVars, callVars
<1>8. ASSUME NEW p \in Procs, NEW given \in SUBSET Procs, pc[p] \in {"open", "ask"},
             Return(p, given) PROVE SectionsAreOpen'
  BY <1>8 DEF Return, Surviving, procVars
<1>9. ASSUME NEW p \in Procs, NEW q \in Procs, Waits(p, q)
      PROVE  SectionsAreOpen'
  <2>1. CASE OpenInstance(p, q)
    BY <2>1 DEF OpenInstance, procVars, keyVars
  <2>2. CASE NoMatch(p, q)
    BY <2>2 DEF NoMatch, Asks, procVars, keyVars
  <2>3. CASE Match(p, q)
    BY <2>3, <1>8 DEF Match, Asks
  <2>4. QED
    BY <1>9, <2>1, <2>2, <2>3 DEF Waits
<1>10. ASSUME NEW p \in Procs, Step(p) PROVE SectionsAreOpen'
  <2>1. CASE CreateKeyMutex(p)
    BY <2>1 DEF CreateKeyMutex, procVars
  <2>2. CASE OpenKeyMutex(p)
    BY <2>2 DEF OpenKeyMutex, procVars
  <2>3. CASE WriteKey(p)
    BY <2>3 DEF WriteKey, procVars
  <2>4. CASE Snapshot(p)
    BY <2>4 DEF Snapshot, procVars, keyVars
  <2>5. ASSUME NEW q \in Procs, RemoveOrphan(p, q) PROVE SectionsAreOpen'
    BY <2>5 DEF RemoveOrphan, keyVars
  <2>6. CASE ReturnInstances(p)
    BY <2>6, <1>8 DEF ReturnInstances
  <2>7. CASE BeginAsking(p)
    BY <2>7 DEF BeginAsking, procVars, keyVars
  <2>8. CASE NobodyHasIt(p)
    BY <2>8, <1>8 DEF NobodyHasIt
  <2>9. QED
    BY <1>10, <2>1, <2>2, <2>3, <2>4, <2>5, <2>6, <2>7, <2>8 DEF Step
<1>11. CASE UNCHANGED vars
  BY <1>11 DEF vars, procVars, keyVars, callVars
<1>12. QED
  BY <1>1, <1>2, <1>3, <1>4, <1>5, <1>6, <1>7, <1>9, <1>10, <1>11 DEF Next

(* There is one entitled instance per key, and it keeps the key's mutex.   *)
LEMMA EntitledInvariant == KeyInv /\ [Next]_vars => EntitledOwnMutex'
<1> SUFFICES ASSUME KeyInv, [Next]_vars PROVE EntitledOwnMutex'
  OBVIOUS
<1> USE DEF KeyInv, TypeOK, LocksAreCalls, EntitledOwnMutex, Entitled, OwnKey
<1>1. ASSUME NEW p \in Procs, Start(p) PROVE EntitledOwnMutex'
  BY <1>1, NoKeyAssumption DEF Start, callVars, SectionsAreOpen, CanOpen
<1>2. ASSUME NEW p \in Procs, GetInstances(p) PROVE EntitledOwnMutex'
  BY <1>2 DEF GetInstances, Idle, procVars, keyVars
<1>3. ASSUME NEW p \in Procs, UnregisterKey(p) PROVE EntitledOwnMutex'
  BY <1>3, NoKeyAssumption DEF UnregisterKey, Idle, Surviving, procVars,
      callVars
<1>4. ASSUME NEW p \in Procs, ReleaseInstances(p) PROVE EntitledOwnMutex'
  BY <1>4 DEF ReleaseInstances, Idle, Surviving, procVars, callVars
<1>5. ASSUME NEW p \in Procs, Terminate(p) PROVE EntitledOwnMutex'
  BY <1>5 DEF Terminate, Surviving
<1>6. ASSUME NEW p \in Procs, NEW k \in Keys, FindOrRegisterForKey(p, k)
      PROVE  EntitledOwnMutex'
  BY <1>6 DEF FindOrRegisterForKey, Idle, procVars, keyVars
<1>7. ASSUME NEW p \in Procs, NEW q \in Procs, RemoveInstance(p, q)
      PROVE  EntitledOwnMutex'
  BY <1>7 DEF RemoveInstance, keyVars, callVars
<1>8. ASSUME NEW p \in Procs, NEW given \in SUBSET Procs, pc[p] \in {"open", "ask"},
             Return(p, given) PROVE EntitledOwnMutex'
  BY <1>8 DEF Return, Surviving, procVars
<1>9. ASSUME NEW p \in Procs, NEW q \in Procs, Waits(p, q)
      PROVE  EntitledOwnMutex'
  <2>1. CASE OpenInstance(p, q)
    BY <2>1 DEF OpenInstance, procVars, keyVars
  <2>2. CASE NoMatch(p, q)
    BY <2>2 DEF NoMatch, Asks, procVars, keyVars
  <2>3. CASE Match(p, q)
    BY <2>3, <1>8 DEF Match, Asks
  <2>4. QED
    BY <1>9, <2>1, <2>2, <2>3 DEF Waits
<1>10. ASSUME NEW p \in Procs, Step(p) PROVE EntitledOwnMutex'
  <2>1. CASE CreateKeyMutex(p)
    BY <2>1 DEF CreateKeyMutex, procVars, KeyMutexExists
  <2>2. CASE OpenKeyMutex(p)
    <3>1. \A r \in Procs, k \in Keys : Entitled(r, k)' => Entitled(r, k) /\ creation'[r] = k
      BY <2>2, NoKeyAssumption DEF OpenKeyMutex, procVars
    <3>2. QED
      BY <3>1
  <2>3. CASE WriteKey(p)
    <3>1. \A r \in Procs, k \in Keys : Entitled(r, k)' => Entitled(r, k)
      BY <2>3, NoKeyAssumption DEF WriteKey, procVars
    <3>2. creation' = creation
      BY <2>3 DEF WriteKey
    <3>3. QED
      BY <3>1, <3>2
  <2>4. CASE Snapshot(p)
    BY <2>4 DEF Snapshot, procVars, keyVars
  <2>5. ASSUME NEW q \in Procs, RemoveOrphan(p, q) PROVE EntitledOwnMutex'
    BY <2>5 DEF RemoveOrphan, keyVars
  <2>6. CASE ReturnInstances(p)
    BY <2>6, <1>8 DEF ReturnInstances
  <2>7. CASE BeginAsking(p)
    BY <2>7 DEF BeginAsking, procVars, keyVars
  <2>8. CASE NobodyHasIt(p)
    BY <2>8, <1>8 DEF NobodyHasIt
  <2>9. QED
    BY <1>10, <2>1, <2>2, <2>3, <2>4, <2>5, <2>6, <2>7, <2>8 DEF Step
<1>11. CASE UNCHANGED vars
  BY <1>11 DEF vars, procVars, keyVars, callVars
<1>12. QED
  BY <1>1, <1>2, <1>3, <1>4, <1>5, <1>6, <1>7, <1>9, <1>10, <1>11 DEF Next

(* KeyInv is an invariant.                                                 *)
THEOREM KeyInvariant == Spec => []KeyInv
<1>1. Init => KeyInv
  <2> SUFFICES ASSUME Init PROVE KeyInv
    OBVIOUS
  <2> USE DEF Init
  <2>1. TypeOK
    BY DEF TypeOK, PCs
  <2>2. LocksAreCalls /\ SectionsAreOpen
    BY DEF LocksAreCalls, SectionsAreOpen
  <2>3. EntitledOwnMutex
    BY DEF EntitledOwnMutex, Entitled
  <2>4. QED
    BY <2>1, <2>2, <2>3 DEF KeyInv
<1>2. KeyInv /\ [Next]_vars => KeyInv'
  BY TypeInvariant, LocksInvariant, SectionsInvariant, EntitledInvariant
    DEF KeyInv
<1>3. QED
  BY <1>1, <1>2, PTL DEF Spec

(* No two running instances show the same key while neither is inside      *)
(* TrySetKey, unless one of them only shows what it gave up: TrySetKey,    *)
(* AppInstance.cpp:570-594, for any number of instances and keys.          *)
THEOREM KeyHasOneOwner == Spec => []OneOwnerPerKey
<1>1. KeyInv => OneOwnerPerKey
  <2> SUFFICES ASSUME KeyInv,
                      NEW p \in alive \ (locked \union stale),
                      NEW q \in alive \ (locked \union stale),
                      p # q, OwnKey(p) # NoKey, OwnKey(p) = OwnKey(q)
               PROVE  FALSE
    BY DEF OneOwnerPerKey
  <2>1. p \in Procs /\ q \in Procs /\ OwnKey(p) \in Keys
    BY DEF KeyInv, TypeOK, OwnKey
  <2>2. Entitled(p, OwnKey(p)) /\ Entitled(q, OwnKey(p))
    BY DEF KeyInv, LocksAreCalls, Entitled
  <2>3. QED
    BY <2>1, <2>2 DEF KeyInv, EntitledOwnMutex
<1>2. QED
  BY <1>1, KeyInvariant, PTL

(* The owner of the key a call was refused is ahead of the call until it   *)
(* is asked: it stays listed while it runs, and shows the key whenever its *)
(* own mutex is free.                                                      *)
Searching == {"snapshot", "open", "ask"}

RivalIsAhead(p, q) ==
  /\ pc[p] \in Searching /\ Owns(q, arg[p])
  /\ pc[p] = "open" => q \in todo[p] \union found[p]
  /\ pc[p] = "ask" => q \in todo[p]

RefusedInv ==
  /\ KeyInv /\ alive \subseteq listed
  /\ \A p \in Procs : \A q \in rivals[p] : RivalIsAhead(p, q)

(* Steps that leave the owners alone and do not go on with a search        *)
LEMMA RivalsStay ==
  ASSUME RefusedInv, KeyInv', alive' \subseteq listed',
         \A p \in Procs : rivals'[p] \subseteq rivals[p],
         \A p, q \in Procs : q \in rivals'[p] => Owns(q, arg[p])',
         \A p \in Procs : pc[p] \in Searching /\ rivals'[p] # {} =>
           /\ pc'[p] = pc[p] /\ todo'[p] = todo[p] /\ found'[p] = found[p]
  PROVE  RefusedInv'
<1> SUFFICES ASSUME NEW p \in Procs, NEW q \in rivals'[p]
             PROVE  RivalIsAhead(p, q)'
  BY DEF RefusedInv
<1>1. q \in Procs /\ q \in rivals[p] /\ RivalIsAhead(p, q)
  BY DEF RefusedInv, KeyInv, TypeOK
<1>2. QED
  BY <1>1 DEF RivalIsAhead

LEMMA RefusedStep ==
  ASSUME RefusedInv, KeyInv', [Next]_vars
  PROVE  RefusedInv'
<1>1. /\ TypeOK /\ LocksAreCalls
      /\ alive \subseteq listed /\ alive \subseteq Procs
      /\ \A p \in Procs : \A q \in rivals[p] :
           q \in Procs /\ RivalIsAhead(p, q) /\ Owns(q, arg[p])
  BY DEF RefusedInv, KeyInv, TypeOK, RivalIsAhead
<1>2. ASSUME NEW p \in Procs, Start(p) PROVE RefusedInv'
  <2>1. p \notin alive /\ alive' \subseteq listed'
    BY <1>1, <1>2 DEF Start, CanOpen
  <2>2. \A o, q \in Procs : q \in rivals'[o] => Owns(q, arg[o])'
    BY <1>1, <1>2, <2>1 DEF Start, Owns, callVars, TypeOK
  <2>3. QED
    BY <1>2, <2>1, <2>2, RivalsStay DEF Start, callVars
<1>3. ASSUME NEW p \in Procs, GetInstances(p) PROVE RefusedInv'
  <2>1. pc[p] \notin Searching /\ rivals[p] = {}
    BY <1>1, <1>3 DEF GetInstances, Idle, RivalIsAhead, Searching
  <2>2. \A o, q \in Procs : q \in rivals'[o] => Owns(q, arg[o])'
    BY <1>1, <1>3, <2>1
       DEF GetInstances, Idle, Owns, procVars, keyVars, TypeOK
  <2>3. \A o \in Procs : pc[o] \in Searching => pc'[o] = pc[o]
    BY <1>1, <1>3, <2>1 DEF GetInstances, TypeOK
  <2>4. QED
    BY <1>1, <1>3, <2>2, <2>3, RivalsStay DEF GetInstances, procVars
<1>4. ASSUME NEW p \in Procs, UnregisterKey(p) PROVE RefusedInv'
  <2>1. \A o \in Procs : rivals'[o] = rivals[o] \ {p}
    BY <1>1, <1>4 DEF UnregisterKey, Forget, TypeOK
  <2>2. \A o, q \in Procs : q \in rivals'[o] => Owns(q, arg[o])'
    BY <1>1, <1>4, <2>1
       DEF UnregisterKey, Surviving, Owns, procVars, callVars, TypeOK
  <2>3. QED
    BY <1>1, <1>4, <2>1, <2>2, RivalsStay
       DEF UnregisterKey, procVars, callVars
<1>5. ASSUME NEW p \in Procs, ReleaseInstances(p) PROVE RefusedInv'
  <2>1. \A o, q \in Procs : q \in rivals'[o] => Owns(q, arg[o])'
    BY <1>1, <1>5
       DEF ReleaseInstances, Surviving, Owns, procVars, callVars, TypeOK
  <2>2. QED
    BY <1>1, <1>5, <2>1, RivalsStay DEF ReleaseInstances, procVars, callVars
<1>6. ASSUME NEW p \in Procs, Terminate(p) PROVE RefusedInv'
  <2>1. \A o \in Procs : rivals'[o] = IF o = p THEN {} ELSE rivals[o] \ {p}
    BY <1>1, <1>6 DEF Terminate, Forget, TypeOK
  <2>2. \A o, q \in Procs : q \in rivals'[o] => Owns(q, arg[o])'
    <3> SUFFICES ASSUME NEW o \in Procs, NEW q \in Procs, q \in rivals'[o]
                 PROVE  Owns(q, arg[o])'
      OBVIOUS
    <3>1. o # p /\ q # p /\ q \in rivals[o] /\ Owns(q, arg[o])
      BY <1>1, <2>1
    <3>2. /\ q \in alive' /\ keyState'[q] = keyState[q] /\ pc'[q] = pc[q]
          /\ arg'[q] = arg[q] /\ arg'[o] = arg[o]
      BY <1>1, <1>6, <3>1 DEF Terminate, TypeOK, Owns
    <3>3. section'[q] = section[q]
      BY <1>6, <3>1, <3>2 DEF Terminate, Surviving, Owns
    <3>4. QED
      BY <3>1, <3>2, <3>3 DEF Owns
  <2>3. \A o \in Procs : rivals'[o] # {} =>
          /\ pc'[o] = pc[o] /\ todo'[o] = todo[o] /\ found'[o] = found[o]
    BY <1>1, <1>6, <2>1 DEF Terminate, TypeOK
  <2>4. alive' \subseteq listed'
    BY <1>1, <1>6 DEF Terminate
  <2>5. QED
    BY <2>1, <2>2, <2>3, <2>4, RivalsStay
<1>7. ASSUME NEW p \in Procs, NEW k \in Keys, FindOrRegisterForKey(p, k)
      PROVE  RefusedInv'
  <2>1. pc[p] \notin Searching /\ rivals[p] = {} /\ pc[p] = "idle"
    BY <1>1, <1>7 DEF FindOrRegisterForKey, Idle, RivalIsAhead, Searching
  <2>2. \A o, q \in Procs : q \in rivals'[o] => Owns(q, arg[o])'
    BY <1>1, <1>7, <2>1
       DEF FindOrRegisterForKey, Owns, procVars, keyVars, TypeOK
  <2>3. \A o \in Procs : pc[o] \in Searching => pc'[o] = pc[o]
    BY <1>1, <1>7, <2>1 DEF FindOrRegisterForKey, TypeOK
  <2>4. QED
    BY <1>1, <1>7, <2>2, <2>3, RivalsStay DEF FindOrRegisterForKey, procVars
<1>8. ASSUME NEW p \in Procs, NEW o \in Procs, RemoveInstance(p, o)
      PROVE  RefusedInv'
  <2>1. \A r, q \in Procs : q \in rivals'[r] => Owns(q, arg[r])'
    BY <1>1, <1>8 DEF RemoveInstance, Owns, keyVars, callVars
  <2>2. alive' \subseteq listed'
    BY <1>1, <1>8 DEF RemoveInstance
  <2>3. QED
    BY <1>1, <1>8, <2>1, <2>2, RivalsStay DEF RemoveInstance, callVars
(* A call that returns has no rivals any more.                             *)
<1>9. ASSUME NEW p \in Procs, NEW given \in SUBSET Procs, p \in alive,
             pc[p] \in {"open", "ask"}, Return(p, given)
      PROVE  RefusedInv'
  <2>1. /\ rivals' = [rivals EXCEPT ![p] = {}] /\ alive' = alive
        /\ listed' = listed /\ keyState' = keyState
        /\ pc' = [pc EXCEPT ![p] = "idle"] /\ arg' = [arg EXCEPT ![p] = NoKey]
        /\ todo' = [todo EXCEPT ![p] = {}] /\ found' = [found EXCEPT ![p] = {}]
    BY <1>9 DEF Return, procVars
  <2>2. \A q \in Procs : q \in alive /\ keyState[q] = "named" =>
          section'[q] = section[q]
    BY <1>9 DEF Return, Surviving
  <2>3. \A o, q \in Procs : q \in rivals'[o] => Owns(q, arg[o])'
    BY <1>1, <1>9, <2>1, <2>2 DEF Owns, TypeOK
  <2>4. QED
    BY <1>1, <2>1, <2>3, RivalsStay DEF TypeOK
<1>10. ASSUME NEW p \in Procs, NEW o \in Procs, Waits(p, o) PROVE RefusedInv'
  <2>1. CASE OpenInstance(p, o)
    <3> USE <2>1 DEF OpenInstance, procVars, keyVars
    <3> SUFFICES ASSUME NEW r \in Procs, NEW q \in rivals[r]
                 PROVE  RivalIsAhead(r, q)'
      BY <1>1 DEF RefusedInv
    <3>1. RivalIsAhead(r, q) /\ Owns(q, arg[r])'
      BY <1>1 DEF Owns
    <3>2. pc[r] = "ask" => todo'[r] = todo[r]
      BY <1>1 DEF TypeOK
    <3>3. todo[r] \union found[r] \subseteq todo'[r] \union found'[r]
      BY <1>1 DEF TypeOK
    <3>4. QED
      BY <3>1, <3>2, <3>3 DEF RivalIsAhead
  (* Whoever can be asked and has another key is not the owner.            *)
  <2>2. CASE NoMatch(p, o)
    <3> USE <2>2 DEF NoMatch, Asks, procVars, keyVars
    <3> SUFFICES ASSUME NEW r \in Procs, NEW q \in rivals[r]
                 PROVE  RivalIsAhead(r, q)'
      BY <1>1 DEF RefusedInv
    <3>1. RivalIsAhead(r, q) /\ Owns(q, arg[r])'
      BY <1>1 DEF Owns
    <3>2. pc[p] = "ask" /\ pc[o] # "write"
      BY <1>1 DEF LocksAreCalls, Owns
    <3>3. ~Owns(o, arg[p])
      BY <3>2 DEF Owns, Key, OwnKey
    <3>4. r = p => q # o
      BY <3>1, <3>3 DEF RivalIsAhead
    <3>5. q \in todo[r] => q \in todo'[r]
      BY <1>1, <3>4 DEF TypeOK
    <3>6. QED
      BY <3>1, <3>5 DEF RivalIsAhead
  <2>3. CASE Match(p, o)
    BY <1>9, <2>3 DEF Match, Asks
  <2>4. QED
    BY <1>10, <2>1, <2>2, <2>3 DEF Waits
<1>11. ASSUME NEW p \in Procs, Step(p) PROVE RefusedInv'
  <2>1. CASE CreateKeyMutex(p)
    <3> USE <2>1 DEF CreateKeyMutex, procVars
    <3>1. \A o \in Procs : rivals'[o] = rivals[o] \ {p}
      BY <1>1 DEF Forget, TypeOK
    <3>2. \A o, q \in Procs : q \in rivals'[o] => Owns(q, arg[o])'
      BY <1>1, <3>1 DEF Owns, TypeOK
    <3>3. \A o \in Procs : pc[o] \in Searching => pc'[o] = pc[o]
      BY <1>1 DEF Searching, TypeOK
    <3>4. QED
      BY <1>1, <3>1, <3>2, <3>3, RivalsStay
  <2>2. CASE OpenKeyMutex(p)
    <3> USE <2>2 DEF OpenKeyMutex, procVars
    <3> SUFFICES ASSUME NEW o \in Procs, NEW q \in rivals'[o]
                 PROVE  RivalIsAhead(o, q)'
      BY <1>1 DEF RefusedInv
    <3>1. \A r \in Procs, k \in Keys \union {NoKey} : Owns(r, k) => Owns(r, k)'
      BY <1>1 DEF Owns, TypeOK
    <3>2. CASE o = p
      <4>1. q \in Procs /\ Owns(q, arg[p]) /\ pc'[p] = "snapshot"
        BY <1>1, <3>2 DEF TypeOK
      <4>2. QED
        BY <1>1, <3>1, <3>2, <4>1 DEF RivalIsAhead, Searching, Owns, TypeOK
    <3>3. CASE o # p
      <4>1. q \in rivals[o] /\ pc'[o] = pc[o]
        BY <1>1, <3>3 DEF TypeOK
      <4>2. RivalIsAhead(o, q) /\ q \in Procs
        BY <1>1, <4>1
      <4>3. Owns(q, arg[o])'
        BY <1>1, <3>1, <4>2 DEF RivalIsAhead, Owns, TypeOK
      <4>4. QED
        BY <4>1, <4>2, <4>3 DEF RivalIsAhead
    <3>4. QED
      BY <3>2, <3>3
  <2>3. CASE WriteKey(p)
    <3> USE <2>3 DEF WriteKey, procVars
    <3>1. rivals[p] = {}
      BY <1>1 DEF RivalIsAhead, Searching
    <3>2. \A o, q \in Procs : q \in rivals'[o] => Owns(q, arg[o])'
      BY <1>1, <3>1 DEF Owns, TypeOK
    <3>3. \A o \in Procs : pc[o] \in Searching => pc'[o] = pc[o]
      BY <1>1 DEF Searching, TypeOK
    <3>4. QED
      BY <1>1, <3>2, <3>3, RivalsStay
  <2>4. CASE Snapshot(p)
    <3> USE <2>4 DEF Snapshot, procVars, keyVars
    <3> SUFFICES ASSUME NEW r \in Procs, NEW q \in rivals[r]
                 PROVE  RivalIsAhead(r, q)'
      BY <1>1 DEF RefusedInv
    <3>1. /\ RivalIsAhead(r, q) /\ q \in Procs /\ q \in listed
          /\ Owns(q, arg[r])'
      BY <1>1 DEF Owns, TypeOK
    <3>2. CASE r = p
      BY <1>1, <3>1, <3>2 DEF RivalIsAhead, Searching, TypeOK
    <3>3. CASE r # p
      <4>1. pc'[r] = pc[r] /\ todo'[r] = todo[r]
        BY <1>1, <3>3 DEF TypeOK
      <4>2. QED
        BY <3>1, <4>1 DEF RivalIsAhead
    <3>4. QED
      BY <3>2, <3>3
  (* What cannot be opened has ended.                                      *)
  <2>5. ASSUME NEW o \in Procs, RemoveOrphan(p, o) PROVE RefusedInv'
    <3> USE <2>5 DEF RemoveOrphan, keyVars, CanOpen
    <3> SUFFICES ASSUME NEW r \in Procs, NEW q \in rivals[r]
                 PROVE  RivalIsAhead(r, q)'
      BY <1>1 DEF RefusedInv
    <3>1. RivalIsAhead(r, q) /\ Owns(q, arg[r])' /\ q # o
      BY <1>1 DEF Owns
    <3>2. q \in todo[r] => q \in todo'[r]
      BY <1>1, <3>1 DEF TypeOK
    <3>3. QED
      BY <3>1, <3>2 DEF RivalIsAhead
  <2>6. CASE ReturnInstances(p)
    BY <1>1, <1>9, <2>6 DEF ReturnInstances, TypeOK
  <2>7. CASE BeginAsking(p)
    <3> USE <2>7 DEF BeginAsking, procVars, keyVars
    <3> SUFFICES ASSUME NEW r \in Procs, NEW q \in rivals[r]
                 PROVE  RivalIsAhead(r, q)'
      BY <1>1 DEF RefusedInv
    <3>1. RivalIsAhead(r, q) /\ Owns(q, arg[r])'
      BY <1>1 DEF Owns, TypeOK
    <3>2. CASE r = p
      BY <1>1, <3>1, <3>2 DEF RivalIsAhead, Searching, TypeOK
    <3>3. CASE r # p
      <4>1. pc'[r] = pc[r] /\ todo'[r] = todo[r]
        BY <1>1, <3>3 DEF TypeOK
      <4>2. QED
        BY <3>1, <4>1 DEF RivalIsAhead
    <3>4. QED
      BY <3>2, <3>3
  <2>8. CASE NobodyHasIt(p)
    BY <1>9, <2>8 DEF NobodyHasIt
  <2>9. QED
    BY <1>11, <2>1, <2>2, <2>3, <2>4, <2>5, <2>6, <2>7, <2>8 DEF Step
<1>12. CASE UNCHANGED vars
  <2>1. \A r, q \in Procs : q \in rivals'[r] => Owns(q, arg[r])'
    BY <1>1, <1>12 DEF vars, procVars, keyVars, callVars, Owns
  <2>2. QED
    BY <1>1, <1>12, <2>1, RivalsStay DEF vars, procVars, callVars
<1>13. QED
  BY <1>2, <1>3, <1>4, <1>5, <1>6, <1>7, <1>8, <1>10, <1>11, <1>12 DEF Next

(* Who is refused a key finds the instance that had it, if that one still  *)
(* runs and neither unregistered nor set another key: what m_dataMutex is  *)
(* held for, AppInstance.cpp:575-579.                                      *)
THEOREM OwnerIsFound == Spec => RefusedFindsOwner
<1>1. Init => RefusedInv
  <2> SUFFICES ASSUME Init PROVE RefusedInv
    OBVIOUS
  <2>1. TypeOK /\ LocksAreCalls /\ SectionsAreOpen /\ EntitledOwnMutex
    BY DEF Init, TypeOK, PCs, LocksAreCalls, SectionsAreOpen,
           EntitledOwnMutex, Entitled
  <2>2. QED
    BY <2>1 DEF Init, RefusedInv, KeyInv
<1>2. RefusedInv /\ KeyInv' /\ [Next]_vars => RefusedInv'
  BY RefusedStep
<1>3. RefusedInv =>
        [\A p \in Procs : NobodyHasIt(p) => rivals[p] = {}]_vars
  BY DEF RefusedInv, RivalIsAhead, NobodyHasIt
<1>4. QED
  BY <1>1, <1>2, <1>3, KeyInvariant, PTL DEF Spec, RefusedFindsOwner

=============================================================================
