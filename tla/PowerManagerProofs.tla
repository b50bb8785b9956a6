------------------------- MODULE PowerManagerProofs -------------------------
(***************************************************************************)
(* Proofs about PowerManager, for any clients, events and values, and any  *)
(* number of calls, changes and failures: an event with handlers has its   *)
(* registration, but for those undone with unknown tokens, and what its    *)
(* getter returns is the present value once every callback has run,        *)
(* unless an older snapshot was stored last.                               *)
(***************************************************************************)
EXTENDS PowerManager, FiniteSetTheorems, TLAPS

(* A snapshot on its way has the values of one listener's events.          *)
SnapshotsFit ==
  /\ \A r \in running : r.value \in [KindsOf(r.source) -> AnyValue]
  /\ \A c \in Clients : call[c].at = "get" =>
       call[c].value \in [KindsOf(SourceOf(call[c].kind)) -> AnyValue]

TypeInv == TypeOK /\ SnapshotsFit

(* Windows numbers the registrations of a listener.                        *)
HandlesAreUsed == \A s \in Sources : live[s] \subseteq 1..handle[s]

(* The snapshots of s that were taken and are still to be stored.          *)
Waiting(s) ==
  {r.value : r \in {q \in running : q.source = s /\ q.at = "process"}}
    \union {call[c].value : c \in {d \in Clients :
              call[d].at = "get" /\ SourceOf(call[d].kind) = s}}

(* A registration that Windows has no more call to make to had the present *)
(* values: no older snapshot is still to be stored, unless one was raced,  *)
(* and a known value is stored or about to be.                             *)
CurrentAt(s) ==
  ~ (live[s] \subseteq due[s]) =>
    /\ \A v \in Waiting(s) : v = Snapshot(s)
    /\ \A k \in KindsOf(s) \ {Suspend} :
         os[k] # Unknown => cache[k] = os[k] \/ Waiting(s) # {}

ToldIsCurrent == \A s \in Sources \ raced : CurrentAt(s)

PowerIInv ==
  /\ TypeInv /\ HandlesAreUsed /\ SubscribedIsRegistered
  /\ ToldIsCurrent

-----------------------------------------------------------------------------
(* The events and their listeners.                                         *)
LEMMA Listeners ==
  /\ \A k \in Kinds : SourceOf(k) \in Sources /\ k \in KindsOf(SourceOf(k))
  /\ \A s \in Sources : KindsOf(s) \subseteq Kinds /\ IsFiniteSet(KindsOf(s))
  /\ Suspend \in Kinds /\ Suspend \in Sources /\ SourceOf(Suspend) = Suspend
  /\ \A s \in Sources : \A k \in KindsOf(s) :
       SourceOf(k) = s /\ (k = Suspend <=> s = Suspend)
<1> USE PowerAssumption
<1>1. \A k \in Kinds : SourceOf(k) \in Sources /\ k \in KindsOf(SourceOf(k))
  BY DEF Kinds, Sources, SourceOf, KindsOf
<1>2. Suspend \in Kinds /\ Suspend \in Sources /\ SourceOf(Suspend) = Suspend
  BY DEF Kinds, Sources, SourceOf
<1>3. ASSUME NEW s \in Sources
      PROVE  /\ KindsOf(s) \subseteq Kinds /\ IsFiniteSet(KindsOf(s))
             /\ \A k \in KindsOf(s) :
                  SourceOf(k) = s /\ (k = Suspend <=> s = Suspend)
  <2>1. KindsOf(s) \subseteq Composite \union {s}
    BY DEF KindsOf, Kinds, SourceOf
  <2>2. IsFiniteSet({s}) /\ IsFiniteSet(Composite)
    BY FS_Singleton
  <2>3. IsFiniteSet(Composite \union {s})
    BY <2>2, FS_Union
  <2>4. IsFiniteSet(KindsOf(s))
    BY <2>1, <2>3, FS_Subset
  <2>5. \A k \in KindsOf(s) : SourceOf(k) = s /\ (k = Suspend <=> s = Suspend)
    BY DEF KindsOf, Kinds, SourceOf, Sources
  <2>6. QED
    BY <2>4, <2>5 DEF KindsOf
<1>4. QED
  BY <1>1, <1>2, <1>3

(* What the values of Windows, a snapshot and what is stored look like.    *)
LEMMA ValuesFit ==
  ASSUME TypeOK
  PROVE  /\ \A s \in Sources : Snapshot(s) \in [KindsOf(s) -> AnyValue]
         /\ \A s \in Sources : [KindsOf(s) -> AnyValue] \subseteq Snapshots
         /\ \A s \in Sources : \A v \in [KindsOf(s) -> AnyValue] :
              /\ Stored(v) \in [Kinds -> AnyValue]
              /\ \A k \in Kinds \ KindsOf(s) : Stored(v)[k] = cache[k]
              /\ \A k \in KindsOf(s) : v[k] # Unknown => Stored(v)[k] = v[k]
<1> USE DEF TypeOK
<1>1. \A s \in Sources : Snapshot(s) \in [KindsOf(s) -> AnyValue]
  BY Listeners DEF Snapshot
<1>2. \A s \in Sources : [KindsOf(s) -> AnyValue] \subseteq Snapshots
  BY DEF Snapshots
<1>3. ASSUME NEW s \in Sources, NEW v \in [KindsOf(s) -> AnyValue]
      PROVE  /\ Stored(v) \in [Kinds -> AnyValue]
             /\ \A k \in Kinds \ KindsOf(s) : Stored(v)[k] = cache[k]
             /\ \A k \in KindsOf(s) : v[k] # Unknown => Stored(v)[k] = v[k]
  BY Listeners DEF Stored
<1>4. QED
  BY <1>1, <1>2, <1>3

(* A client learns a value of the event, or nothing.                       *)
LEMMA LearnFits ==
  ASSUME TypeOK, NEW c \in Clients, NEW k \in Kinds, NEW v \in AnyValue,
         NEW by
  PROVE  Learn(c, k, v, by) \in [Clients -> [Kinds -> AnyValue]]
<1>1. Unknown \in AnyValue /\ seen \in [Clients -> [Kinds -> AnyValue]]
  BY DEF TypeOK, AnyValue
<1>2. QED
  BY <1>1 DEF Learn

(* What a call that goes on is about.                                      *)
LEMMA CallsFit ==
  ASSUME TypeInv, NEW c \in Clients
  PROVE  /\ call[c] = Idle \/ call[c].at \in {"add", "get"}
         /\ call[c].at \in {"add", "get"} =>
              call[c] # Idle /\ call[c].kind \in Kinds
         /\ call[c].at = "get" =>
              call[c].value \in [KindsOf(SourceOf(call[c].kind)) -> AnyValue]
BY DEF TypeInv, TypeOK, SnapshotsFit, Calls, Idle

(* Windows reports values of the listener's events.                        *)
LEMMA ReportsFit ==
  ASSUME NEW s \in Sources
  PROVE  \A v \in IF s = Battery THEN Reports ELSE [{s} -> Values] :
           v \in [KindsOf(s) -> AnyValue]
<1>1. CASE s = Battery
  <2>1. KindsOf(s) = Composite
    BY <1>1, PowerAssumption DEF KindsOf, Kinds, SourceOf, Sources
  <2>2. QED
    BY <1>1, <2>1, PowerAssumption DEF AnyValue
<1>2. CASE s # Battery
  <2>1. KindsOf(s) = {s}
    BY <1>2, PowerAssumption DEF KindsOf, Kinds, SourceOf, Sources
  <2>2. QED
    BY <1>2, <2>1 DEF AnyValue
<1>3. QED
  BY <1>1, <1>2

(* A callback that goes on is another one with the same snapshot, or gone; *)
(* it does not come back to where its snapshot is stored.                  *)
LEMMA CallbackSteps ==
  ASSUME TypeOK, NEW r \in running, r \in Callbacks,
         Process(r) \/ Fire(r) \/ ResetSuspend(r)
  PROVE  \E new : /\ new \in Callbacks /\ new.at # "process"
                  /\ new.source = r.source /\ new.value = r.value
                  /\ \/ running' = (running \ {r}) \union {new}
                     \/ running' = running \ {r}
<1> DEFINE Fits(new) == /\ new \in Callbacks /\ new.at # "process"
                        /\ new.source = r.source /\ new.value = r.value
                        /\ \/ running' = (running \ {r}) \union {new}
                           \/ running' = running \ {r}
<1>1. /\ r.source \in Sources /\ r.id \in Nat /\ r.value \in Snapshots
      /\ r.left \subseteq Composite /\ r.kind \in Composite
      /\ r.read \in AnyValue
      /\ DOMAIN r = {"source", "id", "value", "at", "left", "kind", "read"}
  BY DEF Callbacks
<1>2. \A at \in {"compare", "load", "store", "reset"} :
        \A left \in SUBSET Composite, kind \in Composite, read \in AnyValue :
          LET new == [r EXCEPT !.at = at, !.left = left, !.kind = kind,
                               !.read = read]
          IN  /\ new \in Callbacks /\ new.at # "process"
              /\ new.source = r.source /\ new.value = r.value
  BY DEF Callbacks
<1>3. Status \in Composite /\ Unknown \in AnyValue
      /\ cache \in [Kinds -> AnyValue] /\ Composite \subseteq Kinds
  BY PowerAssumption DEF AnyValue, TypeOK, Kinds
<1>4. ASSUME NEW left \in SUBSET Composite, GoesOnWith(r, left)
      PROVE  \E new : Fits(new)
  <2> DEFINE new == [r EXCEPT !.at = "compare", !.left = left,
                              !.kind = Status, !.read = Unknown]
  <2>1. /\ new \in Callbacks /\ new.at # "process"
        /\ new.source = r.source /\ new.value = r.value
    BY <1>2, <1>3
  <2>2. \/ running' = (running \ {r}) \union {new}
        \/ running' = running \ {r}
    BY <1>4 DEF GoesOnWith, Becomes
  <2>3. QED
    BY <2>1, <2>2
<1>5. CASE Process(r)
  <2>1. CASE Becomes(r, [r EXCEPT !.at = "compare", !.left = Composite])
    <3> DEFINE new == [r EXCEPT !.at = "compare", !.left = Composite]
    <3>1. new \in Callbacks /\ new.at # "process"
          /\ new.source = r.source /\ new.value = r.value
      BY DEF Callbacks
    <3>2. running' = (running \ {r}) \union {new}
      BY <2>1 DEF Becomes
    <3>3. QED
      BY <3>1, <3>2
  <2>2. CASE Becomes(r, [r EXCEPT !.at = "reset"])
    <3> DEFINE new == [r EXCEPT !.at = "reset"]
    <3>1. new \in Callbacks /\ new.at # "process"
          /\ new.source = r.source /\ new.value = r.value
      BY DEF Callbacks
    <3>2. running' = (running \ {r}) \union {new}
      BY <2>2 DEF Becomes
    <3>3. QED
      BY <3>1, <3>2
  <2>3. CASE running' = running \ {r}
    <3> DEFINE new == [r EXCEPT !.at = "reset"]
    <3>1. new \in Callbacks /\ new.at # "process"
          /\ new.source = r.source /\ new.value = r.value
      BY DEF Callbacks
    <3>2. QED
      BY <2>3, <3>1
  <2>4. QED
    BY <1>5, <2>1, <2>2, <2>3 DEF Process
<1>6. CASE Compare(r)
  <2> DEFINE k == CHOOSE j \in r.left : TRUE
  <2>1. k \in Composite
    BY <1>1, <1>6 DEF Compare
  <2>2. \/ GoesOnWith(r, r.left \ {k})
        \/ Becomes(r, [r EXCEPT !.at = "load", !.kind = k])
    BY <1>6 DEF Compare
  <2> HIDE DEF k
  <2>3. CASE Becomes(r, [r EXCEPT !.at = "load", !.kind = k])
    <3> DEFINE new == [r EXCEPT !.at = "load", !.kind = k]
    <3>1. new \in Callbacks /\ new.at # "process"
          /\ new.source = r.source /\ new.value = r.value
      BY <2>1 DEF Callbacks
    <3>2. running' = (running \ {r}) \union {new}
      BY <2>3 DEF Becomes
    <3>3. QED
      BY <3>1, <3>2
  <2>4. CASE GoesOnWith(r, r.left \ {k})
    BY <1>1, <1>4, <2>4
  <2>5. QED
    BY <2>2, <2>3, <2>4
<1>7. CASE LoadNew(r)
  <2> DEFINE new == [r EXCEPT !.at = "store", !.read = cache[r.kind]]
  <2>1. cache[r.kind] \in AnyValue
    BY <1>1, <1>3
  <2>2. new \in Callbacks /\ new.at # "process"
        /\ new.source = r.source /\ new.value = r.value
    BY <2>1 DEF Callbacks
  <2>3. running' = (running \ {r}) \union {new}
    BY <1>7 DEF LoadNew, Becomes
  <2>4. QED
    BY <2>2, <2>3
<1>8. CASE StoreOld(r)
  <2>1. GoesOnWith(r, StillLeft(r)) /\ StillLeft(r) \subseteq Composite
    BY <1>1, <1>8 DEF StoreOld, StillLeft
  <2>2. QED
    BY <1>4, <2>1
<1>9. CASE ResetSuspend(r)
  <2> DEFINE new == [r EXCEPT !.at = "reset"]
  <2>1. new \in Callbacks /\ new.at # "process"
        /\ new.source = r.source /\ new.value = r.value
    BY DEF Callbacks
  <2>2. running' = running \ {r}
    BY <1>9 DEF ResetSuspend
  <2>3. QED
    BY <2>1, <2>2
<1>10. QED
  BY <1>5, <1>6, <1>7, <1>8, <1>9 DEF Fire

(* What RemoveCallback counts as lost.                                     *)
LEMMA LostCounts ==
  ASSUME TypeOK, NEW c \in Clients, NEW k \in Kinds, RemoveCallback(c, k)
  PROVE  LET s == SourceOf(k)
         IN  /\ lost' \in [Sources -> Nat]
             /\ \A t \in Sources \ {s} : lost'[t] = lost[t]
             /\ (\E j \in KindsOf(s) : handlers'[j] # {}) =>
                  lost'[s] = IF live' # live /\ c \notin handlers[k]
                               THEN lost[s] + 1 ELSE lost[s]
<1> DEFINE s == SourceOf(k)
           none == \A j \in KindsOf(s) : handlers'[j] = {}
           gone == live' # live /\ c \notin handlers[k]
<1>1. s \in Sources /\ lost \in [Sources -> Nat]
  BY Listeners DEF TypeOK
<1>2. lost' = [lost EXCEPT ![s] = IF none THEN 0
                                  ELSE IF gone THEN lost[s] + 1 ELSE lost[s]]
  BY DEF RemoveCallback
<1> HIDE DEF s, none, gone
<1>3. /\ lost' \in [Sources -> Nat]
      /\ \A t \in Sources \ {s} : lost'[t] = lost[t]
      /\ ~ none => lost'[s] = IF gone THEN lost[s] + 1 ELSE lost[s]
  BY <1>1, <1>2
<1>4. QED
  BY <1>3 DEF s, none, gone

-----------------------------------------------------------------------------
(* Every step keeps the types, and snapshots keep to their listener.       *)
LEMMA TypeInvariant == TypeInv /\ [Next]_vars => TypeInv'
<1> SUFFICES ASSUME TypeInv, [Next]_vars PROVE TypeInv'
  OBVIOUS
<1> USE DEF TypeInv
<1>1. TypeOK /\ SnapshotsFit /\ Unknown \in AnyValue
  BY DEF AnyValue
<1>2. ASSUME NEW c \in Clients, NEW k \in Kinds, AddCallback(c, k)
      PROVE  TypeInv'
  <2>1. SourceOf(k) \in Sources
    BY Listeners
  <2>2. call' = call \/ call' = [call EXCEPT ![c] = [at |-> "add", kind |-> k]]
    BY <1>2 DEF AddCallback
  <2>3. call' \in [Clients -> Calls]
    BY <1>1, <2>2 DEF TypeOK, Calls
  <2>4. handlers' \in [Kinds -> SUBSET Clients] /\ leaky' \subseteq Sources
        /\ events' \in Nat /\ used' \subseteq Sources
    BY <1>1, <1>2, <2>1 DEF TypeOK, AddCallback, CallStarts, Uses
  <2>5. /\ handle' \in [Sources -> Nat]
        /\ live' \in [Sources -> SUBSET Nat]
        /\ due' \in [Sources -> SUBSET Nat]
    <3> DEFINE l == SourceOf(k)
               id == handle[l] + 1
    <3>1. \/ UNCHANGED <<handle, live, due>>
          \/ /\ handle' = [handle EXCEPT ![l] = id]
             /\ live' = [live EXCEPT ![l] = @ \union {id}]
             /\ due' = [due EXCEPT ![l] = @ \union {id}]
      BY <1>2 DEF AddCallback
    <3>2. id \in Nat /\ l \in Sources
      BY <1>1, <2>1 DEF TypeOK
    <3>3. /\ handle \in [Sources -> Nat]
          /\ live \in [Sources -> SUBSET Nat]
          /\ due \in [Sources -> SUBSET Nat]
      BY <1>1 DEF TypeOK
    <3> HIDE DEF l, id
    <3>4. CASE UNCHANGED <<handle, live, due>>
      BY <3>3, <3>4
    <3>5. CASE /\ handle' = [handle EXCEPT ![l] = id]
               /\ live' = [live EXCEPT ![l] = @ \union {id}]
               /\ due' = [due EXCEPT ![l] = @ \union {id}]
      <4>1. /\ live[l] \union {id} \in SUBSET Nat
            /\ due[l] \union {id} \in SUBSET Nat
        BY <3>2, <3>3
      <4>2. QED
        BY <3>2, <3>3, <3>5, <4>1
    <3>6. QED
      BY <3>1, <3>4, <3>5
  <2>6. UNCHANGED <<running, os, cache, old, raised, reading, untold, seen,
                    raced, crossed, lost>>
    BY <1>2 DEF AddCallback
  <2>7. TypeOK'
    BY <1>1, <2>3, <2>4, <2>5, <2>6 DEF TypeOK
  <2>8. ASSUME NEW d \in Clients, call'[d].at = "get" PROVE call'[d] = call[d]
    BY <1>1, <2>2, <2>8 DEF TypeOK
  <2>9. SnapshotsFit'
    BY <1>1, <2>6, <2>8 DEF SnapshotsFit
  <2>10. QED
    BY <2>7, <2>9
<1>3. ASSUME NEW c \in Clients, NEW k \in Kinds, RemoveCallback(c, k)
      PROVE  TypeInv'
  <2>1. SourceOf(k) \in Sources
    BY Listeners
  <2>2. seen' \in [Clients -> [Kinds -> AnyValue]]
    BY <1>1, <1>3 DEF TypeOK, RemoveCallback
  <2>3. handlers' \in [Kinds -> SUBSET Clients] /\ leaky' \subseteq Sources
        /\ events' \in Nat /\ used' \subseteq Sources
    BY <1>1, <1>3, <2>1 DEF TypeOK, RemoveCallback, CallStarts, Uses
  <2>4. live' \in [Sources -> SUBSET Nat] /\ due' \in [Sources -> SUBSET Nat]
    BY <1>1, <1>3, <2>1 DEF TypeOK, RemoveCallback
  <2>5. UNCHANGED <<handle, running, os, cache, old, raised, reading, call,
                    untold, raced, crossed>>
    BY <1>3 DEF RemoveCallback
  <2>9. lost' \in [Sources -> Nat]
    BY <1>1, <1>3, <2>1, LostCounts DEF TypeOK
  <2>6. TypeOK'
    BY <1>1, <2>2, <2>3, <2>4, <2>5, <2>9 DEF TypeOK
  <2>7. SnapshotsFit'
    BY <1>1, <2>5 DEF SnapshotsFit
  <2>8. QED
    BY <2>6, <2>7
<1>4. ASSUME NEW c \in Clients, NEW k \in Kinds, Getter(c, k)
      PROVE  TypeInv'
  <2> DEFINE new == [at |-> "get", kind |-> k,
                     value |-> Snapshot(SourceOf(k))]
  <2>1. /\ SourceOf(k) \in Sources
        /\ Snapshot(SourceOf(k)) \in [KindsOf(SourceOf(k)) -> AnyValue]
        /\ Snapshot(SourceOf(k)) \in Snapshots
    BY <1>1, Listeners, ValuesFit
  <2>2. Learn(c, k, cache[k], untold) \in [Clients -> [Kinds -> AnyValue]]
    BY <1>1, LearnFits DEF TypeOK
  <2>3. \/ call' = call /\ seen' = Learn(c, k, cache[k], untold)
        \/ call' = [call EXCEPT ![c] = new] /\ seen' = seen
    BY <1>4 DEF Getter
  <2>4. new \in Calls
    BY <2>1 DEF Calls
  <2>5. /\ call' \in [Clients -> Calls]
        /\ seen' \in [Clients -> [Kinds -> AnyValue]]
    BY <1>1, <2>2, <2>3, <2>4 DEF TypeOK
  <2>6. used' \subseteq Sources /\ events' \in Nat
        /\ reading' \subseteq Clients \X Kinds
    BY <1>1, <1>4, <2>1 DEF TypeOK, Getter, CallStarts, Uses
  <2>7. UNCHANGED <<handlers, handle, live, due, running, os, cache, old,
                    raised, untold, raced, crossed, leaky, lost>>
    BY <1>4 DEF Getter
  <2>8. TypeOK'
    BY <1>1, <2>5, <2>6, <2>7 DEF TypeOK
  <2>9. SnapshotsFit'
    <3>1. ASSUME NEW d \in Clients, call'[d].at = "get"
          PROVE  call'[d].value \in
                   [KindsOf(SourceOf(call'[d].kind)) -> AnyValue]
      <4>1. CASE call'[d] = call[d]
        BY <1>1, <3>1, <4>1 DEF SnapshotsFit
      <4>2. CASE call'[d] = new
        BY <2>1, <4>2
      <4>3. QED
        BY <1>1, <2>3, <4>1, <4>2 DEF TypeOK
    <3>2. QED
      BY <1>1, <2>7, <3>1 DEF SnapshotsFit
  <2>10. QED
    BY <2>8, <2>9
<1>5. ASSUME NEW c \in Clients, HandlerIsAdded(c) PROVE TypeInv'
  <2>1. call[c].kind \in Kinds
    BY <1>5, CallsFit DEF HandlerIsAdded
  <2>2. TypeOK'
    BY <1>1, <1>5, <2>1 DEF TypeOK, HandlerIsAdded, Calls
  <2>3. SnapshotsFit'
    BY <1>1, <1>5 DEF SnapshotsFit, HandlerIsAdded, TypeOK, Idle
  <2>4. QED
    BY <2>2, <2>3
<1>6. ASSUME NEW c \in Clients, GetterStores(c) PROVE TypeInv'
  <2>1. /\ call[c].kind \in Kinds
        /\ call[c].value \in [KindsOf(SourceOf(call[c].kind)) -> AnyValue]
    BY <1>6, CallsFit DEF GetterStores
  <2>2. cache' \in [Kinds -> AnyValue]
    BY <1>1, <1>6, <2>1, Listeners, ValuesFit DEF GetterStores
  <2>3. seen' \in [Clients -> [Kinds -> AnyValue]]
    <3>1. cache'[call[c].kind] \in AnyValue
      BY <2>1, <2>2
    <3>2. QED
      BY <1>1, <1>6, <2>1, <3>1, LearnFits DEF GetterStores
  <2>4. call' \in [Clients -> Calls]
    BY <1>1, <1>6 DEF TypeOK, GetterStores, Calls
  <2>8. untold' \subseteq Composite /\ crossed' \subseteq Sources
    <3>1. SourceOf(call[c].kind) \in Sources
      BY <2>1, Listeners
    <3>2. QED
      BY <1>1, <1>6, <3>1 DEF TypeOK, GetterStores
  <2>5. TypeOK'
    BY <1>1, <1>6, <2>2, <2>3, <2>4, <2>8 DEF TypeOK, GetterStores
  <2>6. SnapshotsFit'
    BY <1>1, <1>6 DEF SnapshotsFit, GetterStores, TypeOK, Idle
  <2>7. QED
    BY <2>5, <2>6
<1>7. ASSUME NEW s \in Sources, Change(s) PROVE TypeInv'
  <2>1. os' \in [Kinds -> AnyValue]
    <3>1. PICK v \in IF s = Battery THEN Reports ELSE [{s} -> Values] :
            os' = [k \in Kinds |-> IF k \in KindsOf(s) THEN v[k] ELSE os[k]]
      BY <1>7 DEF Change
    <3>2. v \in [KindsOf(s) -> AnyValue]
      BY <3>1, ReportsFit
    <3>3. QED
      BY <1>1, <3>1, <3>2 DEF TypeOK
  <2>2. TypeOK'
    BY <1>1, <1>7, <2>1 DEF TypeOK, Change, Uses
  <2>3. SnapshotsFit'
    BY <1>1, <1>7 DEF SnapshotsFit, Change
  <2>4. QED
    BY <2>2, <2>3
<1>8. ASSUME NEW s \in Sources, NEW id \in due[s], CallbackStarts(s, id)
      PROVE  TypeInv'
  <2> DEFINE new == [source |-> s, id |-> id, value |-> Snapshot(s),
                     at |-> "process", left |-> {}, kind |-> Status,
                     read |-> Unknown]
  <2>1. Snapshot(s) \in [KindsOf(s) -> AnyValue] /\ Snapshot(s) \in Snapshots
    BY <1>1, ValuesFit
  <2>2. id \in Nat
    BY <1>1 DEF TypeOK
  <2>3. new \in Callbacks
    BY <1>1, <2>1, <2>2, PowerAssumption DEF Callbacks
  <2>4. running' = running \union {new}
    BY <1>8 DEF CallbackStarts
  <2>5. TypeOK'
    BY <1>1, <1>8, <2>3, <2>4 DEF TypeOK, CallbackStarts
  <2>6. SnapshotsFit'
    BY <1>1, <1>8, <2>1, <2>4 DEF SnapshotsFit, CallbackStarts
  <2>7. QED
    BY <2>5, <2>6
<1>9. ASSUME NEW r \in running, Process(r) \/ Fire(r) \/ ResetSuspend(r)
      PROVE  TypeInv'
  <2>1. /\ r \in Callbacks /\ r.source \in Sources
        /\ r.value \in [KindsOf(r.source) -> AnyValue]
    BY <1>1 DEF TypeOK, SnapshotsFit, Callbacks
  <2>2. cache' \in [Kinds -> AnyValue] /\ untold' \subseteq Composite
    <3>1. CASE Process(r)
      BY <1>1, <2>1, <3>1, ValuesFit DEF TypeOK, Process
    <3>2. CASE Fire(r)
      BY <1>1, <3>2 DEF TypeOK, Fire, Compare, LoadNew, StoreOld
    <3>3. CASE ResetSuspend(r)
      BY <1>1, <3>3 DEF TypeOK, ResetSuspend
    <3>4. QED
      BY <1>9, <3>1, <3>2, <3>3
  <2>3. old' \in [Composite -> AnyValue] /\ raised' \subseteq Kinds
    <3>1. r.kind \in Composite /\ r.read \in AnyValue
      BY <2>1 DEF Callbacks
    <3>2. CASE StoreOld(r)
      BY <1>1, <3>1, <3>2 DEF TypeOK, StoreOld, Kinds
    <3>3. CASE ~ StoreOld(r)
      <4>1. /\ old' = old
            /\ raised' \subseteq raised \union {Suspend} \union Singles
        BY <1>9, <3>3 DEF Process, Fire, Compare, LoadNew, ResetSuspend
      <4>2. QED
        BY <1>1, <4>1 DEF TypeOK, Kinds
    <3>4. QED
      BY <3>2, <3>3
  <2>4. \E new : /\ running' \subseteq running \union {new}
                 /\ new \in Callbacks
                 /\ new.source = r.source /\ new.value = r.value
    BY <1>1, <1>9, <2>1, CallbackSteps
  <2>5. UNCHANGED <<handlers, handle, live, due, os, reading, call, seen,
                    raced, crossed, leaky, lost, used, events>>
    BY <1>9 DEF Process, Fire, Compare, LoadNew, StoreOld, ResetSuspend
  <2>6. TypeOK'
    <3>1. running' \subseteq Callbacks
      BY <1>1, <2>4 DEF TypeOK
    <3>2. QED
      BY <1>1, <2>2, <2>3, <2>5, <3>1 DEF TypeOK
  <2>7. SnapshotsFit'
    BY <1>1, <2>1, <2>4, <2>5 DEF SnapshotsFit
  <2>8. QED
    BY <2>6, <2>7
<1>10. ASSUME NEW k \in Kinds, Notify(k) PROVE TypeInv'
  <2>1. TypeOK'
    BY <1>1, <1>10 DEF TypeOK, Notify
  <2>2. SnapshotsFit'
    BY <1>1, <1>10 DEF SnapshotsFit, Notify
  <2>3. QED
    BY <2>1, <2>2
<1>11. CASE UNCHANGED vars
  BY <1>1, <1>11 DEF vars, TypeOK, SnapshotsFit
<1>12. QED
  BY <1>2, <1>3, <1>4, <1>5, <1>6, <1>7, <1>8, <1>9, <1>10, <1>11
     DEF Next, CallbackGoesOn

-----------------------------------------------------------------------------
(* What a step does to the registrations of a listener, its handlers and   *)
(* the calls that are about to add one.                                    *)
LEMMA RegistrationUnchanged ==
  ASSUME HandlesAreUsed, SubscribedIsRegistered,
         UNCHANGED <<handle, live, leaky, lost>>,
         \A s \in Sources : Subscribed(s)' = Subscribed(s)
  PROVE  HandlesAreUsed' /\ SubscribedIsRegistered'
BY DEF HandlesAreUsed, SubscribedIsRegistered

(* Subscribed only depends on which events have handlers, and on the calls *)
(* that add one.                                                           *)
LEMMA SubscribedUnchanged ==
  ASSUME \A k \in Kinds : handlers'[k] = {} <=> handlers[k] = {},
         \A c \in Clients : \/ call'[c] = call[c]
                            \/ call'[c].at # "add" /\ call[c].at # "add"
  PROVE  \A s \in Sources : Subscribed(s)' = Subscribed(s)
BY Listeners DEF Subscribed

LEMMA SubscribedFits ==
  ASSUME TypeOK, NEW s \in Sources
  PROVE  /\ Subscribed(s) \subseteq KindsOf(s)
         /\ IsFiniteSet(Subscribed(s))
         /\ Cardinality(Subscribed(s)) \in Nat
<1>1. Subscribed(s) \subseteq KindsOf(s)
  BY DEF Subscribed
<1>2. QED
  BY <1>1, Listeners, FS_Subset, FS_CardinalityType

(* The registrations of a listener are finitely many.                      *)
LEMMA LiveIsFinite ==
  ASSUME TypeOK, HandlesAreUsed, NEW s \in Sources
  PROVE  IsFiniteSet(live[s]) /\ Cardinality(live[s]) \in Nat
<1>1. handle[s] \in Nat /\ live[s] \subseteq 1..handle[s]
  BY DEF TypeOK, HandlesAreUsed
<1>2. IsFiniteSet(1..handle[s])
  BY <1>1, FS_Interval
<1>3. QED
  BY <1>1, <1>2, FS_Subset, FS_CardinalityType

(* AddCallback and RemoveCallback keep a registration for each event that  *)
(* has a handler; no other step touches either.                            *)
LEMMA RegistrationInvariant ==
  TypeInv /\ HandlesAreUsed /\ SubscribedIsRegistered /\ [Next]_vars
    => HandlesAreUsed' /\ SubscribedIsRegistered'
<1> SUFFICES ASSUME TypeInv, HandlesAreUsed, SubscribedIsRegistered,
                    [Next]_vars
             PROVE  HandlesAreUsed' /\ SubscribedIsRegistered'
  OBVIOUS
<1>1. TypeOK /\ TypeOK'
  BY TypeInvariant DEF TypeInv
<1>2. ASSUME NEW c \in Clients, NEW k \in Kinds, AddCallback(c, k)
      PROVE  HandlesAreUsed' /\ SubscribedIsRegistered'
  <2> DEFINE l == SourceOf(k)
             id == handle[l] + 1
  <2>1. l \in Sources /\ k \in KindsOf(l)
    BY Listeners
  <2>2. \A d \in Clients : call[d] = Idle /\ call[d].at # "add"
    BY <1>2 DEF AddCallback, CallStarts, Locked, Idle
  <2>6. lost' = lost
    BY <1>2 DEF AddCallback
  <2>3. CASE UNCHANGED <<handle, live, leaky, call>>
             /\ (handlers' = handlers \/ handlers[k] # {})
    <3>1. \A j \in Kinds : handlers'[j] = {} <=> handlers[j] = {}
      BY <1>1, <1>2, <2>3 DEF AddCallback, TypeOK
    <3>2. QED
      BY <2>3, <2>6, <3>1, RegistrationUnchanged, SubscribedUnchanged
  <2>4. CASE /\ handlers[k] = {} /\ handlers' = handlers
             /\ handle' = [handle EXCEPT ![l] = id]
             /\ live' = [live EXCEPT ![l] = @ \union {id}]
             /\ leaky' = IF live[l] = {} THEN leaky ELSE leaky \union {l}
             /\ call' = [call EXCEPT ![c] = [at |-> "add", kind |-> k]]
    <3> HIDE DEF l
    <3>1. /\ handle[l] \in Nat /\ live[l] \subseteq 1..handle[l]
          /\ id \notin live[l] /\ id \in Nat
      BY <1>1, <2>1 DEF TypeOK, HandlesAreUsed
    <3>2. /\ handle'[l] = id /\ live'[l] = live[l] \union {id}
          /\ \A s \in Sources \ {l} :
               handle'[s] = handle[s] /\ live'[s] = live[s]
      BY <1>1, <2>1, <2>4 DEF TypeOK
    <3>3. HandlesAreUsed'
      BY <3>1, <3>2 DEF HandlesAreUsed
    <3>4. /\ call'[c].at = "add" /\ call'[c].kind = k
          /\ \A d \in Clients \ {c} : call'[d] = call[d]
      BY <1>1, <2>4 DEF TypeOK
    <3>5. Subscribed(l)' = Subscribed(l) \union {k} /\ k \notin Subscribed(l)
      BY <2>1, <2>2, <2>4, <3>4 DEF Subscribed
    <3>6. ASSUME NEW s \in Sources \ {l}
          PROVE  Subscribed(s)' = Subscribed(s)
      <4>1. k \notin KindsOf(s)
        BY <3>6 DEF KindsOf, l
      <4>2. QED
        BY <2>2, <2>4, <3>4, <4>1 DEF Subscribed
    <3>7. Cardinality(live'[l]) = Cardinality(live[l]) + 1
      <4>1. IsFiniteSet(live[l])
        BY <1>1, <2>1, LiveIsFinite
      <4>2. Cardinality(live[l] \union {id}) = Cardinality(live[l]) + 1
        BY <3>1, <4>1, FS_AddElement
      <4>3. QED
        BY <3>2, <4>2
    <3>8. Cardinality(Subscribed(l)') = Cardinality(Subscribed(l)) + 1
      BY <1>1, <2>1, <3>5, SubscribedFits, FS_AddElement
    <3>9. Cardinality(live'[l]) + lost'[l] >= Cardinality(Subscribed(l)')
      <4>1. Cardinality(live[l]) + lost[l] >= Cardinality(Subscribed(l))
        BY <2>1 DEF SubscribedIsRegistered
      <4>2. /\ Cardinality(live[l]) \in Nat /\ lost[l] \in Nat
            /\ Cardinality(Subscribed(l)) \in Nat
        BY <1>1, <2>1, LiveIsFinite, SubscribedFits DEF TypeOK
      <4>3. QED
        BY <2>6, <3>7, <3>8, <4>1, <4>2
    <3>10. l \notin leaky' => live'[l] = {handle'[l]} /\ Subscribed(l)' # {}
      BY <2>4, <3>2, <3>5
    <3>11. \A s \in Sources \ {l} : s \notin leaky' => s \notin leaky
      BY <2>4
    <3>12. SubscribedIsRegistered'
      BY <2>6, <3>2, <3>6, <3>9, <3>10, <3>11 DEF SubscribedIsRegistered
    <3>13. QED
      BY <3>3, <3>12
  <2>5. QED
    BY <1>2, <2>3, <2>4 DEF AddCallback
<1>3. ASSUME NEW c \in Clients, NEW k \in Kinds, RemoveCallback(c, k)
      PROVE  HandlesAreUsed' /\ SubscribedIsRegistered'
  <2> DEFINE l == SourceOf(k)
             gone == live' # live /\ c \notin handlers[k]
  <2>1. l \in Sources /\ k \in KindsOf(l)
    BY Listeners
  <2>2. /\ \A d \in Clients : call[d].at # "add"
        /\ call' = call /\ handle' = handle
        /\ handlers' = [handlers EXCEPT ![k] = @ \ {c}]
    BY <1>3 DEF RemoveCallback, CallStarts, Locked, Idle
  <2>6. /\ lost' \in [Sources -> Nat] /\ lost \in [Sources -> Nat]
        /\ \A t \in Sources \ {l} : lost'[t] = lost[t]
        /\ (\E j \in KindsOf(l) : handlers'[j] # {}) =>
             lost'[l] = IF gone THEN lost[l] + 1 ELSE lost[l]
    BY <1>1, <1>3, LostCounts DEF TypeOK
  <2>3. CASE ~ NoOtherHandler(c, k) /\ UNCHANGED <<live, leaky>>
    <3>1. \A j \in Kinds : handlers'[j] = {} <=> handlers[j] = {}
      BY <1>1, <2>2, <2>3 DEF TypeOK, NoOtherHandler
    <3>2. handlers'[k] # {} /\ ~ gone
      BY <1>1, <2>2, <2>3 DEF TypeOK, NoOtherHandler
    <3>3. \A t \in Sources : lost'[t] = lost[t]
      BY <2>1, <2>6, <3>2
    <3>4. lost' = lost
      BY <2>6, <3>3
    <3>5. QED
      BY <2>2, <2>3, <3>1, <3>4, RegistrationUnchanged, SubscribedUnchanged
  <2>4. CASE /\ NoOtherHandler(c, k)
             /\ \/ live' = [live EXCEPT ![l] = @ \ {handle[l]}]
                   /\ leaky' = leaky
                \/ live' = live /\ leaky' = leaky \union {l}
    <3> HIDE DEF l, gone
    <3>1. /\ live'[l] = live[l] \/ live'[l] = live[l] \ {handle[l]}
          /\ l \notin leaky' => l \notin leaky
                             /\ live'[l] = live[l] \ {handle[l]}
          /\ \A s \in Sources \ {l} :
               live'[s] = live[s] /\ (s \notin leaky' => s \notin leaky)
          /\ live'[l] # live[l] => live' # live
      BY <1>1, <2>1, <2>4 DEF TypeOK
    <3>2. HandlesAreUsed'
      BY <2>2, <3>1 DEF HandlesAreUsed
    <3>3. /\ handlers'[k] = {} /\ (handlers[k] # {} <=> c \in handlers[k])
          /\ \A j \in Kinds \ {k} : handlers'[j] = handlers[j]
      BY <1>1, <2>2, <2>4 DEF TypeOK, NoOtherHandler
    <3>4. /\ Subscribed(l)' = Subscribed(l) \ {k}
          /\ k \in Subscribed(l) <=> c \in handlers[k]
          /\ Subscribed(l)' # {} => \E j \in KindsOf(l) : handlers'[j] # {}
      BY <2>1, <2>2, <3>3, Listeners DEF Subscribed
    <3>5. ASSUME NEW s \in Sources \ {l}
          PROVE  Subscribed(s)' = Subscribed(s)
      <4>1. k \notin KindsOf(s)
        BY <3>5 DEF KindsOf, l
      <4>2. QED
        BY <2>2, <3>3, <4>1, Listeners DEF Subscribed
    <3>6. /\ Cardinality(live[l]) \in Nat /\ IsFiniteSet(live[l])
          /\ Cardinality(Subscribed(l)) \in Nat /\ IsFiniteSet(Subscribed(l))
          /\ Cardinality(live[l]) + lost[l] >= Cardinality(Subscribed(l))
          /\ lost[l] \in Nat /\ lost'[l] \in Nat
      BY <1>1, <2>1, <2>6, LiveIsFinite, SubscribedFits
         DEF SubscribedIsRegistered
    <3>7. Cardinality(Subscribed(l)') =
            IF c \in handlers[k] THEN Cardinality(Subscribed(l)) - 1
                                 ELSE Cardinality(Subscribed(l))
      BY <3>4, <3>6, FS_RemoveElement
    <3>8. /\ Cardinality(live'[l]) >= Cardinality(live[l]) - 1
          /\ Cardinality(live'[l]) \in Nat
      <4>1. Cardinality(live[l] \ {handle[l]}) =
              IF handle[l] \in live[l] THEN Cardinality(live[l]) - 1
                                       ELSE Cardinality(live[l])
        BY <3>6, FS_RemoveElement
      <4>2. IsFiniteSet(live'[l]) /\ Cardinality(live'[l]) \in Nat
        BY <1>1, <2>1, <3>2, LiveIsFinite, <3>1, <3>6, FS_Subset,
           FS_CardinalityType
      <4>3. CASE live'[l] = live[l]
        BY <3>6, <4>3
      <4>4. CASE live'[l] = live[l] \ {handle[l]}
        BY <3>6, <4>1, <4>2, <4>4
      <4>5. QED
        BY <3>1, <4>3, <4>4
    <3>9. l \notin leaky' => live'[l] = {}
      BY <2>1, <3>1 DEF SubscribedIsRegistered
    <3>10. Cardinality(live'[l]) + lost'[l] >= Cardinality(Subscribed(l)')
      <4>1. CASE Subscribed(l)' = {}
        BY <3>6, <3>8, <4>1, FS_EmptySet
      <4>2. CASE Subscribed(l)' # {} /\ c \in handlers[k]
        <5>1. lost'[l] = lost[l]
          BY <2>6, <3>4, <4>2 DEF gone
        <5>2. Cardinality(Subscribed(l)') = Cardinality(Subscribed(l)) - 1
          BY <3>7, <4>2
        <5>3. QED
          BY <3>6, <3>8, <5>1, <5>2
      <4>3. CASE Subscribed(l)' # {} /\ c \notin handlers[k]
        <5>1. lost'[l] = IF gone THEN lost[l] + 1 ELSE lost[l]
          BY <2>6, <3>4, <4>3
        <5>2. Cardinality(Subscribed(l)') = Cardinality(Subscribed(l))
          BY <3>7, <4>3
        <5>3. CASE live'[l] = live[l]
          BY <3>6, <5>1, <5>2, <5>3
        <5>4. CASE live'[l] # live[l]
          <6>1. lost'[l] = lost[l] + 1
            BY <3>1, <4>3, <5>1, <5>4 DEF gone
          <6>2. QED
            BY <3>6, <3>8, <5>2, <6>1
        <5>5. QED
          BY <5>3, <5>4
      <4>4. QED
        BY <4>1, <4>2, <4>3
    <3>11. SubscribedIsRegistered'
      BY <2>2, <2>6, <3>1, <3>5, <3>9, <3>10 DEF SubscribedIsRegistered
    <3>12. QED
      BY <3>2, <3>11
  <2>5. QED
    BY <1>3, <2>3, <2>4 DEF RemoveCallback
<1>4. ASSUME NEW c \in Clients, HandlerIsAdded(c)
      PROVE  HandlesAreUsed' /\ SubscribedIsRegistered'
  <2>1. /\ call[c].at = "add" /\ call[c].kind \in Kinds
        /\ handlers' = [handlers EXCEPT ![call[c].kind] = @ \union {c}]
        /\ call' = [call EXCEPT ![c] = Idle]
        /\ UNCHANGED <<handle, live, leaky, lost>>
    BY <1>4, CallsFit DEF HandlerIsAdded
  <2>2. /\ handlers'[call[c].kind] # {} /\ call'[c].at # "add"
        /\ \A j \in Kinds \ {call[c].kind} : handlers'[j] = handlers[j]
        /\ \A d \in Clients \ {c} : call'[d] = call[d]
    BY <1>1, <2>1 DEF TypeOK, Idle
  <2>3. \A s \in Sources : Subscribed(s)' = Subscribed(s)
    BY <2>1, <2>2, Listeners DEF Subscribed
  <2>4. QED
    BY <2>1, <2>3, RegistrationUnchanged
<1>5. ASSUME NEW c \in Clients,
             GetterStores(c) \/ \E k \in Kinds : Getter(c, k)
      PROVE  HandlesAreUsed' /\ SubscribedIsRegistered'
  <2>1. UNCHANGED <<handlers, handle, live, leaky, lost>>
    BY <1>5 DEF GetterStores, Getter
  <2>2. /\ call[c].at # "add" /\ call'[c].at # "add"
        /\ \A d \in Clients \ {c} : call'[d] = call[d]
    <3>1. CASE GetterStores(c)
      BY <1>1, <3>1 DEF GetterStores, TypeOK, Idle
    <3>2. ASSUME NEW k \in Kinds, Getter(c, k)
          PROVE  /\ call[c].at # "add" /\ call'[c].at # "add"
                 /\ \A d \in Clients \ {c} : call'[d] = call[d]
      <4>1. call[c].at # "add"
        BY <3>2 DEF Getter, Locked, Idle
      <4>2. \/ call' = call
            \/ call' = [call EXCEPT ![c] = [at |-> "get", kind |-> k,
                                      value |-> Snapshot(SourceOf(k))]]
        BY <3>2 DEF Getter
      <4>3. QED
        BY <1>1, <4>1, <4>2 DEF TypeOK
    <3>3. QED
      BY <1>5, <3>1, <3>2
  <2>3. \A s \in Sources : Subscribed(s)' = Subscribed(s)
    BY <2>1, <2>2, SubscribedUnchanged
  <2>4. QED
    BY <2>1, <2>3, RegistrationUnchanged
<1>6. CASE \/ \E s \in Sources : Change(s)
           \/ \E s \in Sources : \E id \in due[s] : CallbackStarts(s, id)
           \/ CallbackGoesOn \/ \E k \in Kinds : Notify(k)
           \/ UNCHANGED vars
  <2>1. UNCHANGED <<handlers, handle, live, leaky, lost, call>>
    BY <1>6 DEF Change, CallbackStarts, CallbackGoesOn, Process, Fire, Compare,
       LoadNew, StoreOld, ResetSuspend, Notify, vars
  <2>2. QED
    BY <2>1, RegistrationUnchanged, SubscribedUnchanged
<1>7. QED
  BY <1>2, <1>3, <1>4, <1>5, <1>6 DEF Next

-----------------------------------------------------------------------------
(* What keeps the snapshots of a listener that are on their way.           *)
LEMMA WaitingUnchanged ==
  ASSUME NEW s \in Sources,
         \A r : r.source = s =>
           (r \in running' /\ r.at = "process" <=>
              r \in running /\ r.at = "process"),
         \A c \in Clients : \/ call'[c] = call[c]
                            \/ call'[c].at # "get" /\ call[c].at # "get"
                            \/ /\ call'[c].at = "get" =>
                                    SourceOf(call'[c].kind) # s
                               /\ call[c].at = "get" =>
                                    SourceOf(call[c].kind) # s
  PROVE  Waiting(s)' = Waiting(s)
<1>1. {q \in running' : q.source = s /\ q.at = "process"} =
      {q \in running : q.source = s /\ q.at = "process"}
  OBVIOUS
<1>2. \A v : v \in Waiting(s)' <=> v \in Waiting(s)
  BY <1>1 DEF Waiting
<1>3. QED
  BY <1>2

(* What keeps a listener current.                                          *)
LEMMA CurrentStays ==
  ASSUME NEW s \in Sources, CurrentAt(s),
         live'[s] \subseteq due'[s] \/ ~ (live[s] \subseteq due[s]),
         \A k \in KindsOf(s) : os'[k] = os[k],
         \A k \in KindsOf(s) \ {Suspend} : cache'[k] = cache[k],
         Waiting(s)' = Waiting(s)
  PROVE  CurrentAt(s)'
<1>1. Snapshot(s)' = Snapshot(s)
  BY DEF Snapshot
<1>2. QED
  BY <1>1 DEF CurrentAt

(* A snapshot that was on its way is stored.                               *)
LEMMA CurrentStored ==
  ASSUME TypeInv, NEW s \in Sources, CurrentAt(s),
         UNCHANGED <<live, due, os>>,
         NEW v \in Waiting(s), v \in [KindsOf(s) -> AnyValue],
         cache' = Stored(v), Waiting(s)' \subseteq Waiting(s)
  PROVE  CurrentAt(s)'
<1> SUFFICES ASSUME ~ (live[s] \subseteq due[s])
             PROVE  CurrentAt(s)'
  BY DEF CurrentAt
<1>1. Snapshot(s)' = Snapshot(s) /\ v = Snapshot(s)
  BY DEF Snapshot, CurrentAt
<1>2. \A w \in Waiting(s)' : w = Snapshot(s)
  BY DEF CurrentAt
<1>3. ASSUME NEW k \in KindsOf(s), os[k] # Unknown PROVE cache'[k] = os[k]
  <2>1. v[k] = os[k]
    BY <1>1 DEF Snapshot
  <2>2. QED
    BY <1>3, <2>1, ValuesFit DEF TypeInv
<1>4. QED
  BY <1>1, <1>2, <1>3 DEF CurrentAt

(* Who takes a snapshot takes the present values.                          *)
LEMMA CurrentTaken ==
  ASSUME NEW s \in Sources,
         ~ (live'[s] \subseteq due'[s]) =>
           \A v \in Waiting(s) : v = Snapshot(s),
         UNCHANGED os, Waiting(s)' = Waiting(s) \union {Snapshot(s)}
  PROVE  CurrentAt(s)'
<1>1. Snapshot(s)' = Snapshot(s)
  BY DEF Snapshot
<1>2. QED
  BY <1>1 DEF CurrentAt

(* Every step keeps what was told current: one case for each that takes,   *)
(* stores or outdates a snapshot.                                          *)
LEMMA CurrentInvariant ==
  TypeInv /\ ToldIsCurrent /\ [Next]_vars => ToldIsCurrent'
<1> SUFFICES ASSUME TypeInv, ToldIsCurrent, [Next]_vars,
                    NEW s \in Sources, s \notin raced'
             PROVE  CurrentAt(s)'
  BY DEF ToldIsCurrent
<1>1. /\ TypeOK /\ SnapshotsFit /\ live \in [Sources -> SUBSET Nat]
      /\ due \in [Sources -> SUBSET Nat] /\ call \in [Clients -> Calls]
      /\ cache \in [Kinds -> AnyValue] /\ os \in [Kinds -> AnyValue]
  BY DEF TypeInv, TypeOK
<1>2. s \notin raced /\ CurrentAt(s)
  <2>1. raced \subseteq raced'
    BY DEF Next, vars, AddCallback, RemoveCallback, Getter, HandlerIsAdded,
       GetterStores, Change, CallbackStarts, CallbackGoesOn, Process, Fire,
       Compare, LoadNew, StoreOld, ResetSuspend, Notify
  <2>2. QED
    BY <2>1 DEF ToldIsCurrent
<1>3. ASSUME NEW c \in Clients, NEW k \in Kinds, AddCallback(c, k)
      PROVE  CurrentAt(s)'
  <2> DEFINE l == SourceOf(k)
             id == handle[l] + 1
  <2>1. UNCHANGED <<running, os, cache>>
    BY <1>3 DEF AddCallback
  <2>2. \/ UNCHANGED <<live, due>>
        \/ /\ live' = [live EXCEPT ![l] = @ \union {id}]
           /\ due' = [due EXCEPT ![l] = @ \union {id}]
    BY <1>3 DEF AddCallback
  <2>3. \A d \in Clients : \/ call'[d] = call[d]
                           \/ call'[d].at # "get" /\ call[d].at # "get"
    <3>1. \A d \in Clients : call[d].at # "get"
      BY <1>3 DEF AddCallback, CallStarts, Locked, Idle
    <3>2. \/ call' = call
          \/ call' = [call EXCEPT ![c] = [at |-> "add", kind |-> k]]
      BY <1>3 DEF AddCallback
    <3>3. QED
      BY <1>1, <3>1, <3>2
  <2>4. Waiting(s)' = Waiting(s)
    BY <2>1, <2>3, WaitingUnchanged
  <2>5. live'[s] \subseteq due'[s] \/ ~ (live[s] \subseteq due[s])
    <3> HIDE DEF l, id
    <3>1. QED
      BY <1>1, <2>2
  <2>6. QED
    BY <1>2, <2>1, <2>4, <2>5, CurrentStays
<1>4. ASSUME NEW c \in Clients, NEW k \in Kinds, RemoveCallback(c, k)
      PROVE  CurrentAt(s)'
  <2> DEFINE l == SourceOf(k)
  <2>1. UNCHANGED <<running, os, cache, call>>
    BY <1>4 DEF RemoveCallback
  <2>2. \/ UNCHANGED <<live, due>>
        \/ /\ live' = [live EXCEPT ![l] = @ \ {handle[l]}]
           /\ due' = [due EXCEPT ![l] = @ \ {handle[l]}]
    BY <1>4 DEF RemoveCallback
  <2>3. Waiting(s)' = Waiting(s)
    BY <2>1, WaitingUnchanged
  <2>4. live'[s] \subseteq due'[s] \/ ~ (live[s] \subseteq due[s])
    <3> HIDE DEF l
    <3>1. QED
      BY <1>1, <2>2
  <2>5. QED
    BY <1>2, <2>1, <2>3, <2>4, CurrentStays
<1>5. ASSUME NEW c \in Clients, NEW k \in Kinds, Getter(c, k)
      PROVE  CurrentAt(s)'
  <2> DEFINE l == SourceOf(k)
             new == [at |-> "get", kind |-> k, value |-> Snapshot(l)]
  <2>1. UNCHANGED <<live, due, running, os, cache>>
    BY <1>5 DEF Getter
  <2>2. call' = call \/ call' = [call EXCEPT ![c] = new]
    BY <1>5 DEF Getter
  <2>3. call[c].at # "get"
    BY <1>5 DEF Getter, Locked, Idle
  <2>4. CASE call' = call
    BY <1>2, <2>1, <2>4, WaitingUnchanged, CurrentStays
  <2>5. CASE call' = [call EXCEPT ![c] = new] /\ l # s
    <3>1. /\ SourceOf(call'[c].kind) # s
          /\ \A d \in Clients \ {c} : call'[d] = call[d]
      BY <1>1, <2>5
    <3>2. Waiting(s)' = Waiting(s)
      BY <2>1, <2>3, <3>1, WaitingUnchanged
    <3>3. QED
      BY <1>2, <2>1, <3>2, CurrentStays
  <2>6. CASE call' = [call EXCEPT ![c] = new] /\ l = s
    <3>1. /\ call'[c].at = "get" /\ SourceOf(call'[c].kind) = s
          /\ call'[c].value = Snapshot(s)
          /\ \A d \in Clients \ {c} : call'[d] = call[d]
      BY <1>1, <2>6
    <3>2. \A v : v \in Waiting(s)' <=> v \in Waiting(s) \/ v = Snapshot(s)
      BY <2>1, <2>3, <3>1 DEF Waiting
    <3>3. Waiting(s)' = Waiting(s) \union {Snapshot(s)}
      BY <3>2
    <3>4. ~ (live'[s] \subseteq due'[s]) =>
            \A v \in Waiting(s) : v = Snapshot(s)
      BY <1>2, <2>1 DEF CurrentAt
    <3>5. QED
      BY <2>1, <3>3, <3>4, CurrentTaken
  <2>7. QED
    BY <2>2, <2>4, <2>5, <2>6
<1>6. ASSUME NEW c \in Clients, HandlerIsAdded(c) PROVE CurrentAt(s)'
  <2>1. /\ UNCHANGED <<live, due, running, os, cache>>
        /\ call' = [call EXCEPT ![c] = Idle] /\ call[c].at = "add"
    BY <1>6 DEF HandlerIsAdded
  <2>2. Waiting(s)' = Waiting(s)
    BY <1>1, <2>1, WaitingUnchanged DEF Idle
  <2>3. QED
    BY <1>2, <2>1, <2>2, CurrentStays
<1>7. ASSUME NEW c \in Clients, GetterStores(c) PROVE CurrentAt(s)'
  <2> DEFINE l == SourceOf(call[c].kind)
             v == call[c].value
  <2>1. /\ UNCHANGED <<live, due, running, os>> /\ call[c].at = "get"
        /\ call' = [call EXCEPT ![c] = Idle] /\ cache' = Stored(v)
    BY <1>7 DEF GetterStores
  <2>2. /\ call[c].kind \in Kinds /\ v \in [KindsOf(l) -> AnyValue]
        /\ l \in Sources
    BY <2>1, CallsFit, Listeners
  <2>3. /\ call'[c].at = "idle"
        /\ \A d \in Clients \ {c} : call'[d] = call[d]
    BY <1>1, <2>1 DEF Idle
  <2>4. CASE l = s
    <3>1. v \in Waiting(s)
      BY <2>1, <2>4 DEF Waiting
    <3>2. Waiting(s)' \subseteq Waiting(s)
      BY <2>1, <2>3 DEF Waiting
    <3>3. QED
      BY <1>2, <2>1, <2>2, <2>4, <3>1, <3>2, CurrentStored
  <2>5. CASE l # s
    <3>1. Waiting(s)' = Waiting(s)
      BY <2>1, <2>3, <2>5, WaitingUnchanged
    <3>2. \A k \in KindsOf(s) : k \in Kinds \ KindsOf(l)
      BY <2>5 DEF KindsOf
    <3>3. \A k \in KindsOf(s) : cache'[k] = cache[k]
      BY <1>1, <2>1, <2>2, <3>2, ValuesFit
    <3>4. QED
      BY <1>2, <2>1, <3>1, <3>3, CurrentStays
  <2>6. QED
    BY <2>4, <2>5
<1>8. ASSUME NEW t \in Sources, Change(t) PROVE CurrentAt(s)'
  <2>1. /\ UNCHANGED <<live, running, cache, call>>
        /\ due' = [due EXCEPT ![t] = live[t]]
        /\ \A k \in Kinds \ KindsOf(t) : os'[k] = os[k]
    BY <1>1, <1>8 DEF Change
  <2>2. CASE s = t
    BY <1>1, <2>1, <2>2 DEF CurrentAt
  <2>3. CASE s # t
    <3>1. \A k \in KindsOf(s) : k \in Kinds \ KindsOf(t)
      BY <2>3 DEF KindsOf
    <3>2. due'[s] = due[s]
      BY <1>1, <2>1, <2>3
    <3>3. Waiting(s)' = Waiting(s)
      BY <2>1, WaitingUnchanged
    <3>4. QED
      BY <1>2, <2>1, <3>1, <3>2, <3>3, CurrentStays
  <2>4. QED
    BY <2>2, <2>3
<1>9. ASSUME NEW t \in Sources, NEW id \in due[t], CallbackStarts(t, id)
      PROVE  CurrentAt(s)'
  <2> DEFINE new == [source |-> t, id |-> id, value |-> Snapshot(t),
                     at |-> "process", left |-> {}, kind |-> Status,
                     read |-> Unknown]
  <2>1. /\ UNCHANGED <<live, os, cache, call>>
        /\ running' = running \union {new}
        /\ due' = [due EXCEPT ![t] = @ \ {id}]
        /\ raced' = IF OlderIsPending(t) THEN raced \union {t} ELSE raced
    BY <1>9 DEF CallbackStarts
  <2>2. CASE s = t
    <3>1. \A v \in Waiting(s) : v = Snapshot(s)
      BY <2>1, <2>2 DEF OlderIsPending, Waiting
    <3>2. \A v : v \in Waiting(s)' <=> v \in Waiting(s) \/ v = Snapshot(s)
      <4>1. new.source = s /\ new.at = "process" /\ new.value = Snapshot(s)
        BY <2>2
      <4> HIDE DEF new
      <4>2. {q \in running' : q.source = s /\ q.at = "process"} =
            {q \in running : q.source = s /\ q.at = "process"} \union {new}
        BY <2>1, <4>1
      <4>3. QED
        BY <2>1, <4>1, <4>2 DEF Waiting
    <3>3. Waiting(s)' = Waiting(s) \union {Snapshot(s)}
      BY <3>2
    <3>4. QED
      BY <2>1, <3>1, <3>3, CurrentTaken
  <2>3. CASE s # t
    <3>1. due'[s] = due[s]
      BY <1>1, <2>1, <2>3
    <3>2. Waiting(s)' = Waiting(s)
      BY <2>1, <2>3, WaitingUnchanged
    <3>3. QED
      BY <1>2, <2>1, <3>1, <3>2, CurrentStays
  <2>4. QED
    BY <2>2, <2>3
<1>10. ASSUME NEW r \in running, Process(r) PROVE CurrentAt(s)'
  <2> DEFINE v == r.value
             l == r.source
  <2>1. /\ UNCHANGED <<live, due, os, call>> /\ r.at = "process"
        /\ cache' = Stored(v)
    BY <1>10 DEF Process
  <2>2. v \in [KindsOf(l) -> AnyValue] /\ l \in Sources
    BY <1>1 DEF SnapshotsFit, TypeOK, Callbacks
  <2>3. \A q : q.at = "process" => (q \in running' <=> q \in running /\ q # r)
    <3>1. r \in Callbacks
      BY <1>1 DEF TypeOK
    <3>2. PICK new : /\ new.at # "process"
                     /\ \/ running' = (running \ {r}) \union {new}
                        \/ running' = running \ {r}
      BY <1>1, <1>10, <3>1, CallbackSteps
    <3>3. QED
      BY <3>2
  <2>4. CASE l = s
    <3>1. v \in Waiting(s)
      BY <2>1, <2>4 DEF Waiting
    <3>2. Waiting(s)' \subseteq Waiting(s)
      BY <2>1, <2>3 DEF Waiting
    <3>3. QED
      BY <1>2, <2>1, <2>2, <2>4, <3>1, <3>2, CurrentStored
  <2>5. CASE l # s
    <3>1. Waiting(s)' = Waiting(s)
      BY <2>1, <2>3, <2>5, WaitingUnchanged
    <3>2. \A k \in KindsOf(s) : k \in Kinds \ KindsOf(l)
      BY <2>5 DEF KindsOf
    <3>3. \A k \in KindsOf(s) : cache'[k] = cache[k]
      BY <1>1, <2>1, <2>2, <3>2, ValuesFit
    <3>4. QED
      BY <1>2, <2>1, <3>1, <3>3, CurrentStays
  <2>6. QED
    BY <2>4, <2>5
<1>11. ASSUME NEW r \in running, Fire(r) \/ ResetSuspend(r)
       PROVE  CurrentAt(s)'
  <2>1. /\ UNCHANGED <<live, due, os, call>> /\ r.at # "process"
        /\ \A k \in Kinds \ {Suspend} : cache'[k] = cache[k]
    BY <1>1, <1>11 DEF Fire, Compare, LoadNew, StoreOld, ResetSuspend
  <2>2. \A q : q \in running' /\ q.at = "process" <=>
               q \in running /\ q.at = "process"
    <3>1. r \in Callbacks
      BY <1>1 DEF TypeOK
    <3>2. PICK new : /\ new.at # "process"
                     /\ \/ running' = (running \ {r}) \union {new}
                        \/ running' = running \ {r}
      BY <1>1, <1>11, <3>1, CallbackSteps
    <3>3. QED
      BY <2>1, <3>2
  <2>3. Waiting(s)' = Waiting(s)
    BY <2>1, <2>2, WaitingUnchanged
  <2>4. QED
    BY <1>2, <2>1, <2>3, CurrentStays, Listeners
<1>12. CASE (\E k \in Kinds : Notify(k)) \/ UNCHANGED vars
  <2>1. UNCHANGED <<live, due, running, os, cache, call>>
    BY <1>12 DEF Notify, vars
  <2>2. QED
    BY <1>2, <2>1, WaitingUnchanged, CurrentStays
<1>13. QED
  BY <1>3, <1>4, <1>5, <1>6, <1>7, <1>8, <1>9, <1>10, <1>11, <1>12
     DEF Next, CallbackGoesOn

-----------------------------------------------------------------------------
(* The inductive invariant of PowerManager.                                *)
THEOREM PowerInvariant == Spec => []PowerIInv
<1>1. Init => PowerIInv
  <2> SUFFICES ASSUME Init PROVE PowerIInv
    OBVIOUS
  <2>1. Unknown \in AnyValue /\ First \in AnyValue /\ Values \subseteq AnyValue
    BY PowerAssumption DEF AnyValue
  <2>2. TypeOK
    BY <2>1, PowerAssumption DEF Init, TypeOK, Calls
  <2>3. SnapshotsFit
    BY DEF Init, SnapshotsFit, Idle
  <2>4. HandlesAreUsed
    BY DEF Init, HandlesAreUsed
  <2>5. SubscribedIsRegistered
    <3>1. ASSUME NEW s \in Sources
          PROVE  Subscribed(s) = {} /\ live[s] = {} /\ lost[s] = 0
      BY Listeners DEF Init, Subscribed, Idle
    <3>2. Cardinality({}) = 0
      BY FS_EmptySet
    <3>3. QED
      BY <3>1, <3>2 DEF SubscribedIsRegistered
  <2>6. ToldIsCurrent
    BY DEF Init, ToldIsCurrent, CurrentAt
  <2>7. QED
    BY <2>2, <2>3, <2>4, <2>5, <2>6 DEF PowerIInv, TypeInv
<1>2. PowerIInv /\ [Next]_vars => PowerIInv'
  BY TypeInvariant, RegistrationInvariant, CurrentInvariant DEF PowerIInv
<1>3. QED
  BY <1>1, <1>2, PTL DEF Spec

(* Each event with a handler has a registration of its listener that       *)
(* Windows knows, but for those that were undone with a token the event    *)
(* did not know; and where nothing overlapped or failed there is none but  *)
(* that of m_...Handle; AddCallback and RemoveCallback, h 231-261 and cpp  *)
(* 49-111.                                                                 *)
THEOREM SubscriptionsAreRegistered == Spec => []PowerInv
<1>1. PowerIInv => PowerInv
  BY DEF PowerIInv, TypeInv, PowerInv
<1>2. QED
  BY <1>1, PowerInvariant, PTL

(* What a getter returns without asking Windows is the present value once  *)
(* every callback has run, unless an older snapshot was stored over a      *)
(* newer one, or unknown tokens undid as many registrations as there are   *)
(* events with handlers; UpdateValuesIfNecessary, h 271-279.               *)
THEOREM StoredValueIsCurrent == Spec => []CacheIsCurrent
<1>1. PowerIInv => CacheIsCurrent
  <2> SUFFICES ASSUME PowerIInv, NEW k \in Kinds \ {Suspend},
                      handlers[k] # {}, due[SourceOf(k)] = {},
                      os[k] # Unknown, SourceOf(k) \notin raced,
                      ~ Unfed(SourceOf(k)),
                      \A r \in running :
                        r.source # SourceOf(k) \/ r.at # "process",
                      \A c \in Clients : call[c].at = "get" =>
                        SourceOf(call[c].kind) # SourceOf(k)
               PROVE  cache[k] = os[k]
    BY DEF CacheIsCurrent
  <2> DEFINE s == SourceOf(k)
  <2>1. s \in Sources /\ k \in KindsOf(s) /\ TypeOK /\ HandlesAreUsed
    BY Listeners DEF PowerIInv, TypeInv
  <2>3. live[s] # {}
    <3>1. /\ Cardinality(Subscribed(s)) \in Nat /\ lost[s] \in Nat
          /\ ~ (lost[s] >= Cardinality(Subscribed(s)))
      BY <2>1, SubscribedFits DEF TypeOK, Unfed
    <3>2. Cardinality(live[s]) + lost[s] >= Cardinality(Subscribed(s))
      BY <2>1 DEF PowerIInv, SubscribedIsRegistered
    <3>3. Cardinality(live[s]) # 0
      BY <2>1, <3>1, <3>2, LiveIsFinite
    <3>4. QED
      BY <3>3, FS_EmptySet
  <2>4. Waiting(s) = {}
    BY DEF Waiting
  <2>5. CurrentAt(s)
    BY <2>1 DEF PowerIInv, ToldIsCurrent
  <2>6. QED
    BY <2>1, <2>3, <2>4, <2>5 DEF CurrentAt
<1>2. QED
  BY <1>1, PowerInvariant, PTL

=============================================================================
