---------------------- MODULE EnvironmentManagerProofs ----------------------
(***************************************************************************)
(* Proofs about EnvironmentManager, for any threads, processes, lists and  *)
(* values.  SupportInv, AppendInv and PreviousInv each follow one record   *)
(* of the code from the step that reads to the step that writes; TypeInv   *)
(* is the shape of the calls in progress, and RemovalInv says that what    *)
(* the tracker of a removal holds was true of the list it copied.          *)
(***************************************************************************)
EXTENDS EnvironmentManager, FiniteSetTheorems, WellFoundedInduction, TLAPS

(* A thread's call has the fields its next step reads.                     *)
CallsAreTyped ==
  /\ DOMAIN call = Threads
  /\ \A t \in Threads :
       /\ "at" \in DOMAIN call[t]
       /\ call[t].at # "idle" => "op" \in DOMAIN call[t]

(* IsSupported: between MarkChecked and MarkSupported a thread is at       *)
(* "mark".                                                                 *)
SupportInv == CallsAreTyped /\ SkippedIsExplained

(* AppendedValues: a call is tracked before its write, and an entry only   *)
(* goes when another tracker read before it was written.                   *)
AppendCallsAreTracked(t) ==
  call[t].at # "idle" /\ call[t].op = "append" =>
    /\ {"list", "part"} \subseteq DOMAIN call[t]
    /\ call[t].list \in Lists /\ call[t].part \in PartsOf[call[t].list]
    /\ (call[t].at = "write" /\ Tracked(t) /\ call[t].list \notin forgotten)
         => call[t].part \in ToSet(appended[call[t].list])

AppendInv ==
  /\ CallsAreTyped
  /\ DOMAIN appended = Lists /\ DOMAIN changed = Lists
  /\ \A l \in Lists \ forgotten : appended[l] \in Seq(PartsOf[l])
  /\ \A t \in Threads : AppendCallsAreTracked(t)
  /\ AppendsAreTracked

(* PreviousValue: until the package's first write one thread, the creator  *)
(* of the key, carries the value on.                                       *)
Creating == {"original", "previous"}
FlagsAreTyped == tracked \in BOOLEAN /\ interrupted \in BOOLEAN
CreatorsAreTracked ==
  \A t \in Threads :
    call[t].at \in Creating \union {"create", "current"} => Tracked(t)
OneCreatorCarriesIt ==
  before = <<>> /\ ~ interrupted =>
    /\ UnderWay = {} => ~ tracked
    /\ \A t, u \in Threads :
         call[t].at \in Creating /\ call[u].at \in Creating => t = u
    /\ UnderWay # {} => tracked
    /\ \A t \in Threads :
         call[t].at = "previous" =>
           "original" \in DOMAIN call[t] /\ call[t].original = variable
    /\ \A t \in UnderWay : call[t].at \in {"current", "set"} =>
         \/ previous = <<variable>>
         \/ \E u \in Threads : call[u].at \in Creating
ThenItStays ==
  before # <<>> /\ ~ interrupted =>
    /\ tracked /\ previous = before
    /\ \A t \in Threads : call[t].at \notin Creating

PreviousInv ==
  /\ CallsAreTyped /\ FlagsAreTyped /\ CreatorsAreTracked
  /\ OneCreatorCarriesIt /\ ThenItStays

-----------------------------------------------------------------------------
(* A step of one thread moves that thread; or a process ends.              *)
Moves(t) ==
  /\ DOMAIN call' = Threads
  /\ \A u \in Threads \ {t} : call'[u] = call[u]

LEMMA CallsStayTyped ==
  ASSUME CallsAreTyped, [Next]_vars
  PROVE  CallsAreTyped'
<1> USE DEF CallsAreTyped, Goes, GoesTo, Idle, AtWith
<1>1. ASSUME NEW t \in Threads, NEW c, Begin(t, c),
             "at" \in DOMAIN c, "op" \in DOMAIN c
      PROVE  CallsAreTyped'
  BY <1>1 DEF Begin
<1>2. ASSUME NEW t \in Threads, GoesOn(t)
      PROVE  CallsAreTyped'
  <2>1. CASE MarkChecked(t) \/ MarkSupported(t) \/ CreateKey(t)
             \/ SaveAppended(t) \/ SaveRemoved(t) \/ WritePrevious(t)
             \/ WriteCurrent(t)
    BY <2>1 DEF MarkChecked, MarkSupported, CreateKey, SaveAppended,
                SaveRemoved, WritePrevious, WriteCurrent
  <2>2. CASE AppendReads(t) \/ ReadAppended(t) \/ RemoveReads(t)
             \/ ReadIndex(t) \/ ReadRemoved(t) \/ ReadOriginal(t)
    BY <2>2 DEF AppendReads, ReadAppended, RemoveReads, ReadIndex,
                ReadRemoved, ReadOriginal
  <2>3. CASE WriteList(t) \/ SetValue(t) \/ WriteFails(t)
    BY <2>3 DEF WriteList, SetValue, WriteFails
  <2>4. QED
    BY <1>2, <2>1, <2>2, <2>3 DEF GoesOn
<1>3. ASSUME NEW p \in Processes, Crash(p)
      PROVE  CallsAreTyped'
  BY <1>3 DEF Crash
<1>4. CASE UNCHANGED vars
  BY <1>4 DEF vars
<1>5. QED
  BY <1>1, <1>2, <1>3, <1>4
     DEF Next, AppendToPath, RemoveFromPath, AddExecutableFileExtension,
         RemoveExecutableFileExtension, SetEnvironmentVariable, ListCall

-----------------------------------------------------------------------------
LEMMA SupportStep ==
  ASSUME SupportInv, [Next]_vars
  PROVE  SupportInv'
<1>1. CallsAreTyped'
  BY CallsStayTyped DEF SupportInv
<1> USE DEF SupportInv, CallsAreTyped, SkippedIsExplained, Goes, GoesTo, Idle,
            AtWith, support
<1>2. ASSUME NEW t \in Threads, NEW c, Begin(t, c)
      PROVE  SkippedIsExplained'
  BY <1>2 DEF Begin
<1>3. ASSUME NEW t \in Threads, GoesOn(t)
      PROVE  SkippedIsExplained'
  <2>1. CASE MarkChecked(t)
    BY <2>1 DEF MarkChecked
  <2>2. CASE MarkSupported(t)
    BY <2>2 DEF MarkSupported
  <2>3. CASE AppendReads(t) \/ ReadAppended(t) \/ SaveAppended(t)
             \/ WriteList(t) \/ WriteFails(t)
    BY <2>3 DEF AppendReads, ReadAppended, SaveAppended, WriteList,
                WriteFails
  <2>4. CASE RemoveReads(t) \/ ReadIndex(t) \/ ReadRemoved(t)
             \/ SaveRemoved(t)
    BY <2>4 DEF RemoveReads, ReadIndex, ReadRemoved, SaveRemoved
  <2>5. CASE CreateKey(t) \/ ReadOriginal(t) \/ WritePrevious(t)
             \/ WriteCurrent(t) \/ SetValue(t)
    BY <2>5 DEF CreateKey, ReadOriginal, WritePrevious, WriteCurrent, SetValue
  <2>6. QED
    BY <1>3, <2>1, <2>2, <2>3, <2>4, <2>5 DEF GoesOn
<1>4. ASSUME NEW p \in Processes, Crash(p)
      PROVE  SkippedIsExplained'
  BY <1>4 DEF Crash
<1>5. CASE UNCHANGED vars
  BY <1>5 DEF vars
<1>6. QED
  BY <1>1, <1>2, <1>3, <1>4, <1>5
     DEF Next, AppendToPath, RemoveFromPath, AddExecutableFileExtension,
         RemoveExecutableFileExtension, SetEnvironmentVariable

(* A call is skipped as unsupported only while IsSupported is between its  *)
(* two writes in another thread of the process, or after it failed (cpp    *)
(* 60-72).                                                                 *)
THEOREM SkipsAreExplained == Spec => []SkippedIsExplained
<1>1. Init => SupportInv
  BY DEF Init, SupportInv, CallsAreTyped, SkippedIsExplained, Idle
<1>2. SupportInv /\ [Next]_vars => SupportInv'
  BY SupportStep
<1>3. SupportInv => SkippedIsExplained
  BY DEF SupportInv
<1>4. QED
  BY <1>1, <1>2, <1>3, PTL DEF Spec

-----------------------------------------------------------------------------
(* PreviousValue.                                                          *)
LEMMA PreviousStep ==
  ASSUME PreviousInv, [Next]_vars
  PROVE  PreviousInv'
<1>1. CallsAreTyped'
  BY CallsStayTyped DEF PreviousInv
<1> USE DEF PreviousInv, CallsAreTyped, FlagsAreTyped, CreatorsAreTracked,
            OneCreatorCarriesIt, ThenItStays, Creating, UnderWay, Tracked,
            Goes, GoesTo, Idle, AtWith, data
(* Steps that only move a thread between other steps, or start a call      *)
<1>2. ASSUME NEW t \in Threads, Moves(t),
             UNCHANGED <<tracked, previous, variable, before, interrupted>>,
             call[t].at \notin {"create", "original", "previous", "set"},
             call'[t].at \notin {"original", "previous"},
             call[t].at # "current", call'[t].at # "current",
             call'[t].at = "create" => Tracked(t),
             call'[t].at = "set" => ~ Tracked(t)
      PROVE  PreviousInv'
  <2>1. UnderWay' = UnderWay
    BY <1>2 DEF Moves
  <2>2. QED
    BY <1>1, <1>2, <2>1 DEF Moves
<1>3. ASSUME NEW t \in Threads, NEW c, Begin(t, c), "at" \in DOMAIN c
      PROVE  PreviousInv'
  BY <1>2, <1>3 DEF Begin, Moves, FirstStep, tracking
<1>4. ASSUME NEW t \in Threads, GoesOn(t)
      PROVE  PreviousInv'
  <2>1. CASE MarkChecked(t) \/ MarkSupported(t)
    BY <1>2, <2>1 DEF MarkChecked, MarkSupported, Moves, FirstStep, tracking
  <2>2. CASE AppendReads(t) \/ ReadAppended(t) \/ SaveAppended(t)
             \/ WriteList(t)
    BY <1>2, <2>2 DEF AppendReads, ReadAppended, SaveAppended, WriteList,
                      Moves, tracking
  <2>3. CASE RemoveReads(t) \/ ReadIndex(t) \/ ReadRemoved(t)
             \/ SaveRemoved(t)
    BY <1>2, <2>3 DEF RemoveReads, ReadIndex, ReadRemoved, SaveRemoved,
                      Moves, tracking
  <2>4. CASE CreateKey(t)
    BY <1>1, <2>4 DEF CreateKey
  <2>5. CASE ReadOriginal(t)
    BY <1>1, <2>5 DEF ReadOriginal, tracking
  <2>6. CASE WritePrevious(t)
    BY <1>1, <2>6 DEF WritePrevious
  <2>10. CASE WriteCurrent(t)
    BY <1>1, <2>10 DEF WriteCurrent
  <2>7. CASE SetValue(t)
    <3>1. /\ call'[t].at = "idle"
          /\ \A u \in Threads \ {t} : call'[u] = call[u]
          /\ tracked' = tracked /\ previous' = previous
          /\ interrupted' \in BOOLEAN
          /\ ~ interrupted' => ~ interrupted
                              /\ (before = <<>> => UnderWay \ {t} = {})
      BY <2>7 DEF SetValue, tracking, CutShort
    <3>2. FlagsAreTyped' /\ CreatorsAreTracked'
      BY <3>1
    <3>3. OneCreatorCarriesIt'
      <4> SUFFICES ASSUME before' = <<>>, ~ interrupted'
                   PROVE  OneCreatorCarriesIt'
        OBVIOUS
      <4>1. <<variable>> # <<>>
        OBVIOUS
      <4>2. before = <<>> /\ ~ Tracked(t) /\ UnderWay \ {t} = {}
        BY <2>7, <3>1, <4>1 DEF SetValue
      <4>3. UnderWay = {} /\ UnderWay' = {}
        BY <3>1, <4>2
      <4>4. \A u \in Threads : call'[u].at \notin Creating
        BY <3>1, <3>2, <4>3
      <4>5. ~ tracked'
        BY <3>1, <4>2, <4>3
      <4>6. QED
        BY <4>3, <4>4, <4>5
    <3>4. ThenItStays'
      <4> SUFFICES ASSUME before' # <<>>, ~ interrupted'
                   PROVE  ThenItStays'
        OBVIOUS
      <4>1. CASE before # <<>>
        BY <2>7, <3>1, <4>1 DEF SetValue
      <4>2. CASE before = <<>>
        <5>1. Tracked(t) /\ before' = <<variable>> /\ UnderWay \ {t} = {}
          BY <2>7, <3>1, <4>2 DEF SetValue
        <5>2. \A u \in Threads : call[u].at \notin Creating
          BY <2>7, <5>1 DEF SetValue
        <5>3. t \in UnderWay /\ call[t].at = "set"
          BY <2>7, <5>1 DEF SetValue
        <5>4. tracked /\ previous = <<variable>>
          BY <3>1, <4>2, <5>2, <5>3
        <5>5. QED
          BY <3>1, <5>1, <5>2, <5>4
      <4>3. QED
        BY <4>1, <4>2
    <3>5. QED
      BY <1>1, <3>2, <3>3, <3>4
  <2>8. CASE WriteFails(t)
    BY <1>1, <2>8 DEF WriteFails, tracking, CutShort
  <2>9. QED
    BY <1>4, <2>1, <2>2, <2>3, <2>4, <2>5, <2>6, <2>7, <2>8, <2>10 DEF GoesOn
<1>5. ASSUME NEW p \in Processes, Crash(p)
      PROVE  PreviousInv'
  BY <1>1, <1>5 DEF Crash, tracking, CutShort
<1>6. CASE UNCHANGED vars
  BY <1>1, <1>6 DEF vars, tracking
<1>7. ASSUME NEW t \in Threads, NEW op, NEW l, NEW part,
             Begin(t, ListCall(op, l, part))
      PROVE  PreviousInv'
  BY <1>3, <1>7 DEF ListCall
<1>8. ASSUME NEW t \in Threads, NEW v, SetEnvironmentVariable(t, v)
      PROVE  PreviousInv'
  BY <1>3, <1>8 DEF SetEnvironmentVariable
<1> HIDE DEF PreviousInv
<1>9. QED
  BY <1>4, <1>5, <1>6, <1>7, <1>8
     DEF Next, AppendToPath, RemoveFromPath, AddExecutableFileExtension,
         RemoveExecutableFileExtension

(* PreviousValue is what the package's first write replaced, unless that   *)
(* first call was interrupted (EnvironmentVariableChangeTracker.cpp        *)
(* 50-59).                                                                 *)
THEOREM PreviousIsFirst == Spec => []PreviousValueIsFirst
<1>1. Init => PreviousInv
  <2> SUFFICES ASSUME Init PROVE PreviousInv
    OBVIOUS
  <2>1. CallsAreTyped /\ \A t \in Threads : call[t].at = "idle"
    BY DEF Init, CallsAreTyped, Idle
  <2>2. UnderWay = {} /\ CreatorsAreTracked
    BY <2>1 DEF UnderWay, CreatorsAreTracked, Creating
  <2>3. FlagsAreTyped /\ before = <<>> /\ ~ tracked
    BY DEF Init, FlagsAreTyped
  <2>4. OneCreatorCarriesIt /\ ThenItStays
    BY <2>1, <2>2, <2>3 DEF OneCreatorCarriesIt, ThenItStays, Creating
  <2>5. QED
    BY <2>1, <2>2, <2>3, <2>4 DEF PreviousInv
<1>2. PreviousInv /\ [Next]_vars => PreviousInv'
  BY PreviousStep
<1>3. PreviousInv => PreviousValueIsFirst
  BY DEF PreviousInv, ThenItStays, PreviousValueIsFirst
<1>4. QED
  BY <1>1, <1>2, <1>3, PTL DEF Spec

-----------------------------------------------------------------------------
(* AppendedValues.                                                         *)
LEMMA AppendElements ==
  ASSUME NEW S, NEW s \in Seq(S), NEW e \in S
  PROVE  /\ Append(s, e) \in Seq(S)
         /\ ToSet(s) \subseteq ToSet(Append(s, e))
         /\ e \in ToSet(Append(s, e))
<1>1. /\ Append(s, e) \in Seq(S) /\ DOMAIN s = 1..Len(s) /\ Len(s) \in Nat
      /\ DOMAIN Append(s, e) = 1..(Len(s) + 1)
      /\ \A i \in 1..Len(s) : Append(s, e)[i] = s[i]
      /\ Append(s, e)[Len(s) + 1] = e
  OBVIOUS
<1>2. QED
  BY <1>1 DEF ToSet

(* One thread's call goes on, and the lists stay as they are.              *)
LEMMA AppendCallMoves ==
  ASSUME AppendInv, CallsAreTyped', NEW t \in Threads, Moves(t),
         UNCHANGED <<appended, changed, forgotten>>,
         AppendCallsAreTracked(t)'
  PROVE  AppendInv'
BY DEF AppendInv, Moves, AppendCallsAreTracked, AppendsAreTracked, Tracked

LEMMA BeginMoves ==
  ASSUME NEW t, NEW c, Begin(t, c)
  PROVE  \/ call' = call /\ call[t].at = "idle"
         \/ \E a \in {"opened", FirstStep(t, c.op)} :
              call' = [call EXCEPT ![t] = [c EXCEPT !.at = a]]
BY DEF Begin, Goes, Idle

LEMMA AppendStep ==
  ASSUME AppendInv, [Next]_vars
  PROVE  AppendInv'
<1>1. CallsAreTyped'
  BY CallsStayTyped DEF AppendInv
<1> USE DEF Goes, GoesTo, Idle, AtWith, tracking, data
<1>2. ASSUME NEW t \in Threads, NEW op, NEW l \in Lists,
             NEW part \in PartsOf[l], Begin(t, ListCall(op, l, part))
      PROVE  AppendInv'
  <2> DEFINE c == ListCall(op, l, part)
  <2>1. \/ call' = call /\ call[t].at = "idle"
        \/ \E a \in {"opened", FirstStep(t, op)} :
             call' = [call EXCEPT ![t] = [c EXCEPT !.at = a]]
    <3>1. c.op = op
      BY DEF ListCall
    <3>2. QED
      BY <1>2, <3>1, BeginMoves
  <2>2. DOMAIN call = Threads
    BY DEF AppendInv, CallsAreTyped
  <2>3. CASE call' = call /\ call[t].at = "idle"
    <3>1. AppendCallsAreTracked(t)' /\ Moves(t)
      BY <2>2, <2>3 DEF AppendCallsAreTracked, Moves
    <3>2. QED
      BY <1>1, <1>2, <3>1, AppendCallMoves DEF Begin
  <2>4. ASSUME NEW a \in {"opened", FirstStep(t, op)},
               call' = [call EXCEPT ![t] = [c EXCEPT !.at = a]]
        PROVE  AppendInv'
    <3>1. /\ call'[t] = [at |-> a, op |-> op, list |-> l, part |-> part]
          /\ Moves(t)
      BY <2>2, <2>4 DEF ListCall, Moves
    <3>2. AppendCallsAreTracked(t)'
      BY <3>1 DEF AppendCallsAreTracked, FirstStep
    <3>3. QED
      BY <1>1, <1>2, <3>1, <3>2, AppendCallMoves DEF Begin
  <2>5. QED
    BY <2>1, <2>3, <2>4
<1>3. ASSUME NEW t \in Threads, NEW v, SetEnvironmentVariable(t, v)
      PROVE  AppendInv'
  <2>1. AppendCallsAreTracked(t)' /\ Moves(t)
    BY <1>3 DEF SetEnvironmentVariable, Begin, FirstStep,
                AppendCallsAreTracked, AppendInv, CallsAreTyped, Moves
  <2>2. QED
    BY <1>1, <1>3, <2>1, AppendCallMoves DEF SetEnvironmentVariable, Begin
<1>4. ASSUME NEW t \in Threads, GoesOn(t)
      PROVE  AppendInv'
  <2> USE DEF AppendCallsAreTracked, AppendInv, CallsAreTyped, Moves, Tracked
  <2>1. CASE MarkChecked(t) \/ MarkSupported(t)
    <3>1. AppendCallsAreTracked(t)' /\ Moves(t)
      BY <2>1 DEF MarkChecked, MarkSupported, FirstStep
    <3>2. QED
      BY <1>1, <2>1, <3>1, AppendCallMoves DEF MarkChecked, MarkSupported
  <2>2. CASE AppendReads(t) \/ ReadAppended(t)
    <3>1. AppendCallsAreTracked(t)' /\ Moves(t)
      BY <2>2 DEF AppendReads, ReadAppended
    <3>2. QED
      BY <1>1, <2>2, <3>1, AppendCallMoves DEF AppendReads, ReadAppended
  <2>3. CASE RemoveReads(t) \/ ReadIndex(t) \/ ReadRemoved(t)
    <3>1. AppendCallsAreTracked(t)' /\ Moves(t)
      BY <2>3 DEF RemoveReads, ReadIndex, ReadRemoved
    <3>2. QED
      BY <1>1, <2>3, <3>1, AppendCallMoves
         DEF RemoveReads, ReadIndex, ReadRemoved
  <2>4. CASE CreateKey(t) \/ ReadOriginal(t) \/ WritePrevious(t)
             \/ WriteCurrent(t) \/ SetValue(t)
    <3>1. AppendCallsAreTracked(t)' /\ Moves(t)
      BY <2>4 DEF CreateKey, ReadOriginal, WritePrevious, WriteCurrent, SetValue
    <3>2. QED
      BY <1>1, <2>4, <3>1, AppendCallMoves
         DEF CreateKey, ReadOriginal, WritePrevious, WriteCurrent, SetValue
  <2>5. CASE WriteFails(t)
    <3>1. AppendCallsAreTracked(t)' /\ Moves(t)
      BY <2>5 DEF WriteFails
    <3>2. QED
      BY <1>1, <2>5, <3>1, AppendCallMoves DEF WriteFails
  (* An entry is added, or another's overwritten.                          *)
  <2>6. CASE SaveAppended(t)
    <3> DEFINE l == call[t].list
               part == call[t].part
    <3>1. /\ l \in Lists /\ part \in PartsOf[l]
          /\ appended' = [appended EXCEPT ![l] = Append(call[t].values, part)]
          /\ \A u \in Threads \ {t} : call'[u] = call[u]
          /\ call'[t] = [call[t] EXCEPT !.at = "write"]
          /\ changed' = changed
      BY <2>6 DEF SaveAppended
    <3>2. /\ forgotten \subseteq forgotten'
          /\ l \notin forgotten' => /\ l \notin forgotten
                                    /\ appended[l] = call[t].values
      BY <2>6 DEF SaveAppended
    <3>3. l \notin forgotten' =>
            /\ appended'[l] \in Seq(PartsOf[l])
            /\ ToSet(appended[l]) \subseteq ToSet(appended'[l])
            /\ part \in ToSet(appended'[l])
      BY <3>1, <3>2, AppendElements
    <3>4. \A k \in Lists \ forgotten' :
            /\ appended'[k] \in Seq(PartsOf[k])
            /\ ToSet(appended[k]) \subseteq ToSet(appended'[k])
      BY <3>1, <3>2, <3>3
    <3>5. AppendsAreTracked' /\ DOMAIN appended' = Lists
      BY <3>1, <3>2, <3>4 DEF AppendsAreTracked
    <3>6. \A u \in Threads : AppendCallsAreTracked(u)'
      <4>1. AppendCallsAreTracked(t)'
        <5>1. /\ {"list", "part"} \subseteq DOMAIN call'[t]
              /\ call'[t].list = l /\ call'[t].part = part
          BY <2>6, <3>1 DEF SaveAppended
        <5>2. QED
          BY <3>1, <3>3, <5>1
      <4>2. ASSUME NEW u \in Threads \ {t}
            PROVE  AppendCallsAreTracked(u)'
        BY <3>1, <3>2, <3>4
      <4>3. QED
        BY <4>1, <4>2
    <3>7. QED
      BY <1>1, <3>1, <3>4, <3>5, <3>6
  <2>7. CASE SaveRemoved(t)
    <3>1. /\ \A u \in Threads \ {t} : call'[u] = call[u]
          /\ call'[t] = [call[t] EXCEPT !.at = "write"]
          /\ call[t].op = "remove" /\ call[t].at = "save"
          /\ UNCHANGED <<appended, changed>> /\ forgotten \subseteq forgotten'
      BY <2>7 DEF SaveRemoved
    <3>2. AppendsAreTracked'
      BY <3>1 DEF AppendsAreTracked
    <3>3. \A u \in Threads : AppendCallsAreTracked(u)'
      BY <3>1
    <3>4. QED
      BY <1>1, <3>1, <3>2, <3>3
  (* The part that is written was tracked.                                 *)
  <2>8. CASE WriteList(t)
    <3>1. /\ \A u \in Threads \ {t} : call'[u] = call[u]
          /\ call'[t] = Idle /\ UNCHANGED <<appended, forgotten>>
          /\ DOMAIN changed' = Lists
      BY <2>8 DEF WriteList
    <3>2. AppendsAreTracked'
      <4>1. CASE call[t].op = "append" /\ Tracked(t)
        <5>1. /\ call[t].list \in Lists
              /\ call[t].list \notin forgotten =>
                   call[t].part \in ToSet(appended[call[t].list])
          BY <2>8, <4>1 DEF WriteList
        <5>2. QED
          BY <2>8, <3>1, <4>1, <5>1 DEF WriteList, AppendsAreTracked
      <4>2. CASE ~ (call[t].op = "append" /\ Tracked(t))
        BY <2>8, <3>1, <4>2 DEF WriteList, AppendsAreTracked
      <4>3. QED
        BY <4>1, <4>2
    <3>3. \A u \in Threads : AppendCallsAreTracked(u)'
      BY <3>1
    <3>4. QED
      BY <1>1, <3>1, <3>2, <3>3
  <2>9. QED
    BY <1>4, <2>1, <2>2, <2>3, <2>4, <2>5, <2>6, <2>7, <2>8 DEF GoesOn
<1>5. ASSUME NEW p \in Processes, Crash(p)
      PROVE  AppendInv'
  BY <1>1, <1>5 DEF Crash, AppendInv, AppendCallsAreTracked,
                    AppendsAreTracked, Tracked
<1>6. CASE UNCHANGED vars
  BY <1>1, <1>6 DEF vars, AppendInv, AppendCallsAreTracked,
                    AppendsAreTracked, Tracked
<1>7. "PATH" \in Lists /\ "PATHEXT" \in Lists
  BY DEF Lists
<1>8. QED
  BY <1>2, <1>3, <1>4, <1>5, <1>6, <1>7
     DEF Next, AppendToPath, RemoveFromPath, AddExecutableFileExtension,
         RemoveExecutableFileExtension

(* A part the package appended is in AppendedValues, unless two trackers   *)
(* of its processes wrote over each other (PathChangeTracker.cpp 55-65).   *)
THEOREM AppendsStayTracked == Spec => []AppendsAreTracked
<1>1. Init => AppendInv
  <2> SUFFICES ASSUME Init PROVE AppendInv
    OBVIOUS
  <2>1. CallsAreTyped /\ \A t \in Threads : call[t].at = "idle"
    BY DEF Init, CallsAreTyped, Idle
  <2>2. /\ DOMAIN appended = Lists /\ DOMAIN changed = Lists
        /\ \A l \in Lists : appended[l] = <<>> /\ changed[l] = {}
    BY DEF Init
  <2>3. \A t \in Threads : AppendCallsAreTracked(t)
    BY <2>1 DEF AppendCallsAreTracked
  <2>4. \A l \in Lists : changed[l] \subseteq ToSet(appended[l])
    BY <2>2
  <2>5. ASSUME NEW l \in Lists
        PROVE  appended[l] \in Seq(PartsOf[l])
    <3>1. <<>> \in Seq(PartsOf[l])
      OBVIOUS
    <3>2. QED
      BY <2>2, <3>1
  <2>6. QED
    BY <2>1, <2>2, <2>3, <2>4, <2>5 DEF AppendInv, AppendsAreTracked
<1>2. AppendInv /\ [Next]_vars => AppendInv'
  BY AppendStep
<1>3. AppendInv => AppendsAreTracked
  BY DEF AppendInv
<1>4. QED
  BY <1>1, <1>2, <1>3, PTL DEF Spec

-----------------------------------------------------------------------------
(* The types, and the tracking of removals.                                *)

(* What the steps of a call read is there, and the copies of a list and of *)
(* its tracking entries are lists and entries.                             *)
Listing == {"index", "track", "save", "write"}
ListCallFits(t) ==
  LET c == call[t] IN
  /\ {"list", "part"} \subseteq DOMAIN c
  /\ c.list \in Lists /\ c.part \in PartsOf[c.list]
  /\ c.at \in Listing =>
       "new" \in DOMAIN c /\ c.new \in Seq(PartsOf[c.list])
  /\ c.at \in Listing /\ c.op = "remove" =>
       "was" \in DOMAIN c /\ c.was \in Seq(PartsOf[c.list])
  /\ c.at = "save" /\ c.op = "append" => c.values \in Seq(PartsOf[c.list])
  /\ c.at = "save" /\ c.op = "remove" => c.values \in Seq(Entries(c.list))
  /\ c.at \in {"track", "save"} /\ c.op = "remove" => c.index \in Nat

(* The same for SetEnvironmentVariable.                                    *)
SetCallFits(t) ==
  LET c == call[t] IN
  /\ "value" \in DOMAIN c /\ c.value \in Values
  /\ c.at = "previous" => "original" \in DOMAIN c /\ c.original \in Values

(* Where a call of each kind may be.                                       *)
CallFits(t) ==
  /\ call[t].at \in {"idle", "opened", "mark", "read", "create", "original",
                     "previous", "current", "set"} \union Listing
  /\ call[t].at # "idle" => call[t].op \in {"append", "remove", "set"}
  /\ call[t].at \in Listing \union {"read"} => call[t].op # "set"
  /\ call[t].at \in {"create", "original", "previous", "current", "set"} =>
       call[t].op = "set"
  /\ call[t].at # "idle" /\ call[t].op # "set" => ListCallFits(t)
  /\ call[t].at # "idle" /\ call[t].op = "set" => SetCallFits(t)

(* Between its two writes IsSupported has done the first.                  *)
MarksAreChecked ==
  \A t \in Threads : call[t].at = "mark" => ProcessOf[t] \in checked

(* The types are inductive with the shape of the calls.                    *)
TypeInv ==
  /\ TypeOK /\ CallsAreTyped /\ MarksAreChecked
  /\ \A f \in {lists, appended, removed, changed, taken} : DOMAIN f = Lists
  /\ \A t \in Threads : CallFits(t)

(* What a call that removes a part tracks is where the part was in the     *)
(* copy it took; and once it is tracked, the entry stays.                  *)
Holds(entries, e) == \E i \in DOMAIN entries : entries[i] = e

RemovalIsKnown(t) ==
  LET c == call[t] IN
  (call[t].at \in Listing /\ call[t].op = "remove") =>
    /\ "was" \in DOMAIN c /\ c.was \in Seq(PartsOf[c.list])
    /\ Positions(c.was, c.part) # {}
    /\ c.new = RemoveAt(c.was, LastPosition(c.was, c.part))
    /\ t \notin stale /\ c.at = "index" => lists[c.list] = c.was
    /\ t \notin stale /\ c.at \in {"track", "save"} =>
         c.index = FirstPosition(c.was, c.part) - 1
    /\ c.at = "write" /\ t \notin stale /\ Tracked(t)
         /\ c.list \notin forgotten =>
         Holds(removed[c.list],
               <<c.part, FirstPosition(c.was, c.part) - 1>>)

RemovalInv ==
  TypeInv /\ RemovalsAreTracked /\ \A t \in Threads : RemovalIsKnown(t)

-----------------------------------------------------------------------------
(* Lists of parts.                                                         *)

(* A set of numbers has a least element.                                   *)
LEMMA LeastIsThere ==
  ASSUME NEW T, T \subseteq Nat, T # {}
  PROVE  \E i \in T : \A j \in T : i <= j
<1>1. \E i \in T : \A j \in T : ~(<<j, i>> \in OpToRel(<, Nat))
  BY NatLessThanWellFounded, WFMin
<1>2. PICK i \in T : \A j \in T : ~(<<j, i>> \in OpToRel(<, Nat))
  BY <1>1
<1>3. ASSUME NEW j \in T
      PROVE  i <= j
  <2>1. i \in Nat /\ j \in Nat
    OBVIOUS
  <2>2. ~(j < i)
    BY <1>2, <2>1 DEF OpToRel
  <2>3. QED
    BY <2>1, <2>2
<1>4. QED
  BY <1>3

(* A part that is on a list has a first and a last position.               *)
LEMMA FirstAndLast ==
  ASSUME NEW S, NEW s \in Seq(S), NEW part, Positions(s, part) # {}
  PROVE  /\ FirstPosition(s, part) \in Positions(s, part)
         /\ LastPosition(s, part) \in Positions(s, part)
<1> DEFINE P == Positions(s, part)
           B == {Len(s) - i : i \in P}
<1>1. Len(s) \in Nat /\ P \subseteq 1..Len(s)
  BY DEF Positions
<1>2. P \subseteq Nat /\ P # {} /\ B \subseteq Nat /\ B # {}
  BY <1>1
<1> HIDE DEF P
<1>3. \E i \in P : \A j \in P : i <= j
  BY <1>2, LeastIsThere
<1>4. \E b \in B : \A d \in B : b <= d
  <2> HIDE DEF B
  <2>1. QED
    BY <1>2, LeastIsThere
<1>5. \E i \in P : \A j \in P : j <= i
  <2>1. PICK b \in B : \A d \in B : b <= d
    BY <1>4
  <2>2. PICK i \in P : b = Len(s) - i
    BY <2>1
  <2>3. ASSUME NEW j \in P
        PROVE  j <= i
    <3>1. Len(s) - i <= Len(s) - j
      BY <2>1, <2>2
    <3>2. QED
      BY <1>1, <3>1
  <2>4. QED
    BY <2>3
<1>6. QED
  BY <1>3, <1>5 DEF FirstPosition, LastPosition, P

(* What RemoveAt leaves, and that InsertAt at the same place puts it back. *)
LEMMA RemoveAtElements ==
  ASSUME NEW S, NEW s \in Seq(S), NEW i \in 1..Len(s)
  PROVE  /\ RemoveAt(s, i) \in Seq(S)
         /\ Len(RemoveAt(s, i)) = Len(s) - 1
         /\ \A j \in 1..(Len(s) - 1) :
              RemoveAt(s, i)[j] = IF j < i THEN s[j] ELSE s[j + 1]
<1> DEFINE a == SubSeq(s, 1, i - 1)
           b == SubSeq(s, i + 1, Len(s))
<1>1. /\ a \in Seq(S) /\ Len(a) = i - 1
      /\ \A j \in 1..(i - 1) : a[j] = s[j]
  OBVIOUS
<1>2. /\ b \in Seq(S) /\ Len(b) = Len(s) - i
      /\ \A j \in 1..(Len(s) - i) : b[j] = s[i + j]
  OBVIOUS
<1> HIDE DEF a, b
<1>3. /\ a \o b \in Seq(S) /\ Len(a \o b) = Len(s) - 1
      /\ \A j \in 1..(Len(s) - 1) :
           (a \o b)[j] = IF j <= i - 1 THEN a[j] ELSE b[j - (i - 1)]
  <2>1. Len(s) \in Nat /\ i \in Nat /\ (i - 1) + (Len(s) - i) = Len(s) - 1
    OBVIOUS
  <2>2. a \in Seq(S) /\ b \in Seq(S)
    BY <1>1, <1>2
  <2>3. a \o b \in Seq(S) /\ Len(a \o b) = Len(a) + Len(b)
    BY <2>2
  <2>4. \A j \in 1..(Len(a) + Len(b)) :
          (a \o b)[j] = IF j <= Len(a) THEN a[j] ELSE b[j - Len(a)]
    BY <2>2
  <2>5. QED
    BY <1>1, <1>2, <2>1, <2>3, <2>4
<1>4. \A j \in 1..(Len(s) - 1) :
        (a \o b)[j] = IF j < i THEN s[j] ELSE s[j + 1]
  <2> SUFFICES ASSUME NEW j \in 1..(Len(s) - 1)
               PROVE  (a \o b)[j] = IF j < i THEN s[j] ELSE s[j + 1]
    OBVIOUS
  <2>1. CASE j < i
    BY <1>1, <1>3, <2>1
  <2>2. CASE ~(j < i)
    <3>1. j - (i - 1) \in 1..(Len(s) - i) /\ i + (j - (i - 1)) = j + 1
      BY <2>2
    <3>2. b[j - (i - 1)] = s[j + 1]
      BY <1>2, <3>1
    <3>3. (a \o b)[j] = b[j - (i - 1)]
      <4>1. ~(j <= i - 1)
        BY <2>2
      <4>2. QED
        BY <1>3, <4>1
    <3>4. QED
      BY <2>2, <3>2, <3>3
  <2>3. QED
    BY <2>1, <2>2
<1>5. QED
  BY <1>3, <1>4 DEF RemoveAt, a, b

LEMMA PutBack ==
  ASSUME NEW S, NEW s \in Seq(S), NEW i \in 1..Len(s), NEW e
  PROVE  LET undone == InsertAt(RemoveAt(s, i), i, e) IN
         /\ DOMAIN undone = DOMAIN s
         /\ \A j \in DOMAIN s : undone[j] = IF j = i THEN e ELSE s[j]
<1> DEFINE r == RemoveAt(s, i)
           a == SubSeq(r, 1, i - 1)
           b == SubSeq(r, i, Len(r))
           T == S \union {e}
<1>1. /\ r \in Seq(S) /\ Len(r) = Len(s) - 1
      /\ \A j \in 1..(Len(s) - 1) : r[j] = IF j < i THEN s[j] ELSE s[j + 1]
  BY RemoveAtElements
<1> HIDE DEF r
<1>2. /\ a \in Seq(S) /\ Len(a) = i - 1
      /\ \A j \in 1..(i - 1) : a[j] = r[j]
  BY <1>1
<1>3. /\ b \in Seq(S) /\ Len(b) = Len(s) - i
      /\ \A j \in 1..(Len(s) - i) : b[j] = r[i - 1 + j]
  BY <1>1
<1> HIDE DEF a, b
<1>4. a \in Seq(T) /\ b \in Seq(T) /\ <<e>> \in Seq(T) /\ Len(<<e>>) = 1
      /\ <<e>>[1] = e
  BY <1>2, <1>3
<1>5. /\ a \o <<e>> \in Seq(T) /\ Len(a \o <<e>>) = i
      /\ \A j \in 1..(i - 1) : (a \o <<e>>)[j] = a[j]
      /\ (a \o <<e>>)[i] = e
  BY <1>2, <1>4
<1> DEFINE c == a \o <<e>>
<1> HIDE DEF c
<1>6. /\ c \o b \in Seq(T) /\ Len(c \o b) = Len(s)
      /\ \A j \in 1..Len(s) : (c \o b)[j] = IF j <= i THEN c[j] ELSE b[j - i]
  <2>1. Len(s) \in Nat /\ i \in Nat /\ i + (Len(s) - i) = Len(s)
    OBVIOUS
  <2>2. c \in Seq(T) /\ Len(c) = i
    BY <1>5 DEF c
  <2>3. c \o b \in Seq(T) /\ Len(c \o b) = Len(c) + Len(b)
    BY <1>4, <2>2
  <2>4. \A j \in 1..(Len(c) + Len(b)) :
          (c \o b)[j] = IF j <= Len(c) THEN c[j] ELSE b[j - Len(c)]
    BY <1>4, <2>2
  <2>5. QED
    BY <1>3, <2>1, <2>2, <2>3, <2>4
<1>7. ASSUME NEW j \in 1..Len(s)
      PROVE  (c \o b)[j] = IF j = i THEN e ELSE s[j]
  <2>1. CASE j < i
    <3>1. (c \o b)[j] = c[j] /\ c[j] = a[j] /\ a[j] = r[j]
      BY <1>2, <1>5, <1>6, <2>1 DEF c
    <3>2. r[j] = s[j]
      BY <1>1, <2>1
    <3>3. QED
      BY <2>1, <3>1, <3>2
  <2>2. CASE j = i
    BY <1>5, <1>6, <2>2 DEF c
  <2>3. CASE j > i
    <3>1. j - i \in 1..(Len(s) - i) /\ i - 1 + (j - i) = j - 1
          /\ j - 1 \in 1..(Len(s) - 1) /\ ~(j - 1 < i) /\ (j - 1) + 1 = j
      BY <2>3
    <3>2. (c \o b)[j] = b[j - i] /\ b[j - i] = r[j - 1]
      BY <1>3, <1>6, <2>3, <3>1
    <3>3. r[j - 1] = s[j]
      BY <1>1, <3>1
    <3>4. QED
      BY <2>3, <3>2, <3>3
  <2>4. QED
    <3>1. j \in Int /\ i \in Int
      OBVIOUS
    <3>2. j < i \/ j = i \/ j > i
      BY <3>1
    <3>3. QED
      BY <2>1, <2>2, <2>3, <3>2
<1>8. InsertAt(r, i, e) = c \o b
  BY DEF InsertAt, c, a, b
<1>9. QED
  BY <1>6, <1>7, <1>8 DEF r

-----------------------------------------------------------------------------
(* The calls.                                                              *)

(* What Begin is given by the five setters.                                *)
IsCall(c) ==
  \/ \E op \in {"append", "remove"}, l \in Lists :
       \E part \in PartsOf[l] : c = ListCall(op, l, part)
  \/ \E v \in Values : c = [at |-> "", op |-> "set", value |-> v]

(* A step begins a call, moves one, or ends a process.                     *)
LEMMA CallsHaveSteps ==
  ASSUME NEW c, IsCall(c)
  PROVE  "at" \in DOMAIN c
<1>1. ASSUME NEW op, NEW l, NEW part, c = ListCall(op, l, part)
      PROVE  "at" \in DOMAIN c
  BY <1>1 DEF ListCall
<1>2. ASSUME NEW v, c = [at |-> "", op |-> "set", value |-> v]
      PROVE  "at" \in DOMAIN c
  BY <1>2
<1>3. QED
  BY <1>1, <1>2 DEF IsCall

LEMMA StepsAre ==
  ASSUME [Next]_vars
  PROVE  \/ \E t \in Threads : \/ \E c : IsCall(c) /\ Begin(t, c)
                               \/ GoesOn(t)
         \/ \E p \in Processes : Crash(p)
         \/ UNCHANGED vars
<1>1. ASSUME NEW l \in Lists, NEW part \in PartsOf[l],
             NEW op \in {"append", "remove"}
      PROVE  IsCall(ListCall(op, l, part))
  BY DEF IsCall
<1>2. ASSUME NEW v \in Values
      PROVE  IsCall([at |-> "", op |-> "set", value |-> v])
  BY DEF IsCall
<1>3. QED
  BY <1>1, <1>2
     DEF Next, AppendToPath, RemoveFromPath, AddExecutableFileExtension,
         RemoveExecutableFileExtension, SetEnvironmentVariable, Lists

(* The record of a call that begins or goes on fits.                       *)
LEMMA BeginFits ==
  ASSUME TypeInv, NEW t \in Threads, NEW c, IsCall(c), Begin(t, c)
  PROVE  CallFits(t)' /\ Moves(t)
<1>1. DOMAIN call = Threads
  BY DEF TypeInv, CallsAreTyped
<1>2. \/ call' = call
      \/ \E a \in {"opened", FirstStep(t, c.op)} :
           call' = [call EXCEPT ![t] = [c EXCEPT !.at = a]]
  BY BeginMoves
<1>3. CASE call' = call
  BY <1>1, <1>3 DEF TypeInv, CallFits, ListCallFits, SetCallFits, Moves
<1>4. ASSUME NEW a \in {"opened", FirstStep(t, c.op)},
             call' = [call EXCEPT ![t] = [c EXCEPT !.at = a]]
      PROVE  CallFits(t)' /\ Moves(t)
  <2>1. Moves(t) /\ call'[t] = [c EXCEPT !.at = a]
    BY <1>1, <1>4 DEF Moves
  <2>2. ASSUME NEW op \in {"append", "remove"}, NEW l \in Lists,
               NEW part \in PartsOf[l], c = ListCall(op, l, part)
        PROVE  CallFits(t)'
    <3>1. call'[t] = [at |-> a, op |-> op, list |-> l, part |-> part]
      BY <2>1, <2>2 DEF ListCall
    <3>2. a \in {"opened", "read"}
      BY <2>2 DEF ListCall, FirstStep
    <3>3. call'[t].at = a /\ call'[t].op = op
      BY <3>1
    <3>4. call'[t].list = l /\ call'[t].part = part
      BY <3>1
    <3>5. {"list", "part"} \subseteq DOMAIN call'[t]
      BY <3>1
    <3>6. QED
      BY <3>2, <3>3, <3>5, <3>4 DEF CallFits, ListCallFits, Listing
  <2>3. ASSUME NEW v \in Values,
               c = [at |-> "", op |-> "set", value |-> v]
        PROVE  CallFits(t)'
    <3>1. call'[t] = [at |-> a, op |-> "set", value |-> v]
      BY <2>1, <2>3
    <3>2. a \in {"opened", "create", "set"}
      BY <2>3 DEF FirstStep
    <3>3. call'[t].at = a /\ call'[t].op = "set"
      BY <3>1
    <3>4. call'[t].value = v
      BY <3>1
    <3>5. "value" \in DOMAIN call'[t]
      BY <3>1
    <3>6. QED
      BY <3>2, <3>3, <3>5, <3>4 DEF CallFits, SetCallFits, Listing
  <2>4. QED
    BY <2>1, <2>2, <2>3 DEF IsCall
<1>5. QED
  BY <1>2, <1>3, <1>4

LEMMA GoesOnFits ==
  ASSUME TypeInv, NEW t \in Threads, GoesOn(t)
  PROVE  CallFits(t)' /\ Moves(t)
<1>1. /\ DOMAIN call = Threads /\ "at" \in DOMAIN call[t]
      /\ call[t].at # "idle" => "op" \in DOMAIN call[t]
      /\ CallFits(t)
  BY DEF TypeInv, CallsAreTyped
<1>2. /\ \A l \in Lists : lists[l] \in Seq(PartsOf[l])
      /\ \A l \in Lists : appended[l] \in Seq(PartsOf[l])
      /\ \A l \in Lists : removed[l] \in Seq(Entries(l))
      /\ variable \in Values
  BY DEF TypeInv, TypeOK
<1> USE DEF CallFits, Moves, Goes, GoesTo, AtWith, Listing
<1>3. CASE MarkChecked(t) \/ MarkSupported(t)
  BY <1>1, <1>3 DEF MarkChecked, MarkSupported, FirstStep, Idle, ListCallFits,
                    SetCallFits
<1>4. CASE AppendReads(t)
  <2> DEFINE l == call[t].list
             a == IF Tracked(t) THEN "track" ELSE "write"
             Has == \E i \in DOMAIN lists[l] :
                      <<call[t].part, lists[l][i]>> \in Within
  <2>1. /\ l \in Lists /\ call[t].part \in PartsOf[l]
        /\ lists[l] \in Seq(PartsOf[l])
    BY <1>1, <1>2, <1>4 DEF AppendReads, ListCallFits
  <2>2. CASE Has
    <3>1. call' = [call EXCEPT ![t] = Idle]
      BY <1>4, <2>2 DEF AppendReads
    <3>2. QED
      BY <1>1, <3>1 DEF Idle
  <2>3. CASE ~Has
    <3>1. /\ Moves(t)
          /\ call'[t] = [at |-> a, op |-> "append", list |-> l,
                         part |-> call[t].part,
                         new |-> Append(lists[l], call[t].part)]
      BY <1>1, <1>4, <2>3 DEF AppendReads
    <3>2. Append(lists[l], call[t].part) \in Seq(PartsOf[l])
      BY <2>1, AppendElements
    <3>3. call'[t].at = a /\ call'[t].op = "append"
      BY <3>1
    <3>4. call'[t].list = l /\ call'[t].part = call[t].part
      BY <3>1
    <3>5. call'[t].new = Append(lists[l], call[t].part)
      BY <3>1
    <3>6. {"list", "part"} \subseteq DOMAIN call'[t]
          /\ "new" \in DOMAIN call'[t]
      BY <3>1
    <3>7. ListCallFits(t)'
      BY <2>1, <3>2, <3>3, <3>4, <3>5, <3>6 DEF ListCallFits
    <3>8. QED
      BY <3>1, <3>3, <3>7
  <2>4. QED
    BY <2>2, <2>3
<1>5. CASE ReadAppended(t)
  BY <1>1, <1>2, <1>5 DEF ReadAppended, ListCallFits
<1>6. CASE SaveAppended(t)
  BY <1>1, <1>6 DEF SaveAppended, ListCallFits
<1>7. CASE RemoveReads(t)
  <2>1. CASE Positions(lists[call[t].list], call[t].part) = {}
    BY <1>1, <1>7, <2>1 DEF RemoveReads, Idle
  <2>2. CASE Positions(lists[call[t].list], call[t].part) # {}
    <3> DEFINE l == call[t].list
               was == lists[l]
               i == LastPosition(was, call[t].part)
               a == IF Tracked(t) THEN "index" ELSE "write"
    <3>1. /\ l \in Lists /\ call[t].part \in PartsOf[l]
          /\ was \in Seq(PartsOf[l])
      BY <1>1, <1>2, <1>7 DEF RemoveReads, ListCallFits
    <3>2. i \in 1..Len(was)
      BY <2>2, <3>1, FirstAndLast DEF Positions
    <3>3. RemoveAt(was, i) \in Seq(PartsOf[l])
      BY <3>1, <3>2, RemoveAtElements
    <3>4. /\ Moves(t)
          /\ call'[t] = [at |-> a, op |-> "remove", list |-> l,
                         part |-> call[t].part, was |-> was,
                         new |-> RemoveAt(was, i)]
      BY <1>1, <1>7, <2>2 DEF RemoveReads
    <3>5. QED
      BY <3>1, <3>3, <3>4 DEF ListCallFits
  <2>3. QED
    BY <2>1, <2>2
<1>8. CASE ReadIndex(t)
  <2>1. CASE Positions(lists[call[t].list], call[t].part) = {}
    BY <1>1, <1>8, <2>1 DEF ReadIndex, ListCallFits
  <2>2. CASE Positions(lists[call[t].list], call[t].part) # {}
    <3> DEFINE l == call[t].list
               now == lists[l]
               i == FirstPosition(now, call[t].part)
    <3>1. /\ l \in Lists /\ call[t].part \in PartsOf[l]
          /\ now \in Seq(PartsOf[l]) /\ call[t].new \in Seq(PartsOf[l])
          /\ call[t].was \in Seq(PartsOf[l])
      BY <1>1, <1>2, <1>8 DEF ReadIndex, ListCallFits
    <3>2. i \in 1..Len(now)
      BY <2>2, <3>1, FirstAndLast DEF Positions
    <3>3. i - 1 \in Nat
      BY <3>2
    <3>4. /\ Moves(t)
          /\ call'[t] = [at |-> "track", op |-> "remove", list |-> l,
                         part |-> call[t].part, was |-> call[t].was,
                         new |-> call[t].new, index |-> i - 1]
      BY <1>1, <1>8, <2>2 DEF ReadIndex
    <3>6. call'[t].at = "track" /\ call'[t].op = "remove"
      BY <3>4
    <3>7. /\ call'[t].list = l /\ call'[t].part = call[t].part
          /\ call'[t].was = call[t].was /\ call'[t].new = call[t].new
      BY <3>4
    <3>8. call'[t].index = i - 1
      BY <3>4
    <3>9. {"list", "part", "was", "new"} \subseteq DOMAIN call'[t]
      BY <3>4
    <3>10. ListCallFits(t)'
      BY <3>1, <3>3, <3>6, <3>7, <3>8, <3>9 DEF ListCallFits
    <3>5. QED
      BY <3>4, <3>6, <3>10
  <2>3. QED
    BY <2>1, <2>2
<1>9. CASE ReadRemoved(t)
  BY <1>1, <1>2, <1>9 DEF ReadRemoved, ListCallFits
<1>10. CASE SaveRemoved(t)
  BY <1>1, <1>10 DEF SaveRemoved, ListCallFits
<1>11. CASE WriteList(t) \/ SetValue(t) \/ WriteFails(t)
  BY <1>1, <1>11 DEF WriteList, SetValue, WriteFails, Idle
<1>12. CASE CreateKey(t) \/ ReadOriginal(t) \/ WritePrevious(t)
            \/ WriteCurrent(t)
  BY <1>1, <1>2, <1>12 DEF CreateKey, ReadOriginal, WritePrevious,
                           WriteCurrent, SetCallFits
<1>13. QED
  BY <1>3, <1>4, <1>5, <1>6, <1>7, <1>8, <1>9, <1>10, <1>11, <1>12
     DEF GoesOn

(* The registry, the tracker's entries and the flags keep their types.     *)
LEMMA TablesStep ==
  ASSUME TypeInv, [Next]_vars
  PROVE  TypeOK' /\ \A f \in {lists, appended, removed, changed, taken}' :
                      DOMAIN f = Lists
<1>1. /\ checked \subseteq Processes /\ supported \subseteq checked
      /\ failed \subseteq checked
      /\ variable \in Values /\ previous \in Seq(Values)
      /\ before \in Seq(Values) /\ current \in Seq(Values)
      /\ stale \subseteq Threads /\ forgotten \subseteq Lists
      /\ tracked \in BOOLEAN /\ interrupted \in BOOLEAN
      /\ calls \in Nat /\ crashes \in Nat /\ faults \in Nat
  BY DEF TypeInv, TypeOK
<1>2. ASSUME NEW l \in Lists
      PROVE  /\ lists[l] \in Seq(PartsOf[l])
             /\ appended[l] \in Seq(PartsOf[l])
             /\ removed[l] \in Seq(Entries(l))
             /\ changed[l] \subseteq PartsOf[l]
             /\ taken[l] \subseteq Removals(l)
  BY DEF TypeInv, TypeOK
<1>3. /\ DOMAIN lists = Lists /\ DOMAIN appended = Lists
      /\ DOMAIN removed = Lists /\ DOMAIN changed = Lists
      /\ DOMAIN taken = Lists
  BY DEF TypeInv
<1>4. DOMAIN call' = Threads
  BY CallsStayTyped DEF TypeInv, CallsAreTyped
<1> DEFINE Tables == /\ DOMAIN lists' = Lists /\ DOMAIN appended' = Lists
                     /\ DOMAIN removed' = Lists /\ DOMAIN changed' = Lists
                     /\ DOMAIN taken' = Lists
                     /\ \A l \in Lists : /\ lists'[l] \in Seq(PartsOf[l])
                                         /\ appended'[l] \in Seq(PartsOf[l])
                                         /\ removed'[l] \in Seq(Entries(l))
                                         /\ changed'[l] \subseteq PartsOf[l]
                                         /\ taken'[l] \subseteq Removals(l)
           Flags == /\ checked' \subseteq Processes
                    /\ supported' \subseteq checked'
                    /\ failed' \subseteq checked'
                    /\ stale' \subseteq Threads /\ forgotten' \subseteq Lists
                    /\ tracked' \in BOOLEAN /\ interrupted' \in BOOLEAN
                    /\ calls' \in Nat /\ crashes' \in Nat /\ faults' \in Nat
           Variable == /\ variable' \in Values /\ previous' \in Seq(Values)
                       /\ before' \in Seq(Values) /\ current' \in Seq(Values)
<1>5. SUFFICES Tables /\ Flags /\ Variable
  BY <1>4 DEF TypeOK
<1> DEFINE SameTables == UNCHANGED <<lists, appended, removed, changed, taken>>
           SameVariable == UNCHANGED <<variable, previous, current, before>>
<1>6. SameTables => Tables
  BY <1>2, <1>3
<1>7. SameVariable => Variable
  BY <1>1
<1> HIDE DEF Tables, Variable
<1>8. ASSUME NEW t \in Threads, NEW c, Begin(t, c)
      PROVE  Tables /\ Flags /\ Variable
  BY <1>1, <1>6, <1>7, <1>8 DEF Begin, support, tracking, data
<1>9. ASSUME NEW t \in Threads, GoesOn(t)
      PROVE  Tables /\ Flags /\ Variable
  <2>1. CallFits(t) /\ ProcessOf[t] \in Processes
    BY DEF TypeInv, Processes
  <2>2. CASE MarkChecked(t) \/ MarkSupported(t)
    <3>1. SameTables /\ SameVariable
      BY <2>2 DEF MarkChecked, MarkSupported, tracking, data
    <3>2. /\ checked' \subseteq Processes
          /\ supported' \subseteq checked' /\ failed' \subseteq checked'
      <4>1. CASE MarkChecked(t)
        BY <1>1, <2>1, <4>1 DEF MarkChecked
      <4>2. CASE MarkSupported(t)
        <5>1. ProcessOf[t] \in checked
          BY <4>2 DEF MarkSupported, TypeInv, MarksAreChecked
        <5>2. QED
          BY <1>1, <2>1, <4>2, <5>1 DEF MarkSupported
      <4>3. QED
        BY <2>2, <4>1, <4>2
    <3>3. Flags
      BY <1>1, <2>2, <3>2
         DEF MarkChecked, MarkSupported, support, tracking, counts
    <3>4. QED
      BY <1>6, <1>7, <3>1, <3>3
  <2>3. CASE AppendReads(t) \/ ReadAppended(t) \/ RemoveReads(t)
             \/ ReadIndex(t) \/ ReadRemoved(t)
    BY <1>1, <1>6, <1>7, <2>3
       DEF AppendReads, ReadAppended, RemoveReads, ReadIndex, ReadRemoved,
           support, tracking, data, counts
  <2>4. CASE SaveAppended(t)
    <3> DEFINE c == call[t]
    <3>1. /\ c.list \in Lists /\ c.part \in PartsOf[c.list]
          /\ c.values \in Seq(PartsOf[c.list])
      BY <2>1, <2>4 DEF SaveAppended, CallFits, ListCallFits, AtWith, Listing
    <3>2. Append(c.values, c.part) \in Seq(PartsOf[c.list])
      BY <3>1, AppendElements
    <3>3. /\ appended' = [appended EXCEPT ![c.list] =
                            Append(c.values, c.part)]
          /\ UNCHANGED <<lists, removed, changed, taken>>
      BY <2>4 DEF SaveAppended, data
    <3> HIDE DEF c
    <3>4. Tables
      BY <1>2, <1>3, <3>1, <3>2, <3>3 DEF Tables
    <3>5. Flags /\ SameVariable
      BY <1>1, <2>4, <3>1 DEF SaveAppended, support, data, counts, c
    <3>6. QED
      BY <1>7, <3>4, <3>5
  <2>5. CASE SaveRemoved(t)
    <3> DEFINE c == call[t]
               e == <<c.part, c.index>>
    <3>1. /\ c.list \in Lists /\ c.part \in PartsOf[c.list]
          /\ c.values \in Seq(Entries(c.list)) /\ c.index \in Nat
      BY <2>1, <2>5 DEF SaveRemoved, CallFits, ListCallFits, AtWith, Listing
    <3>2. Append(c.values, e) \in Seq(Entries(c.list))
      <4>1. e \in Entries(c.list)
        BY <3>1 DEF Entries
      <4> HIDE DEF e
      <4>2. QED
        BY <3>1, <4>1, AppendElements
    <3>3. /\ removed' = [removed EXCEPT ![c.list] = Append(c.values, e)]
          /\ UNCHANGED <<lists, appended, changed, taken>>
      BY <2>5 DEF SaveRemoved, data
    <3> HIDE DEF c, e
    <3>4. Tables
      BY <1>2, <1>3, <3>1, <3>2, <3>3 DEF Tables
    <3>5. Flags /\ SameVariable
      BY <1>1, <2>5, <3>1 DEF SaveRemoved, support, data, counts, c
    <3>6. QED
      BY <1>7, <3>4, <3>5
  <2>6. CASE WriteList(t)
    <3> DEFINE c == call[t]
    <3>1. /\ c.list \in Lists /\ c.part \in PartsOf[c.list]
          /\ c.new \in Seq(PartsOf[c.list])
      BY <2>1, <2>6 DEF WriteList, CallFits, ListCallFits, Listing
    <3>2. /\ lists' = [lists EXCEPT ![c.list] = c.new]
          /\ \/ changed' = changed
             \/ changed' = [changed EXCEPT ![c.list] = @ \union {c.part}]
          /\ UNCHANGED <<appended, removed>>
      BY <2>6 DEF WriteList, tracking
    <3>6. \/ taken' = taken
          \/ /\ c.op = "remove"
             /\ taken' = [taken EXCEPT ![c.list] = @ \union {Removal(c)}]
      BY <2>6 DEF WriteList
    <3>7. c.op = "remove" => Removal(c) \in Removals(c.list)
      BY <2>1, <2>6, <3>1
         DEF WriteList, CallFits, ListCallFits, Listing, Removal, Removals
    <3> HIDE DEF c
    <3>8. DOMAIN taken' = Lists /\ \A l \in Lists : taken'[l] \subseteq Removals(l)
      BY <1>2, <1>3, <3>1, <3>6, <3>7
    <3>3. Tables
      BY <1>2, <1>3, <3>1, <3>2, <3>8 DEF Tables
    <3>4. Flags /\ SameVariable
      BY <1>1, <2>6 DEF WriteList, support, tracking, counts
    <3>5. QED
      BY <1>7, <3>3, <3>4
  <2>7. CASE CreateKey(t) \/ ReadOriginal(t)
    BY <1>1, <1>6, <1>7, <2>7
       DEF CreateKey, ReadOriginal, support, tracking, data, counts
  <2>8. CASE WriteFails(t)
    <3>1. interrupted' \in BOOLEAN
      BY <1>1, <2>8 DEF WriteFails, CutShort
    <3>2. SameTables /\ SameVariable
      BY <2>8 DEF WriteFails, tracking, data
    <3>3. Flags
      BY <1>1, <2>8, <3>1 DEF WriteFails, support, tracking
    <3>4. QED
      BY <1>6, <1>7, <3>2, <3>3
  <2>9. CASE WritePrevious(t)
    <3>1. call[t].original \in Values
      BY <2>1, <2>9 DEF WritePrevious, CallFits, SetCallFits, Listing
    <3>2. Variable
      BY <1>1, <2>9, <3>1 DEF WritePrevious, Variable, data
    <3>3. SameTables
      BY <2>9 DEF WritePrevious, data
    <3>4. Flags
      BY <1>1, <2>9 DEF WritePrevious, support, counts
    <3>5. QED
      BY <1>6, <3>2, <3>3, <3>4
  <2>12. CASE WriteCurrent(t)
    <3>1. call[t].value \in Values
      BY <2>1, <2>12 DEF WriteCurrent, CallFits, SetCallFits, Listing
    <3>2. Variable
      BY <1>1, <2>12, <3>1 DEF WriteCurrent, Variable, data
    <3>3. SameTables
      BY <2>12 DEF WriteCurrent, data
    <3>4. Flags
      BY <1>1, <2>12 DEF WriteCurrent, support, counts
    <3>5. QED
      BY <1>6, <3>2, <3>3, <3>4
  <2>10. CASE SetValue(t)
    <3>1. call[t].value \in Values
      BY <2>1, <2>10 DEF SetValue, CallFits, SetCallFits
    <3>2. /\ variable' = call[t].value
          /\ before' = before \/ before' = <<variable>>
          /\ previous' = previous /\ current' = current
      BY <2>10 DEF SetValue, tracking
    <3>3. <<variable>> \in Seq(Values)
      BY <1>1
    <3>4. Variable
      BY <1>1, <3>1, <3>2, <3>3 DEF Variable
    <3>5. interrupted' \in BOOLEAN
      BY <1>1, <2>10 DEF SetValue, CutShort
    <3>6. tracked' = tracked
      BY <2>10 DEF SetValue, tracking
    <3>7. forgotten' = forgotten /\ UNCHANGED <<support, stale, counts>>
      BY <2>10 DEF SetValue, tracking
    <3>8. Flags
      BY <1>1, <3>5, <3>6, <3>7 DEF support, counts
    <3>9. SameTables
      BY <2>10 DEF SetValue, tracking
    <3>10. QED
      BY <1>6, <3>4, <3>8, <3>9
  <2>11. QED
    BY <1>9, <2>2, <2>3, <2>4, <2>5, <2>6, <2>7, <2>9, <2>10, <2>8, <2>12
       DEF GoesOn
<1>10. ASSUME NEW p \in Processes, Crash(p)
       PROVE  Tables /\ Flags /\ Variable
  BY <1>1, <1>6, <1>7, <1>10 DEF Crash, tracking, data, CutShort
<1>11. CASE UNCHANGED vars
  BY <1>1, <1>6, <1>7, <1>11 DEF vars, support, tracking, data, counts
<1>12. QED
  BY <1>8, <1>9, <1>10, <1>11
     DEF Next, AppendToPath, RemoveFromPath, AddExecutableFileExtension,
         RemoveExecutableFileExtension, SetEnvironmentVariable

(* Who is at "mark" has set s_HasCheckedIsSupported, until its process ends.*)
LEMMA MarksStayChecked ==
  ASSUME TypeInv, [Next]_vars
  PROVE  MarksAreChecked'
<1> USE DEF MarksAreChecked, Goes, GoesTo, AtWith, Idle
<1>1. /\ DOMAIN call = Threads /\ MarksAreChecked
      /\ \A t \in Threads : "at" \in DOMAIN call[t]
  BY DEF TypeInv, CallsAreTyped
<1>2. ASSUME NEW t \in Threads, NEW c, Begin(t, c), IsCall(c)
      PROVE  MarksAreChecked'
  <2>1. /\ \A u \in Threads \ {t} : call'[u] = call[u]
        /\ call'[t].at # "mark" /\ checked' = checked
    <3>1. call'[t].at # "mark" \/ (call' = call /\ call[t].at = "idle")
      <4>1. "at" \in DOMAIN c
        BY <1>2, CallsHaveSteps
      <4>2. \/ call' = call /\ call[t].at = "idle"
            \/ \E a \in {"opened", FirstStep(t, c.op)} :
                 call' = [call EXCEPT ![t] = [c EXCEPT !.at = a]]
        BY <1>2, BeginMoves
      <4>3. FirstStep(t, c.op) # "mark"
        BY DEF FirstStep
      <4>4. ASSUME NEW a, a # "mark",
                   call' = [call EXCEPT ![t] = [c EXCEPT !.at = a]]
            PROVE  call'[t].at # "mark"
        BY <1>1, <4>1, <4>4
      <4>5. QED
        BY <4>2, <4>3, <4>4
    <3>2. QED
      BY <1>1, <1>2, <3>1 DEF Begin, support
  <2>2. QED
    BY <1>1, <2>1
<1>3. ASSUME NEW t \in Threads, GoesOn(t)
      PROVE  MarksAreChecked'
  <2>1. CASE MarkChecked(t) \/ MarkSupported(t)
    BY <1>1, <2>1 DEF MarkChecked, MarkSupported, FirstStep
  <2>2. CASE ~(MarkChecked(t) \/ MarkSupported(t))
    <3>1. checked' = checked /\ Moves(t) /\ call'[t].at # "mark"
      <4>1. CASE AppendReads(t) \/ ReadAppended(t) \/ SaveAppended(t)
                 \/ WriteList(t) \/ SaveRemoved(t)
        BY <1>1, <4>1 DEF AppendReads, ReadAppended, SaveAppended, WriteList,
                          SaveRemoved, Moves, support
      <4>2. CASE RemoveReads(t) \/ ReadIndex(t) \/ ReadRemoved(t)
        BY <1>1, <4>2 DEF RemoveReads, ReadIndex, ReadRemoved, Moves, support
      <4>3. CASE CreateKey(t) \/ ReadOriginal(t) \/ WritePrevious(t)
                 \/ WriteCurrent(t) \/ SetValue(t) \/ WriteFails(t)
        BY <1>1, <4>3 DEF CreateKey, ReadOriginal, WritePrevious, WriteCurrent,
                          SetValue, WriteFails, Moves, support
      <4>4. QED
        BY <1>3, <2>2, <4>1, <4>2, <4>3 DEF GoesOn
    <3>2. QED
      BY <1>1, <3>1 DEF Moves
  <2>3. QED
    BY <2>1, <2>2
<1>4. ASSUME NEW p \in Processes, Crash(p)
      PROVE  MarksAreChecked'
  BY <1>1, <1>4 DEF Crash
<1>5. CASE UNCHANGED vars
  BY <1>1, <1>5 DEF vars, support
<1>6. QED
  BY <1>2, <1>3, <1>4, <1>5, StepsAre

(* The types are kept, and hold at the start.                              *)
LEMMA TypeStep ==
  ASSUME TypeInv, [Next]_vars
  PROVE  TypeInv'
<1>1. TypeOK' /\ CallsAreTyped' /\ MarksAreChecked'
  BY CallsStayTyped, TablesStep, MarksStayChecked DEF TypeInv
<1>2. \A f \in {lists, appended, removed, changed, taken}' : DOMAIN f = Lists
  BY TablesStep
<1>3. \A t \in Threads : CallFits(t)'
  <2>1. \A t \in Threads : CallFits(t)
    BY DEF TypeInv
  <2>2. ASSUME NEW t \in Threads, Moves(t), CallFits(t)'
        PROVE  \A u \in Threads : CallFits(u)'
    BY <2>1, <2>2 DEF Moves, CallFits, ListCallFits, SetCallFits
  <2>3. ASSUME NEW p \in Processes, Crash(p)
        PROVE  \A u \in Threads : CallFits(u)'
    <3> SUFFICES ASSUME NEW u \in Threads
                 PROVE  CallFits(u)'
      OBVIOUS
    <3>1. call'[u] = Idle \/ call'[u] = call[u]
      BY <2>3 DEF Crash
    <3>2. CASE call'[u] = call[u]
      BY <2>1, <3>2 DEF CallFits, ListCallFits, SetCallFits
    <3>3. CASE call'[u] = Idle
      BY <3>3 DEF CallFits, Idle, Listing
    <3>4. QED
      BY <3>1, <3>2, <3>3
  <2>4. CASE UNCHANGED vars
    BY <2>1, <2>4 DEF CallFits, ListCallFits, SetCallFits, vars
  <2>5. QED
    BY <2>2, <2>3, <2>4, StepsAre, BeginFits, GoesOnFits
<1>4. QED
  BY <1>1, <1>2, <1>3 DEF TypeInv

LEMMA InitTypes == Init => TypeInv
<1> SUFFICES ASSUME Init PROVE TypeInv
  OBVIOUS
<1>1. DOMAIN call = Threads /\ \A t \in Threads : call[t] = [at |-> "idle"]
  BY DEF Init, Idle
<1>2. CallsAreTyped /\ MarksAreChecked /\ \A t \in Threads : CallFits(t)
  BY <1>1 DEF CallsAreTyped, MarksAreChecked, CallFits, Listing
<1>3. \A f \in {lists, appended, removed, changed, taken} : DOMAIN f = Lists
  BY EnvironmentAssumption DEF Init
<1>4. ASSUME NEW S
      PROVE  <<>> \in Seq(S)
  OBVIOUS
<1>5. \A l \in Lists : /\ lists[l] \in Seq(PartsOf[l])
                       /\ appended[l] \in Seq(PartsOf[l])
                       /\ removed[l] \in Seq(Entries(l))
                       /\ changed[l] \subseteq PartsOf[l]
                       /\ taken[l] \subseteq Removals(l)
  BY <1>4, EnvironmentAssumption DEF Init
<1>6. /\ previous \in Seq(Values) /\ before \in Seq(Values)
      /\ current \in Seq(Values)
  BY <1>4 DEF Init
<1>7. TypeOK
  BY <1>1, <1>5, <1>6 DEF Init, TypeOK
<1>8. QED
  BY <1>2, <1>3, <1>7 DEF TypeInv

(* The registry's lists are lists of parts, the tracker's entries those of *)
(* parts, and a call that was skipped is explained                         *)
(* (EnvironmentManager.cpp 53-72).                                         *)
THEOREM EnvironmentIsCorrect == Spec => []EnvironmentInv
<1>1. Init => TypeInv
  BY InitTypes
<1>2. TypeInv /\ [Next]_vars => TypeInv'
  BY TypeStep
<1>3. TypeInv /\ SkippedIsExplained => EnvironmentInv
  BY DEF TypeInv, EnvironmentInv
<1>4. QED
  BY <1>1, <1>2, <1>3, SkipsAreExplained, PTL DEF Spec

-----------------------------------------------------------------------------
(* The only position of a part is its first and its last, so the part goes *)
(* back to where it was.                                                   *)
LEMMA PartGoesBack ==
  ASSUME NEW S, NEW s \in Seq(S), NEW part \in S,
         Cardinality(Positions(s, part)) = 1
  PROVE  PutsBack(<<part, FirstPosition(s, part) - 1>>,
                  [part |-> part, was |-> s,
                   new |-> RemoveAt(s, LastPosition(s, part))])
<1> DEFINE P == Positions(s, part)
<1>1. P \subseteq 1..Len(s) /\ Len(s) \in Nat
  BY DEF Positions
<1>2. IsFiniteSet(P)
  <2>1. IsFiniteSet(1..Len(s))
    BY <1>1, FS_Interval
  <2>2. QED
    BY <1>1, <2>1, FS_Subset
<1>3. PICK i : P = {i}
  BY <1>2, FS_Singleton
<1>4. FirstPosition(s, part) = i /\ LastPosition(s, part) = i
  BY <1>3, FirstAndLast
<1>5. i \in 1..Len(s) /\ Folded[s[i]] = Folded[part]
  <2>1. i \in P
    BY <1>3
  <2>2. QED
    BY <2>1 DEF Positions
<1> DEFINE new == RemoveAt(s, i)
           undone == InsertAt(new, i, part)
           e == <<part, i - 1>>
           removal == [part |-> part, was |-> s, new |-> new]
<1>6. /\ DOMAIN undone = DOMAIN s
      /\ \A j \in DOMAIN s : undone[j] = IF j = i THEN part ELSE s[j]
  BY <1>5, PutBack
<1>7. Len(new) = Len(s) - 1
  BY <1>5, RemoveAtElements
<1>8. i - 1 \in 0..Len(new)
  BY <1>1, <1>5, <1>7
<1> HIDE DEF undone
<1>9. \A j \in DOMAIN undone : Folded[undone[j]] = Folded[s[j]]
  BY <1>5, <1>6
<1>10. /\ e[1] = removal.part /\ e[2] \in 0..Len(removal.new)
       /\ InsertAt(removal.new, e[2] + 1, e[1]) = undone /\ removal.was = s
  <2>1. e[2] + 1 = i
    BY <1>5
  <2>2. QED
    BY <1>8, <2>1 DEF undone
<1> HIDE DEF e, removal
<1>11. PutsBack(e, removal)
  BY <1>9, <1>10 DEF PutsBack
<1>12. QED
  BY <1>4, <1>11 DEF e, removal

(* Entries that are there stay, unless the list is forgotten.              *)
LEMMA SavedEntries ==
  ASSUME TypeInv, NEW t \in Threads, SaveRemoved(t)
  PROVE  LET c == call[t] IN
         /\ forgotten \subseteq forgotten' /\ c.list \in Lists
         /\ \A k \in Lists \ forgotten' : \A e :
              Holds(removed[k], e) => Holds(removed'[k], e)
         /\ Holds(removed'[c.list], <<c.part, c.index>>)
<1> DEFINE c == call[t]
           e0 == <<c.part, c.index>>
<1>1. /\ c.list \in Lists /\ c.part \in PartsOf[c.list]
      /\ c.values \in Seq(Entries(c.list)) /\ c.index \in Nat
  BY DEF TypeInv, SaveRemoved, CallFits, ListCallFits, AtWith, Listing
<1>2. DOMAIN removed = Lists
  BY DEF TypeInv
<1>3. /\ removed' = [removed EXCEPT ![c.list] = Append(c.values, e0)]
      /\ forgotten' = IF removed[c.list] = c.values THEN forgotten
                      ELSE forgotten \union {c.list}
  BY DEF SaveRemoved
<1>4. e0 \in Entries(c.list)
  BY <1>1 DEF Entries
<1> HIDE DEF c, e0
<1>5. /\ removed'[c.list] = Append(c.values, e0)
      /\ \A k \in Lists \ {c.list} : removed'[k] = removed[k]
  BY <1>1, <1>2, <1>3
<1> DEFINE v == c.values
           S == Entries(c.list)
           w == Append(v, e0)
<1>6. /\ Len(v) \in Nat /\ DOMAIN v = 1..Len(v)
      /\ DOMAIN w = 1..(Len(v) + 1)
      /\ \A i \in 1..Len(v) : w[i] = v[i]
      /\ w[Len(v) + 1] = e0
  <2>1. v \in Seq(S) /\ e0 \in S
    BY <1>1, <1>4
  <2> HIDE DEF v, S
  <2>2. QED
    BY <2>1
<1> HIDE DEF v, S, w
<1>7. Holds(removed'[c.list], e0)
  <2>1. Len(v) + 1 \in DOMAIN w
    BY <1>6
  <2>2. removed'[c.list] = w
    BY <1>5 DEF w, v
  <2>3. QED
    BY <1>6, <2>1, <2>2 DEF Holds
<1>8. ASSUME NEW k \in Lists \ forgotten', NEW e, Holds(removed[k], e)
      PROVE  Holds(removed'[k], e)
  <2>1. CASE k # c.list
    BY <1>5, <1>8, <2>1 DEF Holds
  <2>2. CASE k = c.list
    <3>1. removed[c.list] = v /\ removed'[c.list] = w
      BY <1>3, <1>5, <1>8, <2>2 DEF v, w
    <3>2. PICK i \in DOMAIN v : v[i] = e
      BY <1>8, <2>2, <3>1 DEF Holds
    <3>3. i \in DOMAIN w /\ w[i] = e
      BY <1>6, <3>2
    <3>4. QED
      BY <2>2, <3>1, <3>3 DEF Holds
  <2>3. QED
    BY <2>1, <2>2
<1>9. QED
  BY <1>1, <1>3, <1>7, <1>8 DEF c, e0

(* What is tracked of a removal stays right until the list is written.     *)
LEMMA RemovalStep ==
  ASSUME RemovalInv, [Next]_vars
  PROVE  \A t \in Threads : RemovalIsKnown(t)'
<1>1. TypeInv' /\ TypeInv /\ \A t \in Threads : RemovalIsKnown(t)
  BY TypeStep DEF RemovalInv
<1>2. /\ DOMAIN call = Threads /\ DOMAIN lists = Lists
      /\ \A t \in Threads : "at" \in DOMAIN call[t] /\ CallFits(t)
      /\ \A l \in Lists : lists[l] \in Seq(PartsOf[l])
  BY <1>1 DEF TypeInv, CallsAreTyped, TypeOK
(* A step of one thread that leaves the lists as they are.                 *)
<1>4. ASSUME NEW t \in Threads, Moves(t), lists' = lists,
             removed' = removed, forgotten \subseteq forgotten',
             stale' = stale \/ stale' = stale \ {t}, RemovalIsKnown(t)'
      PROVE  \A u \in Threads : RemovalIsKnown(u)'
  <2> SUFFICES ASSUME NEW u \in Threads \ {t}
               PROVE  RemovalIsKnown(u)'
    BY <1>4
  <2>1. call'[u] = call[u] /\ (u \in stale' <=> u \in stale)
    BY <1>4 DEF Moves
  <2>2. QED
    BY <1>1, <1>4, <2>1 DEF RemovalIsKnown, Holds, Tracked
<1>5. ASSUME NEW t \in Threads,
             call'[t].at \notin Listing \/ call'[t].op # "remove"
      PROVE  RemovalIsKnown(t)'
  BY <1>5 DEF RemovalIsKnown
<1>6. ASSUME NEW t \in Threads, NEW c, IsCall(c), Begin(t, c)
      PROVE  \A u \in Threads : RemovalIsKnown(u)'
  <2>1. /\ Moves(t) /\ lists' = lists /\ stale' = stale \ {t}
        /\ removed' = removed /\ forgotten' = forgotten
    BY <1>1, <1>6, BeginFits DEF Begin, data, tracking
  <2>2. call'[t].at \notin Listing
    <3>1. "at" \in DOMAIN c
      BY <1>6, CallsHaveSteps
    <3>2. \/ call' = call /\ call[t].at = "idle"
          \/ \E a \in {"opened", FirstStep(t, c.op)} :
               call' = [call EXCEPT ![t] = [c EXCEPT !.at = a]]
      BY <1>6, BeginMoves
    <3>3. FirstStep(t, c.op) \in {"read", "create", "set"}
      BY DEF FirstStep
    <3>4. ASSUME NEW a, a \notin Listing,
                 call' = [call EXCEPT ![t] = [c EXCEPT !.at = a]]
          PROVE  call'[t].at \notin Listing
      BY <1>2, <3>1, <3>4
    <3>5. QED
      BY <3>2, <3>3, <3>4 DEF Listing
  <2>3. QED
    BY <1>4, <1>5, <2>1, <2>2
<1>7. ASSUME NEW t \in Threads, GoesOn(t)
      PROVE  \A u \in Threads : RemovalIsKnown(u)'
  <2>1. Moves(t)
    BY <1>1, <1>7, GoesOnFits
  <2> USE DEF Goes, GoesTo, AtWith
  <2> DEFINE Same == /\ lists' = lists /\ stale' = stale
                     /\ removed' = removed /\ forgotten \subseteq forgotten'
  <2>2. CASE MarkChecked(t) \/ MarkSupported(t)
    <3>1. Same
      BY <2>2 DEF MarkChecked, MarkSupported, data, tracking
    <3>2. call'[t].at \notin Listing
      BY <1>2, <2>2 DEF MarkChecked, MarkSupported, FirstStep, Idle, Listing
    <3>3. QED
      BY <1>4, <1>5, <2>1, <3>1, <3>2
  <2>3. CASE AppendReads(t) \/ ReadAppended(t) \/ SaveAppended(t)
    <3>1. Same
      BY <2>3 DEF AppendReads, ReadAppended, SaveAppended, data, tracking
    <3>2. call'[t].at \notin Listing \/ call'[t].op # "remove"
      <4>1. CASE AppendReads(t)
        <5> DEFINE l == call[t].list
                   Has == \E i \in DOMAIN lists[l] :
                            <<call[t].part, lists[l][i]>> \in Within
        <5>1. CASE Has
          <6>1. call'[t] = Idle
            BY <1>2, <4>1, <5>1 DEF AppendReads
          <6>2. QED
            BY <6>1 DEF Idle, Listing
        <5>2. CASE ~Has
          <6>1. call'[t] = [at |-> IF Tracked(t) THEN "track" ELSE "write",
                            op |-> "append", list |-> l,
                            part |-> call[t].part,
                            new |-> Append(lists[l], call[t].part)]
            BY <1>2, <4>1, <5>2 DEF AppendReads
          <6>2. QED
            BY <6>1
        <5>3. QED
          BY <5>1, <5>2
      <4>2. CASE ReadAppended(t)
        BY <1>2, <4>2 DEF ReadAppended
      <4>3. CASE SaveAppended(t)
        <5>1. call[t].op = "append" /\ "op" \in DOMAIN call[t]
          BY <1>1, <4>3 DEF SaveAppended, TypeInv, CallsAreTyped
        <5>2. call' = [call EXCEPT ![t] = [call[t] EXCEPT !.at = "write"]]
          BY <4>3 DEF SaveAppended
        <5>3. QED
          BY <1>2, <5>1, <5>2
      <4>4. QED
        BY <2>3, <4>1, <4>2, <4>3
    <3>3. QED
      BY <1>4, <1>5, <2>1, <3>1, <3>2
  <2>4. CASE CreateKey(t) \/ ReadOriginal(t) \/ WritePrevious(t)
             \/ WriteCurrent(t)
    <3>1. Same
      BY <2>4 DEF CreateKey, ReadOriginal, WritePrevious, WriteCurrent, data,
                  tracking
    <3>2. call'[t].at \notin Listing
      BY <1>2, <2>4 DEF CreateKey, ReadOriginal, WritePrevious, WriteCurrent,
                        Listing
    <3>3. QED
      BY <1>4, <1>5, <2>1, <3>1, <3>2
  <2>5. CASE SetValue(t) \/ WriteFails(t)
    <3>1. Same
      BY <2>5 DEF SetValue, WriteFails, data, tracking
    <3>2. call'[t].at = "idle"
      BY <1>2, <2>5 DEF SetValue, WriteFails, Idle
    <3>3. QED
      BY <1>4, <1>5, <2>1, <3>1, <3>2 DEF Listing
  (* The copy and the new list are made of the list as it is.              *)
  <2>6. CASE RemoveReads(t)
    <3> DEFINE l == call[t].list
               part == call[t].part
               was == lists[l]
    <3>1. Same
      BY <2>6 DEF RemoveReads, data, tracking
    <3>2. CASE Positions(was, part) = {}
      <4>1. call'[t].at = "idle"
        BY <1>2, <2>6, <3>2 DEF RemoveReads, Idle
      <4>2. QED
        BY <1>4, <1>5, <2>1, <3>1, <4>1 DEF Listing
    <3>3. CASE Positions(was, part) # {}
      <4> DEFINE i == LastPosition(was, part)
                 a == IF Tracked(t) THEN "index" ELSE "write"
      <4>1. call'[t] = [at |-> a, op |-> "remove", list |-> l, part |-> part,
                        was |-> was, new |-> RemoveAt(was, i)]
        BY <1>2, <2>6, <3>3 DEF RemoveReads
      <4>2. l \in Lists /\ was \in Seq(PartsOf[l])
        BY <1>2, <2>6 DEF RemoveReads, CallFits, ListCallFits, Listing
      <4>3. call'[t].at = a /\ call'[t].list = l
        BY <4>1
      <4>4. call'[t].part = part /\ call'[t].was = was
        BY <4>1
      <4>5. call'[t].new = RemoveAt(was, i) /\ "was" \in DOMAIN call'[t]
        BY <4>1
      <4>6. RemovalIsKnown(t)'
        BY <3>1, <3>3, <4>2, <4>3, <4>4, <4>5 DEF RemovalIsKnown, Tracked
      <4>7. QED
        BY <1>4, <2>1, <3>1, <4>6
    <3>4. QED
      BY <3>2, <3>3
  (* The list that is read for the index is the copy, if nobody wrote.     *)
  <2>7. CASE ReadIndex(t)
    <3> DEFINE c == call[t]
               now == lists[c.list]
               i == FirstPosition(now, c.part)
    <3>1. Same
      BY <2>7 DEF ReadIndex, data, tracking
    <3>5. c.at = "index" /\ c.op = "remove" /\ RemovalIsKnown(t)
      BY <1>1, <2>7 DEF ReadIndex
    <3>2. CASE Positions(now, c.part) = {}
      <4>1. call' = [call EXCEPT ![t] = [call[t] EXCEPT !.at = "write"]]
        BY <2>7, <3>2 DEF ReadIndex
      <4>2. t \in stale
        BY <3>2, <3>5 DEF RemovalIsKnown, Listing
      <4>3. call'[t] = [call[t] EXCEPT !.at = "write"]
        BY <1>2, <4>1
      <4>4. RemovalIsKnown(t)'
        BY <3>1, <3>5, <4>2, <4>3 DEF RemovalIsKnown, Listing
      <4>5. QED
        BY <1>4, <2>1, <3>1, <4>4
    <3>3. CASE Positions(now, c.part) # {}
      <4>1. call'[t] = [at |-> "track", op |-> "remove", list |-> c.list,
                        part |-> c.part, was |-> c.was, new |-> c.new,
                        index |-> i - 1]
        BY <1>2, <2>7, <3>3 DEF ReadIndex
      <4>3. call'[t].at = "track" /\ call'[t].list = c.list
        BY <4>1
      <4>4. call'[t].part = c.part /\ call'[t].was = c.was
        BY <4>1
      <4>5. call'[t].new = c.new /\ "was" \in DOMAIN call'[t]
        BY <4>1
      <4>6. call'[t].index = i - 1
        BY <4>1
      <4>7. RemovalIsKnown(t)'
        BY <3>1, <3>5, <4>3, <4>4, <4>5, <4>6 DEF RemovalIsKnown, Listing
      <4>8. QED
        BY <1>4, <2>1, <3>1, <4>7
    <3>4. QED
      BY <3>2, <3>3
  <2>8. CASE ReadRemoved(t)
    <3> DEFINE c == call[t]
    <3>1. Same
      BY <2>8 DEF ReadRemoved, data, tracking
    <3>2. call'[t] = [at |-> "save", op |-> "remove", list |-> c.list,
                      part |-> c.part, was |-> c.was, new |-> c.new,
                      index |-> c.index, values |-> removed[c.list]]
      BY <1>2, <2>8 DEF ReadRemoved
    <3>3. c.at = "track" /\ c.op = "remove" /\ RemovalIsKnown(t)
      BY <1>1, <2>8 DEF ReadRemoved
    <3>4. call'[t].at = "save" /\ call'[t].list = c.list
      BY <3>2
    <3>5. call'[t].part = c.part /\ call'[t].was = c.was
      BY <3>2
    <3>6. call'[t].new = c.new /\ "was" \in DOMAIN call'[t]
      BY <3>2
    <3>7. call'[t].index = c.index
      BY <3>2
    <3>8. RemovalIsKnown(t)'
      BY <3>1, <3>3, <3>4, <3>5, <3>6, <3>7 DEF RemovalIsKnown, Listing
    <3>9. QED
      BY <1>4, <2>1, <3>1, <3>8
  (* The entry is there, and those of other calls stay.                    *)
  <2>9. CASE SaveRemoved(t)
    <3> DEFINE c == call[t]
    <3>1. /\ lists' = lists /\ stale' = stale
          /\ call' = [call EXCEPT ![t] = [call[t] EXCEPT !.at = "write"]]
          /\ c.at = "save" /\ c.op = "remove" /\ RemovalIsKnown(t)
      BY <1>1, <2>9 DEF SaveRemoved, data
    <3>2. /\ forgotten \subseteq forgotten' /\ c.list \in Lists
          /\ \A k \in Lists \ forgotten' : \A e :
               Holds(removed[k], e) => Holds(removed'[k], e)
          /\ Holds(removed'[c.list], <<c.part, c.index>>)
      BY <1>1, <2>9, SavedEntries
    <3>3. call'[t] = [c EXCEPT !.at = "write"]
      BY <1>2, <3>1
    <3>4. /\ call'[t].at = "write" /\ call'[t].list = c.list
          /\ call'[t].part = c.part /\ call'[t].was = c.was
          /\ call'[t].new = c.new /\ DOMAIN call'[t] = DOMAIN c
      BY <1>2, <3>1, <3>3
    <3>5. t \notin stale => c.index = FirstPosition(c.was, c.part) - 1
      BY <3>1 DEF RemovalIsKnown, Listing
    <3> DEFINE e == <<c.part, FirstPosition(c.was, c.part) - 1>>
    <3>6. t \notin stale => Holds(removed'[c.list], e)
      BY <3>2, <3>5
    <3> HIDE DEF e
    <3>7. t \notin stale =>
            Holds(removed'[c.list],
                  <<c.part, FirstPosition(c.was, c.part) - 1>>)
      BY <3>6 DEF e
    <3>8. RemovalIsKnown(t)'
      BY <3>1, <3>4, <3>7 DEF RemovalIsKnown, Listing, Tracked
    <3>9. ASSUME NEW u \in Threads \ {t}
          PROVE  RemovalIsKnown(u)'
      <4>1. call'[u] = call[u] /\ RemovalIsKnown(u)
        BY <1>1, <2>1 DEF Moves
      <4>2. call[u].at = "write" /\ call[u].op = "remove" =>
              call[u].list \in Lists
        BY <1>2 DEF CallFits, ListCallFits, Listing
      <4>3. QED
        BY <3>1, <3>2, <4>1, <4>2 DEF RemovalIsKnown, Tracked, Listing
    <3>10. QED
      BY <3>8, <3>9
  (* Whoever has a copy of the list that is written is stale from now on.  *)
  <2>10. CASE WriteList(t)
    <3>1. call'[t].at = "idle"
      BY <1>2, <2>10 DEF WriteList, Idle
    <3>2. ASSUME NEW u \in Threads \ {t}
          PROVE  RemovalIsKnown(u)'
      <4>1. call'[u] = call[u] /\ RemovalIsKnown(u)
        BY <1>1, <2>1 DEF Moves
      <4>2. /\ u \in stale => u \in stale'
            /\ \A l \in Lists : l # call[t].list => lists'[l] = lists[l]
            /\ removed' = removed /\ forgotten' = forgotten
        BY <1>2, <2>10 DEF WriteList, tracking
      <4>3. (/\ call[u].at \in {"index", "track", "save", "write"}
             /\ call[u].list = call[t].list) => u \in stale'
        BY <2>10 DEF WriteList
      <4>4. call[u].at \in Listing /\ call[u].op = "remove" =>
              call[u].list \in Lists
        BY <1>2 DEF CallFits, ListCallFits, Listing
      <4>5. QED
        BY <4>1, <4>2, <4>3, <4>4
           DEF RemovalIsKnown, Holds, Tracked, Listing
    <3>3. QED
      BY <1>5, <3>1, <3>2 DEF Listing
  <2>11. QED
    BY <1>7, <2>2, <2>3, <2>4, <2>5, <2>6, <2>7, <2>8, <2>9, <2>10
       DEF GoesOn
<1>8. ASSUME NEW p \in Processes, Crash(p)
      PROVE  \A u \in Threads : RemovalIsKnown(u)'
  <2> SUFFICES ASSUME NEW u \in Threads
               PROVE  RemovalIsKnown(u)'
    OBVIOUS
  <2>1. /\ call'[u] = Idle \/ call'[u] = call[u]
        /\ lists' = lists /\ stale' = stale
        /\ removed' = removed /\ forgotten' = forgotten
    BY <1>8 DEF Crash, data, tracking
  <2>2. CASE call'[u] = call[u]
    BY <1>1, <2>1, <2>2 DEF RemovalIsKnown, Holds, Tracked
  <2>3. CASE call'[u] = Idle
    BY <1>5, <2>3 DEF Idle, Listing
  <2>4. QED
    BY <2>1, <2>2, <2>3
<1>9. CASE UNCHANGED vars
  BY <1>1, <1>9 DEF vars, data, tracking, RemovalIsKnown, Holds, Tracked
<1>10. QED
  BY <1>6, <1>7, <1>8, <1>9, StepsAre

(* What was removed stays tracked.                                         *)
LEMMA TakenStep ==
  ASSUME RemovalInv, [Next]_vars
  PROVE  RemovalsAreTracked'
<1>1. /\ TypeInv /\ RemovalsAreTracked
      /\ \A t \in Threads : RemovalIsKnown(t)
  BY DEF RemovalInv
<1>2. (removed' = removed /\ taken' = taken /\ forgotten \subseteq forgotten')
        => RemovalsAreTracked'
  BY <1>1 DEF RemovalsAreTracked, PutsBack
<1>3. ASSUME NEW t \in Threads, NEW c, Begin(t, c)
      PROVE  RemovalsAreTracked'
  BY <1>2, <1>3 DEF Begin, tracking, data
<1>4. ASSUME NEW t \in Threads, GoesOn(t)
      PROVE  RemovalsAreTracked'
  <2>1. CASE SaveRemoved(t)
    <3>1. /\ forgotten \subseteq forgotten' /\ taken' = taken
          /\ \A k \in Lists \ forgotten' : \A e :
               Holds(removed[k], e) => Holds(removed'[k], e)
      BY <1>1, <2>1, SavedEntries DEF SaveRemoved, data
    <3>2. ASSUME NEW l \in Lists \ forgotten', NEW r \in taken[l]
          PROVE  \E i \in DOMAIN removed'[l] : PutsBack(removed'[l][i], r)
      <4>1. PICK j \in DOMAIN removed[l] : PutsBack(removed[l][j], r)
        BY <1>1, <3>1, <3>2 DEF RemovalsAreTracked
      <4>2. Holds(removed'[l], removed[l][j])
        <5>1. Holds(removed[l], removed[l][j])
          BY <4>1 DEF Holds
        <5>2. QED
          BY <3>1, <5>1
      <4>3. PICK i \in DOMAIN removed'[l] : removed'[l][i] = removed[l][j]
        BY <4>2 DEF Holds
      <4>4. QED
        BY <4>1, <4>3
    <3>3. QED
      BY <3>1, <3>2 DEF RemovalsAreTracked, PutsBack
  <2>2. CASE WriteList(t)
    <3> DEFINE c == call[t]
    <3>1. removed' = removed /\ forgotten' = forgotten
      BY <2>2 DEF WriteList, tracking
    <3>2. CASE taken' = taken
      BY <1>2, <3>1, <3>2
    <3>3. CASE taken' # taken
      <4>1. /\ c.op = "remove" /\ Tracked(t) /\ t \notin stale /\ StoodOnce(c)
            /\ taken' = [taken EXCEPT ![c.list] = @ \union {Removal(c)}]
            /\ c.at = "write" /\ RemovalIsKnown(t)
        BY <1>1, <2>2, <3>3 DEF WriteList
      <4>2. /\ c.list \in Lists /\ c.part \in PartsOf[c.list]
            /\ DOMAIN taken = Lists
        BY <1>1, <4>1 DEF TypeInv, CallFits, ListCallFits, Listing
      <4>3. /\ c.was \in Seq(PartsOf[c.list])
            /\ c.new = RemoveAt(c.was, LastPosition(c.was, c.part))
            /\ c.list \notin forgotten =>
                 Holds(removed[c.list],
                       <<c.part, FirstPosition(c.was, c.part) - 1>>)
        BY <4>1 DEF RemovalIsKnown, Listing
      <4>4. PutsBack(<<c.part, FirstPosition(c.was, c.part) - 1>>, Removal(c))
        BY <4>1, <4>2, <4>3, PartGoesBack DEF StoodOnce, Removal
      <4>5. c.list \notin forgotten =>
              \E i \in DOMAIN removed[c.list] :
                PutsBack(removed[c.list][i], Removal(c))
        BY <4>3, <4>4 DEF Holds
      <4> HIDE DEF c
      <4>6. ASSUME NEW l \in Lists \ forgotten, NEW r \in taken'[l]
            PROVE  \E i \in DOMAIN removed[l] : PutsBack(removed[l][i], r)
        <5>1. CASE r \in taken[l]
          BY <1>1, <5>1 DEF RemovalsAreTracked
        <5>2. CASE r \notin taken[l]
          <6>1. l = c.list /\ r = Removal(c)
            BY <4>1, <4>2, <4>6, <5>2
          <6>2. QED
            BY <4>5, <6>1
        <5>3. QED
          BY <5>1, <5>2
      <4>7. QED
        BY <3>1, <4>6 DEF RemovalsAreTracked, PutsBack
    <3>4. QED
      BY <3>2, <3>3
  <2>3. CASE MarkChecked(t) \/ MarkSupported(t) \/ AppendReads(t)
             \/ ReadAppended(t) \/ SaveAppended(t)
    BY <1>2, <2>3 DEF MarkChecked, MarkSupported, AppendReads, ReadAppended,
                      SaveAppended, tracking, data
  <2>4. CASE RemoveReads(t) \/ ReadIndex(t) \/ ReadRemoved(t)
    BY <1>2, <2>4 DEF RemoveReads, ReadIndex, ReadRemoved, tracking, data
  <2>5. CASE CreateKey(t) \/ ReadOriginal(t) \/ WritePrevious(t)
             \/ WriteCurrent(t) \/ SetValue(t) \/ WriteFails(t)
    BY <1>2, <2>5 DEF CreateKey, ReadOriginal, WritePrevious, WriteCurrent,
                      SetValue, WriteFails, tracking, data
  <2>6. QED
    BY <1>4, <2>1, <2>2, <2>3, <2>4, <2>5 DEF GoesOn
<1>5. ASSUME NEW p \in Processes, Crash(p)
      PROVE  RemovalsAreTracked'
  BY <1>2, <1>5 DEF Crash, tracking, data
<1>6. CASE UNCHANGED vars
  BY <1>2, <1>6 DEF vars, tracking, data
<1>7. QED
  BY <1>3, <1>4, <1>5, <1>6, StepsAre

(* What the package appended is in AppendedValues, and for what it removed *)
(* RemovedValues has an entry with the index where it was, unless the list *)
(* was written since the removal read it or held the part twice, or two    *)
(* trackers overwrote each other's entry (PathChangeTracker.cpp 55-111).   *)
THEOREM ChangesCanBeUndone == Spec => []TrackingSuffices
<1>1. Init => RemovalInv
  <2>1. Init => \A t \in Threads : RemovalIsKnown(t)
    BY DEF Init, Idle, RemovalIsKnown, Listing
  <2>2. Init => RemovalsAreTracked
    BY DEF Init, RemovalsAreTracked
  <2>3. QED
    BY <2>1, <2>2, InitTypes DEF RemovalInv
<1>2. RemovalInv /\ [Next]_vars => RemovalInv'
  BY TypeStep, RemovalStep, TakenStep DEF RemovalInv
<1>3. RemovalInv => RemovalsAreTracked
  BY DEF RemovalInv
<1>4. AppendsAreTracked /\ RemovalsAreTracked => TrackingSuffices
  BY DEF TrackingSuffices
<1>5. QED
  BY <1>1, <1>2, <1>3, <1>4, AppendsStayTracked, PTL DEF Spec

=============================================================================
