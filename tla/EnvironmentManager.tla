------------------------- MODULE EnvironmentManager -------------------------
(***************************************************************************)
(* The setters of EnvironmentManager for the user or the machine           *)
(* (src/dev/EnvironmentManager): a variable, PATH and PATHEXT in the       *)
(* registry, read, changed and written back with no lock between threads   *)
(* or processes; and the change trackers, which write what a packaged      *)
(* process is about to change under HKCU\Software\ChangeTracker, so that   *)
(* it can be undone when the package is removed.  PATH and PATHEXT are     *)
(* sequences of parts that end with a semicolon.  The threads of a         *)
(* packaged process belong to one package; unpackaged processes stand for  *)
(* everybody else who writes the registry, and are not tracked.            *)
(***************************************************************************)
EXTENDS Integers, SequencesExt

CONSTANTS
  Threads, ProcessOf, Packaged,      (* the processes with a package       *)
  PartsOf,      (* the parts of "PATH" and of "PATHEXT"                    *)
  Within,       (* <<a, b>>: the text of part a occurs in that of part b   *)
  Folded,       (* a part with its case ignored                            *)
  FirstList,    (* the lists at the start                                  *)
  Values,                            (* of the variable; one is the empty  *)
                                     (* string, the same as none           *)
  MaxCalls, MaxCrashes, MaxFaults    (* bounds                             *)

Lists == {"PATH", "PATHEXT"}
Processes == {ProcessOf[t] : t \in Threads}

ASSUME EnvironmentAssumption ==
  /\ Packaged \subseteq Processes /\ DOMAIN FirstList = Lists
  /\ \A l \in Lists : FirstList[l] \in Seq(PartsOf[l])
  /\ \A l \in Lists : \A a \in PartsOf[l] : <<a, a>> \in Within

VARIABLES
  checked, supported,   (* s_HasCheckedIsSupported, s_IsSupported          *)
  lists,                (* PATH and PATHEXT in the registry                *)
  appended, removed,    (* AppendedValues, RemovedValues of the package    *)
  variable,             (* the variable in the registry                    *)
  tracked,              (* the package has a key for the variable          *)
  previous, current,    (* <<PreviousValue>> and <<CurrentValue>>, or <<>> *)
  call,                 (* what each thread does                           *)
  failed,               (* processes whose check of the registry failed    *)
  changed,              (* parts the package appended                      *)
  taken,                (* what it removed, see RemovalsAreTracked         *)
  stale,                (* threads whose copy of a list was overtaken      *)
  forgotten,            (* lists with a tracking entry overwritten         *)
  before,               (* <<the value the package's first call replaced>> *)
  interrupted,          (* that call was, by a crash, failure or write     *)
  calls, crashes, faults

support == <<checked, supported, failed>>
tracking == <<appended, removed, tracked, previous, current, forgotten>>
data == <<lists, variable, changed, taken, before>>
counts == <<calls, crashes, faults>>
vars == <<support, tracking, data, call, stale, interrupted, counts>>

Idle == [at |-> "idle"]
Entries(l) == PartsOf[l] \X Nat
Removals(l) == [part : PartsOf[l], was : Seq(PartsOf[l]), new : Seq(PartsOf[l])]

TypeOK ==
  /\ checked \subseteq Processes /\ supported \subseteq checked
  /\ failed \subseteq checked
  /\ \A l \in Lists : /\ lists[l] \in Seq(PartsOf[l])
                      /\ appended[l] \in Seq(PartsOf[l])
                      /\ removed[l] \in Seq(Entries(l))
                      /\ changed[l] \subseteq PartsOf[l]
                      /\ taken[l] \subseteq Removals(l)
  /\ variable \in Values /\ {previous, current, before} \subseteq Seq(Values)
  /\ DOMAIN call = Threads /\ stale \subseteq Threads
  /\ forgotten \subseteq Lists /\ {tracked, interrupted} \subseteq BOOLEAN
  /\ <<calls, crashes, faults>> \in Nat \X Nat \X Nat

Init ==
  /\ checked = {} /\ supported = {} /\ failed = {}
  /\ lists = FirstList
  /\ appended = [l \in Lists |-> <<>>] /\ removed = appended
  /\ variable \in Values /\ tracked = FALSE
  /\ previous = <<>> /\ current = <<>>
  /\ call = [t \in Threads |-> Idle]
  /\ changed = [l \in Lists |-> {}] /\ taken = changed
  /\ stale = {} /\ forgotten = {}
  /\ before = <<>> /\ interrupted = FALSE
  /\ calls = 0 /\ crashes = 0 /\ faults = 0

Tracked(t) == ProcessOf[t] \in Packaged
Goes(t, c) == call' = [call EXCEPT ![t] = c]
GoesTo(t, at) == call' = [call EXCEPT ![t].at = at]
AtWith(t, at, op) == call[t].at = at /\ call[t].op = op

-----------------------------------------------------------------------------
(* The calls.  Each first asks IsSupported, which finds the registry key   *)
(* of a system with the feature.                                           *)

FirstStep(t, op) ==
  IF op # "set" THEN "read" ELSE IF Tracked(t) THEN "create" ELSE "set"

Begin(t, c) ==
  LET p == ProcessOf[t] IN
  /\ call[t] = Idle /\ calls < MaxCalls /\ calls' = calls + 1
  /\ stale' = stale \ {t}
  /\ \/ p \notin checked /\ Goes(t, [c EXCEPT !.at = "opened"])
     \/ /\ p \in checked \intersect supported
        /\ Goes(t, [c EXCEPT !.at = FirstStep(t, c.op)])
     \/ p \in checked \ supported /\ UNCHANGED call
  /\ UNCHANGED <<support, tracking, data, interrupted, crashes, faults>>

ListCall(op, l, part) == [at |-> "", op |-> op, list |-> l, part |-> part]

AppendToPath(t, part) == Begin(t, ListCall("append", "PATH", part))
RemoveFromPath(t, part) == Begin(t, ListCall("remove", "PATH", part))
AddExecutableFileExtension(t, part) ==
  Begin(t, ListCall("append", "PATHEXT", part))
RemoveExecutableFileExtension(t, part) ==
  Begin(t, ListCall("remove", "PATHEXT", part))
SetEnvironmentVariable(t, v) ==
  Begin(t, [at |-> "", op |-> "set", value |-> v])

(* s_HasCheckedIsSupported is set before s_IsSupported.                    *)
MarkChecked(t) ==
  LET p == ProcessOf[t] IN
  /\ call[t].at = "opened"
  /\ checked' = checked \union {p}
  /\ \/ GoesTo(t, "mark") /\ UNCHANGED <<failed, faults>>
     \/ /\ faults < MaxFaults /\ faults' = faults + 1
        /\ failed' = failed \union {p} /\ Goes(t, Idle)
  /\ UNCHANGED <<supported, tracking, data, stale, interrupted, calls,
                 crashes>>

(* Mutant: s_IsSupported keeps its initial value                           *)
MarkNothing(t) ==
  /\ call[t].at = "mark" /\ GoesTo(t, FirstStep(t, call[t].op))
  /\ UNCHANGED <<support, tracking, data, stale, interrupted, counts>>

MarkSupported(t) ==
  /\ call[t].at = "mark" /\ GoesTo(t, FirstStep(t, call[t].op))
  /\ supported' = supported \union {ProcessOf[t]}
  /\ UNCHANGED <<checked, failed, tracking, data, stale, interrupted, counts>>

-----------------------------------------------------------------------------
(* PATH and PATHEXT.                                                       *)

Positions(s, part) == {i \in DOMAIN s : Folded[s[i]] = Folded[part]}
LastPosition(s, part) == CHOOSE i \in Positions(s, part) :
                           \A j \in Positions(s, part) : j <= i
FirstPosition(s, part) == CHOOSE i \in Positions(s, part) :
                            \A j \in Positions(s, part) : i <= j

(* The present list is read, and the new one made.  A text that occurs     *)
(* anywhere in it is not appended; of the parts that equal it, whatever    *)
(* the case, the last is removed.                                          *)
AppendReads(t) ==
  LET c == call[t] IN
  /\ AtWith(t, "read", "append")
  /\ IF \E i \in DOMAIN lists[c.list] : <<c.part, lists[c.list][i]>> \in Within
       THEN Goes(t, Idle)
       ELSE Goes(t, [at |-> IF Tracked(t) THEN "track" ELSE "write",
                     op |-> "append", list |-> c.list, part |-> c.part,
                     new |-> Append(lists[c.list], c.part)])
  /\ UNCHANGED <<support, tracking, data, stale, interrupted, counts>>

RemoveReads(t) ==
  LET c == call[t]
      was == lists[c.list]
  IN
  /\ AtWith(t, "read", "remove")
  /\ IF Positions(was, c.part) = {}
       THEN Goes(t, Idle)
       ELSE Goes(t, [at |-> IF Tracked(t) THEN "index" ELSE "write",
                     op |-> "remove", list |-> c.list, part |-> c.part,
                     was |-> was,
                     new |-> RemoveAt(was, LastPosition(was, c.part))])
  /\ UNCHANGED <<support, tracking, data, stale, interrupted, counts>>

(* TrackChange for Append: AppendedValues is read, then written.           *)
ReadAppended(t) ==
  LET c == call[t] IN
  /\ AtWith(t, "track", "append")
  /\ Goes(t, [at |-> "save", op |-> "append", list |-> c.list, part |-> c.part,
              new |-> c.new, values |-> appended[c.list]])
  /\ UNCHANGED <<support, tracking, data, stale, interrupted, counts>>

SaveAppended(t) ==
  LET c == call[t] IN
  /\ AtWith(t, "save", "append") /\ GoesTo(t, "write")
  /\ appended' = [appended EXCEPT ![c.list] = Append(c.values, c.part)]
  /\ forgotten' = IF appended[c.list] = c.values THEN forgotten
                  ELSE forgotten \union {c.list}
  /\ UNCHANGED <<support, removed, tracked, previous, current, data, stale,
                 interrupted, counts>>

(* TrackChange for Remove reads the list again, for the index of the first *)
(* part that matches; a part that went meanwhile is not tracked.           *)
ReadIndex(t) ==
  LET c == call[t]
      now == lists[c.list]
  IN
  /\ AtWith(t, "index", "remove")
  /\ IF Positions(now, c.part) = {} THEN GoesTo(t, "write")
     ELSE Goes(t, [at |-> "track", op |-> "remove", list |-> c.list,
                   part |-> c.part, was |-> c.was, new |-> c.new,
                   index |-> FirstPosition(now, c.part) - 1])
  /\ UNCHANGED <<support, tracking, data, stale, interrupted, counts>>

ReadRemoved(t) ==
  LET c == call[t] IN
  /\ AtWith(t, "track", "remove")
  /\ Goes(t, [at |-> "save", op |-> "remove", list |-> c.list, part |-> c.part,
              was |-> c.was, new |-> c.new, index |-> c.index,
              values |-> removed[c.list]])
  /\ UNCHANGED <<support, tracking, data, stale, interrupted, counts>>

(* Mutant: the latest removal is tracked, not all of them                  *)
SaveRemovedOnly(t) ==
  LET c == call[t] IN
  /\ AtWith(t, "save", "remove") /\ GoesTo(t, "write")
  /\ removed' = [removed EXCEPT ![c.list] = <<<<c.part, c.index>>>>]
  /\ forgotten' = IF removed[c.list] = c.values THEN forgotten
                  ELSE forgotten \union {c.list}
  /\ UNCHANGED <<support, appended, tracked, previous, current, data, stale,
                 interrupted, counts>>

SaveRemoved(t) ==
  LET c == call[t] IN
  /\ AtWith(t, "save", "remove") /\ GoesTo(t, "write")
  /\ removed' = [removed EXCEPT ![c.list] =
                   Append(c.values, <<c.part, c.index>>)]
  /\ forgotten' = IF removed[c.list] = c.values THEN forgotten
                  ELSE forgotten \union {c.list}
  /\ UNCHANGED <<support, appended, tracked, previous, current, data, stale,
                 interrupted, counts>>

(* setPath, removeFromPath: whatever was written since the read is lost.   *)
StoodOnce(c) == Cardinality(Positions(c.was, c.part)) = 1
Removal(c) == [part |-> c.part, was |-> c.was, new |-> c.new]

WriteList(t) ==
  LET c == call[t] IN
  /\ c.at = "write" /\ Goes(t, Idle)
  /\ lists' = [lists EXCEPT ![c.list] = c.new]
  /\ changed' = IF c.op = "append" /\ Tracked(t)
                  THEN [changed EXCEPT ![c.list] = @ \union {c.part}]
                  ELSE changed
  /\ taken' = IF c.op = "remove" /\ Tracked(t) /\ t \notin stale /\ StoodOnce(c)
                THEN [taken EXCEPT ![c.list] = @ \union {Removal(c)}]
                ELSE taken
  /\ stale' = stale \union {u \in Threads \ {t} :
                /\ call[u].at \in {"index", "track", "save", "write"}
                /\ call[u].list = c.list}
  /\ UNCHANGED <<support, tracking, variable, before, interrupted, counts>>

-----------------------------------------------------------------------------
(* SetEnvironmentVariable and its tracker: PreviousValue is written only   *)
(* by the call that creates the key, CurrentValue by each.                 *)
UnderWay == {t \in Threads :
               /\ Tracked(t)
               /\ call[t].at \in {"original", "previous", "current", "set"}}
CutShort(T) == interrupted \/ (before = <<>> /\ UnderWay \intersect T # {})

(* Mutant: every call writes PreviousValue                                 *)
CreateAlways(t) ==
  /\ call[t].at = "create" /\ GoesTo(t, "original") /\ tracked' = TRUE
  /\ UNCHANGED <<support, appended, removed, previous, current, forgotten,
                 data, stale, interrupted, counts>>

CreateKey(t) ==
  /\ call[t].at = "create" /\ tracked' = TRUE
  /\ GoesTo(t, IF tracked THEN "current" ELSE "original")
  /\ UNCHANGED <<support, appended, removed, previous, current, forgotten,
                 data, stale, interrupted, counts>>

ReadOriginal(t) ==
  /\ call[t].at = "original"
  /\ Goes(t, [at |-> "previous", op |-> "set", value |-> call[t].value,
              original |-> variable])
  /\ UNCHANGED <<support, tracking, data, stale, interrupted, counts>>

WritePrevious(t) ==
  /\ call[t].at = "previous"
  /\ previous' = <<call[t].original>>
  /\ GoesTo(t, "current")
  /\ UNCHANGED <<support, appended, removed, tracked, current, forgotten,
                 data, stale, interrupted, counts>>

WriteCurrent(t) ==
  /\ call[t].at = "current"
  /\ current' = <<call[t].value>>
  /\ GoesTo(t, "set")
  /\ UNCHANGED <<support, appended, removed, tracked, previous, forgotten,
                 data, stale, interrupted, counts>>

SetValue(t) ==
  /\ call[t].at = "set" /\ Goes(t, Idle)
  /\ variable' = call[t].value
  /\ before' = IF Tracked(t) /\ before = <<>> THEN <<variable>> ELSE before
  /\ interrupted' = CutShort(Threads \ {t})
  /\ UNCHANGED <<support, tracking, lists, changed, taken, stale, counts>>

-----------------------------------------------------------------------------
(* A registry call of a tracker or of the setter itself fails, and with it *)
(* the call; or a process ends.                                            *)
WriteFails(t) ==
  /\ call[t].at \in {"write", "set"} \/ (Tracked(t) /\ call[t].at \in
       {"track", "index", "save", "create", "original", "previous", "current"})
  /\ faults < MaxFaults /\ faults' = faults + 1
  /\ Goes(t, Idle)
  /\ interrupted' = CutShort({t})
  /\ UNCHANGED <<support, tracking, data, stale, calls, crashes>>

Crash(p) ==
  /\ crashes < MaxCrashes /\ crashes' = crashes + 1
  /\ call' = [t \in Threads |-> IF ProcessOf[t] = p THEN Idle ELSE call[t]]
  /\ checked' = checked \ {p} /\ supported' = supported \ {p}
  /\ failed' = failed \ {p}
  /\ interrupted' = CutShort({t \in Threads : ProcessOf[t] = p})
  /\ UNCHANGED <<tracking, data, stale, calls, faults>>

-----------------------------------------------------------------------------
GoesOn(t) ==
  \/ MarkChecked(t) \/ MarkSupported(t)
  \/ AppendReads(t) \/ ReadAppended(t) \/ SaveAppended(t)
  \/ RemoveReads(t) \/ ReadIndex(t) \/ ReadRemoved(t) \/ SaveRemoved(t)
  \/ WriteList(t)
  \/ CreateKey(t) \/ ReadOriginal(t) \/ WritePrevious(t)
  \/ WriteCurrent(t) \/ SetValue(t) \/ WriteFails(t)

Next ==
  \/ \E t \in Threads :
       \/ \E part \in PartsOf["PATH"] :
            AppendToPath(t, part) \/ RemoveFromPath(t, part)
       \/ \E part \in PartsOf["PATHEXT"] :
            \/ AddExecutableFileExtension(t, part)
            \/ RemoveExecutableFileExtension(t, part)
       \/ \E v \in Values : SetEnvironmentVariable(t, v)
       \/ GoesOn(t)
  \/ \E p \in Processes : Crash(p)

Spec == Init /\ [][Next]_vars

-----------------------------------------------------------------------------
(* A call finds the feature missing, and does nothing without telling its  *)
(* caller, only while another thread of the process is between the two     *)
(* writes of IsSupported (cpp 60-64), or after the check failed once.      *)
SkippedIsExplained ==
  \A p \in checked \ supported :
    p \in failed \/ \E t \in Threads : ProcessOf[t] = p /\ call[t].at = "mark"

EnvironmentInv == TypeOK /\ SkippedIsExplained

(* A part the package appended is in AppendedValues, whatever crashed or   *)
(* failed on the way (PathChangeTracker.cpp 55-65).                        *)
AppendsAreTracked ==
  \A l \in Lists \ forgotten : changed[l] \subseteq ToSet(appended[l])

(* For each part the package removed, an entry of RemovedValues puts it    *)
(* back where it was (99-111).                                             *)
PutsBack(e, r) ==
  LET undone == InsertAt(r.new, e[2] + 1, e[1])
  IN  /\ e[1] = r.part /\ e[2] \in 0..Len(r.new)
      /\ \A i \in DOMAIN undone : Folded[undone[i]] = Folded[r.was[i]]

RemovalsAreTracked ==
  \A l \in Lists \ forgotten : \A r \in taken[l] :
    \E i \in DOMAIN removed[l] : PutsBack(removed[l][i], r)

(* What a package did to PATH or PATHEXT can be undone: the parts it       *)
(* appended are in AppendedValues, and for the parts it removed there is   *)
(* an entry in RemovedValues with the index of "its correct location"      *)
(* (69-70).  Not so when two trackers overwrote each other's entry, when   *)
(* the list was written after the removal read it, or when the part was on *)
(* the list twice: the index is then that of the other one.                *)
TrackingSuffices == AppendsAreTracked /\ RemovalsAreTracked

(* PreviousValue is the value the variable had before the package's first  *)
(* change ("Do not update previous value if this package wrote to this EV  *)
(* once before", EnvironmentVariableChangeTracker.cpp 50-51), unless that  *)
(* first call crashed or failed half way, or somebody else wrote the       *)
(* variable during it.                                                     *)
PreviousValueIsFirst ==
  before # <<>> /\ ~ interrupted => previous = before

=============================================================================
