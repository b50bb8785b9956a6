------------------------- MODULE BootstrapperProofs -------------------------
(***************************************************************************)
(* Proofs about Bootstrapper, PackageDependencies and PackageGraph, for    *)
(* any packages, criteria and threads, any number of calls and failures.   *)
(* ListInv: the list of packages is in the order of the ranks and has each *)
(* context once.  CallInv and BoundInv: a thread is inside the             *)
(* initialization while it holds the lock, and what its call is about was  *)
(* given out.  On them rest GraphState (every context is somebody's, and   *)
(* nobody else's), IdInv (an id on its way to the app is nobody else's     *)
(* either, and its file is written first) and CountInv: the count of the   *)
(* initializations is that of the tickets the threads hold, no manager in  *)
(* use is told to end, and the globals agree with the count when the lock  *)
(* is free.  BootInv is all of them.  KeptInv is about PATH: the block of  *)
(* the graph's directories stands there, and besides it there are the      *)
(* app's own, in their order, and one of the framework's while an          *)
(* initialization has it there.                                            *)
(***************************************************************************)
EXTENDS Bootstrapper, FiniteSetTheorems, FunctionTheorems,
        WellFoundedInduction, TLAPS

(* A set of numbers has a least element.                                   *)
LEMMA LeastIsThere ==
  ASSUME NEW T, T \subseteq Nat, T # {}
  PROVE  \E i \in T : \A j \in T : i <= j
<1>1. \E i \in T : \A j \in T : ~(<<j, i>> \in OpToRel(<, Nat))
  BY NatLessThanWellFounded, WFMin
<1>2. PICK i \in T : \A j \in T : ~(<<j, i>> \in OpToRel(<, Nat))
  BY <1>1
<1>3. ASSUME NEW j \in T
      PROVE  i <= j
  <2>1. i \in Nat /\ j \in Nat
    OBVIOUS
  <2>2. ~(j < i)
    BY <1>2, <2>1 DEF OpToRel
  <2>3. QED
    BY <2>1, <2>2
<1>4. QED
  BY <1>3

(* Min of such a set is its least element.                                 *)
LEMMA MinIsLeast ==
  ASSUME NEW T, T \subseteq Nat, T # {}
  PROVE  Min(T) \in T /\ \A j \in T : Min(T) <= j
BY LeastIsThere DEF Min

(* What RemoveAt and InsertAt make of a sequence.                          *)
LEMMA RemoveAtElements ==
  ASSUME NEW S, NEW s \in Seq(S), NEW i \in 1..Len(s)
  PROVE  /\ RemoveAt(s, i) \in Seq(S)
         /\ Len(RemoveAt(s, i)) = Len(s) - 1
         /\ \A j \in 1..(Len(s) - 1) :
              RemoveAt(s, i)[j] = IF j < i THEN s[j] ELSE s[j + 1]
<1> DEFINE a == SubSeq(s, 1, i - 1)
           b == SubSeq(s, i + 1, Len(s))
<1>1. /\ a \in Seq(S) /\ Len(a) = i - 1
      /\ \A j \in 1..(i - 1) : a[j] = s[j]
  OBVIOUS
<1>2. /\ b \in Seq(S) /\ Len(b) = Len(s) - i
      /\ \A j \in 1..(Len(s) - i) : b[j] = s[i + j]
  OBVIOUS
<1> HIDE DEF a, b
<1>3. /\ a \o b \in Seq(S) /\ Len(a \o b) = Len(s) - 1
      /\ \A j \in 1..(Len(s) - 1) :
           (a \o b)[j] = IF j <= i - 1 THEN a[j] ELSE b[j - (i - 1)]
  <2>1. Len(s) \in Nat /\ i \in Nat /\ (i - 1) + (Len(s) - i) = Len(s) - 1
    OBVIOUS
  <2>2. a \in Seq(S) /\ b \in Seq(S)
    BY <1>1, <1>2
  <2>3. a \o b \in Seq(S) /\ Len(a \o b) = Len(a) + Len(b)
    BY <2>2
  <2>4. \A j \in 1..(Len(a) + Len(b)) :
          (a \o b)[j] = IF j <= Len(a) THEN a[j] ELSE b[j - Len(a)]
    BY <2>2
  <2>5. QED
    BY <1>1, <1>2, <2>1, <2>3, <2>4
<1>4. \A j \in 1..(Len(s) - 1) :
        (a \o b)[j] = IF j < i THEN s[j] ELSE s[j + 1]
  <2> SUFFICES ASSUME NEW j \in 1..(Len(s) - 1)
               PROVE  (a \o b)[j] = IF j < i THEN s[j] ELSE s[j + 1]
    OBVIOUS
  <2>1. CASE j < i
    BY <1>1, <1>3, <2>1
  <2>2. CASE ~(j < i)
    <3>1. j - (i - 1) \in 1..(Len(s) - i) /\ i + (j - (i - 1)) = j + 1
      BY <2>2
    <3>2. QED
      BY <1>2, <1>3, <2>2, <3>1
  <2>3. QED
    BY <2>1, <2>2
<1>5. QED
  BY <1>3, <1>4 DEF RemoveAt, a, b

(* The elements before the place stay where they are, the others move by   *)
(* one.                                                                    *)
LEMMA InsertAtElements ==
  ASSUME NEW S, NEW s \in Seq(S), NEW i \in 1..(Len(s) + 1), NEW e \in S
  PROVE  /\ InsertAt(s, i, e) \in Seq(S)
         /\ Len(InsertAt(s, i, e)) = Len(s) + 1
         /\ \A j \in 1..(Len(s) + 1) :
              InsertAt(s, i, e)[j] =
                IF j < i THEN s[j] ELSE IF j = i THEN e ELSE s[j - 1]
<1> DEFINE a == SubSeq(s, 1, i - 1)
           b == SubSeq(s, i, Len(s))
           c == a \o <<e>>
<1>1. /\ a \in Seq(S) /\ Len(a) = i - 1
      /\ \A j \in 1..(i - 1) : a[j] = s[j]
  OBVIOUS
<1>2. /\ b \in Seq(S) /\ Len(b) = Len(s) - i + 1
      /\ \A j \in 1..(Len(s) - i + 1) : b[j] = s[i - 1 + j]
  OBVIOUS
<1> HIDE DEF a, b
<1>3. <<e>> \in Seq(S) /\ Len(<<e>>) = 1 /\ <<e>>[1] = e
  OBVIOUS
<1>4. /\ c \in Seq(S) /\ Len(c) = i
      /\ \A j \in 1..(i - 1) : c[j] = a[j]
      /\ c[i] = e
  BY <1>1, <1>3
<1> HIDE DEF c
<1>5. /\ c \o b \in Seq(S) /\ Len(c \o b) = Len(s) + 1
      /\ \A j \in 1..(Len(s) + 1) :
           (c \o b)[j] = IF j <= i THEN c[j] ELSE b[j - i]
  <2>1. Len(s) \in Nat /\ i \in Nat /\ i + (Len(s) - i + 1) = Len(s) + 1
    OBVIOUS
  <2>2. c \in Seq(S) /\ b \in Seq(S)
    BY <1>2, <1>4
  <2>3. c \o b \in Seq(S) /\ Len(c \o b) = Len(c) + Len(b)
    BY <2>2
  <2>4. \A j \in 1..(Len(c) + Len(b)) :
          (c \o b)[j] = IF j <= Len(c) THEN c[j] ELSE b[j - Len(c)]
    BY <2>2
  <2>5. Len(c) = i /\ Len(c) + Len(b) = Len(s) + 1
    BY <1>2, <1>4, <2>1
  <2>6. QED
    BY <2>3, <2>4, <2>5
<1>6. ASSUME NEW j \in 1..(Len(s) + 1)
      PROVE  (c \o b)[j] =
               IF j < i THEN s[j] ELSE IF j = i THEN e ELSE s[j - 1]
  <2>1. CASE j < i
    BY <1>1, <1>4, <1>5, <2>1
  <2>2. CASE j = i
    BY <1>4, <1>5, <2>2
  <2>3. CASE j > i
    <3>1. j - i \in 1..(Len(s) - i + 1) /\ i - 1 + (j - i) = j - 1
      BY <2>3
    <3>2. (c \o b)[j] = b[j - i] /\ b[j - i] = s[j - 1]
      BY <1>2, <1>5, <2>3, <3>1
    <3>3. QED
      BY <2>3, <3>2
  <2>4. j \in Int /\ i \in Int
    OBVIOUS
  <2>5. j < i \/ j = i \/ j > i
    BY <2>4
  <2>6. QED
    BY <2>1, <2>2, <2>3, <2>5
<1>7. InsertAt(s, i, e) = c \o b
  BY DEF InsertAt, c, a, b
<1>8. QED
  BY <1>5, <1>6, <1>7

(* The graph itself.                                                       *)
Unique == \A i, j \in DOMAIN graph :
            graph[i].context = graph[j].context => i = j

(* The list while no lock is held, and the WinRT packages beside it        *)
ListInv ==
  /\ graph \in Seq(Nodes) /\ winrt \in Seq(Nat) /\ lastContext \in Nat
  /\ Sorted /\ Unique /\ Contexts \subseteq 1..lastContext
  /\ Len(graph) <= Len(winrt) /\ ActivationOrder

(* What a node of the list is made of                                      *)
LEMMA NodeFields ==
  ASSUME graph \in Seq(Nodes), NEW i \in DOMAIN graph
  PROVE  /\ graph[i] \in Nodes /\ graph[i].context \in Nat
         /\ graph[i].rank \in Ranks /\ graph[i].rank \in Int
         /\ graph[i].package \in Packages
<1>1. graph[i] \in Nodes
  OBVIOUS
<1>2. QED
  BY <1>1, CatalogAssumption DEF Nodes

(* A node is inserted behind those of lower rank and before those of higher.*)
LEMMA PointIsSorted ==
  ASSUME graph \in Seq(Nodes), Sorted, NEW rank \in Ranks, NEW prepend
  PROVE  LET i == InsertionPoint(rank, prepend) IN
         /\ i \in 1..(Len(graph) + 1)
         /\ \A j \in DOMAIN graph : j < i => graph[j].rank <= rank
         /\ \A j \in DOMAIN graph : i <= j => rank <= graph[j].rank
<1> DEFINE stops == {i \in DOMAIN graph :
                       \/ rank < graph[i].rank
                       \/ prepend /\ rank = graph[i].rank}
           i == InsertionPoint(rank, prepend)
<1>1. /\ DOMAIN graph = 1..Len(graph) /\ Len(graph) \in Nat /\ rank \in Int
      /\ \A j \in DOMAIN graph : graph[j].rank \in Int
  <2>1. \A j \in DOMAIN graph : graph[j].rank \in Int
    BY NodeFields
  <2>2. rank \in Int
    BY CatalogAssumption
  <2>3. QED
    BY <2>1, <2>2
<1>2. CASE stops = {}
  <2>1. i = Len(graph) + 1
    BY <1>2 DEF InsertionPoint
  <2>2. \A j \in DOMAIN graph : ~(rank < graph[j].rank)
    BY <1>2
  <2>3. QED
    BY <1>1, <2>1, <2>2
<1>3. CASE stops # {}
  <2>1. i = Min(stops)
    BY <1>3 DEF InsertionPoint
  <2>2. stops \subseteq Nat
    BY <1>1
  <2> HIDE DEF stops
  <2>3. i \in stops /\ \A j \in stops : i <= j
    BY <1>3, <2>1, <2>2, MinIsLeast
  <2> HIDE DEF i
  <2>4. i \in 1..Len(graph) /\ rank <= graph[i].rank
    BY <1>1, <2>3 DEF stops
  <2>5. ASSUME NEW j \in DOMAIN graph, j < i
        PROVE  graph[j].rank <= rank
    <3>1. j \notin stops
      BY <1>1, <2>3, <2>4, <2>5
    <3>2. ~(rank < graph[j].rank)
      BY <3>1 DEF stops
    <3>3. QED
      BY <1>1, <3>2
  <2>6. ASSUME NEW j \in DOMAIN graph, i <= j
        PROVE  rank <= graph[j].rank
    <3>1. i = j \/ i < j
      BY <1>1, <2>4, <2>6
    <3>2. graph[i].rank <= graph[j].rank
      BY <1>1, <2>4, <3>1 DEF Sorted
    <3>3. graph[i].rank \in Int
      BY <1>1, <2>4
    <3>4. QED
      BY <1>1, <2>4, <3>2, <3>3
  <2>7. QED
    BY <1>1, <2>4, <2>5, <2>6 DEF i
<1>4. QED
  BY <1>2, <1>3

(* AddNode gives out a context and keeps the order of the ranks in the list,*)
(* and the WinRT packages in that of the list.                             *)
LEMMA AddToList ==
  ASSUME ListInv, NEW id \in Nat, NEW p \in Packages, NEW rank \in Ranks,
         NEW prepend, AddNode(id, p, rank, prepend)
  PROVE  /\ ListInv' /\ lastContext' = lastContext + 1
         /\ Contexts' = Contexts \union {lastContext'}
<1> DEFINE i == InsertionPoint(rank, prepend)
           n == [context |-> lastContext', id |-> id, package |-> p,
                 rank |-> rank]
           k == IF i <= Len(winrt) THEN i ELSE Len(winrt) + 1
<1>1. /\ graph \in Seq(Nodes) /\ Sorted /\ Unique /\ Len(graph) \in Nat
      /\ DOMAIN graph = 1..Len(graph) /\ winrt \in Seq(Nat)
      /\ Len(winrt) \in Nat /\ Len(graph) <= Len(winrt) /\ lastContext \in Nat
      /\ Contexts \subseteq 1..lastContext
  BY DEF ListInv
<1>2. /\ i \in 1..(Len(graph) + 1)
      /\ \A j \in DOMAIN graph : j < i => graph[j].rank <= rank
      /\ \A j \in DOMAIN graph : i <= j => rank <= graph[j].rank
  BY <1>1, PointIsSorted
<1>3. /\ lastContext' = lastContext + 1 /\ lastContext' \in Nat
      /\ graph' = InsertAt(graph, i, n)
      /\ winrt' = InsertAt(winrt, k, lastContext')
  BY <1>1 DEF AddNode, InsertWinRT
<1> HIDE DEF i
<1>4. n \in Nodes /\ n.context = lastContext' /\ n.rank = rank
  BY <1>3 DEF Nodes
<1> HIDE DEF n
<1>5. /\ graph' \in Seq(Nodes) /\ Len(graph') = Len(graph) + 1
      /\ \A j \in 1..(Len(graph) + 1) :
           graph'[j] = IF j < i THEN graph[j]
                       ELSE IF j = i THEN n ELSE graph[j - 1]
  <2>1. graph \in Seq(Nodes) /\ i \in 1..(Len(graph) + 1) /\ n \in Nodes
    BY <1>1, <1>2, <1>4
  <2>2. graph' = InsertAt(graph, i, n)
    BY <1>3
  <2>3. QED
    BY <2>1, <2>2, InsertAtElements
<1>6. DOMAIN graph' = 1..(Len(graph) + 1)
  BY <1>5
(* Where a node of the new list was.                                       *)
<1> DEFINE Was(j) == IF j < i THEN j ELSE j - 1
<1>7. ASSUME NEW j \in DOMAIN graph'
      PROVE  \/ j = i /\ graph'[j] = n
             \/ j # i /\ graph'[j] = graph[Was(j)] /\ Was(j) \in DOMAIN graph
  BY <1>1, <1>2, <1>5, <1>6
<1>8. ASSUME NEW j \in DOMAIN graph
      PROVE  graph[j].context \in 1..lastContext
  BY <1>1 DEF Contexts
<1>9. ASSUME NEW j \in DOMAIN graph
      PROVE  graph[j].rank \in Int
  BY <1>1, NodeFields
<1>10. Sorted'
  <2> SUFFICES ASSUME NEW a \in DOMAIN graph', NEW b \in DOMAIN graph', a < b
               PROVE  graph'[a].rank <= graph'[b].rank
    BY DEF Sorted
  <2>1. rank \in Int /\ a \in Int /\ b \in Int /\ i \in Int
    BY <1>2, <1>6, CatalogAssumption
  <2>2. CASE a = i
    <3>1. graph'[a].rank = rank /\ b # i
      BY <1>4, <1>7, <2>1, <2>2
    <3>2. graph'[b] = graph[b - 1] /\ b - 1 \in DOMAIN graph /\ i <= b - 1
      BY <1>7, <2>1, <2>2
    <3>3. QED
      BY <1>2, <3>1, <3>2
  <2>3. CASE b = i
    <3>1. graph'[b].rank = rank /\ a # i
      BY <1>4, <1>7, <2>1, <2>3
    <3>2. graph'[a] = graph[a] /\ a \in DOMAIN graph /\ a < i
      BY <1>7, <2>1, <2>3
    <3>3. QED
      BY <1>2, <3>1, <3>2
  <2>4. CASE a # i /\ b # i
    <3>1. /\ graph'[a] = graph[Was(a)] /\ Was(a) \in DOMAIN graph
          /\ graph'[b] = graph[Was(b)] /\ Was(b) \in DOMAIN graph
      BY <1>7, <2>4
    <3>2. Was(a) < Was(b)
      BY <2>1, <2>4
    <3> HIDE DEF Was
    <3>3. QED
      BY <1>1, <3>1, <3>2 DEF Sorted
  <2>5. QED
    BY <2>2, <2>3, <2>4
<1>11. Unique'
  <2> SUFFICES ASSUME NEW a \in DOMAIN graph', NEW b \in DOMAIN graph',
                      graph'[a].context = graph'[b].context
               PROVE  a = b
    BY DEF Unique
  <2>1. a \in Int /\ b \in Int /\ i \in Int
    BY <1>2, <1>6
  <2>2. ASSUME NEW j \in DOMAIN graph', j # i
        PROVE  graph'[j].context # lastContext'
    BY <1>1, <1>3, <1>7, <1>8, <2>2
  <2>3. CASE a = i \/ b = i
    BY <1>4, <1>7, <2>2, <2>3
  <2>4. CASE a # i /\ b # i
    <3>1. /\ graph'[a] = graph[Was(a)] /\ Was(a) \in DOMAIN graph
          /\ graph'[b] = graph[Was(b)] /\ Was(b) \in DOMAIN graph
      BY <1>7, <2>4
    <3>2. Was(a) = Was(b)
      <4> HIDE DEF Was
      <4>1. QED
        BY <1>1, <3>1 DEF Unique
    <3>3. QED
      BY <2>1, <2>4, <3>2
  <2>5. QED
    BY <2>3, <2>4
<1>12. Contexts' = Contexts \union {lastContext'}
  <2>1. Contexts' \subseteq Contexts \union {lastContext'}
    BY <1>4, <1>7 DEF Contexts
  <2>2. lastContext' \in Contexts'
    <3>1. i \in DOMAIN graph' /\ graph'[i].context = lastContext'
      BY <1>2, <1>4, <1>5, <1>6
    <3>2. QED
      BY <3>1 DEF Contexts
  <2>3. ASSUME NEW j \in DOMAIN graph
        PROVE  graph[j].context \in Contexts'
    <3>1. CASE j < i
      <4>1. j \in DOMAIN graph' /\ graph'[j] = graph[j]
        BY <1>1, <1>5, <1>6, <3>1
      <4>2. QED
        BY <4>1 DEF Contexts
    <3>2. CASE ~(j < i)
      <4>1. /\ j + 1 \in DOMAIN graph' /\ ~(j + 1 < i) /\ j + 1 # i
            /\ (j + 1) - 1 = j
        BY <1>1, <1>2, <1>6, <3>2
      <4>2. graph'[j + 1] = graph[j]
        BY <1>5, <1>6, <4>1
      <4>3. QED
        BY <4>1, <4>2 DEF Contexts
    <3>3. QED
      BY <3>1, <3>2
  <2>4. QED
    BY <2>1, <2>2, <2>3 DEF Contexts
<1>13. /\ winrt' \in Seq(Nat) /\ Len(winrt') = Len(winrt) + 1
       /\ \A j \in 1..(Len(winrt) + 1) :
            winrt'[j] = IF j < k THEN winrt[j]
                        ELSE IF j = k THEN lastContext' ELSE winrt[j - 1]
  <2>1. k \in 1..(Len(winrt) + 1)
    <3>1. /\ Len(graph) \in Nat /\ Len(winrt) \in Nat
          /\ Len(graph) <= Len(winrt) /\ i \in 1..(Len(graph) + 1)
      BY <1>1, <1>2
    <3>2. QED
      BY <3>1
  <2> HIDE DEF k
  <2>2. winrt \in Seq(Nat) /\ lastContext' \in Nat
    BY <1>1, <1>3
  <2>3. winrt' = InsertAt(winrt, k, lastContext')
    BY <1>3
  <2> DEFINE x == lastContext'
             w == InsertAt(winrt, k, x)
  <2>4. x \in Nat
    BY <2>2
  <2> HIDE DEF x
  <2>5. /\ w \in Seq(Nat) /\ Len(w) = Len(winrt) + 1
        /\ \A j \in 1..(Len(winrt) + 1) :
             w[j] = IF j < k THEN winrt[j]
                    ELSE IF j = k THEN x ELSE winrt[j - 1]
    BY <2>1, <2>2, <2>4, InsertAtElements
  <2>6. winrt' = w
    BY <2>3 DEF x
  <2> HIDE DEF w
  <2>7. QED
    BY <2>5, <2>6 DEF x
<1>14. ActivationOrder'
  <2> SUFFICES ASSUME Len(winrt') = Len(graph'), NEW j \in DOMAIN graph'
               PROVE  winrt'[j] = graph'[j].context
    BY DEF ActivationOrder
  <2>1. Len(winrt) = Len(graph)
    BY <1>1, <1>5, <1>13
  <2>2. \A m \in DOMAIN graph : winrt[m] = graph[m].context
    BY <2>1 DEF ListInv, ActivationOrder
  <2>3. k = i
    <3>1. Len(winrt) \in Nat /\ i \in 1..(Len(winrt) + 1)
      BY <1>1, <1>2, <2>1
    <3>2. i <= Len(winrt) \/ i = Len(winrt) + 1
      BY <3>1
    <3>3. CASE i <= Len(winrt)
      BY <3>3
    <3>4. CASE ~(i <= Len(winrt))
      BY <3>2, <3>4
    <3>5. QED
      BY <3>3, <3>4
  <2>4. winrt'[j] = IF j < i THEN winrt[j]
                    ELSE IF j = i THEN lastContext' ELSE winrt[j - 1]
    BY <1>6, <1>13, <2>1, <2>3
  <2>5. QED
    BY <1>4, <1>7, <2>2, <2>4
<1>15. Contexts' \subseteq 1..lastContext'
  BY <1>1, <1>3, <1>12
<1>16. Len(graph') <= Len(winrt')
  BY <1>1, <1>5, <1>13
<1>17. QED
  BY <1>3, <1>5, <1>10, <1>11, <1>12, <1>13, <1>14, <1>15, <1>16 DEF ListInv

(* A node is removed.                                                      *)
LEMMA NodeIsThere ==
  ASSUME graph \in Seq(Nodes), NEW c \in Contexts
  PROVE  /\ NodeOf(c) \in 1..Len(graph) /\ NodeOf(c) \in DOMAIN graph
         /\ graph[NodeOf(c)].context = c
<1> DEFINE T == {i \in DOMAIN graph : graph[i].context = c}
<1>1. DOMAIN graph = 1..Len(graph) /\ Len(graph) \in Nat
  OBVIOUS
<1>2. T # {} /\ T \subseteq Nat
  BY <1>1 DEF Contexts
<1>3. NodeOf(c) = Min(T)
  BY DEF NodeOf
<1> HIDE DEF T
<1>4. NodeOf(c) \in T
  BY <1>2, <1>3, MinIsLeast
<1>5. QED
  BY <1>1, <1>4 DEF T

(* RemoveNode takes out one node, the only one with that context.          *)
LEMMA RemoveFromList ==
  ASSUME ListInv, NEW c, RemoveNode(c)
  PROVE  /\ ListInv' /\ lastContext' = lastContext /\ c \in Contexts
         /\ Contexts' = Contexts \ {c}
<1>1. /\ graph \in Seq(Nodes) /\ Sorted /\ Unique /\ Len(graph) \in Nat
      /\ DOMAIN graph = 1..Len(graph) /\ winrt \in Seq(Nat)
      /\ Len(winrt) \in Nat /\ Len(graph) <= Len(winrt) /\ lastContext \in Nat
      /\ Contexts \subseteq 1..lastContext /\ ActivationOrder
  BY DEF ListInv
<1>2. winrt' = winrt /\ lastContext' = lastContext /\ c \in Contexts
  BY DEF RemoveNode
<1>3. ListInv' /\ Contexts' = Contexts \ {c}
  <2> DEFINE i == NodeOf(c)
  <2>1. graph' = RemoveAt(graph, i)
    BY DEF RemoveNode
  <2>2. i \in 1..Len(graph) /\ i \in DOMAIN graph /\ graph[i].context = c
    BY <1>1, <1>2, NodeIsThere
  <2> HIDE DEF i
  <2>3. /\ graph' \in Seq(Nodes) /\ Len(graph') = Len(graph) - 1
        /\ \A j \in 1..(Len(graph) - 1) :
             graph'[j] = IF j < i THEN graph[j] ELSE graph[j + 1]
    <3>1. graph \in Seq(Nodes) /\ i \in 1..Len(graph)
      BY <1>1, <2>2
    <3>2. QED
      BY <2>1, <3>1, RemoveAtElements
  <2>4. DOMAIN graph' = 1..(Len(graph) - 1)
    BY <2>3
  (* Where a node of the new list was.                                     *)
  <2> DEFINE Was(j) == IF j < i THEN j ELSE j + 1
  <2>5. ASSUME NEW j \in DOMAIN graph'
        PROVE  /\ graph'[j] = graph[Was(j)] /\ Was(j) \in DOMAIN graph
               /\ Was(j) # i
    BY <1>1, <2>2, <2>3, <2>4
  <2>6. ASSUME NEW j \in DOMAIN graph, j # i
        PROVE  \E m \in DOMAIN graph' : Was(m) = j
    <3>1. CASE j < i
      <4>1. j \in DOMAIN graph' /\ Was(j) = j
        BY <1>1, <2>2, <2>4, <3>1
      <4>2. QED
        BY <4>1
    <3>2. CASE ~(j < i)
      <4>1. j - 1 \in DOMAIN graph' /\ Was(j - 1) = j
        BY <1>1, <2>2, <2>4, <2>6, <3>2
      <4>2. QED
        BY <4>1
    <3>3. QED
      BY <3>1, <3>2
  <2>7. ASSUME NEW a \in DOMAIN graph', NEW b \in DOMAIN graph'
        PROVE  /\ a < b => Was(a) < Was(b)
               /\ Was(a) = Was(b) => a = b
    BY <1>1, <2>2, <2>4
  <2> HIDE DEF Was
  <2>8. Sorted'
    BY <1>1, <2>5, <2>7 DEF Sorted
  <2>9. Unique'
    BY <1>1, <2>5, <2>7 DEF Unique
  <2>10. Contexts' = Contexts \ {c}
    <3>1. Contexts' \subseteq Contexts
      BY <2>5 DEF Contexts
    <3>2. c \notin Contexts'
      <4> SUFFICES ASSUME NEW j \in DOMAIN graph', graph'[j].context = c
                   PROVE  FALSE
        BY DEF Contexts
      <4>1. graph[Was(j)].context = graph[i].context
        BY <2>2, <2>5
      <4>2. QED
        BY <1>1, <2>2, <2>5, <4>1 DEF Unique
    <3>3. ASSUME NEW j \in DOMAIN graph, graph[j].context # c
          PROVE  graph[j].context \in Contexts'
      <4>1. j # i
        BY <2>2, <3>3
      <4>2. PICK m \in DOMAIN graph' : Was(m) = j
        BY <2>6, <4>1
      <4>3. graph'[m].context = graph[j].context
        BY <2>5, <4>2
      <4>4. QED
        BY <4>3 DEF Contexts
    <3>4. QED
      BY <3>1, <3>2, <3>3 DEF Contexts
  <2>11. ActivationOrder'
    <3>1. /\ Len(graph) \in Nat /\ Len(winrt) \in Nat
          /\ Len(graph) <= Len(winrt)
          /\ Len(graph') = Len(graph) - 1
      BY <1>1, <2>3
    <3>2. Len(winrt) # Len(graph')
      BY <3>1
    <3>3. Len(winrt') # Len(graph')
      BY <1>2, <3>2
    <3>4. QED
      BY <3>3 DEF ActivationOrder
  <2>12. Len(graph') <= Len(winrt') /\ Contexts' \subseteq 1..lastContext'
    <3>1. /\ Len(graph) \in Nat /\ Len(winrt) \in Nat
          /\ Len(graph) <= Len(winrt)
          /\ Len(graph') = Len(graph) - 1
      BY <1>1, <2>3
    <3>2. Len(graph') <= Len(winrt)
      BY <3>1
    <3>3. Contexts' \subseteq 1..lastContext
      BY <1>1, <2>10
    <3>4. QED
      BY <1>2, <3>2, <3>3
  <2>13. QED
    BY <1>1, <1>2, <2>3, <2>8, <2>9, <2>10, <2>11, <2>12 DEF ListInv
<1>4. QED
  BY <1>2, <1>3

(* As many contexts as nodes.                                              *)
LEMMA ContextsAreCounted ==
  ASSUME graph \in Seq(Nodes), Unique
  PROVE  Cardinality(Contexts) = Len(graph)
<1> DEFINE n == Len(graph)
           f == [i \in 1..n |-> graph[i].context]
<1>1. n \in Nat /\ DOMAIN graph = 1..n
  OBVIOUS
<1>2. f \in Bijection(1..n, Contexts)
  <2>1. f \in [1..n -> Contexts]
    BY <1>1 DEF Contexts
  <2>2. \A i, j \in 1..n : f[i] = f[j] => i = j
    BY <1>1 DEF Unique
  <2>3. \A c \in Contexts : \E i \in 1..n : f[i] = c
    BY <1>1 DEF Contexts
  <2> HIDE DEF f, n
  <2>4. QED
    BY <2>1, <2>2, <2>3, Fun_IsBij
<1>3. ExistsBijection(1..n, Contexts)
  BY <1>2, Fun_ExistsBij
<1> HIDE DEF n
<1>4. QED
  BY <1>1, <1>3, FS_CountingElements DEF n

-----------------------------------------------------------------------------
(* Where a thread can be, and what its call is about then: n, m and k are  *)
(* the last id, lifetime manager and context given out.                    *)
LockPlaces == {"manager", "add path", "create", "boot lookup", "boot resolve",
               "boot update", "trim", "shut down"}

IsCall(r, n, m, k) ==
  \/ r \in [at : {"idle", "manager", "increment", "remove", "shut down"}]
  \/ r \in [at : {"write", "push"}, id : 1..n, c : Criteria]
  \/ r \in [at : {"delete"}, id : 1..n]
  \/ r \in [at : {"resolve"}, id : 1..n, rank : Ranks, prepend : BOOLEAN]
  \/ r \in [at : {"update"}, context : 1..k]
  \/ r \in [at : {"add path", "create"}, manager : 1..m]
  \/ r \in [at : {"boot lookup", "boot resolve"}, manager : 1..m, id : 1..n]
  \/ r \in [at : {"boot update", "trim"}, manager : 1..m, context : 1..k]

(* A thread is inside the initialization while it holds its lock.          *)
CallInv ==
  /\ DOMAIN call = Threads
  /\ \A t \in Threads : IsCall(call[t], lastId, lastManager, lastContext)
  /\ bootLock \in Threads \union {NoThread}
  /\ \A t \in Threads : call[t].at \in LockPlaces <=> bootLock = t

(* Ids and lifetime managers are given out for calls.                      *)
BoundInv ==
  /\ lastId \in Nat /\ lastManager \in Nat /\ lastContext \in Nat
  /\ made \in 0..MaxCalls /\ faults \in 0..MaxFaults
  /\ lastId <= made /\ lastManager <= made
  /\ \A t \in Threads :
       /\ call[t].at \in {"manager", "add path", "create"} => lastId < made
       /\ call[t].at = "manager" => lastManager < made

(* The place a thread is at says what its call is about.                   *)
LEMMA CallKinds ==
  ASSUME NEW r, NEW n, NEW m, NEW k, IsCall(r, n, m, k)
  PROVE  /\ r.at \in {"write", "push"} =>
              r \in [at : {"write", "push"}, id : 1..n, c : Criteria]
         /\ r.at = "resolve" =>
              r \in [at : {"resolve"}, id : 1..n, rank : Ranks,
                     prepend : BOOLEAN]
         /\ r.at \in {"add path", "create"} =>
              r \in [at : {"add path", "create"}, manager : 1..m]
         /\ r.at \in {"boot lookup", "boot resolve"} =>
              r \in [at : {"boot lookup", "boot resolve"}, manager : 1..m,
                     id : 1..n]
         /\ r.at = "delete" => r \in [at : {"delete"}, id : 1..n]
         /\ r.at = "update" => r \in [at : {"update"}, context : 1..k]
         /\ r.at \in {"boot update", "trim"} =>
              r \in [at : {"boot update", "trim"}, manager : 1..m,
                     context : 1..k]
BY DEF IsCall

(* A call stays one when more ids, managers and contexts are given out.    *)
LEMMA CallGrows ==
  ASSUME NEW r, NEW n \in Nat, NEW m \in Nat, NEW k \in Nat,
         NEW n2 \in Nat, NEW m2 \in Nat, NEW k2 \in Nat,
         n <= n2, m <= m2, k <= k2, IsCall(r, n, m, k)
  PROVE  IsCall(r, n2, m2, k2)
<1>1. 1..n \subseteq 1..n2 /\ 1..m \subseteq 1..m2 /\ 1..k \subseteq 1..k2
  OBVIOUS
<1>2. CASE r \in [at : {"idle", "manager", "increment", "remove", "shut down"}]
  BY <1>2 DEF IsCall
<1>3. CASE r \in [at : {"write", "push"}, id : 1..n, c : Criteria]
  BY <1>1, <1>3 DEF IsCall
<1>4. CASE r \in [at : {"resolve"}, id : 1..n, rank : Ranks,
                  prepend : BOOLEAN]
  BY <1>1, <1>4 DEF IsCall
<1>5. CASE r \in [at : {"add path", "create"}, manager : 1..m]
  BY <1>1, <1>5 DEF IsCall
<1>6. CASE r \in [at : {"boot lookup", "boot resolve"}, manager : 1..m,
                  id : 1..n]
  BY <1>1, <1>6 DEF IsCall
<1>7. CASE r \in [at : {"boot update", "trim"}, manager : 1..m,
                  context : 1..k]
  BY <1>1, <1>7 DEF IsCall
<1>8. CASE r \in [at : {"delete"}, id : 1..n]
  BY <1>1, <1>8 DEF IsCall
<1>9. CASE r \in [at : {"update"}, context : 1..k]
  BY <1>1, <1>9 DEF IsCall
<1>10. QED
  BY <1>2, <1>3, <1>4, <1>5, <1>6, <1>7, <1>8, <1>9 DEF IsCall

(* The numbers given out in a step of the process                          *)
Grows ==
  /\ lastId \in Nat /\ lastManager \in Nat /\ lastContext \in Nat
  /\ lastId' \in Nat /\ lastManager' \in Nat /\ lastContext' \in Nat
  /\ lastId <= lastId' /\ lastManager <= lastManager'
  /\ lastContext <= lastContext'

(* What a step does to the lock of the initialization                      *)
LockFits(t, at) ==
  \/ at \in LockPlaces /\ bootLock \in {t, NoThread} /\ bootLock' = t
  \/ at \notin LockPlaces /\ bootLock # t /\ bootLock' = bootLock
  \/ at \notin LockPlaces /\ bootLock = t /\ bootLock' = NoThread

(* What CallInv says of one thread                                         *)
LEMMA CallIsTyped ==
  ASSUME CallInv, NEW t \in Threads
  PROVE  IsCall(call[t], lastId, lastManager, lastContext)
BY DEF CallInv

(* One thread goes on, the others stay where they are.                     *)
LEMMA GoesOn ==
  ASSUME CallInv, NEW t \in Threads, NEW to, Goes(t, to)
  PROVE  /\ DOMAIN call' = Threads /\ call'[t] = to
         /\ \A u \in Threads \ {t} : call'[u] = call[u]
BY DEF CallInv, Goes

(* A thread goes on to a place that fits what the step does to the lock.   *)
LEMMA CallsGoOn ==
  ASSUME CallInv, Grows, NEW t \in Threads, NEW to, Goes(t, to),
         IsCall(to, lastId', lastManager', lastContext'), LockFits(t, to.at)
  PROVE  CallInv'
<1>1. /\ DOMAIN call' = Threads /\ call'[t] = to
      /\ \A u \in Threads \ {t} : call'[u] = call[u]
  BY GoesOn
<1>2. ASSUME NEW u \in Threads
      PROVE  IsCall(call'[u], lastId', lastManager', lastContext')
  <2>1. CASE u = t
    BY <1>1, <2>1
  <2>2. CASE u # t
    <3>1. IsCall(call[u], lastId, lastManager, lastContext)
      BY CallIsTyped
    <3>2. IsCall(call[u], lastId', lastManager', lastContext')
      BY <3>1, CallGrows DEF Grows
    <3>3. QED
      BY <1>1, <2>2, <3>2
  <2>3. QED
    BY <2>1, <2>2
<1>3. /\ bootLock' \in Threads \union {NoThread}
      /\ \A u \in Threads : call'[u].at \in LockPlaces <=> bootLock' = u
  <2>1. /\ bootLock \in Threads \union {NoThread} /\ NoThread \notin Threads
        /\ \A u \in Threads : call[u].at \in LockPlaces <=> bootLock = u
    BY CriteriaAssumption DEF CallInv
  <2>2. QED
    BY <1>1, <2>1 DEF LockFits
<1>4. QED
  BY <1>1, <1>2, <1>3 DEF CallInv

(* No thread goes on.                                                      *)
LEMMA CallsStay ==
  ASSUME CallInv, Grows, call' = call, bootLock' = bootLock
  PROVE  CallInv'
<1>1. ASSUME NEW u \in Threads
      PROVE  IsCall(call'[u], lastId', lastManager', lastContext')
  <2>1. IsCall(call[u], lastId, lastManager, lastContext)
    BY CallIsTyped
  <2>2. IsCall(call[u], lastId', lastManager', lastContext')
    BY <2>1, CallGrows DEF Grows
  <2>3. QED
    BY <2>2
<1>2. QED
  BY <1>1 DEF CallInv

(* The process starts again: every thread is idle.                         *)
LEMMA CallsEnd ==
  ASSUME call' = [t \in Threads |-> Idle], bootLock' = NoThread
  PROVE  CallInv'
<1>1. \A t \in Threads : call'[t] = Idle
  OBVIOUS
<1>2. Idle.at \notin LockPlaces
  BY DEF Idle, LockPlaces
<1>3. IsCall(Idle, lastId', lastManager', lastContext')
  BY DEF IsCall, Idle
<1>4. NoThread \notin Threads /\ DOMAIN call' = Threads
  BY CriteriaAssumption
<1>5. QED
  BY <1>1, <1>2, <1>3, <1>4 DEF CallInv

(* No thread comes to where ids and managers are given out.                *)
NobodyStarts ==
  \A u \in Threads :
    /\ call'[u].at \in {"manager", "add path", "create"} =>
         call[u].at \in {"manager", "add path", "create"}
    /\ call'[u].at = "manager" => call[u].at = "manager"

(* No id and no lifetime manager is given out.                             *)
LEMMA BoundsKept ==
  ASSUME BoundInv, lastId' = lastId, lastManager' = lastManager,
         lastContext' \in Nat, made' \in 0..MaxCalls, made <= made',
         faults' \in 0..MaxFaults, NobodyStarts
  PROVE  BoundInv'
<1>1. /\ lastId \in Nat /\ lastManager \in Nat /\ made \in 0..MaxCalls
      /\ lastId <= made /\ lastManager <= made /\ MaxCalls \in Nat
  BY BoundAssumption DEF BoundInv
<1>2. \A t \in Threads :
           /\ call[t].at \in {"manager", "add path", "create"} => lastId < made
           /\ call[t].at = "manager" => lastManager < made
  BY DEF BoundInv
<1>3. /\ lastId <= made' /\ lastManager <= made'
      /\ lastId < made => lastId < made'
      /\ lastManager < made => lastManager < made'
  <2>1. lastId \in Nat /\ lastManager \in Nat /\ made \in Nat /\ made' \in Nat
    BY <1>1
  <2>2. QED
    BY <1>1, <2>1
<1>4. ASSUME NEW u \in Threads
      PROVE  /\ call'[u].at \in {"manager", "add path", "create"} =>
                  lastId' < made'
             /\ call'[u].at = "manager" => lastManager' < made'
  BY <1>2, <1>3 DEF NobodyStarts
<1>5. QED
  BY <1>1, <1>3, <1>4 DEF BoundInv

(* A thread goes on, and does not start an initialization.                 *)
LEMMA BoundsGoOn ==
  ASSUME CallInv, BoundInv, NEW t \in Threads, NEW to, Goes(t, to),
         to.at # "manager",
         to.at \in {"add path", "create"} =>
           call[t].at \in {"manager", "add path", "create"},
         lastId' = lastId, lastManager' = lastManager,
         lastContext' \in Nat, made' \in 0..MaxCalls, made <= made',
         faults' \in 0..MaxFaults
  PROVE  BoundInv'
<1>1. call'[t] = to /\ \A u \in Threads \ {t} : call'[u] = call[u]
  BY GoesOn
<1>2. NobodyStarts
  BY <1>1 DEF NobodyStarts
<1>3. QED
  BY <1>2, BoundsKept

(* The same, when no thread goes on                                        *)
LEMMA BoundsStay ==
  ASSUME BoundInv, call' = call, lastId' = lastId, lastManager' = lastManager,
         lastContext' \in Nat, made' \in 0..MaxCalls, made <= made',
         faults' \in 0..MaxFaults
  PROVE  BoundInv'
<1>1. NobodyStarts
  BY DEF NobodyStarts
<1>2. QED
  BY <1>1, BoundsKept

(* At most one thread is inside the initialization.                        *)
LEMMA OneInside ==
  ASSUME CallInv, NEW t \in Threads, call[t].at \in LockPlaces
  PROVE  /\ bootLock = t /\ bootLock # NoThread
         /\ \A u \in Threads \ {t} : call[u].at \notin LockPlaces
BY CriteriaAssumption DEF CallInv

(* While the lock is free no thread is inside the initialization.          *)
LEMMA NobodyInside ==
  ASSUME CallInv, bootLock = NoThread
  PROVE  \A u \in Threads : call[u].at \notin LockPlaces
BY CriteriaAssumption DEF CallInv

(* What a call that begins and a failure add up to                         *)
LEMMA BoundsAdd ==
  ASSUME BoundInv
  PROVE  /\ made \in 0..MaxCalls /\ made \in Nat /\ faults \in 0..MaxFaults
         /\ lastContext \in Nat
         /\ \A t \in Threads : Begins(t) =>
              made' \in 0..MaxCalls /\ made <= made' /\ made < made'
         /\ Fault => faults' \in 0..MaxFaults
<1>1. /\ made \in 0..MaxCalls /\ faults \in 0..MaxFaults /\ lastContext \in Nat
      /\ MaxCalls \in Nat /\ MaxFaults \in Nat
  BY BoundAssumption DEF BoundInv
<1>2. \A t \in Threads : Begins(t) => made < MaxCalls /\ made' = made + 1
  BY DEF Begins
<1>3. Fault => faults < MaxFaults /\ faults' = faults + 1
  BY DEF Fault
<1>4. QED
  BY <1>1, <1>2, <1>3

(* A step gives out one id, one lifetime manager, or none.                 *)
LEMMA GrowsByOne ==
  ASSUME BoundInv, lastContext' \in Nat, lastContext <= lastContext',
         \/ lastId' = lastId
         \/ lastId' = lastId + 1,
         \/ lastManager' = lastManager
         \/ lastManager' = lastManager + 1
  PROVE  Grows
<1>1. lastId \in Nat /\ lastManager \in Nat /\ lastContext \in Nat
  BY DEF BoundInv
<1>2. lastId' \in Nat /\ lastId <= lastId'
  BY <1>1
<1>3. lastManager' \in Nat /\ lastManager <= lastManager'
  BY <1>1
<1>4. QED
  BY <1>1, <1>2, <1>3 DEF Grows

(* An idle thread is not inside any call.                                  *)
LEMMA IdleCall ==
  /\ Idle.at = "idle"
  /\ \A n, m, k : IsCall(Idle, n, m, k)
BY DEF Idle, IsCall

(* A package that was found is added to the list.                          *)
LEMMA ResolvesGraph ==
  ASSUME ListInv, NEW t, NEW rank \in Ranks, NEW prepend, NEW p \in Packages,
         call[t].id \in Nat, Resolves(t, rank, prepend, p)
  PROVE  /\ ListInv' /\ lastContext \in Nat /\ lastContext' \in Nat
         /\ lastContext <= lastContext' /\ lastContext' \in 1..lastContext'
         /\ lastContext' = lastContext + 1
         /\ Contexts' = Contexts \union {lastContext'}
<1>1. lastContext \in Nat
  BY DEF ListInv
<1>2. AddNode(call[t].id, p, rank, prepend)
  BY DEF Resolves
<1>3. /\ ListInv' /\ lastContext' = lastContext + 1
      /\ Contexts' = Contexts \union {lastContext'}
  BY <1>2, AddToList
<1>4. QED
  BY <1>1, <1>3

(* A step that leaves the list alone keeps its order.                      *)
LEMMA ListStays ==
  ASSUME ListInv, graph' = graph, winrt' = winrt, lastContext' = lastContext
  PROVE  ListInv' /\ Contexts' = Contexts
BY DEF ListInv, Contexts, Sorted, Unique, ActivationOrder

(* An update ends: the list is left alone, and the lock is free.           *)
Updated(ok) ==
  /\ EndsUpdate(ok)
  /\ RemoveFromDllSearchOrder(ok) \/ \E c : AddToDllSearchOrder(c, ok)

LEMMA UpdateEnds ==
  ASSUME ListInv, NEW ok \in BOOLEAN, Updated(ok)
  PROVE  /\ ListInv' /\ Contexts' = Contexts /\ lastContext' = lastContext
         /\ lastContext \in Nat /\ lastContext' \in Nat
         /\ lastContext <= lastContext'
         /\ UNCHANGED <<usable, memory, store, defined, lastId, moved, others,
                        made, graph, winrt, read>>
         /\ graphLock' = NoThread
         /\ Fault \/ faults' = faults
<1>1. graph' = graph /\ winrt' = winrt /\ lastContext' = lastContext /\ read' = read
  BY DEF Updated, AddToDllSearchOrder, RemoveFromDllSearchOrder
<1>2. ListInv' /\ Contexts' = Contexts
  BY <1>1, ListStays
<1>3. lastContext \in Nat
  BY DEF ListInv
<1>4. /\ UNCHANGED <<usable, memory, store, defined, lastId, moved, others, made>>
      /\ graphLock' = NoThread
  BY DEF Updated, EndsUpdate, ids
<1>5. Fault \/ faults' = faults
  BY DEF Updated, EndsUpdate
<1>6. QED
  BY <1>1, <1>2, <1>3, <1>4, <1>5

(* The empty list of a new process is in order.                            *)
LEMMA ListStartsAgain ==
  ASSUME graph' = <<>>, winrt' = <<>>, lastContext' = 0
  PROVE  ListInv' /\ Contexts' = {}
<1>1. DOMAIN graph' = {} /\ Len(graph') = 0 /\ Len(winrt') = 0
  BY SMT
<1>2. graph' \in Seq(Nodes) /\ winrt' \in Seq(Nat) /\ lastContext' \in Nat
  OBVIOUS
<1>3. QED
  BY <1>1, <1>2 DEF ListInv, Contexts, Sorted, Unique, ActivationOrder

-----------------------------------------------------------------------------
(* The calls of MsixDynamicDependency.cpp.                                 *)
LEMMA DependencyCallsAreTyped ==
  ASSUME CallInv, BoundInv, ListInv, NEW t \in Threads, DependencyCall(t),
         DOMAIN defined \subseteq 1..lastId,
         UNCHANGED bootVars
  PROVE  CallInv' /\ BoundInv'
<1> USE DEF depVars, libVars, graphVars, listVars, ids, appVars, historyVars,
            bootVars, initVars, managerVars, flags
<1>1. /\ bootLock' = bootLock /\ lastManager' = lastManager
      /\ lastId \in Nat /\ lastContext \in Nat /\ made \in Nat
      /\ made <= made
  <2>1. bootLock' = bootLock /\ lastManager' = lastManager
    OBVIOUS
  <2>2. lastId \in Nat /\ lastContext \in Nat /\ made \in Nat
    BY BoundsAdd DEF BoundInv
  <2>3. QED
    BY <2>1, <2>2
<1>2. IsCall(call[t], lastId, lastManager, lastContext)
  BY CallIsTyped
<1>3. call[t].at \notin LockPlaces => bootLock # t
  BY DEF CallInv
<1>4. ASSUME NEW c \in Criteria \ {FrameworkCriteria}, TryCreate(t, c)
      PROVE  CallInv' /\ BoundInv'
  <2> DEFINE to == [at |-> IF c.kept THEN "write" ELSE "push", id |-> lastId',
                    c |-> c]
  <2>1. /\ call[t] = Idle /\ Begins(t) /\ Goes(t, to) /\ lastId' = lastId + 1
        /\ lastContext' = lastContext /\ faults' = faults
    BY <1>4 DEF TryCreate, Begins
  <2>2. to.at \in {"write", "push"} /\ lastId' \in 1..lastId'
    BY <1>1, <2>1
  <2>3. to \in [at : {"write", "push"}, id : 1..lastId', c : Criteria]
    BY <2>2
  <2>4. IsCall(to, lastId', lastManager', lastContext')
    BY <2>3 DEF IsCall
  <2> HIDE DEF to
  <2>5. call[t].at \notin LockPlaces /\ to.at \notin LockPlaces
    BY <2>1, <2>2, IdleCall DEF LockPlaces
  <2>6. LockFits(t, to.at)
    BY <1>1, <1>3, <2>5 DEF LockFits
  <2>7. Grows
    BY <1>1, <2>1, GrowsByOne
  <2>8. CallInv'
    BY <2>1, <2>4, <2>6, <2>7, CallsGoOn
  <2>9. BoundInv'
    <3>1. /\ made' \in 0..MaxCalls /\ made' = made + 1
          /\ faults' \in 0..MaxFaults
      BY <2>1, BoundsAdd DEF Begins
    <3>2. lastId <= made /\ lastManager <= made /\ lastManager \in Nat
      BY DEF BoundInv
    <3>3. lastId' < made' + 1 /\ lastManager' < made' /\ lastId' \in Nat
      BY <1>1, <2>1, <3>1, <3>2
    <3>4. lastId' <= made'
      BY <1>1, <2>1, <3>1, <3>2
    <3>5. /\ call'[t] = to
          /\ \A u \in Threads \ {t} : call'[u] = call[u]
      BY <2>1, GoesOn
    <3>6. ASSUME NEW u \in Threads,
                 call'[u].at \in {"manager", "add path", "create"}
          PROVE  lastId < made
      <4>1. u # t
        BY <2>2, <3>5, <3>6
      <4>2. call[u].at \in {"manager", "add path", "create"}
        BY <3>5, <3>6, <4>1
      <4>3. QED
        BY <4>2 DEF BoundInv
    <3>7. lastId < made => lastId' < made'
      BY <1>1, <2>1, <3>1
    <3>8. \A u \in Threads :
            /\ call'[u].at \in {"manager", "add path", "create"} =>
                 lastId' < made'
            /\ call'[u].at = "manager" => lastManager' < made'
      BY <3>3, <3>6, <3>7
    <3>9. /\ lastId' \in Nat /\ lastManager' \in Nat /\ lastContext' \in Nat
          /\ lastManager' <= made'
      BY <1>1, <2>1, <3>1, <3>2, <3>3
    <3>10. QED
      BY <3>1, <3>4, <3>8, <3>9 DEF BoundInv
  <2>10. QED
    BY <2>8, <2>9
(* The other calls give no id out.                                         *)
<1>5. ASSUME NEW to, Goes(t, to), lastId' = lastId, lastContext' \in Nat,
             lastContext <= lastContext', to.at \notin LockPlaces,
             call[t].at \notin LockPlaces,
             IsCall(to, lastId', lastManager', lastContext'),
             Begins(t) \/ made' = made, Fault \/ faults' = faults
      PROVE  CallInv' /\ BoundInv'
  <2>1. LockFits(t, to.at)
    BY <1>1, <1>3, <1>5 DEF LockFits
  <2>2. Grows
    BY <1>1, <1>5, GrowsByOne
  <2>3. CallInv'
    BY <1>5, <2>1, <2>2, CallsGoOn
  <2>4. /\ made' \in 0..MaxCalls /\ made <= made' /\ faults' \in 0..MaxFaults
    BY <1>1, <1>5, BoundsAdd
  <2>5. to.at # "manager" /\ to.at \notin {"add path", "create"}
    BY <1>5 DEF LockPlaces
  <2>6. BoundInv'
    BY <1>1, <1>5, <2>4, <2>5, BoundsGoOn
  <2>7. QED
    BY <2>3, <2>6
<1>6. ASSUME call' = call, lastId' = lastId, lastContext' = lastContext,
             Begins(t), faults' = faults
      PROVE  CallInv' /\ BoundInv'
  <2>1. lastContext <= lastContext' /\ lastContext' \in Nat
    BY <1>1, <1>6
  <2>2. Grows
    BY <1>1, <1>6, <2>1, GrowsByOne
  <2>3. CallInv'
    BY <1>1, <1>6, <2>2, CallsStay
  <2>4. /\ made' \in 0..MaxCalls /\ made <= made' /\ faults' \in 0..MaxFaults
    BY <1>6, BoundsAdd
  <2>5. BoundInv'
    BY <1>1, <1>6, <2>1, <2>4, BoundsStay
  <2>6. QED
    BY <2>3, <2>5
<1>7. CASE WriteFile(t)
  <2> DEFINE to == [call[t] EXCEPT !.at = "push"]
  <2>1. /\ call[t].at = "write" /\ Goes(t, to) /\ lastId' = lastId
        /\ lastContext' = lastContext /\ faults' = faults /\ made' = made
    BY <1>7 DEF WriteFile
  <2>2. call[t] \in [at : {"write", "push"}, id : 1..lastId, c : Criteria]
    BY <1>2, <2>1, CallKinds
  <2>3. to \in [at : {"write", "push"}, id : 1..lastId', c : Criteria]
    BY <2>1, <2>2
  <2>4. to.at = "push" /\ IsCall(to, lastId', lastManager', lastContext')
    BY <2>2, <2>3 DEF IsCall
  <2> HIDE DEF to
  <2>5. call[t].at \notin LockPlaces /\ to.at \notin LockPlaces
    BY <2>1, <2>4 DEF LockPlaces
  <2>6. lastContext' \in Nat /\ lastContext <= lastContext'
    BY <1>1, <2>1
  <2>7. QED
    BY <1>5, <2>1, <2>4, <2>5, <2>6
<1>8. CASE WriteFails(t)
  <2>1. /\ call[t].at = "write" /\ Goes(t, Idle) /\ lastId' = lastId
        /\ lastContext' = lastContext /\ Fault /\ made' = made
    BY <1>8 DEF WriteFails
  <2>2. call[t].at \notin LockPlaces /\ Idle.at \notin LockPlaces
    BY <2>1, IdleCall DEF LockPlaces
  <2>3. lastContext' \in Nat /\ lastContext <= lastContext'
    BY <1>1, <2>1
  <2>4. QED
    BY <1>5, <2>1, <2>2, <2>3, IdleCall
<1>9. CASE CreateReturns(t)
  <2>1. /\ call[t].at = "push" /\ Goes(t, Idle) /\ lastId' = lastId
        /\ lastContext' = lastContext /\ faults' = faults /\ made' = made
    BY <1>9 DEF CreateReturns
  <2>2. call[t].at \notin LockPlaces /\ Idle.at \notin LockPlaces
    BY <2>1, IdleCall DEF LockPlaces
  <2>3. lastContext' \in Nat /\ lastContext <= lastContext'
    BY <1>1, <2>1
  <2>4. QED
    BY <1>5, <2>1, <2>2, <2>3, IdleCall
<1>10. ASSUME NEW id \in Ids, DeletePackageDependency(t, id)
       PROVE  CallInv' /\ BoundInv'
  <2> DEFINE to == [at |-> "delete", id |-> id]
  <2>1. /\ Begins(t) /\ id \in DOMAIN defined /\ Goes(t, to)
        /\ lastId' = lastId /\ lastContext' = lastContext /\ faults' = faults
    BY <1>10 DEF DeletePackageDependency
  <2>2. to \in [at : {"delete"}, id : 1..lastId']
    BY <2>1
  <2>3. to.at = "delete" /\ IsCall(to, lastId', lastManager', lastContext')
    BY <2>2 DEF IsCall
  <2> HIDE DEF to
  <2>4. call[t].at \notin LockPlaces /\ to.at \notin LockPlaces
    BY <2>1, <2>3, IdleCall DEF LockPlaces, Begins
  <2>5. lastContext' \in Nat /\ lastContext <= lastContext'
    BY <1>1, <2>1
  <2>6. QED
    BY <1>5, <2>1, <2>3, <2>4, <2>5
<1>11. ASSUME NEW id \in Ids, NEW rank \in Ranks, NEW prepend \in BOOLEAN,
              AddPackageDependency(t, id, rank, prepend)
       PROVE  CallInv' /\ BoundInv'
  <2> DEFINE to == [at |-> "resolve", id |-> id, rank |-> rank,
                    prepend |-> prepend]
  <2>1. /\ Begins(t) /\ id \in DOMAIN defined /\ Lookup(t, id, to)
        /\ lastId' = lastId /\ lastContext' = lastContext /\ faults' = faults
    BY <1>11 DEF AddPackageDependency
  <2>2. CASE id \in DOMAIN memory
    <3>1. Goes(t, to)
      BY <2>1, <2>2 DEF Lookup
    <3>2. to \in [at : {"resolve"}, id : 1..lastId', rank : Ranks,
                  prepend : BOOLEAN]
      BY <1>11, <2>1
    <3>3. to.at = "resolve" /\ IsCall(to, lastId', lastManager', lastContext')
      BY <3>2 DEF IsCall
    <3> HIDE DEF to
    <3>4. call[t].at \notin LockPlaces /\ to.at \notin LockPlaces
      BY <2>1, <3>3, IdleCall DEF LockPlaces, Begins
    <3>5. lastContext' \in Nat /\ lastContext <= lastContext'
      BY <1>1, <2>1
    <3>6. QED
      BY <1>5, <2>1, <3>1, <3>3, <3>4, <3>5
  <2>3. CASE id \notin DOMAIN memory
    <3>1. call' = call
      BY <2>1, <2>3 DEF Lookup
    <3>2. QED
      BY <1>6, <2>1, <3>1
  <2>4. QED
    BY <2>2, <2>3
<1>12. CASE Resolve(t)
  <2>1. call[t].at = "resolve"
    BY <1>12 DEF Resolve
  <2>2. call[t].id \in Nat /\ call[t].rank \in Ranks
    <3>1. call[t] \in [at : {"resolve"}, id : 1..lastId, rank : Ranks,
                       prepend : BOOLEAN]
      BY <1>2, <2>1, CallKinds
    <3>2. QED
      BY <1>1, <3>1
  <2>3. call[t].at \notin LockPlaces
    BY <2>1 DEF LockPlaces
  <2> DEFINE to == [at |-> "update", context |-> lastContext']
  <2>4. CASE \E p \in Packages : /\ Resolves(t, call[t].rank, call[t].prepend, p)
                                 /\ Goes(t, to)
    <3>1. PICK p \in Packages : Resolves(t, call[t].rank, call[t].prepend, p)
      BY <2>4
    <3>2. /\ lastContext' \in Nat /\ lastContext <= lastContext'
          /\ lastContext' \in 1..lastContext'
      BY <2>2, <3>1, ResolvesGraph
    <3>3. lastId' = lastId /\ made' = made /\ faults' = faults
      BY <3>1 DEF Resolves
    <3>4. to \in [at : {"update"}, context : 1..lastContext']
      BY <3>2
    <3>5. to.at = "update" /\ IsCall(to, lastId', lastManager', lastContext')
      BY <3>4 DEF IsCall
    <3>6. Goes(t, to)
      BY <2>4
    <3> HIDE DEF to
    <3>7. to.at \notin LockPlaces
      BY <3>5 DEF LockPlaces
    <3>8. QED
      BY <1>5, <2>3, <3>2, <3>3, <3>5, <3>6, <3>7
  <2>5. CASE NotFound(t) /\ Goes(t, Idle)
    <3>1. lastContext' \in Nat /\ lastContext <= lastContext'
      BY <1>1, <2>5 DEF NotFound
    <3>2. lastId' = lastId /\ made' = made /\ faults' = faults
      BY <2>5 DEF NotFound
    <3>3. Idle.at \notin LockPlaces
      BY IdleCall DEF LockPlaces
    <3>4. QED
      BY <1>5, <2>3, <2>5, <3>1, <3>2, <3>3, IdleCall
  <2>6. QED
    BY <1>12, <2>4, <2>5 DEF Resolve
(* The calls that end                                                      *)
<1>13. ASSUME call[t].at \in {"delete", "update", "remove"}, Goes(t, Idle),
              lastId' = lastId, lastContext' = lastContext, made' = made,
              Fault \/ faults' = faults
       PROVE  CallInv' /\ BoundInv'
  <2>1. call[t].at \notin LockPlaces /\ Idle.at \notin LockPlaces
    BY <1>13, IdleCall DEF LockPlaces
  <2>2. lastContext' \in Nat /\ lastContext <= lastContext'
    BY <1>1, <1>13
  <2>3. QED
    BY <1>5, <1>13, <2>1, <2>2, IdleCall
<1>15. CASE DeleteReturns(t)
  BY <1>13, <1>15 DEF DeleteReturns
<1>16. CASE AddReturns(t)
  <2>1. PICK ok \in BOOLEAN : Updated(ok)
    BY <1>16 DEF AddReturns, Added, Updated
  <2>2. QED
    BY <1>13, <1>16, <2>1, UpdateEnds DEF AddReturns
<1>17. CASE RemoveReturns(t)
  <2>1. PICK ok \in BOOLEAN : Updated(ok)
    BY <1>17 DEF RemoveReturns, Updated
  <2>2. QED
    BY <1>13, <1>17, <2>1, UpdateEnds DEF RemoveReturns
<1>18. ASSUME NEW x \in held, RemovePackageDependency(t, x)
       PROVE  CallInv' /\ BoundInv'
  <2> DEFINE to == [at |-> "remove"]
  <2>1. /\ Begins(t) /\ Goes(t, to) /\ lastId' = lastId
        /\ lastContext' = lastContext /\ faults' = faults
    BY <1>18 DEF RemovePackageDependency, RemoveNode
  <2>2. to.at = "remove" /\ IsCall(to, lastId', lastManager', lastContext')
    BY DEF IsCall
  <2> HIDE DEF to
  <2>3. call[t].at \notin LockPlaces /\ to.at \notin LockPlaces
    BY <2>1, <2>2, IdleCall DEF LockPlaces, Begins
  <2>4. lastContext' \in Nat /\ lastContext <= lastContext'
    BY <1>1, <2>1
  <2>5. QED
    BY <1>5, <2>1, <2>2, <2>3, <2>4
<1>14. ASSUME NEW i \in DOMAIN path, AppDrops(t, i)
       PROVE  CallInv' /\ BoundInv'
  <2>1. /\ call' = call /\ lastId' = lastId /\ lastContext' = lastContext
        /\ Begins(t) /\ faults' = faults
    BY <1>14 DEF AppDrops
  <2>2. QED
    BY <1>6, <2>1
<1>19. QED
  BY <1>4, <1>7, <1>8, <1>9, <1>10, <1>11, <1>12, <1>14, <1>15, <1>16, <1>17,
     <1>18 DEF DependencyCall

(* The process ends.                                                       *)
LEMMA RestartIsTyped ==
  ASSUME BoundInv, ProcessRestarts, faults' \in 0..MaxFaults
  PROVE  CallInv' /\ BoundInv'
<1>1. /\ call' = [u \in Threads |-> Idle] /\ bootLock' = NoThread
      /\ lastId' = lastId /\ made' = made /\ lastManager' = lastManager
      /\ lastContext' = 0
  BY DEF ProcessRestarts, Restarts, GraphRestarts
<1>2. CallInv'
  BY <1>1, CallsEnd
<1>3. NobodyStarts
  BY <1>1, IdleCall DEF NobodyStarts
<1>4. made' \in 0..MaxCalls /\ made <= made' /\ lastContext' \in Nat
  BY <1>1, BoundsAdd
<1>5. BoundInv'
  BY <1>1, <1>3, <1>4, BoundsKept
<1>6. QED
  BY <1>2, <1>5

(* The calls of MddBootstrap.cpp.                                          *)
LEMMA BootstrapCallsAreTyped ==
  ASSUME CallInv, BoundInv, ListInv, NEW t \in Threads, BootstrapCall(t)
  PROVE  CallInv' /\ BoundInv'
<1> USE DEF depVars, libVars, graphVars, listVars, ids, appVars, historyVars,
            bootVars, initVars, managerVars, flags
<1>1. /\ lastId \in Nat /\ lastContext \in Nat /\ made \in Nat
      /\ lastManager \in Nat /\ lastId <= made /\ lastManager <= made
  <2>1. made \in Nat
    BY BoundsAdd
  <2>2. QED
    BY <2>1 DEF BoundInv
<1>2. IsCall(call[t], lastId, lastManager, lastContext)
  BY CallIsTyped
<1>3. /\ call[t].at \in LockPlaces <=> bootLock = t
      /\ t # NoThread
  BY CriteriaAssumption DEF CallInv
(* Outside or within the initialization, or out of it                      *)
<1>4. ASSUME NEW to, Goes(t, to), lastId' = lastId,
             lastManager' = lastManager, lastContext' \in Nat,
             lastContext <= lastContext',
             IsCall(to, lastId', lastManager', lastContext'),
             LockFits(t, to.at), to.at # "manager",
             to.at \in {"add path", "create"} =>
               call[t].at \in {"manager", "add path", "create"},
             Begins(t) \/ made' = made, Fault \/ faults' = faults
      PROVE  CallInv' /\ BoundInv'
  <2>1. Grows
    BY <1>4, GrowsByOne
  <2>2. CallInv'
    BY <1>4, <2>1, CallsGoOn
  <2>3. /\ made' \in 0..MaxCalls /\ made <= made' /\ faults' \in 0..MaxFaults
    <3>1. made <= made
      BY <1>1
    <3>2. QED
      BY <1>4, <3>1, BoundsAdd
  <2>4. BoundInv'
    BY <1>4, <2>3, BoundsGoOn
  <2>5. QED
    BY <2>2, <2>4
<1>5. ASSUME call' = call, bootLock' = bootLock, lastId' = lastId,
             lastManager' = lastManager, lastContext' = lastContext,
             Begins(t) \/ made' = made, faults' = faults
      PROVE  CallInv' /\ BoundInv'
  <2>1. lastContext <= lastContext' /\ lastContext' \in Nat
    BY <1>1, <1>5
  <2>2. Grows
    BY <1>5, <2>1, GrowsByOne
  <2>3. CallInv'
    BY <1>5, <2>2, CallsStay
  <2>4. /\ made' \in 0..MaxCalls /\ made <= made' /\ faults' \in 0..MaxFaults
    <3>1. made <= made
      BY <1>1
    <3>2. QED
      BY <1>5, <3>1, BoundsAdd
  <2>5. BoundInv'
    BY <1>5, <2>1, <2>4, BoundsStay
  <2>6. QED
    BY <2>3, <2>5
<1>6. ASSUME call[t].at \in LockPlaces, Goes(t, Idle), bootLock' = NoThread,
             lastId' = lastId, lastManager' = lastManager,
             lastContext' \in Nat, lastContext <= lastContext',
             made' = made, Fault \/ faults' = faults
      PROVE  CallInv' /\ BoundInv'
  <2>1. /\ Idle.at \notin LockPlaces
        /\ Idle.at \notin {"manager", "add path", "create"}
    BY IdleCall DEF LockPlaces
  <2>2. LockFits(t, Idle.at)
    BY <1>3, <1>6, <2>1 DEF LockFits
  <2>3. IsCall(Idle, lastId', lastManager', lastContext')
    BY IdleCall
  <2>4. QED
    BY <1>4, <1>6, <2>1, <2>2, <2>3
<1>7. CASE BeginInitialize(t)
  <2>1. /\ Begins(t) /\ call[t] = Idle /\ bootLock = NoThread
        /\ lastId' = lastId /\ lastManager' = lastManager
        /\ lastContext' = lastContext /\ faults' = faults
        /\ made' = made + 1
    BY <1>7 DEF BeginInitialize, Begins
  <2>2. lastContext' \in Nat /\ lastContext <= lastContext'
    BY <1>1, <2>1
  <2>3. CASE count > 0
    <3> DEFINE to == [at |-> "increment"]
    <3>1. Goes(t, to) /\ bootLock' = bootLock
      BY <1>7, <2>3 DEF BeginInitialize
    <3>2. /\ IsCall(to, lastId', lastManager', lastContext')
          /\ to.at = "increment"
      BY DEF IsCall
    <3> HIDE DEF to
    <3>3. LockFits(t, to.at)
      BY <1>3, <2>1, <3>1, <3>2 DEF LockFits, LockPlaces
    <3>4. to.at # "manager" /\ to.at \notin {"add path", "create"}
      BY <3>2
    <3>5. QED
      BY <1>4, <2>1, <2>2, <3>1, <3>2, <3>3, <3>4
  <2>4. CASE ~(count > 0)
    <3> DEFINE to == [at |-> "manager"]
    <3>1. Goes(t, to) /\ bootLock' = t
      BY <1>7, <2>4 DEF BeginInitialize
    <3>2. IsCall(to, lastId', lastManager', lastContext') /\ to.at = "manager"
      BY DEF IsCall
    <3> HIDE DEF to
    <3>3. LockFits(t, to.at)
      BY <2>1, <3>1, <3>2 DEF LockFits, LockPlaces
    <3>4. Grows
      BY <2>1, <2>2, GrowsByOne
    <3>5. CallInv'
      BY <3>1, <3>2, <3>3, <3>4, CallsGoOn
    <3>6. made' \in 0..MaxCalls /\ faults' \in 0..MaxFaults
      BY <2>1, BoundsAdd
    <3>7. /\ lastId' < made' /\ lastManager' < made'
          /\ lastId' <= made' /\ lastManager' <= made'
      BY <1>1, <2>1
    <3>8. lastId' \in Nat /\ lastManager' \in Nat /\ lastContext' \in Nat
      BY <1>1, <2>1
    <3>9. BoundInv'
      BY <3>6, <3>7, <3>8 DEF BoundInv
    <3>10. QED
      BY <3>5, <3>9
  <2>5. QED
    BY <2>3, <2>4
<1>8. CASE FailsFast(t)
  <2>1. ProcessRestarts /\ faults' = faults
    BY <1>8 DEF FailsFast
  <2>2. faults' \in 0..MaxFaults
    BY <2>1, BoundsAdd
  <2>3. QED
    BY <2>1, <2>2, RestartIsTyped
<1>9. CASE CreateLifetimeManager(t)
  <2> DEFINE to == [at |-> "add path", manager |-> lastManager']
  <2>1. /\ call[t].at = "manager" /\ Goes(t, to) /\ bootLock' = bootLock
        /\ lastId' = lastId /\ lastManager' = lastManager + 1
        /\ lastContext' = lastContext /\ made' = made /\ faults' = faults
    BY <1>9 DEF CreateLifetimeManager
  <2>2. lastManager' \in 1..lastManager'
    <3>1. lastManager \in Nat /\ lastManager' = lastManager + 1
      BY <1>1, <2>1
    <3>2. QED
      BY <3>1
  <2>3. to \in [at : {"add path", "create"}, manager : 1..lastManager']
    BY <2>2
  <2>4. IsCall(to, lastId', lastManager', lastContext') /\ to.at = "add path"
    BY <2>3 DEF IsCall
  <2> HIDE DEF to
  <2>5. bootLock = t
    BY <1>3, <2>1 DEF LockPlaces
  <2>6. LockFits(t, to.at)
    BY <2>1, <2>4, <2>5 DEF LockFits, LockPlaces
  <2>7. lastContext' \in Nat /\ lastContext <= lastContext'
    BY <1>1, <2>1
  <2>8. Grows
    BY <2>1, <2>7, GrowsByOne
  <2>9. CallInv'
    BY <2>1, <2>4, <2>6, <2>8, CallsGoOn
  <2>10. lastId < made /\ lastManager < made
    BY <2>1 DEF BoundInv
  <2>11. /\ lastId' < made' /\ lastManager' <= made' /\ lastId' <= made'
         /\ lastManager' \in Nat /\ lastId' \in Nat
    BY <1>1, <2>1, <2>10
  <2>12. \A u \in Threads : call'[u].at # "manager"
    <3>1. \A u \in Threads \ {t} : call[u].at # "manager"
      BY <2>1, OneInside DEF LockPlaces
    <3>2. call'[t] = to /\ \A u \in Threads \ {t} : call'[u] = call[u]
      BY <2>1, GoesOn
    <3>3. QED
      BY <2>4, <3>1, <3>2
  <2>13. made' \in 0..MaxCalls /\ faults' \in 0..MaxFaults
    BY <2>1, BoundsAdd
  <2>14. BoundInv'
    BY <2>7, <2>11, <2>12, <2>13 DEF BoundInv
  <2>15. QED
    BY <2>9, <2>14
<1>10. CASE NoManager(t)
  <2>1. /\ call[t].at = "manager" /\ Goes(t, Idle) /\ bootLock' = NoThread
        /\ lastId' = lastId /\ lastManager' = lastManager
        /\ lastContext' = lastContext /\ made' = made /\ Fault
    BY <1>10 DEF NoManager
  <2>2. /\ call[t].at \in LockPlaces
        /\ lastContext' \in Nat /\ lastContext <= lastContext'
    BY <1>1, <2>1 DEF LockPlaces
  <2>3. QED
    BY <1>6, <2>1, <2>2
<1>11. CASE AddFrameworkToPath(t)
  <2>1. /\ call[t].at = "add path" /\ lastId' = lastId
        /\ lastContext' = lastContext
    BY <1>11 DEF AddFrameworkToPath, WritePath
  <2>2. /\ call[t].at \in LockPlaces
        /\ lastContext' \in Nat /\ lastContext <= lastContext'
    <3>1. call[t].at \in LockPlaces
      BY <2>1 DEF LockPlaces
    <3>2. lastContext \in Nat /\ lastContext' = lastContext
      BY <1>1, <2>1
    <3>3. QED
      BY <3>1, <3>2
  <2>3. CASE Fault /\ InitializationFails(t)
    <3>1. /\ Goes(t, Idle) /\ bootLock' = NoThread /\ made' = made
          /\ lastManager' = lastManager
      BY <2>3 DEF InitializationFails
    <3>2. QED
      BY <1>6, <2>1, <2>2, <2>3, <3>1
  <2> DEFINE to == [call[t] EXCEPT !.at = "create"]
  <2>4. CASE Goes(t, to) /\ UNCHANGED <<made, faults, initVars>>
    <3>1. call[t] \in [at : {"add path", "create"}, manager : 1..lastManager]
      BY <1>2, <2>1, CallKinds
    <3>2. /\ made' = made /\ faults' = faults /\ lastManager' = lastManager
          /\ bootLock' = bootLock
      BY <2>4
    <3>3. to \in [at : {"add path", "create"}, manager : 1..lastManager']
      BY <3>1, <3>2
    <3>4. IsCall(to, lastId', lastManager', lastContext') /\ to.at = "create"
      BY <3>1, <3>3 DEF IsCall
    <3>5. Goes(t, to)
      BY <2>4
    <3> HIDE DEF to
    <3>6. LockFits(t, to.at)
      BY <1>3, <2>2, <3>2, <3>4 DEF LockFits, LockPlaces
    <3>7. /\ to.at # "manager"
          /\ call[t].at \in {"manager", "add path", "create"}
      BY <2>1, <3>4
    <3>8. QED
      BY <1>4, <2>1, <2>2, <3>2, <3>4, <3>5, <3>6, <3>7
  <2>5. QED
    BY <1>11, <2>3, <2>4 DEF AddFrameworkToPath
<1>12. CASE CreateFrameworkDependency(t)
  <2>1. /\ call[t].at = "create" /\ faults' = faults
    BY <1>12 DEF CreateFrameworkDependency
  <2>2. call[t].at \in LockPlaces
    BY <2>1 DEF LockPlaces
  <2>3. CASE Resolutions(FrameworkCriteria) = {NoPackage}
    <3>1. InitializationFails(t) /\ UNCHANGED libVars
      BY <1>12, <2>3 DEF CreateFrameworkDependency
    <3>2. /\ Goes(t, Idle) /\ bootLock' = NoThread /\ made' = made
          /\ lastManager' = lastManager /\ lastId' = lastId
          /\ lastContext' = lastContext
      BY <3>1 DEF InitializationFails
    <3>3. lastContext' \in Nat /\ lastContext <= lastContext'
      BY <1>1, <3>2
    <3>4. QED
      BY <1>6, <2>1, <2>2, <3>2, <3>3
  <2>4. CASE Resolutions(FrameworkCriteria) # {NoPackage}
    <3> DEFINE to == [at |-> "boot lookup", manager |-> call[t].manager,
                      id |-> lastId']
    <3>1. /\ lastId' = lastId + 1 /\ Goes(t, to)
          /\ lastContext' = lastContext /\ made' = made
          /\ lastManager' = lastManager /\ bootLock' = bootLock
      BY <1>12, <2>4 DEF CreateFrameworkDependency
    <3>2. call[t].manager \in 1..lastManager' /\ lastId' \in 1..lastId'
      <4>1. call[t] \in [at : {"add path", "create"}, manager : 1..lastManager]
        BY <1>2, <2>1, CallKinds
      <4>2. call[t].manager \in 1..lastManager
        BY <4>1
      <4>3. lastId \in Nat /\ lastId' = lastId + 1
        BY <1>1, <3>1
      <4>4. lastId' \in 1..lastId'
        BY <4>3
      <4>5. QED
        BY <3>1, <4>2, <4>4
    <3>3. to \in [at : {"boot lookup", "boot resolve"},
                  manager : 1..lastManager', id : 1..lastId']
      BY <3>2
    <3>4. /\ IsCall(to, lastId', lastManager', lastContext')
          /\ to.at = "boot lookup"
      BY <3>3 DEF IsCall
    <3> HIDE DEF to
    <3>5. LockFits(t, to.at)
      BY <1>3, <2>2, <3>1, <3>4 DEF LockFits, LockPlaces
    <3>6. lastContext' \in Nat /\ lastContext <= lastContext'
      BY <1>1, <3>1
    <3>7. Grows
      BY <3>1, <3>6, GrowsByOne
    <3>8. CallInv'
      BY <3>1, <3>4, <3>5, <3>7, CallsGoOn
    <3>9. lastId < made
      BY <2>1 DEF BoundInv
    <3>10. /\ lastManager' <= made' /\ lastId' <= made'
           /\ lastManager' \in Nat /\ lastId' \in Nat
      BY <1>1, <3>1, <3>9
    <3>11. \A u \in Threads :
             call'[u].at \notin {"manager", "add path", "create"}
      <4>1. \A u \in Threads \ {t} :
              call[u].at \notin {"manager", "add path", "create"}
        BY <2>2, OneInside DEF LockPlaces
      <4>2. call'[t] = to /\ \A u \in Threads \ {t} : call'[u] = call[u]
        BY <3>1, GoesOn
      <4>3. QED
        BY <3>4, <4>1, <4>2
    <3>12. made' \in 0..MaxCalls /\ faults' \in 0..MaxFaults
      BY <2>1, <3>1, BoundsAdd
    <3>13. BoundInv'
      BY <3>6, <3>10, <3>11, <3>12 DEF BoundInv
    <3>14. QED
      BY <3>8, <3>13
  <2>5. QED
    BY <2>3, <2>4
<1>13. CASE LookupFramework(t)
  <2> DEFINE to == [call[t] EXCEPT !.at = "boot resolve"]
  <2>1. /\ call[t].at = "boot lookup" /\ Lookup(t, call[t].id, to)
        /\ lastId' = lastId /\ lastManager' = lastManager
        /\ lastContext' = lastContext /\ made' = made /\ faults' = faults
        /\ bootLock' = bootLock
    BY <1>13 DEF LookupFramework
  <2>2. CASE call[t].id \in DOMAIN memory
    <3>1. Goes(t, to)
      BY <2>1, <2>2 DEF Lookup
    <3>2. call[t] \in [at : {"boot lookup", "boot resolve"},
                       manager : 1..lastManager, id : 1..lastId]
      BY <1>2, <2>1, CallKinds
    <3>3. to \in [at : {"boot lookup", "boot resolve"},
                  manager : 1..lastManager', id : 1..lastId']
      BY <2>1, <3>2
    <3>4. /\ IsCall(to, lastId', lastManager', lastContext')
          /\ to.at = "boot resolve"
      BY <3>2, <3>3 DEF IsCall
    <3> HIDE DEF to
    <3>5. LockFits(t, to.at)
      BY <1>3, <2>1, <3>4 DEF LockFits, LockPlaces
    <3>6. lastContext' \in Nat /\ lastContext <= lastContext'
      <4>1. lastContext \in Nat /\ lastContext' = lastContext
        BY <1>1, <2>1
      <4>2. QED
        BY <4>1
    <3>7. to.at # "manager" /\ to.at \notin {"add path", "create"}
      BY <3>4
    <3>8. QED
      BY <1>4, <2>1, <3>1, <3>4, <3>5, <3>6, <3>7
  <2>3. CASE call[t].id \notin DOMAIN memory
    <3>1. call' = call
      BY <2>1, <2>3 DEF Lookup
    <3>2. QED
      BY <1>5, <2>1, <3>1
  <2>4. QED
    BY <2>2, <2>3
<1>14. CASE AddFramework(t)
  <2>1. call[t].at = "boot resolve" /\ call[t].at \in LockPlaces
    BY <1>14 DEF AddFramework, LockPlaces
  <2>2. call[t].id \in Nat /\ call[t].manager \in 1..lastManager
    <3>1. call[t] \in [at : {"boot lookup", "boot resolve"},
                       manager : 1..lastManager, id : 1..lastId]
      BY <1>2, <2>1, CallKinds
    <3>2. call[t].id \in 1..lastId /\ call[t].manager \in 1..lastManager
      BY <3>1
    <3>3. QED
      BY <3>2
  <2> DEFINE to == [at |-> "boot update", manager |-> call[t].manager,
                    context |-> lastContext']
  <2>3. CASE NotFound(t) /\ InitializationFails(t)
    <3>1. /\ lastContext' \in Nat /\ lastContext <= lastContext'
          /\ lastId' = lastId /\ made' = made /\ faults' = faults
      BY <1>1, <2>3 DEF NotFound
    <3>2. Goes(t, Idle) /\ bootLock' = NoThread /\ lastManager' = lastManager
      BY <2>3 DEF InitializationFails
    <3>3. QED
      BY <1>6, <2>1, <3>1, <3>2
  <2>4. CASE /\ \E p \in Packages : Resolves(t, DefaultRank, FALSE, p)
             /\ Goes(t, to) /\ UNCHANGED initVars
    <3>1. PICK p \in Packages : Resolves(t, DefaultRank, FALSE, p)
      BY <2>4
    <3>2. /\ lastContext' \in Nat /\ lastContext <= lastContext'
          /\ lastContext' \in 1..lastContext'
      BY <2>2, <3>1, ResolvesGraph, FrameworkAssumption
    <3>3. lastId' = lastId /\ made' = made /\ faults' = faults
      BY <3>1 DEF Resolves
    <3>4. Goes(t, to) /\ lastManager' = lastManager /\ bootLock' = bootLock
      BY <2>4
    <3>5. call[t].manager \in 1..lastManager'
      BY <2>2, <3>4
    <3>6. to \in [at : {"boot update", "trim"}, manager : 1..lastManager',
                  context : 1..lastContext']
      BY <3>2, <3>5
    <3>7. /\ IsCall(to, lastId', lastManager', lastContext')
          /\ to.at = "boot update"
      BY <3>6 DEF IsCall
    <3> HIDE DEF to
    <3>8. LockFits(t, to.at)
      BY <1>3, <2>1, <3>4, <3>7 DEF LockFits, LockPlaces
    <3>9. to.at # "manager" /\ to.at \notin {"add path", "create"}
      BY <3>7
    <3>10. QED
      BY <1>4, <3>2, <3>3, <3>4, <3>7, <3>8, <3>9
  <2>5. QED
    BY <1>14, <2>3, <2>4 DEF AddFramework
<1>19. CASE AddFrameworkReturns(t)
  <2> DEFINE to == [call[t] EXCEPT !.at = "trim"]
  <2>1. call[t].at = "boot update" /\ call[t].at \in LockPlaces
    BY <1>19 DEF AddFrameworkReturns, LockPlaces
  <2>2. PICK ok \in BOOLEAN :
          /\ Added(t, ok)
          /\ IF ok THEN Goes(t, to) /\ UNCHANGED initVars
                   ELSE InitializationFails(t)
    BY <1>19 DEF AddFrameworkReturns
  <2>3. /\ lastContext' \in Nat /\ lastContext <= lastContext'
        /\ lastContext' = lastContext
        /\ lastId' = lastId /\ made' = made /\ (Fault \/ faults' = faults)
    <3>1. Updated(ok)
      BY <2>2 DEF Added, Updated
    <3>2. QED
      BY <3>1, UpdateEnds
  <2>4. CASE ~ok
    <3>1. Goes(t, Idle) /\ bootLock' = NoThread /\ lastManager' = lastManager
      BY <2>2, <2>4 DEF InitializationFails
    <3>2. QED
      BY <1>6, <2>1, <2>3, <3>1
  <2>5. CASE ok
    <3>1. Goes(t, to) /\ lastManager' = lastManager /\ bootLock' = bootLock
      BY <2>2, <2>5
    <3>2. call[t] \in [at : {"boot update", "trim"}, manager : 1..lastManager,
                       context : 1..lastContext]
      BY <1>2, <2>1, CallKinds
    <3>3. to \in [at : {"boot update", "trim"}, manager : 1..lastManager',
                  context : 1..lastContext']
      BY <2>3, <3>1, <3>2
    <3>4. IsCall(to, lastId', lastManager', lastContext') /\ to.at = "trim"
      BY <3>2, <3>3 DEF IsCall
    <3> HIDE DEF to
    <3>5. LockFits(t, to.at)
      BY <1>3, <2>1, <3>1, <3>4 DEF LockFits, LockPlaces
    <3>6. to.at # "manager" /\ to.at \notin {"add path", "create"}
      BY <3>4
    <3>7. QED
      BY <1>4, <2>3, <3>1, <3>4, <3>5, <3>6
  <2>6. QED
    BY <2>4, <2>5
<1>15. CASE RemoveFrameworkFromPath(t)
  <2> DEFINE to == [at |-> "increment"]
  <2>1. /\ call[t].at = "trim" /\ Goes(t, to) /\ bootLock' = NoThread
        /\ made' = made /\ lastManager' = lastManager
    BY <1>15 DEF RemoveFrameworkFromPath
  <2>8. Fault \/ faults' = faults
    BY <1>15 DEF RemoveFrameworkFromPath
  <2>2. lastId' = lastId /\ lastContext' = lastContext
    BY <1>15 DEF RemoveFrameworkFromPath, WritePath, listVars
  <2>3. /\ IsCall(to, lastId', lastManager', lastContext')
        /\ to.at = "increment"
    BY DEF IsCall
  <2> HIDE DEF to
  <2>4. LockFits(t, to.at)
    BY <1>3, <2>1, <2>3 DEF LockFits, LockPlaces
  <2>5. lastContext' \in Nat /\ lastContext <= lastContext'
    BY <1>1, <2>2
  <2>6. to.at # "manager" /\ to.at \notin {"add path", "create"}
    BY <2>3
  <2>7. QED
    BY <1>4, <2>1, <2>2, <2>3, <2>4, <2>5, <2>6, <2>8
<1>16. CASE IncrementCount(t)
  <2>1. /\ call[t].at = "increment" /\ Goes(t, Idle) /\ bootLock' = bootLock
        /\ made' = made /\ faults' = faults /\ lastManager' = lastManager
        /\ lastId' = lastId /\ lastContext' = lastContext
    BY <1>16 DEF IncrementCount
  <2>2. LockFits(t, Idle.at)
    BY <1>3, <2>1, IdleCall DEF LockFits, LockPlaces
  <2>3. lastContext' \in Nat /\ lastContext <= lastContext'
    BY <1>1, <2>1
  <2>4. Idle.at # "manager" /\ Idle.at \notin {"add path", "create"}
    BY IdleCall
  <2>5. IsCall(Idle, lastId', lastManager', lastContext')
    BY IdleCall
  <2>6. QED
    BY <1>4, <2>1, <2>2, <2>3, <2>4, <2>5
<1>17. CASE Shutdown(t)
  <2>1. /\ Begins(t) /\ call' = call /\ bootLock' = bootLock
        /\ faults' = faults /\ lastManager' = lastManager
        /\ lastId' = lastId /\ lastContext' = lastContext
    BY <1>17 DEF Shutdown, BeginShutdown
  <2>2. QED
    BY <1>5, <2>1
<1>20. CASE ShutdownLast(t)
  <2> DEFINE to == [at |-> "shut down"]
  <2>1. /\ Begins(t) /\ bootLock = NoThread /\ Goes(t, to) /\ bootLock' = t
        /\ faults' = faults /\ lastManager' = lastManager
        /\ lastId' = lastId /\ lastContext' = lastContext
    BY <1>20 DEF ShutdownLast, BeginShutdown, RemoveNode
  <2>2. IsCall(to, lastId', lastManager', lastContext') /\ to.at = "shut down"
    BY DEF IsCall
  <2> HIDE DEF to
  <2>3. LockFits(t, to.at)
    BY <2>1, <2>2 DEF LockFits, LockPlaces
  <2>4. to.at # "manager" /\ to.at \notin {"add path", "create"}
    BY <2>2
  <2>5. lastContext' \in Nat /\ lastContext <= lastContext'
    BY <1>1, <2>1
  <2>6. QED
    BY <1>4, <2>1, <2>2, <2>3, <2>4, <2>5
<1>21. CASE ShutdownReturns(t)
  <2>1. PICK ok \in BOOLEAN : Updated(ok)
    BY <1>21 DEF ShutdownReturns, Updated
  <2>2. /\ call[t].at = "shut down" /\ Goes(t, Idle) /\ bootLock' = NoThread
        /\ lastManager' = lastManager
    BY <1>21 DEF ShutdownReturns
  <2>3. call[t].at \in LockPlaces
    BY <2>2 DEF LockPlaces
  <2>4. QED
    BY <1>6, <2>1, <2>2, <2>3, UpdateEnds
<1>18. QED
  BY <1>7, <1>8, <1>9, <1>10, <1>11, <1>12, <1>13, <1>14, <1>15, <1>16, <1>17,
     <1>19, <1>20, <1>21 DEF BootstrapCall

-----------------------------------------------------------------------------
(* PATH and what else no other invariant is about: their types.            *)
Dirs == Packages \union AppDirs

PathInv ==
  /\ usable \subseteq Packages /\ generation \in Nat
  /\ path \in Seq(Dirs) /\ read \in Seq(Dirs) /\ added \in Seq(Packages)
  /\ seen \in Seq(Dirs) /\ others \in Seq(AppDirs)
  /\ torn \in BOOLEAN /\ ahead \in BOOLEAN /\ behind \in BOOLEAN
  /\ graphLock \in Threads \union {NoThread} /\ moved \subseteq Threads

(* The variables PathInv is about                                          *)
pathVars == <<usable, generation, path, read, added, seen, others, torn, ahead,
              behind, graphLock, moved>>

(* What is left of PATH without a block is a PATH.                         *)
LEMMA WithoutBlockIsAPath ==
  ASSUME NEW S, NEW p \in Seq(S), NEW R, NEW block \in Seq(R)
  PROVE  WithoutBlock(p, block) \in Seq(S)
<1>1. CASE block = <<>>
  BY <1>1 DEF WithoutBlock
<1>2. CASE block # <<>> /\ Offsets(p, block) = {}
  BY <1>2 DEF WithoutBlock
<1>3. CASE block # <<>> /\ Offsets(p, block) # {}
  <2> DEFINE i == Min(Offsets(p, block))
  <2>1. Len(p) \in Nat /\ Len(block) \in Nat
    OBVIOUS
  <2>2. Offsets(p, block) \subseteq 1..(Len(p) - Len(block) + 1)
    BY DEF Offsets
  <2>3. Offsets(p, block) \subseteq Nat
    BY <2>1, <2>2
  <2>4. i \in Offsets(p, block)
    BY <1>3, <2>3, MinIsLeast
  <2>5. WithoutBlock(p, block) =
          SubSeq(p, 1, i - 1) \o SubSeq(p, i + Len(block), Len(p))
    BY <1>3 DEF WithoutBlock
  <2> HIDE DEF i
  <2>6. i \in Nat /\ 1 <= i /\ i - 1 <= Len(p)
    BY <2>1, <2>2, <2>4
  <2>7. SubSeq(p, 1, i - 1) \in Seq(S)
    BY <2>6
  <2>8. SubSeq(p, i + Len(block), Len(p)) \in Seq(S)
    BY <2>1, <2>6
  <2>9. QED
    BY <2>5, <2>7, <2>8
<1>4. QED
  BY <1>1, <1>2, <1>3

(* UpdatePath makes a PATH from the list of packages.                      *)
LEMMA UpdatePathTypes ==
  ASSUME read \in Seq(Dirs), added \in Seq(Packages), graph \in Seq(Nodes),
         UpdatePath
  PROVE  path' \in Seq(Dirs) /\ added' \in Seq(Packages)
<1>1. BuildPathList(graph) \in Seq(Packages)
  <2>1. DOMAIN graph = 1..Len(graph) /\ Len(graph) \in Nat
    OBVIOUS
  <2>2. ASSUME NEW i \in DOMAIN graph
        PROVE  graph[i].package \in Packages
    <3>1. graph[i] \in Nodes
      BY <2>1
    <3>2. QED
      BY <3>1 DEF Nodes
  <2>3. BuildPathList(graph) \in [1..Len(graph) -> Packages]
    BY <2>1, <2>2 DEF BuildPathList
  <2> DEFINE n == Len(graph)
             b == BuildPathList(graph)
  <2>4. n \in Nat /\ b \in [1..n -> Packages]
    BY <2>1, <2>3
  <2> HIDE DEF n, b
  <2>5. b \in Seq(Packages)
    BY <2>4
  <2>6. QED
    BY <2>5 DEF b
<1>2. WithoutBlock(read, added) \in Seq(Dirs)
  BY WithoutBlockIsAPath
<1>3. BuildPathList(graph) \in Seq(Dirs)
  BY <1>1 DEF Dirs
<1>4. /\ added' = BuildPathList(graph)
      /\ path' = BuildPathList(graph) \o WithoutBlock(read, added)
  BY DEF UpdatePath
<1>5. BuildPathList(graph) \o WithoutBlock(read, added) \in Seq(Dirs)
  BY <1>2, <1>3
<1>6. QED
  BY <1>1, <1>4, <1>5

(* The end of an update keeps the types, whether or not PATH is written.   *)
LEMMA UpdatedTypes ==
  ASSUME PathInv, ListInv, NEW ok \in BOOLEAN, Updated(ok)
  PROVE  /\ path' \in Seq(Dirs) /\ read' \in Seq(Dirs)
         /\ added' \in Seq(Packages) /\ generation' \in Nat
         /\ torn' \in BOOLEAN /\ behind' \in BOOLEAN
<1>1. generation' \in Nat
  <2>1. generation' = IF ok THEN generation + 1 ELSE generation
    BY DEF Updated, AddToDllSearchOrder, RemoveFromDllSearchOrder
  <2>2. QED
    BY <2>1 DEF PathInv
<1>2. UpdatePath \/ UpdateFails
  BY DEF Updated, AddToDllSearchOrder, RemoveFromDllSearchOrder
<1>3. read' \in Seq(Dirs)
  BY UpdateEnds DEF PathInv
<1>4. torn' \in BOOLEAN
  BY DEF Updated, EndsUpdate
<1>5. CASE UpdatePath
  <2>1. path' \in Seq(Dirs) /\ added' \in Seq(Packages)
    BY <1>5, UpdatePathTypes DEF PathInv, ListInv
  <2>2. behind' \in BOOLEAN
    BY <1>5 DEF UpdatePath
  <2>3. QED
    BY <1>1, <1>3, <1>4, <2>1, <2>2
<1>6. CASE UpdateFails
  <2>1. path' \in Seq(Dirs) /\ added' \in Seq(Packages)
    BY <1>6 DEF UpdateFails, PathInv
  <2>2. behind' \in BOOLEAN
    BY <1>6 DEF UpdateFails
  <2>3. QED
    BY <1>1, <1>3, <1>4, <2>1, <2>2
<1>7. QED
  BY <1>2, <1>5, <1>6

(* What else the end of an update leaves alone.                            *)
LEMMA UpdatedKeepsPath ==
  ASSUME PathInv, ListInv, NEW ok \in BOOLEAN, Updated(ok),
         seen' \in Seq(Dirs), ahead' \in BOOLEAN
  PROVE  PathInv'
<1>1. /\ path' \in Seq(Dirs) /\ read' \in Seq(Dirs)
      /\ added' \in Seq(Packages) /\ generation' \in Nat
      /\ torn' \in BOOLEAN /\ behind' \in BOOLEAN
  BY UpdatedTypes
<1>2. /\ usable' = usable /\ others' = others /\ moved' = moved
      /\ graphLock' = NoThread
  BY UpdateEnds
<1>3. QED
  BY <1>1, <1>2 DEF PathInv

(* Who resolves a dependency when the list of dependencies moves           *)
LEMMA ResolvingAreThreads == Resolving \subseteq Threads
BY DEF Resolving, At

(* Looking up a dependency takes the lock of the graph.                    *)
LEMMA LookupTypes ==
  ASSUME PathInv, NEW t \in Threads, NEW id, NEW found, Lookup(t, id, found)
  PROVE  /\ graphLock' \in Threads \union {NoThread}
         /\ moved' \subseteq Threads
BY DEF Lookup, PathInv

(* A step that leaves all of it alone                                      *)
LEMMA PathStays ==
  ASSUME PathInv, UNCHANGED pathVars
  PROVE  PathInv'
<1>1. /\ usable' = usable /\ generation' = generation /\ path' = path
      /\ added' = added /\ seen' = seen /\ others' = others
      /\ graphLock' = graphLock /\ moved' = moved
  BY DEF pathVars
<1>2. torn' = torn
  BY DEF pathVars
<1>3. ahead' = ahead
  BY DEF pathVars
<1>4. behind' = behind /\ read' = read
  BY DEF pathVars
<1>5. QED
  BY <1>1, <1>2, <1>3, <1>4 DEF PathInv

(* What a call is about was given out.                                     *)
LEMMA CallIds ==
  ASSUME CallInv, BoundInv, NEW t \in Threads
  PROVE  /\ call[t].at = "resolve" => /\ call[t].id \in 1..lastId
                                      /\ call[t].id \in Nat
                                      /\ call[t].rank \in Ranks
         /\ call[t].at \in {"boot lookup", "boot resolve"} =>
              call[t].id \in 1..lastId /\ call[t].id \in Nat
         /\ call[t].at \in {"write", "push"} =>
              call[t].id \in 1..lastId /\ call[t].c \in Criteria
         /\ call[t].at \in {"add path", "create", "boot lookup",
                            "boot resolve", "boot update", "trim"} =>
              call[t].manager \in 1..lastManager
         /\ call[t].at \in {"update", "boot update", "trim"} =>
              call[t].context \in 1..lastContext
         /\ call[t].at = "delete" => call[t].id \in 1..lastId
<1>1. IsCall(call[t], lastId, lastManager, lastContext)
  BY CallIsTyped
<1>2. ASSUME call[t].at = "resolve"
      PROVE  call[t].id \in 1..lastId /\ call[t].rank \in Ranks
  <2>1. call[t] \in [at : {"resolve"}, id : 1..lastId, rank : Ranks,
                     prepend : BOOLEAN]
    BY <1>1, <1>2, CallKinds
  <2>2. QED
    BY <2>1
<1>3. ASSUME call[t].at \in {"boot lookup", "boot resolve"}
      PROVE  call[t].id \in 1..lastId /\ call[t].manager \in 1..lastManager
  <2>1. call[t] \in [at : {"boot lookup", "boot resolve"},
                     manager : 1..lastManager, id : 1..lastId]
    BY <1>1, <1>3, CallKinds
  <2>2. QED
    BY <2>1
<1>4. ASSUME call[t].at \in {"write", "push"}
      PROVE  call[t].id \in 1..lastId /\ call[t].c \in Criteria
  <2>1. call[t] \in [at : {"write", "push"}, id : 1..lastId, c : Criteria]
    BY <1>1, <1>4, CallKinds
  <2>2. QED
    BY <2>1
<1>5. ASSUME call[t].at \in {"add path", "create"}
      PROVE  call[t].manager \in 1..lastManager
  <2>1. call[t] \in [at : {"add path", "create"}, manager : 1..lastManager]
    BY <1>1, <1>5, CallKinds
  <2>2. QED
    BY <2>1
<1>6. ASSUME call[t].at \in {"boot update", "trim"}
      PROVE  /\ call[t].manager \in 1..lastManager
             /\ call[t].context \in 1..lastContext
  <2>1. call[t] \in [at : {"boot update", "trim"}, manager : 1..lastManager,
                     context : 1..lastContext]
    BY <1>1, <1>6, CallKinds
  <2>2. QED
    BY <2>1
<1>7. ASSUME call[t].at = "update"
      PROVE  call[t].context \in 1..lastContext
  <2>1. call[t] \in [at : {"update"}, context : 1..lastContext]
    BY <1>1, <1>7, CallKinds
  <2>2. QED
    BY <2>1
<1>8. ASSUME call[t].at = "delete"
      PROVE  call[t].id \in 1..lastId
  <2>1. call[t] \in [at : {"delete"}, id : 1..lastId]
    BY <1>1, <1>8, CallKinds
  <2>2. QED
    BY <2>1
<1>9. \A n \in 1..lastId : n \in Nat
  OBVIOUS
<1>10. QED
  BY <1>2, <1>3, <1>4, <1>5, <1>6, <1>7, <1>8, <1>9

(* The calls of MsixDynamicDependency.cpp keep these types.                *)
LEMMA DependencyCallsKeepPath ==
  ASSUME CallInv, BoundInv, ListInv, ListInv', PathInv, NEW t \in Threads,
         DependencyCall(t), UNCHANGED bootVars
  PROVE  PathInv'
<1> USE DEF depVars, libVars, graphVars, listVars, ids, appVars, historyVars,
            bootVars, initVars, managerVars, flags
<1>1. seen' = seen /\ graph' \in Seq(Nodes)
  BY DEF ListInv
<1>2. ahead' = ahead
  OBVIOUS
<1>3. ASSUME usable' = usable, path' \in Seq(Dirs), added' \in Seq(Packages),
             generation' \in Nat, others' = others, torn' \in BOOLEAN,
             read' \in Seq(Dirs), behind' \in BOOLEAN,
             graphLock' \in Threads \union {NoThread}, moved' \subseteq Threads
      PROVE  PathInv'
  BY <1>1, <1>2, <1>3 DEF PathInv
<1>4. /\ graphLock \in Threads \union {NoThread} /\ moved \subseteq Threads
      /\ path \in Seq(Dirs) /\ added \in Seq(Packages) /\ generation \in Nat
      /\ torn \in BOOLEAN /\ read \in Seq(Dirs) /\ behind \in BOOLEAN
  BY DEF PathInv
<1>5. ASSUME NEW c \in Criteria \ {FrameworkCriteria}, TryCreate(t, c)
      PROVE  PathInv'
  BY <1>2, <1>5, PathStays DEF TryCreate, pathVars
<1>6. CASE WriteFile(t)
  BY <1>2, <1>6, PathStays DEF WriteFile, pathVars
<1>7. CASE WriteFails(t)
  BY <1>2, <1>7, PathStays DEF WriteFails, pathVars
<1>8. CASE CreateReturns(t)
  <2>1. /\ usable' = usable /\ path' = path /\ added' = added
        /\ generation' = generation /\ others' = others
        /\ graphLock' = graphLock /\ moved' = Resolving
    BY <1>8 DEF CreateReturns, PushBack
  <2>2. torn' = torn /\ behind' = behind /\ read' = read
    BY <1>8 DEF CreateReturns
  <2>3. QED
    BY <1>3, <1>4, <2>1, <2>2, ResolvingAreThreads
<1>9. ASSUME NEW id \in Ids, DeletePackageDependency(t, id)
      PROVE  PathInv'
  <2>1. /\ usable' = usable /\ path' = path /\ added' = added
        /\ generation' = generation /\ others' = others
        /\ graphLock' = graphLock /\ moved' \in {moved, Resolving}
    BY <1>9 DEF DeletePackageDependency
  <2>2. torn' = torn /\ behind' = behind /\ read' = read
    BY <1>9 DEF DeletePackageDependency
  <2>3. QED
    BY <1>3, <1>4, <2>1, <2>2, ResolvingAreThreads
<1>10. ASSUME NEW id \in Ids, NEW rank \in Ranks, NEW prepend \in BOOLEAN,
              AddPackageDependency(t, id, rank, prepend)
       PROVE  PathInv'
  <2>1. /\ usable' = usable /\ path' = path /\ added' = added
        /\ generation' = generation /\ others' = others
    BY <1>10 DEF AddPackageDependency
  <2>2. torn' = torn /\ behind' = behind /\ read' = read
    BY <1>10 DEF AddPackageDependency
  <2>3. PICK to : Lookup(t, id, to)
    BY <1>10 DEF AddPackageDependency
  <2>4. graphLock' \in Threads \union {NoThread} /\ moved' \subseteq Threads
    BY <2>3, LookupTypes
  <2>5. QED
    BY <1>3, <1>4, <2>1, <2>2, <2>4
<1>11. CASE Resolve(t)
  <2>1. CASE \E p \in Packages : Resolves(t, call[t].rank, call[t].prepend, p)
    <3>1. PICK p \in Packages : Resolves(t, call[t].rank, call[t].prepend, p)
      BY <2>1
    <3>2. AddNode(call[t].id, p, call[t].rank, call[t].prepend)
      BY <3>1 DEF Resolves
    <3>3. /\ usable' = usable /\ others' = others /\ moved' = moved
          /\ graphLock' = graphLock
      BY <3>1 DEF Resolves
    <3>4. torn' = torn
      BY <3>1 DEF Resolves
    <3>5. /\ path' = path /\ read' = path /\ added' = added
          /\ generation' = generation
      BY <3>2 DEF AddNode
    <3>6. behind' = behind
      BY <3>2 DEF AddNode
    <3>7. QED
      BY <1>3, <1>4, <3>3, <3>4, <3>5, <3>6
  <2>2. CASE NotFound(t)
    <3>1. /\ usable' = usable /\ others' = others /\ moved' = moved
          /\ graphLock' = NoThread /\ path' = path /\ added' = added
          /\ generation' = generation
      BY <2>2 DEF NotFound
    <3>2. torn' = torn /\ behind' = behind /\ read' = read
      BY <2>2 DEF NotFound
    <3>3. QED
      BY <1>3, <1>4, <3>1, <3>2
  <2>3. QED
    BY <1>11, <2>1, <2>2 DEF Resolve
<1>12. CASE AddReturns(t)
  <2>1. PICK ok \in BOOLEAN : Updated(ok)
    BY <1>12 DEF AddReturns, Added, Updated
  <2>2. seen' \in Seq(Dirs) /\ ahead' \in BOOLEAN
    BY <1>1, <1>2 DEF PathInv
  <2>3. QED
    BY <2>1, <2>2, UpdatedKeepsPath
<1>15. CASE RemoveReturns(t)
  <2>1. PICK ok \in BOOLEAN : Updated(ok)
    BY <1>15 DEF RemoveReturns, Updated
  <2>2. seen' \in Seq(Dirs) /\ ahead' \in BOOLEAN
    BY <1>1, <1>2 DEF PathInv
  <2>3. QED
    BY <2>1, <2>2, UpdatedKeepsPath
<1>16. ASSUME NEW x \in held, RemovePackageDependency(t, x)
       PROVE  PathInv'
  <2>1. RemoveNode(x)
    BY <1>16 DEF RemovePackageDependency
  <2>2. /\ path' = path /\ read' = path /\ added' = added
        /\ generation' = generation
    BY <2>1 DEF RemoveNode
  <2>3. /\ usable' = usable /\ others' = others /\ moved' = moved
        /\ graphLock' = t
    BY <1>16 DEF RemovePackageDependency
  <2>4. torn' = torn
    BY <1>16 DEF RemovePackageDependency
  <2>5. behind' = behind
    BY <2>1 DEF RemoveNode
  <2>6. QED
    BY <1>3, <1>4, <2>2, <2>3, <2>4, <2>5
<1>17. CASE DeleteReturns(t)
  <2>1. torn' = torn /\ ahead' = ahead
    BY <1>17 DEF DeleteReturns
  <2>2. QED
    BY <1>17, <2>1, PathStays DEF DeleteReturns, pathVars
<1>13. ASSUME NEW i \in DOMAIN path, AppDrops(t, i)
       PROVE  PathInv'
  <2>1. /\ usable' = usable /\ added' = added /\ generation' = generation
        /\ others' = others /\ graphLock' = graphLock /\ moved' = moved
        /\ path' = RemoveAt(path, i)
    BY <1>13 DEF AppDrops
  <2>2. i \in 1..Len(path)
    BY <1>4
  <2>3. RemoveAt(path, i) \in Seq(Dirs)
    BY <1>4, <2>2, RemoveAtElements
  <2>4. torn' = TRUE /\ behind' = behind /\ read' = read
    BY <1>13 DEF AppDrops
  <2>5. QED
    BY <1>3, <1>4, <2>1, <2>3, <2>4
<1>14. QED
  BY <1>5, <1>6, <1>7, <1>8, <1>9, <1>10, <1>11, <1>12, <1>13, <1>15, <1>16,
     <1>17 DEF DependencyCall

(* A new process has the PATH processes start with.                        *)
LEMMA RestartKeepsPath ==
  ASSUME PathInv, ProcessRestarts
  PROVE  PathInv'
<1>1. /\ usable' = usable /\ path' = FirstPath /\ added' = <<>>
      /\ generation' = 0 /\ others' = FirstPath /\ seen' = <<>>
      /\ graphLock' = NoThread /\ moved' = {}
  BY DEF ProcessRestarts, Restarts, GraphRestarts
<1>2. /\ torn' = FALSE /\ ahead' = FALSE
      /\ behind' = FALSE /\ read' = <<>>
  BY DEF ProcessRestarts, Restarts, GraphRestarts
<1>3. FirstPath \in Seq(AppDirs) /\ FirstPath \in Seq(Dirs)
  BY CatalogAssumption DEF Dirs
<1>4. <<>> \in Seq(Packages) /\ <<>> \in Seq(Dirs)
  OBVIOUS
<1>5. QED
  BY <1>1, <1>2, <1>3, <1>4 DEF PathInv

(* The calls of MddBootstrap.cpp keep them too.                            *)
LEMMA BootstrapCallsKeepPath ==
  ASSUME CallInv, BoundInv, ListInv, ListInv', PathInv, NEW t \in Threads,
         BootstrapCall(t)
  PROVE  PathInv'
<1> USE DEF depVars, libVars, graphVars, listVars, ids, appVars, historyVars,
            bootVars, initVars, managerVars, flags
<1>1. graph' \in Seq(Nodes)
  BY DEF ListInv
<1>2. /\ graphLock \in Threads \union {NoThread} /\ moved \subseteq Threads
      /\ path \in Seq(Dirs) /\ added \in Seq(Packages) /\ generation \in Nat
      /\ seen \in Seq(Dirs) /\ torn \in BOOLEAN /\ ahead \in BOOLEAN
      /\ others \in Seq(AppDirs) /\ usable \subseteq Packages
      /\ read \in Seq(Dirs) /\ behind \in BOOLEAN
  BY DEF PathInv
<1>3. CASE BeginInitialize(t)
  <2>1. ahead' = ahead
    BY <1>3 DEF BeginInitialize
  <2>2. QED
    BY <1>3, <2>1, PathStays DEF BeginInitialize, pathVars
<1>4. CASE FailsFast(t)
  BY <1>4, RestartKeepsPath DEF FailsFast
<1>5. CASE CreateLifetimeManager(t)
  <2>1. /\ usable' = usable /\ path' = path /\ added' = added
        /\ generation' = generation /\ others' = others
        /\ graphLock' = graphLock /\ moved' = moved /\ seen' = path
    BY <1>5 DEF CreateLifetimeManager
  <2>2. /\ torn' = torn /\ ahead' = ahead
        /\ behind' = behind /\ read' = read
    BY <1>5 DEF CreateLifetimeManager
  <2>3. QED
    BY <1>2, <2>1, <2>2 DEF PathInv
<1>6. CASE NoManager(t)
  <2>1. ahead' = ahead /\ torn' = torn
    BY <1>6 DEF NoManager
  <2>2. QED
    BY <1>6, <2>1, PathStays DEF NoManager, pathVars
<1>7. CASE AddFrameworkToPath(t)
  <2>1. ahead' = ahead /\ seen' = seen
    BY <1>7 DEF AddFrameworkToPath, InitializationFails
  <2>2. CASE WritePath(<<Framework>> \o seen, FALSE)
    <3>1. <<Framework>> \o seen \in Seq(Dirs)
      <4>1. <<Framework>> \in Seq(Dirs)
        BY FrameworkAssumption DEF Dirs
      <4>2. QED
        BY <1>2, <4>1
    <3>2. /\ usable' = usable /\ path' \in Seq(Dirs) /\ added' = added
          /\ generation' = generation /\ others' = others
          /\ graphLock' = graphLock /\ moved' = moved
      BY <2>2, <3>1 DEF WritePath
    <3>3. torn' \in BOOLEAN /\ behind' = behind /\ read' = read
      BY <2>2 DEF WritePath
    <3>4. QED
      BY <1>2, <2>1, <3>2, <3>3 DEF PathInv
  <2>3. CASE UNCHANGED libVars
    BY <2>1, <2>3, PathStays DEF pathVars
  <2>4. QED
    BY <1>7, <2>2, <2>3 DEF AddFrameworkToPath
<1>8. CASE CreateFrameworkDependency(t)
  <2>1. /\ usable' = usable /\ path' = path /\ added' = added
        /\ generation' = generation /\ others' = others
        /\ graphLock' = graphLock /\ moved' \in {moved, Resolving}
        /\ seen' = seen
    BY <1>8 DEF CreateFrameworkDependency, PushBack
  <2>2. torn' = torn /\ behind' = behind /\ read' = read
    BY <1>8 DEF CreateFrameworkDependency
  <2>3. ahead' = ahead
    BY <1>8 DEF CreateFrameworkDependency, InitializationFails
  <2>4. QED
    BY <1>2, <2>1, <2>2, <2>3, ResolvingAreThreads DEF PathInv
<1>9. CASE LookupFramework(t)
  <2>1. /\ usable' = usable /\ path' = path /\ added' = added
        /\ generation' = generation /\ others' = others /\ seen' = seen
    BY <1>9 DEF LookupFramework
  <2>2. /\ torn' = torn /\ ahead' = ahead
        /\ behind' = behind /\ read' = read
    BY <1>9 DEF LookupFramework
  <2>3. PICK to : Lookup(t, call[t].id, to)
    BY <1>9 DEF LookupFramework
  <2>4. graphLock' \in Threads \union {NoThread} /\ moved' \subseteq Threads
    BY <2>3, LookupTypes
  <2>5. QED
    BY <1>2, <2>1, <2>2, <2>4 DEF PathInv
<1>10. CASE AddFramework(t)
  <2>1. ahead' = ahead /\ seen' = seen
    BY <1>10 DEF AddFramework, InitializationFails
  <2>2. CASE \E p \in Packages : Resolves(t, DefaultRank, FALSE, p)
    <3>1. PICK p \in Packages : Resolves(t, DefaultRank, FALSE, p)
      BY <2>2
    <3>2. AddNode(call[t].id, p, DefaultRank, FALSE)
      BY <3>1 DEF Resolves
    <3>3. /\ usable' = usable /\ others' = others /\ moved' = moved
          /\ graphLock' = graphLock
      BY <3>1 DEF Resolves
    <3>4. torn' = torn
      BY <3>1 DEF Resolves
    <3>5. /\ path' = path /\ read' = path /\ added' = added
          /\ generation' = generation
      BY <3>2 DEF AddNode
    <3>6. behind' = behind
      BY <3>2 DEF AddNode
    <3>7. QED
      BY <1>2, <2>1, <3>3, <3>4, <3>5, <3>6 DEF PathInv
  <2>3. CASE NotFound(t)
    <3>1. /\ usable' = usable /\ others' = others /\ moved' = moved
          /\ graphLock' = NoThread /\ path' = path /\ added' = added
          /\ generation' = generation
      BY <2>3 DEF NotFound
    <3>2. torn' = torn /\ behind' = behind /\ read' = read
      BY <2>3 DEF NotFound
    <3>3. QED
      BY <1>2, <2>1, <3>1, <3>2 DEF PathInv
  <2>4. QED
    BY <1>10, <2>2, <2>3 DEF AddFramework
<1>15. CASE AddFrameworkReturns(t)
  <2>1. PICK ok \in BOOLEAN : Updated(ok)
    BY <1>15 DEF AddFrameworkReturns, Added, Updated
  <2>2. path' \in Seq(Dirs)
    BY <2>1, UpdatedTypes
  <2>3. seen' = path'
    BY <1>15 DEF AddFrameworkReturns
  <2>4. ahead' = ahead
    BY <1>15 DEF AddFrameworkReturns, InitializationFails
  <2>5. QED
    BY <1>2, <2>1, <2>2, <2>3, <2>4, UpdatedKeepsPath
<1>11. CASE RemoveFrameworkFromPath(t)
  <2>1. seen' = seen
    BY <1>11 DEF RemoveFrameworkFromPath
  <2>2. CASE /\ StartsWithFramework /\ WritePath(Tail(seen), Len(added) > 1)
             /\ ahead' = ahead
    <3>1. Tail(seen) \in Seq(Dirs)
      BY <1>2, <2>2 DEF StartsWithFramework
    <3>2. /\ usable' = usable /\ path' \in Seq(Dirs) /\ added' = added
          /\ generation' = generation /\ others' = others
          /\ graphLock' = graphLock /\ moved' = moved
      BY <2>2, <3>1 DEF WritePath
    <3>3. torn' \in BOOLEAN /\ behind' = behind /\ read' = read
      BY <2>2 DEF WritePath
    <3>4. QED
      BY <1>2, <2>1, <2>2, <3>2, <3>3 DEF PathInv
  <2>3. CASE ahead' = TRUE /\ UNCHANGED libVars
    <3>1. /\ usable' = usable /\ path' = path /\ added' = added
          /\ generation' = generation /\ others' = others
          /\ graphLock' = graphLock /\ moved' = moved
      BY <2>3
    <3>2. torn' = torn /\ behind' = behind /\ read' = read
      BY <2>3
    <3>3. QED
      BY <1>2, <2>1, <2>3, <3>1, <3>2 DEF PathInv
  <2>4. QED
    BY <1>11, <2>2, <2>3 DEF RemoveFrameworkFromPath
<1>12. CASE IncrementCount(t)
  <2>1. ahead' = ahead /\ torn' = torn
    BY <1>12 DEF IncrementCount
  <2>2. QED
    BY <1>12, <2>1, PathStays DEF IncrementCount, pathVars
<1>13. CASE Shutdown(t)
  <2>1. torn' = torn /\ ahead' = ahead
    BY <1>13 DEF Shutdown, BeginShutdown
  <2>2. QED
    BY <1>13, <2>1, PathStays DEF Shutdown, BeginShutdown, pathVars
<1>16. CASE ShutdownLast(t)
  <2>1. RemoveNode(boot.context)
    BY <1>16 DEF ShutdownLast
  <2>2. /\ path' = path /\ read' = path /\ added' = added
        /\ generation' = generation
    BY <2>1 DEF RemoveNode
  <2>3. /\ usable' = usable /\ others' = others /\ moved' = moved
        /\ graphLock' = t /\ seen' = seen
    BY <1>16 DEF ShutdownLast, BeginShutdown
  <2>4. torn' = torn /\ ahead' = ahead
    BY <1>16 DEF ShutdownLast, BeginShutdown
  <2>5. behind' = behind
    BY <2>1 DEF RemoveNode
  <2>6. QED
    BY <1>2, <2>2, <2>3, <2>4, <2>5 DEF PathInv
<1>17. CASE ShutdownReturns(t)
  <2>1. PICK ok \in BOOLEAN : Updated(ok)
    BY <1>17 DEF ShutdownReturns, Updated
  <2>2. seen' = seen
    BY <1>17 DEF ShutdownReturns
  <2>3. ahead' = ahead
    BY <1>17 DEF ShutdownReturns
  <2>4. QED
    BY <1>2, <2>1, <2>2, <2>3, UpdatedKeepsPath
<1>14. QED
  BY <1>3, <1>4, <1>5, <1>6, <1>7, <1>8, <1>9, <1>10, <1>11, <1>12, <1>13,
     <1>15, <1>16, <1>17 DEF BootstrapCall

-----------------------------------------------------------------------------
(* Whose the packages in the graph are: the app's, nobody's, those of the  *)
(* initialization that is done, and of the calls that bring them.  No      *)
(* context is in two of these sets, so that a Remove takes it from all of  *)
(* the graph.                                                              *)
Carriers     == {"update", "boot update", "trim"}
Adders       == {"update", "boot update"}
Carried(S)   == {call[t].context : t \in At(S)}
OneEach      == \A t, u \in At(Carriers) :
                  call[t].context = call[u].context => t = u
ShuttingDown == At({"shut down"}) # {}

OwnersFit(C, h, l, b, K) ==
  /\ C = h \union l \union ({b} \ {0}) \union K
  /\ h \cap l = {} /\ b \notin (h \union l \union K) /\ K \cap (h \union l) = {}

BootFits ==
  /\ ShuttingDown => boot.context = 0 /\ boot.manager # 0
  /\ ~ShuttingDown => /\ boot.context = 0 => boot = NotBooted
                      /\ bootLock # NoThread => boot = NotBooted

ContextInv ==
  /\ held \subseteq 1..lastContext /\ leaked \subseteq 1..lastContext
  /\ boot.context \in 0..lastContext /\ BootFits
  /\ OwnersFit(Contexts, held, leaked, boot.context, Carried(Carriers))
  /\ OneEach
  /\ dirs = Contexts \ (leaked \union Carried(Adders))

(* The list and whose its packages are                                     *)
GraphState == ListInv /\ ContextInv

(* A thread goes on: what the calls carry then.                            *)
LEMMA CarriedMoves ==
  ASSUME CallInv, OneEach, NEW t \in Threads, NEW to, Goes(t, to),
         NEW S \in SUBSET Carriers
  PROVE  /\ call[t].at \notin S /\ to.at \notin S => Carried(S)' = Carried(S)
         /\ call[t].at \notin S /\ to.at \in S =>
              Carried(S)' = Carried(S) \union {to.context}
         /\ call[t].at \in S /\ to.at \in S /\ to.context = call[t].context =>
              Carried(S)' = Carried(S)
         /\ call[t].at \in S /\ to.at \notin S =>
              Carried(S)' = Carried(S) \ {call[t].context}
<1>1. /\ call'[t] = to /\ \A u \in Threads \ {t} : call'[u] = call[u]
  BY GoesOn
<1>2. /\ At(S)' \subseteq Threads /\ At(S) \subseteq Threads
      /\ \A u \in Threads \ {t} : u \in At(S)' <=> u \in At(S)
      /\ t \in At(S) <=> call[t].at \in S
      /\ t \in At(S)' <=> to.at \in S
  BY <1>1 DEF At
<1>3. \A u \in At(S), v \in At(S) : call[u].context = call[v].context => u = v
  BY DEF At, OneEach
<1>4. CASE call[t].at \notin S /\ to.at \notin S
  <2>1. At(S)' = At(S) /\ \A u \in At(S) : call'[u] = call[u]
    BY <1>1, <1>2, <1>4
  <2>2. QED
    BY <1>4, <2>1 DEF Carried
<1>5. CASE call[t].at \notin S /\ to.at \in S
  <2>1. At(S)' = At(S) \union {t} /\ \A u \in At(S) : call'[u] = call[u]
    BY <1>1, <1>2, <1>5
  <2>2. QED
    BY <1>1, <1>5, <2>1 DEF Carried
<1>6. CASE call[t].at \in S /\ to.at \in S
  <2>1. /\ At(S)' = At(S)
        /\ \A u \in At(S) : u # t => call'[u] = call[u]
    BY <1>1, <1>2, <1>6
  <2>2. to.context = call[t].context =>
          \A u \in At(S) : call'[u].context = call[u].context
    BY <1>1, <2>1
  <2>3. QED
    BY <1>6, <2>1, <2>2 DEF Carried
<1>7. CASE call[t].at \in S /\ to.at \notin S
  <2>1. /\ At(S)' = At(S) \ {t} /\ t \in At(S)
        /\ \A u \in At(S) \ {t} : call'[u] = call[u]
    BY <1>1, <1>2, <1>7
  <2>2. \A u \in At(S) \ {t} : call[u].context # call[t].context
    BY <1>3, <2>1
  <2>3. QED
    BY <1>7, <2>1, <2>2 DEF Carried
<1>8. QED
  BY <1>4, <1>5, <1>6, <1>7

(* No two calls carry the same context.                                    *)
LEMMA OneEachMoves ==
  ASSUME CallInv, OneEach, NEW t \in Threads, NEW to, Goes(t, to),
         \/ to.at \notin Carriers
         \/ call[t].at \in Carriers /\ to.context = call[t].context
         \/ to.context \notin Carried(Carriers)
  PROVE  OneEach'
<1>1. /\ call'[t] = to /\ \A u \in Threads \ {t} : call'[u] = call[u]
  BY GoesOn
<1>2. ASSUME NEW u \in At(Carriers)', NEW v \in At(Carriers)',
             call'[u].context = call'[v].context
      PROVE  u = v
  <2>1. /\ u \in Threads /\ v \in Threads
        /\ call'[u].at \in Carriers /\ call'[v].at \in Carriers
    BY DEF At
  <2>2. CASE u # t /\ v # t
    BY <1>1, <1>2, <2>1, <2>2 DEF OneEach, At
  <2>3. ASSUME NEW w \in Threads \ {t}, call'[w].at \in Carriers,
               to.at \in Carriers
        PROVE  call[w].context # to.context
    <3>1. w \in At(Carriers) /\ call[w].context \in Carried(Carriers)
      BY <1>1, <2>3 DEF At, Carried
    <3>2. call[t].at \in Carriers => call[w].context # call[t].context
      BY <3>1, <2>3 DEF At, OneEach
    <3>3. QED
      BY <2>3, <3>1, <3>2
  <2>4. CASE u = t /\ v # t
    BY <1>1, <1>2, <2>1, <2>3, <2>4
  <2>5. CASE u # t /\ v = t
    BY <1>1, <1>2, <2>1, <2>3, <2>5
  <2>6. QED
    BY <2>2, <2>4, <2>5
<1>3. QED
  BY <1>2 DEF OneEach

(* A thread begins or ends the last Shutdown.                              *)
LEMMA ShuttingMoves ==
  ASSUME CallInv, NEW t \in Threads, NEW to, Goes(t, to)
  PROVE  /\ call[t].at # "shut down" /\ to.at # "shut down" =>
              (ShuttingDown' <=> ShuttingDown)
         /\ to.at = "shut down" => ShuttingDown'
         /\ call[t].at = "shut down" /\ to.at # "shut down" => ~ShuttingDown'
<1>1. /\ call'[t] = to /\ \A u \in Threads \ {t} : call'[u] = call[u]
  BY GoesOn
<1>2. CASE call[t].at # "shut down" /\ to.at # "shut down"
  <2>1. At({"shut down"})' = At({"shut down"})
    BY <1>1, <1>2 DEF At
  <2>2. QED
    BY <1>2, <2>1 DEF ShuttingDown
<1>3. CASE to.at = "shut down"
  <2>1. t \in At({"shut down"})'
    BY <1>1, <1>3 DEF At
  <2>2. QED
    BY <1>3, <2>1 DEF ShuttingDown
<1>4. CASE call[t].at = "shut down" /\ to.at # "shut down"
  <2>1. \A u \in Threads \ {t} : call[u].at # "shut down"
    BY <1>4, OneInside DEF LockPlaces
  <2>2. At({"shut down"})' = {}
    BY <1>1, <1>4, <2>1 DEF At
  <2>3. QED
    BY <1>4, <2>2 DEF ShuttingDown
<1>5. QED
  BY <1>2, <1>3, <1>4

(* Only who holds the lock of the initialization is in the last Shutdown.  *)
LEMMA ShuttingIsInside ==
  ASSUME CallInv
  PROVE  /\ bootLock = NoThread => ~ShuttingDown
         /\ \A t \in Threads : call[t].at \in LockPlaces /\ ShuttingDown =>
              call[t].at = "shut down"
<1>1. ASSUME ShuttingDown
      PROVE  \E u \in Threads : call[u].at = "shut down"
  BY <1>1 DEF ShuttingDown, At
<1>2. "shut down" \in LockPlaces
  BY DEF LockPlaces
<1>3. QED
  BY <1>1, <1>2, NobodyInside, OneInside

(* What the calls carry, and who does                                      *)
SameCalls ==
  /\ Carried(Carriers)' = Carried(Carriers)
  /\ Carried(Adders)' = Carried(Adders)
  /\ OneEach'
  /\ ShuttingDown' <=> ShuttingDown

(* No thread goes on.                                                      *)
LEMMA SameCallsStay ==
  ASSUME GraphState, call' = call
  PROVE  SameCalls
BY DEF GraphState, ContextInv, SameCalls, Carried, OneEach, ShuttingDown, At,
       Carriers, Adders

(* A thread goes on, and carries nothing.                                  *)
LEMMA SameCallsGoOn ==
  ASSUME CallInv, GraphState, NEW t \in Threads, NEW to, Goes(t, to),
         call[t].at \notin Carriers \union {"shut down"},
         to.at \notin Carriers \union {"shut down"}
  PROVE  SameCalls
<1>1. OneEach /\ call[t].at \notin Adders /\ to.at \notin Adders
  BY DEF GraphState, ContextInv, Carriers, Adders
<1>2. Carriers \in SUBSET Carriers /\ Adders \in SUBSET Carriers
  BY DEF Carriers, Adders
<1>3. /\ Carried(Carriers)' = Carried(Carriers)
      /\ Carried(Adders)' = Carried(Adders)
  BY <1>1, <1>2, CarriedMoves
<1>4. OneEach' /\ (ShuttingDown' <=> ShuttingDown)
  BY <1>1, OneEachMoves, ShuttingMoves
<1>5. QED
  BY <1>3, <1>4 DEF SameCalls

(* What the globals of the initialization say stays right.                 *)
LEMMA BootFitsStays ==
  ASSUME BootFits, boot' = boot, ShuttingDown' <=> ShuttingDown,
         bootLock' = bootLock \/ bootLock' = NoThread \/ boot = NotBooted
  PROVE  BootFits'
<1>1. NotBooted' = NotBooted
  BY DEF NotBooted
<1>2. QED
  BY <1>1 DEF BootFits

(* A step that gives out no context and takes none back                    *)
LEMMA GraphStays ==
  ASSUME GraphState, UNCHANGED <<graph, winrt, dirs, lastContext>>,
         UNCHANGED <<held, leaked, boot>>, SameCalls,
         bootLock' = bootLock \/ bootLock' = NoThread \/ boot = NotBooted
  PROVE  GraphState'
<1>1. ListInv /\ graph' = graph /\ winrt' = winrt /\ lastContext' = lastContext
  BY DEF GraphState
<1>2. ListInv' /\ Contexts' = Contexts
  BY <1>1, ListStays
<1>3. ContextInv /\ BootFits
  BY DEF GraphState, ContextInv
<1>4. BootFits'
  BY <1>3, BootFitsStays DEF SameCalls
<1>5. /\ held' = held /\ leaked' = leaked /\ dirs' = dirs /\ boot' = boot
      /\ Carried(Carriers)' = Carried(Carriers)
      /\ Carried(Adders)' = Carried(Adders) /\ OneEach'
  BY DEF SameCalls
<1>6. ContextInv'
  BY <1>1, <1>2, <1>3, <1>4, <1>5 DEF ContextInv, OwnersFit
<1>7. QED
  BY <1>2, <1>6 DEF GraphState

(* The parts of ContextInv after a step                                    *)
LEMMA GraphFits ==
  ASSUME ListInv', held' \subseteq 1..lastContext',
         leaked' \subseteq 1..lastContext', boot'.context \in 0..lastContext',
         BootFits', OneEach',
         OwnersFit(Contexts', held', leaked', boot'.context,
                   Carried(Carriers)'),
         dirs' = Contexts' \ (leaked' \union Carried(Adders)')
  PROVE  GraphState'
BY DEF GraphState, ContextInv, OwnersFit

(* A context is given out to a call.                                       *)
LEMMA ContextComes ==
  ASSUME CallInv, GraphState, NEW t \in Threads, NEW to, Goes(t, to),
         call[t].at \notin Carriers \union {"shut down"},
         to.at \in Adders, to.context = lastContext',
         ListInv', lastContext' = lastContext + 1,
         Contexts' = Contexts \union {lastContext'}, dirs' = dirs,
         held' = held, leaked' = leaked, boot' = boot, bootLock' = bootLock
  PROVE  GraphState'
<1>1. /\ ContextInv /\ OneEach /\ BootFits /\ lastContext \in Nat
      /\ Contexts \subseteq 1..lastContext
      /\ OwnersFit(Contexts, held, leaked, boot.context, Carried(Carriers))
  BY DEF GraphState, ContextInv, ListInv
<1>2. /\ 1..lastContext \subseteq 1..lastContext'
      /\ 0..lastContext \subseteq 0..lastContext'
      /\ lastContext' # 0 /\ lastContext' \notin 1..lastContext
      /\ lastContext' \notin 0..lastContext
  <2>1. lastContext \in Nat /\ lastContext' = lastContext + 1
    BY <1>1
  <2> QED
    BY ONLY <2>1
<1>3. /\ Adders \in SUBSET Carriers /\ Carriers \in SUBSET Carriers
      /\ to.at \in Carriers /\ to.at # "shut down"
      /\ call[t].at \notin Adders
  BY DEF Adders, Carriers
<1>4. /\ Carried(Carriers)' = Carried(Carriers) \union {lastContext'}
      /\ Carried(Adders)' = Carried(Adders) \union {lastContext'}
  <2>1. call[t].at \notin Carriers
    OBVIOUS
  <2>2. Carried(Carriers)' = Carried(Carriers) \union {to.context}
    BY <1>1, <1>3, <2>1, CarriedMoves
  <2>3. Carried(Adders)' = Carried(Adders) \union {to.context}
    BY <1>1, <1>3, CarriedMoves
  <2>4. QED
    BY <2>2, <2>3
<1>5. /\ lastContext' \notin Contexts /\ lastContext' \notin held
      /\ lastContext' \notin leaked /\ lastContext' # boot.context
      /\ lastContext' \notin Carried(Carriers)
  BY <1>1, <1>2 DEF ContextInv, OwnersFit
<1>6. OneEach' /\ BootFits'
  BY <1>1, <1>3, <1>5, OneEachMoves, ShuttingMoves, BootFitsStays
<1>7. OwnersFit(Contexts', held', leaked', boot'.context, Carried(Carriers)')
  BY <1>1, <1>2, <1>4, <1>5 DEF OwnersFit
<1>8. dirs' = Contexts' \ (leaked' \union Carried(Adders)')
  BY <1>1, <1>4, <1>5 DEF ContextInv
<1>9. /\ held' \subseteq 1..lastContext' /\ leaked' \subseteq 1..lastContext'
      /\ boot'.context \in 0..lastContext'
  BY <1>1, <1>2 DEF ContextInv
<1>10. QED
  BY <1>6, <1>7, <1>8, <1>9, GraphFits

(* A context goes from a call to the app, or to nobody.                    *)
LEMMA OwnerMoves ==
  ASSUME NEW C, NEW h, NEW l, NEW b, NEW K, NEW c \in K,
         OwnersFit(C, h, l, b, K)
  PROVE  /\ OwnersFit(C, h \union {c}, l, b, K \ {c})
         /\ OwnersFit(C, h, l \union {c}, b, K \ {c})
<1>1. OwnersFit(C, h \union {c}, l, b, K \ {c})
  BY DEF OwnersFit
<1>2. OwnersFit(C, h, l \union {c}, b, K \ {c})
  BY DEF OwnersFit
<1>3. QED
  BY <1>1, <1>2

(* The call that brought a context ends: the app or the initialization     *)
(* has it, with its DLL directory, or nobody has.                          *)
LEMMA ContextArrives ==
  ASSUME CallInv, GraphState, NEW t \in Threads, NEW to, Goes(t, to),
         call[t].at \in Adders, to.at \notin Adders \union {"shut down"},
         ListInv', lastContext' = lastContext, Contexts' = Contexts,
         boot' = boot, bootLock' = bootLock \/ bootLock' = NoThread,
         \/ /\ held' = held \union {call[t].context} /\ leaked' = leaked
            /\ to.at # "trim" /\ dirs' = dirs \union {call[t].context}
         \/ /\ held' = held /\ leaked' = leaked \union {call[t].context}
            /\ to.at # "trim" /\ dirs' = dirs
         \/ /\ held' = held /\ leaked' = leaked
            /\ to.at = "trim" /\ to.context = call[t].context
            /\ dirs' = dirs \union {call[t].context}
  PROVE  GraphState'
<1> DEFINE c == call[t].context
<1>1. /\ ContextInv /\ OneEach /\ BootFits /\ lastContext \in Nat
      /\ Contexts \subseteq 1..lastContext
      /\ OwnersFit(Contexts, held, leaked, boot.context, Carried(Carriers))
      /\ dirs = Contexts \ (leaked \union Carried(Adders))
  BY DEF GraphState, ContextInv, ListInv
<1>2. /\ Adders \in SUBSET Carriers /\ Carriers \in SUBSET Carriers
      /\ call[t].at \in Carriers /\ call[t].at # "shut down"
      /\ to.at # "shut down"
      /\ to.at \in Carriers <=> to.at = "trim"
  BY DEF Adders, Carriers
<1>3. c \in Carried(Carriers) /\ c \in Carried(Adders)
  BY <1>2 DEF Carried, At
<1>4. Carried(Adders)' = Carried(Adders) \ {c}
  BY <1>1, <1>2, CarriedMoves
<1>5. BootFits'
  BY <1>1, <1>2, ShuttingMoves, BootFitsStays
<1>6. Carried(Adders) \subseteq Carried(Carriers)
  BY DEF Carried, Adders, Carriers, At
<1>7. OneEach'
  BY <1>1, <1>2, OneEachMoves
<1>8. CASE to.at = "trim"
  <2>1. to.context = c /\ held' = held /\ leaked' = leaked
        /\ dirs' = dirs \union {c}
    BY <1>8
  <2>2. Carried(Carriers)' = Carried(Carriers)
    BY <1>1, <1>2, <1>8, <2>1, CarriedMoves
  <2> HIDE DEF c
  <2>3. c \in Contexts /\ c \notin leaked
    BY <1>1, <1>3 DEF OwnersFit
  <2>4. dirs' = Contexts' \ (leaked' \union Carried(Adders)')
    BY <1>1, <1>3, <1>4, <2>1, <2>3
  <2>5. OwnersFit(Contexts', held', leaked', boot'.context, Carried(Carriers)')
    BY <1>1, <2>1, <2>2 DEF OwnersFit
  <2>6. /\ held' \subseteq 1..lastContext' /\ leaked' \subseteq 1..lastContext'
        /\ boot'.context \in 0..lastContext'
    BY <1>1, <2>1 DEF ContextInv
  <2>7. QED
    BY <1>5, <1>7, <2>4, <2>5, <2>6, GraphFits
<1>9. CASE to.at # "trim"
  <2>1. Carried(Carriers)' = Carried(Carriers) \ {c}
    BY <1>1, <1>2, <1>9, CarriedMoves
  <2>2. \/ /\ held' = held \union {c} /\ leaked' = leaked
           /\ dirs' = dirs \union {c}
        \/ /\ held' = held /\ leaked' = leaked \union {c} /\ dirs' = dirs
    BY <1>9
  <2> HIDE DEF c
  <2>3. /\ c \in Contexts /\ c \notin leaked /\ c \notin held
        /\ c # boot.context /\ c \in 1..lastContext /\ c # 0
    <3>1. c \in Contexts /\ c \notin leaked /\ c \notin held
      BY <1>1, <1>3 DEF OwnersFit
    <3>2. c # boot.context
      BY <1>1, <1>3 DEF OwnersFit
    <3>3. c \in 1..lastContext
      BY <1>1, <3>1
    <3>4. c # 0
      <4>1. lastContext \in Nat
        BY <1>1
      <4>2. QED
        BY ONLY <3>3, <4>1
    <3>5. QED
      BY <3>1, <3>2, <3>3, <3>4
  <2>4. dirs' = Contexts' \ (leaked' \union Carried(Adders)')
    BY <1>1, <1>3, <1>4, <2>2, <2>3
  <2>5. OwnersFit(Contexts', held', leaked', boot'.context, Carried(Carriers)')
    <3>1. /\ Contexts' = Contexts /\ boot'.context = boot.context
          /\ c \in Carried(Carriers)
          /\ OwnersFit(Contexts, held, leaked, boot.context,
                       Carried(Carriers))
      BY <1>1, <1>3
    <3>2. /\ OwnersFit(Contexts, held \union {c}, leaked, boot.context,
                       Carried(Carriers) \ {c})
          /\ OwnersFit(Contexts, held, leaked \union {c}, boot.context,
                       Carried(Carriers) \ {c})
      BY <3>1, OwnerMoves
    <3>3. QED
      BY <2>1, <2>2, <3>1, <3>2
  <2>6. /\ held' \subseteq 1..lastContext' /\ leaked' \subseteq 1..lastContext'
        /\ boot'.context \in 0..lastContext'
    BY <1>1, <2>2, <2>3 DEF ContextInv
  <2>7. QED
    BY <1>5, <1>7, <2>4, <2>5, <2>6, GraphFits
<1>10. QED
  BY <1>8, <1>9

(* A context is given back.                                                *)
LEMMA ContextReturned ==
  ASSUME CallInv, GraphState, NEW t \in Threads, NEW to, Goes(t, to),
         call[t] = Idle, to.at \notin Carriers,
         NEW c, RemoveNode(c), leaked' = leaked, BootFits',
         \/ held' = held \ {c} /\ boot' = boot /\ c \in held
         \/ held' = held /\ boot.context = c /\ boot'.context = 0
  PROVE  GraphState'
<1>1. /\ ContextInv /\ OneEach /\ lastContext \in Nat
      /\ Contexts \subseteq 1..lastContext
      /\ OwnersFit(Contexts, held, leaked, boot.context, Carried(Carriers))
      /\ dirs = Contexts \ (leaked \union Carried(Adders))
  BY DEF GraphState, ContextInv, ListInv
<1>2. /\ ListInv' /\ lastContext' = lastContext /\ c \in Contexts
      /\ Contexts' = Contexts \ {c}
  BY RemoveFromList DEF GraphState
<1>3. dirs' = dirs \ {c}
  BY DEF RemoveNode
<1>4. /\ Carriers \in SUBSET Carriers /\ Adders \in SUBSET Carriers
      /\ call[t].at \notin Carriers /\ call[t].at \notin Adders
      /\ to.at \notin Adders
  BY IdleCall DEF Carriers, Adders
<1>5. /\ Carried(Carriers)' = Carried(Carriers)
      /\ Carried(Adders)' = Carried(Adders) /\ OneEach'
  BY <1>1, <1>4, CarriedMoves, OneEachMoves
<1>6. c # 0
  BY <1>1, <1>2
<1>7. OwnersFit(Contexts', held', leaked', boot'.context, Carried(Carriers)')
  <2>1. CASE held' = held \ {c} /\ boot' = boot /\ c \in held
    BY <1>1, <1>2, <1>5, <2>1 DEF OwnersFit
  <2>2. CASE held' = held /\ boot.context = c /\ boot'.context = 0
    <3>1. 0 \notin Contexts
      BY <1>1
    <3>2. QED
      BY <1>1, <1>2, <1>5, <1>6, <2>2, <3>1 DEF OwnersFit
  <2>3. QED
    BY <2>1, <2>2
<1>8. dirs' = Contexts' \ (leaked' \union Carried(Adders)')
  BY <1>1, <1>2, <1>3, <1>5
<1>9. /\ held' \subseteq 1..lastContext' /\ leaked' \subseteq 1..lastContext'
      /\ boot'.context \in 0..lastContext'
  <2>1. /\ held \subseteq 1..lastContext /\ leaked \subseteq 1..lastContext
        /\ boot.context \in 0..lastContext /\ 0 \in 0..lastContext
    BY <1>1 DEF ContextInv
  <2>2. held' \subseteq held /\ boot'.context \in {boot.context, 0}
    OBVIOUS
  <2>3. QED
    BY <1>2, <2>1, <2>2
<1>10. QED
  BY <1>2, <1>5, <1>7, <1>8, <1>9, GraphFits

(* A new process has no package in its graph.                              *)
LEMMA GraphStartsAgain ==
  ASSUME graph' = <<>>, winrt' = <<>>, lastContext' = 0, dirs' = {},
         held' = {}, leaked' = {}, boot' = NotBooted,
         \A t \in Threads : call'[t] = Idle
  PROVE  GraphState'
<1>1. ListInv' /\ Contexts' = {}
  BY ListStartsAgain
<1>2. /\ At(Carriers)' = {} /\ At(Adders)' = {} /\ At({"shut down"})' = {}
  BY IdleCall DEF At, Carriers, Adders
<1>3. /\ Carried(Carriers)' = {} /\ Carried(Adders)' = {} /\ ~ShuttingDown'
  BY <1>2 DEF Carried, ShuttingDown
<1>4. OneEach'
  BY <1>2 DEF OneEach
<1>5. boot'.context = 0 /\ BootFits'
  BY <1>3 DEF BootFits, NotBooted
<1>6. /\ OwnersFit(Contexts', held', leaked', boot'.context,
                   Carried(Carriers)')
      /\ dirs' = Contexts' \ (leaked' \union Carried(Adders)')
  BY <1>1, <1>3, <1>5 DEF OwnersFit
<1>7. /\ held' \subseteq 1..lastContext' /\ leaked' \subseteq 1..lastContext'
      /\ boot'.context \in 0..lastContext'
  BY <1>5
<1>8. QED
  BY <1>1, <1>4, <1>5, <1>6, <1>7, GraphFits

(* The calls of MsixDynamicDependency.cpp keep the graph sound: an Add     *)
(* brings its context to the app, or to nobody when it fails too late.     *)
LEMMA DependencyCallsKeepGraph ==
  ASSUME CallInv, BoundInv, GraphState, NEW t \in Threads, DependencyCall(t),
         UNCHANGED bootVars
  PROVE  GraphState'
<1> USE DEF depVars, libVars, graphVars, listVars, ids, appVars, historyVars,
            bootVars, initVars, managerVars, flags
<1>1. bootLock' = bootLock /\ boot' = boot
  OBVIOUS
<1>2. ListInv /\ ContextInv
  BY DEF GraphState
<1> DEFINE Busy == Carriers \union {"shut down"}
<1>3. ASSUME NEW to, Goes(t, to), call[t].at \notin Busy, to.at \notin Busy,
             UNCHANGED <<graph, winrt, dirs, lastContext, held, leaked>>
      PROVE  GraphState'
  <2>1. SameCalls
    BY <1>3, SameCallsGoOn
  <2>2. QED
    BY <1>1, <1>3, <2>1, GraphStays
<1>4. ASSUME call' = call,
             UNCHANGED <<graph, winrt, dirs, lastContext, held, leaked>>
      PROVE  GraphState'
  <2>1. SameCalls
    BY <1>4, SameCallsStay
  <2>2. QED
    BY <1>1, <1>4, <2>1, GraphStays
<1>5. {"idle", "write", "push", "delete", "resolve", "remove"} \cap Busy = {}
  BY DEF Carriers
<1> HIDE DEF Busy
<1>6. Idle.at \notin Busy
  BY <1>5, IdleCall
<1>7. ASSUME NEW c \in Criteria \ {FrameworkCriteria}, TryCreate(t, c)
      PROVE  GraphState'
  <2> DEFINE to == [at |-> IF c.kept THEN "write" ELSE "push", id |-> lastId',
                    c |-> c]
  <2>1. /\ Goes(t, to) /\ call[t] = Idle
        /\ UNCHANGED <<graph, winrt, dirs, lastContext, held, leaked>>
    BY <1>7 DEF TryCreate, Begins
  <2>2. to.at \in {"write", "push"}
    OBVIOUS
  <2> HIDE DEF to
  <2>3. QED
    BY <1>3, <1>5, <1>6, <2>1, <2>2
<1>8. CASE WriteFile(t)
  <2> DEFINE to == [call[t] EXCEPT !.at = "push"]
  <2>1. /\ Goes(t, to) /\ call[t].at = "write"
        /\ UNCHANGED <<graph, winrt, dirs, lastContext, held, leaked>>
    BY <1>8 DEF WriteFile
  <2>2. to.at = "push"
    <3>1. IsCall(call[t], lastId, lastManager, lastContext)
      BY CallIsTyped
    <3>2. call[t] \in [at : {"write", "push"}, id : 1..lastId, c : Criteria]
      BY <2>1, <3>1, CallKinds
    <3>3. QED
      BY <2>1, <3>2
  <2> HIDE DEF to
  <2>3. QED
    BY <1>3, <1>5, <2>1, <2>2
<1>9. CASE WriteFails(t)
  <2>1. /\ Goes(t, Idle) /\ call[t].at = "write"
        /\ UNCHANGED <<graph, winrt, dirs, lastContext, held, leaked>>
    BY <1>9 DEF WriteFails
  <2>2. QED
    BY <1>3, <1>5, <1>6, <2>1
<1>10. CASE CreateReturns(t)
  <2>1. /\ Goes(t, Idle) /\ call[t].at = "push"
        /\ UNCHANGED <<graph, winrt, dirs, lastContext, held, leaked>>
    BY <1>10 DEF CreateReturns
  <2>2. QED
    BY <1>3, <1>5, <1>6, <2>1
<1>11. ASSUME NEW id \in Ids, DeletePackageDependency(t, id)
       PROVE  GraphState'
  <2> DEFINE to == [at |-> "delete", id |-> id]
  <2>1. /\ Goes(t, to) /\ call[t] = Idle
        /\ UNCHANGED <<graph, winrt, dirs, lastContext, held, leaked>>
    BY <1>11 DEF DeletePackageDependency, Begins
  <2>2. to.at = "delete"
    OBVIOUS
  <2> HIDE DEF to
  <2>3. QED
    BY <1>3, <1>5, <1>6, <2>1, <2>2
<1>12. CASE DeleteReturns(t)
  <2>1. /\ Goes(t, Idle) /\ call[t].at = "delete"
        /\ UNCHANGED <<graph, winrt, dirs, lastContext, held, leaked>>
    BY <1>12 DEF DeleteReturns
  <2>2. QED
    BY <1>3, <1>5, <1>6, <2>1
<1>13. ASSUME NEW id \in Ids, NEW rank \in Ranks, NEW prepend \in BOOLEAN,
              AddPackageDependency(t, id, rank, prepend)
       PROVE  GraphState'
  <2> DEFINE to == [at |-> "resolve", id |-> id, rank |-> rank,
                    prepend |-> prepend]
  <2>1. /\ Begins(t) /\ Lookup(t, id, to)
        /\ UNCHANGED <<graph, winrt, dirs, lastContext, held, leaked>>
    BY <1>13 DEF AddPackageDependency
  <2>2. to.at = "resolve" /\ call[t] = Idle
    BY <2>1 DEF Begins
  <2>3. Goes(t, to) \/ call' = call
    BY <2>1 DEF Lookup
  <2> HIDE DEF to
  <2>4. QED
    BY <1>3, <1>4, <1>5, <1>6, <2>1, <2>2, <2>3
<1>14. CASE Resolve(t)
  <2>1. call[t].at = "resolve"
    BY <1>14 DEF Resolve
  <2>2. call[t].id \in Nat /\ call[t].rank \in Ranks
    BY <2>1, CallIds
  <2>3. CASE NotFound(t) /\ Goes(t, Idle)
    <3>1. UNCHANGED <<graph, winrt, dirs, lastContext, held, leaked>>
      BY <2>3 DEF NotFound
    <3>2. QED
      BY <1>3, <1>5, <1>6, <2>1, <2>3, <3>1
  <2>4. ASSUME NEW p \in Packages,
               Resolves(t, call[t].rank, call[t].prepend, p),
               Goes(t, [at |-> "update", context |-> lastContext'])
        PROVE  GraphState'
    <3> DEFINE to == [at |-> "update", context |-> lastContext']
    <3>1. /\ ListInv' /\ lastContext' = lastContext + 1
          /\ Contexts' = Contexts \union {lastContext'}
      BY <1>2, <2>2, <2>4, ResolvesGraph
    <3>2. held' = held /\ leaked' = leaked /\ dirs' = dirs
      BY <2>4 DEF Resolves, AddNode
    <3>3. to.at \in Adders /\ to.context = lastContext' /\ Goes(t, to)
      BY <2>4 DEF Adders
    <3>4. call[t].at \notin Carriers \union {"shut down"}
      BY <2>1 DEF Carriers
    <3> HIDE DEF to
    <3>5. QED
      BY <1>1, <3>1, <3>2, <3>3, <3>4, ContextComes
  <2>5. QED
    BY <1>14, <2>3, <2>4 DEF Resolve
<1>15. CASE AddReturns(t)
  <2>1. call[t].at = "update" /\ Goes(t, Idle)
    BY <1>15 DEF AddReturns
  <2>2. PICK ok \in BOOLEAN :
          /\ Added(t, ok)
          /\ held' = IF ok THEN held \union {call[t].context} ELSE held
    BY <1>15 DEF AddReturns
  <2>3. Updated(ok)
    BY <2>2 DEF Added, Updated
  <2>4. ListInv' /\ Contexts' = Contexts /\ lastContext' = lastContext
    BY <1>2, <2>3, UpdateEnds
  <2>5. /\ leaked' = IF ok THEN leaked ELSE leaked \union {call[t].context}
        /\ dirs' = IF ok THEN dirs \union {call[t].context} ELSE dirs
    BY <2>2 DEF Added, AddToDllSearchOrder
  <2>6. call[t].at \in Adders /\ Idle.at \notin Adders \union {"shut down"}
        /\ Idle.at # "trim"
    BY <2>1, IdleCall DEF Adders
  <2>7. CASE ok
    <3>1. /\ held' = held \union {call[t].context} /\ leaked' = leaked
          /\ dirs' = dirs \union {call[t].context}
      BY <2>2, <2>5, <2>7
    <3>2. QED
      BY <1>1, <2>1, <2>4, <2>6, <3>1, ContextArrives
  <2>8. CASE ~ok
    <3>1. /\ held' = held /\ leaked' = leaked \union {call[t].context}
          /\ dirs' = dirs
      BY <2>2, <2>5, <2>8
    <3>2. QED
      BY <1>1, <2>1, <2>4, <2>6, <3>1, ContextArrives
  <2>9. QED
    BY <2>7, <2>8
<1>16. ASSUME NEW x \in held, RemovePackageDependency(t, x)
       PROVE  GraphState'
  <2> DEFINE to == [at |-> "remove"]
  <2>1. /\ RemoveNode(x) /\ held' = held \ {x} /\ leaked' = leaked
        /\ Goes(t, to) /\ call[t] = Idle
    BY <1>16 DEF RemovePackageDependency, Begins
  <2>2. to.at \notin Carriers /\ to.at # "shut down" /\ call[t].at # "shut down"
    BY <2>1, IdleCall DEF Carriers
  <2> HIDE DEF to
  <2>3. BootFits'
    <3>1. BootFits
      BY <1>2 DEF ContextInv
    <3>2. ShuttingDown' <=> ShuttingDown
      BY <2>1, <2>2, ShuttingMoves
    <3>3. QED
      BY <1>1, <3>1, <3>2, BootFitsStays
  <2>4. QED
    BY <1>1, <1>16, <2>1, <2>2, <2>3, ContextReturned
<1>17. CASE RemoveReturns(t)
  <2>1. /\ call[t].at = "remove" /\ Goes(t, Idle)
        /\ held' = held /\ leaked' = leaked
    BY <1>17 DEF RemoveReturns
  <2>2. PICK ok \in BOOLEAN : RemoveFromDllSearchOrder(ok) /\ EndsUpdate(ok)
    BY <1>17 DEF RemoveReturns
  <2>3. UNCHANGED <<graph, winrt, dirs, lastContext>>
    BY <2>2 DEF RemoveFromDllSearchOrder
  <2>4. QED
    BY <1>3, <1>5, <1>6, <2>1, <2>3
<1>18. ASSUME NEW i \in DOMAIN path, AppDrops(t, i)
       PROVE  GraphState'
  BY <1>4, <1>18 DEF AppDrops
<1>19. QED
  BY <1>7, <1>8, <1>9, <1>10, <1>11, <1>12, <1>13, <1>14, <1>15, <1>16, <1>17,
     <1>18 DEF DependencyCall

(* So does the end of the process.                                         *)
LEMMA RestartKeepsGraph ==
  ASSUME ProcessRestarts
  PROVE  GraphState'
<1>1. /\ graph' = <<>> /\ winrt' = <<>> /\ lastContext' = 0 /\ dirs' = {}
      /\ held' = {} /\ leaked' = {} /\ boot' = NotBooted
      /\ call' = [t \in Threads |-> Idle]
  BY DEF ProcessRestarts, Restarts, GraphRestarts
<1>2. \A t \in Threads : call'[t] = Idle
  BY <1>1
<1>3. QED
  BY <1>1, <1>2, GraphStartsAgain

(* The calls of MddBootstrap.cpp keep the graph sound: the context goes    *)
(* from the call to the globals, and with the last Shutdown back.          *)
LEMMA BootstrapCallsKeepGraph ==
  ASSUME CallInv, BoundInv, GraphState, NEW t \in Threads, BootstrapCall(t),
         boot \in [context : Nat, manager : 0..lastManager],
         boot # NotBooted => boot.manager # 0
  PROVE  GraphState'
<1> USE DEF depVars, libVars, graphVars, listVars, ids, appVars, historyVars,
            bootVars, initVars, managerVars, flags
<1>1. ListInv /\ ContextInv /\ BootFits
  BY DEF GraphState, ContextInv
<1> DEFINE Busy == Carriers \union {"shut down"}
<1>2. ASSUME NEW to, Goes(t, to), call[t].at \notin Busy, to.at \notin Busy,
             UNCHANGED <<graph, winrt, dirs, lastContext, held, leaked, boot>>,
             bootLock' = bootLock \/ bootLock' = NoThread \/ boot = NotBooted
      PROVE  GraphState'
  <2>1. SameCalls
    BY <1>2, SameCallsGoOn
  <2>2. QED
    BY <1>2, <2>1, GraphStays
<1>3. {"idle", "manager", "add path", "create", "boot lookup", "boot resolve",
       "increment"} \cap Busy = {}
  BY DEF Carriers
<1> HIDE DEF Busy
<1>4. Idle.at \notin Busy
  BY <1>3, IdleCall
<1>5. CASE BeginInitialize(t)
  <2>1. /\ call[t] = Idle /\ (count > 0) = (boot # NotBooted)
        /\ UNCHANGED <<graph, winrt, dirs, lastContext, held, leaked, boot>>
    BY <1>5 DEF BeginInitialize, Begins
  <2>2. CASE count > 0
    <3> DEFINE to == [at |-> "increment"]
    <3>1. Goes(t, to) /\ bootLock' = bootLock
      BY <1>5, <2>2 DEF BeginInitialize
    <3>2. to.at = "increment"
      OBVIOUS
    <3> HIDE DEF to
    <3>3. QED
      BY <1>2, <1>3, <1>4, <2>1, <3>1, <3>2
  <2>3. CASE ~(count > 0)
    <3> DEFINE to == [at |-> "manager"]
    <3>1. Goes(t, to) /\ boot = NotBooted
      BY <1>5, <2>1, <2>3 DEF BeginInitialize
    <3>2. to.at = "manager"
      OBVIOUS
    <3> HIDE DEF to
    <3>3. QED
      BY <1>2, <1>3, <1>4, <2>1, <3>1, <3>2
  <2>4. QED
    BY <2>2, <2>3
<1>6. CASE FailsFast(t)
  BY <1>6, RestartKeepsGraph DEF FailsFast
<1>7. CASE CreateLifetimeManager(t)
  <2> DEFINE to == [at |-> "add path", manager |-> lastManager']
  <2>1. /\ call[t].at = "manager" /\ Goes(t, to) /\ bootLock' = bootLock
        /\ UNCHANGED <<graph, winrt, dirs, lastContext, held, leaked, boot>>
    BY <1>7 DEF CreateLifetimeManager
  <2>2. to.at = "add path"
    OBVIOUS
  <2> HIDE DEF to
  <2>3. QED
    BY <1>2, <1>3, <2>1, <2>2
<1>8. CASE NoManager(t)
  <2>1. /\ call[t].at = "manager" /\ Goes(t, Idle) /\ bootLock' = NoThread
        /\ UNCHANGED <<graph, winrt, dirs, lastContext, held, leaked, boot>>
    BY <1>8 DEF NoManager
  <2>2. QED
    BY <1>2, <1>3, <1>4, <2>1
<1>9. CASE AddFrameworkToPath(t)
  <2> DEFINE to == [call[t] EXCEPT !.at = "create"]
  <2>1. /\ call[t].at = "add path"
        /\ UNCHANGED <<graph, winrt, dirs, lastContext, held, leaked>>
        /\ \/ Goes(t, to) /\ bootLock' = bootLock /\ boot' = boot
           \/ Goes(t, Idle) /\ bootLock' = NoThread /\ boot' = boot
    BY <1>9 DEF AddFrameworkToPath, WritePath, InitializationFails
  <2>2. to.at = "create"
    <3>1. IsCall(call[t], lastId, lastManager, lastContext)
      BY CallIsTyped
    <3>2. call[t] \in [at : {"add path", "create"}, manager : 1..lastManager]
      BY <2>1, <3>1, CallKinds
    <3>3. QED
      BY <3>2
  <2> HIDE DEF to
  <2>3. CASE Goes(t, to) /\ bootLock' = bootLock /\ boot' = boot
    BY <1>2, <1>3, <2>1, <2>2, <2>3
  <2>4. CASE Goes(t, Idle) /\ bootLock' = NoThread /\ boot' = boot
    BY <1>2, <1>3, <1>4, <2>1, <2>4
  <2>5. QED
    BY <2>1, <2>3, <2>4
<1>10. CASE CreateFrameworkDependency(t)
  <2> DEFINE to == [at |-> "boot lookup", manager |-> call[t].manager,
                    id |-> lastId']
  <2>1. /\ call[t].at = "create" /\ boot' = boot
        /\ UNCHANGED <<graph, winrt, dirs, lastContext, held, leaked>>
        /\ \/ Goes(t, to) /\ bootLock' = bootLock
           \/ Goes(t, Idle) /\ bootLock' = NoThread
    BY <1>10 DEF CreateFrameworkDependency, InitializationFails
  <2>2. to.at = "boot lookup"
    OBVIOUS
  <2> HIDE DEF to
  <2>3. QED
    BY <1>2, <1>3, <1>4, <2>1, <2>2
<1>11. CASE LookupFramework(t)
  <2> DEFINE to == [call[t] EXCEPT !.at = "boot resolve"]
  <2>1. /\ call[t].at = "boot lookup" /\ bootLock' = bootLock /\ boot' = boot
        /\ UNCHANGED <<graph, winrt, dirs, lastContext, held, leaked>>
        /\ Lookup(t, call[t].id, to)
    BY <1>11 DEF LookupFramework
  <2>2. to.at = "boot resolve"
    <3>1. IsCall(call[t], lastId, lastManager, lastContext)
      BY CallIsTyped
    <3>2. call[t] \in [at : {"boot lookup", "boot resolve"},
                       manager : 1..lastManager, id : 1..lastId]
      BY <2>1, <3>1, CallKinds
    <3>3. QED
      BY <3>2
  <2>3. Goes(t, to) \/ call' = call
    BY <2>1 DEF Lookup
  <2> HIDE DEF to
  <2>4. CASE Goes(t, to)
    BY <1>2, <1>3, <2>1, <2>2, <2>4
  <2>5. CASE call' = call
    BY <2>1, <2>5, SameCallsStay, GraphStays
  <2>6. QED
    BY <2>3, <2>4, <2>5
<1>12. CASE AddFramework(t)
  <2>1. call[t].at = "boot resolve"
    BY <1>12 DEF AddFramework
  <2>2. call[t].id \in Nat /\ DefaultRank \in Ranks
    BY <2>1, CallIds, FrameworkAssumption
  <2>3. CASE NotFound(t) /\ InitializationFails(t)
    <3>1. /\ UNCHANGED <<graph, winrt, dirs, lastContext, held, leaked, boot>>
          /\ Goes(t, Idle) /\ bootLock' = NoThread
      BY <2>3 DEF NotFound, InitializationFails
    <3>2. QED
      BY <1>2, <1>3, <1>4, <2>1, <3>1
  <2>4. ASSUME NEW p \in Packages, Resolves(t, DefaultRank, FALSE, p),
               Goes(t, [at |-> "boot update", manager |-> call[t].manager,
                        context |-> lastContext']),
               UNCHANGED initVars
        PROVE  GraphState'
    <3> DEFINE to == [at |-> "boot update", manager |-> call[t].manager,
                      context |-> lastContext']
    <3>1. /\ ListInv' /\ lastContext' = lastContext + 1
          /\ Contexts' = Contexts \union {lastContext'}
      BY <1>1, <2>2, <2>4, ResolvesGraph
    <3>2. held' = held /\ leaked' = leaked /\ dirs' = dirs
      BY <2>4 DEF Resolves, AddNode
    <3>3. to.at \in Adders /\ to.context = lastContext' /\ Goes(t, to)
      BY <2>4 DEF Adders
    <3>4. /\ call[t].at \notin Carriers \union {"shut down"}
          /\ boot' = boot /\ bootLock' = bootLock
      BY <2>1, <2>4 DEF Carriers
    <3> HIDE DEF to
    <3>5. QED
      BY <3>1, <3>2, <3>3, <3>4, ContextComes
  <2>5. QED
    BY <1>12, <2>3, <2>4 DEF AddFramework
<1>13. CASE AddFrameworkReturns(t)
  <2>1. call[t].at = "boot update" /\ held' = held
    BY <1>13 DEF AddFrameworkReturns
  <2> DEFINE to == [call[t] EXCEPT !.at = "trim"]
  <2>2. PICK ok \in BOOLEAN :
          /\ Added(t, ok)
          /\ IF ok THEN Goes(t, to) /\ UNCHANGED initVars
                   ELSE InitializationFails(t)
    BY <1>13 DEF AddFrameworkReturns
  <2>3. Updated(ok)
    BY <2>2 DEF Added, Updated
  <2>4. ListInv' /\ Contexts' = Contexts /\ lastContext' = lastContext
    BY <1>1, <2>3, UpdateEnds
  <2>5. /\ leaked' = IF ok THEN leaked ELSE leaked \union {call[t].context}
        /\ dirs' = IF ok THEN dirs \union {call[t].context} ELSE dirs
    BY <2>2 DEF Added, AddToDllSearchOrder
  <2>6. call[t].at \in Adders
    BY <2>1 DEF Adders
  <2>7. CASE ok
    <3>1. /\ leaked' = leaked /\ dirs' = dirs \union {call[t].context}
          /\ boot' = boot /\ bootLock' = bootLock /\ Goes(t, to)
      BY <2>2, <2>5, <2>7
    <3>2. to.at = "trim" /\ to.context = call[t].context
      <4>1. IsCall(call[t], lastId, lastManager, lastContext)
        BY CallIsTyped
      <4>2. call[t] \in [at : {"boot update", "trim"}, manager : 1..lastManager,
                         context : 1..lastContext]
        BY <2>1, <4>1, CallKinds
      <4>3. QED
        BY <4>2
    <3>3. to.at \notin Adders \union {"shut down"}
      BY <3>2 DEF Adders
    <3> HIDE DEF to
    <3>4. QED
      BY <2>1, <2>4, <2>6, <3>1, <3>2, <3>3, ContextArrives
  <2>8. CASE ~ok
    <3>1. /\ leaked' = leaked \union {call[t].context} /\ dirs' = dirs
          /\ boot' = boot /\ bootLock' = NoThread /\ Goes(t, Idle)
      BY <2>2, <2>5, <2>8 DEF InitializationFails
    <3>2. Idle.at \notin Adders \union {"shut down"} /\ Idle.at # "trim"
      BY IdleCall DEF Adders
    <3>3. QED
      BY <2>1, <2>4, <2>6, <3>1, <3>2, ContextArrives
  <2>9. QED
    BY <2>7, <2>8
<1>14. CASE RemoveFrameworkFromPath(t)
  <2>1. /\ call[t].at = "trim" /\ bootLock' = NoThread
        /\ boot' = [context |-> call[t].context, manager |-> call[t].manager]
    BY <1>14 DEF RemoveFrameworkFromPath
  <2>2. UNCHANGED <<graph, winrt, dirs, lastContext, held, leaked>>
    BY <1>14 DEF RemoveFrameworkFromPath, WritePath
  <2> DEFINE to == [at |-> "increment"]
             c  == call[t].context
  <2>3. Goes(t, to) /\ to.at = "increment"
    BY <1>14 DEF RemoveFrameworkFromPath
  <2>4. /\ call[t].at \in Carriers /\ call[t].at \notin Adders
        /\ to.at \notin Carriers /\ to.at \notin Adders
        /\ Carriers \in SUBSET Carriers /\ Adders \in SUBSET Carriers
        /\ to.at # "shut down"
    BY <2>1, <2>3 DEF Carriers, Adders
  <2> HIDE DEF to
  <2>5. OneEach
    BY <1>1 DEF ContextInv
  <2>6. /\ Carried(Carriers)' = Carried(Carriers) \ {c}
        /\ Carried(Adders)' = Carried(Adders) /\ OneEach'
    BY <2>3, <2>4, <2>5, CarriedMoves, OneEachMoves
  <2>7. c \in Carried(Carriers)
    BY <2>4 DEF Carried, At
  <2>8. /\ ~ShuttingDown /\ ~ShuttingDown'
        /\ boot = NotBooted
    <3>1. call[t].at \in LockPlaces /\ call[t].at # "shut down"
      BY <2>1 DEF LockPlaces
    <3>2. ~ShuttingDown /\ bootLock # NoThread
      BY <3>1, ShuttingIsInside, OneInside
    <3>3. ~ShuttingDown'
      BY <2>3, <2>4, <3>1, <3>2, ShuttingMoves
    <3>4. QED
      BY <1>1, <3>2, <3>3 DEF BootFits
  <2>9. ListInv' /\ Contexts' = Contexts /\ lastContext' = lastContext
    BY <1>1, <2>2, ListStays
  <2>10. c \in 1..lastContext /\ c # 0 /\ boot'.context = c
    <3>1. c \in 1..lastContext /\ lastContext \in Nat
      BY <1>1, <2>1, CallIds DEF ListInv
    <3>2. c # 0
      BY ONLY <3>1
    <3>3. QED
      BY <2>1, <3>1, <3>2
  <2>11. BootFits'
    BY <2>1, <2>8, <2>10 DEF BootFits
  <2>12. OwnersFit(Contexts', held', leaked', boot'.context,
                   Carried(Carriers)')
    <3>1. OwnersFit(Contexts, held, leaked, 0, Carried(Carriers))
      BY <1>1, <2>8 DEF ContextInv, NotBooted
    <3>2. OwnersFit(Contexts, held, leaked, c, Carried(Carriers) \ {c})
      BY <2>7, <2>10, <3>1 DEF OwnersFit
    <3>3. QED
      BY <2>2, <2>6, <2>9, <2>10, <3>2
  <2>13. dirs' = Contexts' \ (leaked' \union Carried(Adders)')
    BY <1>1, <2>2, <2>6, <2>9 DEF ContextInv
  <2>14. /\ held' \subseteq 1..lastContext' /\ leaked' \subseteq 1..lastContext'
         /\ boot'.context \in 0..lastContext'
    <3>1. /\ held \subseteq 1..lastContext /\ leaked \subseteq 1..lastContext
          /\ 1..lastContext \subseteq 0..lastContext
      BY <1>1 DEF ContextInv, ListInv
    <3>2. QED
      BY <2>2, <2>10, <3>1
  <2>15. QED
    BY <2>6, <2>9, <2>11, <2>12, <2>13, <2>14, GraphFits
<1>15. CASE IncrementCount(t)
  <2>1. /\ call[t].at = "increment" /\ Goes(t, Idle) /\ bootLock' = bootLock
        /\ UNCHANGED <<graph, winrt, dirs, lastContext, held, leaked, boot>>
    BY <1>15 DEF IncrementCount
  <2>2. QED
    BY <1>2, <1>3, <1>4, <2>1
<1>16. CASE Shutdown(t)
  <2>1. /\ call' = call /\ boot' = boot /\ bootLock' = bootLock
        /\ UNCHANGED <<graph, winrt, dirs, lastContext, held, leaked>>
    BY <1>16 DEF Shutdown, BeginShutdown
  <2>2. QED
    BY <2>1, SameCallsStay, GraphStays
<1>17. CASE ShutdownLast(t)
  <2> DEFINE to == [at |-> "shut down"]
  <2>1. /\ RemoveNode(boot.context) /\ held' = held /\ leaked' = leaked
        /\ Goes(t, to) /\ call[t] = Idle
        /\ boot' = [boot EXCEPT !.context = 0] /\ boot # NotBooted
    BY <1>17 DEF ShutdownLast, BeginShutdown, Begins
  <2>2. to.at = "shut down" /\ to.at \notin Carriers
    BY DEF Carriers
  <2> HIDE DEF to
  <2>3. boot \in [context : Nat, manager : 0..lastManager]
    OBVIOUS
  <2>4. boot'.context = 0 /\ boot'.manager # 0
    BY <2>1, <2>3
  <2>5. BootFits'
    BY <2>1, <2>2, <2>4, ShuttingMoves DEF BootFits
  <2>6. QED
    BY <2>1, <2>2, <2>4, <2>5, ContextReturned
<1>18. CASE ShutdownReturns(t)
  <2>1. /\ call[t].at = "shut down" /\ Goes(t, Idle) /\ bootLock' = NoThread
        /\ held' = held /\ leaked' = leaked /\ boot' = NotBooted
    BY <1>18 DEF ShutdownReturns
  <2>2. PICK ok \in BOOLEAN : RemoveFromDllSearchOrder(ok) /\ EndsUpdate(ok)
    BY <1>18 DEF ShutdownReturns
  <2>3. graph' = graph /\ winrt' = winrt /\ dirs' = dirs
        /\ lastContext' = lastContext
    BY <2>2 DEF RemoveFromDllSearchOrder
  <2>4. ListInv' /\ Contexts' = Contexts
    BY <1>1, <2>3, ListStays
  <2>5. /\ call[t].at \notin Carriers /\ call[t].at \notin Adders
        /\ Idle.at \notin Carriers /\ Idle.at \notin Adders
        /\ Carriers \in SUBSET Carriers /\ Adders \in SUBSET Carriers
        /\ Idle.at # "shut down"
    BY <2>1, IdleCall DEF Carriers, Adders
  <2>6. OneEach
    BY <1>1 DEF ContextInv
  <2>7. /\ Carried(Carriers)' = Carried(Carriers)
        /\ Carried(Adders)' = Carried(Adders) /\ OneEach' /\ ~ShuttingDown'
    BY <2>1, <2>5, <2>6, CarriedMoves, OneEachMoves, ShuttingMoves
  <2>8. boot.context = 0 /\ boot'.context = 0
    <3>1. ShuttingDown
      BY <2>1 DEF ShuttingDown, At
    <3>2. QED
      BY <1>1, <2>1, <3>1 DEF BootFits, NotBooted
  <2>9. BootFits'
    BY <2>1, <2>7 DEF BootFits, NotBooted
  <2>10. /\ OwnersFit(Contexts', held', leaked', boot'.context,
                      Carried(Carriers)')
         /\ dirs' = Contexts' \ (leaked' \union Carried(Adders)')
         /\ held' \subseteq 1..lastContext' /\ leaked' \subseteq 1..lastContext'
         /\ boot'.context \in 0..lastContext'
    BY <1>1, <2>1, <2>3, <2>4, <2>7, <2>8 DEF ContextInv
  <2>11. QED
    BY <2>4, <2>7, <2>9, <2>10, GraphFits
<1>19. QED
  BY <1>5, <1>6, <1>7, <1>8, <1>9, <1>10, <1>11, <1>12, <1>13, <1>14, <1>15,
     <1>16, <1>17, <1>18 DEF BootstrapCall

-----------------------------------------------------------------------------
(* The ids given out, and the files of those that outlive the process.     *)
IsTable(f, n) ==
  /\ DOMAIN f \subseteq 1..n
  /\ \A i \in DOMAIN f : f[i] \in Criteria \union {NoData}

(* The threads that create a dependency or delete one                      *)
Writers == At({"write", "push", "delete"})

(* The file of an id that outlives the process, and of no other id         *)
FileFits(id, c) ==
  IF c.kept THEN id \in DOMAIN store /\ store[id] = c
            ELSE id \notin DOMAIN store

(* A file no id is about was left by a failure, or somebody is at it.      *)
Explained(id) ==
  \/ faults > 0 \/ failedFast
  \/ \E t \in Writers : call[t].id = id

(* An id on its way to the app is nobody else's: its file is written       *)
(* before the app knows the id, and taken away only with the id.           *)
IdInv ==
  /\ IsTable(memory, lastId) /\ IsTable(store, lastId)
  /\ IsTable(defined, lastId)
  /\ \A id \in DOMAIN defined :
       defined[id] \in Criteria /\ FileFits(id, defined[id])
  /\ \A t \in Writers : call[t].id \notin DOMAIN defined
  /\ \A t, u \in Writers : call[t].id = call[u].id => t = u
  /\ \A t \in Writers :
       /\ call[t].at = "write" => call[t].c.kept
       /\ call[t].at = "push" => FileFits(call[t].id, call[t].c)
  /\ \A id \in DOMAIN store \ DOMAIN defined : Explained(id)

(* This implies what is wanted of the data store.                          *)
LEMMA PinsFollow ==
  ASSUME IdInv
  PROVE  PinsStay
<1>1. \A id \in DOMAIN defined :
        IF defined[id].kept THEN id \in DOMAIN store /\ store[id] = defined[id]
                            ELSE id \notin DOMAIN store
  BY DEF IdInv, FileFits
<1>2. \A id \in DOMAIN store \ DOMAIN defined :
        \/ faults > 0 \/ failedFast
        \/ \E t \in At({"write", "push", "delete"}) : call[t].id = id
  BY DEF IdInv, Explained, Writers
<1>3. QED
  BY <1>1, <1>2 DEF PinsStay

(* An id is put into a table.                                              *)
LEMMA WithTable ==
  ASSUME NEW f, NEW n \in Nat, NEW m \in Nat, n <= m, IsTable(f, n),
         NEW id \in 1..m, NEW c \in Criteria \union {NoData}
  PROVE  /\ IsTable(With(f, id, c), m)
         /\ DOMAIN With(f, id, c) = DOMAIN f \union {id}
         /\ With(f, id, c)[id] = c
         /\ \A i \in DOMAIN f : i # id => With(f, id, c)[i] = f[i]
<1>1. 1..n \subseteq 1..m
  OBVIOUS
<1>2. /\ DOMAIN With(f, id, c) = DOMAIN f \union {id}
      /\ With(f, id, c)[id] = c
      /\ \A i \in DOMAIN f : i # id => With(f, id, c)[i] = f[i]
  BY DEF With
<1>3. \A i \in DOMAIN f : f[i] \in Criteria \union {NoData}
  BY DEF IsTable
<1>4. \A i \in DOMAIN With(f, id, c) :
        With(f, id, c)[i] \in Criteria \union {NoData}
  BY <1>2, <1>3
<1>5. DOMAIN With(f, id, c) \subseteq 1..m
  BY <1>1, <1>2 DEF IsTable
<1>6. QED
  BY <1>2, <1>4, <1>5 DEF IsTable

(* Ids are taken out of a table.                                           *)
LEMMA WithoutTable ==
  ASSUME NEW f, NEW n, IsTable(f, n), NEW S
  PROVE  /\ IsTable(Without(f, S), n)
         /\ DOMAIN Without(f, S) = DOMAIN f \ S
         /\ \A i \in DOMAIN f \ S : Without(f, S)[i] = f[i]
BY DEF IsTable, Without

(* A table stays one when more ids are given out.                          *)
LEMMA TableGrows ==
  ASSUME NEW f, NEW n \in Nat, NEW m \in Nat, n <= m, IsTable(f, n)
  PROVE  IsTable(f, m)
<1>1. 1..n \subseteq 1..m
  OBVIOUS
<1>2. QED
  BY <1>1 DEF IsTable

(* The empty table                                                         *)
LEMMA NoTable == \A n : IsTable(Nothing, n)
BY DEF IsTable, Nothing

(* A thread that is not creating a dependency goes on.                     *)
LEMMA WritersGoOn ==
  ASSUME CallInv, NEW t \in Threads, NEW to, Goes(t, to),
         call[t].at \notin {"write", "push", "delete"},
         to.at \notin {"write", "push", "delete"}
  PROVE  Writers' = Writers /\ \A u \in Writers : call'[u] = call[u]
<1>1. call'[t] = to /\ \A u \in Threads \ {t} : call'[u] = call[u]
  BY GoesOn
<1>2. QED
  BY <1>1 DEF Writers, At

(* No thread goes on.                                                      *)
LEMMA WritersStay ==
  ASSUME call' = call
  PROVE  Writers' = Writers /\ \A u \in Writers : call'[u] = call[u]
BY DEF Writers, At

(* The files stay, or an empty one that no id is about is removed.         *)
LEMMA IdsStay ==
  ASSUME IdInv, CallInv, BoundInv,
         Writers' = Writers, \A u \in Writers : call'[u] = call[u],
         defined' = defined, IsTable(memory', lastId'),
         lastId' \in Nat, lastId <= lastId',
         \/ store' = store
         \/ \E id \in DOMAIN store :
              store[id] = NoData /\ store' = Without(store, {id}),
         faults > 0 => faults' > 0, failedFast => failedFast'
  PROVE  IdInv'
<1>1. lastId \in Nat /\ NoData \notin Criteria
  BY CriteriaAssumption DEF BoundInv
<1>2. IsTable(store, lastId) /\ IsTable(defined, lastId)
  BY DEF IdInv
<1>3. /\ IsTable(store', lastId')
               /\ DOMAIN store' \subseteq DOMAIN store
      /\ \A id, c : FileFits(id, c) /\ c \in Criteria => FileFits(id, c)'
  <2>1. CASE store' = store
    <3>1. IsTable(store', lastId')
      BY <1>1, <1>2, <2>1, TableGrows
    <3>2. QED
      BY <2>1, <3>1 DEF FileFits
  <2>2. ASSUME NEW id \in DOMAIN store, store[id] = NoData,
               store' = Without(store, {id})
        PROVE  /\ IsTable(store', lastId')
               /\ DOMAIN store' \subseteq DOMAIN store
               /\ \A i, c : FileFits(i, c) /\ c \in Criteria => FileFits(i, c)'
    <3>1. /\ IsTable(store', lastId) /\ DOMAIN store' = DOMAIN store \ {id}
          /\ \A i \in DOMAIN store \ {id} : store'[i] = store[i]
      BY <1>2, <2>2, WithoutTable
    <3>2. IsTable(store', lastId')
      BY <1>1, <3>1, TableGrows
    <3>3. ASSUME NEW i, NEW c \in Criteria, FileFits(i, c)
          PROVE  FileFits(i, c)'
      BY <1>1, <2>2, <3>1, <3>3 DEF FileFits
    <3>4. QED
      BY <3>1, <3>2, <3>3
  <2>3. QED
    BY <2>1, <2>2
<1>4. IsTable(defined', lastId')
  BY <1>1, <1>2, TableGrows
<1>5. ASSUME NEW id \in DOMAIN defined'
      PROVE  defined'[id] \in Criteria /\ FileFits(id, defined[id])'
  BY <1>3 DEF IdInv
<1>6. \A t \in Writers' : call'[t].id \notin DOMAIN defined'
  BY DEF IdInv
<1>7. \A t, u \in Writers' : call'[t].id = call'[u].id => t = u
  BY DEF IdInv
<1>8. ASSUME NEW t \in Writers'
      PROVE  /\ call'[t].at = "write" => call'[t].c.kept
             /\ call'[t].at = "push" => FileFits(call[t].id, call[t].c)'
  <2>1. t \in Writers /\ t \in Threads /\ call'[t] = call[t]
    BY <1>8 DEF Writers, At
  <2>2. /\ call[t].at = "write" => call[t].c.kept
        /\ call[t].at = "push" => FileFits(call[t].id, call[t].c)
    BY <2>1 DEF IdInv
  <2>3. ASSUME call[t].at = "push"
        PROVE  FileFits(call[t].id, call[t].c)'
    <3>1. call[t].c \in Criteria /\ FileFits(call[t].id, call[t].c)
      BY <2>1, <2>2, <2>3, CallIds
    <3>2. QED
      BY <1>3, <2>1, <3>1 DEF FileFits
  <2>4. QED
    BY <2>1, <2>2, <2>3
<1>9. ASSUME NEW id \in DOMAIN store' \ DOMAIN defined'
      PROVE  Explained(id)'
  <2>1. id \in DOMAIN store \ DOMAIN defined
    BY <1>3, <1>9
  <2>2. Explained(id)
    BY <2>1 DEF IdInv
  <2>3. QED
    BY <2>2 DEF Explained
<1>10. QED
  BY <1>3, <1>4, <1>5, <1>6, <1>7, <1>8, <1>9 DEF IdInv

(* Looking up a dependency removes an empty file, if anything.             *)
LEMMA LookupFiles ==
  ASSUME NEW t, NEW id, NEW found, Lookup(t, id, found)
  PROVE  /\ \/ store' = store
            \/ \E i \in DOMAIN store :
                 store[i] = NoData /\ store' = Without(store, {i})
         /\ Goes(t, found) \/ call' = call
BY DEF Lookup

(* A thread leaves the writers.                                            *)
LEMMA WriterLeaves ==
  ASSUME CallInv, NEW t \in Threads, Goes(t, Idle)
  PROVE  /\ Writers' = Writers \ {t}
         /\ \A u \in Writers \ {t} : call'[u] = call[u]
<1>1. call'[t] = Idle /\ \A u \in Threads \ {t} : call'[u] = call[u]
  BY GoesOn
<1>2. QED
  BY <1>1, IdleCall DEF Writers, At

(* A failure is remembered.                                                *)
LEMMA FaultsAreNumbers ==
  ASSUME BoundInv
  PROVE  /\ Fault => faults' > 0
         /\ faults' = faults \/ Fault => (faults > 0 => faults' > 0)
<1>1. faults \in Nat
  BY BoundsAdd, BoundAssumption
<1>2. QED
  BY <1>1 DEF Fault

(* A new id is nobody's yet, and has an empty file at most.                *)
LEMMA TryCreateKeepsIds ==
  ASSUME CallInv, BoundInv, IdInv, NEW t \in Threads, NEW c \in Criteria,
         TryCreate(t, c), UNCHANGED bootVars
  PROVE  IdInv'
<1> DEFINE n == lastId'
           to == [at |-> IF c.kept THEN "write" ELSE "push", id |-> n, c |-> c]
<1>1. /\ call[t] = Idle /\ Goes(t, to) /\ n = lastId + 1 /\ memory' = memory
      /\ defined' = defined /\ faults' = faults
      /\ store' = IF c.kept THEN With(store, n, NoData) ELSE store
  BY DEF TryCreate, Begins
<1>2. failedFast' = failedFast
  BY DEF bootVars, initVars, flags
<1>3. lastId \in Nat
  BY DEF BoundInv
<1>4. /\ n \in Nat /\ lastId <= n /\ n \in 1..n /\ n \notin 1..lastId
      /\ lastId' = n
  BY <1>1, <1>3
<1>5. /\ to.at = (IF c.kept THEN "write" ELSE "push") /\ to.id = n /\ to.c = c
  OBVIOUS
<1> HIDE DEF to, n
<1>6. call'[t] = to /\ \A u \in Threads \ {t} : call'[u] = call[u]
  BY <1>1, GoesOn
<1>7. /\ Writers' = Writers \union {t} /\ t \notin Writers
      /\ \A u \in Writers : call'[u] = call[u]
  BY <1>1, <1>5, <1>6, IdleCall DEF Writers, At
<1>8. /\ IsTable(memory, lastId) /\ IsTable(store, lastId)
      /\ IsTable(defined, lastId)
  BY DEF IdInv
<1>9. IsTable(memory', lastId') /\ IsTable(defined', lastId')
  BY <1>1, <1>3, <1>4, <1>8, TableGrows
<1>10. /\ IsTable(store', lastId')
       /\ DOMAIN store' = IF c.kept THEN DOMAIN store \union {n}
                                     ELSE DOMAIN store
       /\ \A i \in DOMAIN store : i # n => store'[i] = store[i]
  <2>1. CASE c.kept
    <3> DEFINE w == With(store, n, NoData)
    <3>1. store' = w
      BY <1>1, <2>1
    <3>2. /\ IsTable(w, n) /\ DOMAIN w = DOMAIN store \union {n}
          /\ \A i \in DOMAIN store : i # n => w[i] = store[i]
      <4>1. NoData \in Criteria \union {NoData}
        OBVIOUS
      <4>2. n \in 1..n /\ n \in Nat /\ lastId <= n /\ IsTable(store, lastId)
        BY <1>4, <1>8
      <4>3. QED
        BY <1>3, <4>1, <4>2, WithTable
    <3> HIDE DEF w
    <3>3. QED
      BY <1>4, <2>1, <3>1, <3>2
  <2>2. CASE ~c.kept
    <3>1. store' = store
      BY <1>1, <2>2
    <3>2. QED
      BY <1>3, <1>4, <1>8, <2>2, <3>1, TableGrows
  <2>3. QED
    BY <2>1, <2>2
<1>11. n \notin DOMAIN store /\ n \notin DOMAIN defined
  BY <1>4, <1>8 DEF IsTable
<1>12. \A id, d : id # n /\ FileFits(id, d) => FileFits(id, d)'
  BY <1>10 DEF FileFits
<1>13. \A id \in DOMAIN defined' :
         defined'[id] \in Criteria /\ FileFits(id, defined[id])'
  <2>1. ASSUME NEW id \in DOMAIN defined
        PROVE  defined[id] \in Criteria /\ FileFits(id, defined[id]) /\ id # n
    BY <1>11 DEF IdInv
  <2>2. QED
    BY <1>1, <1>12, <2>1 DEF FileFits
<1>14. \A u \in Writers : call[u].id \in 1..lastId /\ call[u].id # n
  <2>1. \A u \in Writers : call[u].id \in 1..lastId
    BY CallIds DEF Writers, At
  <2>2. QED
    BY <1>4, <2>1
<1>15. \A u \in Writers' : call'[u].id \notin DOMAIN defined'
  BY <1>1, <1>5, <1>6, <1>7, <1>11 DEF IdInv
<1>16. \A u, v \in Writers' : call'[u].id = call'[v].id => u = v
  BY <1>5, <1>6, <1>7, <1>14 DEF IdInv
<1>17. ASSUME NEW u \in Writers'
       PROVE  /\ call'[u].at = "write" => call'[u].c.kept
              /\ call'[u].at = "push" => FileFits(call[u].id, call[u].c)'
  <2>1. CASE u = t
    <3>1. CASE c.kept
      BY <1>5, <1>6, <2>1, <3>1
    <3>2. CASE ~c.kept
      <4>1. n \notin DOMAIN store'
        BY <1>10, <1>11, <3>2
      <4>2. QED
        BY <1>5, <1>6, <2>1, <3>2, <4>1 DEF FileFits
    <3>3. QED
      BY <3>1, <3>2
  <2>2. CASE u # t
    <3>1. /\ u \in Writers /\ call'[u] = call[u] /\ call[u].id # n
          /\ call[u].at = "write" => call[u].c.kept
          /\ call[u].at = "push" => FileFits(call[u].id, call[u].c)
      BY <1>7, <1>14, <1>17, <2>2 DEF IdInv
    <3>2. QED
      BY <1>12, <3>1 DEF FileFits
  <2>3. QED
    BY <2>1, <2>2
<1>18. ASSUME NEW id \in DOMAIN store' \ DOMAIN defined'
       PROVE  Explained(id)'
  <2>1. CASE id = n
    BY <1>5, <1>6, <1>7, <2>1 DEF Explained
  <2>2. CASE id # n
    <3>1. id \in DOMAIN store \ DOMAIN defined
      BY <1>1, <1>10, <1>18, <2>2
    <3>2. Explained(id)
      BY <3>1 DEF IdInv
    <3>3. QED
      BY <1>1, <1>2, <1>7, <3>2 DEF Explained
  <2>3. QED
    BY <2>1, <2>2
<1>19. QED
  BY <1>9, <1>10, <1>13, <1>15, <1>16, <1>17, <1>18 DEF IdInv

(* The file is written for the id it was made for.                         *)
LEMMA WriteFileKeepsIds ==
  ASSUME CallInv, BoundInv, IdInv, NEW t \in Threads, WriteFile(t),
         UNCHANGED bootVars
  PROVE  IdInv'
<1> DEFINE n == call[t].id
           c == call[t].c
           to == [call[t] EXCEPT !.at = "push"]
<1>1. /\ call[t].at = "write" /\ Goes(t, to) /\ memory' = memory
      /\ defined' = defined /\ faults' = faults /\ lastId' = lastId
      /\ store' = With(store, n, c)
  BY DEF WriteFile
<1>2. failedFast' = failedFast
  BY DEF bootVars, initVars, flags
<1>3. lastId \in Nat /\ lastId <= lastId
  <2>1. lastId \in Nat
    BY DEF BoundInv
  <2>2. QED
    BY <2>1
<1>4. n \in 1..lastId /\ c \in Criteria
  BY <1>1, CallIds
<1>5. to.at = "push" /\ to.id = n /\ to.c = c
  <2>1. call[t] \in [at : {"write", "push"}, id : 1..lastId, c : Criteria]
    BY <1>1, CallIsTyped, CallKinds
  <2>2. QED
    BY <2>1
<1> HIDE DEF to
<1>6. call'[t] = to /\ \A u \in Threads \ {t} : call'[u] = call[u]
  BY <1>1, GoesOn
<1>7. /\ Writers' = Writers /\ t \in Writers
      /\ \A u \in Writers \ {t} : call'[u] = call[u]
  BY <1>1, <1>5, <1>6 DEF Writers, At
<1>8. \A u \in Writers : call'[u].id = call[u].id /\ call'[u].c = call[u].c
  BY <1>5, <1>6, <1>7
<1>9. /\ IsTable(memory, lastId) /\ IsTable(store, lastId)
      /\ IsTable(defined, lastId)
  BY DEF IdInv
<1>10. /\ IsTable(store', lastId')
       /\ DOMAIN store' = DOMAIN store \union {n} /\ store'[n] = c
       /\ \A i \in DOMAIN store : i # n => store'[i] = store[i]
  <2> DEFINE w == With(store, n, c)
  <2> HIDE DEF n, c
  <2>1. /\ IsTable(w, lastId) /\ DOMAIN w = DOMAIN store \union {n}
        /\ w[n] = c
        /\ \A i \in DOMAIN store : i # n => w[i] = store[i]
    <3>1. c \in Criteria \union {NoData} /\ n \in 1..lastId
      BY <1>4
    <3>2. IsTable(store, lastId) /\ lastId \in Nat /\ lastId <= lastId
      BY <1>3, <1>9
    <3> DEFINE k == lastId
    <3>3. /\ c \in Criteria \union {NoData} /\ n \in 1..k
          /\ IsTable(store, k) /\ k \in Nat /\ k <= k
      BY <3>1, <3>2
    <3> HIDE DEF k, w
    <3>4. /\ IsTable(With(store, n, c), k)
          /\ DOMAIN With(store, n, c) = DOMAIN store \union {n}
          /\ With(store, n, c)[n] = c
          /\ \A i \in DOMAIN store : i # n => With(store, n, c)[i] = store[i]
      BY <3>3, WithTable
    <3>5. QED
      BY <3>4 DEF k, w
  <2>2. store' = w
    BY <1>1
  <2> HIDE DEF w
  <2>3. QED
    BY <1>1, <2>1, <2>2
<1>11. n \notin DOMAIN defined /\ c.kept
  BY <1>1, <1>7 DEF IdInv
<1> HIDE DEF n, c
<1>12. \A id, d : id # n /\ FileFits(id, d) => FileFits(id, d)'
  BY <1>10 DEF FileFits
<1>13. \A id \in DOMAIN defined' :
         defined'[id] \in Criteria /\ FileFits(id, defined[id])'
  <2>1. ASSUME NEW id \in DOMAIN defined
        PROVE  defined[id] \in Criteria /\ FileFits(id, defined[id]) /\ id # n
    BY <1>11 DEF IdInv
  <2>2. QED
    BY <1>1, <1>12, <2>1 DEF FileFits
<1>14. \A u \in Writers' : call'[u].id \notin DOMAIN defined'
  BY <1>1, <1>7, <1>8 DEF IdInv
<1>15. \A u, v \in Writers' : call'[u].id = call'[v].id => u = v
  BY <1>7, <1>8 DEF IdInv
<1>16. ASSUME NEW u \in Writers'
       PROVE  /\ call'[u].at = "write" => call'[u].c.kept
              /\ call'[u].at = "push" => FileFits(call[u].id, call[u].c)'
  <2>1. CASE u = t
    <3>1. call'[u].at = "push" /\ call'[u].id = n /\ call'[u].c = c
      BY <1>5, <1>6, <2>1
    <3>2. QED
      BY <1>10, <1>11, <3>1 DEF FileFits
  <2>2. CASE u # t
    <3>1. u \in Writers /\ call'[u] = call[u]
      BY <1>7, <1>16, <2>2
    <3>2. /\ call[u].at = "write" => call[u].c.kept
          /\ call[u].at = "push" => FileFits(call[u].id, call[u].c)
      BY <3>1 DEF IdInv
    <3>3. call[u].id # n
      BY <1>7, <2>2, <3>1 DEF IdInv, n
    <3>4. QED
      BY <1>12, <3>1, <3>2, <3>3 DEF FileFits
  <2>3. QED
    BY <2>1, <2>2
<1>17. ASSUME NEW id \in DOMAIN store' \ DOMAIN defined'
       PROVE  Explained(id)'
  <2>1. CASE id = n
    BY <1>5, <1>6, <1>7, <2>1 DEF Explained
  <2>2. CASE id # n
    <3>1. id \in DOMAIN store \ DOMAIN defined
      BY <1>1, <1>10, <1>17, <2>2
    <3>2. Explained(id)
      BY <3>1 DEF IdInv
    <3>3. QED
      BY <1>1, <1>2, <1>7, <1>8, <3>2 DEF Explained
  <2>3. QED
    BY <2>1, <2>2
<1>18. QED
  BY <1>1, <1>9, <1>10, <1>13, <1>14, <1>15, <1>16, <1>17 DEF IdInv

(* An empty file is left by a failure.                                     *)
LEMMA WriteFailsKeepsIds ==
  ASSUME CallInv, BoundInv, IdInv, NEW t \in Threads, WriteFails(t)
  PROVE  IdInv'
<1>1. /\ Goes(t, Idle) /\ memory' = memory /\ defined' = defined
      /\ store' = store /\ lastId' = lastId
  BY DEF WriteFails, libVars, ids
<1>2. faults' > 0
  BY FaultsAreNumbers DEF WriteFails
<1>3. Writers' = Writers \ {t} /\ \A u \in Writers \ {t} : call'[u] = call[u]
  BY <1>1, WriterLeaves
<1>4. /\ IsTable(memory', lastId') /\ IsTable(store', lastId')
      /\ IsTable(defined', lastId')
  BY <1>1 DEF IdInv
<1>5. \A id, d : FileFits(id, d)' <=> FileFits(id, d)
  BY <1>1 DEF FileFits
<1>6. \A id \in DOMAIN defined' :
        defined'[id] \in Criteria /\ FileFits(id, defined[id])'
  BY <1>1 DEF IdInv, FileFits
<1>7. \A u \in Writers' : call'[u].id \notin DOMAIN defined'
  BY <1>1, <1>3 DEF IdInv
<1>8. \A u, v \in Writers' : call'[u].id = call'[v].id => u = v
  BY <1>3 DEF IdInv
<1>9. \A u \in Writers' :
         /\ call'[u].at = "write" => call'[u].c.kept
         /\ call'[u].at = "push" => FileFits(call[u].id, call[u].c)'
  BY <1>1, <1>3 DEF IdInv, FileFits
<1>10. \A id : Explained(id)'
  BY <1>2 DEF Explained
<1>11. QED
  BY <1>4, <1>6, <1>7, <1>8, <1>9, <1>10 DEF IdInv

(* The app is given the id when its file is written.                       *)
LEMMA CreateReturnsKeepsIds ==
  ASSUME CallInv, BoundInv, IdInv, NEW t \in Threads, CreateReturns(t),
         UNCHANGED bootVars
  PROVE  IdInv'
<1> DEFINE n == call[t].id
           c == call[t].c
<1>1. /\ call[t].at = "push" /\ Goes(t, Idle)
      /\ memory' = With(memory, n, c) /\ defined' = With(defined, n, c)
      /\ store' = store /\ lastId' = lastId /\ faults' = faults
  BY DEF CreateReturns, PushBack
<1>2. failedFast' = failedFast
  BY DEF bootVars, initVars, flags
<1>3. t \in Writers
  BY <1>1 DEF Writers, At
<1>4. n \in 1..lastId /\ c \in Criteria
  BY <1>1, CallIds
<1>5. FileFits(n, c)
  BY <1>1, <1>3 DEF IdInv
<1>6. \A u \in Writers \ {t} : call[u].id # n
  BY <1>3 DEF IdInv
<1> HIDE DEF n, c
<1>7. Writers' = Writers \ {t} /\ \A u \in Writers \ {t} : call'[u] = call[u]
  BY <1>1, WriterLeaves
<1>8. /\ IsTable(memory, lastId) /\ IsTable(store, lastId)
      /\ IsTable(defined, lastId)
  BY DEF IdInv
<1>9. ASSUME NEW f, IsTable(f, lastId)
      PROVE  /\ IsTable(With(f, n, c), lastId)
             /\ DOMAIN With(f, n, c) = DOMAIN f \union {n}
             /\ With(f, n, c)[n] = c
             /\ \A i \in DOMAIN f : i # n => With(f, n, c)[i] = f[i]
  <2> DEFINE k == lastId
  <2>1. k \in Nat
    BY DEF BoundInv
  <2>2. /\ IsTable(f, k) /\ n \in 1..k /\ c \in Criteria \union {NoData}
    BY <1>4, <1>9
  <2> HIDE DEF k
  <2>3. k <= k
    BY <2>1
  <2>4. /\ IsTable(With(f, n, c), k)
        /\ DOMAIN With(f, n, c) = DOMAIN f \union {n}
        /\ With(f, n, c)[n] = c
        /\ \A i \in DOMAIN f : i # n => With(f, n, c)[i] = f[i]
    BY <2>1, <2>2, <2>3, WithTable
  <2>5. QED
    BY <2>4 DEF k
<1>10. /\ IsTable(memory', lastId') /\ IsTable(store', lastId')
  BY <1>1, <1>8, <1>9
<1>11. /\ IsTable(defined', lastId')
       /\ DOMAIN defined' = DOMAIN defined \union {n}
       /\ defined'[n] = c
       /\ \A i \in DOMAIN defined : i # n => defined'[i] = defined[i]
  <2> DEFINE w == With(defined, n, c)
  <2>1. /\ IsTable(w, lastId)
        /\ DOMAIN w = DOMAIN defined \union {n} /\ w[n] = c
        /\ \A i \in DOMAIN defined : i # n => w[i] = defined[i]
    BY <1>8, <1>9
  <2>2. defined' = w
    BY <1>1
  <2> HIDE DEF w
  <2>3. QED
    BY <1>1, <2>1, <2>2
<1>12. \A id \in DOMAIN defined' :
         defined'[id] \in Criteria /\ FileFits(id, defined[id])'
  <2> SUFFICES ASSUME NEW id \in DOMAIN defined'
               PROVE  defined'[id] \in Criteria /\ FileFits(id, defined[id])'
    OBVIOUS
  <2>1. CASE id = n
    BY <1>1, <1>4, <1>5, <1>11, <2>1 DEF FileFits
  <2>2. CASE id # n
    <3>1. /\ id \in DOMAIN defined /\ defined'[id] = defined[id]
          /\ defined[id] \in Criteria /\ FileFits(id, defined[id])
      BY <1>11, <2>2 DEF IdInv
    <3>2. QED
      BY <1>1, <3>1 DEF FileFits
  <2>3. QED
    BY <2>1, <2>2
<1>13. \A u \in Writers' : call'[u].id \notin DOMAIN defined'
  BY <1>6, <1>7, <1>11 DEF IdInv
<1>14. \A u, v \in Writers' : call'[u].id = call'[v].id => u = v
  BY <1>7 DEF IdInv
<1>15. \A u \in Writers' :
         /\ call'[u].at = "write" => call'[u].c.kept
         /\ call'[u].at = "push" => FileFits(call[u].id, call[u].c)'
  BY <1>1, <1>7 DEF IdInv, FileFits
<1>16. ASSUME NEW id \in DOMAIN store' \ DOMAIN defined'
       PROVE  Explained(id)'
  <2>1. id \in DOMAIN store \ DOMAIN defined /\ id # n
    BY <1>1, <1>11, <1>16
  <2>2. Explained(id)
    BY <2>1 DEF IdInv
  <2>3. QED
    BY <1>1, <1>2, <1>7, <2>1, <2>2 DEF Explained, n
<1>17. QED
  BY <1>10, <1>11, <1>12, <1>13, <1>14, <1>15, <1>16 DEF IdInv

(* The app gives the id up while its file is still there.                  *)
LEMMA DeleteKeepsIds ==
  ASSUME CallInv, BoundInv, IdInv, NEW t \in Threads, NEW n,
         DeletePackageDependency(t, n), UNCHANGED bootVars
  PROVE  IdInv'
<1> DEFINE to == [at |-> "delete", id |-> n]
<1>1. /\ n \in DOMAIN defined /\ call[t] = Idle /\ Goes(t, to)
      /\ memory' = Without(memory, {n}) /\ defined' = Without(defined, {n})
      /\ store' = store /\ lastId' = lastId /\ faults' = faults
  BY DEF DeletePackageDependency, Begins
<1>2. failedFast' = failedFast
  BY DEF bootVars, initVars, flags
<1>3. to.at = "delete" /\ to.id = n
  OBVIOUS
<1> HIDE DEF to
<1>4. call'[t] = to /\ \A u \in Threads \ {t} : call'[u] = call[u]
  BY <1>1, GoesOn
<1>5. /\ Writers' = Writers \union {t} /\ t \notin Writers
      /\ \A u \in Writers : call'[u] = call[u]
  BY <1>1, <1>3, <1>4, IdleCall DEF Writers, At
<1>6. /\ IsTable(memory, lastId) /\ IsTable(store, lastId)
      /\ IsTable(defined, lastId)
  BY DEF IdInv
<1>7. IsTable(memory', lastId') /\ IsTable(store', lastId')
  BY <1>1, <1>6, WithoutTable
<1>8. /\ IsTable(defined', lastId') /\ DOMAIN defined' = DOMAIN defined \ {n}
      /\ \A i \in DOMAIN defined \ {n} : defined'[i] = defined[i]
  BY <1>1, <1>6, WithoutTable
<1>9. \A id, d : FileFits(id, d)' <=> FileFits(id, d)
  BY <1>1 DEF FileFits
<1>10. \A id \in DOMAIN defined' :
         defined'[id] \in Criteria /\ FileFits(id, defined[id])'
  <2> SUFFICES ASSUME NEW id \in DOMAIN defined'
               PROVE  defined'[id] \in Criteria /\ FileFits(id, defined[id])'
    OBVIOUS
  <2>1. /\ id \in DOMAIN defined /\ defined'[id] = defined[id]
        /\ defined[id] \in Criteria /\ FileFits(id, defined[id])
    BY <1>8 DEF IdInv
  <2>2. QED
    BY <1>1, <2>1 DEF FileFits
<1>11. \A u \in Writers : call[u].id \notin DOMAIN defined /\ call[u].id # n
  BY <1>1 DEF IdInv
<1>12. \A u \in Writers' : call'[u].id \notin DOMAIN defined'
  BY <1>3, <1>4, <1>5, <1>8, <1>11
<1>13. \A u, v \in Writers' : call'[u].id = call'[v].id => u = v
  BY <1>3, <1>4, <1>5, <1>11 DEF IdInv
<1>14. ASSUME NEW u \in Writers'
       PROVE  /\ call'[u].at = "write" => call'[u].c.kept
              /\ call'[u].at = "push" => FileFits(call[u].id, call[u].c)'
  <2>1. CASE u = t
    BY <1>3, <1>4, <2>1
  <2>2. CASE u # t
    <3>1. u \in Writers /\ call'[u] = call[u]
      BY <1>5, <1>14, <2>2
    <3>2. /\ call[u].at = "write" => call[u].c.kept
          /\ call[u].at = "push" => FileFits(call[u].id, call[u].c)
      BY <3>1 DEF IdInv
    <3>3. QED
      BY <1>1, <3>1, <3>2 DEF FileFits
  <2>3. QED
    BY <2>1, <2>2
<1>15. ASSUME NEW id \in DOMAIN store' \ DOMAIN defined'
       PROVE  Explained(id)'
  <2>1. CASE id = n
    BY <1>3, <1>4, <1>5, <2>1 DEF Explained
  <2>2. CASE id # n
    <3>1. id \in DOMAIN store \ DOMAIN defined
      BY <1>1, <1>8, <1>15, <2>2
    <3>2. Explained(id)
      BY <3>1 DEF IdInv
    <3>3. QED
      BY <1>1, <1>2, <1>5, <3>2 DEF Explained
  <2>3. QED
    BY <2>1, <2>2
<1>16. QED
  BY <1>7, <1>8, <1>10, <1>12, <1>13, <1>14, <1>15 DEF IdInv

(* The file goes, or is left by a failure.                                 *)
LEMMA DeleteReturnsKeepsIds ==
  ASSUME CallInv, BoundInv, IdInv, NEW t \in Threads, DeleteReturns(t),
         UNCHANGED bootVars
  PROVE  IdInv'
<1> DEFINE n == call[t].id
<1>1. /\ call[t].at = "delete" /\ Goes(t, Idle) /\ memory' = memory
      /\ defined' = defined /\ lastId' = lastId
      /\ \/ store' = Without(store, {n}) /\ faults' = faults
         \/ store' = store /\ Fault
  BY DEF DeleteReturns, DeleteFile
<1>2. failedFast' = failedFast
  BY DEF bootVars, initVars, flags
<1>3. Writers' = Writers \ {t} /\ \A u \in Writers \ {t} : call'[u] = call[u]
  BY <1>1, WriterLeaves
<1>4. t \in Writers
  BY <1>1 DEF Writers, At
<1>5. n \notin DOMAIN defined /\ \A u \in Writers \ {t} : call[u].id # n
  BY <1>4 DEF IdInv
<1>6. /\ IsTable(memory, lastId) /\ IsTable(store, lastId)
      /\ IsTable(defined, lastId)
  BY DEF IdInv
<1>7. /\ IsTable(store', lastId') /\ DOMAIN store \ {n} \subseteq DOMAIN store'
      /\ DOMAIN store' \subseteq DOMAIN store
      /\ \A i \in DOMAIN store \ {n} : store'[i] = store[i]
  <2>1. CASE store' = Without(store, {n})
    <3> DEFINE w == Without(store, {n})
    <3>1. /\ IsTable(w, lastId) /\ DOMAIN w = DOMAIN store \ {n}
          /\ \A i \in DOMAIN store \ {n} : w[i] = store[i]
      BY <1>6, WithoutTable
    <3>2. store' = w
      BY <2>1
    <3> HIDE DEF w, n
    <3>3. QED
      BY <1>1, <3>1, <3>2
  <2>2. CASE store' = store
    BY <1>1, <1>6, <2>2
  <2>3. QED
    BY <1>1, <2>1, <2>2
<1>8. \A id, d : id # n => (FileFits(id, d) => FileFits(id, d)')
  <2> HIDE DEF n
  <2>1. QED
    BY <1>7 DEF FileFits
<1>9. \A id \in DOMAIN defined' :
        defined'[id] \in Criteria /\ FileFits(id, defined[id])'
  <2> SUFFICES ASSUME NEW id \in DOMAIN defined'
               PROVE  defined'[id] \in Criteria /\ FileFits(id, defined[id])'
    OBVIOUS
  <2> HIDE DEF n
  <2>1. /\ id \in DOMAIN defined /\ id # n /\ defined'[id] = defined[id]
        /\ defined[id] \in Criteria /\ FileFits(id, defined[id])
    BY <1>1, <1>5 DEF IdInv
  <2>2. QED
    BY <1>7, <2>1 DEF FileFits
<1>10. \A u \in Writers' : call'[u].id \notin DOMAIN defined'
  BY <1>1, <1>3 DEF IdInv
<1>11. \A u, v \in Writers' : call'[u].id = call'[v].id => u = v
  BY <1>3 DEF IdInv
<1>12. ASSUME NEW u \in Writers'
       PROVE  /\ call'[u].at = "write" => call'[u].c.kept
              /\ call'[u].at = "push" => FileFits(call[u].id, call[u].c)'
  <2>1. u \in Writers /\ call'[u] = call[u] /\ call[u].id # n
    BY <1>3, <1>5, <1>12
  <2>2. /\ call[u].at = "write" => call[u].c.kept
        /\ call[u].at = "push" => FileFits(call[u].id, call[u].c)
    BY <2>1 DEF IdInv
  <2> HIDE DEF n
  <2>3. QED
    BY <1>7, <2>1, <2>2 DEF FileFits
<1>13. ASSUME NEW id \in DOMAIN store' \ DOMAIN defined'
       PROVE  Explained(id)'
  <2>1. CASE Fault
    <3>1. faults' > 0
      BY <2>1, FaultsAreNumbers
    <3>2. QED
      BY <3>1 DEF Explained
  <2>2. CASE store' = Without(store, {n}) /\ faults' = faults
    <3>1. DOMAIN store' = DOMAIN store \ {n}
      BY <1>6, <2>2, WithoutTable
    <3>2. id \in DOMAIN store \ DOMAIN defined /\ id # n
      BY <1>1, <1>13, <3>1
    <3>3. Explained(id)
      BY <3>2 DEF IdInv
    <3>4. \A u \in Writers : call[u].id = id => u \in Writers' /\ call'[u] = call[u]
      BY <1>3, <3>2
    <3>5. QED
      BY <1>2, <2>2, <3>3, <3>4 DEF Explained
  <2>3. QED
    BY <1>1, <2>1, <2>2
<1>14. QED
  BY <1>1, <1>6, <1>7, <1>9, <1>10, <1>11, <1>12, <1>13 DEF IdInv

(* The process ends: what outlives it is in the data store.                *)
LEMMA RestartKeepsIds ==
  ASSUME IdInv, ProcessRestarts, faults' > 0 \/ failedFast'
  PROVE  IdInv'
<1> DEFINE gone == {i \in DOMAIN defined : ~defined[i].kept}
<1>1. /\ call' = [u \in Threads |-> Idle] /\ memory' = Nothing
      /\ defined' = Without(defined, gone) /\ store' = store
      /\ lastId' = lastId
  BY DEF ProcessRestarts, Restarts
<1>2. Writers' = {}
  BY <1>1, IdleCall DEF Writers, At
<1>3. /\ IsTable(memory, lastId) /\ IsTable(store, lastId)
      /\ IsTable(defined, lastId)
  BY DEF IdInv
<1>4. IsTable(memory', lastId') /\ IsTable(store', lastId')
  BY <1>1, <1>3, NoTable
<1> HIDE DEF gone
<1>5. /\ IsTable(defined', lastId') /\ DOMAIN defined' = DOMAIN defined \ gone
      /\ \A i \in DOMAIN defined \ gone : defined'[i] = defined[i]
  BY <1>1, <1>3, WithoutTable
<1>6. \A id \in DOMAIN defined' :
        defined'[id] \in Criteria /\ FileFits(id, defined[id])'
  <2> SUFFICES ASSUME NEW id \in DOMAIN defined'
               PROVE  defined'[id] \in Criteria /\ FileFits(id, defined[id])'
    OBVIOUS
  <2>1. /\ id \in DOMAIN defined /\ defined'[id] = defined[id]
        /\ defined[id] \in Criteria /\ FileFits(id, defined[id])
    BY <1>5 DEF IdInv
  <2>2. QED
    BY <1>1, <2>1 DEF FileFits
<1>7. \A id : Explained(id)'
  BY DEF Explained
<1>8. QED
  BY <1>2, <1>4, <1>5, <1>6, <1>7 DEF IdInv

(* Most steps give no id out and write no file.                            *)
LEMMA IdsAlone ==
  ASSUME IdInv, CallInv, BoundInv,
         Writers' = Writers, \A u \in Writers : call'[u] = call[u],
         UNCHANGED <<memory, store, defined, lastId>>,
         faults > 0 => faults' > 0, failedFast => failedFast'
  PROVE  IdInv'
<1>1. lastId \in Nat
  BY DEF BoundInv
<1>2. lastId' \in Nat /\ lastId <= lastId'
  BY <1>1
<1>3. IsTable(memory', lastId')
  BY DEF IdInv
<1>4. QED
  BY <1>2, <1>3, IdsStay

(* Looking up a dependency leaves the files of the ids alone.              *)
LEMMA LookupKeepsIds ==
  ASSUME IdInv, CallInv, BoundInv, NEW t \in Threads, NEW id, NEW to,
         Lookup(t, id, to), call[t].at \notin {"write", "push", "delete"},
         to.at \notin {"write", "push", "delete"}, memory' = memory,
         defined' = defined, lastId' = lastId, faults' = faults,
         failedFast' = failedFast
  PROVE  IdInv'
<1>1. lastId \in Nat
  BY DEF BoundInv
<1>2. lastId' \in Nat /\ lastId <= lastId'
  BY <1>1
<1>3. IsTable(memory', lastId')
  BY DEF IdInv
<1>4. Goes(t, to) \/ call' = call
  BY LookupFiles
<1>5. Writers' = Writers /\ \A u \in Writers : call'[u] = call[u]
  BY <1>4, WritersGoOn, WritersStay
<1>6. \/ store' = store
      \/ \E i \in DOMAIN store :
           store[i] = NoData /\ store' = Without(store, {i})
  BY LookupFiles
<1>7. QED
  BY <1>2, <1>3, <1>5, <1>6, IdsStay

(* The calls of MsixDynamicDependency.cpp keep the data store.             *)
LEMMA DependencyCallsKeepIds ==
  ASSUME CallInv, BoundInv, IdInv, NEW t \in Threads, DependencyCall(t),
         UNCHANGED bootVars
  PROVE  IdInv'
<1> USE DEF depVars, libVars, graphVars, listVars, ids, appVars, historyVars,
            bootVars, initVars, managerVars, flags
<1>1. failedFast' = failedFast
  OBVIOUS
<1>2. ASSUME NEW c \in Criteria \ {FrameworkCriteria}, TryCreate(t, c)
      PROVE  IdInv'
  BY <1>2, TryCreateKeepsIds
<1>3. CASE WriteFile(t)
  BY <1>3, WriteFileKeepsIds
<1>4. CASE WriteFails(t)
  BY <1>4, WriteFailsKeepsIds
<1>5. CASE CreateReturns(t)
  BY <1>5, CreateReturnsKeepsIds
<1>6. ASSUME NEW id \in Ids, DeletePackageDependency(t, id)
      PROVE  IdInv'
  BY <1>6, DeleteKeepsIds
<1>7. ASSUME NEW id \in Ids, NEW rank \in Ranks, NEW prepend \in BOOLEAN,
             AddPackageDependency(t, id, rank, prepend)
      PROVE  IdInv'
  <2> DEFINE to == [at |-> "resolve", id |-> id, rank |-> rank,
                    prepend |-> prepend]
  <2>1. /\ Begins(t) /\ Lookup(t, id, to)
        /\ UNCHANGED <<memory, defined, lastId, faults>>
    BY <1>7 DEF AddPackageDependency
  <2>2. /\ to.at \notin {"write", "push", "delete"}
        /\ call[t].at \notin {"write", "push", "delete"}
    BY <2>1, IdleCall DEF Begins
  <2> HIDE DEF to
  <2>3. QED
    BY <1>1, <2>1, <2>2, LookupKeepsIds
<1>8. ASSUME NEW to, Goes(t, to),
             call[t].at \notin {"write", "push", "delete"},
             to.at \notin {"write", "push", "delete"},
             UNCHANGED <<memory, store, defined, lastId>>,
             faults' = faults \/ Fault
      PROVE  IdInv'
  <2>1. Writers' = Writers /\ \A u \in Writers : call'[u] = call[u]
    BY <1>8, WritersGoOn
  <2>2. faults > 0 => faults' > 0
    BY <1>8, FaultsAreNumbers
  <2>3. QED
    BY <1>1, <1>8, <2>1, <2>2, IdsAlone
<1>9. ASSUME call' = call, UNCHANGED <<memory, store, defined, lastId, faults>>
      PROVE  IdInv'
  <2>1. Writers' = Writers /\ \A u \in Writers : call'[u] = call[u]
    BY <1>9, WritersStay
  <2>2. QED
    BY <1>1, <1>9, <2>1, IdsAlone
<1>10. ASSUME NEW x \in held, RemovePackageDependency(t, x)
       PROVE  IdInv'
  <2> DEFINE to == [at |-> "remove"]
  <2>1. /\ call[t] = Idle /\ Goes(t, to)
        /\ UNCHANGED <<memory, store, defined, lastId, faults>>
    BY <1>10 DEF RemovePackageDependency, Begins
  <2>2. to.at \notin {"write", "push", "delete"}
    OBVIOUS
  <2> HIDE DEF to
  <2>3. QED
    BY <1>8, <2>1, <2>2, IdleCall
<1>11. ASSUME NEW i \in DOMAIN path, AppDrops(t, i)
       PROVE  IdInv'
  BY <1>9, <1>11 DEF AppDrops
<1>12. CASE DeleteReturns(t)
  BY <1>12, DeleteReturnsKeepsIds
<1>13. CASE Resolve(t)
  <2> DEFINE to == [at |-> "update", context |-> lastContext']
  <2>1. /\ call[t].at = "resolve"
        /\ Goes(t, to) \/ Goes(t, Idle)
        /\ UNCHANGED <<memory, store, defined, lastId, faults>>
    BY <1>13 DEF Resolve, Resolves, NotFound
  <2>2. to.at \notin {"write", "push", "delete"}
    OBVIOUS
  <2> HIDE DEF to
  <2>3. QED
    BY <1>8, <2>1, <2>2, IdleCall
<1>14. CASE AddReturns(t)
  <2>1. /\ call[t].at = "update" /\ Goes(t, Idle)
        /\ UNCHANGED <<memory, store, defined, lastId>>
        /\ faults' = faults \/ Fault
    BY <1>14 DEF AddReturns, Added, EndsUpdate
  <2>2. QED
    BY <1>8, <2>1, IdleCall
<1>15. CASE RemoveReturns(t)
  <2>1. /\ call[t].at = "remove" /\ Goes(t, Idle)
        /\ UNCHANGED <<memory, store, defined, lastId>>
        /\ faults' = faults \/ Fault
    BY <1>15 DEF RemoveReturns, EndsUpdate
  <2>2. QED
    BY <1>8, <2>1, IdleCall
<1>16. QED
  BY <1>2, <1>3, <1>4, <1>5, <1>6, <1>7, <1>10, <1>11, <1>12, <1>13, <1>14,
     <1>15 DEF DependencyCall

(* The dependency of the initialization does not outlive the process.      *)
LEMMA BootstrapCallsKeepIds ==
  ASSUME CallInv, BoundInv, IdInv, NEW t \in Threads, BootstrapCall(t)
  PROVE  IdInv'
<1> USE DEF depVars, libVars, graphVars, listVars, ids, appVars, historyVars,
            bootVars, initVars, managerVars, flags
<1>1. ASSUME NEW to, Goes(t, to), call[t].at \notin {"write", "push", "delete"},
             to.at \notin {"write", "push", "delete"},
             UNCHANGED <<memory, store, defined, lastId>>,
             faults' = faults \/ Fault, failedFast' = failedFast
      PROVE  IdInv'
  <2>1. Writers' = Writers /\ \A u \in Writers : call'[u] = call[u]
    BY <1>1, WritersGoOn
  <2>2. faults > 0 => faults' > 0
    BY <1>1, FaultsAreNumbers
  <2>3. QED
    BY <1>1, <2>1, <2>2, IdsAlone
<1>2. CASE BeginInitialize(t)
  <2>1. failedFast' = failedFast
    BY <1>2 DEF BeginInitialize
  <2>2. /\ call[t] = Idle
        /\ UNCHANGED <<memory, store, defined, lastId, faults>>
        /\ Goes(t, [at |-> "increment"]) \/ Goes(t, [at |-> "manager"])
    BY <1>2 DEF BeginInitialize, Begins
  <2>3. CASE Goes(t, [at |-> "increment"])
    BY <1>1, <2>1, <2>2, <2>3, IdleCall
  <2>4. CASE Goes(t, [at |-> "manager"])
    BY <1>1, <2>1, <2>2, <2>4, IdleCall
  <2>5. QED
    BY <2>2, <2>3, <2>4
<1>3. CASE FailsFast(t)
  <2>1. ProcessRestarts
    BY <1>3 DEF FailsFast
  <2>2. failedFast'
    BY <1>3 DEF FailsFast
  <2>3. QED
    BY <2>1, <2>2, RestartKeepsIds
<1>4. CASE CreateLifetimeManager(t)
  <2> DEFINE to == [at |-> "add path", manager |-> lastManager']
  <2>1. /\ call[t].at = "manager" /\ Goes(t, to)
        /\ UNCHANGED <<memory, store, defined, lastId, faults>>
    BY <1>4 DEF CreateLifetimeManager
  <2>2. to.at \notin {"write", "push", "delete"}
    OBVIOUS
  <2>3. failedFast' = failedFast
    BY <1>4 DEF CreateLifetimeManager
  <2> HIDE DEF to
  <2>4. QED
    BY <1>1, <2>1, <2>2, <2>3
<1>5. CASE NoManager(t)
  <2>1. /\ call[t].at = "manager" /\ Goes(t, Idle) /\ Fault
        /\ UNCHANGED <<memory, store, defined, lastId>>
    BY <1>5 DEF NoManager
  <2>2. failedFast' = failedFast
    BY <1>5 DEF NoManager
  <2>3. QED
    BY <1>1, <2>1, <2>2, IdleCall
<1>6. CASE AddFrameworkToPath(t)
  <2> DEFINE to == [call[t] EXCEPT !.at = "create"]
  <2>1. /\ call[t].at = "add path"
        /\ UNCHANGED <<memory, store, defined, lastId>>
        /\ \/ Goes(t, to) /\ faults' = faults
           \/ Goes(t, Idle) /\ Fault
    BY <1>6 DEF AddFrameworkToPath, WritePath, InitializationFails
  <2>2. failedFast' = failedFast
    BY <1>6 DEF AddFrameworkToPath, InitializationFails
  <2>3. to.at = "create"
    <3>1. call[t] \in [at : {"add path", "create"}, manager : 1..lastManager]
      BY <2>1, CallIsTyped, CallKinds
    <3>2. QED
      BY <3>1
  <2> HIDE DEF to
  <2>4. QED
    BY <1>1, <2>1, <2>2, <2>3, IdleCall
<1>7. CASE CreateFrameworkDependency(t)
  <2>1. call[t].at = "create" /\ faults' = faults
    BY <1>7 DEF CreateFrameworkDependency
  <2>2. failedFast' = failedFast
    BY <1>7 DEF CreateFrameworkDependency, InitializationFails
  <2>3. CASE Resolutions(FrameworkCriteria) = {NoPackage}
    <3>1. Goes(t, Idle) /\ UNCHANGED <<memory, store, defined, lastId>>
      BY <1>7, <2>3 DEF CreateFrameworkDependency, InitializationFails
    <3>2. QED
      BY <1>1, <2>1, <2>2, <3>1, IdleCall
  <2>4. CASE Resolutions(FrameworkCriteria) # {NoPackage}
    <3> DEFINE to == [at |-> "boot lookup", manager |-> call[t].manager,
                      id |-> lastId']
               n == lastId'
    <3>1. /\ n = lastId + 1 /\ Goes(t, to)
          /\ memory' = With(memory, n, FrameworkCriteria)
          /\ store' = store /\ defined' = defined
      BY <1>7, <2>4 DEF CreateFrameworkDependency, PushBack
    <3>2. to.at \notin {"write", "push", "delete"}
      OBVIOUS
    <3> HIDE DEF to
    <3>3. Writers' = Writers /\ \A u \in Writers : call'[u] = call[u]
      BY <2>1, <3>1, <3>2, WritersGoOn
    <3>4. n \in Nat /\ lastId \in Nat /\ lastId <= n /\ n \in 1..n
      <4>1. lastId \in Nat
        BY DEF BoundInv
      <4>2. QED
        BY <3>1, <4>1
    <3>5. IsTable(memory, lastId)
      BY DEF IdInv
    <3>6. lastId' = n
      OBVIOUS
    <3> HIDE DEF n
    <3>7. FrameworkCriteria \in Criteria \union {NoData}
      BY FrameworkAssumption
    <3>8. IsTable(With(memory, n, FrameworkCriteria), n)
      BY <3>4, <3>5, <3>7, WithTable
    <3>9. IsTable(memory', lastId')
      BY <3>1, <3>6, <3>8
    <3>10. lastId' \in Nat /\ lastId <= lastId'
      BY <3>4, <3>6
    <3>11. QED
      BY <2>1, <2>2, <3>1, <3>3, <3>9, <3>10, IdsStay
  <2>5. QED
    BY <2>3, <2>4
<1>8. CASE LookupFramework(t)
  <2> DEFINE to == [call[t] EXCEPT !.at = "boot resolve"]
  <2>1. /\ call[t].at = "boot lookup" /\ Lookup(t, call[t].id, to)
        /\ UNCHANGED <<memory, defined, lastId, faults>>
    BY <1>8 DEF LookupFramework
  <2>2. failedFast' = failedFast
    BY <1>8 DEF LookupFramework
  <2>3. to.at = "boot resolve"
    <3>1. call[t] \in [at : {"boot lookup", "boot resolve"},
                       manager : 1..lastManager, id : 1..lastId]
      BY <2>1, CallIsTyped, CallKinds
    <3>2. QED
      BY <3>1
  <2> HIDE DEF to
  <2>4. QED
    BY <2>1, <2>2, <2>3, LookupKeepsIds
<1>9. CASE AddFramework(t)
  <2> DEFINE to == [at |-> "boot update", manager |-> call[t].manager,
                    context |-> lastContext']
  <2>1. /\ call[t].at = "boot resolve"
        /\ Goes(t, to) \/ Goes(t, Idle)
        /\ UNCHANGED <<memory, store, defined, lastId, faults>>
    BY <1>9 DEF AddFramework, Resolves, NotFound, InitializationFails
  <2>2. failedFast' = failedFast
    BY <1>9 DEF AddFramework, InitializationFails
  <2>3. to.at \notin {"write", "push", "delete"}
    OBVIOUS
  <2> HIDE DEF to
  <2>4. QED
    BY <1>1, <2>1, <2>2, <2>3, IdleCall
<1>10. CASE AddFrameworkReturns(t)
  <2> DEFINE to == [call[t] EXCEPT !.at = "trim"]
  <2>1. /\ call[t].at = "boot update"
        /\ Goes(t, to) \/ Goes(t, Idle)
        /\ UNCHANGED <<memory, store, defined, lastId>>
        /\ faults' = faults \/ Fault
    BY <1>10 DEF AddFrameworkReturns, Added, EndsUpdate, InitializationFails
  <2>2. failedFast' = failedFast
    BY <1>10 DEF AddFrameworkReturns, InitializationFails
  <2>3. to.at = "trim"
    <3>1. call[t] \in [at : {"boot update", "trim"}, manager : 1..lastManager,
                       context : 1..lastContext]
      BY <2>1, CallIsTyped, CallKinds
    <3>2. QED
      BY <3>1
  <2> HIDE DEF to
  <2>4. QED
    BY <1>1, <2>1, <2>2, <2>3, IdleCall
<1>11. CASE RemoveFrameworkFromPath(t)
  <2> DEFINE to == [at |-> "increment"]
  <2>1. call[t].at = "trim" /\ Goes(t, to) /\ (faults' = faults \/ Fault)
    BY <1>11 DEF RemoveFrameworkFromPath
  <2>2. UNCHANGED <<memory, store, defined, lastId>>
    BY <1>11 DEF RemoveFrameworkFromPath, WritePath
  <2>3. failedFast' = failedFast
    BY <1>11 DEF RemoveFrameworkFromPath
  <2>4. to.at \notin {"write", "push", "delete"}
    OBVIOUS
  <2> HIDE DEF to
  <2>5. QED
    BY <1>1, <2>1, <2>2, <2>3, <2>4
<1>12. CASE IncrementCount(t)
  <2>1. /\ call[t].at = "increment" /\ Goes(t, Idle)
        /\ UNCHANGED <<memory, store, defined, lastId, faults>>
    BY <1>12 DEF IncrementCount
  <2>2. failedFast' = failedFast
    BY <1>12 DEF IncrementCount
  <2>3. QED
    BY <1>1, <2>1, <2>2, IdleCall
<1>13. CASE Shutdown(t)
  <2>1. /\ call' = call
        /\ UNCHANGED <<memory, store, defined, lastId, faults>>
    BY <1>13 DEF Shutdown, BeginShutdown
  <2>2. failedFast' = failedFast
    BY <1>13 DEF Shutdown, BeginShutdown
  <2>3. Writers' = Writers /\ \A u \in Writers : call'[u] = call[u]
    BY <2>1, WritersStay
  <2>4. QED
    BY <2>1, <2>2, <2>3, IdsAlone
<1>14. CASE ShutdownLast(t)
  <2> DEFINE to == [at |-> "shut down"]
  <2>1. /\ call[t] = Idle /\ Goes(t, to)
        /\ UNCHANGED <<memory, store, defined, lastId, faults>>
    BY <1>14 DEF ShutdownLast, BeginShutdown, Begins
  <2>2. failedFast' = failedFast
    BY <1>14 DEF ShutdownLast, BeginShutdown
  <2>3. to.at \notin {"write", "push", "delete"}
    OBVIOUS
  <2> HIDE DEF to
  <2>4. QED
    BY <1>1, <2>1, <2>2, <2>3, IdleCall
<1>15. CASE ShutdownReturns(t)
  <2>1. /\ call[t].at = "shut down" /\ Goes(t, Idle)
        /\ UNCHANGED <<memory, store, defined, lastId>>
        /\ faults' = faults \/ Fault
    BY <1>15 DEF ShutdownReturns, EndsUpdate
  <2>2. failedFast' = failedFast
    BY <1>15 DEF ShutdownReturns
  <2>3. QED
    BY <1>1, <2>1, <2>2, IdleCall
<1>16. QED
  BY <1>2, <1>3, <1>4, <1>5, <1>6, <1>7, <1>8, <1>9, <1>11, <1>12, <1>13,
     <1>14, <1>10, <1>15 DEF BootstrapCall

-----------------------------------------------------------------------------
(* The count is that of the initializations the threads have to balance:   *)
(* each of them is a ticket.  Until the last Shutdown returns it counts an *)
(* initialization that is nobody's.                                        *)
Tickets  == {x \in Threads \X Nat : 1 <= x[2] /\ x[2] <= inits[x[1]]}
HalfDown == boot.context = 0 /\ boot.manager # 0
Owed     == IF HalfDown THEN count - 1 ELSE count

TicketInv ==
  /\ count \in Nat /\ inits \in [Threads -> Nat]
  /\ HalfDown => count > 0
  /\ IsFiniteSet(Tickets) /\ Cardinality(Tickets) = Owed

(* A lifetime manager somebody relies on is not told to end.               *)
Using == {"add path", "create", "boot lookup", "boot resolve", "boot update",
          "trim"}

ManagerInv ==
  /\ boot \in [context : Nat, manager : 0..lastManager]
  /\ managers \subseteq 1..lastManager /\ ending \subseteq managers
  /\ orphans \subseteq 1..lastManager
  /\ \A t \in At(Using) : call[t].manager \in managers \ ending
  /\ boot # NotBooted => boot.manager \in managers \ ending

(* While no count was read just before it was incremented, the globals     *)
(* agree with the count whenever the lock is free.                         *)
RaceInv ==
  /\ raced \in BOOLEAN /\ failedFast \in BOOLEAN
  /\ ~raced =>
       /\ ~failedFast
       /\ bootLock # NoThread =>
            Incrementing = {} /\ count = IF HalfDown THEN 1 ELSE 0
       /\ bootLock = NoThread =>
            (boot # NotBooted <=> count > 0 \/ Incrementing # {})

(* What a ticket is                                                        *)
LEMMA TicketsAre ==
  ASSUME inits \in [Threads -> Nat]
  PROVE  /\ \A u, n : <<u, n>> \in Tickets <=>
                        u \in Threads /\ n \in Nat /\ 1 <= n /\ n <= inits[u]
         /\ \A x \in Tickets : x = <<x[1], x[2]>> /\ x[1] \in Threads
                               /\ x[2] \in Nat
BY DEF Tickets

(* IncrementCount adds a ticket.                                           *)
LEMMA TicketTaken ==
  ASSUME TicketInv, NEW t \in Threads, count' = count + 1, boot' = boot,
         inits' = [inits EXCEPT ![t] = @ + 1]
  PROVE  TicketInv' /\ count' > 0
<1>1. count \in Nat /\ inits \in [Threads -> Nat]
  BY DEF TicketInv
<1>2. /\ inits' \in [Threads -> Nat] /\ inits'[t] = inits[t] + 1
      /\ \A u \in Threads \ {t} : inits'[u] = inits[u]
  BY <1>1
<1> DEFINE x == <<t, inits[t] + 1>>
<1>3. inits[t] \in Nat
  BY <1>1
<1>4. x \notin Tickets
  <2>1. ~(inits[t] + 1 <= inits[t])
    BY <1>3
  <2>2. QED
    BY <1>1, <2>1, TicketsAre
<1>5. Tickets' = Tickets \union {x}
  <2>1. \A u, n : <<u, n>> \in Tickets' <=>
          u \in Threads /\ n \in Nat /\ 1 <= n /\ n <= inits'[u]
    BY <1>2 DEF Tickets
  <2>2. \A y \in Tickets' : y = <<y[1], y[2]>> /\ y[1] \in Threads
                            /\ y[2] \in Nat
    BY <1>2 DEF Tickets
  <2>3. ASSUME NEW u \in Threads, NEW n \in Nat
        PROVE  <<u, n>> \in Tickets' <=> <<u, n>> \in Tickets \/ <<u, n>> = x
    <3>1. CASE u = t
      <4>1. n <= inits[t] + 1 <=> n <= inits[t] \/ n = inits[t] + 1
        BY <1>3
      <4>2. 1 <= inits[t] + 1
        BY <1>3
      <4>3. <<u, n>> = x <=> n = inits[t] + 1
        BY <3>1
      <4>4. <<u, n>> \in Tickets' <=> 1 <= n /\ n <= inits[t] + 1
        BY <1>2, <2>1, <3>1
      <4>5. <<u, n>> \in Tickets <=> 1 <= n /\ n <= inits[t]
        BY <1>1, <3>1, TicketsAre
      <4>6. QED
        BY <4>1, <4>2, <4>3, <4>4, <4>5
    <3>2. CASE u # t
      BY <1>1, <1>2, <2>1, <3>2, TicketsAre
    <3>3. QED
      BY <3>1, <3>2
  <2>4. x[1] \in Threads /\ x[2] \in Nat /\ x = <<x[1], x[2]>>
    BY <1>3
  <2>5. Tickets' \subseteq Tickets \union {x}
    BY <2>2, <2>3
  <2>6. Tickets \subseteq Tickets'
    BY <1>1, <2>3, TicketsAre
  <2>7. x \in Tickets'
    <3>1. <<t, inits[t] + 1>> \in Tickets'
      BY <1>3, <2>3
    <3>2. QED
      BY <3>1
  <2> HIDE DEF x
  <2>8. QED
    BY <2>5, <2>6, <2>7
<1>6. IsFiniteSet(Tickets) /\ Cardinality(Tickets) = Owed
  BY DEF TicketInv
<1> HIDE DEF x
<1>7. /\ IsFiniteSet(Tickets \union {x})
      /\ Cardinality(Tickets \union {x}) = Cardinality(Tickets) + 1
  BY <1>4, <1>6, FS_AddElement
<1>8. Owed' = Owed + 1
  BY <1>1 DEF Owed, HalfDown
<1>9. IsFiniteSet(Tickets') /\ Cardinality(Tickets') = Owed'
  BY <1>5, <1>6, <1>7, <1>8
<1>10. count' \in Nat /\ count' > 0
  BY <1>1
<1>11. QED
  BY <1>2, <1>9, <1>10 DEF TicketInv

(* A thread with a ticket sees that the count is not zero.                 *)
LEMMA TicketHeld ==
  ASSUME TicketInv, NEW t \in Threads, inits[t] > 0
  PROVE  count > 0 /\ (HalfDown => count > 1)
<1>1. count \in Nat /\ inits \in [Threads -> Nat]
  BY DEF TicketInv
<1>2. <<t, inits[t]>> \in Tickets
  <2>1. inits[t] \in Nat /\ 1 <= inits[t] /\ inits[t] <= inits[t]
    BY <1>1
  <2>2. QED
    BY <1>1, <2>1, TicketsAre
<1>3. Tickets # {} /\ IsFiniteSet(Tickets) /\ Cardinality(Tickets) = Owed
  BY <1>2 DEF TicketInv
<1>4. Cardinality(Tickets) # 0
  BY <1>3, FS_EmptySet
<1>5. Owed # 0 /\ (HalfDown => count > 0)
  BY <1>3, <1>4 DEF TicketInv
<1>6. QED
  BY <1>1, <1>5 DEF Owed

(* Shutdown takes a ticket away.                                           *)
LEMMA TicketReturned ==
  ASSUME TicketInv, NEW t \in Threads, inits[t] > 0, count' \in Nat,
         HalfDown' => count' > 0, Owed' = Owed - 1,
         inits' = [inits EXCEPT ![t] = @ - 1]
  PROVE  TicketInv'
<1>1. count \in Nat /\ inits \in [Threads -> Nat] /\ inits[t] \in Nat
  BY DEF TicketInv
<1>2. Owed \in Int
  BY <1>1 DEF Owed
<1>3. /\ inits' \in [Threads -> Nat] /\ inits'[t] = inits[t] - 1
      /\ \A u \in Threads \ {t} : inits'[u] = inits[u]
  <2>1. inits[t] - 1 \in Nat
    BY <1>1
  <2>2. QED
    BY <1>1, <2>1
<1> DEFINE x == <<t, inits[t]>>
<1>4. x \in Tickets
  <2>1. 1 <= inits[t] /\ inits[t] <= inits[t]
    BY <1>1
  <2>2. QED
    BY <1>1, <2>1, TicketsAre
<1>5. Tickets' = Tickets \ {x}
  <2>1. \A u, n : <<u, n>> \in Tickets' <=>
          u \in Threads /\ n \in Nat /\ 1 <= n /\ n <= inits'[u]
    BY <1>3 DEF Tickets
  <2>2. \A y \in Tickets' : y = <<y[1], y[2]>> /\ y[1] \in Threads
                            /\ y[2] \in Nat
    BY <1>3 DEF Tickets
  <2>3. ASSUME NEW u \in Threads, NEW n \in Nat
        PROVE  <<u, n>> \in Tickets' <=> <<u, n>> \in Tickets /\ <<u, n>> # x
    <3>1. CASE u = t
      <4>1. n <= inits[t] - 1 <=> n <= inits[t] /\ n # inits[t]
        BY <1>1
      <4>2. <<u, n>> = x <=> n = inits[t]
        BY <3>1
      <4>3. <<u, n>> \in Tickets' <=> 1 <= n /\ n <= inits[t] - 1
        BY <1>3, <2>1, <3>1
      <4>4. <<u, n>> \in Tickets <=> 1 <= n /\ n <= inits[t]
        BY <1>1, <3>1, TicketsAre
      <4>5. QED
        BY <4>1, <4>2, <4>3, <4>4
    <3>2. CASE u # t
      BY <1>1, <1>3, <2>1, <3>2, TicketsAre
    <3>3. QED
      BY <3>1, <3>2
  <2>4. Tickets' \subseteq Tickets /\ x \notin Tickets'
    <3>1. \A y \in Tickets' : y \in Tickets /\ y # x
      BY <2>2, <2>3
    <3>2. QED
      BY <3>1
  <2>5. \A y \in Tickets : y # x => y \in Tickets'
    BY <1>1, <2>3, TicketsAre
  <2> HIDE DEF x
  <2>6. QED
    BY <2>4, <2>5
<1>6. IsFiniteSet(Tickets) /\ Cardinality(Tickets) = Owed
  BY DEF TicketInv
<1> HIDE DEF x
<1>7. /\ IsFiniteSet(Tickets \ {x})
      /\ Cardinality(Tickets \ {x}) = Cardinality(Tickets) - 1
  BY <1>4, <1>6, FS_RemoveElement
<1>8. IsFiniteSet(Tickets') /\ Cardinality(Tickets') = Owed'
  BY <1>5, <1>6, <1>7
<1>9. QED
  BY <1>3, <1>8 DEF TicketInv

(* A new process has none.                                                 *)
LEMMA NoTickets ==
  ASSUME count' = 0, inits' = [u \in Threads |-> 0], boot' = NotBooted
  PROVE  TicketInv'
<1>1. inits' \in [Threads -> Nat] /\ count' \in Nat
  OBVIOUS
<1>2. Tickets' = {}
  <2>1. \A u \in Threads : inits'[u] = 0
    OBVIOUS
  <2>2. \A x \in Threads \X Nat : ~(1 <= x[2] /\ x[2] <= inits'[x[1]])
    BY <2>1
  <2>3. QED
    BY <2>2 DEF Tickets
<1>3. ~HalfDown' /\ Owed' = 0
  BY DEF HalfDown, Owed, NotBooted
<1>4. IsFiniteSet(Tickets') /\ Cardinality(Tickets') = Owed'
  BY <1>2, <1>3, FS_EmptySet
<1>5. QED
  BY <1>1, <1>3, <1>4 DEF TicketInv

(* A step that leaves the count alone                                      *)
LEMMA TicketsStay ==
  ASSUME TicketInv, count' = count, inits' = inits, boot' = boot
  PROVE  TicketInv'
BY DEF TicketInv, Tickets, Owed, HalfDown

(* The last Shutdown is under way while the globals are set by half.       *)
LEMMA HalfDownWhile ==
  ASSUME ContextInv
  PROVE  ShuttingDown <=> HalfDown
BY DEF ContextInv, BootFits, HalfDown, NotBooted

(* The globals of an initialization under way                              *)
LEMMA NotBootedYet ==
  ASSUME CallInv, ContextInv, NEW t \in Threads, call[t].at \in LockPlaces,
         call[t].at # "shut down"
  PROVE  boot = NotBooted /\ ~HalfDown
<1>1. bootLock # NoThread /\ ~ShuttingDown
  BY OneInside, ShuttingIsInside
<1>2. QED
  BY <1>1, HalfDownWhile DEF ContextInv, BootFits

(* What goes with the count of the initializations                         *)
CountInv == TicketInv /\ ManagerInv /\ RaceInv

(* Who is about to increment the count                                     *)
LEMMA IncrementingGoesOn ==
  ASSUME CallInv, NEW t \in Threads, NEW to, Goes(t, to)
  PROVE  /\ to.at = "increment" => Incrementing' = Incrementing \union {t}
         /\ to.at # "increment" => Incrementing' = Incrementing \ {t}
         /\ call[t].at # "increment" => Incrementing \ {t} = Incrementing
         /\ call[t].at = "increment" => t \in Incrementing
<1>1. call'[t] = to /\ \A u \in Threads \ {t} : call'[u] = call[u]
  BY GoesOn
<1>2. ASSUME to.at = "increment"
      PROVE  Incrementing' = Incrementing \union {t}
  BY <1>1, <1>2 DEF Incrementing, At
<1>3. ASSUME to.at # "increment"
      PROVE  Incrementing' = Incrementing \ {t}
  BY <1>1, <1>3 DEF Incrementing, At
<1>4. QED
  BY <1>2, <1>3 DEF Incrementing, At

(* A step that leaves the count, the globals and their lock alone          *)
LEMMA RaceStays ==
  ASSUME RaceInv, raced' = raced, failedFast' = failedFast,
         bootLock' = bootLock, boot' = boot, count' = count,
         Incrementing' = Incrementing
  PROVE  RaceInv'
BY DEF RaceInv, NotBooted, HalfDown

(* The lock is given back by an initialization that failed.                *)
LEMMA RaceEnds ==
  ASSUME CallInv, ContextInv, RaceInv, NEW t \in Threads,
         call[t].at \in LockPlaces, call[t].at # "shut down",
         Goes(t, Idle), bootLock' = NoThread,
         raced' = raced, failedFast' = failedFast, boot' = boot, count' = count
  PROVE  RaceInv'
<1>1. bootLock # NoThread
  BY OneInside
<1>2. boot' = NotBooted /\ ~HalfDown
  BY NotBootedYet
<1>3. call[t].at # "increment"
  BY DEF LockPlaces
<1>4. Incrementing' = Incrementing
  BY <1>3, IncrementingGoesOn, IdleCall
<1>5. ~raced => ~failedFast /\ count = 0 /\ Incrementing = {}
  BY <1>1, <1>2 DEF RaceInv
<1>6. ~raced' => ~failedFast' /\ ~(count' > 0) /\ Incrementing' = {}
  <2>1. raced' = raced /\ failedFast' = failedFast /\ count' = count
    OBVIOUS
  <2>2. ~raced => ~(count > 0)
    BY ONLY <1>5
  <2>3. QED
    BY ONLY <1>4, <1>5, <2>1, <2>2
<1>7. raced' \in BOOLEAN /\ failedFast' \in BOOLEAN
  BY DEF RaceInv
<1>8. QED
  BY <1>2, <1>6, <1>7 DEF RaceInv, NotBooted

(* The managers of the initializations under way                           *)
LEMMA UsersGoOn ==
  ASSUME CallInv, ManagerInv, NEW t \in Threads, NEW to, Goes(t, to),
         to.at \in Using => to.manager \in managers' \ ending',
         managers \ ending \subseteq managers' \ ending'
  PROVE  \A u \in At(Using)' : call'[u].manager \in managers' \ ending'
<1>1. call'[t] = to /\ \A u \in Threads \ {t} : call'[u] = call[u]
  BY GoesOn
<1>2. ASSUME NEW u \in Threads, call'[u].at \in Using
      PROVE  call'[u].manager \in managers' \ ending'
  <2>1. CASE u = t
    BY <1>1, <1>2, <2>1
  <2>2. CASE u # t
    <3>1. call'[u] = call[u]
      BY <1>1, <2>2
    <3>2. u \in At(Using)
      BY <1>2, <3>1 DEF At
    <3>3. call[u].manager \in managers \ ending
      BY <3>2 DEF ManagerInv
    <3>4. QED
      BY <3>1, <3>3
  <2>3. QED
    BY <2>1, <2>2
<1>3. QED
  BY <1>2 DEF At, Using

(* What ManagerInv says of one thread                                      *)
LEMMA UserIsServed ==
  ASSUME ManagerInv, NEW t \in Threads, call[t].at \in Using
  PROVE  call[t].manager \in managers \ ending
BY DEF ManagerInv, At

(* An initialization goes on with the manager it has.                      *)
LEMMA ManagersGoOn ==
  ASSUME CallInv, ManagerInv, NEW t \in Threads, NEW to, Goes(t, to),
         to.at \in Using =>
           call[t].at \in Using /\ to.manager = call[t].manager,
         managers' = managers, ending' = ending, lastManager' = lastManager,
         boot' = boot, orphans' \subseteq 1..lastManager
  PROVE  ManagerInv'
<1>1. to.at \in Using => to.manager \in managers' \ ending'
  BY UserIsServed
<1>2. \A u \in At(Using)' : call'[u].manager \in managers' \ ending'
  BY <1>1, UsersGoOn
<1>3. /\ boot' \in [context : Nat, manager : 0..lastManager']
      /\ managers' \subseteq 1..lastManager' /\ ending' \subseteq managers'
      /\ orphans' \subseteq 1..lastManager'
  BY DEF ManagerInv
<1>4. boot' # NotBooted => boot'.manager \in managers' \ ending'
  BY DEF ManagerInv
<1>5. QED
  BY <1>2, <1>3, <1>4 DEF ManagerInv, NotBooted

(* No thread goes on.                                                      *)
LEMMA ManagersStay ==
  ASSUME ManagerInv, call' = call, managers' = managers, ending' = ending,
         lastManager' = lastManager, boot' = boot, orphans' = orphans
  PROVE  ManagerInv'
BY DEF ManagerInv, NotBooted, At, Using

(* Nobody else is about to initialize, so no manager is needed.            *)
LEMMA NobodyIsServed ==
  ASSUME CallInv
  PROVE  bootLock = NoThread => At(Using) = {}
<1>1. Using \subseteq LockPlaces
  BY DEF Using, LockPlaces
<1>2. QED
  BY <1>1, NobodyInside DEF At

(* A thread goes on and does not touch the count.                          *)
LEMMA CountStays ==
  ASSUME CountInv, CallInv, NEW t \in Threads, NEW to, Goes(t, to),
         to.at # "increment", call[t].at # "increment",
         to.at \in Using =>
           call[t].at \in Using /\ to.manager = call[t].manager,
         bootLock' = bootLock,
         UNCHANGED <<count, inits, boot, managers, ending, lastManager,
                     orphans>>,
         raced' = raced, failedFast' = failedFast
  PROVE  CountInv'
<1>1. TicketInv /\ ManagerInv /\ RaceInv
  BY DEF CountInv
<1>2. TicketInv'
  BY <1>1, TicketsStay
<1>3. orphans' \subseteq 1..lastManager
  BY <1>1 DEF ManagerInv
<1>4. ManagerInv'
  BY <1>1, <1>3, ManagersGoOn
<1>5. Incrementing' = Incrementing
  BY IncrementingGoesOn
<1>6. RaceInv'
  BY <1>1, <1>5, RaceStays
<1>7. QED
  BY <1>2, <1>4, <1>6 DEF CountInv

(* No thread goes on.                                                      *)
LEMMA CountAlone ==
  ASSUME CountInv, call' = call, bootLock' = bootLock,
         UNCHANGED <<count, inits, boot, managers, ending, lastManager,
                     orphans>>,
         raced' = raced, failedFast' = failedFast
  PROVE  CountInv'
<1>1. TicketInv /\ ManagerInv /\ RaceInv
  BY DEF CountInv
<1>2. TicketInv' /\ ManagerInv'
  BY <1>1, TicketsStay, ManagersStay
<1>3. Incrementing' = Incrementing
  BY DEF Incrementing, At
<1>4. RaceInv'
  BY <1>1, <1>3, RaceStays
<1>5. QED
  BY <1>2, <1>4 DEF CountInv

(* A thread leaves the initialization without having initialized.          *)
LEMMA CountEnds ==
  ASSUME CountInv, CallInv, ContextInv, NEW t \in Threads,
         call[t].at \in LockPlaces, call[t].at # "shut down",
         Goes(t, Idle), bootLock' = NoThread,
         UNCHANGED <<count, inits, boot, managers, ending, lastManager>>,
         orphans' \subseteq 1..lastManager, raced' = raced,
         failedFast' = failedFast
  PROVE  CountInv'
<1>1. TicketInv /\ ManagerInv /\ RaceInv
  BY DEF CountInv
<1>2. TicketInv'
  BY <1>1, TicketsStay
<1>3. Idle.at \notin Using
  BY IdleCall DEF Using
<1>4. ManagerInv'
  BY <1>1, <1>3, ManagersGoOn
<1>5. RaceInv'
  BY <1>1, RaceEnds
<1>6. QED
  BY <1>2, <1>4, <1>5 DEF CountInv

(* Where the calls of MsixDynamicDependency.cpp take a thread              *)
Outside == {"idle", "write", "push", "delete", "resolve", "update", "remove"}

(* They do not go into the initialization.                                 *)
LEMMA DependencyCallsMove ==
  ASSUME CallInv, BoundInv, NEW t \in Threads, DependencyCall(t)
  PROVE  \/ call' = call
         \/ \E to : Goes(t, to) /\ to.at \in Outside /\ call[t].at \in Outside
<1> DEFINE Goal == \/ call' = call
                   \/ \E to : /\ Goes(t, to) /\ to.at \in Outside
                              /\ call[t].at \in Outside
<1> SUFFICES Goal
  OBVIOUS
<1>1. ASSUME NEW to, Goes(t, to), to.at \in Outside, call[t].at \in Outside
      PROVE  Goal
  BY <1>1
<1>2. ASSUME call' = call
      PROVE  Goal
  BY <1>2
<1> HIDE DEF Goal
<1>3. ASSUME NEW c \in Criteria \ {FrameworkCriteria}, TryCreate(t, c)
      PROVE  Goal
  <2> DEFINE to == [at |-> IF c.kept THEN "write" ELSE "push", id |-> lastId',
                    c |-> c]
  <2>1. Goes(t, to) /\ call[t] = Idle
    BY <1>3 DEF TryCreate, Begins
  <2>2. to.at \in Outside /\ call[t].at \in Outside
    BY <2>1, IdleCall DEF Outside
  <2> HIDE DEF to
  <2>3. QED
    BY <1>1, <2>1, <2>2
<1>4. CASE WriteFile(t)
  <2> DEFINE to == [call[t] EXCEPT !.at = "push"]
  <2>1. Goes(t, to) /\ call[t].at = "write"
    BY <1>4 DEF WriteFile
  <2>2. call[t] \in [at : {"write", "push"}, id : 1..lastId, c : Criteria]
    BY <2>1, CallIsTyped, CallKinds
  <2>3. to.at = "push"
    BY <2>2
  <2> HIDE DEF to
  <2>4. QED
    BY <1>1, <2>1, <2>3 DEF Outside
<1>5. CASE WriteFails(t)
  BY <1>1, <1>5, IdleCall DEF WriteFails, Outside
<1>6. CASE CreateReturns(t)
  BY <1>1, <1>6, IdleCall DEF CreateReturns, Outside
<1>7. ASSUME NEW id \in Ids, DeletePackageDependency(t, id)
      PROVE  Goal
  <2> DEFINE to == [at |-> "delete", id |-> id]
  <2>1. Goes(t, to) /\ call[t] = Idle
    BY <1>7 DEF DeletePackageDependency, Begins
  <2>2. to.at \in Outside /\ call[t].at \in Outside
    BY <2>1, IdleCall DEF Outside
  <2> HIDE DEF to
  <2>3. QED
    BY <1>1, <2>1, <2>2
<1>8. CASE DeleteReturns(t)
  BY <1>1, <1>8, IdleCall DEF DeleteReturns, Outside
<1>9. ASSUME NEW id \in Ids, NEW rank \in Ranks, NEW prepend \in BOOLEAN,
             AddPackageDependency(t, id, rank, prepend)
      PROVE  Goal
  <2> DEFINE to == [at |-> "resolve", id |-> id, rank |-> rank,
                    prepend |-> prepend]
  <2>1. Lookup(t, id, to) /\ call[t] = Idle
    BY <1>9 DEF AddPackageDependency, Begins
  <2>2. to.at \in Outside /\ call[t].at \in Outside
    BY <2>1, IdleCall DEF Outside
  <2> HIDE DEF to
  <2>3. Goes(t, to) \/ call' = call
    BY <2>1 DEF Lookup
  <2>4. QED
    BY <1>1, <1>2, <2>2, <2>3
<1>10. CASE Resolve(t)
  <2> DEFINE to == [at |-> "update", context |-> lastContext']
  <2>1. call[t].at = "resolve" /\ (Goes(t, to) \/ Goes(t, Idle))
    BY <1>10 DEF Resolve
  <2>2. to.at \in Outside /\ Idle.at \in Outside /\ call[t].at \in Outside
    BY <2>1, IdleCall DEF Outside
  <2> HIDE DEF to
  <2>3. QED
    BY <1>1, <2>1, <2>2
<1>11. CASE AddReturns(t)
  BY <1>1, <1>11, IdleCall DEF AddReturns, Outside
<1>12. ASSUME NEW x \in held, RemovePackageDependency(t, x)
       PROVE  Goal
  <2> DEFINE to == [at |-> "remove"]
  <2>1. Goes(t, to) /\ call[t] = Idle
    BY <1>12 DEF RemovePackageDependency, Begins
  <2>2. to.at \in Outside /\ call[t].at \in Outside
    BY <2>1, IdleCall DEF Outside
  <2> HIDE DEF to
  <2>3. QED
    BY <1>1, <2>1, <2>2
<1>13. CASE RemoveReturns(t)
  BY <1>1, <1>13, IdleCall DEF RemoveReturns, Outside
<1>14. ASSUME NEW i \in DOMAIN path, AppDrops(t, i)
       PROVE  Goal
  BY <1>2, <1>14 DEF AppDrops
<1>15. QED
  BY <1>3, <1>4, <1>5, <1>6, <1>7, <1>9, <1>11, <1>12, <1>14, <1>8, <1>10,
     <1>13 DEF DependencyCall

(* So they keep what goes with the count.                                  *)
LEMMA DependencyCallsKeepCount ==
  ASSUME CallInv, BoundInv, CountInv, NEW t \in Threads, DependencyCall(t),
         UNCHANGED bootVars
  PROVE  CountInv'
<1>1. /\ bootLock' = bootLock /\ raced' = raced /\ failedFast' = failedFast
      /\ UNCHANGED <<count, inits, boot, managers, ending, lastManager,
                     orphans>>
  BY DEF bootVars, initVars, managerVars, flags
<1>2. CASE call' = call
  BY <1>1, <1>2, CountAlone
<1>3. ASSUME NEW to, Goes(t, to), to.at \in Outside, call[t].at \in Outside
      PROVE  CountInv'
  <2>1. /\ to.at # "increment" /\ to.at \notin Using
        /\ call[t].at # "increment"
    BY <1>3 DEF Outside, Using
  <2>2. QED
    BY <1>1, <1>3, <2>1, CountStays
<1>4. QED
  BY <1>2, <1>3, DependencyCallsMove

(* The managers of a process that ends do not wait for it.                 *)
LEMMA RestartKeepsCount ==
  ASSUME CountInv, BoundInv, ProcessRestarts,
         raced' \in BOOLEAN /\ failedFast' \in BOOLEAN,
         ~raced' => ~failedFast'
  PROVE  CountInv'
<1>1. /\ count' = 0 /\ inits' = [u \in Threads |-> 0] /\ boot' = NotBooted
      /\ bootLock' = NoThread /\ call' = [u \in Threads |-> Idle]
      /\ ending' = managers /\ managers' = managers
      /\ lastManager' = lastManager /\ orphans' = orphans
  BY DEF ProcessRestarts, Restarts
<1>2. TicketInv'
  BY <1>1, NoTickets
<1>3. \A u \in Threads : call'[u].at = "idle"
  BY <1>1, IdleCall
<1>4. At(Using)' = {} /\ Incrementing' = {}
  BY <1>3 DEF At, Using, Incrementing
<1>5. ManagerInv
  BY DEF CountInv
<1>6. boot' \in [context : Nat, manager : 0..lastManager']
  <2>1. lastManager \in Nat /\ lastManager' = lastManager
    BY <1>1 DEF BoundInv
  <2>2. 0 \in 0..lastManager'
    BY <2>1
  <2>3. QED
    BY <1>1, <2>2 DEF NotBooted
<1>7. ManagerInv'
  BY <1>1, <1>4, <1>5, <1>6 DEF ManagerInv, NotBooted
<1>8. RaceInv'
  <2>1. ~(count' > 0) /\ boot' = NotBooted /\ Incrementing' = {}
    BY <1>1, <1>4
  <2>2. bootLock' = NoThread
    BY <1>1
  <2>3. QED
    BY <2>1, <2>2 DEF RaceInv, NotBooted
<1>9. QED
  BY <1>2, <1>7, <1>8 DEF CountInv

(* A manager that was told to ends.                                        *)
LEMMA ManagerEndKeepsCount ==
  ASSUME CountInv, NEW m, LifetimeManagerEnds(m)
  PROVE  CountInv'
<1>1. /\ managers' = managers \ {m} /\ ending' = ending \ {m} /\ m \in ending
      /\ count' = count /\ inits' = inits /\ call' = call
      /\ bootLock' = bootLock /\ boot' = boot /\ lastManager' = lastManager
      /\ orphans' = orphans
  BY DEF LifetimeManagerEnds, depVars
<1>2. raced' = raced /\ failedFast' = failedFast
  BY DEF LifetimeManagerEnds, flags
<1>3. TicketInv /\ ManagerInv /\ RaceInv
  BY DEF CountInv
<1>4. TicketInv'
  BY <1>1, <1>3, TicketsStay
<1>5. managers' \ ending' = managers \ ending /\ ending' \subseteq managers'
  BY <1>1, <1>3 DEF ManagerInv
<1>6. At(Using)' = At(Using)
  BY <1>1 DEF At, Using
<1>7. ManagerInv'
  <2>1. /\ boot' \in [context : Nat, manager : 0..lastManager']
        /\ managers' \subseteq 1..lastManager'
        /\ orphans' \subseteq 1..lastManager'
    BY <1>1, <1>3 DEF ManagerInv
  <2>2. /\ \A u \in At(Using)' : call'[u].manager \in managers' \ ending'
        /\ boot' # NotBooted => boot'.manager \in managers' \ ending'
    BY <1>1, <1>3, <1>5, <1>6 DEF ManagerInv
  <2>3. QED
    BY <1>5, <2>1, <2>2 DEF ManagerInv, NotBooted
<1>8. Incrementing' = Incrementing
  BY <1>1 DEF Incrementing, At
<1>9. RaceInv'
  BY <1>1, <1>2, <1>3, <1>8, RaceStays
<1>10. QED
  BY <1>4, <1>7, <1>9 DEF CountInv

(* The manager of an initialization is one that runs.                      *)
LEMMA ManagersAreNumbers ==
  ASSUME CallInv, BoundInv, CountInv, NEW t \in Threads,
         call[t].at \in Using
  PROVE  /\ call[t].manager \in 1..lastManager
         /\ call[t].manager \in managers \ ending
         /\ orphans \union ({call[t].manager} \ ending)
              \subseteq 1..lastManager
<1>1. call[t].manager \in 1..lastManager
  BY CallIds DEF Using
<1>2. orphans \subseteq 1..lastManager
  BY DEF CountInv, ManagerInv
<1>3. call[t].manager \in managers \ ending
  BY UserIsServed DEF CountInv
<1>4. QED
  BY <1>1, <1>2, <1>3

(* The lock of the initialization is taken, or the count is read.          *)
LEMMA BeginKeepsCount ==
  ASSUME CallInv, CountInv, NEW t \in Threads, BeginInitialize(t)
  PROVE  CountInv'
<1>1. /\ call[t] = Idle /\ bootLock = NoThread
      /\ (count > 0) = (boot # NotBooted)
      /\ count' = count /\ inits' = inits /\ boot' = boot
      /\ managers' = managers /\ ending' = ending /\ orphans' = orphans
      /\ lastManager' = lastManager
  BY DEF BeginInitialize, Begins, managerVars
<1>2. failedFast' = failedFast
  BY DEF BeginInitialize
<1>3. raced' = (raced \/ (count = 0 /\ Incrementing # {}))
  BY DEF BeginInitialize, Races
<1>4. TicketInv /\ ManagerInv /\ RaceInv
  BY DEF CountInv
<1>5. TicketInv'
  BY <1>1, <1>4, TicketsStay
<1>6. /\ raced' \in BOOLEAN /\ failedFast' \in BOOLEAN
      /\ ~raced' => ~raced /\ ~failedFast'
  BY <1>2, <1>3, <1>4 DEF RaceInv
<1>7. orphans' \subseteq 1..lastManager
  BY <1>1, <1>4 DEF ManagerInv
<1>8. call[t].at # "increment" /\ NoThread # t
  BY <1>1, IdleCall, CriteriaAssumption
<1>9. CASE count > 0
  <2> DEFINE to == [at |-> "increment"]
  <2>1. Goes(t, to) /\ bootLock' = bootLock
    BY <1>9 DEF BeginInitialize
  <2>2. to.at = "increment" /\ to.at \notin Using
    BY DEF Using
  <2> HIDE DEF to
  <2>3. ManagerInv'
    BY <1>1, <1>4, <1>7, <2>1, <2>2, ManagersGoOn
  <2>4. Incrementing' # {}
    BY <2>1, <2>2, IncrementingGoesOn
  <2>5. boot' # NotBooted
    BY <1>1, <1>9
  <2>6. bootLock' = NoThread
    BY <1>1, <2>1
  <2>7. RaceInv'
    BY <1>6, <2>4, <2>5, <2>6 DEF RaceInv, NotBooted
  <2>8. QED
    BY <1>5, <2>3, <2>7 DEF CountInv
<1>10. CASE ~(count > 0)
  <2> DEFINE to == [at |-> "manager"]
  <2>1. Goes(t, to) /\ bootLock' = t
    BY <1>10 DEF BeginInitialize
  <2>2. to.at # "increment" /\ to.at \notin Using
    BY DEF Using
  <2> HIDE DEF to
  <2>3. ManagerInv'
    BY <1>1, <1>4, <1>7, <2>1, <2>2, ManagersGoOn
  <2>4. count = 0 /\ count' = 0
    BY <1>1, <1>4, <1>10 DEF TicketInv
  <2>5. Incrementing' = Incrementing
    BY <1>8, <2>1, <2>2, IncrementingGoesOn
  <2>6. ~raced' => Incrementing' = {}
    BY <1>3, <2>4, <2>5
  <2>7. bootLock' # NoThread /\ ~HalfDown'
    BY <1>1, <1>8, <1>10, <2>1 DEF HalfDown, NotBooted
  <2>8. RaceInv'
    BY <1>6, <2>4, <2>6, <2>7 DEF RaceInv
  <2>9. QED
    BY <1>5, <2>3, <2>8 DEF CountInv
<1>11. QED
  BY <1>9, <1>10

(* The check of the globals fails only when a count was read too early.    *)
LEMMA FailsFastAfterRace ==
  ASSUME CountInv, NEW t \in Threads, FailsFast(t)
  PROVE  raced' = TRUE /\ failedFast' = TRUE
<1>1. /\ bootLock = NoThread /\ (count > 0) # (boot # NotBooted)
      /\ failedFast' = TRUE
  BY DEF FailsFast
<1>2. raced' = (raced \/ (count = 0 /\ Incrementing # {}))
  BY DEF FailsFast, Races
<1>3. RaceInv /\ count \in Nat
  BY DEF CountInv, TicketInv
<1>4. CASE raced
  BY <1>1, <1>2, <1>4
<1>5. CASE ~raced
  <2>1. boot # NotBooted <=> count > 0 \/ Incrementing # {}
    BY <1>1, <1>3, <1>5 DEF RaceInv
  <2>2. ~(count > 0) /\ Incrementing # {}
    BY <1>1, <2>1
  <2>3. count = 0
    BY <1>3, <2>2
  <2>4. QED
    BY <1>1, <1>2, <2>2, <2>3
<1>6. QED
  BY <1>4, <1>5

(* A lifetime manager starts.                                              *)
LEMMA CreateManagerKeepsCount ==
  ASSUME CallInv, BoundInv, CountInv, NEW t \in Threads,
         CreateLifetimeManager(t)
  PROVE  CountInv'
<1> DEFINE m == lastManager'
           to == [at |-> "add path", manager |-> m]
<1>1. /\ call[t].at = "manager" /\ Goes(t, to) /\ bootLock' = bootLock
      /\ m = lastManager + 1 /\ managers' = managers \union {m}
      /\ ending' = ending /\ count' = count /\ inits' = inits
      /\ boot' = boot /\ orphans' = orphans
  BY DEF CreateLifetimeManager
<1>2. raced' = raced /\ failedFast' = failedFast
  BY DEF CreateLifetimeManager, flags
<1>3. to.at = "add path" /\ to.manager = m
  OBVIOUS
<1>4. lastManager \in Nat
  BY DEF BoundInv
<1>5. /\ 1..lastManager \subseteq 1..m /\ 0..lastManager \subseteq 0..m
      /\ m \in 1..m /\ m \notin 1..lastManager /\ lastManager' = m
  <2>1. m = lastManager + 1 /\ lastManager' = m
    BY <1>1
  <2> HIDE DEF m, to
  <2>2. QED
    BY <1>4, <2>1
<1> HIDE DEF m, to
<1>6. TicketInv /\ ManagerInv /\ RaceInv
  BY DEF CountInv
<1>7. TicketInv'
  BY <1>1, <1>6, TicketsStay
<1>8. /\ boot \in [context : Nat, manager : 0..lastManager]
      /\ managers \subseteq 1..lastManager /\ ending \subseteq managers
      /\ orphans \subseteq 1..lastManager
      /\ boot # NotBooted => boot.manager \in managers \ ending
  BY <1>6 DEF ManagerInv
<1>9. m \notin ending
  BY <1>5, <1>8
<1>10. /\ m \in managers' \ ending'
       /\ managers \ ending \subseteq managers' \ ending'
  BY <1>1, <1>9
<1>11. \A u \in At(Using)' : call'[u].manager \in managers' \ ending'
  BY <1>1, <1>3, <1>6, <1>10, UsersGoOn
<1>12. boot' \in [context : Nat, manager : 0..lastManager']
  BY <1>1, <1>5, <1>8
<1>13. /\ managers' \subseteq 1..lastManager' /\ ending' \subseteq managers'
       /\ orphans' \subseteq 1..lastManager'
       /\ boot' # NotBooted => boot'.manager \in managers' \ ending'
  BY <1>1, <1>5, <1>8, <1>10
<1>14. ManagerInv'
  BY <1>11, <1>12, <1>13 DEF ManagerInv, NotBooted
<1>15. Incrementing' = Incrementing
  BY <1>1, <1>3, IncrementingGoesOn
<1>16. RaceInv'
  BY <1>1, <1>2, <1>6, <1>15, RaceStays
<1>17. QED
  BY <1>7, <1>14, <1>16 DEF CountInv

(* The globals are set.                                                    *)
LEMMA TrimKeepsCount ==
  ASSUME CallInv, BoundInv, ContextInv, CountInv, NEW t \in Threads,
         RemoveFrameworkFromPath(t)
  PROVE  CountInv'
<1> DEFINE to == [at |-> "increment"]
<1>1. /\ call[t].at = "trim" /\ bootLock' = NoThread /\ Goes(t, to)
      /\ boot' = [context |-> call[t].context, manager |-> call[t].manager]
      /\ count' = count /\ inits' = inits /\ orphans' = orphans
      /\ managers' = managers /\ ending' = ending
      /\ lastManager' = lastManager
  BY DEF RemoveFrameworkFromPath, managerVars
<1>2. raced' = raced /\ failedFast' = failedFast
  BY DEF RemoveFrameworkFromPath
<1>3. to.at = "increment" /\ to.at \notin Using
  BY DEF Using
<1> HIDE DEF to
<1>4. TicketInv /\ ManagerInv /\ RaceInv
  BY DEF CountInv
<1>5. call[t].at \in Using /\ call[t].at \in LockPlaces
  BY <1>1 DEF Using, LockPlaces
<1>6. call[t].context \in 1..lastContext /\ lastContext \in Nat
  BY <1>1, CallIds DEF BoundInv
<1>7. call[t].context \in Nat /\ call[t].context # 0
  BY <1>6
<1>8. TicketInv'
  <2>1. ~HalfDown /\ ~HalfDown'
    BY <1>1, <1>5, <1>7, NotBootedYet DEF HalfDown
  <2>2. Owed' = Owed /\ Tickets' = Tickets
    BY <1>1, <2>1 DEF Owed, Tickets
  <2>3. QED
    BY <1>1, <1>4, <2>1, <2>2 DEF TicketInv
<1>9. /\ call[t].manager \in 1..lastManager
      /\ call[t].manager \in managers \ ending
  BY <1>5, ManagersAreNumbers
<1>10. call[t].manager \in 0..lastManager
  <2>1. lastManager \in Nat
    BY DEF BoundInv
  <2>2. QED
    BY <1>9, <2>1
<1>11. /\ boot' \in [context : Nat, manager : 0..lastManager']
       /\ boot' # NotBooted /\ boot'.manager \in managers' \ ending'
  BY <1>1, <1>7, <1>9, <1>10 DEF NotBooted
<1>12. \A u \in At(Using)' : call'[u].manager \in managers' \ ending'
  BY <1>1, <1>3, <1>4, UsersGoOn
<1>13. ManagerInv'
  BY <1>1, <1>4, <1>11, <1>12 DEF ManagerInv, NotBooted
<1>14. Incrementing' # {}
  BY <1>1, <1>3, IncrementingGoesOn
<1>15. RaceInv'
  BY <1>1, <1>2, <1>4, <1>11, <1>14 DEF RaceInv, NotBooted
<1>16. QED
  BY <1>8, <1>13, <1>15 DEF CountInv

(* A thread has initialized.                                               *)
LEMMA IncrementKeepsCount ==
  ASSUME CallInv, CountInv, NEW t \in Threads, IncrementCount(t)
  PROVE  CountInv'
<1>1. /\ call[t].at = "increment" /\ count' = count + 1 /\ Goes(t, Idle)
      /\ inits' = [inits EXCEPT ![t] = @ + 1] /\ boot' = boot
      /\ bootLock' = bootLock /\ managers' = managers /\ ending' = ending
      /\ lastManager' = lastManager /\ orphans' = orphans
  BY DEF IncrementCount, managerVars
<1>2. raced' = raced /\ failedFast' = failedFast
  BY DEF IncrementCount, flags
<1>3. TicketInv /\ ManagerInv /\ RaceInv
  BY DEF CountInv
<1>4. TicketInv' /\ count' > 0
  BY <1>1, <1>3, TicketTaken
<1>5. orphans' \subseteq 1..lastManager /\ Idle.at \notin Using
  BY <1>1, <1>3, IdleCall DEF ManagerInv, Using
<1>6. ManagerInv'
  BY <1>1, <1>3, <1>5, ManagersGoOn
<1>7. t \in Incrementing
  BY <1>1, IncrementingGoesOn
<1>8. ~raced => ~failedFast /\ bootLock = NoThread /\ boot # NotBooted
  BY <1>3, <1>7 DEF RaceInv
<1>9. /\ raced' \in BOOLEAN /\ failedFast' \in BOOLEAN
      /\ ~raced' => ~failedFast' /\ bootLock' = NoThread /\ boot' # NotBooted
  BY <1>1, <1>2, <1>3, <1>8 DEF RaceInv
<1>10. RaceInv'
  BY <1>4, <1>9 DEF RaceInv, NotBooted
<1>11. QED
  BY <1>4, <1>6, <1>10 DEF CountInv

(* A thread gives an initialization back.                                  *)
LEMMA BeginShutdownCounts ==
  ASSUME CallInv, ContextInv, CountInv, NEW t \in Threads, BeginShutdown(t)
  PROVE  /\ call[t] = Idle /\ bootLock = NoThread /\ ~HalfDown
         /\ count \in Nat /\ count > 0
         /\ failedFast' = failedFast /\ raced' \in BOOLEAN
         /\ ~raced' => ~raced /\ ~failedFast' /\ boot # NotBooted
                       /\ (count = 1 => Incrementing = {})
<1>1. /\ call[t] = Idle /\ bootLock = NoThread /\ inits[t] > 0
      /\ failedFast' = failedFast
  BY DEF BeginShutdown, Begins
<1>2. raced' = (raced \/ (count = 1 /\ Incrementing # {}))
  BY DEF BeginShutdown, Races
<1>3. TicketInv /\ RaceInv
  BY DEF CountInv
<1>4. count \in Nat /\ count > 0
  BY <1>1, <1>3, TicketHeld DEF TicketInv
<1>5. ~HalfDown
  BY <1>1, ShuttingIsInside, HalfDownWhile
<1>6. raced' \in BOOLEAN
  BY <1>2, <1>3 DEF RaceInv
<1>7. ASSUME ~raced'
      PROVE  /\ ~raced /\ ~failedFast' /\ boot # NotBooted
             /\ count = 1 => Incrementing = {}
  <2>1. ~raced /\ (count = 1 => Incrementing = {})
    BY <1>2, <1>7
  <2>2. ~failedFast /\ boot # NotBooted
    BY <1>1, <1>3, <1>4, <2>1 DEF RaceInv
  <2>3. QED
    BY <1>1, <2>1, <2>2
<1>8. QED
  BY <1>1, <1>4, <1>5, <1>6, <1>7

(* It was not the last.                                                    *)
LEMMA ShutdownKeepsCount ==
  ASSUME CallInv, BoundInv, ContextInv, CountInv, NEW t \in Threads,
         Shutdown(t)
  PROVE  CountInv'
<1>1. /\ BeginShutdown(t) /\ bootLock' = bootLock /\ inits[t] > 0
      /\ inits' = [inits EXCEPT ![t] = @ - 1] /\ call' = call
      /\ boot' = boot /\ managers' = managers /\ ending' = ending
      /\ lastManager' = lastManager /\ orphans' = orphans
  BY DEF Shutdown, BeginShutdown, managerVars
<1>2. TicketInv /\ ManagerInv /\ RaceInv
  BY DEF CountInv
<1>3. /\ bootLock = NoThread /\ ~HalfDown /\ count \in Nat /\ count > 0
      /\ failedFast' = failedFast /\ raced' \in BOOLEAN
      /\ ~raced' => ~raced /\ ~failedFast' /\ boot # NotBooted
  BY <1>1, BeginShutdownCounts
<1>4. count' = count - 1 /\ count' \in Nat
  <2>1. count' = IF count = 0 THEN 0 ELSE count - 1
    BY DEF Shutdown
  <2>2. QED
    BY <1>3, <2>1
<1>5. TicketInv'
  <2>1. ~HalfDown'
    BY <1>1, <1>3 DEF HalfDown
  <2>2. Owed' = Owed - 1
    BY <1>3, <1>4, <2>1 DEF Owed
  <2>3. QED
    BY <1>1, <1>2, <1>4, <2>1, <2>2, TicketReturned
<1>6. ManagerInv'
  BY <1>1, <1>2, ManagersStay
<1>7. RaceInv'
  <2>1. ~raced' => count' > 0
    <3>1. boot # NotBooted => count # 1
      BY DEF Shutdown, LastOut
    <3>2. QED
      BY <1>3, <1>4, <3>1
  <2>2. failedFast' \in BOOLEAN
    BY <1>2, <1>3 DEF RaceInv
  <2>3. QED
    BY <1>1, <1>3, <2>1, <2>2 DEF RaceInv, NotBooted
<1>8. QED
  BY <1>5, <1>6, <1>7 DEF CountInv

(* It was: the framework is removed, and the count is left for now.        *)
LEMMA ShutdownLastKeepsCount ==
  ASSUME CallInv, BoundInv, ContextInv, CountInv, NEW t \in Threads,
         ShutdownLast(t)
  PROVE  CountInv'
<1> DEFINE to == [at |-> "shut down"]
<1>1. /\ BeginShutdown(t) /\ bootLock' = t /\ inits[t] > 0
      /\ inits' = [inits EXCEPT ![t] = @ - 1] /\ Goes(t, to)
      /\ boot' = [boot EXCEPT !.context = 0] /\ boot # NotBooted
      /\ count = 1 /\ count' = count
      /\ managers' = managers /\ ending' = ending
      /\ lastManager' = lastManager /\ orphans' = orphans
  BY DEF ShutdownLast, BeginShutdown, managerVars, LastOut
<1>2. to.at \notin Using /\ to.at # "increment"
  BY DEF Using
<1> HIDE DEF to
<1>3. TicketInv /\ ManagerInv /\ RaceInv
  BY DEF CountInv
<1>4. /\ call[t] = Idle /\ ~HalfDown
      /\ failedFast' = failedFast /\ raced' \in BOOLEAN
      /\ ~raced' => ~raced /\ ~failedFast' /\ Incrementing = {}
  BY <1>1, BeginShutdownCounts
<1>5. /\ boot \in [context : Nat, manager : 0..lastManager]
      /\ managers \subseteq 1..lastManager /\ ending \subseteq managers
      /\ orphans \subseteq 1..lastManager
      /\ boot.manager \in managers \ ending
  BY <1>1, <1>3 DEF ManagerInv
<1>6. /\ boot'.context = 0 /\ boot'.manager = boot.manager
      /\ boot' \in [context : Nat, manager : 0..lastManager']
  BY <1>1, <1>5
<1>7. boot'.manager # 0
  <2>1. lastManager \in Nat /\ boot.manager \in 1..lastManager
    BY <1>5 DEF BoundInv
  <2>2. QED
    BY <1>6, <2>1
<1>8. HalfDown' /\ boot' # NotBooted
  BY <1>6, <1>7 DEF HalfDown, NotBooted
<1>9. TicketInv'
  <2>1. Owed' = Owed - 1 /\ count' \in Nat /\ count' > 0
    BY <1>1, <1>4, <1>8 DEF Owed
  <2>2. QED
    BY <1>1, <1>3, <2>1, TicketReturned
<1>10. ManagerInv'
  <2>1. \A u \in At(Using)' : call'[u].manager \in managers' \ ending'
    BY <1>1, <1>2, <1>3, UsersGoOn
  <2>2. boot'.manager \in managers' \ ending'
    BY <1>1, <1>5, <1>6
  <2>3. /\ managers' \subseteq 1..lastManager' /\ ending' \subseteq managers'
        /\ orphans' \subseteq 1..lastManager'
    BY <1>1, <1>5
  <2>4. QED
    BY <1>6, <2>1, <2>2, <2>3 DEF ManagerInv
<1>11. RaceInv'
  <2>1. call[t].at # "increment"
    BY <1>4, IdleCall
  <2>2. Incrementing' = Incrementing
    BY <1>1, <1>2, <2>1, IncrementingGoesOn
  <2>3. bootLock' # NoThread
    BY <1>1, CriteriaAssumption
  <2>4. failedFast' \in BOOLEAN
    BY <1>3, <1>4 DEF RaceInv
  <2>5. QED
    BY <1>1, <1>4, <1>8, <2>2, <2>3, <2>4 DEF RaceInv
<1>12. QED
  BY <1>9, <1>10, <1>11 DEF CountInv

(* The manager is told to end, which nobody else relies on.                *)
LEMMA ShutdownReturnsKeepsCount ==
  ASSUME CallInv, BoundInv, ContextInv, CountInv, NEW t \in Threads,
         ShutdownReturns(t)
  PROVE  CountInv'
<1>1. /\ call[t].at = "shut down" /\ bootLock' = NoThread /\ Goes(t, Idle)
      /\ boot' = NotBooted /\ count' = count - 1 /\ inits' = inits
      /\ ending' = ending \union ({boot.manager} \intersect managers)
      /\ managers' = managers /\ lastManager' = lastManager
      /\ orphans' = orphans
  BY DEF ShutdownReturns, SetEvent
<1>2. raced' = raced /\ failedFast' = failedFast
  BY DEF ShutdownReturns, flags
<1>3. TicketInv /\ ManagerInv /\ RaceInv
  BY DEF CountInv
<1>4. /\ call[t].at \in LockPlaces /\ bootLock # NoThread
      /\ \A u \in Threads \ {t} : call[u].at \notin LockPlaces
  <2>1. call[t].at \in LockPlaces
    BY <1>1 DEF LockPlaces
  <2>2. QED
    BY <2>1, OneInside
<1>5. HalfDown /\ ~HalfDown'
  <2>1. ShuttingDown
    BY <1>1 DEF ShuttingDown, At
  <2>2. ~HalfDown'
    BY <1>1 DEF HalfDown, NotBooted
  <2>3. QED
    BY <2>1, <2>2, HalfDownWhile
<1>6. TicketInv'
  <2>1. count \in Nat /\ count > 0
    BY <1>3, <1>5 DEF TicketInv
  <2>2. Owed' = Owed /\ count' \in Nat
    <3>1. count' = count - 1
      BY <1>1
    <3>2. QED
      BY ONLY <1>5, <2>1, <3>1 DEF Owed
  <2>3. Tickets' = Tickets
    BY <1>1 DEF Tickets
  <2>4. QED
    BY <1>1, <1>3, <1>5, <2>2, <2>3 DEF TicketInv
<1>7. At(Using)' = {}
  <2>1. ASSUME NEW u \in Threads
        PROVE  call'[u].at \notin Using
    <3>1. call'[t] = Idle /\ (u # t => call'[u] = call[u])
      BY <1>1, GoesOn
    <3>2. Using \subseteq LockPlaces /\ Idle.at \notin Using
      BY IdleCall DEF Using, LockPlaces
    <3>3. QED
      BY <1>4, <3>1, <3>2
  <2>2. QED
    BY <2>1 DEF At
<1>8. ManagerInv'
  <2>1. boot' \in [context : Nat, manager : 0..lastManager']
    <3>1. lastManager' \in Nat
      BY <1>1 DEF BoundInv
    <3>2. 0 \in 0..lastManager' /\ 0 \in Nat
      BY ONLY <3>1
    <3>3. QED
      BY <1>1, <3>2 DEF NotBooted
  <2>2. /\ managers' \subseteq 1..lastManager' /\ ending' \subseteq managers'
        /\ orphans' \subseteq 1..lastManager'
    BY <1>1, <1>3 DEF ManagerInv
  <2>3. QED
    BY <1>1, <1>7, <2>1, <2>2 DEF ManagerInv, NotBooted
<1>9. RaceInv'
  <2>1. ~raced => Incrementing = {} /\ count = 1 /\ ~failedFast
    BY <1>3, <1>4, <1>5 DEF RaceInv
  <2>2. Incrementing' = Incrementing
    BY <1>1, IdleCall, IncrementingGoesOn
  <2>3. ~raced => ~(count' > 0)
    <3>1. count' = count - 1
      BY <1>1
    <3>2. QED
      BY ONLY <2>1, <3>1
  <2>4. raced' \in BOOLEAN /\ failedFast' \in BOOLEAN
    BY <1>2, <1>3 DEF RaceInv
  <2>5. ~raced' => ~failedFast' /\ ~(count' > 0) /\ Incrementing' = {}
    BY <1>2, <2>1, <2>2, <2>3
  <2>6. QED
    BY <1>1, <2>4, <2>5 DEF RaceInv, NotBooted
<1>10. QED
  BY <1>6, <1>8, <1>9 DEF CountInv

(* The calls of MddBootstrap.cpp keep it.                                  *)
LEMMA BootstrapCallsKeepCount ==
  ASSUME CallInv, BoundInv, ContextInv, CountInv, NEW t \in Threads,
         BootstrapCall(t)
  PROVE  CountInv'
<1>1. CASE BeginInitialize(t)
  BY <1>1, BeginKeepsCount
<1>2. CASE FailsFast(t)
  <2>1. raced' = TRUE /\ failedFast' = TRUE
    BY <1>2, FailsFastAfterRace
  <2>2. ProcessRestarts
    BY <1>2 DEF FailsFast
  <2>3. QED
    BY <2>1, <2>2, RestartKeepsCount
<1>3. CASE CreateLifetimeManager(t)
  BY <1>3, CreateManagerKeepsCount
<1>4. ASSUME InitializationFails(t), call[t].at \in Using
      PROVE  CountInv'
  <2>1. /\ Goes(t, Idle) /\ bootLock' = NoThread
        /\ orphans' = orphans \union ({call[t].manager} \ ending)
        /\ UNCHANGED <<count, inits, boot, managers, ending, lastManager>>
    BY <1>4 DEF InitializationFails, managerVars
  <2>2. raced' = raced /\ failedFast' = failedFast
    BY <1>4 DEF InitializationFails, flags
  <2>3. orphans' \subseteq 1..lastManager
    BY <1>4, <2>1, ManagersAreNumbers
  <2>4. call[t].at \in LockPlaces /\ call[t].at # "shut down"
    BY <1>4 DEF Using, LockPlaces
  <2>5. QED
    BY <2>1, <2>2, <2>3, <2>4, CountEnds
<1>5. CASE NoManager(t)
  <2>1. /\ Goes(t, Idle) /\ bootLock' = NoThread /\ orphans' = orphans
        /\ call[t].at = "manager"
        /\ UNCHANGED <<count, inits, boot, managers, ending, lastManager>>
    BY <1>5 DEF NoManager, managerVars
  <2>2. raced' = raced /\ failedFast' = failedFast
    BY <1>5 DEF NoManager, flags
  <2>3. orphans' \subseteq 1..lastManager
    BY <2>1 DEF CountInv, ManagerInv
  <2>4. call[t].at \in LockPlaces /\ call[t].at # "shut down"
    BY <2>1 DEF LockPlaces
  <2>5. QED
    BY <2>1, <2>2, <2>3, <2>4, CountEnds
(* The initialization goes on.                                             *)
<1>6. ASSUME NEW to, Goes(t, to), call[t].at \in Using, to.at \in Using,
             to.manager = call[t].manager, UNCHANGED initVars
      PROVE  CountInv'
  <2>1. /\ bootLock' = bootLock /\ orphans' = orphans
        /\ UNCHANGED <<count, inits, boot, managers, ending, lastManager>>
    BY <1>6 DEF initVars, managerVars
  <2>2. raced' = raced /\ failedFast' = failedFast
    BY <1>6 DEF initVars, flags
  <2>3. to.at # "increment" /\ call[t].at # "increment"
    BY <1>6 DEF Using
  <2>4. QED
    BY <1>6, <2>1, <2>2, <2>3, CountStays
<1>7. CASE AddFrameworkToPath(t)
  <2> DEFINE to == [call[t] EXCEPT !.at = "create"]
  <2>1. call[t].at = "add path"
    BY <1>7 DEF AddFrameworkToPath
  <2>2. call[t] \in [at : {"add path", "create"}, manager : 1..lastManager]
    BY <2>1, CallIsTyped, CallKinds
  <2>3. to.at = "create" /\ to.manager = call[t].manager
    BY <2>2
  <2>4. \/ Goes(t, to) /\ UNCHANGED initVars
        \/ InitializationFails(t)
    BY <1>7 DEF AddFrameworkToPath
  <2> HIDE DEF to
  <2>5. call[t].at \in Using /\ to.at \in Using
    BY <2>1, <2>3 DEF Using
  <2>6. QED
    BY <1>4, <1>6, <2>3, <2>4, <2>5
<1>8. CASE CreateFrameworkDependency(t)
  <2> DEFINE to == [at |-> "boot lookup", manager |-> call[t].manager,
                    id |-> lastId']
  <2>1. /\ call[t].at = "create"
        /\ \/ Goes(t, to) /\ UNCHANGED initVars
           \/ InitializationFails(t)
    BY <1>8 DEF CreateFrameworkDependency
  <2>2. to.at = "boot lookup" /\ to.manager = call[t].manager
    OBVIOUS
  <2> HIDE DEF to
  <2>3. call[t].at \in Using /\ to.at \in Using
    BY <2>1, <2>2 DEF Using
  <2>4. QED
    BY <1>4, <1>6, <2>1, <2>2, <2>3
<1>9. CASE LookupFramework(t)
  <2> DEFINE to == [call[t] EXCEPT !.at = "boot resolve"]
  <2>1. /\ call[t].at = "boot lookup" /\ UNCHANGED initVars
        /\ Lookup(t, call[t].id, to)
    BY <1>9 DEF LookupFramework, bootVars
  <2>2. call[t] \in [at : {"boot lookup", "boot resolve"},
                     manager : 1..lastManager, id : 1..lastId]
    BY <2>1, CallIsTyped, CallKinds
  <2>3. to.at = "boot resolve" /\ to.manager = call[t].manager
    BY <2>2
  <2>4. Goes(t, to) \/ call' = call
    BY <2>1 DEF Lookup
  <2> HIDE DEF to
  <2>5. CASE Goes(t, to)
    <3>1. call[t].at \in Using /\ to.at \in Using
      BY <2>1, <2>3 DEF Using
    <3>2. QED
      BY <1>6, <2>1, <2>3, <2>5, <3>1
  <2>6. CASE call' = call
    <3>1. /\ bootLock' = bootLock /\ orphans' = orphans
          /\ UNCHANGED <<count, inits, boot, managers, ending, lastManager>>
      BY <2>1 DEF initVars, managerVars
    <3>2. raced' = raced /\ failedFast' = failedFast
      BY <2>1 DEF initVars, flags
    <3>3. QED
      BY <2>6, <3>1, <3>2, CountAlone
  <2>7. QED
    BY <2>4, <2>5, <2>6
<1>10. CASE AddFramework(t)
  <2> DEFINE to == [at |-> "boot update", manager |-> call[t].manager,
                    context |-> lastContext']
  <2>1. /\ call[t].at = "boot resolve"
        /\ \/ Goes(t, to) /\ UNCHANGED initVars
           \/ InitializationFails(t)
    BY <1>10 DEF AddFramework
  <2>2. to.at = "boot update" /\ to.manager = call[t].manager
    OBVIOUS
  <2> HIDE DEF to
  <2>3. call[t].at \in Using /\ to.at \in Using
    BY <2>1, <2>2 DEF Using
  <2>4. QED
    BY <1>4, <1>6, <2>1, <2>2, <2>3
<1>11. CASE AddFrameworkReturns(t)
  <2> DEFINE to == [call[t] EXCEPT !.at = "trim"]
  <2>1. call[t].at = "boot update"
    BY <1>11 DEF AddFrameworkReturns
  <2>2. \/ Goes(t, to) /\ UNCHANGED initVars
        \/ InitializationFails(t)
    BY <1>11 DEF AddFrameworkReturns
  <2>3. call[t] \in [at : {"boot update", "trim"}, manager : 1..lastManager,
                     context : 1..lastContext]
    BY <2>1, CallIsTyped, CallKinds
  <2>4. to.at = "trim" /\ to.manager = call[t].manager
    BY <2>3
  <2> HIDE DEF to
  <2>5. call[t].at \in Using /\ to.at \in Using
    BY <2>1, <2>4 DEF Using
  <2>6. QED
    BY <1>4, <1>6, <2>2, <2>4, <2>5
<1>12. CASE RemoveFrameworkFromPath(t)
  BY <1>12, TrimKeepsCount
<1>13. CASE IncrementCount(t)
  BY <1>13, IncrementKeepsCount
<1>14. CASE Shutdown(t)
  BY <1>14, ShutdownKeepsCount
<1>15. CASE ShutdownLast(t)
  BY <1>15, ShutdownLastKeepsCount
<1>16. CASE ShutdownReturns(t)
  BY <1>16, ShutdownReturnsKeepsCount
<1>17. QED
  BY <1>1, <1>2, <1>3, <1>5, <1>7, <1>8, <1>9, <1>10, <1>12, <1>13, <1>14,
     <1>11, <1>15, <1>16 DEF BootstrapCall

-----------------------------------------------------------------------------
(* The invariant of the process and of what outlives it                    *)
BootInv ==
  /\ CallInv
  /\ BoundInv
  /\ GraphState
  /\ PathInv
  /\ IdInv
  /\ CountInv

(* The first process of the app                                            *)
LEMMA InitIsSound ==
  ASSUME Init
  PROVE  BootInv
<1>1. /\ usable = Packages /\ graph = <<>> /\ winrt = <<>> /\ dirs = {}
      /\ path = FirstPath /\ read = <<>> /\ added = <<>>
      /\ lastContext = 0 /\ generation = 0 /\ memory = Nothing /\ store = Nothing
      /\ defined = Nothing /\ call = [t \in Threads |-> Idle]
      /\ graphLock = NoThread /\ held = {} /\ moved = {} /\ leaked = {}
      /\ others = FirstPath /\ lastId = 0 /\ made = 0 /\ faults = 0
      /\ count = 0 /\ boot = NotBooted /\ bootLock = NoThread /\ seen = <<>>
      /\ managers = {} /\ ending = {} /\ lastManager = 0
      /\ inits = [t \in Threads |-> 0] /\ orphans = {}
  BY DEF Init, DependenciesInit, GraphInit
<1>2. /\ torn = FALSE /\ ahead = FALSE /\ raced = FALSE
      /\ failedFast = FALSE /\ behind = FALSE
  BY DEF Init, DependenciesInit, GraphInit
<1>3. \A t \in Threads : call[t] = Idle /\ call[t].at = "idle"
  BY <1>1, IdleCall
<1>4. /\ At(Carriers) = {} /\ At(Adders) = {} /\ At({"shut down"}) = {}
      /\ Writers = {} /\ At(Using) = {} /\ Incrementing = {}
  BY <1>3 DEF At, Carriers, Adders, Writers, Using, Incrementing
<1>5. CallInv
  <2>1. NoThread \notin Threads /\ DOMAIN call = Threads
    BY <1>1, CriteriaAssumption
  <2>2. \A t \in Threads : call[t].at \notin LockPlaces
    BY <1>3 DEF LockPlaces
  <2>3. QED
    BY <1>1, <1>3, <2>1, <2>2, IdleCall DEF CallInv
<1>6. BoundInv
  <2>1. made \in 0..MaxCalls /\ faults \in 0..MaxFaults
    BY <1>1, BoundAssumption
  <2>2. lastId <= made /\ lastManager <= made
    BY <1>1
  <2>3. QED
    BY <1>1, <1>3, <2>1, <2>2 DEF BoundInv
<1>7. GraphState
  <2>1. DOMAIN graph = {} /\ Len(graph) = 0 /\ Len(winrt) = 0
    BY <1>1
  <2>2. graph \in Seq(Nodes) /\ winrt \in Seq(Nat) /\ lastContext \in Nat
    BY <1>1
  <2>3. ListInv /\ Contexts = {}
    BY <2>1, <2>2 DEF ListInv, Contexts, Sorted, Unique, ActivationOrder
  <2>4. Carried(Carriers) = {} /\ Carried(Adders) = {} /\ OneEach
    BY <1>4 DEF Carried, OneEach
  <2>5. BootFits /\ boot.context = 0
    BY <1>1, <1>4 DEF BootFits, ShuttingDown, NotBooted
  <2>6. OwnersFit(Contexts, held, leaked, boot.context, Carried(Carriers))
    BY <1>1, <2>3, <2>4, <2>5 DEF OwnersFit
  <2>7. ContextInv
    BY <1>1, <2>3, <2>4, <2>5, <2>6 DEF ContextInv
  <2>8. QED
    BY <2>3, <2>7 DEF GraphState
<1>8. PathInv
  <2>1. FirstPath \in Seq(AppDirs) /\ FirstPath \in Seq(Dirs)
    BY CatalogAssumption DEF Dirs
  <2>2. <<>> \in Seq(Packages) /\ <<>> \in Seq(Dirs)
    OBVIOUS
  <2>3. QED
    BY <1>1, <1>2, <2>1, <2>2 DEF PathInv
<1>9. IdInv
  <2>1. DOMAIN defined = {} /\ DOMAIN store = {}
    BY <1>1 DEF Nothing
  <2>2. Writers = {}
    BY <1>4
  <2>3. /\ IsTable(memory, lastId) /\ IsTable(store, lastId)
        /\ IsTable(defined, lastId)
    BY <1>1, NoTable
  <2>4. QED
    BY <2>1, <2>2, <2>3 DEF IdInv
<1>10. CountInv
  <2>1. Tickets = {}
    <3>1. \A u \in Threads : inits[u] = 0
      BY <1>1
    <3>2. \A x \in Threads \X Nat : ~(1 <= x[2] /\ x[2] <= inits[x[1]])
      BY <3>1
    <3>3. QED
      BY <3>2 DEF Tickets
  <2>2. TicketInv
    BY <1>1, <2>1, FS_EmptySet DEF TicketInv, Owed, HalfDown, NotBooted
  <2>3. ManagerInv
    <3>1. boot \in [context : Nat, manager : 0..lastManager]
      <4>1. 0 \in 0..lastManager
        BY <1>1
      <4>2. QED
        BY <1>1, <4>1 DEF NotBooted
    <3>2. QED
      BY <1>1, <1>4, <3>1 DEF ManagerInv
  <2>4. RaceInv
    <3>1. ~(count > 0)
      BY <1>1
    <3>2. QED
      BY <1>1, <1>2, <1>4, <3>1 DEF RaceInv
  <2>5. QED
    BY <2>2, <2>3, <2>4 DEF CountInv
<1>11. QED
  BY <1>5, <1>6, <1>7, <1>8, <1>9, <1>10 DEF BootInv

(* The calls of MsixDynamicDependency.cpp                                  *)
LEMMA DependencyCallsKeepInv ==
  ASSUME BootInv, NEW t \in Threads, DependencyCall(t), UNCHANGED bootVars
  PROVE  BootInv'
<1>1. /\ CallInv /\ BoundInv /\ GraphState /\ PathInv /\ IdInv /\ CountInv
      /\ ListInv
  BY DEF BootInv, GraphState
<1>2. DOMAIN defined \subseteq 1..lastId
  BY <1>1 DEF IdInv, IsTable
<1>3. CallInv' /\ BoundInv'
  BY <1>1, <1>2, DependencyCallsAreTyped
<1>4. GraphState'
  BY <1>1, DependencyCallsKeepGraph
<1>5. ListInv'
  BY <1>4 DEF GraphState
<1>6. PathInv'
  BY <1>1, <1>5, DependencyCallsKeepPath
<1>7. IdInv'
  BY <1>1, DependencyCallsKeepIds
<1>8. CountInv'
  BY <1>1, DependencyCallsKeepCount
<1>9. QED
  BY <1>3, <1>4, <1>6, <1>7, <1>8 DEF BootInv

(* The calls of MddBootstrap.cpp                                           *)
LEMMA BootstrapCallsKeepInv ==
  ASSUME BootInv, NEW t \in Threads, BootstrapCall(t)
  PROVE  BootInv'
<1>1. /\ CallInv /\ BoundInv /\ GraphState /\ PathInv /\ IdInv /\ CountInv
      /\ ListInv /\ ContextInv
  BY DEF BootInv, GraphState
<1>2. CallInv' /\ BoundInv'
  BY <1>1, BootstrapCallsAreTyped
<1>3. GraphState'
  <2>1. /\ boot \in [context : Nat, manager : 0..lastManager]
        /\ managers \subseteq 1..lastManager
        /\ boot # NotBooted => boot.manager \in managers
    BY <1>1 DEF CountInv, ManagerInv
  <2>2. boot # NotBooted => boot.manager # 0
    BY <2>1
  <2>3. QED
    BY <1>1, <2>1, <2>2, BootstrapCallsKeepGraph
<1>4. ListInv'
  BY <1>3 DEF GraphState
<1>5. PathInv'
  BY <1>1, <1>4, BootstrapCallsKeepPath
<1>6. IdInv'
  BY <1>1, BootstrapCallsKeepIds
<1>7. CountInv'
  BY <1>1, BootstrapCallsKeepCount
<1>8. QED
  BY <1>2, <1>3, <1>5, <1>6, <1>7 DEF BootInv

(* The app writes PATH.                                                    *)
LEMMA AppPrependsKeepsInv ==
  ASSUME BootInv, NEW t \in Threads, NEW d \in AppDirs, AppPrepends(t, d),
         torn' = (torn \/ InWindow), UNCHANGED bootVars
  PROVE  BootInv'
<1>1. /\ CallInv /\ BoundInv /\ GraphState /\ PathInv /\ IdInv /\ CountInv
  BY DEF BootInv
<1>2. /\ Begins(t) /\ path' = <<d>> \o path /\ others' = <<d>> \o others
      /\ usable' = usable /\ graph' = graph /\ winrt' = winrt /\ dirs' = dirs
      /\ read' = read /\ added' = added /\ lastContext' = lastContext
      /\ generation' = generation /\ memory' = memory /\ store' = store
      /\ defined' = defined /\ lastId' = lastId /\ call' = call
      /\ graphLock' = graphLock /\ held' = held /\ moved' = moved
      /\ leaked' = leaked /\ faults' = faults
  BY DEF AppPrepends, listVars, ids
<1>3. /\ bootLock' = bootLock /\ lastManager' = lastManager /\ boot' = boot
      /\ seen' = seen
      /\ UNCHANGED <<count, inits, boot, managers, ending, lastManager,
                     orphans>>
  BY DEF bootVars, initVars, managerVars
<1>4. raced' = raced /\ failedFast' = failedFast /\ ahead' = ahead
  BY DEF bootVars, initVars, flags
<1>5. /\ made' \in 0..MaxCalls /\ made <= made' /\ faults' \in 0..MaxFaults
      /\ lastContext \in Nat
  BY <1>1, <1>2, BoundsAdd
<1>6. lastContext' \in Nat /\ lastContext <= lastContext'
  BY <1>2, <1>5
<1>7. Grows
  BY <1>1, <1>2, <1>3, <1>6, GrowsByOne
<1>8. CallInv' /\ BoundInv'
  BY <1>1, <1>2, <1>3, <1>5, <1>6, <1>7, CallsStay, BoundsStay
<1>9. GraphState'
  BY <1>1, <1>2, <1>3, SameCallsStay, GraphStays
<1>10. PathInv'
  <2>1. path \in Seq(Dirs) /\ others \in Seq(AppDirs) /\ d \in Dirs
    BY <1>1 DEF PathInv, Dirs
  <2>2. <<d>> \o path \in Seq(Dirs) /\ <<d>> \o others \in Seq(AppDirs)
    BY <2>1
  <2>3. torn' \in BOOLEAN /\ ahead' \in BOOLEAN /\ behind' \in BOOLEAN
    BY <1>1, <1>4 DEF PathInv, InWindow, AppPrepends, listVars
  <2>4. QED
    BY <1>1, <1>2, <1>3, <2>2, <2>3 DEF PathInv
<1>11. IdInv'
  BY <1>1, <1>2, <1>4, WritersStay, IdsAlone
<1>12. CountInv'
  BY <1>1, <1>2, <1>3, <1>4, CountAlone
<1>13. QED
  BY <1>8, <1>9, <1>10, <1>11, <1>12 DEF BootInv

(* A package becomes unusable, or usable again.                            *)
LEMMA PackageChangesKeepsInv ==
  ASSUME BootInv, NEW p \in Packages, PackageChanges(p), UNCHANGED bootVars
  PROVE  BootInv'
<1>1. /\ CallInv /\ BoundInv /\ GraphState /\ PathInv /\ IdInv /\ CountInv
  BY DEF BootInv
<1>2. /\ Fault
      /\ usable' = IF p \in usable THEN usable \ {p} ELSE usable \union {p}
      /\ UNCHANGED <<graphVars, ids, appVars, call, made>>
  BY DEF PackageChanges
<1>3. /\ path' = path /\ graph' = graph /\ winrt' = winrt /\ dirs' = dirs
      /\ read' = read /\ added' = added /\ lastContext' = lastContext
      /\ generation' = generation /\ memory' = memory /\ store' = store
      /\ defined' = defined /\ lastId' = lastId /\ call' = call
      /\ graphLock' = graphLock /\ held' = held /\ moved' = moved
      /\ leaked' = leaked /\ others' = others /\ made' = made
  BY <1>2 DEF graphVars, listVars, ids, appVars, historyVars
<1>4. torn' = torn /\ behind' = behind
  BY <1>2 DEF graphVars, listVars, appVars, historyVars
<1>5. /\ bootLock' = bootLock /\ lastManager' = lastManager /\ boot' = boot
      /\ seen' = seen
      /\ UNCHANGED <<count, inits, boot, managers, ending, lastManager,
                     orphans>>
  BY DEF bootVars, initVars, managerVars
<1>6. raced' = raced /\ failedFast' = failedFast /\ ahead' = ahead
  BY DEF bootVars, initVars, flags
<1>7. /\ made \in Nat /\ made' \in 0..MaxCalls /\ faults' \in 0..MaxFaults
      /\ lastContext \in Nat
  BY <1>1, <1>2, <1>3, BoundsAdd
<1>8. lastContext' \in Nat /\ lastContext <= lastContext' /\ made <= made'
  BY <1>3, <1>7
<1>9. Grows
  BY <1>1, <1>3, <1>5, <1>8, GrowsByOne
<1>10. CallInv' /\ BoundInv'
  BY <1>1, <1>3, <1>5, <1>7, <1>8, <1>9, CallsStay, BoundsStay
<1>11. GraphState'
  BY <1>1, <1>3, <1>5, SameCallsStay, GraphStays
<1>12. PathInv'
  <2>1. torn' \in BOOLEAN /\ ahead' \in BOOLEAN /\ behind' \in BOOLEAN
    BY <1>1, <1>4, <1>6 DEF PathInv
  <2>2. QED
    BY <1>1, <1>2, <1>3, <1>5, <2>1 DEF PathInv
<1>13. IdInv'
  <2>1. faults > 0 => faults' > 0
    BY <1>1, <1>2, FaultsAreNumbers
  <2>2. QED
    BY <1>1, <1>3, <1>6, <2>1, WritersStay, IdsAlone
<1>14. CountInv'
  BY <1>1, <1>3, <1>5, <1>6, CountAlone
<1>15. QED
  BY <1>10, <1>11, <1>12, <1>13, <1>14 DEF BootInv

(* The process ends and a new one starts.                                  *)
LEMMA RestartKeepsInv ==
  ASSUME BootInv, Restart
  PROVE  BootInv'
<1>1. /\ CallInv /\ BoundInv /\ GraphState /\ PathInv /\ IdInv /\ CountInv
      /\ ProcessRestarts /\ Fault
  BY DEF BootInv, Restart
<1>2. raced' = raced /\ failedFast' = failedFast
  BY DEF Restart
<1>3. faults' \in 0..MaxFaults /\ faults' > 0
  BY <1>1, BoundsAdd, FaultsAreNumbers
<1>4. CallInv' /\ BoundInv'
  BY <1>1, <1>3, RestartIsTyped
<1>5. GraphState' /\ PathInv' /\ IdInv'
  BY <1>1, <1>3, RestartKeepsGraph, RestartKeepsPath, RestartKeepsIds
<1>6. /\ raced' \in BOOLEAN /\ failedFast' \in BOOLEAN
      /\ ~raced' => ~failedFast'
  BY <1>1, <1>2 DEF CountInv, RaceInv
<1>7. CountInv'
  BY <1>1, <1>6, RestartKeepsCount
<1>8. QED
  BY <1>4, <1>5, <1>7 DEF BootInv

(* A lifetime manager ends.                                                *)
LEMMA ManagerEndKeepsInv ==
  ASSUME BootInv, NEW m, LifetimeManagerEnds(m)
  PROVE  BootInv'
<1>1. /\ CallInv /\ BoundInv /\ GraphState /\ PathInv /\ IdInv /\ CountInv
  BY DEF BootInv
<1>2. UNCHANGED depVars
  BY DEF LifetimeManagerEnds
<1>3. /\ bootLock' = bootLock /\ lastManager' = lastManager /\ boot' = boot
      /\ seen' = seen
  BY DEF LifetimeManagerEnds
<1>4. failedFast' = failedFast /\ ahead' = ahead
  BY DEF LifetimeManagerEnds, flags
<1>5. /\ call' = call /\ made' = made /\ faults' = faults
      /\ graph' = graph /\ winrt' = winrt /\ dirs' = dirs
      /\ lastContext' = lastContext /\ held' = held /\ leaked' = leaked
      /\ memory' = memory /\ store' = store /\ defined' = defined
      /\ lastId' = lastId
  BY <1>2 DEF depVars, libVars, graphVars, listVars, ids, appVars,
              historyVars
<1>6. /\ usable' = usable /\ generation' = generation /\ path' = path
      /\ read' = read /\ added' = added /\ others' = others
      /\ graphLock' = graphLock /\ moved' = moved
  BY <1>2 DEF depVars, libVars, graphVars, listVars, appVars, historyVars
<1>7. torn' = torn /\ behind' = behind
  BY <1>2 DEF depVars, libVars, graphVars, listVars, appVars, historyVars
<1>8. /\ made \in Nat /\ made' \in 0..MaxCalls /\ faults' \in 0..MaxFaults
      /\ lastContext \in Nat
  BY <1>1, <1>5, BoundsAdd
<1>9. lastContext' \in Nat /\ lastContext <= lastContext' /\ made <= made'
  BY <1>5, <1>8
<1>10. Grows
  BY <1>1, <1>3, <1>5, <1>9, GrowsByOne
<1>11. CallInv' /\ BoundInv'
  BY <1>1, <1>3, <1>5, <1>8, <1>9, <1>10, CallsStay, BoundsStay
<1>12. GraphState'
  BY <1>1, <1>3, <1>5, SameCallsStay, GraphStays
<1>13. PathInv'
  BY <1>1, <1>3, <1>4, <1>6, <1>7, PathStays DEF pathVars
<1>14. IdInv'
  BY <1>1, <1>4, <1>5, WritersStay, IdsAlone
<1>15. CountInv'
  BY <1>1, ManagerEndKeepsCount
<1>16. QED
  BY <1>11, <1>12, <1>13, <1>14, <1>15 DEF BootInv

(* Nothing happens.                                                        *)
LEMMA StutterKeepsInv ==
  ASSUME BootInv, UNCHANGED vars
  PROVE  BootInv'
<1>1. /\ CallInv /\ BoundInv /\ GraphState /\ PathInv /\ IdInv /\ CountInv
  BY DEF BootInv
<1>2. /\ bootLock' = bootLock /\ lastManager' = lastManager /\ boot' = boot
      /\ seen' = seen
      /\ UNCHANGED <<count, inits, boot, managers, ending, lastManager,
                     orphans>>
  BY DEF vars, bootVars, initVars, managerVars
<1>3. raced' = raced /\ failedFast' = failedFast /\ ahead' = ahead
  BY DEF vars, bootVars, initVars, flags
<1>4. UNCHANGED depVars
  BY DEF vars
<1>5. /\ call' = call /\ made' = made /\ faults' = faults
      /\ graph' = graph /\ winrt' = winrt /\ dirs' = dirs
      /\ lastContext' = lastContext /\ held' = held /\ leaked' = leaked
      /\ memory' = memory /\ store' = store /\ defined' = defined
      /\ lastId' = lastId
  BY <1>4 DEF depVars, libVars, graphVars, listVars, ids, appVars,
              historyVars
<1>6. /\ usable' = usable /\ generation' = generation /\ path' = path
      /\ read' = read /\ added' = added /\ others' = others
      /\ graphLock' = graphLock /\ moved' = moved
  BY <1>4 DEF depVars, libVars, graphVars, listVars, appVars, historyVars
<1>7. torn' = torn /\ behind' = behind
  BY <1>4 DEF depVars, libVars, graphVars, listVars, appVars, historyVars
<1>8. /\ made \in Nat /\ made' \in 0..MaxCalls /\ faults' \in 0..MaxFaults
      /\ lastContext \in Nat
  BY <1>1, <1>5, BoundsAdd
<1>9. lastContext' \in Nat /\ lastContext <= lastContext' /\ made <= made'
  BY <1>5, <1>8
<1>10. Grows
  BY <1>1, <1>2, <1>5, <1>9, GrowsByOne
<1>11. CallInv' /\ BoundInv'
  BY <1>1, <1>2, <1>5, <1>8, <1>9, <1>10, CallsStay, BoundsStay
<1>12. GraphState'
  BY <1>1, <1>2, <1>5, SameCallsStay, GraphStays
<1>13. PathInv'
  BY <1>1, <1>2, <1>3, <1>6, <1>7, PathStays DEF pathVars
<1>14. IdInv'
  BY <1>1, <1>3, <1>5, WritersStay, IdsAlone
<1>15. CountInv'
  BY <1>1, <1>2, <1>3, <1>5, CountAlone
<1>16. QED
  BY <1>11, <1>12, <1>13, <1>14, <1>15 DEF BootInv

(* Every step keeps the invariant.                                         *)
LEMMA NextKeepsInv ==
  ASSUME BootInv, [Next]_vars
  PROVE  BootInv'
<1>1. ASSUME NEW t \in Threads, DependencyCall(t), UNCHANGED bootVars
      PROVE  BootInv'
  BY <1>1, DependencyCallsKeepInv
<1>2. ASSUME NEW t \in Threads, BootstrapCall(t)
      PROVE  BootInv'
  BY <1>2, BootstrapCallsKeepInv
<1>3. ASSUME NEW t \in Threads, NEW d \in AppDirs, AppPrepends(t, d),
             torn' = (torn \/ InWindow), UNCHANGED bootVars
      PROVE  BootInv'
  BY <1>3, AppPrependsKeepsInv
<1>4. ASSUME NEW p \in Packages, PackageChanges(p), UNCHANGED bootVars
      PROVE  BootInv'
  BY <1>4, PackageChangesKeepsInv
<1>5. CASE Restart
  BY <1>5, RestartKeepsInv
<1>6. ASSUME NEW m \in managers, LifetimeManagerEnds(m)
      PROVE  BootInv'
  BY <1>6, ManagerEndKeepsInv
<1>7. CASE UNCHANGED vars
  BY <1>7, StutterKeepsInv
<1>8. QED
  BY <1>1, <1>2, <1>3, <1>4, <1>5, <1>6, <1>7 DEF Next

(* The invariant holds in every state.                                     *)
LEMMA BootInvIsKept == Spec => []BootInv
<1>1. Init => BootInv
  BY InitIsSound
<1>2. BootInv /\ [Next]_vars => BootInv'
  BY NextKeepsInv
<1>3. QED
  BY <1>1, <1>2, PTL DEF Spec

(* Every variable has its type; the bounds of the calls are those of the   *)
(* ids and of the lifetime managers.                                       *)
LEMMA TypesFollow ==
  ASSUME BootInv
  PROVE  TypeOK
<1>1. /\ CallInv /\ BoundInv /\ ListInv /\ ContextInv /\ PathInv /\ IdInv
      /\ TicketInv /\ ManagerInv /\ RaceInv
  BY DEF BootInv, GraphState, CountInv
<1>2. /\ lastId \in Nat /\ lastManager \in Nat /\ lastContext \in Nat
      /\ made \in 0..MaxCalls /\ faults \in 0..MaxFaults
      /\ lastId <= made /\ lastManager <= made /\ MaxCalls \in Nat
  BY <1>1, BoundAssumption DEF BoundInv
<1>3. /\ 1..lastId \subseteq Ids /\ lastId \in 0..MaxCalls
      /\ lastManager \in 0..MaxCalls /\ 1..lastManager \subseteq 1..MaxCalls
      /\ 0..lastManager \subseteq 0..MaxCalls
      /\ 1..lastContext \subseteq Nat
  BY <1>2 DEF Ids
<1>4. GraphTypeOK
  <2>1. dirs \subseteq Nat
    <3>1. Contexts \subseteq 1..lastContext /\ dirs \subseteq Contexts
      BY <1>1 DEF ListInv, ContextInv
    <3>2. QED
      BY <1>3, <3>1
  <2>2. graph \in Seq(Nodes) /\ winrt \in Seq(Nat)
    BY <1>1 DEF ListInv
  <2>3. /\ usable \subseteq Packages /\ generation \in Nat
        /\ path \in Seq(Packages \union AppDirs) /\ added \in Seq(Packages)
        /\ read \in Seq(Packages \union AppDirs)
    BY <1>1 DEF PathInv, Dirs
  <2>5. behind \in BOOLEAN
    BY <1>1 DEF PathInv
  <2>4. QED
    BY <1>2, <2>1, <2>2, <2>3, <2>5 DEF GraphTypeOK
<1>5. DependenciesTypeOK
  <2>1. \A f \in {memory, store, defined} :
          /\ DOMAIN f \subseteq Ids
          /\ \A i \in DOMAIN f : f[i] \in Criteria \union {NoData}
    BY <1>1, <1>3 DEF IdInv, IsTable
  <2>2. DOMAIN call = Threads
    BY <1>1 DEF CallInv
  <2>3. held \subseteq Nat /\ leaked \subseteq Nat
    BY <1>1, <1>3 DEF ContextInv
  <2>4. /\ graphLock \in Threads \union {NoThread} /\ moved \subseteq Threads
        /\ torn \in BOOLEAN /\ others \in Seq(AppDirs)
    BY <1>1 DEF PathInv
  <2>5. QED
    BY <1>2, <1>3, <1>4, <2>1, <2>2, <2>3, <2>4 DEF DependenciesTypeOK
<1>6. boot \in [context : Nat, manager : 0..MaxCalls]
  BY <1>1, <1>3 DEF ManagerInv
<1>7. /\ ending \subseteq managers /\ managers \subseteq 1..MaxCalls
      /\ orphans \subseteq 1..MaxCalls
  BY <1>1, <1>3 DEF ManagerInv
<1>8. bootLock \in Threads \union {NoThread}
  BY <1>1 DEF CallInv
<1>9. count \in Nat /\ inits \in [Threads -> Nat]
  BY <1>1 DEF TicketInv
<1>10. seen \in Seq(Packages \union AppDirs) /\ ahead \in BOOLEAN
  BY <1>1 DEF PathInv, Dirs
<1>11. raced \in BOOLEAN /\ failedFast \in BOOLEAN
  BY <1>1 DEF RaceInv
<1>12. QED
  BY <1>3, <1>5, <1>6, <1>7, <1>8, <1>9, <1>10, <1>11 DEF TypeOK

(* The invariant implies what is wanted of the graph.                      *)
LEMMA GraphFollows ==
  ASSUME BootInv
  PROVE  GraphInv
<1>1. ListInv /\ ContextInv
  BY DEF BootInv, GraphState
<1>2. TypeOK
  BY TypesFollow
<1>3. Sorted /\ ActivationOrder /\ graph \in Seq(Nodes) /\ Unique
  BY <1>1 DEF ListInv
<1>4. Cardinality(Contexts) = Len(graph)
  BY <1>3, ContextsAreCounted
<1>5. HeldIsInGraph
  <2>1. Adding \union At({"trim"}) = At(Carriers)
    BY DEF Adding, At, Carriers
  <2>2. Contexts = held \union leaked \union ({boot.context} \ {0})
                   \union Carried(Carriers)
    BY <1>1 DEF ContextInv, OwnersFit
  <2>3. QED
    BY <2>1, <2>2 DEF HeldIsInGraph, Carried
<1>6. dirs = Contexts \ (leaked \union {call[t].context : t \in Adding})
  <2>1. Adding = At(Adders)
    BY DEF Adding, Adders
  <2>2. dirs = Contexts \ (leaked \union Carried(Adders))
    BY <1>1 DEF ContextInv
  <2>3. QED
    BY <2>1, <2>2 DEF Carried
<1>7. QED
  BY <1>2, <1>3, <1>4, <1>5, <1>6 DEF GraphInv

(* While a thread has an initialization to give back, the count is not     *)
(* zero, so the globals are set: the framework's context is one of the     *)
(* graph's, and its manager is not told to end.                            *)
LEMMA InitializedFollows ==
  ASSUME BootInv
  PROVE  InitializedStays
<1>1. CallInv /\ ContextInv /\ TicketInv /\ ManagerInv /\ RaceInv
  BY DEF BootInv, GraphState, CountInv
<1>2. ASSUME ~raced
      PROVE  ~failedFast
  BY <1>1, <1>2 DEF RaceInv
<1>3. ASSUME ~raced, NEW t \in Threads, inits[t] > 0
      PROVE  /\ boot.context \in Contexts
             /\ boot.manager \in managers \ ending
  <2>1. count \in Nat /\ count > 0 /\ (HalfDown => count > 1)
    BY <1>1, <1>3, TicketHeld DEF TicketInv
  <2>2. count # IF HalfDown THEN 1 ELSE 0
    BY ONLY <2>1
  <2>3. bootLock = NoThread
    BY <1>1, <1>3, <2>2 DEF RaceInv
  <2>4. boot # NotBooted
    BY <1>1, <1>3, <2>1, <2>3 DEF RaceInv
  <2>5. boot.context # 0
    BY <1>1, <2>3, <2>4, ShuttingIsInside DEF ContextInv, BootFits
  <2>6. boot.context \in Contexts
    BY <1>1, <2>5 DEF ContextInv, OwnersFit
  <2>7. QED
    BY <1>1, <2>4, <2>6 DEF ManagerInv
<1>4. QED
  BY <1>2, <1>3 DEF InitializedStays

(* The graph of the process is sound, whatever the threads' calls do: it   *)
(* is in the order of the ranks, holds exactly the packages of the         *)
(* contexts somebody has, with their DLL directories, and activation goes  *)
(* through them in its order (PackageGraph.cpp).                           *)
THEOREM GraphIsSound == Spec => []GraphInv
<1>1. BootInv => GraphInv
  BY GraphFollows
<1>2. QED
  BY <1>1, BootInvIsKept, PTL

(* What outlives the process and was not deleted is in the data store,     *)
(* whole (DataStore.cpp).                                                  *)
THEOREM PinsAreKept == Spec => []PinsStay
<1>1. BootInv => PinsStay
  BY PinsFollow DEF BootInv
<1>2. QED
  BY <1>1, BootInvIsKept, PTL

(* A thread that has initialized and not shut down can rely on the         *)
(* framework and its lifetime manager, unless a count was read just before *)
(* it was incremented (MddBootstrap.cpp).                                  *)
THEOREM InitializedIsKept == Spec => []InitializedStays
<1>1. BootInv => InitializedStays
  BY InitializedFollows
<1>2. QED
  BY <1>1, BootInvIsKept, PTL

-----------------------------------------------------------------------------
(* Resolving a dependency: the loop over the packages of a family          *)

(* The results of a loop from b on: step[k] is what its k-th round makes   *)
(* of what there was.                                                      *)
Runs(g, n, S, b, step) ==
  /\ g \in [0..n -> S] /\ g[0] = b
  /\ \A k \in 1..n : g[k] = step[k][g[k - 1]]

(* A loop has its results: of the lengths for which there are none, the    *)
(* least would be one more than a length that has them.                    *)
LEMMA LoopRuns ==
  ASSUME NEW S, NEW L \in Nat, NEW b \in S, NEW step \in [1..L -> [S -> S]]
  PROVE  \E g : Runs(g, L, S, b, step)
<1> DEFINE Bad == {n \in 0..L : \A g : ~Runs(g, n, S, b, step)}
<1>1. SUFFICES ASSUME Bad # {} PROVE FALSE
  <2>1. L \notin Bad
    BY <1>1
  <2>2. QED
    BY <2>1
<1>2. PICK m \in Bad : \A n \in Bad : m <= n
  <2>1. Bad \subseteq Nat
    OBVIOUS
  <2>2. QED
    BY <1>1, <2>1, LeastIsThere
<1>3. CASE m = 0
  <2> DEFINE g == [k \in 0..0 |-> b]
  <2>1. Runs(g, 0, S, b, step)
    BY DEF Runs
  <2>2. QED
    BY <1>2, <1>3, <2>1
<1>4. CASE m # 0
  <2>1. m \in 1..L /\ m - 1 \in 0..L /\ m - 1 \notin Bad
    <3>1. m \in 0..L
      OBVIOUS
    <3>2. m \in 1..L /\ m - 1 \in 0..L /\ ~(m <= m - 1)
      BY <3>1, <1>4
    <3>3. QED
      BY <3>2, <1>2
  <2>2. PICK f : Runs(f, m - 1, S, b, step)
    BY <2>1
  <2> DEFINE g == [k \in 0..m |-> IF k = m THEN step[m][f[m - 1]] ELSE f[k]]
  <2>3. f \in [0..(m - 1) -> S] /\ f[0] = b
        /\ \A k \in 1..(m - 1) : f[k] = step[k][f[k - 1]]
    BY <2>2 DEF Runs
  <2>4. step[m][f[m - 1]] \in S
    BY <2>1, <2>3
  <2>5. g \in [0..m -> S]
    BY <2>1, <2>3, <2>4
  <2>6. g[0] = b
    BY <2>1, <2>3
  <2>7. \A k \in 1..m : g[k] = step[k][g[k - 1]]
    BY <2>1, <2>3
  <2>8. Runs(g, m, S, b, step)
    BY <2>5, <2>6, <2>7 DEF Runs
  <2>9. QED
    BY <1>2, <2>8
<1>5. QED
  BY <1>3, <1>4

(* The best fits after the first packages of an order                      *)
BestOf(best, order, c) ==
  /\ best \in [0..Len(order) -> Packages \union {NoPackage}]
  /\ best[0] = NoPackage
  /\ \A n \in 1..Len(order) : best[n] = BetterFit(best[n - 1], order[n], c)

(* What the loop of Resolve computes, round by round                       *)
LEMMA BestFitIsComputed ==
  ASSUME NEW order \in Seq(Packages), NEW c
  PROVE  \E best : /\ BestOf(best, order, c)
                   /\ BestFit(order, c) = best[Len(order)]
<1> DEFINE S == Packages \union {NoPackage}
           L == Len(order)
           Best(best) == [n \in 0..L |->
                    IF n = 0 THEN NoPackage
                    ELSE BetterFit(best[n - 1], order[n], c)]
           step == [k \in 1..L |-> [p \in S |-> BetterFit(p, order[k], c)]]
           f == CHOOSE g : g = Best(g)
<1>1. step \in [1..L -> [S -> S]]
  BY DEF BetterFit
<1>2. L \in Nat /\ NoPackage \in S
  OBVIOUS
<1>3. PICK g : Runs(g, L, S, NoPackage, step)
  <2> HIDE DEF step, S, L
  <2>1. QED
    BY <1>1, <1>2, LoopRuns
<1>4. \A k \in 1..L : k - 1 \in 0..L /\ g[k - 1] \in S
                      /\ g[k] = BetterFit(g[k - 1], order[k], c)
  BY <1>2, <1>3 DEF Runs
<1>5. g = Best(g)
  <2>1. \A n \in 0..L : n # 0 => n \in 1..L
    BY <1>2
  <2>2. \A n \in 0..L : g[n] = Best(g)[n]
    BY <1>3, <1>4, <2>1 DEF Runs
  <2>3. QED
    BY <1>3, <2>2 DEF Runs
<1>6. f = Best(f)
  <2> HIDE DEF Best
  <2>1. QED
    BY <1>5
<1>7. BestFit(order, c) = f[L]
  BY DEF BestFit
<1>8. /\ f[0] = NoPackage
      /\ \A k \in 1..L : f[k] = BetterFit(f[k - 1], order[k], c)
  <2> HIDE DEF f
  <2>1. \A n \in 0..L : f[n] = IF n = 0 THEN NoPackage
                    ELSE BetterFit(f[n - 1], order[n], c)
    BY <1>6
  <2>2. QED
    BY <1>2, <2>1
<1>9. f \in [0..L -> S]
  <2> DEFINE Bad == {n \in 0..L : f[n] \notin S}
  <2> HIDE DEF f
  <2>1. SUFFICES ASSUME Bad # {} PROVE FALSE
    BY <1>6
  <2>2. PICK m \in Bad : \A n \in Bad : m <= n
    <3>1. Bad \subseteq Nat
      OBVIOUS
    <3>2. QED
      BY <2>1, <3>1, LeastIsThere
  <2>3. m # 0 
    BY <1>8, <1>2
  <2>4. m - 1 \in 0..L /\ f[m - 1] \in S /\ order[m] \in S
    BY <2>2, <2>3, <1>2
  <2>5. QED
    BY <2>4, <1>8, <2>2, <2>3, <1>2 DEF BetterFit
<1>10. QED
  BY <1>7, <1>8, <1>9 DEF BestOf

(* A loop that goes through packages of the family has, after n of them,   *)
(* a fit if there is one among these, and none of these is a higher one    *)
(* unless one is architecture-neutral.                                     *)
LEMMA LoopFindsFit ==
  ASSUME NEW c \in Criteria, NEW order \in Seq(Packages), NEW best,
         BestOf(best, order, c),
         \A k \in 1..Len(order) : FamilyOf[order[k]] = c.family,
         NEW n \in 0..Len(order)
  PROVE  /\ best[n] = NoPackage => \A k \in 1..n : ~Fits(order[k], c)
         /\ best[n] # NoPackage => Fits(best[n], c) /\ best[n] \in Packages
         /\ (\A k \in 1..n : Fits(order[k], c) =>
                               ArchitectureOf[order[k]] # "neutral")
              => \A k \in 1..n : Fits(order[k], c) =>
                   VersionOf[order[k]] <= VersionOf[best[n]]
<1> DEFINE L == Len(order)
           First(m) == best[m] = NoPackage =>
                         \A k \in 1..m : ~Fits(order[k], c)
           Found1(m) == best[m] # NoPackage =>
                          /\ Fits(best[m], c) /\ best[m] \in Packages
                          /\ \E k \in 1..m : best[m] = order[k]
           Plain(m) == \A k \in 1..m : Fits(order[k], c) =>
                               ArchitectureOf[order[k]] # "neutral"
           Top(m) == Plain(m) => \A k \in 1..m : Fits(order[k], c) =>
                                    VersionOf[order[k]] <= VersionOf[best[m]]
           Bad == {m \in 0..L : ~(First(m) /\ Found1(m) /\ Top(m))}
<1>1. L \in Nat /\ \A k \in 1..L : order[k] \in Packages
  OBVIOUS
<1>2. /\ best \in [0..L -> Packages \union {NoPackage}]
      /\ best[0] = NoPackage
      /\ \A m \in 1..L : best[m] = BetterFit(best[m - 1], order[m], c)
  BY DEF BestOf
<1>3. SUFFICES ASSUME Bad # {} PROVE FALSE
  <2> HIDE DEF L
  <2>1. n \notin Bad /\ n \in 0..L
    BY <1>3 DEF L
  <2>2. First(n) /\ Found1(n) /\ Top(n)
    BY <2>1
  <2>3. QED
    BY <2>2
<1> HIDE DEF L
<1>4. PICK m \in Bad : \A k \in Bad : m <= k
  <2>1. Bad \subseteq Nat
    BY <1>1
  <2>2. QED
    BY <1>3, <2>1, LeastIsThere
<1>5. m \in 0..L
  OBVIOUS
<1>6. m # 0
  <2>1. First(0) /\ Found1(0) /\ Top(0)
    BY <1>2
  <2>2. QED
    BY <2>1
<1>7. m \in 1..L /\ m - 1 \in 0..L /\ m - 1 \notin Bad
  BY <1>1, <1>4, <1>5, <1>6
<1> DEFINE b == best[m - 1]
           p == order[m]
<1>8. /\ First(m - 1) /\ Found1(m - 1) /\ Top(m - 1)
      /\ best[m] = BetterFit(b, p, c)
      /\ p \in Packages /\ p # NoPackage /\ FamilyOf[p] = c.family
      /\ b \in Packages \union {NoPackage}
      /\ \A k \in 1..m : k \in 1..(m - 1) \/ k = m
      /\ m \in 1..m /\ 1..(m - 1) \subseteq 1..m
  BY <1>1, <1>2, <1>5, <1>7, CatalogAssumption DEF L
<1>9. /\ \A q \in Packages : VersionOf[q] \in Nat
      /\ \A k \in 1..m : order[k] \in Packages
  BY <1>1, <1>5, CatalogAssumption
<1> HIDE DEF b, p, Bad
<1>10. CASE best[m] = p /\ Fits(p, c) /\ NotLower(b, p)
  <2>1. First(m) /\ Found1(m)
    BY <1>8, <1>10 DEF p
  <2>2. ASSUME Plain(m), NEW k \in 1..m, Fits(order[k], c)
        PROVE  VersionOf[order[k]] <= VersionOf[best[m]]
    <3>1. Plain(m - 1) /\ VersionOf[p] \in Nat
      BY <2>2, <1>8, <1>9
    <3>2. CASE k = m
      BY <3>1, <3>2, <1>10 DEF p
    <3>3. CASE k \in 1..(m - 1)
      <4>1. b # NoPackage
        BY <3>3, <1>8, <2>2 DEF b
      <4>2. /\ VersionOf[order[k]] <= VersionOf[b]
            /\ VersionOf[b] <= VersionOf[p]
        BY <4>1, <3>1, <3>3, <1>8, <1>10, <2>2 DEF b, NotLower
      <4>3. /\ VersionOf[order[k]] \in Nat /\ VersionOf[b] \in Nat
        BY <4>1, <1>8, <1>9
      <4>4. QED
        BY <4>2, <4>3, <3>1, <1>10
    <3>4. QED
      BY <3>2, <3>3, <1>8
  <2>3. QED
    BY <2>1, <2>2, <1>4 DEF Bad
<1>11. CASE /\ best[m] = b
            /\ Fits(p, c) =>
                 /\ b # NoPackage
                 /\ ArchitectureOf[b] # "neutral" => ~NotLower(b, p)
  <2>1. First(m)
    BY <1>8, <1>11 DEF p, b
  <2>2. Found1(m)
    BY <1>8, <1>11 DEF b
  <2>3. ASSUME Plain(m), NEW k \in 1..m, Fits(order[k], c)
        PROVE  VersionOf[order[k]] <= VersionOf[best[m]]
    <3>1. Plain(m - 1)
      BY <2>3, <1>8
    <3>2. CASE k \in 1..(m - 1)
      BY <3>1, <3>2, <1>8, <1>11, <2>3 DEF b
    <3>3. CASE k = m
      <4>1. b # NoPackage /\ b \in Packages
        BY <3>3, <1>8, <1>11, <2>3 DEF p
      <4>2. ArchitectureOf[b] # "neutral"
        BY <3>1, <4>1, <1>8 DEF b
      <4>3. ~NotLower(b, p)
        BY <4>2, <3>3, <1>11, <2>3 DEF p
      <4>4. QED
        BY <4>1, <4>3, <3>3, <1>8, <1>9, <1>11 DEF NotLower, p
    <3>4. QED
      BY <3>2, <3>3, <1>8
  <2>4. QED
    BY <2>1, <2>2, <2>3, <1>4 DEF Bad
<1>12. QED
  <2>1. CASE /\ NotLower(b, p) /\ VersionOf[p] >= c.minVersion
             /\ FitsArchitecture(b, p, c) /\ p \in usable
    <3>1. Fits(p, c)
      BY <2>1, <1>8 DEF Fits, FitsArchitecture, FitsBetter
    <3>2. QED
      BY <2>1, <3>1, <1>8, <1>10 DEF BetterFit
  <2>2. CASE ~ /\ NotLower(b, p) /\ VersionOf[p] >= c.minVersion
               /\ FitsArchitecture(b, p, c) /\ p \in usable
    <3>1. best[m] = b
      BY <2>2, <1>8 DEF BetterFit
    <3>2. ASSUME Fits(p, c)
          PROVE  /\ b # NoPackage
                 /\ ArchitectureOf[b] # "neutral" => ~NotLower(b, p)
      <4>1. ~NotLower(b, p) \/ ~FitsArchitecture(b, p, c)
        BY <3>2, <2>2 DEF Fits
      <4>2. ~FitsArchitecture(b, p, c) =>
               b # NoPackage /\ ArchitectureOf[b] = "neutral"
        BY <3>2 DEF Fits, FitsArchitecture, FitsBetter
      <4>3. QED
        BY <4>1, <4>2 DEF NotLower
    <3>3. QED
      BY <3>1, <3>2, <1>11
  <2>3. QED
    BY <2>1, <2>2

(* The system reports each package of the family once.                     *)
LEMMA FamilyIsReported ==
  ASSUME NEW c, NEW order \in FindPackagesByFamily(c)
  PROVE  /\ order \in Seq(Packages)
         /\ \A k \in 1..Len(order) : FamilyOf[order[k]] = c.family
         /\ \A p \in Packages : FamilyOf[p] = c.family =>
              \E k \in 1..Len(order) : order[k] = p
<1> DEFINE F == {p \in Packages : FamilyOf[p] = c.family}
           n == Cardinality(F)
<1>1. IsFiniteSet(F)
  BY CatalogAssumption, FS_Subset
<1> HIDE DEF F
<1>2. n \in Nat
  BY <1>1, FS_CardinalityType
<1>3. order \in [1..n -> F] /\ \A i, j \in 1..n : i # j => order[i] # order[j]
  BY DEF FindPackagesByFamily, SetToSeqs, F
<1>4. order \in Injection(1..n, F)
  BY <1>3, Fun_IsInj
<1>5. Cardinality(1..n) = n
  BY <1>2, FS_Interval
<1>6. order \in Surjection(1..n, F)
  BY <1>1, <1>4, <1>5, FS_Injection
<1>7. \A p \in F : \E k \in 1..n : order[k] = p
  BY <1>6 DEF Surjection
<1>8. order \in Seq(F) /\ Len(order) = n
  BY <1>2, <1>3
<1>9. QED
  BY <1>3, <1>7, <1>8 DEF F

(* ResolutionFits, whatever the order.                                     *)
LEMMA BestFitFits == ResolutionFits
<1> SUFFICES ASSUME NEW c \in Criteria, NEW r \in Resolutions(c)
             PROVE  LET fit == {p \in Packages : Fits(p, c)}
                    IN /\ IF fit = {} THEN r = NoPackage ELSE r \in fit
                       /\ (\A p \in fit : ArchitectureOf[p] # "neutral") =>
                            \A p \in fit : VersionOf[p] <= VersionOf[r]
  BY DEF ResolutionFits
<1> DEFINE fit == {p \in Packages : Fits(p, c)}
<1>1. PICK order \in FindPackagesByFamily(c) : r = BestFit(order, c)
  BY DEF Resolutions
<1>2. /\ order \in Seq(Packages)
      /\ \A k \in 1..Len(order) : FamilyOf[order[k]] = c.family
      /\ \A p \in Packages : FamilyOf[p] = c.family =>
           \E k \in 1..Len(order) : order[k] = p
  BY FamilyIsReported
<1>3. PICK best : BestOf(best, order, c) /\ r = best[Len(order)]
  BY <1>1, <1>2, BestFitIsComputed
<1>4. /\ r = NoPackage => \A k \in 1..Len(order) : ~Fits(order[k], c)
      /\ r # NoPackage => Fits(r, c) /\ r \in Packages
      /\ (\A k \in 1..Len(order) : Fits(order[k], c) =>
                               ArchitectureOf[order[k]] # "neutral")
              => \A k \in 1..Len(order) : Fits(order[k], c) =>
                   VersionOf[order[k]] <= VersionOf[r]
  <2>1. Len(order) \in 0..Len(order)
    BY <1>2
  <2>2. QED
    BY <1>2, <1>3, <2>1, LoopFindsFit
<1>5. \A k \in 1..Len(order) : order[k] \in Packages
  BY <1>2
<1>6. \A p \in fit : \E k \in 1..Len(order) : order[k] = p
  BY <1>2 DEF Fits
<1>7. IF fit = {} THEN r = NoPackage ELSE r \in fit
  BY <1>4, <1>6
<1>8. (\A p \in fit : ArchitectureOf[p] # "neutral") =>
                            \A p \in fit : VersionOf[p] <= VersionOf[r]
  BY <1>4, <1>5, <1>6
<1>9. QED
  BY <1>7, <1>8

-----------------------------------------------------------------------------
(* The directories of a set on a PATH                                      *)

(* What is on a PATH of given directories is computed one by one.          *)
KeptIn(k, p, S) ==
  /\ k[0] = <<>>
  /\ \A n \in 1..Len(p) :
       k[n] = IF p[n] \in S THEN Append(k[n - 1], p[n]) ELSE k[n - 1]

(* Kept is what such a loop computes.                                      *)
LEMMA KeptIsComputed ==
  ASSUME NEW T, NEW p \in Seq(T), NEW S
  PROVE  \E k \in [0..Len(p) -> Seq(T \intersect S)] :
            KeptIn(k, p, S) /\ Kept(p, S) = k[Len(p)]
<1> DEFINE U == Seq(T \intersect S)
           L == Len(p)
           All(k) == [n \in 0..L |->
               IF n = 0 THEN <<>>
               ELSE IF p[n] \in S THEN Append(k[n - 1], p[n]) ELSE k[n - 1]]
           step == [n \in 1..L |-> [s \in U |->
                      IF p[n] \in S THEN Append(s, p[n]) ELSE s]]
           f == CHOOSE g : g = All(g)
<1>1. L \in Nat /\ \A n \in 1..L : p[n] \in T
  OBVIOUS
<1>2. <<>> \in U
  OBVIOUS
<1>3. step \in [1..L -> [U -> U]]
  <2>1. ASSUME NEW n \in 1..L, NEW s \in U
        PROVE  (IF p[n] \in S THEN Append(s, p[n]) ELSE s) \in U
    <3>1. p[n] \in T
      BY <1>1
    <3>2. QED
      BY <3>1
  <2> HIDE DEF U, L
  <2>2. QED
    BY <2>1
<1>4. PICK g : Runs(g, L, U, <<>>, step)
  <2> HIDE DEF step, U, L
  <2>1. QED
    BY <1>1, <1>2, <1>3, LoopRuns
<1>5. /\ g \in [0..L -> U] /\ g[0] = <<>>
      /\ \A n \in 1..L : g[n] = step[n][g[n - 1]]
  BY <1>4 DEF Runs
<1> HIDE DEF U
<1>6. \A n \in 1..L : n - 1 \in 0..L /\ g[n - 1] \in U
         /\ g[n] = IF p[n] \in S THEN Append(g[n - 1], p[n]) ELSE g[n - 1]
  <2>1. \A n \in 1..L : \A s \in U :
          step[n][s] = IF p[n] \in S THEN Append(s, p[n]) ELSE s
    OBVIOUS
  <2> HIDE DEF step, L
  <2>2. \A n \in 1..L : n - 1 \in 0..L
    BY <1>1
  <2>3. QED
    BY <1>5, <2>1, <2>2
<1>7. g = All(g)
  <2>1. \A n \in 0..L : n # 0 => n \in 1..L
    BY <1>1
  <2>2. \A n \in 0..L : g[n] = All(g)[n]
    BY <1>5, <1>6, <2>1
  <2>3. QED
    BY <1>5, <2>2
<1>8. f = All(f)
  <2> HIDE DEF All
  <2>1. QED
    BY <1>7
<1>9. Kept(p, S) = f[L]
  BY DEF Kept
<1> HIDE DEF f
<1>10. /\ f[0] = <<>>
       /\ \A n \in 1..L :
            f[n] = IF p[n] \in S THEN Append(f[n - 1], p[n]) ELSE f[n - 1]
  <2>1. \A n \in 0..L : f[n] = IF n = 0 THEN <<>>
              ELSE IF p[n] \in S THEN Append(f[n - 1], p[n]) ELSE f[n - 1]
    BY <1>8
  <2>2. QED
    BY <1>1, <2>1
<1>11. f \in [0..L -> U]
  <2> DEFINE Bad == {n \in 0..L : f[n] \notin U}
  <2>1. SUFFICES ASSUME Bad # {} PROVE FALSE
    BY <1>8
  <2>2. PICK m \in Bad : \A n \in Bad : m <= n
    <3>1. Bad \subseteq Nat
      OBVIOUS
    <3>2. QED
      BY <2>1, <3>1, LeastIsThere
  <2>3. m # 0
    BY <1>2, <1>10
  <2>4. m \in 1..L /\ m - 1 \in 0..L /\ f[m - 1] \in U /\ p[m] \in T
    BY <1>1, <2>2, <2>3
  <2>5. (IF p[m] \in S THEN Append(f[m - 1], p[m]) ELSE f[m - 1]) \in U
    BY <2>4 DEF U
  <2>6. QED
    BY <1>10, <2>4, <2>5
<1>12. QED
  BY <1>9, <1>10, <1>11 DEF KeptIn, U

(* Their type; the number of them.                                         *)
Number(p, S) == Len(Kept(p, S))

LEMMA KeptType ==
  ASSUME NEW T, NEW p \in Seq(T), NEW S
  PROVE  Kept(p, S) \in Seq(T \intersect S) /\ Number(p, S) \in Nat
<1>1. Kept(p, S) \in Seq(T \intersect S)
  <2>1. PICK k \in [0..Len(p) -> Seq(T \intersect S)] : Kept(p, S) = k[Len(p)]
    BY KeptIsComputed
  <2>2. Len(p) \in 0..Len(p)
    OBVIOUS
  <2>3. QED
    BY <2>1, <2>2
<1>2. QED
  BY <1>1 DEF Number

(* Directories none of which is in S leave nothing.                        *)
LEMMA KeptNone ==
  ASSUME NEW T, NEW p \in Seq(T), NEW S, T \intersect S = {}
  PROVE  Kept(p, S) = <<>>
<1>1. Kept(p, S) \in Seq({})
  BY KeptType
<1>2. QED
  BY <1>1

(* A single directory                                                      *)
LEMMA KeptOne ==
  ASSUME NEW d, NEW S
  PROVE  Kept(<<d>>, S) = IF d \in S THEN <<d>> ELSE <<>>
<1> DEFINE p == <<d>>
<1>1. p \in Seq({d}) /\ Len(p) = 1 /\ p[1] = d
  OBVIOUS
<1> HIDE DEF p
<1>2. PICK k \in [0..Len(p) -> Seq({d} \intersect S)] :
              KeptIn(k, p, S) /\ Kept(p, S) = k[Len(p)]
  BY <1>1, KeptIsComputed
<1>3. k[0] = <<>> /\ k[1] = IF d \in S THEN Append(k[0], d) ELSE k[0]
  BY <1>1, <1>2 DEF KeptIn
<1>4. Kept(p, S) = IF d \in S THEN <<d>> ELSE <<>>
  BY <1>1, <1>2, <1>3
<1>5. QED
  BY <1>4 DEF p

(* Directories all of which are in S stay.                                 *)
LEMMA KeptAll ==
  ASSUME NEW S, NEW p \in Seq(S)
  PROVE  Kept(p, S) = p
<1> DEFINE L == Len(p)
<1>1. PICK k \in [0..L -> Seq(S \intersect S)] :
              KeptIn(k, p, S) /\ Kept(p, S) = k[L]
  BY KeptIsComputed
<1>2. /\ L \in Nat /\ k \in [0..L -> Seq(S)] /\ k[0] = <<>>
      /\ \A n \in 1..L : p[n] \in S /\ k[n] = Append(k[n - 1], p[n])
  <2>1. L \in Nat /\ \A n \in 1..L : p[n] \in S
    OBVIOUS
  <2>2. S \intersect S = S
    OBVIOUS
  <2>3. k \in [0..L -> Seq(S)]
    BY <2>2
  <2>4. QED
    BY <1>1, <2>1, <2>3 DEF KeptIn
<1> DEFINE Same(n) == Len(k[n]) = n /\ \A i \in 1..n : k[n][i] = p[i]
           Bad == {n \in 0..L : ~Same(n)}
<1>3. Bad = {}
  <2>1. SUFFICES ASSUME Bad # {} PROVE FALSE
    OBVIOUS
  <2>2. PICK m \in Bad : \A n \in Bad : m <= n
    <3>1. Bad \subseteq Nat
      OBVIOUS
    <3>2. QED
      BY <2>1, <3>1, LeastIsThere
  <2>3. m # 0
    BY <1>2
  <2>4. m \in 1..L /\ m - 1 \in 0..L /\ Same(m - 1)
    BY <1>2, <2>2, <2>3
  <2> DEFINE s == k[m - 1]
  <2>5. s \in Seq(S) /\ k[m] = Append(s, p[m]) /\ p[m] \in S
    BY <1>2, <2>4
  <2>6. Len(s) = m - 1 /\ \A i \in 1..(m - 1) : s[i] = p[i]
    BY <2>4
  <2> HIDE DEF s
  <2>7. Len(k[m]) = m /\ \A i \in 1..m : k[m][i] = p[i]
    BY <2>4, <2>5, <2>6
  <2>8. QED
    BY <2>7
<1>4. Same(L) /\ k[L] \in Seq(S)
  <2> HIDE DEF L, Same
  <2>1. L \in 0..L
    BY <1>2
  <2>2. QED
    BY <1>2, <1>3, <2>1
<1> HIDE DEF L
<1>5. k[L] = p
  <2> DEFINE s == k[L]
  <2>1. s \in Seq(S) /\ Len(s) = Len(p) /\ \A i \in 1..Len(p) : s[i] = p[i]
    BY <1>4 DEF L
  <2> HIDE DEF s
  <2>2. s = p
    BY <2>1
  <2>3. QED
    BY <2>2 DEF s
<1>6. QED
  BY <1>1, <1>5

(* Of two PATHs one after the other, what is on either                     *)
LEMMA KeptOfBoth ==
  ASSUME NEW T, NEW a \in Seq(T), NEW b \in Seq(T), NEW S
  PROVE  Kept(a \o b, S) = Kept(a, S) \o Kept(b, S)
<1> DEFINE A == Len(a)
           B == Len(b)
           U == Seq(T \intersect S)
           c == a \o b
<1>1. /\ A \in Nat /\ B \in Nat /\ c \in Seq(T) /\ Len(c) = A + B
      /\ \A n \in 1..A : c[n] = a[n]
      /\ \A n \in 1..B : c[A + n] = b[n] /\ b[n] \in T
  OBVIOUS
<1> HIDE DEF c
<1>2. PICK f \in [0..Len(a) -> U] : KeptIn(f, a, S) /\ Kept(a, S) = f[Len(a)]
  BY KeptIsComputed
<1>3. PICK g \in [0..Len(b) -> U] : KeptIn(g, b, S) /\ Kept(b, S) = g[Len(b)]
  BY KeptIsComputed
<1>4. PICK k \in [0..Len(c) -> U] : KeptIn(k, c, S) /\ Kept(c, S) = k[Len(c)]
  BY <1>1, KeptIsComputed
<1>5. /\ f[0] = <<>> /\ g[0] = <<>> /\ k[0] = <<>>
      /\ \A n \in 1..A :
           f[n] = IF a[n] \in S THEN Append(f[n - 1], a[n]) ELSE f[n - 1]
      /\ \A n \in 1..B :
           g[n] = IF b[n] \in S THEN Append(g[n - 1], b[n]) ELSE g[n - 1]
      /\ \A n \in 1..(A + B) :
           k[n] = IF c[n] \in S THEN Append(k[n - 1], c[n]) ELSE k[n - 1]
  BY <1>1, <1>2, <1>3, <1>4 DEF KeptIn
<1>6. f \in [0..A -> U] /\ g \in [0..B -> U] /\ k \in [0..(A + B) -> U]
  BY <1>1, <1>2, <1>3, <1>4
<1> HIDE DEF A, B
<1>7. \A n \in 0..A : k[n] = f[n]
  <2> DEFINE Bad == {n \in 0..A : k[n] # f[n]}
  <2>1. SUFFICES ASSUME Bad # {} PROVE FALSE
    OBVIOUS
  <2>2. PICK m \in Bad : \A n \in Bad : m <= n
    <3>1. Bad \subseteq Nat
      BY <1>1
    <3>2. QED
      BY <2>1, <3>1, LeastIsThere
  <2>3. m # 0
    BY <1>5
  <2>4. /\ m \in 1..A /\ m \in 1..(A + B) /\ m - 1 \in 0..A
        /\ k[m - 1] = f[m - 1]
    BY <1>1, <2>2, <2>3
  <2>5. QED
    BY <1>1, <1>5, <2>4
<1> DEFINE Joined(n) == k[A + n] = f[A] \o g[n]
<1>8. \A n \in 0..B : Joined(n)
  <2> DEFINE Bad == {n \in 0..B : ~Joined(n)}
  <2> HIDE DEF Joined
  <2>1. SUFFICES ASSUME Bad # {} PROVE FALSE
    OBVIOUS
  <2>2. PICK m \in Bad : \A n \in Bad : m <= n
    <3>1. Bad \subseteq Nat
      BY <1>1
    <3>2. QED
      BY <2>1, <3>1, LeastIsThere
  <2>3. f[A] \in U
    BY <1>1, <1>6
  <2>4. m # 0
    <3>1. k[A + 0] = f[A] /\ g[0] = <<>>
      BY <1>1, <1>5, <1>7
    <3>2. f[A] \o <<>> = f[A]
      BY <2>3
    <3>3. Joined(0)
      BY <3>1, <3>2 DEF Joined
    <3>4. QED
      BY <3>3
  <2>5. m \in 1..B /\ m - 1 \in 0..B /\ Joined(m - 1)
    <3>1. m \in 0..B
      OBVIOUS
    <3>2. m \in 1..B /\ m - 1 \in 0..B /\ ~(m <= m - 1)
      BY <1>1, <2>4, <3>1
    <3>3. QED
      BY <2>2, <3>2
  <2>6. A + m \in 1..(A + B) /\ (A + m) - 1 = A + (m - 1)
    BY <1>1, <2>5
  <2>7. c[A + m] = b[m] /\ b[m] \in T /\ g[m - 1] \in U
    BY <1>1, <1>6, <2>5
  <2>8. k[A + (m - 1)] = f[A] \o g[m - 1]
    BY <2>5 DEF Joined
  <2>9. CASE b[m] \in S
    <3>1. /\ k[A + m] = Append(f[A] \o g[m - 1], b[m])
          /\ g[m] = Append(g[m - 1], b[m])
      BY <1>5, <2>5, <2>6, <2>7, <2>8, <2>9
    <3>2. Append(f[A] \o g[m - 1], b[m]) = f[A] \o Append(g[m - 1], b[m])
      <4> DEFINE V == T \intersect S
                 u == f[A]
                 v == g[m - 1]
                 x == b[m]
      <4>1. u \in Seq(V) /\ v \in Seq(V) /\ x \in V
        BY <2>3, <2>7, <2>9
      <4> HIDE DEF V, u, v, x
      <4>2. Append(u \o v, x) = u \o Append(v, x)
        <5> DEFINE s == Append(u \o v, x)
                   r == u \o Append(v, x)
        <5>1. /\ s \in Seq(V) /\ Len(s) = Len(u) + Len(v) + 1
              /\ r \in Seq(V) /\ Len(r) = Len(s)
          BY <4>1
        <5>2. \A i \in 1..Len(s) : s[i] = r[i]
          BY <4>1
        <5> HIDE DEF s, r
        <5>3. s = r
          BY <5>1, <5>2
        <5>4. QED
          BY <5>3 DEF s, r
      <4>3. QED
        BY <4>2 DEF u, v, x
    <3>3. QED
      BY <3>1, <3>2 DEF Joined
  <2>10. CASE b[m] \notin S
    <3>1. k[A + m] = f[A] \o g[m - 1] /\ g[m] = g[m - 1]
      BY <1>5, <2>5, <2>6, <2>7, <2>8, <2>10
    <3>2. QED
      BY <3>1 DEF Joined
  <2>11. QED
    BY <2>9, <2>10
<1>9. B \in 0..B /\ Kept(c, S) = k[A + B] /\ Kept(a, S) = f[A]
      /\ Kept(b, S) = g[B]
  BY <1>1, <1>2, <1>3, <1>4 DEF A, B
<1>10. QED
  BY <1>8, <1>9 DEF c

(* The directories on two PATHs one after the other are those on both.     *)
LEMMA NumberOfBoth ==
  ASSUME NEW T, NEW a \in Seq(T), NEW b \in Seq(T), NEW S
  PROVE  Number(a \o b, S) = Number(a, S) + Number(b, S)
<1>1. Kept(a, S) \in Seq(T \intersect S) /\ Kept(b, S) \in Seq(T \intersect S)
  BY KeptType
<1>2. QED
  BY <1>1, KeptOfBoth DEF Number

(* If there is a d, it is somewhere.                                       *)
LEMMA OneIsThere ==
  ASSUME NEW T, NEW p \in Seq(T), NEW d, Number(p, {d}) # 0
  PROVE  \E i \in 1..Len(p) : p[i] = d
<1>1. SUFFICES ASSUME \A i \in 1..Len(p) : p[i] # d PROVE FALSE
  OBVIOUS
<1>2. p \in Seq(T \ {d})
  BY <1>1
<1>3. Kept(p, {d}) = <<>>
  BY <1>2, KeptNone
<1>4. QED
  BY <1>3 DEF Number

(* Block b stands on p between x and y.                                    *)
Around(p, x, b, y) == p = (x \o b) \o y

(* What Offsets finds, and what WithoutBlock leaves                        *)
LEMMA BlockIsAround ==
  ASSUME NEW T, NEW p \in Seq(T), NEW b \in Seq(T),
         b # <<>> => Offsets(p, b) # {}
  PROVE  \E x, y \in Seq(T) : Around(p, x, b, y) /\ WithoutBlock(p, b) = x \o y
<1>1. CASE b = <<>>
  <2>1. /\ <<>> \in Seq(T) /\ <<>> \o p = p
        /\ Around(p, <<>>, b, p) /\ WithoutBlock(p, b) = p
    BY <1>1 DEF Around, WithoutBlock
  <2>2. QED
    BY <2>1
<1>2. CASE b # <<>>
  <2> DEFINE i == Min(Offsets(p, b))
             x == SubSeq(p, 1, i - 1)
             y == SubSeq(p, i + Len(b), Len(p))
  <2>1. Len(p) \in Nat /\ Len(b) \in Nat /\ Len(b) # 0
    BY <1>2
  <2>2. Offsets(p, b) \subseteq 1..(Len(p) - Len(b) + 1)
    BY DEF Offsets
  <2>3. Offsets(p, b) \subseteq Nat
    BY <2>1, <2>2
  <2>4. i \in Offsets(p, b)
    BY <1>2, <2>3, MinIsLeast
  <2>5. WithoutBlock(p, b) = x \o y
    BY <1>2 DEF WithoutBlock
  <2> HIDE DEF i
  <2>6. i \in Nat /\ 1 <= i /\ i + Len(b) <= Len(p) + 1
    BY <2>1, <2>2, <2>4
  <2>7. SubSeq(p, i, i + Len(b) - 1) = b
    BY <2>4 DEF Offsets
  <2>8. \A j \in 1..Len(b) : b[j] = p[i + j - 1]
    BY <2>1, <2>6, <2>7
  <2>9. x \in Seq(T) /\ Len(x) = i - 1 /\ \A j \in 1..(i - 1) : x[j] = p[j]
    BY <2>1, <2>6
  <2>10. /\ y \in Seq(T) /\ Len(y) = Len(p) - (i + Len(b)) + 1
         /\ \A j \in 1..Len(y) : y[j] = p[i + Len(b) + j - 1]
    BY <2>1, <2>6
  <2> HIDE DEF x, y
  <2> DEFINE s == (x \o b) \o y
  <2>11. /\ s \in Seq(T) /\ Len(s) = Len(p)
         /\ \A j \in 1..Len(s) :
              s[j] = IF j <= Len(x) THEN x[j]
                     ELSE IF j <= Len(x) + Len(b) THEN b[j - Len(x)]
                     ELSE y[j - (Len(x) + Len(b))]
    BY <2>1, <2>6, <2>9, <2>10
  <2> HIDE DEF s
  <2>12. \A j \in 1..Len(s) : s[j] = p[j]
    <3> SUFFICES ASSUME NEW j \in 1..Len(s) PROVE s[j] = p[j]
      OBVIOUS
    <3>1. CASE j <= i - 1
      BY <2>1, <2>6, <2>9, <2>11, <3>1
    <3>2. CASE i - 1 < j /\ j <= i - 1 + Len(b)
      <4>1. j - (i - 1) \in 1..Len(b) /\ i + (j - (i - 1)) - 1 = j
        BY <2>1, <2>6, <2>11, <3>2
      <4>2. s[j] = b[j - (i - 1)]
        BY <2>1, <2>6, <2>9, <2>11, <3>2
      <4>3. QED
        BY <2>8, <4>1, <4>2
    <3>3. CASE i - 1 + Len(b) < j
      <4> DEFINE l == j - (i - 1 + Len(b))
      <4>1. l \in 1..Len(y) /\ i + Len(b) + l - 1 = j
        BY <2>1, <2>6, <2>10, <2>11, <3>3
      <4>2. s[j] = y[l]
        BY <2>1, <2>6, <2>9, <2>11, <3>3
      <4> HIDE DEF l
      <4>3. QED
        BY <2>10, <4>1, <4>2
    <3>4. QED
      BY <2>1, <2>6, <2>11, <3>1, <3>2, <3>3
  <2>13. s = p
    BY <2>11, <2>12
  <2>14. QED
    BY <2>5, <2>9, <2>10, <2>13 DEF Around, s
<1>3. QED
  BY <1>1, <1>2

(* And back: a block that stands there is found.                           *)
LEMMA BlockIsFound ==
  ASSUME NEW T, NEW p, NEW x \in Seq(T), NEW b \in Seq(T), NEW y \in Seq(T),
         Around(p, x, b, y)
  PROVE  Offsets(p, b) # {}
<1> DEFINE i == Len(x) + 1
<1>1. /\ Len(x) \in Nat /\ Len(b) \in Nat /\ Len(y) \in Nat
      /\ p \in Seq(T) /\ Len(p) = Len(x) + Len(b) + Len(y)
  BY DEF Around
<1>2. \A j \in 1..Len(b) : p[i + j - 1] = b[j]
  BY DEF Around
<1>3. i \in 1..(Len(p) - Len(b) + 1) /\ i + Len(b) - 1 <= Len(p)
  BY <1>1
<1> DEFINE s == SubSeq(p, i, i + Len(b) - 1)
<1> HIDE DEF i
<1>4. /\ s \in Seq(T) /\ Len(s) = Len(b)
      /\ \A j \in 1..Len(b) : s[j] = p[i + j - 1]
  BY <1>1, <1>3
<1> HIDE DEF s
<1>5. s = b
  BY <1>1, <1>2, <1>4
<1>6. i \in Offsets(p, b)
  BY <1>3, <1>5 DEF Offsets, s
<1>7. QED
  BY <1>6

(* One directory of a PATH stands on it.                                   *)
LEMMA OneIsAround ==
  ASSUME NEW T, NEW p \in Seq(T), NEW i \in 1..Len(p)
  PROVE  \E x, y \in Seq(T) : Around(p, x, <<p[i]>>, y)
<1> DEFINE b == <<p[i]>>
<1>1. Len(p) \in Nat /\ i \in Nat /\ p[i] \in T
  OBVIOUS
<1>2. b \in Seq(T) /\ Len(b) = 1 /\ b[1] = p[i] /\ b # <<>>
  BY <1>1
<1> DEFINE s == SubSeq(p, i, i)
<1>3. s \in Seq(T) /\ Len(s) = 1 /\ s[1] = p[i]
  BY <1>1
<1> HIDE DEF s, b
<1>4. s = b
  BY <1>2, <1>3
<1>5. i \in Offsets(p, b)
  BY <1>1, <1>2, <1>4 DEF Offsets, s
<1>6. QED
  BY <1>2, <1>5, BlockIsAround DEF b

-----------------------------------------------------------------------------
(* PATH: the block of the graph, the directories of the app, and the       *)
(* temporary one                                                           *)

(* The threads that have put the framework's directory on PATH for a while *)
TemporaryPlaces == {"create", "boot lookup", "boot resolve", "boot update",
                    "trim"}
Temporary == At(TemporaryPlaces)

(* The block of the graph's directories stands on PATH.                    *)
Stands == \E x, y \in Seq(Dirs) : Around(path, x, added, y)

(* The list last added to PATH is that of the graph.                       *)
ListedInv == ~behind /\ Updating = {} => added = BuildPathList(graph)

(* With the temporary directory on PATH, the framework is there once more  *)
(* than in the graph's block.                                              *)
BlockInv ==
  ~torn =>
    /\ Kept(path, AppDirs) = others
    /\ Stands
    /\ Temporary # {} =>
         Number(path, {Framework}) > Number(added, {Framework})

(* The packages' directories on PATH are those of the block, but for the   *)
(* temporary one.                                                          *)
BalanceInv ==
  ~torn /\ ~ahead /\ orphans = {} =>
    Number(path, Packages) = Len(added) + IF Temporary = {} THEN 0 ELSE 1

(* What is kept of PATH                                                    *)
KeptInv == BlockInv /\ BalanceInv

(* What a single directory, and a list of packages, have                   *)
LEMMA NumbersOf ==
  /\ Number(<<Framework>>, {Framework}) = 1
  /\ Number(<<Framework>>, Packages) = 1
  /\ Kept(<<Framework>>, AppDirs) = <<>>
  /\ \A d \in AppDirs : Kept(<<d>>, AppDirs) = <<d>>
  /\ \A d \in AppDirs : Number(<<d>>, Packages) = 0
  /\ Framework \in Dirs /\ Framework \notin AppDirs
<1>1. Framework \in Packages /\ AppDirs \intersect Packages = {}
  BY FrameworkAssumption, CatalogAssumption
<1>2. \A d \in AppDirs : Kept(<<d>>, AppDirs) = <<d>>
  BY KeptOne
<1>3. \A d \in AppDirs : Number(<<d>>, Packages) = 0
  BY <1>1, KeptOne DEF Number
<1>4. /\ Kept(<<Framework>>, {Framework}) = <<Framework>>
      /\ Kept(<<Framework>>, Packages) = <<Framework>>
      /\ Kept(<<Framework>>, AppDirs) = <<>>
  BY <1>1, KeptOne
<1>5. QED
  BY <1>1, <1>2, <1>3, <1>4 DEF Number, Dirs

(* A list of packages has nothing but their directories.                   *)
LEMMA PackagesOnly ==
  ASSUME NEW p \in Seq(Packages)
  PROVE  /\ Number(p, Packages) = Len(p) /\ Kept(p, AppDirs) = <<>>
         /\ p \in Seq(Dirs)
<1>1. Packages \intersect AppDirs = {}
  BY CatalogAssumption
<1>2. p \in Seq(Dirs)
  BY DEF Dirs
<1>3. QED
  BY <1>1, <1>2, KeptAll, KeptNone DEF Number

(* What is on a PATH of two parts                                          *)
Joins(p, a, b) == p = a \o b

LEMMA KeptOfParts ==
  ASSUME NEW T, NEW a \in Seq(T), NEW b \in Seq(T), NEW p, Joins(p, a, b),
         NEW S
  PROVE  /\ Joins(Kept(p, S), Kept(a, S), Kept(b, S))
         /\ Number(p, S) = Number(a, S) + Number(b, S)
<1>1. /\ Kept(a \o b, S) = Kept(a, S) \o Kept(b, S)
      /\ Number(a \o b, S) = Number(a, S) + Number(b, S)
  BY KeptOfBoth, NumberOfBoth
<1>2. QED
  BY <1>1 DEF Joins

(* What is on a PATH with a block                                          *)
LEMMA NumberAround ==
  ASSUME NEW T, NEW x \in Seq(T), NEW b \in Seq(T), NEW y \in Seq(T), NEW p,
         Around(p, x, b, y), NEW S
  PROVE  /\ Around(Kept(p, S), Kept(x, S), Kept(b, S), Kept(y, S))
         /\ Number(p, S) = (Number(x, S) + Number(b, S)) + Number(y, S)
<1> DEFINE z == x \o b
<1>1. z \in Seq(T) /\ Joins(z, x, b) /\ Joins(p, z, y)
  BY DEF Around, Joins
<1> HIDE DEF z
<1>2. /\ Joins(Kept(p, S), Kept(z, S), Kept(y, S))
      /\ Joins(Kept(z, S), Kept(x, S), Kept(b, S))
      /\ Number(p, S) = Number(z, S) + Number(y, S)
      /\ Number(z, S) = Number(x, S) + Number(b, S)
  BY <1>1, KeptOfParts
<1>3. QED
  BY <1>2 DEF Around, Joins

(* UpdatePath replaces the old block by the new one, in front, if PATH is  *)
(* still what it has read.                                                 *)
LEMMA UpdateReplaces ==
  ASSUME path \in Seq(Dirs), added \in Seq(Packages), graph \in Seq(Nodes),
         read = path, Stands, UpdatePath
  PROVE  /\ Stands'
         /\ Kept(path', AppDirs) = Kept(path, AppDirs)
         /\ \A S : Number(path', S) + Number(added, S)
                     = Number(path, S) + Number(added', S)
<1>1. path' \in Seq(Dirs) /\ added' \in Seq(Packages)
  BY UpdatePathTypes
<1>2. added \in Seq(Dirs) /\ added' \in Seq(Dirs)
  BY <1>1, PackagesOnly
<1>3. Offsets(path, added) # {}
  BY <1>2, BlockIsFound DEF Stands
<1>4. PICK x \in Seq(Dirs), y \in Seq(Dirs) :
           Around(path, x, added, y) /\ WithoutBlock(path, added) = x \o y
  BY <1>2, <1>3, BlockIsAround
<1>5. path' = added' \o (x \o y)
  BY <1>4 DEF UpdatePath
<1>6. Around(path', <<>>, added', x \o y)
  <2>1. <<>> \o added' = added'
    BY <1>1
  <2>2. QED
    BY <1>5, <2>1 DEF Around
<1>7. x \o y \in Seq(Dirs) /\ <<>> \in Seq(Dirs)
  OBVIOUS
<1>8. Stands'
  BY <1>5, <1>6, <1>7 DEF Stands
<1>9. ASSUME NEW S
      PROVE  Number(path', S) + Number(added, S)
               = Number(path, S) + Number(added', S)
  <2> DEFINE z == x \o y
  <2>1. z \in Seq(Dirs) /\ Joins(z, x, y) /\ Joins(path', added', z)
    BY <1>5 DEF Joins
  <2> HIDE DEF z
  <2>2. Number(z, S) = Number(x, S) + Number(y, S)
    BY <2>1, KeptOfParts
  <2>3. Number(path', S) = Number(added', S) + Number(z, S)
    BY <1>2, <2>1, KeptOfParts
  <2>4. Number(path, S) = (Number(x, S) + Number(added, S)) + Number(y, S)
    BY <1>2, <1>4, NumberAround
  <2>5. /\ Number(x, S) \in Nat /\ Number(y, S) \in Nat
        /\ Number(added, S) \in Nat /\ Number(added', S) \in Nat
    BY <1>2, KeptType
  <2>6. QED
    BY <2>2, <2>3, <2>4, <2>5
<1>10. Kept(path', AppDirs) = Kept(path, AppDirs)
  <2> DEFINE z == x \o y
             V == Dirs \intersect AppDirs
             kx == Kept(x, AppDirs)
             ky == Kept(y, AppDirs)
             kz == Kept(z, AppDirs)
  <2>1. z \in Seq(Dirs) /\ Joins(z, x, y) /\ Joins(path', added', z)
    BY <1>5 DEF Joins
  <2> HIDE DEF z
  <2>2. kx \in Seq(V) /\ ky \in Seq(V) /\ kz \in Seq(V)
    BY <2>1, KeptType
  <2>3. Kept(added, AppDirs) = <<>> /\ Kept(added', AppDirs) = <<>>
    BY <1>1, PackagesOnly
  <2>4. Joins(kz, kx, ky) /\ Joins(Kept(path', AppDirs), <<>>, kz)
    BY <1>2, <2>1, <2>3, KeptOfParts
  <2>5. Around(Kept(path, AppDirs), kx, <<>>, ky)
    BY <1>2, <1>4, <2>3, NumberAround
  <2> HIDE DEF kx, ky, kz, V
  <2>6. kx \o <<>> = kx /\ <<>> \o kz = kz
    BY <2>2
  <2>7. QED
    BY <2>4, <2>5, <2>6 DEF Joins, Around
<1>11. QED
  BY <1>8, <1>9, <1>10

(* A directory is put first.                                               *)
LEMMA PrependKeeps ==
  ASSUME path \in Seq(Dirs), added \in Seq(Packages), NEW d \in Dirs,
         path' = <<d>> \o path, added' = added
  PROVE  /\ Stands => Stands'
         /\ \A S : Joins(Kept(path', S), Kept(<<d>>, S), Kept(path, S))
         /\ \A S : Number(path', S) = Number(<<d>>, S) + Number(path, S)
<1>1. added \in Seq(Dirs) /\ <<d>> \in Seq(Dirs)
  BY PackagesOnly
<1>2. ASSUME Stands PROVE Stands'
  <2>1. PICK x \in Seq(Dirs), y \in Seq(Dirs) : path = (x \o added) \o y
    BY <1>2 DEF Stands, Around
  <2> DEFINE z == <<d>> \o x
             s == (z \o added) \o y
  <2>2. /\ s \in Seq(Dirs) /\ Len(s) = Len(path') /\ path' \in Seq(Dirs)
        /\ \A i \in 1..Len(s) : s[i] = path'[i]
    BY <1>1, <2>1
  <2> HIDE DEF s
  <2>3. path' = s
    BY <2>2
  <2>4. z \in Seq(Dirs) /\ Around(path', z, added', y)
    BY <2>3 DEF s, Around
  <2>5. QED
    BY <2>4 DEF Stands
<1>3. ASSUME NEW S
      PROVE  /\ Joins(Kept(path', S), Kept(<<d>>, S), Kept(path, S))
             /\ Number(path', S) = Number(<<d>>, S) + Number(path, S)
  <2> DEFINE one == <<d>>
  <2>1. Joins(path', one, path) /\ one \in Seq(Dirs)
    BY <1>1 DEF Joins
  <2> HIDE DEF one
  <2>2. /\ Joins(Kept(path', S), Kept(one, S), Kept(path, S))
        /\ Number(path', S) = Number(one, S) + Number(path, S)
    BY <2>1, KeptOfParts
  <2>3. QED
    BY <2>2 DEF one
<1>4. QED
  BY <1>2, <1>3

(* Where the directories of a block are                                    *)
LEMMA PlacesOfBlock ==
  ASSUME NEW T, NEW x \in Seq(T), NEW b \in Seq(T), NEW y \in Seq(T), NEW p,
         Around(p, x, b, y)
  PROVE  /\ Len(x) \in Nat
         /\ \A j \in 1..Len(b) : /\ Len(x) + j \in 1..Len(p)
                                 /\ p[Len(x) + j] = b[j]
BY DEF Around

(* The framework is taken from the front.                                  *)
LEMMA TrimKeeps ==
  ASSUME path \in Seq(Dirs), added \in Seq(Packages), Len(added) <= 1,
         path # <<>>, Head(path) = Framework, path' = Tail(path),
         added' = added, Stands,
         Number(path, {Framework}) > Number(added, {Framework})
  PROVE  /\ Stands'
         /\ Kept(path', AppDirs) = Kept(path, AppDirs)
         /\ Number(path, Packages) = Number(path', Packages) + 1
         /\ Number(path', Packages) \in Nat
<1>1. added \in Seq(Dirs) /\ <<Framework>> \in Seq(Dirs)
  BY PackagesOnly, NumbersOf
<1>2. /\ path' \in Seq(Dirs) /\ Len(path) \in Nat /\ Len(path) # 0
      /\ Len(path') = Len(path) - 1
      /\ path[1] = Framework /\ \A i \in 1..Len(path') : path'[i] = path[i + 1]
  OBVIOUS
<1>3. path = <<Framework>> \o path'
  <2> DEFINE s == <<Framework>> \o path'
  <2>1. s \in Seq(Dirs) /\ Len(s) = Len(path)
        /\ \A i \in 1..Len(s) : s[i] = path[i]
    BY <1>1, <1>2
  <2> HIDE DEF s
  <2>2. path = s
    BY <2>1
  <2>3. QED
    BY <2>2 DEF s
<1> DEFINE q == path'
<1>4. /\ q \in Seq(Dirs) /\ path = <<Framework>> \o q
  BY <1>2, <1>3
<1> HIDE DEF q
<1>5. ASSUME NEW S
      PROVE  /\ Joins(Kept(path, S), Kept(<<Framework>>, S), Kept(q, S))
             /\ Number(path, S) = Number(<<Framework>>, S) + Number(q, S)
             /\ Number(q, S) \in Nat
  <2> DEFINE one == <<Framework>>
  <2>1. Joins(path, one, q) /\ one \in Seq(Dirs)
    BY <1>1, <1>4 DEF Joins
  <2> HIDE DEF one
  <2>2. /\ Joins(Kept(path, S), Kept(one, S), Kept(q, S))
        /\ Number(path, S) = Number(one, S) + Number(q, S)
    BY <1>4, <2>1, KeptOfParts
  <2>3. Number(q, S) \in Nat
    BY <1>4, KeptType
  <2>4. QED
    BY <2>2, <2>3 DEF one
<1>6. Kept(q, AppDirs) = Kept(path, AppDirs)
  <2> DEFINE k == Kept(q, AppDirs)
             V == Dirs \intersect AppDirs
  <2>1. k \in Seq(V)
    BY <1>4, KeptType
  <2>2. Joins(Kept(path, AppDirs), <<>>, k)
    BY <1>5, NumbersOf
  <2> HIDE DEF k, V
  <2>3. <<>> \o k = k
    BY <2>1
  <2>4. QED
    BY <2>2, <2>3 DEF k, Joins
<1>7. /\ Number(path, Packages) = Number(q, Packages) + 1
      /\ Number(q, Packages) \in Nat
  BY <1>5, NumbersOf
<1>8. \E x, y \in Seq(Dirs) : Around(q, x, added, y)
  <2>1. CASE added = <<>>
    <3>1. (<<>> \o <<>>) \o q = q /\ <<>> \in Seq(Dirs)
      BY <1>4
    <3>2. QED
      BY <1>4, <2>1, <3>1 DEF Around
  <2>2. CASE added # <<>>
    <3>1. added = <<added[1]>> /\ Len(added) = 1
      <4>1. Len(added) = 1
        <5> DEFINE n == Len(added)
        <5>1. n \in Nat /\ n # 0 /\ n <= 1
          BY <2>2
        <5> HIDE DEF n
        <5>2. n = 1
          BY <5>1
        <5>3. QED
          BY <5>2 DEF n
      <4>2. QED
        BY <4>1
    <3>2. \E i \in 1..Len(q) : q[i] = added[1]
      <4>1. CASE added[1] = Framework
        <5>1. Number(added, {Framework}) = 1
          BY <3>1, <4>1, NumbersOf
        <5>2. Number(q, {Framework}) # 0
          BY <1>5, <5>1, NumbersOf
        <5>3. \E i \in 1..Len(q) : q[i] = Framework
          BY <1>4, <5>2, OneIsThere
        <5>4. QED
          BY <4>1, <5>3
      <4>2. CASE added[1] # Framework
        <5>1. PICK x \in Seq(Dirs), y \in Seq(Dirs) : Around(path, x, added, y)
          BY DEF Stands
        <5>2. Len(x) \in Nat /\ Len(x) + 1 \in 1..Len(path)
              /\ path[Len(x) + 1] = added[1]
          <6>1. 1 \in 1..Len(added)
            BY <3>1
          <6>2. QED
            BY <1>1, <5>1, <6>1, PlacesOfBlock
        <5>3. Len(x) # 0
          BY <1>2, <4>2, <5>2
        <5>4. Len(x) \in 1..Len(path') /\ path'[Len(x)] = path[Len(x) + 1]
          BY <1>2, <5>2, <5>3
        <5>5. QED
          BY <5>2, <5>4 DEF q
      <4>3. QED
        BY <4>1, <4>2
    <3>3. PICK i \in 1..Len(q) : q[i] = added[1]
      BY <3>2
    <3>4. PICK x \in Seq(Dirs), y \in Seq(Dirs) : Around(q, x, <<q[i]>>, y)
      BY <1>4, OneIsAround
    <3>5. QED
      BY <3>1, <3>3, <3>4
  <2>3. QED
    BY <2>1, <2>2
<1>9. Stands'
  BY <1>8 DEF Stands, q
<1>10. QED
  BY <1>6, <1>7, <1>9 DEF q

(* Where a call goes says whether the directory stays.                     *)
LEMMA TemporaryMoves ==
  ASSUME CallInv, NEW t \in Threads, NEW to, Goes(t, to)
  PROVE  /\ to.at \in TemporaryPlaces => Temporary' = Temporary \union {t}
         /\ to.at \notin TemporaryPlaces => Temporary' = Temporary \ {t}
<1>1. \A u \in Threads : call'[u] = IF u = t THEN to ELSE call[u]
  BY DEF Goes, CallInv
<1>2. /\ Temporary' = {u \in Threads : call'[u].at \in TemporaryPlaces}
      /\ Temporary = {u \in Threads : call[u].at \in TemporaryPlaces}
  BY DEF Temporary, At, TemporaryPlaces
<1> HIDE DEF TemporaryPlaces
<1>3. QED
  BY <1>1, <1>2

(* The temporary directory is that of a call.                              *)
LEMMA TemporaryStays ==
  ASSUME call' = call
  PROVE  Temporary' = Temporary
BY DEF Temporary, At

(* A thread has put it there if its call is at such a place.               *)
LEMMA TemporaryIsAt ==
  ASSUME NEW t \in Threads
  PROVE  t \in Temporary <=> call[t].at \in TemporaryPlaces
BY DEF Temporary, At, TemporaryPlaces

(* The lock is held while the directory is on PATH.                        *)
LEMMA TemporaryIsAlone ==
  ASSUME CallInv, NEW t \in Threads, call[t].at \in LockPlaces
  PROVE  Temporary \subseteq {t}
<1>1. \A u \in Threads \ {t} : call[u].at \notin LockPlaces
  BY OneInside
<1>2. QED
  BY <1>1 DEF Temporary, TemporaryPlaces, At, LockPlaces

(* A step that is the end of UpdatePath, or leaves PATH alone              *)
Rewrites ==
  \/ UpdatePath /\ (read = path \/ torn')
  \/ UNCHANGED <<path, added>>

(* If PATH is rewritten by UpdatePath or not at all, and the temporary     *)
(* directory goes with the framework first or an orphan left, or not at    *)
(* all, then what is kept of PATH goes on.                                 *)
LEMMA KeptGoesOn ==
  ASSUME PathInv, graph \in Seq(Nodes), KeptInv, Rewrites,
         others' = others, ~torn' => ~torn,
         ~ahead' /\ orphans' = {} => ~ahead /\ orphans = {},
         Temporary' # {} => Temporary # {},
         Temporary # {} /\ Temporary' = {} => ahead' \/ orphans' # {}
  PROVE  KeptInv'
<1>1. path \in Seq(Dirs) /\ added \in Seq(Packages)
  BY DEF PathInv
<1>2. path' \in Seq(Dirs) /\ added' \in Seq(Packages)
  <2>1. CASE UpdatePath
    BY <2>1, UpdatePathTypes DEF PathInv
  <2>2. CASE UNCHANGED <<path, added>>
    BY <1>1, <2>2
  <2>3. QED
    BY <2>1, <2>2 DEF Rewrites
<1>3. ASSUME ~torn'
      PROVE  /\ Stands'
             /\ Kept(path', AppDirs) = Kept(path, AppDirs)
             /\ \A S : Number(path', S) + Number(added, S)
                         = Number(path, S) + Number(added', S)
  <2>1. Stands
    BY <1>3 DEF KeptInv, BlockInv
  <2>2. CASE UpdatePath /\ read = path
    BY <1>1, <2>1, <2>2, UpdateReplaces
  <2>3. CASE UNCHANGED <<path, added>>
    <3>1. path' = path /\ added' = added
      BY <2>3
    <3>2. Stands'
      BY <2>1, <3>1 DEF Stands
    <3>3. QED
      BY <3>1, <3>2
  <2>4. QED
    BY <1>3, <2>2, <2>3 DEF Rewrites
<1>4. added \in Seq(Dirs) /\ added' \in Seq(Dirs)
  BY <1>1, <1>2, PackagesOnly
<1>5. \A S : /\ Number(path, S) \in Nat /\ Number(path', S) \in Nat
             /\ Number(added, S) \in Nat /\ Number(added', S) \in Nat
  BY <1>1, <1>2, <1>4, KeptType
<1>6. BlockInv'
  <2> SUFFICES ASSUME ~torn'
               PROVE  /\ Kept(path', AppDirs) = others'
                      /\ Stands'
                      /\ Temporary' # {} =>
                           Number(path', {Framework})
                             > Number(added', {Framework})
    BY DEF BlockInv
  <2>1. /\ Kept(path, AppDirs) = others
        /\ Temporary # {} =>
             Number(path, {Framework}) > Number(added, {Framework})
    BY DEF KeptInv, BlockInv
  <2>2. Kept(path', AppDirs) = others' /\ Stands'
    BY <1>3, <2>1
  <2>3. Number(path', {Framework}) + Number(added, {Framework})
           = Number(path, {Framework}) + Number(added', {Framework})
    BY <1>3
  <2>4. /\ Number(path, {Framework}) \in Nat
        /\ Number(path', {Framework}) \in Nat
        /\ Number(added, {Framework}) \in Nat
        /\ Number(added', {Framework}) \in Nat
    BY <1>5
  <2>5. ASSUME Temporary' # {}
        PROVE  Number(path', {Framework}) > Number(added', {Framework})
    BY <2>1, <2>3, <2>4, <2>5
  <2>6. QED
    BY <2>2, <2>5
<1>7. BalanceInv'
  <2> SUFFICES ASSUME ~torn', ~ahead', orphans' = {}
               PROVE  Number(path', Packages)
                        = Len(added') + IF Temporary' = {} THEN 0 ELSE 1
    BY DEF BalanceInv
  <2>1. Number(path, Packages) = Len(added) + IF Temporary = {} THEN 0 ELSE 1
    BY DEF KeptInv, BalanceInv
  <2>2. Temporary' = {} <=> Temporary = {}
    OBVIOUS
  <2>3. Number(path', Packages) + Number(added, Packages)
           = Number(path, Packages) + Number(added', Packages)
    BY <1>3
  <2>4. /\ Number(added, Packages) = Len(added)
        /\ Number(added', Packages) = Len(added')
    BY <1>1, <1>2, PackagesOnly
  <2>5. /\ Number(path, Packages) \in Nat /\ Number(path', Packages) \in Nat
        /\ Number(added, Packages) \in Nat /\ Number(added', Packages) \in Nat
    BY <1>5
  <2>6. QED
    BY <2>1, <2>2, <2>3, <2>4, <2>5
<1>8. QED
  BY <1>6, <1>7 DEF KeptInv

(* After PATH was torn, nothing is known.                                  *)
LEMMA KeptTorn ==
  ASSUME torn'
  PROVE  KeptInv'
BY DEF KeptInv, BlockInv, BalanceInv

(* A new process                                                           *)
LEMMA KeptAtStart ==
  ASSUME path = FirstPath, added = <<>>, others = FirstPath, Temporary = {}
  PROVE  KeptInv
<1>1. FirstPath \in Seq(AppDirs) /\ AppDirs \intersect Packages = {}
  BY CatalogAssumption
<1>2. FirstPath \in Seq(Dirs) /\ <<>> \in Seq(Dirs)
  BY <1>1 DEF Dirs
<1>3. Kept(path, AppDirs) = others
  BY <1>1, KeptAll
<1>4. Number(path, Packages) = 0
  BY <1>1, KeptNone DEF Number
<1>5. Stands
  <2>1. path = (<<>> \o added) \o path
    BY <1>2
  <2>2. QED
    BY <1>2, <2>1 DEF Stands, Around
<1>6. BlockInv
  BY <1>3, <1>5 DEF BlockInv
<1>7. BalanceInv
  BY <1>4 DEF BalanceInv
<1>8. QED
  BY <1>6, <1>7 DEF KeptInv

(* Until PATH is written, or cannot be, an update leaves it alone.         *)
LEMMA NodesLeavePath ==
  ASSUME \/ \E id, p, rank, prepend : AddNode(id, p, rank, prepend)
         \/ \E c : RemoveNode(c)
  PROVE  Rewrites
BY DEF AddNode, RemoveNode, Rewrites

(* What was written in between is lost.                                    *)
LEMMA UpdatesRewrite ==
  ASSUME NEW ok, EndsUpdate(ok), UpdatePath \/ UpdateFails
  PROVE  Rewrites /\ others' = others /\ (~torn' => ~torn)
<1>1. torn' = (torn \/ (path # read /\ ~behind')) /\ others' = others
  BY DEF EndsUpdate
<1>2. UpdatePath => ~behind'
  BY DEF UpdatePath
<1>3. UpdateFails => UNCHANGED <<path, added>>
  BY DEF UpdateFails
<1>4. QED
  BY <1>1, <1>2, <1>3 DEF Rewrites

(* A step outside the initialization                                       *)
LEMMA KeptOutside ==
  ASSUME PathInv, graph \in Seq(Nodes), KeptInv, Rewrites,
         others' = others, ~torn' => ~torn, ahead' = ahead,
         orphans' = orphans, Temporary' = Temporary
  PROVE  KeptInv'
BY KeptGoesOn

(* The calls of package dependencies do not touch the temporary directory. *)
LEMMA DependencyCallsKeepDirs ==
  ASSUME BootInv, BootInv', KeptInv, NEW t \in Threads, DependencyCall(t),
         UNCHANGED bootVars
  PROVE  KeptInv'
<1> USE DEF depVars, libVars, graphVars, listVars, ids, appVars, historyVars
<1>1. CallInv /\ BoundInv /\ PathInv /\ graph \in Seq(Nodes)
  BY DEF BootInv, GraphState, ListInv
<1>2. ahead' = ahead
  BY DEF bootVars, initVars, flags
<1>3. orphans' = orphans
  BY DEF bootVars, initVars
<1>4. Temporary' = Temporary
  <2>1. CASE call' = call
    BY <2>1, TemporaryStays
  <2>2. ASSUME NEW to, Goes(t, to), to.at \in Outside, call[t].at \in Outside
        PROVE  Temporary' = Temporary
    <3>1. to.at \notin TemporaryPlaces /\ call[t].at \notin TemporaryPlaces
      BY <2>2 DEF Outside, TemporaryPlaces
    <3>2. Temporary' = Temporary \ {t} /\ t \notin Temporary
      BY <1>1, <2>2, <3>1, TemporaryMoves, TemporaryIsAt
    <3>3. QED
      BY <3>2
  <2>3. QED
    BY <1>1, <2>1, <2>2, DependencyCallsMove
<1>5. ASSUME Rewrites, others' = others, ~torn' => ~torn
      PROVE  KeptInv'
  BY <1>1, <1>2, <1>3, <1>4, <1>5, KeptOutside
<1>6. ASSUME NEW c \in Criteria \ {FrameworkCriteria}, TryCreate(t, c)
      PROVE  KeptInv'
  BY <1>5, <1>6 DEF TryCreate, Rewrites
<1>7. CASE WriteFile(t)
  BY <1>5, <1>7 DEF WriteFile, Rewrites
<1>8. CASE WriteFails(t)
  BY <1>5, <1>8 DEF WriteFails, Rewrites
<1>9. CASE CreateReturns(t)
  BY <1>5, <1>9 DEF CreateReturns, Rewrites
<1>10. ASSUME NEW id \in Ids, DeletePackageDependency(t, id)
       PROVE  KeptInv'
  BY <1>5, <1>10 DEF DeletePackageDependency, Rewrites
<1>11. CASE DeleteReturns(t)
  BY <1>5, <1>11 DEF DeleteReturns, Rewrites
<1>12. ASSUME NEW id \in Ids, NEW rank \in Ranks, NEW prepend \in BOOLEAN,
              AddPackageDependency(t, id, rank, prepend)
       PROVE  KeptInv'
  BY <1>5, <1>12 DEF AddPackageDependency, Rewrites
<1>13. CASE Resolve(t)
  <2>1. CASE NotFound(t)
    BY <1>5, <2>1 DEF NotFound, Rewrites
  <2>2. CASE \E p \in Packages : Resolves(t, call[t].rank, call[t].prepend, p)
    <3>1. others' = others /\ torn' = torn
      BY <2>2 DEF Resolves
    <3>2. Rewrites
      BY <2>2, NodesLeavePath DEF Resolves
    <3>3. QED
      BY <1>5, <3>1, <3>2
  <2>3. QED
    BY <1>13, <2>1, <2>2 DEF Resolve
<1>14. CASE AddReturns(t)
  <2>1. PICK ok \in BOOLEAN : Added(t, ok)
    BY <1>14 DEF AddReturns
  <2>2. EndsUpdate(ok) /\ (UpdatePath \/ UpdateFails)
    BY <2>1 DEF Added, AddToDllSearchOrder
  <2>3. QED
    BY <1>5, <2>2, UpdatesRewrite
<1>15. ASSUME NEW x \in held, RemovePackageDependency(t, x)
       PROVE  KeptInv'
  <2>1. Rewrites /\ others' = others
    BY <1>15, NodesLeavePath DEF RemovePackageDependency
  <2>2. torn' = torn
    BY <1>15 DEF RemovePackageDependency
  <2>3. QED
    BY <1>5, <2>1, <2>2
<1>16. CASE RemoveReturns(t)
  <2>1. PICK ok \in BOOLEAN : RemoveFromDllSearchOrder(ok) /\ EndsUpdate(ok)
    BY <1>16 DEF RemoveReturns
  <2>2. UpdatePath \/ UpdateFails
    BY <2>1 DEF RemoveFromDllSearchOrder
  <2>3. QED
    BY <1>5, <2>1, <2>2, UpdatesRewrite
<1>17. ASSUME NEW i \in DOMAIN path, AppDrops(t, i)
       PROVE  KeptInv'
  BY <1>17, KeptTorn DEF AppDrops
<1>18. QED
  BY <1>6, <1>7, <1>8, <1>9, <1>10, <1>12, <1>14, <1>15, <1>17, <1>11,
     <1>13, <1>16 DEF DependencyCall

(* The app puts one of its own directories on PATH.                        *)
LEMMA AppPrependsKeepsDirs ==
  ASSUME BootInv, BootInv', KeptInv, NEW t \in Threads, NEW d \in AppDirs,
         AppPrepends(t, d), torn' = (torn \/ InWindow), UNCHANGED bootVars
  PROVE  KeptInv'
<1>1. /\ path' = <<d>> \o path /\ others' = <<d>> \o others
      /\ added' = added /\ call' = call
  BY DEF AppPrepends, listVars
<1>2. path \in Seq(Dirs) /\ added \in Seq(Packages) /\ d \in Dirs
  BY DEF BootInv, PathInv, Dirs
<1>3. ahead' = ahead
  BY DEF bootVars, initVars, flags
<1>4. orphans' = orphans
  BY DEF bootVars, initVars
<1>5. CASE torn'
  BY <1>5, KeptTorn
<1>6. CASE ~torn'
  <2>1. ~torn /\ ~InWindow
    BY <1>6
  <2>2. Temporary = {} /\ Temporary' = {}
    BY <1>1, <2>1, TemporaryStays DEF InWindow, Temporary, TemporaryPlaces,
                                             At
  <2>3. /\ Stands' /\ Joins(Kept(path', AppDirs), <<d>>, Kept(path, AppDirs))
        /\ Number(path', Packages) = 0 + Number(path, Packages)
    BY <1>1, <1>2, <2>1, PrependKeeps, NumbersOf DEF KeptInv, BlockInv
  <2>4. Kept(path', AppDirs) = others'
    BY <1>1, <2>1, <2>3 DEF Joins, KeptInv, BlockInv
  <2>5. BlockInv'
    BY <2>2, <2>3, <2>4 DEF BlockInv
  <2>6. BalanceInv'
    <3>1. Number(path, Packages) \in Nat
      BY <1>2, KeptType
    <3>2. Number(path', Packages) = Number(path, Packages)
      BY <2>3, <3>1
    <3>3. QED
      BY <1>1, <1>3, <1>4, <2>1, <2>2, <3>2 DEF BalanceInv, KeptInv
  <2>7. QED
    BY <2>5, <2>6 DEF KeptInv
<1>7. QED
  BY <1>5, <1>6

(* A failed initialization leaves its manager an orphan.                   *)
LEMMA FailureLeavesOrphan ==
  ASSUME CallInv, ManagerInv, NEW t \in Threads, call[t].at \in Using,
         InitializationFails(t)
  PROVE  orphans' # {} /\ Goes(t, Idle) /\ ahead' = ahead
<1>1. call[t].manager \in managers \ ending
  BY UserIsServed
<1>2. orphans' # {}
  BY <1>1 DEF InitializationFails
<1>3. ahead' = ahead
  BY DEF InitializationFails, flags
<1>4. QED
  BY <1>2, <1>3 DEF InitializationFails

(* The framework's directory is put on PATH.                               *)
LEMMA AddFrameworkWrites ==
  ASSUME BootInv, BootInv', KeptInv, NEW t \in Threads, AddFrameworkToPath(t),
         WritePath(<<Framework>> \o seen, FALSE)
  PROVE  KeptInv'
<1>1. CallInv /\ ManagerInv
  BY DEF BootInv, CountInv
<1>2. call[t].at = "add path" /\ WritePath(<<Framework>> \o seen, FALSE)
  BY DEF AddFrameworkToPath
<1>3. /\ added' = added /\ others' = others
      /\ path' = <<Framework>> \o seen
  BY <1>2 DEF WritePath, listVars
<1>4. path \in Seq(Dirs) /\ added \in Seq(Packages)
  BY DEF BootInv, PathInv
<1>5. Temporary = {}
  <2>1. call[t].at \in LockPlaces /\ call[t].at \notin TemporaryPlaces
    BY <1>2 DEF LockPlaces, TemporaryPlaces
  <2>2. QED
    BY <1>1, <2>1, TemporaryIsAlone, TemporaryIsAt
<1>6. CASE torn'
  BY <1>6, KeptTorn
<1>7. CASE ~torn'
  <2>1. ~torn /\ path = seen
    BY <1>2, <1>7 DEF WritePath
  <2>2. path' = <<Framework>> \o path
    BY <1>3, <2>1
  <2> DEFINE F == {Framework}
             k == Kept(path, AppDirs)
  <2>3. /\ Stands' /\ Joins(Kept(path', AppDirs), <<>>, k)
        /\ Number(path', Packages) = 1 + Number(path, Packages)
        /\ Number(path', F) = 1 + Number(path, F)
    BY <1>3, <1>4, <2>1, <2>2, PrependKeeps, NumbersOf DEF KeptInv, BlockInv
  <2>4. k = others /\ others' \in Seq(AppDirs)
    BY <2>1 DEF KeptInv, BlockInv, BootInv, PathInv
  <2>5. Kept(path', AppDirs) = others'
    BY <1>3, <2>3, <2>4 DEF Joins
  <2>6. Number(path, F) \in Nat /\ Number(path, Packages) \in Nat
    BY <1>4, KeptType
  <2>7. Number(path, F) >= Number(added, F) /\ Number(added, F) \in Nat
    <3>1. PICK x \in Seq(Dirs), y \in Seq(Dirs) : Around(path, x, added, y)
      BY <2>1 DEF KeptInv, BlockInv, Stands
    <3>2. added \in Seq(Dirs)
      BY <1>4, PackagesOnly
    <3>3. Number(path, F) = (Number(x, F) + Number(added, F)) + Number(y, F)
      BY <3>1, <3>2, NumberAround
    <3>4. /\ Number(x, F) \in Nat /\ Number(added, F) \in Nat
          /\ Number(y, F) \in Nat
      BY <3>2, KeptType
    <3>5. QED
      BY <3>3, <3>4
  <2>8. BlockInv'
    <3>1. Number(path', F) > Number(added', F)
      BY <1>3, <2>3, <2>6, <2>7
    <3>2. QED
      BY <2>3, <2>5, <3>1 DEF BlockInv
  <2>9. BalanceInv'
    <3>1. ahead' = ahead /\ (orphans' = {} => orphans = {})
      BY DEF AddFrameworkToPath, InitializationFails, initVars, flags
    <3>2. orphans' = {} => Temporary' # {}
      <4>1. CASE Goes(t, [call[t] EXCEPT !.at = "create"])
        <5> DEFINE to == [call[t] EXCEPT !.at = "create"]
        <5>1. call[t] \in [at : {"add path", "create"},
                           manager : 1..lastManager]
          BY <1>1, <1>2, CallIsTyped, CallKinds
        <5>2. to.at = "create" /\ Goes(t, to)
          BY <4>1, <5>1
        <5> HIDE DEF to
        <5>3. Temporary' = Temporary \union {t}
          BY <1>1, <5>2, TemporaryMoves DEF TemporaryPlaces
        <5>4. QED
          BY <5>3
      <4>2. CASE InitializationFails(t)
        <5>1. call[t].manager \in managers \ ending
          BY <1>1, <1>2, UserIsServed DEF Using
        <5>2. orphans' # {}
          BY <4>2, <5>1 DEF InitializationFails
        <5>3. QED
          BY <5>2
      <4>3. QED
        BY <4>1, <4>2 DEF AddFrameworkToPath
    <3>3. ASSUME ~ahead', orphans' = {}
          PROVE  Number(path', Packages) = Len(added') + 1
      <4>1. Number(path, Packages) = Len(added) + 0
        BY <1>5, <2>1, <3>1, <3>3 DEF BalanceInv, KeptInv
      <4>2. Len(added) \in Nat
        BY <1>4
      <4>3. QED
        BY <1>3, <2>3, <2>6, <4>1, <4>2
    <3>4. QED
      BY <3>2, <3>3 DEF BalanceInv
  <2>10. QED
    BY <2>8, <2>9 DEF KeptInv
<1>8. QED
  BY <1>6, <1>7

(* Or cannot be, and the initialization fails.                             *)
LEMMA AddFrameworkToPathKeepsDirs ==
  ASSUME BootInv, BootInv', KeptInv, NEW t \in Threads, AddFrameworkToPath(t)
  PROVE  KeptInv'
<1>1. CallInv /\ ManagerInv
  BY DEF BootInv, CountInv
<1>2. call[t].at = "add path"
  BY DEF AddFrameworkToPath
<1>3. CASE ~WritePath(<<Framework>> \o seen, FALSE)
  <2>1. InitializationFails(t) /\ UNCHANGED libVars
    BY <1>3 DEF AddFrameworkToPath
  <2>2. /\ Goes(t, Idle) /\ ahead' = ahead
        /\ orphans' # {}
    BY <1>1, <1>2, <2>1, FailureLeavesOrphan DEF Using
  <2>3. /\ UNCHANGED <<path, added>> /\ others' = others
        /\ torn' = torn
    BY <2>1 DEF libVars, graphVars, listVars, appVars, historyVars
  <2>4. Rewrites /\ PathInv /\ graph \in Seq(Nodes)
    BY <2>3 DEF Rewrites, BootInv, GraphState, ListInv
  <2>5. call[t].at \notin TemporaryPlaces /\ Idle.at \notin TemporaryPlaces
    BY <1>2, IdleCall DEF TemporaryPlaces
  <2>6. Temporary' = Temporary
    BY <1>1, <2>2, <2>5, TemporaryMoves, TemporaryIsAt
  <2>7. QED
    BY <2>2, <2>3, <2>4, <2>6, KeptGoesOn
<1>4. QED
  BY <1>3, AddFrameworkWrites

(* And taken from it.                                                      *)
LEMMA TrimKeepsDirs ==
  ASSUME BootInv, BootInv', KeptInv, NEW t \in Threads,
         RemoveFrameworkFromPath(t)
  PROVE  KeptInv'
<1> USE DEF libVars, graphVars, listVars, appVars, historyVars
<1>1. CallInv
  BY DEF BootInv
<1>2. /\ call[t].at = "trim" /\ Goes(t, [at |-> "increment"])
      /\ orphans' = orphans
  BY DEF RemoveFrameworkFromPath
<1>3. path \in Seq(Dirs) /\ added \in Seq(Packages)
  BY DEF BootInv, PathInv
<1>4. Temporary = {t} /\ Temporary' = {}
  <2>1. call[t].at \in LockPlaces /\ call[t].at \in TemporaryPlaces
    BY <1>2 DEF LockPlaces, TemporaryPlaces
  <2>2. t \in Temporary /\ Temporary \subseteq {t}
    BY <1>1, <2>1, TemporaryIsAlone, TemporaryIsAt
  <2> DEFINE to == [at |-> "increment"]
  <2>3. to.at \notin TemporaryPlaces /\ Goes(t, to)
    BY <1>2 DEF TemporaryPlaces
  <2> HIDE DEF to
  <2>4. Temporary' = Temporary \ {t}
    BY <1>1, <2>3, TemporaryMoves
  <2>5. QED
    BY <2>2, <2>4
<1>5. CASE ahead' = TRUE /\ UNCHANGED libVars
  <2>1. path' = path /\ added' = added /\ others' = others
    BY <1>5
  <2>2. torn' = torn
    BY <1>5
  <2>3. Rewrites /\ graph \in Seq(Nodes) /\ PathInv
    BY <2>1 DEF Rewrites, BootInv, GraphState, ListInv
  <2>4. ahead'
    BY <1>5
  <2>5. QED
    BY <1>4, <2>1, <2>2, <2>3, <2>4, KeptGoesOn
<1>6. CASE /\ StartsWithFramework /\ WritePath(Tail(seen), Len(added) > 1)
           /\ UNCHANGED <<faults, ahead>>
  <2>1. WritePath(Tail(seen), Len(added) > 1) /\ ahead' = ahead
    BY <1>6
  <2>2. path' = Tail(seen) /\ added' = added /\ others' = others
    BY <2>1 DEF WritePath
  <2>3. CASE torn'
    BY <2>3, KeptTorn
  <2>4. CASE ~torn'
    <3>1. ~torn /\ path = seen /\ ~(Len(added) > 1)
      BY <2>1, <2>4 DEF WritePath
    <3>2. path # <<>> /\ Head(path) = Framework /\ path' = Tail(path)
      BY <1>6, <2>2, <3>1 DEF StartsWithFramework
    <3>3. Len(added) <= 1
      BY <1>3, <3>1
    <3>4. Stands /\ Number(path, {Framework}) > Number(added, {Framework})
      BY <1>4, <3>1 DEF KeptInv, BlockInv
    <3>5. /\ Stands'
          /\ Kept(path', AppDirs) = Kept(path, AppDirs)
          /\ Number(path, Packages) = Number(path', Packages) + 1
          /\ Number(path', Packages) \in Nat
      BY <1>3, <2>2, <3>2, <3>3, <3>4, TrimKeeps
    <3>6. BlockInv'
      BY <1>4, <2>2, <3>1, <3>5 DEF BlockInv, KeptInv
    <3>7. ASSUME ~ahead', orphans' = {}
          PROVE  Number(path', Packages) = Len(added')
      <4>1. Number(path, Packages) = Len(added) + 1
        BY <1>2, <1>4, <2>1, <3>1, <3>7 DEF KeptInv, BalanceInv
      <4>2. Len(added) \in Nat
        BY <1>3
      <4>3. QED
        BY <2>2, <3>5, <4>1, <4>2
    <3>8. BalanceInv'
      <4>1. Len(added') \in Nat
        BY <1>3, <2>2
      <4>2. QED
        BY <1>4, <3>7, <4>1 DEF BalanceInv
    <3>9. QED
      BY <3>6, <3>8 DEF KeptInv
  <2>5. QED
    BY <2>3, <2>4
<1>7. QED
  BY <1>5, <1>6 DEF RemoveFrameworkFromPath

(* A call that goes from one of these places to another, or fails          *)
LEMMA KeptInside ==
  ASSUME PathInv, CallInv, graph \in Seq(Nodes), KeptInv, Rewrites,
         others' = others, ~torn' => ~torn, ahead' = ahead,
         NEW t \in Threads, call[t].at \in TemporaryPlaces,
         NEW to, Goes(t, to),
         \/ orphans' # {}
         \/ orphans' = orphans /\ to.at \in TemporaryPlaces
  PROVE  KeptInv'
<1>1. t \in Temporary
  BY TemporaryIsAt
<1>2. CASE orphans' # {}
  <2>1. Temporary # {}
    BY <1>1
  <2>2. ~ahead' /\ orphans' = {} => ~ahead /\ orphans = {}
    BY <1>2
  <2>3. QED
    BY <1>2, <2>1, <2>2, KeptGoesOn
<1>3. CASE orphans' = orphans /\ to.at \in TemporaryPlaces
  <2>1. Temporary' = Temporary \union {t}
    BY <1>3, TemporaryMoves
  <2>2. Temporary' # {} /\ Temporary # {}
    BY <1>1, <2>1
  <2>3. QED
    BY <1>3, <2>2, KeptGoesOn
<1>4. QED
  BY <1>2, <1>3

(* A call outside these places                                             *)
LEMMA KeptBeside ==
  ASSUME PathInv, CallInv, graph \in Seq(Nodes), KeptInv, Rewrites,
         others' = others, ~torn' => ~torn, ahead' = ahead,
         orphans' = orphans,
         NEW t \in Threads, call[t].at \notin TemporaryPlaces, NEW to,
         Goes(t, to), to.at \notin TemporaryPlaces
  PROVE  KeptInv'
<1>1. Temporary' = Temporary \ {t} /\ t \notin Temporary
  BY TemporaryMoves, TemporaryIsAt
<1>2. Temporary' = Temporary
  BY <1>1
<1>3. QED
  BY <1>2, KeptOutside

(* A new process has the PATH it was given.                                *)
LEMMA RestartKeepsDirs ==
  ASSUME BootInv', ProcessRestarts
  PROVE  KeptInv'
<1>1. /\ path' = FirstPath /\ added' = <<>> /\ graph' = <<>>
      /\ others' = FirstPath /\ call' = [t \in Threads |-> Idle]
  BY DEF ProcessRestarts, Restarts, GraphRestarts
<1>2. Temporary' = {}
  BY <1>1, IdleCall DEF Temporary, TemporaryPlaces, At
<1>3. FirstPath \in Seq(AppDirs) /\ AppDirs \intersect Packages = {}
  BY CatalogAssumption
<1>4. FirstPath \in Seq(Dirs) /\ <<>> \in Seq(Dirs)
  BY <1>3 DEF Dirs
<1>5. Kept(FirstPath, AppDirs) = FirstPath /\ Number(FirstPath, Packages) = 0
  BY <1>3, KeptAll, KeptNone DEF Number
<1>6. Stands'
  <2>1. FirstPath = (<<>> \o <<>>) \o FirstPath
    BY <1>4
  <2>2. Around(FirstPath, <<>>, <<>>, FirstPath)
    BY <2>1 DEF Around
  <2>3. QED
    BY <1>1, <1>4, <2>2 DEF Stands
<1>7. BlockInv'
  BY <1>1, <1>2, <1>5, <1>6 DEF BlockInv
<1>8. BalanceInv'
  BY <1>1, <1>2, <1>5 DEF BalanceInv
<1>9. QED
  BY <1>7, <1>8 DEF KeptInv

(* The initialization and the shutdown, action by action                   *)
LEMMA BootstrapCallsKeepDirs ==
  ASSUME BootInv, BootInv', KeptInv, NEW t \in Threads, BootstrapCall(t)
  PROVE  KeptInv'
<1> USE DEF depVars, libVars, graphVars, listVars, ids, appVars, historyVars,
            bootVars, initVars, managerVars, flags
<1>1. /\ CallInv /\ ManagerInv /\ PathInv /\ graph \in Seq(Nodes)
  BY DEF BootInv, CountInv, GraphState, ListInv
<1>2. Idle.at \notin TemporaryPlaces
  BY IdleCall DEF TemporaryPlaces
<1>3. CASE BeginInitialize(t)
  <2>a. \/ Goes(t, [at |-> "increment"])
        \/ Goes(t, [at |-> "manager"])
    BY <1>3 DEF BeginInitialize
  <2>b. /\ [at |-> "increment"].at \notin TemporaryPlaces
        /\ [at |-> "manager"].at \notin TemporaryPlaces
    BY DEF TemporaryPlaces
  <2>1. PICK to : Goes(t, to) /\ to.at \notin TemporaryPlaces
    BY <2>a, <2>b, Zenon
  <2>2. call[t].at \notin TemporaryPlaces
    BY <1>2, <1>3 DEF BeginInitialize, Begins
  <2>3. ahead' = ahead /\ torn' = torn
    BY <1>3 DEF BeginInitialize
  <2>4. orphans' = orphans /\ others' = others /\ Rewrites
    BY <1>3 DEF BeginInitialize, Rewrites
  <2>5. QED
    BY <1>1, <2>1, <2>2, <2>3, <2>4, KeptBeside
<1>4. CASE FailsFast(t)
  BY <1>4, RestartKeepsDirs DEF FailsFast
<1>5. CASE CreateLifetimeManager(t)
  <2> DEFINE to == [at |-> "add path", manager |-> lastManager']
  <2>1. Goes(t, to)
    BY <1>5 DEF CreateLifetimeManager
  <2>2. call[t].at \notin TemporaryPlaces /\ to.at \notin TemporaryPlaces
    BY <1>5 DEF CreateLifetimeManager, TemporaryPlaces
  <2> HIDE DEF to
  <2>3. ahead' = ahead /\ torn' = torn
    BY <1>5 DEF CreateLifetimeManager
  <2>4. orphans' = orphans /\ others' = others /\ Rewrites
    BY <1>5 DEF CreateLifetimeManager, Rewrites
  <2>5. QED
    BY <1>1, <2>1, <2>2, <2>3, <2>4, KeptBeside
<1>6. CASE NoManager(t)
  <2>1. Goes(t, Idle) /\ call[t].at \notin TemporaryPlaces
    BY <1>6 DEF NoManager, TemporaryPlaces
  <2>2. ahead' = ahead /\ torn' = torn
    BY <1>6 DEF NoManager
  <2>3. orphans' = orphans /\ others' = others /\ Rewrites
    BY <1>6 DEF NoManager, Rewrites
  <2>4. QED
    BY <1>1, <1>2, <2>1, <2>2, <2>3, KeptBeside
<1>7. CASE AddFrameworkToPath(t)
  BY <1>7, AddFrameworkToPathKeepsDirs
<1>8. CASE CreateFrameworkDependency(t)
  <2>1. /\ call[t].at \in TemporaryPlaces /\ call[t].at \in Using
    BY <1>8 DEF CreateFrameworkDependency, TemporaryPlaces, Using
  <2>2. torn' = torn
    BY <1>8 DEF CreateFrameworkDependency
  <2>3. others' = others /\ Rewrites
    BY <1>8 DEF CreateFrameworkDependency, Rewrites
  <2>4. CASE InitializationFails(t)
    BY <1>1, <2>1, <2>2, <2>3, <2>4, FailureLeavesOrphan, KeptInside
  <2>5. CASE ~InitializationFails(t)
    <3> DEFINE to == [at |-> "boot lookup", manager |-> call[t].manager,
                      id |-> lastId']
    <3>1. Goes(t, to) /\ to.at \in TemporaryPlaces
      <4>1. Goes(t, to)
        BY <1>8, <2>5 DEF CreateFrameworkDependency
      <4>2. to.at \in TemporaryPlaces
        BY DEF TemporaryPlaces
      <4>3. QED
        BY <4>1, <4>2
    <3> HIDE DEF to
    <3>2. ahead' = ahead
      BY <1>8, <2>5 DEF CreateFrameworkDependency
    <3>3. orphans' = orphans
      BY <1>8, <2>5 DEF CreateFrameworkDependency
    <3>4. QED
      BY <1>1, <2>1, <2>2, <2>3, <3>1, <3>2, <3>3, KeptInside
  <2>6. QED
    BY <2>4, <2>5
<1>9. CASE LookupFramework(t)
  <2>1. call[t].at = "boot lookup"
    BY <1>9 DEF LookupFramework
  <2>2. ahead' = ahead /\ torn' = torn
    BY <1>9 DEF LookupFramework
  <2>3. orphans' = orphans /\ others' = others /\ Rewrites
    BY <1>9 DEF LookupFramework, Rewrites
  <2> DEFINE to == [call[t] EXCEPT !.at = "boot resolve"]
  <2>4. Goes(t, to) \/ call' = call
    BY <1>9 DEF LookupFramework, Lookup
  <2>5. call[t] \in [at : {"boot lookup", "boot resolve"},
                     manager : 1..lastManager, id : 1..lastId]
    BY <1>1, <2>1, CallIsTyped, CallKinds
  <2>6. to.at \in TemporaryPlaces /\ call[t].at \in TemporaryPlaces
    BY <2>1, <2>5 DEF TemporaryPlaces
  <2> HIDE DEF to
  <2>7. CASE Goes(t, to)
    BY <1>1, <2>2, <2>3, <2>6, <2>7, KeptInside
  <2>8. CASE call' = call
    BY <1>1, <2>2, <2>3, <2>8, TemporaryStays, KeptOutside
  <2>9. QED
    BY <2>4, <2>7, <2>8
<1>10. CASE AddFramework(t)
  <2>1. call[t].at \in TemporaryPlaces /\ call[t].at \in Using
    BY <1>10 DEF AddFramework, TemporaryPlaces, Using
  <2>2. CASE NotFound(t) /\ InitializationFails(t)
    <3>1. Rewrites /\ others' = others /\ torn' = torn
      BY <2>2 DEF NotFound, Rewrites
    <3>2. QED
      BY <1>1, <2>1, <2>2, <3>1, FailureLeavesOrphan, KeptInside
  <2>3. CASE /\ \E p \in Packages : Resolves(t, DefaultRank, FALSE, p)
             /\ Goes(t, [at |-> "boot update", manager |-> call[t].manager,
                         context |-> lastContext'])
             /\ UNCHANGED initVars
    <3> DEFINE to == [at |-> "boot update", manager |-> call[t].manager,
                      context |-> lastContext']
    <3>1. Goes(t, to) /\ to.at \in TemporaryPlaces
      <4>1. Goes(t, to)
        BY <2>3
      <4>2. to.at \in TemporaryPlaces
        BY DEF TemporaryPlaces
      <4>3. QED
        BY <4>1, <4>2
    <3> HIDE DEF to
    <3>2. Rewrites
      BY <2>3, NodesLeavePath DEF Resolves
    <3>3. others' = others /\ torn' = torn
      BY <2>3 DEF Resolves
    <3>4. ahead' = ahead
      BY <2>3
    <3>5. orphans' = orphans
      BY <2>3
    <3>6. QED
      BY <1>1, <2>1, <3>1, <3>2, <3>3, <3>4, <3>5, KeptInside
  <2>4. QED
    BY <1>10, <2>2, <2>3 DEF AddFramework
<1>11. CASE AddFrameworkReturns(t)
  <2>1. call[t].at = "boot update"
    BY <1>11 DEF AddFrameworkReturns
  <2>2. call[t].at \in TemporaryPlaces /\ call[t].at \in Using
    BY <2>1 DEF TemporaryPlaces, Using
  <2> DEFINE to == [call[t] EXCEPT !.at = "trim"]
  <2>3. PICK ok \in BOOLEAN :
          /\ Added(t, ok)
          /\ \/ Goes(t, to) /\ UNCHANGED initVars
             \/ InitializationFails(t)
    BY <1>11 DEF AddFrameworkReturns
  <2>4. call[t] \in [at : {"boot update", "trim"}, manager : 1..lastManager,
                     context : 1..lastContext]
    BY <1>1, <2>1, CallIsTyped, CallKinds
  <2>5. to.at \in TemporaryPlaces
    BY <2>4 DEF TemporaryPlaces
  <2> HIDE DEF to
  <2>6. EndsUpdate(ok) /\ (UpdatePath \/ UpdateFails)
    BY <2>3 DEF Added, AddToDllSearchOrder
  <2>7. Rewrites /\ others' = others /\ (~torn' => ~torn)
    BY <2>6, UpdatesRewrite
  <2>8. CASE InitializationFails(t)
    BY <1>1, <2>2, <2>7, <2>8, FailureLeavesOrphan, KeptInside
  <2>9. CASE Goes(t, to) /\ UNCHANGED initVars
    <3>1. ahead' = ahead
      BY <2>9
    <3>2. orphans' = orphans
      BY <2>9
    <3>3. QED
      BY <1>1, <2>2, <2>5, <2>7, <2>9, <3>1, <3>2, KeptInside
  <2>10. QED
    BY <2>3, <2>8, <2>9
<1>12. CASE RemoveFrameworkFromPath(t)
  BY <1>12, TrimKeepsDirs
<1>13. CASE IncrementCount(t)
  <2>1. Goes(t, Idle) /\ call[t].at \notin TemporaryPlaces
    BY <1>13 DEF IncrementCount, TemporaryPlaces
  <2>2. ahead' = ahead /\ torn' = torn
    BY <1>13 DEF IncrementCount
  <2>3. orphans' = orphans /\ others' = others /\ Rewrites
    BY <1>13 DEF IncrementCount, Rewrites
  <2>4. QED
    BY <1>1, <1>2, <2>1, <2>2, <2>3, KeptBeside
<1>14. CASE Shutdown(t)
  <2>1. ahead' = ahead /\ torn' = torn
    BY <1>14 DEF Shutdown, BeginShutdown
  <2>2. orphans' = orphans /\ others' = others /\ call' = call
    BY <1>14 DEF Shutdown, BeginShutdown
  <2>3. Rewrites
    BY <1>14 DEF Shutdown, Rewrites
  <2>4. QED
    BY <1>1, <2>1, <2>2, <2>3, TemporaryStays, KeptOutside
<1>15. CASE ShutdownLast(t)
  <2>1. ahead' = ahead /\ torn' = torn
    BY <1>15 DEF ShutdownLast, BeginShutdown
  <2>2. orphans' = orphans /\ others' = others
    BY <1>15 DEF ShutdownLast, BeginShutdown
  <2>3. Rewrites
    BY <1>15, NodesLeavePath DEF ShutdownLast
  <2>4. call[t].at \notin TemporaryPlaces
    BY <1>2, <1>15 DEF ShutdownLast, BeginShutdown, Begins
  <2> DEFINE to == [at |-> "shut down"]
  <2>5. Goes(t, to) /\ to.at \notin TemporaryPlaces
    BY <1>15 DEF ShutdownLast, TemporaryPlaces
  <2> HIDE DEF to
  <2>6. QED
    BY <1>1, <2>1, <2>2, <2>3, <2>4, <2>5, KeptBeside
<1>16. CASE ShutdownReturns(t)
  <2>1. PICK ok \in BOOLEAN : RemoveFromDllSearchOrder(ok) /\ EndsUpdate(ok)
    BY <1>16 DEF ShutdownReturns
  <2>2. UpdatePath \/ UpdateFails
    BY <2>1 DEF RemoveFromDllSearchOrder
  <2>3. Rewrites /\ others' = others /\ (~torn' => ~torn)
    BY <2>1, <2>2, UpdatesRewrite
  <2>4. ahead' = ahead
    BY <1>16 DEF ShutdownReturns
  <2>5. orphans' = orphans /\ Goes(t, Idle)
    BY <1>16 DEF ShutdownReturns
  <2>6. call[t].at \notin TemporaryPlaces
    BY <1>16 DEF ShutdownReturns, TemporaryPlaces
  <2>7. QED
    BY <1>1, <1>2, <2>3, <2>4, <2>5, <2>6, KeptBeside
<1>17. QED
  BY <1>3, <1>4, <1>5, <1>6, <1>7, <1>8, <1>9, <1>10, <1>12, <1>13, <1>14,
     <1>11, <1>15, <1>16 DEF BootstrapCall

(* Every step keeps what is kept of PATH.                                  *)
LEMMA NextKeepsDirs ==
  ASSUME BootInv, BootInv', KeptInv, [Next]_vars
  PROVE  KeptInv'
<1>1. PathInv /\ graph \in Seq(Nodes)
  BY DEF BootInv, GraphState, ListInv
<1>2. ASSUME UNCHANGED depVars, ahead' = ahead, orphans' = orphans
      PROVE  KeptInv'
  <2>1. call' = call /\ Rewrites /\ others' = others
    BY <1>2 DEF depVars, libVars, graphVars, listVars, appVars, historyVars,
                Rewrites
  <2>2. torn' = torn
    BY <1>2 DEF depVars, libVars, appVars, historyVars
  <2>3. QED
    BY <1>1, <1>2, <2>1, <2>2, TemporaryStays, KeptOutside
<1>3. ASSUME NEW t \in Threads, DependencyCall(t), UNCHANGED bootVars
      PROVE  KeptInv'
  BY <1>3, DependencyCallsKeepDirs
<1>4. ASSUME NEW t \in Threads, BootstrapCall(t)
      PROVE  KeptInv'
  BY <1>4, BootstrapCallsKeepDirs
<1>5. ASSUME NEW t \in Threads, NEW d \in AppDirs, AppPrepends(t, d),
             torn' = (torn \/ InWindow), UNCHANGED bootVars
      PROVE  KeptInv'
  BY <1>5, AppPrependsKeepsDirs
<1>6. ASSUME NEW p \in Packages, PackageChanges(p), UNCHANGED bootVars
      PROVE  KeptInv'
  <2>1. ahead' = ahead /\ torn' = torn
    BY <1>6 DEF PackageChanges, bootVars, initVars, flags, appVars, historyVars
  <2>2. orphans' = orphans /\ others' = others /\ call' = call /\ Rewrites
    BY <1>6 DEF PackageChanges, bootVars, initVars, appVars, historyVars,
                graphVars, listVars, Rewrites
  <2>3. QED
    BY <1>1, <2>1, <2>2, TemporaryStays, KeptOutside
<1>7. CASE Restart
  BY <1>7, RestartKeepsDirs DEF Restart
<1>8. ASSUME NEW m \in managers, LifetimeManagerEnds(m)
      PROVE  KeptInv'
  <2>1. ahead' = ahead
    BY <1>8 DEF LifetimeManagerEnds, flags
  <2>2. UNCHANGED depVars /\ orphans' = orphans
    BY <1>8 DEF LifetimeManagerEnds
  <2>3. QED
    BY <1>2, <2>1, <2>2
<1>9. CASE UNCHANGED vars
  <2>1. ahead' = ahead
    BY <1>9 DEF vars, bootVars, initVars, flags
  <2>2. UNCHANGED depVars /\ orphans' = orphans
    BY <1>9 DEF vars, bootVars, initVars
  <2>3. QED
    BY <1>2, <2>1, <2>2
<1>10. QED
  BY <1>3, <1>4, <1>5, <1>6, <1>7, <1>8, <1>9 DEF Next

(* It holds at the start.                                                  *)
LEMMA InitKeepsDirs == Init => KeptInv
<1> SUFFICES ASSUME Init PROVE KeptInv
  OBVIOUS
<1>1. /\ path = FirstPath /\ added = <<>> /\ graph = <<>>
      /\ others = FirstPath /\ call = [t \in Threads |-> Idle]
  BY DEF Init, DependenciesInit, GraphInit
<1>2. Temporary = {}
  BY <1>1, IdleCall DEF Temporary, TemporaryPlaces, At
<1>3. QED
  BY <1>1, <1>2, KeptAtStart

-----------------------------------------------------------------------------
(* The block on PATH is that of the graph when nobody updates it.          *)

UpdatePlaces == {"update", "boot update", "remove", "shut down"}

(* A step of a call that neither begins nor ends an update                 *)
Beside(t) ==
  /\ UNCHANGED <<graph, added, behind>>
  /\ call[t].at \notin UpdatePlaces
  /\ call' = call \/ \E to : Goes(t, to)

LEMMA UpdatingIsAt ==
  Updating = {t \in Threads : call[t].at \in UpdatePlaces}
BY DEF Updating, Adding, At, UpdatePlaces

LEMMA ListedBeside ==
  ASSUME CallInv, ListedInv, NEW t \in Threads, Beside(t)
  PROVE  ListedInv'
<1>1. ASSUME NEW u \in Updating
      PROVE  u \in Updating'
  <2>1. u # t /\ u \in Threads /\ call[u].at \in UpdatePlaces
    BY UpdatingIsAt DEF Beside
  <2>2. call'[u] = call[u]
    BY <2>1 DEF Beside, Goes, CallInv
  <2>3. Updating' = {v \in Threads : call'[v].at \in UpdatePlaces}
    BY DEF Updating, Adding, At, UpdatePlaces
  <2>4. QED
    BY <2>1, <2>2, <2>3
<1>2. Updating' = {} => Updating = {}
  BY <1>1
<1>3. QED
  BY <1>2 DEF Beside, ListedInv

(* An update is under way.                                                 *)
LEMMA ListedOnTheWay ==
  ASSUME CallInv, NEW t \in Threads, NEW to, Goes(t, to),
         to.at \in UpdatePlaces
  PROVE  ListedInv'
<1>1. call'[t] = to
  BY DEF Goes, CallInv
<1>2. Updating' = {v \in Threads : call'[v].at \in UpdatePlaces}
  BY DEF Updating, Adding, At, UpdatePlaces
<1>3. Updating' # {}
  BY <1>1, <1>2
<1>4. QED
  BY <1>3 DEF ListedInv

(* An update ends: the block is that of the graph, or could not be put on  *)
(* PATH.                                                                   *)
LEMMA ListedEnds ==
  ASSUME UpdatePath \/ UpdateFails, graph' = graph
  PROVE  ListedInv'
BY DEF UpdatePath, UpdateFails, ListedInv, BuildPathList

(* A process begins.                                                       *)
LEMMA ListedAtStart ==
  /\ graph = <<>> /\ added = <<>> => ListedInv
  /\ graph' = <<>> /\ added' = <<>> => ListedInv'
<1>1. BuildPathList(<<>>) = <<>>
  BY DEF BuildPathList
<1>2. QED
  BY <1>1 DEF ListedInv, BuildPathList

(* The calls of package dependencies                                       *)
LEMMA DependencyCallsKeepList ==
  ASSUME CallInv, ListedInv, NEW t \in Threads, DependencyCall(t)
  PROVE  ListedInv'
<1> USE DEF depVars, libVars, graphVars, listVars, ids, appVars
<1>1. Idle.at \notin UpdatePlaces
  BY IdleCall DEF UpdatePlaces
<1>2. ASSUME Beside(t) PROVE ListedInv'
  BY <1>2, ListedBeside
<1>3. ASSUME NEW c \in Criteria \ {FrameworkCriteria}, TryCreate(t, c)
      PROVE  ListedInv'
  BY <1>1, <1>2, <1>3 DEF TryCreate, Begins, Beside
<1>4. CASE WriteFile(t)
  BY <1>2, <1>4 DEF WriteFile, Beside, UpdatePlaces
<1>5. CASE WriteFails(t)
  BY <1>2, <1>5 DEF WriteFails, Beside, UpdatePlaces
<1>6. CASE CreateReturns(t)
  BY <1>2, <1>6 DEF CreateReturns, Beside, UpdatePlaces
<1>7. ASSUME NEW id \in Ids, DeletePackageDependency(t, id)
      PROVE  ListedInv'
  BY <1>1, <1>2, <1>7 DEF DeletePackageDependency, Begins, Beside
<1>8. CASE DeleteReturns(t)
  BY <1>2, <1>8 DEF DeleteReturns, Beside, UpdatePlaces
<1>9. ASSUME NEW id \in Ids, NEW rank \in Ranks, NEW prepend \in BOOLEAN,
             AddPackageDependency(t, id, rank, prepend)
      PROVE  ListedInv'
  <2>1. UNCHANGED <<graph, added, behind>> /\ call[t] = Idle
    BY <1>9 DEF AddPackageDependency, Begins
  <2>2. call' = call \/ \E to : Goes(t, to)
    BY <1>9 DEF AddPackageDependency, Lookup
  <2>3. QED
    BY <1>1, <1>2, <2>1, <2>2 DEF Beside
<1>10. CASE Resolve(t)
  <2>1. CASE NotFound(t) /\ Goes(t, Idle)
    BY <1>2, <1>10, <2>1 DEF NotFound, Resolve, Beside, UpdatePlaces
  <2>2. CASE Goes(t, [at |-> "update", context |-> lastContext'])
    BY <2>2, ListedOnTheWay DEF UpdatePlaces
  <2>3. QED
    BY <1>10, <2>1, <2>2 DEF Resolve
<1>11. CASE AddReturns(t)
  BY <1>11, ListedEnds DEF AddReturns, Added, AddToDllSearchOrder
<1>12. ASSUME NEW x \in held, RemovePackageDependency(t, x)
       PROVE  ListedInv'
  BY <1>12, ListedOnTheWay DEF RemovePackageDependency, UpdatePlaces
<1>13. CASE RemoveReturns(t)
  BY <1>13, ListedEnds DEF RemoveReturns, RemoveFromDllSearchOrder
<1>14. ASSUME NEW i \in DOMAIN path, AppDrops(t, i)
       PROVE  ListedInv'
  BY <1>1, <1>2, <1>14 DEF AppDrops, Begins, Beside
<1>15. QED
  BY <1>3, <1>4, <1>5, <1>6, <1>7, <1>8, <1>9, <1>10, <1>11, <1>12, <1>13,
     <1>14 DEF DependencyCall

(* The initialization and the shutdown                                     *)
LEMMA BootstrapCallsKeepList ==
  ASSUME CallInv, ListedInv, NEW t \in Threads, BootstrapCall(t)
  PROVE  ListedInv'
<1> USE DEF depVars, libVars, graphVars, listVars, ids, appVars
<1>1. Idle.at \notin UpdatePlaces
  BY IdleCall DEF UpdatePlaces
<1>2. ASSUME Beside(t) PROVE ListedInv'
  BY <1>2, ListedBeside
<1>3. CASE BeginInitialize(t)
  BY <1>1, <1>2, <1>3 DEF BeginInitialize, Begins, Beside
<1>4. CASE FailsFast(t)
  BY <1>4, ListedAtStart DEF FailsFast, ProcessRestarts, Restarts,
                             GraphRestarts
<1>5. CASE CreateLifetimeManager(t)
  BY <1>2, <1>5 DEF CreateLifetimeManager, Beside, UpdatePlaces
<1>6. CASE NoManager(t)
  BY <1>2, <1>6 DEF NoManager, Beside, UpdatePlaces
<1>7. CASE AddFrameworkToPath(t)
  BY <1>2, <1>7 DEF AddFrameworkToPath, WritePath, InitializationFails,
                    Beside, UpdatePlaces
<1>8. CASE CreateFrameworkDependency(t)
  BY <1>2, <1>8 DEF CreateFrameworkDependency, InitializationFails, Beside,
                    UpdatePlaces
<1>9. CASE LookupFramework(t)
  <2>1. /\ UNCHANGED <<graph, added, behind>>
        /\ call[t].at = "boot lookup"
    BY <1>9 DEF LookupFramework
  <2>2. call' = call \/ \E to : Goes(t, to)
    BY <1>9 DEF LookupFramework, Lookup
  <2>3. QED
    BY <1>2, <2>1, <2>2 DEF Beside, UpdatePlaces
<1>10. CASE AddFramework(t)
  <2>1. CASE NotFound(t) /\ InitializationFails(t)
    BY <1>2, <1>10, <2>1 DEF NotFound, AddFramework, InitializationFails,
                             Beside, UpdatePlaces
  <2>2. CASE Goes(t, [at |-> "boot update", manager |-> call[t].manager,
                      context |-> lastContext'])
    BY <2>2, ListedOnTheWay DEF UpdatePlaces
  <2>3. QED
    BY <1>10, <2>1, <2>2 DEF AddFramework
<1>11. CASE AddFrameworkReturns(t)
  BY <1>11, ListedEnds DEF AddFrameworkReturns, Added, AddToDllSearchOrder
<1>12. CASE RemoveFrameworkFromPath(t)
  BY <1>2, <1>12 DEF RemoveFrameworkFromPath, WritePath, Beside, UpdatePlaces
<1>13. CASE IncrementCount(t)
  BY <1>2, <1>13 DEF IncrementCount, Beside, UpdatePlaces
<1>14. CASE Shutdown(t)
  BY <1>1, <1>2, <1>14 DEF Shutdown, BeginShutdown, Begins, Beside
<1>15. CASE ShutdownLast(t)
  BY <1>15, ListedOnTheWay DEF ShutdownLast, UpdatePlaces
<1>16. CASE ShutdownReturns(t)
  BY <1>16, ListedEnds DEF ShutdownReturns, RemoveFromDllSearchOrder
<1>17. QED
  BY <1>3, <1>4, <1>5, <1>6, <1>7, <1>8, <1>9, <1>10, <1>11, <1>12, <1>13,
     <1>14, <1>15, <1>16 DEF BootstrapCall

(* Every step keeps the list.                                              *)
LEMMA NextKeepsList ==
  ASSUME CallInv, ListedInv, [Next]_vars
  PROVE  ListedInv'
<1> USE DEF depVars, libVars, graphVars, listVars, ids, appVars
<1>1. ASSUME UNCHANGED <<graph, added, behind>>, call' = call
      PROVE  ListedInv'
  BY <1>1 DEF ListedInv, BuildPathList, Updating, Adding, At
<1>2. ASSUME NEW t \in Threads, DependencyCall(t)
      PROVE  ListedInv'
  BY <1>2, DependencyCallsKeepList
<1>3. ASSUME NEW t \in Threads, BootstrapCall(t)
      PROVE  ListedInv'
  BY <1>3, BootstrapCallsKeepList
<1>4. ASSUME NEW t \in Threads, NEW d \in AppDirs, AppPrepends(t, d)
      PROVE  ListedInv'
  BY <1>1, <1>4 DEF AppPrepends
<1>5. ASSUME NEW p \in Packages, PackageChanges(p)
      PROVE  ListedInv'
  BY <1>1, <1>5 DEF PackageChanges
<1>6. CASE Restart
  BY <1>6, ListedAtStart DEF Restart, ProcessRestarts, Restarts,
                             GraphRestarts
<1>7. ASSUME NEW m \in managers, LifetimeManagerEnds(m)
      PROVE  ListedInv'
  BY <1>1, <1>7 DEF LifetimeManagerEnds
<1>8. CASE UNCHANGED vars
  BY <1>1, <1>8 DEF vars
<1>9. QED
  BY <1>2, <1>3, <1>4, <1>5, <1>6, <1>7, <1>8 DEF Next

(* So both always hold, with BootInv.                                      *)
LEMMA KeptInvIsKept == Spec => [](BootInv /\ ListedInv /\ KeptInv)
<1>1. Init => BootInv /\ ListedInv /\ KeptInv
  <2>1. Init => graph = <<>> /\ added = <<>>
    BY DEF Init, DependenciesInit, GraphInit
  <2>2. QED
    BY <2>1, ListedAtStart, InitIsSound, InitKeepsDirs
<1>2. BootInv /\ ListedInv /\ KeptInv /\ [Next]_vars
        => (BootInv /\ ListedInv /\ KeptInv)'
  <2>1. BootInv => CallInv
    BY DEF BootInv
  <2>2. QED
    BY <2>1, NextKeepsInv, NextKeepsList, NextKeepsDirs
<1>3. QED
  BY <1>1, <1>2, PTL DEF Spec

(* Of a block that stands on PATH, Offsets finds a place.                  *)
LEMMA KeptFollows ==
  ASSUME BootInv, ListedInv, KeptInv
  PROVE  PathIsKept
<1>1. path \in Seq(Dirs) /\ added \in Seq(Packages)
  BY DEF BootInv, PathInv
<1>2. added \in Seq(Dirs)
  BY <1>1, PackagesOnly
<1>3. Stands => Offsets(path, added) # {}
  BY <1>2, BlockIsFound DEF Stands
<1>4. QED
  BY <1>3 DEF PathIsKept, KeptInv, ListedInv, BlockInv

(* Of a PATH without a temporary directory, the packages' directories are  *)
(* as many as the block has, so nothing is left or right of it.            *)
LEMMA BalanceFollows ==
  ASSUME BootInv, KeptInv
  PROVE  PathIsBalanced
<1> SUFFICES ASSUME ~torn, ~ahead, orphans = {}, ~InWindow
             PROVE  Kept(path, Packages) = added
  BY DEF PathIsBalanced
<1>1. added \in Seq(Packages) /\ added \in Seq(Dirs)
  BY PackagesOnly DEF BootInv, PathInv
<1>2. Temporary = {}
  BY DEF Temporary, TemporaryPlaces, InWindow, At
<1>3. Number(path, Packages) = Len(added) + 0
  BY <1>2 DEF KeptInv, BalanceInv
<1>4. PICK x \in Seq(Dirs), y \in Seq(Dirs) : Around(path, x, added, y)
  BY DEF KeptInv, BlockInv, Stands
<1> DEFINE kx == Kept(x, Packages)
           ky == Kept(y, Packages)
           V == Dirs \intersect Packages
<1>5. /\ Number(path, Packages)
           = (Number(x, Packages) + Number(added, Packages))
               + Number(y, Packages)
      /\ Around(Kept(path, Packages), kx, added, ky)
  BY <1>1, <1>4, NumberAround, KeptAll
<1>6. /\ kx \in Seq(V) /\ Number(x, Packages) \in Nat
      /\ ky \in Seq(V) /\ Number(y, Packages) \in Nat
  BY KeptType
<1>7. Number(added, Packages) = Len(added) /\ Len(added) \in Nat
  BY <1>1, PackagesOnly
<1>8. Number(x, Packages) = 0 /\ Number(y, Packages) = 0
  BY <1>3, <1>5, <1>6, <1>7
<1>9. Len(kx) = 0 /\ Len(ky) = 0
  BY <1>8 DEF Number
<1> HIDE DEF kx, ky, V
<1>10. kx = <<>> /\ ky = <<>>
  BY <1>6, <1>9
<1>11. (<<>> \o added) \o <<>> = added
  BY <1>1
<1>12. QED
  BY <1>5, <1>10, <1>11 DEF Around

(* Adding and removing packages, and initializing, take nothing of the     *)
(* app's own away from PATH and change no order there, and the block put   *)
(* there last is there to be found; when no update is under way and the    *)
(* last one could write PATH, it is that of the graph (UpdatePath,         *)
(* PackageGraph.cpp).  Excepted is all that follows once other code has    *)
(* written into the block, between the read and the write of PATH in an    *)
(* update or an initialization (PackageGraph.cpp:302 and 368), or while    *)
(* the initialization has its directory there: what it wrote may be lost.  *)
THEOREM DirectoriesAreKept == Spec => []PathIsKept
<1>1. BootInv /\ ListedInv /\ KeptInv => PathIsKept
  BY KeptFollows
<1>2. QED
  BY <1>1, KeptInvIsKept, PTL

(* Outside the initialization's window the directories of packages on PATH *)
(* are those of the block last put there, in its order, each as often as   *)
(* it is there: none is left behind (RemoveFrameworkFromPath,              *)
(* MddBootstrap.cpp).  Excepted are the writes DirectoriesAreKept excepts, *)
(* failed initializations, and those that could not take the framework     *)
(* from PATH, as it was not first or the write failed.                     *)
THEOREM DirectoriesAreBalanced == Spec => []PathIsBalanced
<1>1. BootInv /\ KeptInv => PathIsBalanced
  BY BalanceFollows
<1>2. QED
  BY <1>1, KeptInvIsKept, PTL

(* A dependency is resolved to a package that fits and is usable, if there *)
(* is one in the family, whatever the order in which the system reports    *)
(* them; without architecture-neutral packages to the highest version      *)
(* (ResolvePackageDependency, PackageGraph.cpp).                           *)
THEOREM ResolutionIsFit == Spec => []ResolutionFits
<1>1. ResolutionFits
  BY BestFitFits
<1>2. QED
  BY <1>1, PTL
=============================================================================
