----------------------------- MODULE NavProofs -----------------------------
(***************************************************************************)
(* The ids of the navigation graphs and the searches.                      *)
(*                                                                         *)
(* A vertex takes its id from a counter that all graphs share, and the id  *)
(* is used as a place in one graph: what that leads to follows from how    *)
(* far ids run ahead of places, which only ever grows along a graph.       *)
(*                                                                         *)
(* A search keeps the best of the places seen so far, turn by turn of its  *)
(* loop.  It compares square roots cut to ints, so what it finds may lose  *)
(* to another by less than a unit.                                         *)
(***************************************************************************)
EXTENDS NavGraph, WellFoundedInduction, SequenceTheorems, TLAPS

Vertices == [at : Points, id : 0..(IdSpace - 1)]

\* The lists hold places of the graph, one list for each of its vertices.
GraphOK(h) ==
    /\ h \notin live => graph[h] = <<>>
    /\ Len(adj[h]) = Len(graph[h])
    /\ adj[h] \in Seq(Seq(Places(h)))

NavTypeInv ==
    /\ made \in 0..MaxMade /\ live \subseteq Graphs /\ running \in BOOLEAN
    /\ graph \in [Graphs -> Seq(Vertices)]
    /\ adj \in [Graphs -> Seq(Seq(Nat))]
    /\ \A h \in Graphs : GraphOK(h)

\* The ids of a graph run ahead of their places, and never less so towards the
\* end of the vector.
Ahead(g) ==
    /\ \A p \in Places(g) : p <= Vertex(g, p).id /\ Vertex(g, p).id < made
    /\ \A p, q \in Places(g) : p <= q => q - p <= Vertex(g, q).id - Vertex(g, p).id

\* They do until the counter wraps.
IdsAhead == Unwrapped => \A g \in Graphs : Ahead(g)

NavInv == NavTypeInv /\ IdsAhead

----------------------------------------------------------------------------
(* The graph a step changes.                                               *)

\* What a step leaves of the other graphs.
GraphKept(h) == graph'[h] = graph[h] /\ adj'[h] = adj[h]

\* The invariant says what the type invariant says.
LEMMA TypesHold == NavTypeInv => TypeOK
<1> SUFFICES ASSUME NavTypeInv PROVE TypeOK OBVIOUS
<1>1. ASSUME NEW h \in Graphs
      PROVE  /\ h \notin live => graph[h] = <<>>
             /\ DOMAIN adj[h] = DOMAIN graph[h]
             /\ \A p \in Places(h) : Range(Neighbours(h, p)) \subseteq Places(h)
  <2>1. GraphOK(h) /\ graph[h] \in Seq(Vertices)
    BY DEF NavTypeInv
  <2>2. DOMAIN adj[h] = DOMAIN graph[h]
    BY <2>1 DEF GraphOK
  <2>3. ASSUME NEW p \in Places(h) PROVE Range(Neighbours(h, p)) \subseteq Places(h)
    <3>1. Neighbours(h, p) \in Seq(Places(h))
      BY <2>1 DEF GraphOK, Places, Neighbours
    <3> QED BY <3>1 DEF Range
  <2> QED BY <2>1, <2>2, <2>3 DEF GraphOK
<1> QED BY <1>1 DEF NavTypeInv, TypeOK, Vertices

\* A graph that a step does not touch keeps its type.
LEMMA KeptOK ==
    ASSUME NEW h \in Graphs, GraphOK(h), GraphKept(h), h \notin live' => h \notin live
    PROVE  GraphOK(h)'
BY DEF GraphOK, GraphKept, Places

\* Lists of a set's elements are lists of a larger one's.
LEMMA ListsGrow ==
    ASSUME NEW S, NEW T, S \subseteq T, NEW lists \in Seq(Seq(S)) PROVE lists \in Seq(Seq(T))
<1>1. \A i \in DOMAIN lists : lists[i] \in Seq(T)
  <2>1. ASSUME NEW s \in Seq(S) PROVE s \in Seq(T)
    OBVIOUS
  <2> QED BY <2>1
<1> QED BY <1>1

\* Pushing an element on one of the lists.
LEMMA PushedLists ==
    ASSUME NEW S, NEW lists \in Seq(Seq(S)), NEW p \in 0..(Len(lists) - 1), NEW q \in S
    PROVE  Pushed(lists, p, q) \in Seq(Seq(S)) /\ Len(Pushed(lists, p, q)) = Len(lists)
<1>1. p + 1 \in DOMAIN lists /\ lists[p + 1] \in Seq(S)
  OBVIOUS
<1>2. Append(lists[p + 1], q) \in Seq(S)
  BY <1>1
<1> QED BY <1>1, <1>2 DEF Pushed

\* A new vertex: its id is the counter, its list is empty (Graph.cxx:34-45).
LEMMA AddVertexTypes ==
    ASSUME NavTypeInv, NEW g \in Graphs, NEW point \in Points, add_vertex(g, point) PROVE NavTypeInv'
<1>1. /\ made \in Nat /\ made < MaxMade /\ made' = made + 1 /\ IdSpace \in Nat \ {0} /\ MaxMade \in Nat
      /\ UNCHANGED <<live, running>>
  BY GraphAssumption DEF NavTypeInv, add_vertex, GraphAssumption
<1>2. NextVertex(point) \in Vertices
  BY <1>1 DEF NextVertex, count, Vertices
<1>3. /\ graph' = [graph EXCEPT ![g] = Append(@, NextVertex(point))]
      /\ adj' = [adj EXCEPT ![g] = Append(@, <<>>)]
      /\ graph \in [Graphs -> Seq(Vertices)] /\ adj \in [Graphs -> Seq(Seq(Nat))]
  BY DEF NavTypeInv, add_vertex
<1>4. graph' \in [Graphs -> Seq(Vertices)] /\ adj' \in [Graphs -> Seq(Seq(Nat))]
  BY <1>2, <1>3
<1>5. GraphOK(g)'
  <2>1. /\ graph'[g] = Append(graph[g], NextVertex(point)) /\ adj'[g] = Append(adj[g], <<>>)
        /\ graph[g] \in Seq(Vertices) /\ adj[g] \in Seq(Seq(Nat)) /\ Len(adj[g]) = Len(graph[g])
        /\ adj[g] \in Seq(Seq(Places(g))) /\ g \in live
    BY <1>3 DEF NavTypeInv, GraphOK, add_vertex
  <2>2. Len(graph'[g]) = Len(graph[g]) + 1 /\ Len(adj'[g]) = Len(graph[g]) + 1
    BY <1>2, <2>1
  <2>3. Places(g) \subseteq Places(g)'
    BY <2>1, <2>2 DEF Places
  <2>4. adj[g] \in Seq(Seq(Places(g)'))
    BY <2>1, <2>3, ListsGrow
  <2>5. adj'[g] \in Seq(Seq(Places(g)'))
    BY <2>1, <2>4
  <2> QED BY <1>1, <2>1, <2>2, <2>5 DEF GraphOK
<1>6. \A h \in Graphs \ {g} : GraphOK(h)'
  BY <1>1, <1>3, KeptOK DEF NavTypeInv, GraphKept
<1> QED BY <1>1, <1>4, <1>5, <1>6 DEF NavTypeInv

\* A new edge: each end is pushed on the list of the other (Graph.cxx:47-60).
LEMMA AddEdgeTypes ==
    ASSUME NavTypeInv, NEW g \in Graphs, NEW p, NEW q, add_edge(g, p, q) PROVE NavTypeInv'
<1>1. /\ p \in Places(g) /\ q \in Places(g) /\ adj' = [adj EXCEPT ![g] = Linked(g, p, q)]
      /\ UNCHANGED <<made, live, graph, running>>
      /\ graph \in [Graphs -> Seq(Vertices)] /\ adj \in [Graphs -> Seq(Seq(Nat))]
      /\ adj[g] \in Seq(Seq(Places(g))) /\ Len(adj[g]) = Len(graph[g])
  BY DEF NavTypeInv, GraphOK, add_edge, InRange
<1>2. p \in 0..(Len(adj[g]) - 1) /\ q \in 0..(Len(adj[g]) - 1) /\ Places(g) \subseteq Nat
  BY <1>1 DEF Places
<1>3. Pushed(adj[g], p, q) \in Seq(Seq(Places(g))) /\ Len(Pushed(adj[g], p, q)) = Len(adj[g])
  BY <1>1, <1>2, PushedLists
<1>4. Linked(g, p, q) \in Seq(Seq(Places(g))) /\ Len(Linked(g, p, q)) = Len(graph[g])
  BY <1>1, <1>2, <1>3, PushedLists DEF Linked
<1>5. Linked(g, p, q) \in Seq(Seq(Nat))
  BY <1>2, <1>4, ListsGrow
<1>6. adj' \in [Graphs -> Seq(Seq(Nat))] /\ adj'[g] = Linked(g, p, q)
  BY <1>1, <1>5
<1>7. GraphOK(g)'
  BY <1>1, <1>4, <1>6 DEF NavTypeInv, GraphOK, Places
<1>8. \A h \in Graphs \ {g} : GraphOK(h)'
  BY <1>1, KeptOK DEF NavTypeInv, GraphKept
<1> QED BY <1>1, <1>6, <1>7, <1>8 DEF NavTypeInv

\* ~Graph (Graph.cxx:28-30).
LEMMA DeleteTypes == ASSUME NavTypeInv, NEW g \in Graphs, Delete(g) PROVE NavTypeInv'
<1>1. /\ graph \in [Graphs -> Seq(Vertices)] /\ adj \in [Graphs -> Seq(Seq(Nat))]
      /\ graph' = [graph EXCEPT ![g] = <<>>] /\ adj' = [adj EXCEPT ![g] = <<>>]
      /\ live' = live \ {g} /\ UNCHANGED <<made, running>>
  BY DEF NavTypeInv, Delete
<1>2. graph'[g] = <<>> /\ adj'[g] = <<>>
  BY <1>1
<1>3. graph' \in [Graphs -> Seq(Vertices)] /\ adj' \in [Graphs -> Seq(Seq(Nat))]
  BY <1>1
<1>4. GraphOK(g)'
  BY <1>2 DEF GraphOK
<1>5. \A h \in Graphs \ {g} : GraphOK(h)'
  BY <1>1, KeptOK DEF NavTypeInv, GraphKept
<1> QED BY <1>1, <1>3, <1>4, <1>5 DEF NavTypeInv

\* The types hold at first,
LEMMA NavTypeInit == Init => NavTypeInv
<1> SUFFICES ASSUME Init PROVE NavTypeInv OBVIOUS
<1>1. \A h \in Graphs : graph[h] = <<>> /\ adj[h] = <<>>
  BY DEF Init
<1> QED BY <1>1, GraphAssumption DEF GraphAssumption, Init, NavTypeInv, GraphOK

\* and every step keeps them.
LEMMA NavTypeNext == NavTypeInv /\ [Next]_vars => NavTypeInv'
<1> SUFFICES ASSUME NavTypeInv, [Next]_vars PROVE NavTypeInv' OBVIOUS
<1>1. ASSUME NEW g \in Graphs, Create(g) PROVE NavTypeInv'
  <2>1. \A h \in Graphs : GraphOK(h)'
    BY <1>1, KeptOK DEF NavTypeInv, Create, GraphKept
  <2> QED BY <1>1, <2>1 DEF NavTypeInv, Create
<1>2. ASSUME NEW g \in Graphs, NEW id_0, NEW id_1, parse_vl_file(g) \/ A_star(g, id_0, id_1)
      PROVE  NavTypeInv'
  <2>1. \A h \in Graphs : GraphOK(h)'
    BY <1>2, KeptOK DEF NavTypeInv, parse_vl_file, A_star, GraphKept
  <2> QED BY <1>2, <2>1 DEF NavTypeInv, parse_vl_file, A_star
<1>3. CASE UNCHANGED vars
  <2>1. \A h \in Graphs : GraphOK(h)'
    BY <1>3, KeptOK DEF NavTypeInv, vars, GraphKept
  <2> QED BY <1>3, <2>1 DEF NavTypeInv, vars
<1> QED BY <1>1, <1>2, <1>3, AddVertexTypes, AddEdgeTypes, DeleteTypes DEF Next

----------------------------------------------------------------------------
(* Ids and places.                                                         *)

\* What a vertex holds.
LEMMA VertexParts ==
    \A v \in Vertices : v.at \in Points /\ v.id \in 0..(IdSpace - 1) /\ v.id \in Nat
BY GraphAssumption DEF GraphAssumption, Vertices

\* A place of a graph holds a vertex.
LEMMA VertexAt ==
    ASSUME NEW h \in Graphs, graph[h] \in Seq(Vertices), NEW p \in Places(h)
    PROVE  Vertex(h, p) \in Vertices
BY DEF Places, Vertex

\* The same of a function from places to ids.
Run(last, m, ids) ==
    /\ ids \in [0..last -> Int]
    /\ \A p \in 0..last : p <= ids[p] /\ ids[p] < m
    /\ \A p, q \in 0..last : p <= q => q - p <= ids[q] - ids[p]

\* One id more at the end.
Longer(n, m, ids, later) ==
    /\ later \in [0..n -> Int]
    /\ \A p \in 0..(n - 1) : later[p] = ids[p]
    /\ later[n] = m

\* An id above all others, at the end, is ahead of its place as well.
LEMMA LargestAhead ==
    ASSUME NEW n \in Nat, NEW m \in Nat, NEW ids, NEW later, Run(n - 1, m, ids), Longer(n, m, ids, later)
    PROVE  Run(n, m + 1, later)
<1>1. /\ ids \in [0..(n - 1) -> Int]
      /\ \A p \in 0..(n - 1) : p <= ids[p] /\ ids[p] < m
      /\ \A p, q \in 0..(n - 1) : p <= q => q - p <= ids[q] - ids[p]
  BY DEF Run
<1>2. later \in [0..n -> Int] /\ (\A p \in 0..(n - 1) : later[p] = ids[p]) /\ later[n] = m
  BY DEF Longer
<1>3. ASSUME NEW p \in 0..(n - 1) PROVE n - p <= m - ids[p]
  <2>1. n - 1 \in 0..(n - 1) /\ p <= n - 1
    OBVIOUS
  <2> PICK a \in Int, b \in Int : a = ids[p] /\ b = ids[n - 1]
    BY <1>1, <2>1
  <2>2. b < m /\ (n - 1) - p <= b - a
    BY <1>1, <2>1
  <2>3. n - p <= m - a
    BY <2>2
  <2> QED BY <2>3
<1>4. n <= m
  <2>1. CASE n = 0 BY <2>1
  <2>2. CASE n > 0
    <3>1. n - 1 <= ids[n - 1] /\ ids[n - 1] < m /\ ids[n - 1] \in Int
      BY <1>1, <2>2
    <3> QED BY <3>1
  <2> QED BY <2>1, <2>2
<1>5. ASSUME NEW p \in 0..n PROVE p <= later[p] /\ later[p] < m + 1
  <2>1. CASE p = n BY <1>2, <1>4, <2>1
  <2>2. CASE p < n
    <3>1. p \in 0..(n - 1) /\ later[p] = ids[p] /\ ids[p] \in Int
      BY <1>1, <1>2, <2>2
    <3> QED BY <1>1, <3>1
  <2> QED BY <2>1, <2>2
<1>6. ASSUME NEW p \in 0..n, NEW q \in 0..n, p <= q PROVE q - p <= later[q] - later[p]
  <2>1. CASE q < n
    <3>1. p \in 0..(n - 1) /\ q \in 0..(n - 1)
      BY <1>6, <2>1
    <3> QED BY <1>1, <1>2, <1>6, <3>1
  <2>2. CASE q = n /\ p < n
    <3>1. p \in 0..(n - 1)
      BY <2>2
    <3> QED BY <1>2, <1>3, <2>2, <3>1
  <2>3. CASE q = n /\ p = n BY <1>2, <2>3
  <2> QED BY <1>6, <2>1, <2>2, <2>3
<1> QED BY <1>2, <1>5, <1>6 DEF Run

\* The graph that a vertex is added to: the id it gets is larger than those of
\* the graph, so there are no more vertices in the graph than were made.
LEMMA AddVertexAhead ==
    ASSUME NavInv, NEW g \in Graphs, NEW point \in Points, add_vertex(g, point), Unwrapped'
    PROVE  Ahead(g)' /\ \A h \in Graphs \ {g} : Ahead(h)'
<1>1. /\ made \in Nat /\ made' = made + 1 /\ made < IdSpace /\ IdSpace \in Nat \ {0}
      /\ graph \in [Graphs -> Seq(Vertices)]
      /\ graph' = [graph EXCEPT ![g] = Append(@, NextVertex(point))]
  BY GraphAssumption DEF NavInv, NavTypeInv, add_vertex, GraphAssumption, Unwrapped
<1>2. NextVertex(point) = [at |-> point, id |-> made]
  <2>1. \A m, n \in Nat : m < n => m % n = m
    OBVIOUS
  <2>2. made % IdSpace = made
    BY <1>1, <2>1
  <2> QED BY <2>2 DEF NextVertex, count
<1>3. \A h \in Graphs : Ahead(h)
  BY <1>1 DEF NavInv, IdsAhead, Unwrapped
<1>4. /\ graph'[g] = Append(graph[g], [at |-> point, id |-> made]) /\ graph[g] \in Seq(Vertices)
      /\ \A h \in Graphs \ {g} : graph'[h] = graph[h] /\ graph[h] \in Seq(Vertices)
  BY <1>1, <1>2
<1>5. ASSUME NEW h \in Graphs \ {g} PROVE Ahead(h)'
  <2> PICK ids : ids = [p \in Places(h) |-> Vertex(h, p).id]
    OBVIOUS
  <2>1. ids \in [Places(h) -> Int] /\ \A p \in Places(h) : Vertex(h, p).id = ids[p]
    <3>1. \A p \in Places(h) : Vertex(h, p) \in Vertices
      BY <1>4, VertexAt
    <3> QED BY <3>1, VertexParts
  <2>2. Places(h)' = Places(h) /\ \A p \in Places(h) : Vertex(h, p)' = Vertex(h, p)
    BY <1>4 DEF Places, Vertex
  <2>3. /\ \A p \in Places(h) : p <= ids[p] /\ ids[p] < made
        /\ \A p, q \in Places(h) : p <= q => q - p <= ids[q] - ids[p]
    BY <1>3, <2>1 DEF Ahead
  <2>4. \A p \in Places(h) : p <= ids[p] /\ ids[p] < made'
    BY <1>1, <2>1, <2>3
  <2> QED BY <2>1, <2>2, <2>3, <2>4 DEF Ahead
<1>6. PICK n \in Nat : n = Len(graph[g])
  BY <1>4
<1>7. /\ Places(g) = 0..(n - 1) /\ Places(g)' = 0..n
      /\ \A p \in 0..(n - 1) : Vertex(g, p)' = Vertex(g, p) /\ Vertex(g, p).id \in Int
      /\ Vertex(g, n)'.id = made
  <2>1. Len(graph'[g]) = n + 1 /\ graph'[g][n + 1] = [at |-> point, id |-> made]
    BY <1>4, <1>6, AppendProperties
  <2>2. \A p \in 0..(n - 1) : graph'[g][p + 1] = graph[g][p + 1] /\ graph[g][p + 1] \in Vertices
    <3>1. \A p \in 0..(n - 1) : p + 1 \in 1..Len(graph[g])
      BY <1>6
    <3> QED BY <1>4, <3>1, AppendProperties
  <2>3. Places(g) = 0..(n - 1) /\ Places(g)' = 0..n
    BY <1>6, <2>1 DEF Places
  <2>4. \A p \in 0..(n - 1) : Vertex(g, p)' = Vertex(g, p) /\ Vertex(g, p).id \in Int
    BY <2>2, VertexParts DEF Vertex
  <2>5. Vertex(g, n)'.id = made
    BY <2>1 DEF Vertex
  <2> QED BY <2>3, <2>4, <2>5
<1> PICK ids : ids = [p \in 0..(n - 1) |-> Vertex(g, p).id]
  OBVIOUS
<1>8. ids \in [0..(n - 1) -> Int] /\ \A p \in 0..(n - 1) : Vertex(g, p).id = ids[p]
  BY <1>7
<1> PICK later : later = [p \in 0..n |-> Vertex(g, p)'.id]
  OBVIOUS
<1>9. later \in [0..n -> Int] /\ \A p \in 0..n : Vertex(g, p)'.id = later[p]
  <2>1. \A p \in 0..n : Vertex(g, p)'.id \in Int
    BY <1>1, <1>7
  <2> QED BY <2>1
<1>10. Run(n - 1, made, ids)
  BY <1>3, <1>7, <1>8 DEF Ahead, Run
<1>11. (\A p \in 0..(n - 1) : later[p] = ids[p]) /\ later[n] = made
  BY <1>7, <1>8, <1>9
<1>12. Run(n, made + 1, later)
  <2>1. Longer(n, made, ids, later)
    BY <1>9, <1>11 DEF Longer
  <2> QED BY <1>1, <1>10, <2>1, LargestAhead
<1>13. Ahead(g)'
  BY <1>1, <1>7, <1>9, <1>12 DEF Ahead, Run
<1> QED BY <1>5, <1>13

\* A step that makes no vertex leaves a graph as it is or empties it.
LEMMA OtherStepsAhead ==
    ASSUME NavInv, NEW h \in Graphs, made' = made, graph'[h] = graph[h] \/ graph'[h] = <<>>, Unwrapped'
    PROVE  Ahead(h)'
<1>1. Ahead(h)
  BY DEF NavInv, IdsAhead, Unwrapped
<1>2. CASE graph'[h] = graph[h]
  BY <1>1, <1>2 DEF Ahead, Places, Vertex
<1>3. CASE graph'[h] = <<>>
  <2>1. Places(h)' = {}
    BY <1>3 DEF Places
  <2> QED BY <2>1 DEF Ahead
<1> QED BY <1>2, <1>3

\* The ids run ahead after every step.
LEMMA AheadNext == NavInv /\ [Next]_vars => IdsAhead'
<1> SUFFICES ASSUME NavInv, [Next]_vars, Unwrapped', NEW h \in Graphs PROVE Ahead(h)'
  BY DEF IdsAhead
<1>1. ASSUME NEW g \in Graphs, NEW point \in Points, add_vertex(g, point) PROVE Ahead(h)'
  BY <1>1, AddVertexAhead
<1>2. ASSUME NEW g \in Graphs, NEW p, NEW q,
             \/ Create(g) \/ parse_vl_file(g) \/ add_edge(g, p, q) \/ A_star(g, p, q)
      PROVE  Ahead(h)'
  BY <1>2, OtherStepsAhead DEF Create, parse_vl_file, add_edge, A_star
<1>3. ASSUME NEW g \in Graphs, Delete(g) PROVE Ahead(h)'
  <2>1. made' = made /\ (graph'[h] = graph[h] \/ graph'[h] = <<>>)
    BY <1>3 DEF Delete, NavInv, NavTypeInv
  <2> QED BY <2>1, OtherStepsAhead
<1>4. CASE UNCHANGED vars
  BY <1>4, OtherStepsAhead DEF vars
<1> QED BY <1>1, <1>2, <1>3, <1>4 DEF Next

\* The type invariant of the graphs: the lists of the neighbours hold places of
\* their own graph, through every edge and every deletion (Graph.cxx:28-60).
THEOREM NavTypeCorrect == Spec => []TypeOK
<1>1. Init => NavTypeInv
  BY NavTypeInit
<1>2. NavTypeInv /\ [Next]_vars => NavTypeInv'
  BY NavTypeNext
<1> QED BY <1>1, <1>2, TypesHold, PTL DEF Spec

\* Types and ids together (Graph.cxx:34-45 and Vertex.cxx:3-7).
THEOREM NavInvariant == Spec => []NavInv
<1>1. Init => NavInv
  <2>1. ASSUME Init, NEW g \in Graphs PROVE Ahead(g)
    BY <2>1 DEF Init, Ahead, Places
  <2> QED BY <2>1, NavTypeInit DEF NavInv, IdsAhead
<1>2. NavInv /\ [Next]_vars => NavInv'
  BY NavTypeNext, AheadNext DEF NavInv
<1> QED BY <1>1, <1>2, PTL DEF Spec

----------------------------------------------------------------------------
(* The square root and the loop of the searches.                           *)

\* A nonempty set of naturals has a least element.
LEMMA LeastNatural ==
    ASSUME NEW S, S \subseteq Nat, S # {}
    PROVE  \E x \in S : \A y \in S : x <= y
<1>1. PICK x \in S : \A y \in S : ~ (<<y, x>> \in OpToRel(<, Nat))
  BY NatLessThanWellFounded, WFMin
<1>2. \A y, z \in Nat : y < z => <<y, z>> \in OpToRel(<, Nat)
  <2>1. OpToRel(<, Nat) = {ss \in Nat \X Nat : ss[1] < ss[2]}
    BY DEF OpToRel
  <2>2. \A y, z \in Nat : y < z => <<y, z>> \in {ss \in Nat \X Nat : ss[1] < ss[2]}
    OBVIOUS
  <2> QED BY <2>1, <2>2, Zenon
<1>3. \A y \in S : x <= y
  <2>1. \A y \in S : ~ (y < x)
    BY <1>1, <1>2, Zenon
  <2> QED BY <2>1
<1> QED BY <1>3

\* The square root of every sum exists, and is what the cut leaves of it.
LEMMA RootIs ==
    ASSUME NEW n \in Nat
    PROVE  Root(n) \in 0..n /\ Root(n) * Root(n) <= n /\ n < (Root(n) + 1) * (Root(n) + 1)
<1> PICK S : S = {r \in Nat : n < (r + 1) * (r + 1)}
  OBVIOUS
<1>1. n \in S
  <2>1. (n + 1) * (n + 1) = n * n + 2 * n + 1 /\ n * n \in Nat
    OBVIOUS
  <2>2. n < (n + 1) * (n + 1)
    BY <2>1
  <2> QED BY <2>2
<1>2. PICK r \in S : \A y \in S : r <= y
  <2>1. S \subseteq Nat /\ S # {}
    BY <1>1
  <2> QED BY <2>1, LeastNatural
<1>3. r \in 0..n /\ n < (r + 1) * (r + 1)
  BY <1>1, <1>2
<1>4. r * r <= n
  <2>1. CASE r = 0
    BY <2>1
  <2>2. CASE r > 0
    <3>1. r - 1 \in Nat /\ r - 1 \notin S
      BY <1>2, <1>3, <2>2
    <3>2. ~ (n < ((r - 1) + 1) * ((r - 1) + 1))
      BY <3>1
    <3>3. (r - 1) + 1 = r /\ r * r \in Nat
      BY <1>3
    <3> QED BY <3>2, <3>3
  <2> QED BY <1>3, <2>1, <2>2
<1> QED BY <1>3, <1>4 DEF Root

\* The largest int.
LEMMA IntMaxIs == INT_MAX \in Nat /\ INT_MAX >= 2
BY SMT DEF INT_MAX

\* The distance of two points is below INT_MAX.
LEMMA RootSmall ==
    ASSUME NEW n \in 0..INT_MAX PROVE Root(n) \in 0..(INT_MAX - 1)
<1>1. Root(n) \in 0..n /\ Root(n) * Root(n) <= n
  BY RootIs, IntMaxIs
<1>2. INT_MAX \in Nat /\ 2 * INT_MAX > INT_MAX /\ INT_MAX >= 2
  BY IntMaxIs
<1>3. Root(n) < 2 \/ 2 * Root(n) <= Root(n) * Root(n)
  <2>1. \A r \in Nat : r < 2 \/ 2 * r <= r * r
    OBVIOUS
  <2> QED BY <1>1, <2>1
<1> QED BY <1>1, <1>2, <1>3

\* What the loop found after the first k turns.
Turns(best, found, start, k) ==
    best = [i \in 0..k |-> IF i = 0 THEN [min |-> INT_MAX, id |-> start]
                           ELSE Closer(best[i - 1], found[i].id, found[i].distance)]

\* The turns define what is found, however many there are.
LEMMA TurnsExist ==
    ASSUME NEW found, NEW start, NEW n \in Nat
    PROVE  \E best : Turns(best, found, start, n)
<1> PICK S : S = {k \in Nat : ~ \E best : Turns(best, found, start, k)}
  OBVIOUS
<1>1. SUFFICES ASSUME S # {} PROVE FALSE
  OBVIOUS
<1>2. PICK k \in S : \A y \in S : k <= y
  BY <1>1, LeastNatural
<1>3. k # 0
  <2> PICK best : best = [i \in 0..0 |-> [min |-> INT_MAX, id |-> start]]
    OBVIOUS
  <2>1. Turns(best, found, start, 0)
    BY DEF Turns
  <2> QED BY <1>2, <2>1
<1>4. PICK before : Turns(before, found, start, k - 1)
  <2>1. k - 1 \in Nat /\ k - 1 \notin S
    BY <1>2, <1>3
  <2> QED BY <2>1
<1> PICK best : best = [i \in 0..k |-> IF i = k THEN Closer(before[k - 1], found[k].id, found[k].distance)
                                       ELSE before[i]]
  OBVIOUS
<1>5. \A i \in 0..(k - 1) :
         best[i] = IF i = 0 THEN [min |-> INT_MAX, id |-> start]
                   ELSE Closer(before[i - 1], found[i].id, found[i].distance)
  BY <1>2, <1>4 DEF Turns
<1>6. \A i \in 0..(k - 1) : best[i] = before[i]
  BY <1>2
<1>7. best[k] = Closer(best[k - 1], found[k].id, found[k].distance)
  BY <1>2, <1>3, <1>6
<1>8. Turns(best, found, start, k)
  <2>1. ASSUME NEW i \in 0..k
        PROVE  best[i] = IF i = 0 THEN [min |-> INT_MAX, id |-> start]
                         ELSE Closer(best[i - 1], found[i].id, found[i].distance)
    <3>1. CASE i = k
      BY <1>3, <1>7, <3>1
    <3>2. CASE i = 0
      <4>1. 0 \in 0..(k - 1)
        BY <1>2, <1>3
      <4>2. best[0] = [min |-> INT_MAX, id |-> start]
        BY <1>5, <4>1
      <4> QED BY <3>2, <4>2
    <3>3. CASE i # k /\ i # 0
      <4>1. i \in 0..(k - 1) /\ i - 1 \in 0..(k - 1)
        BY <1>2, <3>3
      <4>2. best[i] = Closer(before[i - 1], found[i].id, found[i].distance)
        BY <1>5, <3>3, <4>1
      <4> QED BY <1>6, <3>3, <4>1, <4>2
    <3> QED BY <3>1, <3>2, <3>3
  <2>2. best = [i \in 0..k |-> best[i]]
    OBVIOUS
  <2> QED BY <2>1, <2>2, Zenon DEF Turns
<1> QED BY <1>2, <1>8

\* Vertices and distances of a search: a distance is that of two points, or the
\* look-up throws.
FoundOK(found) ==
    /\ Len(found) \in Nat
    /\ \A i \in 1..Len(found) :
         /\ found[i].id \in Nat
         /\ found[i].distance \in Int
         /\ found[i].distance # Throws => found[i].distance < INT_MAX

\* No look-up of the first k throws.
NoneThrows(found, k) == \A i \in 1..k : found[i].distance # Throws

\* Of the first k, number i is as near as any.
NearestOf(found, k, i) == i \in 1..k /\ \A j \in 1..k : found[i].distance <= found[j].distance

\* What the variables of the loop hold after k turns.
HeldAfter(b, found, start, k) ==
    /\ b \in [min : Int, id : Int]
    /\ ~NoneThrows(found, k) => b.id = Throws
    /\ NoneThrows(found, k) =>
         \/ k = 0 /\ b = [min |-> INT_MAX, id |-> start]
         \/ \E i \in 1..k : /\ NearestOf(found, k, i)
                            /\ b = [min |-> found[i].distance, id |-> found[i].id]

\* One turn (Graph.cxx:168-180).
LEMMA OneTurn ==
    ASSUME NEW found, NEW start \in Nat, FoundOK(found), NEW k \in 1..Len(found),
           NEW b, HeldAfter(b, found, start, k - 1)
    PROVE  HeldAfter(Closer(b, found[k].id, found[k].distance), found, start, k)
<1> PICK id, distance : id = found[k].id /\ distance = found[k].distance
  OBVIOUS
<1> PICK c : c = Closer(b, id, distance)
  OBVIOUS
<1>1. /\ id \in Nat /\ distance \in Int /\ (distance # Throws => distance < INT_MAX)
      /\ k \in Nat \ {0} /\ k - 1 \in Nat /\ INT_MAX \in Nat /\ Throws \in Int /\ Throws \notin Nat
  BY IntMaxIs, SMT DEF FoundOK, Throws
<1>2. b \in [min : Int, id : Int] /\ b.min \in Int /\ b.id \in Int
  BY DEF HeldAfter
<1>3. c \in [min : Int, id : Int]
  BY <1>1, <1>2 DEF Closer
<1>4. NoneThrows(found, k) <=> NoneThrows(found, k - 1) /\ distance # Throws
  <2>1. \A i \in 1..k : i = k \/ i \in 1..(k - 1)
    BY <1>1
  <2>2. k \in 1..k /\ \A i \in 1..(k - 1) : i \in 1..k
    BY <1>1
  <2> QED BY <2>1, <2>2 DEF NoneThrows
<1>5. CASE ~NoneThrows(found, k)
  <2>1. b.id = Throws \/ distance = Throws
    BY <1>4, <1>5 DEF HeldAfter
  <2>2. c.id = Throws
    BY <1>2, <2>1 DEF Closer
  <2> QED BY <1>3, <1>5, <2>2 DEF HeldAfter
<1>6. CASE NoneThrows(found, k) /\ k = 1
  <2>1. b = [min |-> INT_MAX, id |-> start]
    <3>1. \A i : i \notin 1..0
      OBVIOUS
    <3> QED BY <1>4, <1>6, <3>1 DEF HeldAfter
  <2>2. c = [min |-> distance, id |-> id]
    BY <1>1, <1>4, <1>6, <2>1 DEF Closer
  <2>3. NearestOf(found, k, k)
    BY <1>1, <1>6 DEF NearestOf
  <2> QED BY <1>1, <1>3, <1>6, <2>2, <2>3 DEF HeldAfter
<1>7. CASE NoneThrows(found, k) /\ k # 1
  <2>1. PICK i \in 1..(k - 1) : /\ NearestOf(found, k - 1, i)
                                /\ b = [min |-> found[i].distance, id |-> found[i].id]
    BY <1>1, <1>4, <1>7 DEF HeldAfter
  <2>2. /\ i \in 1..Len(found) /\ found[i].id \in Nat /\ found[i].distance \in Int
        /\ i \in 1..k /\ k \in 1..k
        /\ \A j \in 1..(k - 1) : found[i].distance <= found[j].distance /\ found[j].distance \in Int
        /\ \A j \in 1..k : j = k \/ j \in 1..(k - 1)
    BY <1>1, <2>1 DEF NearestOf, FoundOK
  <2>3. b.id # Throws /\ distance # Throws
    BY <1>1, <1>4, <1>7, <2>1, <2>2
  <2>4. CASE distance < found[i].distance
    <3>1. c = [min |-> distance, id |-> id]
      BY <2>1, <2>3, <2>4 DEF Closer
    <3>2. ASSUME NEW j \in 1..(k - 1) PROVE distance <= found[j].distance
      <4> PICK e \in Int, f \in Int : e = found[i].distance /\ f = found[j].distance
        BY <2>2
      <4>1. distance < e /\ e <= f
        BY <2>2, <2>4
      <4>2. distance <= f
        BY <1>1, <4>1
      <4> QED BY <4>2
    <3>3. \A j \in 1..k : found[k].distance <= found[j].distance
      BY <1>1, <2>2, <3>2
    <3>4. NearestOf(found, k, k)
      BY <2>2, <3>3 DEF NearestOf
    <3> QED BY <1>3, <1>7, <2>2, <3>1, <3>4 DEF HeldAfter
  <2>5. CASE ~(distance < found[i].distance)
    <3>1. c = b
      BY <2>1, <2>3, <2>5 DEF Closer
    <3>2. ASSUME NEW j \in 1..k PROVE found[i].distance <= found[j].distance
      <4>1. CASE j \in 1..(k - 1)
        BY <2>2, <4>1
      <4>2. CASE j = k
        BY <1>1, <2>2, <2>5, <4>2
      <4> QED BY <2>2, <4>1, <4>2
    <3>3. NearestOf(found, k, i)
      BY <2>2, <3>2 DEF NearestOf
    <3> QED BY <1>3, <1>7, <2>1, <2>2, <3>1, <3>3 DEF HeldAfter
  <2> QED BY <2>4, <2>5
<1> QED BY <1>5, <1>6, <1>7

\* The whole loop: it throws when a look-up does, and finds a nearest vertex
\* otherwise, or keeps the one it began with when there is none to look at.
LEMMA ClosestFound ==
    ASSUME NEW found, NEW start \in Nat, FoundOK(found)
    PROVE  /\ ~NoneThrows(found, Len(found)) => Closest(found, start) = Throws
           /\ NoneThrows(found, Len(found)) =>
                \/ Len(found) = 0 /\ Closest(found, start) = start
                \/ \E i \in 1..Len(found) : /\ NearestOf(found, Len(found), i)
                                            /\ Closest(found, start) = found[i].id
<1> PICK n \in Nat : n = Len(found)
  BY DEF FoundOK
<1>1. PICK best : Turns(best, found, start, n) /\ Closest(found, start) = best[n].id
  <2>1. PICK best : best = CHOOSE b : Turns(b, found, start, n)
    OBVIOUS
  <2>2. Turns(best, found, start, n)
    BY <2>1, TurnsExist
  <2>3. Closest(found, start) = best[n].id
    BY <2>1, Zenon DEF Closest, Turns
  <2> QED BY <2>2, <2>3
<1> PICK S : S = {k \in 0..n : ~HeldAfter(best[k], found, start, k)}
  OBVIOUS
<1>2. S = {}
  <2> SUFFICES ASSUME S # {} PROVE FALSE
    OBVIOUS
  <2>1. PICK k \in S : \A y \in S : k <= y
    <3>1. S \subseteq Nat
      OBVIOUS
    <3> QED BY <3>1, LeastNatural
  <2>2. k # 0
    <3>1. best[0] = [min |-> INT_MAX, id |-> start]
      BY <1>1 DEF Turns
    <3>2. NoneThrows(found, 0)
      BY DEF NoneThrows
    <3>3. HeldAfter(best[0], found, start, 0)
      BY <3>1, <3>2, IntMaxIs DEF HeldAfter
    <3> QED BY <2>1, <3>3
  <2>3. /\ k \in 1..n /\ k - 1 \in 0..n /\ HeldAfter(best[k - 1], found, start, k - 1)
        /\ ~HeldAfter(best[k], found, start, k)
    <3>1. k \in 1..n /\ k - 1 \in 0..n /\ k - 1 \notin S
      BY <2>1, <2>2
    <3> QED BY <2>1, <3>1
  <2>4. best[k] = Closer(best[k - 1], found[k].id, found[k].distance)
    <3>1. k \in 0..n /\ k # 0
      BY <2>3
    <3> QED BY <1>1, <3>1 DEF Turns
  <2> QED BY <2>3, <2>4, OneTurn
<1>3. HeldAfter(best[n], found, start, n)
  <2>1. n \in 0..n
    OBVIOUS
  <2> QED BY <1>2, <2>1
<1>4. ~NoneThrows(found, n) => best[n].id = Throws
  BY <1>3 DEF HeldAfter
<1>5. NoneThrows(found, n) =>
        \/ n = 0 /\ best[n].id = start
        \/ \E i \in 1..n : NearestOf(found, n, i) /\ best[n].id = found[i].id
  <2> SUFFICES ASSUME NoneThrows(found, n), n # 0 \/ best[n].id # start
               PROVE  \E i \in 1..n : NearestOf(found, n, i) /\ best[n].id = found[i].id
    OBVIOUS
  <2>1. PICK i \in 1..n : /\ NearestOf(found, n, i)
                          /\ best[n] = [min |-> found[i].distance, id |-> found[i].id]
    BY <1>3 DEF HeldAfter
  <2> QED BY <2>1
<1> QED BY <1>1, <1>4, <1>5

----------------------------------------------------------------------------
(* What the searches answer.                                               *)

\* The cut of the square root hides less than a unit.
LEMMA CutHidesUnit ==
    ASSUME NEW near \in Nat, NEW far \in Nat, NEW r \in Nat, NEW s \in Nat,
           r <= s, s * s <= near, far < (r + 1) * (r + 1),
           far - near - 1 >= 0
    PROVE  ~ ((far - near - 1) * (far - near - 1) >= 4 * near)
<1> PICK d \in Nat : d = far - near - 1
  OBVIOUS
<1>1. (r + 1) * (r + 1) <= (s + 1) * (s + 1)
  OBVIOUS
<1>2. (s + 1) * (s + 1) = s * s + 2 * s + 1 /\ s * s \in Nat /\ (r + 1) * (r + 1) \in Nat
  OBVIOUS
<1>3. d < 2 * s
  BY <1>1, <1>2
<1>4. d * d <= d * (2 * s) /\ d * (2 * s) < (2 * s) * (2 * s)
  BY <1>3
<1>5. (2 * s) * (2 * s) = 4 * (s * s) /\ d * d \in Nat /\ d * (2 * s) \in Nat
  OBVIOUS
<1> QED BY <1>2, <1>4, <1>5

\* A vertex whose distance is not greater is not a unit farther.
LEMMA NotFarther ==
    ASSUME NEW a \in Vertices, NEW b \in Vertices, NEW point \in Points,
           Root(Square(b.at, point)) <= Root(Square(a.at, point))
    PROVE  ~UnitNearer(a, b, point)
<1>1. Square(a.at, point) \in Nat /\ Square(b.at, point) \in Nat
  BY CoordinatesSmall, VertexParts, IntMaxIs DEF CoordinatesSmall
<1> PICK near \in Nat, far \in Nat : near = Square(a.at, point) /\ far = Square(b.at, point)
  BY <1>1
<1> PICK r \in Nat, s \in Nat : r = Root(far) /\ s = Root(near)
  BY RootIs
<1>2. r <= s /\ s * s <= near /\ far < (r + 1) * (r + 1)
  BY RootIs
<1>3. far - near - 1 >= 0 => ~ ((far - near - 1) * (far - near - 1) >= 4 * near)
  BY <1>2, CutHidesUnit
<1> QED BY <1>3, Zenon DEF UnitNearer

\* The distance of a vertex and a position, when the look-up does not throw.
LEMMA DistanceIs ==
    ASSUME NavTypeInv, NEW g \in Graphs, NEW id, NEW point \in Points
    PROVE  /\ InRange(g, id) =>
                /\ get_distance(g, id, point) = Root(Square(Vertex(g, id).at, point))
                /\ get_distance(g, id, point) \in 0..(INT_MAX - 1)
           /\ ~InRange(g, id) => get_distance(g, id, point) = Throws
<1>1. ASSUME InRange(g, id) PROVE Root(Square(Vertex(g, id).at, point)) \in 0..(INT_MAX - 1)
  <2>1. Vertex(g, id) \in Vertices
    BY <1>1, VertexAt DEF InRange, NavTypeInv
  <2>2. Square(Vertex(g, id).at, point) \in 0..INT_MAX
    BY <2>1, CoordinatesSmall, VertexParts DEF CoordinatesSmall
  <2> QED BY <2>2, RootSmall
<1> QED BY <1>1 DEF get_distance

\* A distance is no exception.
LEMMA DistanceSound ==
    ASSUME NavTypeInv, NEW g \in Graphs, NEW id, NEW point \in Points
    PROVE  /\ get_distance(g, id, point) \in Int
           /\ get_distance(g, id, point) < INT_MAX
           /\ InRange(g, id) <=> get_distance(g, id, point) # Throws
<1>1. INT_MAX \in Nat /\ Throws \in Int /\ Throws < INT_MAX /\ Throws \notin 0..(INT_MAX - 1)
  BY IntMaxIs, SMT DEF Throws
<1> QED BY <1>1, DistanceIs

\* What a search for a position looks at.
Found(g, point) ==
    [i \in 1..Len(graph[g]) |->
       [id |-> graph[g][i].id, distance |-> get_distance(g, graph[g][i].id, point)]]

\* The search goes through the vertices in the order of their places.
LEMMA FoundIs ==
    ASSUME NavTypeInv, NEW g \in Graphs, NEW point \in Points
    PROVE  /\ get_closest_vertex_to(g, point) = Closest(Found(g, point), 0)
           /\ FoundOK(Found(g, point)) /\ Len(Found(g, point)) = Len(graph[g])
           /\ Len(graph[g]) \in Nat
           /\ \A p \in Places(g) :
                /\ p + 1 \in 1..Len(graph[g])
                /\ Found(g, point)[p + 1].id = Vertex(g, p).id
                /\ Found(g, point)[p + 1].distance = get_distance(g, Vertex(g, p).id, point)
<1>1. graph[g] \in Seq(Vertices) /\ Len(graph[g]) \in Nat
  BY DEF NavTypeInv
<1>2. Len(Found(g, point)) = Len(graph[g])
  BY <1>1 DEF Found
<1>3. ASSUME NEW i \in 1..Len(graph[g])
      PROVE  /\ Found(g, point)[i].id = graph[g][i].id
             /\ Found(g, point)[i].distance = get_distance(g, graph[g][i].id, point)
  BY DEF Found
<1>4. \A i \in 1..Len(graph[g]) : graph[g][i].id \in Nat
  BY <1>1, VertexParts
<1>5. FoundOK(Found(g, point))
  BY <1>1, <1>2, <1>3, <1>4, DistanceSound DEF FoundOK
<1>6. \A p \in Places(g) :
         /\ p + 1 \in 1..Len(graph[g])
         /\ Found(g, point)[p + 1].id = Vertex(g, p).id
         /\ Found(g, point)[p + 1].distance = get_distance(g, Vertex(g, p).id, point)
  BY <1>1, <1>3 DEF Places, Vertex
<1>7. get_closest_vertex_to(g, point) = Closest(Found(g, point), 0)
  BY Zenon DEF get_closest_vertex_to, Found
<1> QED BY <1>1, <1>2, <1>5, <1>6, <1>7

\* No look-up throws exactly when the ids are the places: the id of the last
\* vertex is as far ahead as any.
LEMMA NoneThrowsWhenOwn ==
    ASSUME NavInv, Unwrapped, NEW g \in Graphs, NEW point \in Points
    PROVE  NoneThrows(Found(g, point), Len(graph[g])) <=> Own(g)
<1>1. NavTypeInv /\ Ahead(g)
  BY DEF NavInv, IdsAhead
<1>2. Len(graph[g]) \in Nat /\ graph[g] \in Seq(Vertices)
  BY <1>1 DEF NavTypeInv
<1>3. NoneThrows(Found(g, point), Len(graph[g])) <=> \A p \in Places(g) : InRange(g, Vertex(g, p).id)
  <2>1. \A p \in Places(g) :
           p + 1 \in 1..Len(graph[g])
           /\ (InRange(g, Vertex(g, p).id) <=> Found(g, point)[p + 1].distance # Throws)
    BY <1>1, FoundIs, DistanceSound
  <2>2. \A i \in 1..Len(graph[g]) : i - 1 \in Places(g) /\ (i - 1) + 1 = i
    BY <1>2 DEF Places
  <2> QED BY <2>1, <2>2 DEF NoneThrows
<1>4. Own(g) => \A p \in Places(g) : InRange(g, Vertex(g, p).id)
  BY DEF Own, InRange
<1>5. ASSUME \A p \in Places(g) : InRange(g, Vertex(g, p).id), NEW p \in Places(g)
      PROVE  Vertex(g, p).id = p
  <2> PICK last : last = Len(graph[g]) - 1
    OBVIOUS
  <2>1. last \in Places(g) /\ p <= last /\ last \in Nat /\ p \in Nat
    BY <1>2 DEF Places
  <2>2. /\ Vertex(g, p).id \in Nat /\ Vertex(g, last).id \in Nat /\ Vertex(g, last).id <= last
        /\ p <= Vertex(g, p).id /\ last - p <= Vertex(g, last).id - Vertex(g, p).id
    <3>1. Vertex(g, p).id \in Nat /\ Vertex(g, last).id \in Nat
      BY <1>2, <2>1, VertexAt, VertexParts
    <3>2. Vertex(g, last).id <= last
      BY <1>2, <1>5, <2>1 DEF InRange, Places
    <3> QED BY <1>1, <2>1, <3>1, <3>2 DEF Ahead
  <2> PICK a \in Nat, b \in Nat : a = Vertex(g, p).id /\ b = Vertex(g, last).id
    BY <2>2
  <2>3. b <= last /\ p <= a /\ last - p <= b - a
    BY <2>2
  <2>4. a = p
    BY <2>1, <2>3
  <2> QED BY <2>4
<1> QED BY <1>3, <1>4, <1>5 DEF Own

\* A question about a position is answered when the ids are the places.
LEMMA AnswersHold == NavInv => AnswersWhenOwn
<1> SUFFICES ASSUME NavInv, Unwrapped, NEW g \in live, NEW point \in Points, graph[g] # <<>>
             PROVE  get_closest_vertex_to(g, point) # Throws <=> Own(g)
  BY DEF AnswersWhenOwn
<1>1. g \in Graphs /\ NavTypeInv
  BY DEF NavInv, NavTypeInv
<1> PICK found : found = Found(g, point)
  OBVIOUS
<1>2. /\ FoundOK(found) /\ Len(found) = Len(graph[g]) /\ Len(graph[g]) # 0
      /\ get_closest_vertex_to(g, point) = Closest(found, 0)
  BY <1>1, FoundIs DEF NavTypeInv
<1>3. NoneThrows(found, Len(found)) => Closest(found, 0) # Throws
  <2>1. NoneThrows(found, Len(found)) => \E i \in 1..Len(found) : Closest(found, 0) = found[i].id
    BY <1>2, ClosestFound
  <2>2. \A i \in 1..Len(found) : found[i].id \in Nat
    BY <1>2 DEF FoundOK
  <2> QED BY <2>1, <2>2 DEF Throws
<1>4. ~NoneThrows(found, Len(found)) => Closest(found, 0) = Throws
  BY <1>2, ClosestFound
<1> QED BY <1>1, <1>2, <1>3, <1>4, NoneThrowsWhenOwn

\* What is found for a position is a nearest vertex.
LEMMA NearestHolds == NavInv => NearestFound
<1> SUFFICES ASSUME NavInv, Unwrapped, NEW g \in live, NEW point \in Points, graph[g] # <<>>,
                    get_closest_vertex_to(g, point) # Throws
             PROVE  LET id == get_closest_vertex_to(g, point)
                    IN  /\ InRange(g, id)
                        /\ \A p \in Places(g) : ~UnitNearer(Vertex(g, p), Vertex(g, id), point)
  BY DEF NearestFound
<1>1. g \in Graphs /\ NavTypeInv /\ graph[g] \in Seq(Vertices)
  BY DEF NavInv, NavTypeInv
<1>2. Own(g)
  BY AnswersHold DEF AnswersWhenOwn
<1> PICK found : found = Found(g, point)
  OBVIOUS
<1>3. /\ FoundOK(found) /\ Len(found) = Len(graph[g]) /\ Len(found) \in Nat \ {0}
      /\ get_closest_vertex_to(g, point) = Closest(found, 0)
      /\ \A p \in Places(g) : /\ p + 1 \in 1..Len(found) /\ found[p + 1].id = p
                              /\ found[p + 1].distance = get_distance(g, p, point)
  BY <1>1, <1>2, FoundIs DEF Own
<1>4. NoneThrows(found, Len(found))
  BY <1>1, <1>2, <1>3, NoneThrowsWhenOwn
<1>5. PICK i \in 1..Len(found) : NearestOf(found, Len(found), i) /\ Closest(found, 0) = found[i].id
  BY <1>3, <1>4, ClosestFound
<1> PICK id : id = i - 1
  OBVIOUS
<1>6. id \in Places(g) /\ get_closest_vertex_to(g, point) = id
  BY <1>3, <1>5 DEF Places
<1>7. ASSUME NEW p \in Places(g) PROVE ~UnitNearer(Vertex(g, p), Vertex(g, id), point)
  <2>1. get_distance(g, id, point) <= get_distance(g, p, point)
    <3>1. found[i].distance <= found[p + 1].distance
      BY <1>3, <1>5 DEF NearestOf
    <3>2. id + 1 = i
      OBVIOUS
    <3> QED BY <1>3, <1>6, <3>1, <3>2
  <2>2. Root(Square(Vertex(g, id).at, point)) <= Root(Square(Vertex(g, p).at, point))
    BY <1>1, <1>6, <2>1, DistanceIs DEF InRange
  <2> QED BY <1>1, <1>6, <2>2, VertexAt, NotFarther
<1> QED BY <1>6, <1>7 DEF InRange

\* What a search next to a vertex looks at.
FoundNear(g, p) ==
    [i \in 1..Len(Neighbours(g, p)) |->
       [id |-> Vertex(g, Neighbours(g, p)[i]).id,
        distance |-> get_distance_between(g, Vertex(g, Neighbours(g, p)[i]).id, Vertex(g, p).id)]]

\* When the ids are the places, it looks at the neighbours and their distances.
LEMMA FoundNearIs ==
    ASSUME NavTypeInv, NEW g \in Graphs, Own(g), NEW p \in Places(g)
    PROVE  /\ get_closest_vertex(g, p) = Closest(FoundNear(g, p), p)
           /\ FoundOK(FoundNear(g, p)) /\ Len(FoundNear(g, p)) = Len(Neighbours(g, p))
           /\ \A i \in 1..Len(Neighbours(g, p)) :
                /\ Neighbours(g, p)[i] \in Places(g)
                /\ FoundNear(g, p)[i].id = Neighbours(g, p)[i]
                /\ FoundNear(g, p)[i].distance = get_distance(g, Neighbours(g, p)[i], Vertex(g, p).at)
<1>1. Vertex(g, p).at \in Points /\ Vertex(g, p).id = p
  BY VertexAt, VertexParts DEF NavTypeInv, Own
<1>2. Neighbours(g, p) \in Seq(Places(g)) /\ Len(Neighbours(g, p)) \in Nat /\ Places(g) \subseteq Nat
  BY DEF NavTypeInv, GraphOK, Places, Neighbours
<1>3. Len(FoundNear(g, p)) = Len(Neighbours(g, p))
  BY <1>2 DEF FoundNear
<1>4. ASSUME NEW i \in 1..Len(Neighbours(g, p))
      PROVE  /\ Neighbours(g, p)[i] \in Places(g)
             /\ FoundNear(g, p)[i].id = Neighbours(g, p)[i]
             /\ FoundNear(g, p)[i].distance = get_distance(g, Neighbours(g, p)[i], Vertex(g, p).at)
  <2>1. Neighbours(g, p)[i] \in Places(g)
    BY <1>2
  <2>2. Vertex(g, Neighbours(g, p)[i]).id = Neighbours(g, p)[i]
    BY <2>1 DEF Own
  <2>3. FoundNear(g, p)[i] =
          [id |-> Neighbours(g, p)[i],
           distance |-> get_distance_between(g, Neighbours(g, p)[i], p)]
    BY <1>1, <2>2 DEF FoundNear
  <2>4. get_distance_between(g, Neighbours(g, p)[i], p)
          = get_distance(g, Neighbours(g, p)[i], Vertex(g, p).at)
    BY DEF get_distance_between, InRange
  <2> QED BY <2>1, <2>3, <2>4
<1>5. FoundOK(FoundNear(g, p))
  BY <1>1, <1>2, <1>3, <1>4, DistanceSound DEF FoundOK
<1>6. get_closest_vertex(g, p) = Closest(FoundNear(g, p), p)
  BY Zenon DEF get_closest_vertex, FoundNear, InRange
<1> QED BY <1>3, <1>4, <1>5, <1>6

\* What is found next to a vertex is a nearest neighbour.
LEMMA NeighbourHolds == NavTypeInv => NeighbourFound
<1> SUFFICES ASSUME NavTypeInv, NEW g \in live, Own(g), NEW p \in Places(g)
             PROVE  LET id == get_closest_vertex(g, p)
                    IN  IF Neighbours(g, p) = <<>> THEN id = p
                        ELSE /\ id \in Range(Neighbours(g, p))
                             /\ \A q \in Range(Neighbours(g, p)) :
                                  ~UnitNearer(Vertex(g, q), Vertex(g, id), Vertex(g, p).at)
  BY DEF NeighbourFound
<1>1. g \in Graphs /\ graph[g] \in Seq(Vertices) /\ Vertex(g, p).at \in Points /\ p \in Nat
  BY VertexAt, VertexParts DEF NavTypeInv, Places
<1> PICK near, found : near = Neighbours(g, p) /\ found = FoundNear(g, p)
  OBVIOUS
<1>2. near \in Seq(Places(g)) /\ Len(near) \in Nat /\ DOMAIN near = 1..Len(near)
  BY <1>1 DEF NavTypeInv, GraphOK, Places, Neighbours
<1>3. /\ FoundOK(found) /\ Len(found) = Len(near) /\ get_closest_vertex(g, p) = Closest(found, p)
      /\ \A i \in 1..Len(near) : /\ near[i] \in Places(g) /\ found[i].id = near[i]
                                 /\ found[i].distance = get_distance(g, near[i], Vertex(g, p).at)
  BY <1>1, FoundNearIs
<1>4. NoneThrows(found, Len(found))
  <2>1. \A i \in 1..Len(near) : found[i].distance # Throws
    BY <1>1, <1>3, DistanceSound DEF InRange
  <2> QED BY <1>3, <2>1 DEF NoneThrows
<1>5. CASE near = <<>>
  <2>1. Len(found) = 0
    BY <1>3, <1>5
  <2>2. ~ \E i \in 1..Len(found) : TRUE
    BY <2>1
  <2>3. Closest(found, p) = p
    BY <1>1, <1>3, <1>4, <2>2, ClosestFound
  <2> QED BY <1>3, <1>5, <2>3
<1>6. CASE near # <<>>
  <2>1. Len(found) # 0
    BY <1>2, <1>3, <1>6
  <2>2. PICK i \in 1..Len(found) : NearestOf(found, Len(found), i) /\ Closest(found, p) = found[i].id
    BY <1>1, <1>3, <1>4, <2>1, ClosestFound
  <2> PICK id : id = near[i]
    OBVIOUS
  <2>3. get_closest_vertex(g, p) = id /\ id \in Places(g) /\ id \in Range(near)
    BY <1>2, <1>3, <2>2 DEF Range
  <2>4. ASSUME NEW q \in Range(near) PROVE ~UnitNearer(Vertex(g, q), Vertex(g, id), Vertex(g, p).at)
    <3>1. PICK j \in 1..Len(near) : q = near[j]
      BY <1>2, <2>4 DEF Range
    <3>2. get_distance(g, id, Vertex(g, p).at) <= get_distance(g, q, Vertex(g, p).at)
      BY <1>3, <2>2, <3>1 DEF NearestOf
    <3>3. q \in Places(g)
      BY <1>3, <3>1
    <3>4. Root(Square(Vertex(g, id).at, Vertex(g, p).at)) <= Root(Square(Vertex(g, q).at, Vertex(g, p).at))
      BY <1>1, <2>3, <3>2, <3>3, DistanceIs DEF InRange
    <3> QED BY <1>1, <2>3, <3>3, <3>4, VertexAt, NotFarther
  <2> QED BY <1>6, <2>3, <2>4
<1> QED BY <1>5, <1>6

\* Until the counter wraps, a graph answers about a position exactly when its
\* ids are its places (Graph.cxx:34-45, 187-210 and Vertex.cxx:3-7), for any
\* graphs, points and ids, and any order of building and deleting.
THEOREM AnswersWhenOwnCorrect == Spec => []AnswersWhenOwn
BY NavInvariant, AnswersHold, PTL

\* Until the id counter wraps, the vertex found for a position is the nearest but for
\* less than a unit, for any points whose distances are ints (Graph.cxx:144-156, 187-210).
THEOREM NearestCorrect == Spec => []NearestFound
BY NavInvariant, NearestHolds, PTL

\* The vertex found next to a vertex is the nearest neighbour but for less than
\* a unit, when the ids are the places (Graph.cxx:158-185).
THEOREM NeighbourCorrect == Spec => []NeighbourFound
<1>1. NavInv => NeighbourFound
  BY NeighbourHolds DEF NavInv
<1> QED BY <1>1, NavInvariant, PTL

=============================================================================
