------------------------------ MODULE NavGraph ------------------------------
(***************************************************************************)
(* The navigation graph of the non-player characters: vertices and their   *)
(* neighbours in one vector, and a search for the vertex nearest to a      *)
(* vertex or a position.  A vertex takes its id from a counter that all    *)
(* graphs of the process share, and the id is used as an index into the    *)
(* vector of one graph.                                                    *)
(*                                                                         *)
(* Places in the vector are counted from 0, as in the code.  Coordinates   *)
(* are small: the sum of squares stays within an int.                      *)
(***************************************************************************)
EXTENDS Integers, Sequences, SequencesExt

CONSTANTS
    Graphs,      \* Graph objects of the process
    Points,      \* positions, <<x, y, z>>
    IdSpace,     \* ids before the counter wraps: 2^16 in the code
    MaxMade,     \* bound: vertices the process makes
    MaxEdges     \* bound: edges of a graph

ASSUME GraphAssumption ==
    /\ Points \subseteq Int \X Int \X Int /\ Points # {}
    /\ IdSpace \in Nat \ {0} /\ MaxMade \in Nat /\ MaxEdges \in Nat

VARIABLES
    made,        \* vertices constructed, in all graphs
    live,        \* the graphs that exist
    graph,       \* per graph: sequence of [at, id]
    adj,         \* per graph and place: the places of the neighbours
    running      \* FALSE once the process did something undefined

vars == <<made, live, graph, adj, running>>

\* Vertex::count, a uint16_t.
count == made % IdSpace

Init ==
    /\ made = 0 /\ live = {} /\ running = TRUE
    /\ graph = [g \in Graphs |-> <<>>] /\ adj = [g \in Graphs |-> <<>>]

Places(g) == 0..(Len(graph[g]) - 1)

\* graph->at(id) throws outside this.
InRange(g, id) == id \in Places(g)

Vertex(g, p) == graph[g][p + 1]

Neighbours(g, p) == adj[g][p + 1]

Ids(g) == {Vertex(g, p).id : p \in Places(g)}

----------------------------------------------------------------------------
(* Building.                                                               *)

\* Graph::Graph: an empty vector, or one read from files.  When the file of
\* vertices opens, the loop over its lines does not stop at the end of it and
\* reads through a pointer that was never set; otherwise the constructor throws.
Create(g) ==
    /\ running /\ g \notin live
    /\ live' = live \cup {g}
    /\ UNCHANGED <<made, graph, adj, running>>

parse_vl_file(g) ==
    /\ running /\ g \notin live
    /\ running' = FALSE
    /\ UNCHANGED <<made, live, graph, adj>>

\* ~Graph deletes the vector; the vertices and the counter stay.
Delete(g) ==
    /\ running /\ g \in live
    /\ live' = live \ {g}
    /\ graph' = [graph EXCEPT ![g] = <<>>] /\ adj' = [adj EXCEPT ![g] = <<>>]
    /\ UNCHANGED <<made, running>>

\* The variant that counts before it takes the id.
NextVertexCounted(point) == [at |-> point, id |-> (made + 1) % IdSpace]

NextVertex(point) == [at |-> point, id |-> count]

\* The variant that pushes the vertex without a list.
add_vertexAlone(g, point) ==
    /\ running /\ g \in live /\ made < MaxMade
    /\ made' = made + 1
    /\ graph' = [graph EXCEPT ![g] = Append(@, NextVertex(point))]
    /\ UNCHANGED <<adj, live, running>>

add_vertex(g, point) ==
    /\ running /\ g \in live /\ made < MaxMade
    /\ made' = made + 1
    /\ graph' = [graph EXCEPT ![g] = Append(@, NextVertex(point))]
    /\ adj' = [adj EXCEPT ![g] = Append(@, <<>>)]
    /\ UNCHANGED <<live, running>>

\* The lists after q was pushed on the list of p.
Pushed(lists, p, q) == [lists EXCEPT ![p + 1] = Append(@, q)]

Linked(g, p, q) == Pushed(Pushed(adj[g], p, q), q, p)

\* Entries in the lists, two for an edge.
Entries(g) == FoldLeft(LAMBDA n, list : n + Len(list), 0, adj[g])

\* The caller has the ids from add_vertex.  Out of range, at() throws and
\* nothing has changed.
add_edge(g, id_0, id_1) ==
    /\ running /\ g \in live /\ Entries(g) < 2 * MaxEdges
    /\ InRange(g, id_0) /\ InRange(g, id_1)
    /\ adj' = [adj EXCEPT ![g] = Linked(g, id_0, id_1)]
    /\ UNCHANGED <<made, live, graph, running>>

\* A_star looks both vertices up and ends without a result.
A_star(g, id_0, id_1) ==
    /\ running /\ g \in live
    /\ InRange(g, id_0) /\ InRange(g, id_1)
    /\ running' = FALSE
    /\ UNCHANGED <<made, live, graph, adj>>

Next ==
    \E g \in Graphs :
        \/ Create(g) \/ parse_vl_file(g) \/ Delete(g)
        \/ \E point \in Points : add_vertex(g, point)
        \/ \E id_0, id_1 \in Ids(g) : add_edge(g, id_0, id_1) \/ A_star(g, id_0, id_1)

Spec == Init /\ [][Next]_vars

----------------------------------------------------------------------------
(* Searching.  A result is an id, or -1 when at() throws.                  *)

Throws == -1
INT_MAX == 2147483647

Square(a, b) == (a[1] - b[1]) * (a[1] - b[1]) + (a[2] - b[2]) * (a[2] - b[2])
                + (a[3] - b[3]) * (a[3] - b[3])

\* The sum is an int.
ASSUME CoordinatesSmall == \A a, b \in Points : Square(a, b) \in 0..INT_MAX

\* The square root, cut to an int.
Root(n) == CHOOSE r \in 0..n : r * r <= n /\ n < (r + 1) * (r + 1)

get_distance(g, id, point) ==
    IF InRange(g, id) THEN Root(Square(Vertex(g, id).at, point)) ELSE Throws

\* The variant that reads both positions from one vertex.
DistanceToItself(g, id_0, id_1) ==
    IF InRange(g, id_1) THEN get_distance(g, id_1, Vertex(g, id_1).at) ELSE Throws

get_distance_between(g, id_0, id_1) ==
    IF InRange(g, id_1) THEN get_distance(g, id_0, Vertex(g, id_1).at) ELSE Throws

\* The variant that keeps the first distance as the least.
CloserFirst(best, id, distance) ==
    IF best.id = Throws \/ distance = Throws THEN [best EXCEPT !.id = Throws]
    ELSE IF distance < best.min /\ best.min = INT_MAX THEN [min |-> distance, id |-> id]
    ELSE IF distance < best.min THEN [best EXCEPT !.id = id] ELSE best

\* One turn of the loop.
Closer(best, id, distance) ==
    IF best.id = Throws \/ distance = Throws THEN [best EXCEPT !.id = Throws]
    ELSE IF distance < best.min THEN [min |-> distance, id |-> id] ELSE best

\* The loop over vertices and their distances, with the id to start from.
Closest(found, start) ==
    LET best[i \in 0..Len(found)] ==
            IF i = 0 THEN [min |-> INT_MAX, id |-> start]
            ELSE Closer(best[i - 1], found[i].id, found[i].distance)
    IN  best[Len(found)].id

\* Among the neighbours of a vertex; the vertex itself when it has none.
get_closest_vertex(g, vert_id) ==
    IF ~InRange(g, vert_id) THEN Throws
    ELSE LET near == Neighbours(g, vert_id)
             id(i) == Vertex(g, near[i]).id
         IN  Closest([i \in 1..Len(near) |->
                        [id |-> id(i),
                         distance |-> get_distance_between(g, id(i), Vertex(g, vert_id).id)]],
                     vert_id)

\* Among all vertices, of which there is one: with none the result is what the
\* variable happened to hold.
get_closest_vertex_to(g, point) ==
    Closest([i \in 1..Len(graph[g]) |->
               [id |-> graph[g][i].id, distance |-> get_distance(g, graph[g][i].id, point)]],
            0)

----------------------------------------------------------------------------

TypeOK ==
    /\ made \in 0..MaxMade /\ live \subseteq Graphs /\ running \in BOOLEAN
    /\ graph \in [Graphs -> Seq([at : Points, id : 0..(IdSpace - 1)])]
    /\ \A g \in Graphs :
         /\ g \notin live => graph[g] = <<>>
         /\ DOMAIN adj[g] = DOMAIN graph[g]
         /\ \A p \in Places(g) : Range(Neighbours(g, p)) \subseteq Places(g)

Unwrapped == made <= IdSpace

\* The ids of a graph are its places.
Own(g) == \A p \in Places(g) : Vertex(g, p).id = p

\* Until the counter wraps, a graph that was not the first to be given vertices
\* answers no question about a position (Graph.cxx:34-45, 187-210 and
\* Vertex.cxx:3-7): the look-up of its last vertex throws.  It never answers by
\* the place of another vertex.
AnswersWhenOwn ==
    Unwrapped => \A g \in live, point \in Points :
        graph[g] # <<>> => (get_closest_vertex_to(g, point) # Throws <=> Own(g))

\* Vertex a is nearer to the point than vertex b, by a unit or more.
UnitNearer(a, b, point) ==
    LET far == Square(b.at, point)
        near == Square(a.at, point)
    IN  far - near - 1 >= 0 /\ (far - near - 1) * (far - near - 1) >= 4 * near

\* Until the counter wraps, the vertex that is found for a position is the nearest
\* but for less than a unit, which the cut of the distance hides (Graph.cxx:144-156,
\* 187-210).  After that, ids repeat or name other places, and the answer may be
\* another vertex without a word.
NearestFound ==
    Unwrapped => \A g \in live, point \in Points :
        LET id == get_closest_vertex_to(g, point)
        IN  graph[g] # <<>> /\ id # Throws =>
                /\ InRange(g, id)
                /\ \A p \in Places(g) : ~UnitNearer(Vertex(g, p), Vertex(g, id), point)

\* In a graph whose ids are its places, the vertex found next to a vertex is a
\* neighbour, and the nearest but for less than a unit; a vertex without
\* neighbours finds itself (Graph.cxx:158-185).
NeighbourFound ==
    \A g \in live : Own(g) => \A p \in Places(g) :
        LET id == get_closest_vertex(g, p)
        IN  IF Neighbours(g, p) = <<>> THEN id = p
            ELSE /\ id \in Range(Neighbours(g, p))
                 /\ \A q \in Range(Neighbours(g, p)) :
                      ~UnitNearer(Vertex(g, q), Vertex(g, id), Vertex(g, p).at)

=============================================================================
