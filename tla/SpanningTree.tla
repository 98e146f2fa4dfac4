--------------------------- MODULE SpanningTree ---------------------------
(***************************************************************************)
(* internal/agent/mst.go, and the edges of topology.go: the spanning tree  *)
(* an agent computes from the edges it knows of, by Kruskal's algorithm    *)
(* over a union-find with path compression and union by rank.              *)
(*                                                                         *)
(* Nodes are overlay addresses; numbers stand for them, whose order is     *)
(* that of the strings.  All edges weigh the same, so the order of the     *)
(* edges decides which of them are taken.                                  *)
(***************************************************************************)
EXTENDS Integers, Sequences, SequencesExt

-----------------------------------------------------------------------------
\* An edge, its lesser end first, so that both directions give one edge.
newEdge(x, y) == IF x <= y THEN <<x, y>> ELSE <<y, x>>

\* The order of the two sort.Slice calls: by A, then by B.
Less(e, f) == e[1] < f[1] \/ (e[1] = f[1] /\ e[2] < f[2])

\* Where that order puts each edge.
Place(edges) == [e \in edges |-> Cardinality({f \in edges : ~Less(e, f)})]

Sorted(edges) == Inverse(Place(edges), edges, 1..Cardinality(edges))

-----------------------------------------------------------------------------
(***************************************************************************)
(* unionFind: parent and rank, two maps.  A rank that was never set is 0.  *)
(***************************************************************************)
newUnionFind(nodes) == [parent |-> [n \in nodes |-> n], rank |-> [n \in nodes |-> 0]]

\* find makes an unknown node its own root.
Known(uf, x) ==
  IF x \in DOMAIN uf.parent THEN uf
  ELSE [parent |-> [n \in DOMAIN uf.parent \cup {x} |-> IF n = x THEN x ELSE uf.parent[n]],
        rank   |-> [n \in DOMAIN uf.rank \cup {x} |-> IF n = x THEN 0 ELSE uf.rank[n]]]

\* From x upwards to its root.
Path(parent, x) ==
  LET path[y \in DOMAIN parent] == IF parent[y] = y THEN <<y>> ELSE <<y>> \o path[parent[y]]
  IN  path[x]

Root(parent, x) == Last(Path(parent, x))

\* find hangs every node of the path directly below the root.
Find(uf, x) ==
  LET u    == Known(uf, x)
      path == Path(u.parent, x)
  IN  [u EXCEPT !.parent = [n \in DOMAIN @ |-> IF n \in Range(path) THEN Last(path) ELSE @[n]]]

\* Mutated form of Union: the rank of the new root is never raised.
UnionUnranked(uf, a, b) ==
  LET u  == Find(Find(uf, a), b)
      ra == u.parent[a]
      rb == u.parent[b]
  IN  IF ra = rb THEN u ELSE [u EXCEPT !.parent[rb] = ra]

\* union: the root of lower rank below the other; a's root wins a tie and gains a rank.
Union(uf, a, b) ==
  LET u  == Find(Find(uf, a), b)
      ra == u.parent[a]
      rb == u.parent[b]
  IN  IF ra = rb THEN u
      ELSE IF u.rank[ra] < u.rank[rb] THEN [u EXCEPT !.parent[ra] = rb]
      ELSE [u EXCEPT !.parent[rb] = ra,
                     !.rank[ra] = IF @ = u.rank[rb] THEN @ + 1 ELSE @]

\* union returns TRUE.
Joins(uf, a, b) ==
  LET u == Find(Find(uf, a), b) IN u.parent[a] # u.parent[b]

-----------------------------------------------------------------------------
\* The loop of ComputeMST, one edge.
Take(acc, e) ==
  [uf  |-> Union(acc.uf, e[1], e[2]),
   mst |-> IF Joins(acc.uf, e[1], e[2]) THEN acc.mst \cup {e} ELSE acc.mst]

\* After each number of edges.
Loop(nodes, sorted) ==
  LET acc[i \in 0..Len(sorted)] ==
        IF i = 0 THEN [uf |-> newUnionFind(nodes), mst |-> {}] ELSE Take(acc[i - 1], sorted[i])
  IN  acc

Kruskal(nodes, edges) == LET sorted == Sorted(edges) IN Loop(nodes, sorted)[Len(sorted)]

ComputeMST(nodes, edges) == Kruskal(nodes, edges).mst

LocalNeighbors(me, mst) ==
  {e[2] : e \in {f \in mst : f[1] = me}} \cup {e[1] : e \in {f \in mst : f[2] = me /\ f[1] # me}}

-----------------------------------------------------------------------------
(***************************************************************************)
(* What it should compute, without a union-find: an edge belongs to the    *)
(* forest if the lesser edges do not connect its ends already.             *)
(***************************************************************************)
Ends(edges) == UNION {{e[1], e[2]} : e \in edges}

\* Some edge leaves every set of nodes that x is in and y is not.
Connected(edges, x, y) ==
  x = y \/ \A S \in SUBSET (Ends(edges) \ {x, y}) :
              \E e \in edges : (e[1] \in S \cup {x}) # (e[2] \in S \cup {x})

LeastForest(edges) ==
  {e \in edges : ~Connected({f \in edges : Less(f, e)}, e[1], e[2])}

(***************************************************************************)
(* The union-find after some edges: two nodes have one root just if the    *)
(* edges connect them, and ranks grow towards the roots, so that no path   *)
(* is longer than the logarithm of the number of nodes.                    *)
(***************************************************************************)
Sound(uf, edges) ==
  /\ \A x, y \in DOMAIN uf.parent :
       Root(uf.parent, x) = Root(uf.parent, y) <=> Connected(edges, x, y)
  /\ \A x \in DOMAIN uf.parent :
       uf.parent[x] # x => uf.rank[x] < uf.rank[uf.parent[x]]
=============================================================================
