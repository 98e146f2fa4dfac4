------------------------ MODULE SpanningTreeProofs ------------------------
(***************************************************************************)
(* ComputeMST computes the least spanning forest, for every finite set of  *)
(* edges.  Two recursive functions are in it: the path to a root, which is *)
(* well defined since ranks grow along it, and the loop over the edges.    *)
(***************************************************************************)
EXTENDS SpanningTree, SequenceTheorems, FiniteSetTheorems, TLAPS

-----------------------------------------------------------------------------
(***************************************************************************)
(* Recursion.                                                              *)
(***************************************************************************)
\* Induction, for a set: the least number outside T would have a predecessor outside T.
LEMMA NatSet ==
  ASSUME NEW T, 0 \in T, \A n \in T \cap Nat : n + 1 \in T
  PROVE  Nat \subseteq T
<1> SUFFICES ASSUME Nat \ T # {} PROVE FALSE
  OBVIOUS
<1>1. PICK m \in Nat \ T : \A k \in Nat \ T : <<k, m>> \notin OpToRel(<, Nat)
  <2>1. IsWellFoundedOn(OpToRel(<, Nat), Nat)
    BY NatLessThanWellFounded
  <2> QED
    BY <2>1, WFMin
<1>2. \A k \in Nat \ T : ~(k < m)
  BY <1>1 DEF OpToRel
<1>3. m # 0 /\ m - 1 \in T /\ m - 1 \in Nat
  BY <1>2
<1>4. (m - 1) + 1 \in T
  BY <1>3
<1> QED
  BY <1>4

\* The loop's function is what its definition says: the first k values exist for every k.
LEMMA LoopUnrolls ==
  ASSUME NEW nodes, NEW S, NEW sorted \in Seq(S)
  PROVE  /\ Loop(nodes, sorted)[0] = [uf |-> newUnionFind(nodes), mst |-> {}]
         /\ \A i \in 1..Len(sorted) :
              Loop(nodes, sorted)[i] = Take(Loop(nodes, sorted)[i - 1], sorted[i])
<1> DEFINE N == Len(sorted)
           Body(g, i) == IF i = 0 THEN [uf |-> newUnionFind(nodes), mst |-> {}]
                         ELSE Take(g[i - 1], sorted[i])
           T == {k \in Nat : \E g : \A i \in 0..N : i < k => g[i] = Body(g, i)}
           acc == CHOOSE acc : acc = [i \in 0..N |-> Body(acc, i)]
<1> N \in Nat
  BY LenProperties
<1>1. Loop(nodes, sorted) = acc
  BY DEF Loop
<1>2. 0 \in T
  OBVIOUS
<1> HIDE DEF Body
<1>3. ASSUME NEW k \in Nat, NEW g, \A i \in 0..N : i < k => g[i] = Body(g, i)
      PROVE  LET h == [i \in 0..N |-> Body(g, i)]
             IN  \A i \in 0..N : i < k + 1 => h[i] = Body(h, i)
  <2> DEFINE h == [i \in 0..N |-> Body(g, i)]
  <2> SUFFICES ASSUME NEW i \in 0..N, i < k + 1 PROVE h[i] = Body(h, i)
    OBVIOUS
  <2>1. CASE i = 0
    BY <2>1 DEF Body
  <2>2. CASE i # 0
    <3>1. i - 1 \in 0..N /\ i - 1 < k
      BY <2>2
    <3>2. h[i - 1] = g[i - 1]
      BY <1>3, <3>1
    <3> QED
      BY <2>2, <3>2 DEF Body
  <2> QED
    BY <2>1, <2>2
<1>4. ASSUME NEW k \in T \cap Nat PROVE k + 1 \in T
  <2>1. PICK g : \A i \in 0..N : i < k => g[i] = Body(g, i)
    OBVIOUS
  <2> DEFINE h == [i \in 0..N |-> Body(g, i)]
  <2>2. \A i \in 0..N : i < k + 1 => h[i] = Body(h, i)
    BY <1>3, <2>1
  <2> HIDE DEF h
  <2> QED
    BY <2>2
<1>5. N + 1 \in T
  BY <1>2, <1>4, NatSet
<1>6. \E h : h = [i \in 0..N |-> Body(h, i)]
  <2>1. PICK g : \A i \in 0..N : i < N + 1 => g[i] = Body(g, i)
    BY <1>5
  <2> DEFINE h == [i \in 0..N |-> Body(g, i)]
  <2>2. \A i \in 0..N : h[i] = Body(h, i)
    <3>1. \A i \in 0..N : i < (N + 1) + 1 => h[i] = Body(h, i)
      BY <1>3, <2>1
    <3> QED
      BY <3>1
  <2>3. h = [i \in 0..N |-> Body(h, i)]
    BY <2>2
  <2> QED
    BY <2>3
<1>7. acc = [i \in 0..N |-> Body(acc, i)]
  BY <1>6
<1> HIDE DEF acc
<1>8. acc[0] = Body(acc, 0)
  BY <1>7
<1>9. \A i \in 1..N : acc[i] = Body(acc, i)
  BY <1>7
<1> QED
  BY <1>1, <1>8, <1>9 DEF Body
-----------------------------------------------------------------------------
\* Induction from the roots down.
LEMMA ParentSet ==
  ASSUME NEW D, NEW parent \in [D -> D], NEW R \in Nat, NEW rank \in [D -> 0..R],
         \A x \in D : parent[x] # x => rank[x] < rank[parent[x]],
         NEW T, \A x \in D : parent[x] = x \/ parent[x] \in T => x \in T
  PROVE  D \subseteq T
<1> DEFINE U == {k \in Nat : \A x \in D : rank[x] + k >= R => x \in T}
<1>1. 0 \in U
  <2> SUFFICES ASSUME NEW x \in D, rank[x] + 0 >= R PROVE parent[x] = x
    OBVIOUS
  <2>1. rank[x] \in 0..R /\ parent[x] \in D /\ rank[parent[x]] \in 0..R
    OBVIOUS
  <2> QED
    BY <2>1
<1>2. ASSUME NEW k \in U \cap Nat PROVE k + 1 \in U
  <2> SUFFICES ASSUME NEW x \in D, rank[x] + (k + 1) >= R PROVE x \in T
    OBVIOUS
  <2>1. rank[x] \in 0..R /\ parent[x] \in D /\ rank[parent[x]] \in 0..R
    OBVIOUS
  <2>2. parent[x] = x \/ rank[parent[x]] + k >= R
    BY <2>1
  <2> QED
    BY <2>1, <2>2
<1>3. R \in U
  BY <1>1, <1>2, NatSet
<1> QED
  BY <1>3

\* So is the path function, since it is defined for all nodes of a rank above R - k, for every k.
LEMMA PathUnrolls ==
  ASSUME NEW D, NEW parent \in [D -> D], NEW R \in Nat, NEW rank \in [D -> 0..R],
         \A x \in D : parent[x] # x => rank[x] < rank[parent[x]]
  PROVE  \A x \in D :
           Path(parent, x) = IF parent[x] = x THEN <<x>> ELSE <<x>> \o Path(parent, parent[x])
<1> DEFINE Body(g, y) == IF parent[y] = y THEN <<y>> ELSE <<y>> \o g[parent[y]]
           T == {k \in Nat : \E g : \A y \in D : rank[y] + k > R => g[y] = Body(g, y)}
           path == CHOOSE path : path = [y \in D |-> Body(path, y)]
<1>1. \A x : Path(parent, x) = path[x]
  BY DEF Path
<1>2. 0 \in T
  OBVIOUS
<1> HIDE DEF Body
<1>3. ASSUME NEW k \in Nat, NEW g, \A y \in D : rank[y] + k > R => g[y] = Body(g, y)
      PROVE  LET h == [y \in D |-> Body(g, y)]
             IN  \A y \in D : rank[y] + (k + 1) > R => h[y] = Body(h, y)
  <2> DEFINE h == [y \in D |-> Body(g, y)]
  <2> SUFFICES ASSUME NEW y \in D, rank[y] + (k + 1) > R PROVE h[y] = Body(h, y)
    OBVIOUS
  <2>1. CASE parent[y] = y
    BY <2>1 DEF Body
  <2>2. CASE parent[y] # y
    <3>1. parent[y] \in D /\ rank[parent[y]] + k > R
      BY <2>2
    <3>2. h[parent[y]] = g[parent[y]]
      BY <1>3, <3>1
    <3> QED
      BY <2>2, <3>2 DEF Body
  <2> QED
    BY <2>1, <2>2
<1>4. ASSUME NEW k \in T \cap Nat PROVE k + 1 \in T
  <2>1. PICK g : \A y \in D : rank[y] + k > R => g[y] = Body(g, y)
    OBVIOUS
  <2> DEFINE h == [y \in D |-> Body(g, y)]
  <2>2. \A y \in D : rank[y] + (k + 1) > R => h[y] = Body(h, y)
    BY <1>3, <2>1
  <2> HIDE DEF h
  <2> QED
    BY <2>2
<1>5. R + 1 \in T
  BY <1>2, <1>4, NatSet
<1>6. \E h : h = [y \in D |-> Body(h, y)]
  <2>1. PICK g : \A y \in D : rank[y] + (R + 1) > R => g[y] = Body(g, y)
    BY <1>5
  <2> DEFINE h == [y \in D |-> Body(g, y)]
  <2>2. \A y \in D : h[y] = Body(h, y)
    <3>1. \A y \in D : rank[y] + ((R + 1) + 1) > R => h[y] = Body(h, y)
      BY <1>3, <2>1
    <3>2. \A y \in D : rank[y] + ((R + 1) + 1) > R
      OBVIOUS
    <3> QED
      BY <3>1, <3>2
  <2>3. h = [y \in D |-> Body(h, y)]
    BY <2>2
  <2> QED
    BY <2>3
<1>7. path = [y \in D |-> Body(path, y)]
  BY <1>6
<1> HIDE DEF path
<1>8. \A y \in D : path[y] = Body(path, y)
  BY <1>7
<1> QED
  BY <1>1, <1>8 DEF Body
-----------------------------------------------------------------------------
(***************************************************************************)
(* Union-find.  Ranks, up to R, grow towards the roots.                    *)
(***************************************************************************)
Forest(uf, R) ==
  LET D == DOMAIN uf.parent IN
  /\ uf = [parent |-> uf.parent, rank |-> uf.rank]
  /\ uf.parent \in [D -> D] /\ uf.rank \in [D -> 0..R]
  /\ \A x \in D : uf.parent[x] # x => uf.rank[x] < uf.rank[uf.parent[x]]

\* A path of one node.
LEMMA Single ==
  ASSUME NEW D, NEW x \in D
  PROVE  /\ <<x>> \in Seq(D) /\ <<x>> # <<>>
         /\ Last(<<x>>) = x /\ Range(<<x>>) = {x}
<1>1. DOMAIN <<x>> = {1} /\ <<x>>[1] = x /\ Len(<<x>>) = 1
  OBVIOUS
<1> QED
  BY <1>1 DEF Last, Range

\* A path with one more node below.
LEMMA Prepend ==
  ASSUME NEW D, NEW x \in D, NEW s \in Seq(D), s # <<>>
  PROVE  /\ <<x>> \o s \in Seq(D) /\ <<x>> \o s # <<>>
         /\ Last(<<x>> \o s) = Last(s)
         /\ Range(<<x>> \o s) = {x} \cup Range(s)
<1>1. <<x>> \in Seq(D) /\ <<x>> # <<>> /\ Len(<<x>>) = 1 /\ Range(<<x>>) = {x}
  BY Single
<1>2. /\ <<x>> \o s \in Seq(D)
      /\ Len(<<x>> \o s) = Len(s) + 1
      /\ \A i \in 1..Len(s) + 1 : (<<x>> \o s)[i] = IF i <= 1 THEN <<x>>[i] ELSE s[i - 1]
  BY <1>1, ConcatProperties
<1>3. Len(s) \in Nat /\ Len(s) > 0
  BY LenProperties, EmptySeq
<1>4. Last(<<x>> \o s) = Last(s)
  BY <1>2, <1>3 DEF Last
<1>5. Range(<<x>> \o s) = {x} \cup Range(s)
  <2>1. ASSUME NEW t \in Seq(D) PROVE Range(t \o s) = Range(t) \cup Range(s)
    BY RangeConcatenation
  <2> QED
    BY <1>1, <2>1
<1>6. <<x>> \o s # <<>>
  BY <1>2, <1>3
<1> QED
  BY <1>2, <1>4, <1>5, <1>6

\* A path ends at a root, of a higher rank than its other nodes, which have the same root.
LEMMA PathFacts ==
  ASSUME NEW uf, NEW R \in Nat, Forest(uf, R), NEW x \in DOMAIN uf.parent
  PROVE  LET D == DOMAIN uf.parent
             p == uf.parent
         IN  /\ Path(p, x) \in Seq(D)
             /\ x \in Range(Path(p, x)) /\ Range(Path(p, x)) \subseteq D
             /\ Root(p, x) \in D /\ p[Root(p, x)] = Root(p, x)
             /\ Root(p, x) = IF p[x] = x THEN x ELSE Root(p, p[x])
             /\ uf.rank[x] <= uf.rank[Root(p, x)]
             /\ x # Root(p, x) => uf.rank[x] < uf.rank[Root(p, x)]
             /\ \A n \in Range(Path(p, x)) : Root(p, n) = Root(p, x)
<1> DEFINE D == DOMAIN uf.parent
           p == uf.parent
           Good(y) ==
             /\ Path(p, y) \in Seq(D) /\ Path(p, y) # <<>>
             /\ y \in Range(Path(p, y)) /\ Range(Path(p, y)) \subseteq D
             /\ Root(p, y) \in D /\ p[Root(p, y)] = Root(p, y)
             /\ Root(p, y) = IF p[y] = y THEN y ELSE Root(p, p[y])
             /\ uf.rank[y] <= uf.rank[Root(p, y)]
             /\ y # Root(p, y) => uf.rank[y] < uf.rank[Root(p, y)]
             /\ \A n \in Range(Path(p, y)) : Root(p, n) = Root(p, y)
           T == {y \in D : Good(y)}
<1>1. /\ p \in [D -> D] /\ uf.rank \in [D -> 0..R]
      /\ \A y \in D : p[y] # y => uf.rank[y] < uf.rank[p[y]]
  BY DEF Forest
<1>2. \A y \in D : Path(p, y) = IF p[y] = y THEN <<y>> ELSE <<y>> \o Path(p, p[y])
  BY <1>1, PathUnrolls
<1>3. ASSUME NEW y \in D, p[y] = y PROVE Good(y)
  <2>1. Path(p, y) = <<y>> /\ Root(p, y) = y
    BY <1>2, <1>3, Single DEF Root
  <2>2. /\ Path(p, y) \in Seq(D) /\ Path(p, y) # <<>> /\ Range(Path(p, y)) = {y}
    BY <2>1, Single
  <2>3. uf.rank[y] <= uf.rank[y]
    BY <1>1
  <2> QED
    BY <1>3, <2>1, <2>2, <2>3
<1>4. ASSUME NEW y \in D, p[y] # y, Good(p[y]) PROVE Good(y)
  <2>1. Path(p, y) = <<y>> \o Path(p, p[y])
    BY <1>2, <1>4
  <2>2. /\ Path(p, y) \in Seq(D) /\ Path(p, y) # <<>>
        /\ Last(Path(p, y)) = Last(Path(p, p[y]))
        /\ Range(Path(p, y)) = {y} \cup Range(Path(p, p[y]))
    <3>1. Path(p, p[y]) \in Seq(D) /\ Path(p, p[y]) # <<>>
      BY <1>4
    <3>2. ASSUME NEW s \in Seq(D), s # <<>>
          PROVE  /\ <<y>> \o s \in Seq(D) /\ <<y>> \o s # <<>>
                 /\ Last(<<y>> \o s) = Last(s)
                 /\ Range(<<y>> \o s) = {y} \cup Range(s)
      BY <3>2, Prepend
    <3> HIDE DEF D
    <3> QED
      BY <2>1, <3>1, <3>2
  <2>5. Root(p, y) = Root(p, p[y])
    BY <2>2 DEF Root
  <2>3. uf.rank[y] < uf.rank[Root(p, y)]
    <3>1. /\ uf.rank[y] \in 0..R /\ uf.rank[p[y]] \in 0..R /\ uf.rank[Root(p, p[y])] \in 0..R
          /\ uf.rank[y] < uf.rank[p[y]]
      BY <1>1, <1>4
    <3> QED
      BY <1>4, <2>5, <3>1
  <2>4. uf.rank[y] <= uf.rank[Root(p, y)]
    <3>1. uf.rank[y] \in 0..R /\ uf.rank[Root(p, y)] \in 0..R
      BY <1>1, <1>4, <2>5
    <3> QED
      BY <2>3, <3>1
  <2> QED
    BY <1>1, <1>4, <2>2, <2>3, <2>4, <2>5
<1> HIDE DEF Good
<1>5. D \subseteq T
  <2>1. \A y \in D : p[y] = y \/ p[y] \in T => y \in T
    BY <1>3, <1>4
  <2> HIDE DEF T
  <2> QED
    BY <1>1, <2>1, ParentSet
<1> QED
  BY <1>5 DEF Good

\* Whatever agrees with the parents is the root.
LEMMA RootUnique ==
  ASSUME NEW uf, NEW R \in Nat, Forest(uf, R), NEW r,
         \A x \in DOMAIN uf.parent : r[x] = IF uf.parent[x] = x THEN x ELSE r[uf.parent[x]]
  PROVE  \A x \in DOMAIN uf.parent : Root(uf.parent, x) = r[x]
<1> DEFINE D == DOMAIN uf.parent
           p == uf.parent
           T == {x \in D : Root(p, x) = r[x]}
<1>1. /\ p \in [D -> D] /\ uf.rank \in [D -> 0..R]
      /\ \A y \in D : p[y] # y => uf.rank[y] < uf.rank[p[y]]
  BY DEF Forest
<1>2. \A x \in D : Root(p, x) = IF p[x] = x THEN x ELSE Root(p, p[x])
  BY PathFacts
<1>3. \A x \in D : p[x] = x \/ p[x] \in T => x \in T
  BY <1>1, <1>2
<1>4. D \subseteq T
  BY <1>1, <1>3, ParentSet
<1> QED
  BY <1>4
-----------------------------------------------------------------------------
\* A new node is its own root; the other roots stay.
LEMMA KnownFacts ==
  ASSUME NEW uf, NEW R \in Nat, Forest(uf, R), NEW x
  PROVE  LET u == Known(uf, x)
         IN  /\ Forest(u, R) /\ DOMAIN u.parent = DOMAIN uf.parent \cup {x}
             /\ \A y \in DOMAIN uf.parent : Root(u.parent, y) = Root(uf.parent, y)
             /\ x \notin DOMAIN uf.parent => Root(u.parent, x) = x
<1> DEFINE D == DOMAIN uf.parent
           u == Known(uf, x)
           r == [y \in D \cup {x} |-> IF y \in D THEN Root(uf.parent, y) ELSE x]
<1>1. CASE x \in D
  <2>1. u = uf /\ D \cup {x} = D
    BY <1>1 DEF Known
  <2> QED
    BY <1>1, <2>1
<1>2. CASE x \notin D
  <2>1. /\ uf.parent \in [D -> D] /\ uf.rank \in [D -> 0..R]
        /\ \A y \in D : uf.parent[y] # y => uf.rank[y] < uf.rank[uf.parent[y]]
    BY DEF Forest
  <2>2. u = [parent |-> [n \in D \cup {x} |-> IF n = x THEN x ELSE uf.parent[n]],
             rank   |-> [n \in D \cup {x} |-> IF n = x THEN 0 ELSE uf.rank[n]]]
    BY <1>2, <2>1 DEF Known
  <2>3. /\ u.parent \in [D \cup {x} -> D \cup {x}] /\ u.rank \in [D \cup {x} -> 0..R]
        /\ u = [parent |-> u.parent, rank |-> u.rank]
        /\ \A y \in D : u.parent[y] = uf.parent[y] /\ u.rank[y] = uf.rank[y]
        /\ u.parent[x] = x
    BY <1>2, <2>1, <2>2
  <2>4. Forest(u, R)
    BY <2>1, <2>3 DEF Forest
  <2>5. \A y \in D \cup {x} : r[y] = IF u.parent[y] = y THEN y ELSE r[u.parent[y]]
    <3>1. \A y \in D : Root(uf.parent, y) = IF uf.parent[y] = y THEN y ELSE Root(uf.parent, uf.parent[y])
      BY PathFacts
    <3> QED
      BY <1>2, <2>1, <2>3, <3>1
  <2>6. \A y \in D \cup {x} : Root(u.parent, y) = r[y]
    <3>1. DOMAIN u.parent = D \cup {x}
      BY <2>3
    <3> HIDE DEF r, u
    <3> QED
      BY <2>4, <2>5, <3>1, RootUnique
  <2> QED
    BY <1>2, <2>3, <2>4, <2>6
<1> QED
  BY <1>1, <1>2

\* find compresses a path and changes no root; its node is then directly below its root.
LEMMA FindFacts ==
  ASSUME NEW uf, NEW R \in Nat, Forest(uf, R), NEW x
  PROVE  LET u == Find(uf, x)
         IN  /\ Forest(u, R) /\ DOMAIN u.parent = DOMAIN uf.parent \cup {x}
             /\ \A y \in DOMAIN uf.parent : Root(u.parent, y) = Root(uf.parent, y)
             /\ x \notin DOMAIN uf.parent => Root(u.parent, x) = x
             /\ u.parent[x] = Root(u.parent, x)
             /\ \A y \in DOMAIN uf.parent :
                  uf.parent[y] = Root(uf.parent, y) => u.parent[y] = Root(u.parent, y)
<1> DEFINE k == Known(uf, x)
           D == DOMAIN k.parent
           path == Path(k.parent, x)
           top == Root(k.parent, x)
           u == Find(uf, x)
           r == [y \in D |-> Root(k.parent, y)]
<1>1. /\ Forest(k, R) /\ D = DOMAIN uf.parent \cup {x}
      /\ \A y \in DOMAIN uf.parent : Root(k.parent, y) = Root(uf.parent, y)
      /\ x \notin DOMAIN uf.parent => Root(k.parent, x) = x
  BY KnownFacts
<1>2. \A y \in DOMAIN uf.parent : k.parent[y] = uf.parent[y]
  BY DEF Known
<1> HIDE DEF k
<1>3. /\ k = [parent |-> k.parent, rank |-> k.rank]
      /\ k.parent \in [D -> D] /\ k.rank \in [D -> 0..R]
      /\ \A y \in D : k.parent[y] # y => k.rank[y] < k.rank[k.parent[y]]
  <2> HIDE DEF D
  <2>1. Forest(k, R) /\ D = DOMAIN k.parent
    BY <1>1 DEF D
  <2> QED
    BY ONLY <2>1 DEF Forest
<1>4. /\ x \in Range(path) /\ Range(path) \subseteq D
      /\ top \in D /\ k.parent[top] = top
      /\ \A n \in Range(path) : Root(k.parent, n) = top
  <2>1. x \in D
    BY <1>1
  <2>2. Forest(k, R)
    BY <1>1
  <2> QED
    BY ONLY <2>1, <2>2, R \in Nat, PathFacts
<1>5. \A y \in D : /\ Root(k.parent, y) = IF k.parent[y] = y THEN y ELSE Root(k.parent, k.parent[y])
                   /\ y # Root(k.parent, y) => k.rank[y] < k.rank[Root(k.parent, y)]
  BY <1>1, PathFacts
<1>6. u = [k EXCEPT !.parent = [n \in DOMAIN @ |-> IF n \in Range(path) THEN top ELSE @[n]]]
  BY DEF Find, Root, k
<1> HIDE DEF u, path, top
<1>7. /\ u = [parent |-> u.parent, rank |-> u.rank] /\ u.rank = k.rank
      /\ u.parent = [n \in D |-> IF n \in Range(path) THEN top ELSE k.parent[n]]
  BY <1>3, <1>6
<1>8. u.parent \in [D -> D]
  BY <1>3, <1>4, <1>7
<1>9. Forest(u, R)
  <2>1. ASSUME NEW y \in D, u.parent[y] # y PROVE u.rank[y] < u.rank[u.parent[y]]
    <3>1. CASE y \in Range(path)
      <4>1. u.parent[y] = top /\ Root(k.parent, y) = top
        BY <1>4, <1>7, <3>1
      <4> QED
        BY <1>5, <1>7, <2>1, <4>1
    <3>2. CASE y \notin Range(path)
      BY <1>3, <1>7, <2>1, <3>2
    <3> QED
      BY <3>1, <3>2
  <2>2. DOMAIN u.parent = D
    BY <1>8
  <2> QED
    BY <1>3, <1>7, <1>8, <2>1, <2>2 DEF Forest
<1>10. \A y \in D : r[y] = IF u.parent[y] = y THEN y ELSE r[u.parent[y]]
  <2> SUFFICES ASSUME NEW y \in D
               PROVE  Root(k.parent, y) = IF u.parent[y] = y THEN y ELSE Root(k.parent, u.parent[y])
    BY <1>8
  <2>1. CASE y \in Range(path)
    <3>1. u.parent[y] = top /\ Root(k.parent, y) = top
      BY <1>4, <1>7, <2>1
    <3>2. Root(k.parent, top) = top
      BY <1>4, <1>5
    <3> QED
      BY <3>1, <3>2
  <2>2. CASE y \notin Range(path)
    BY <1>5, <1>7, <2>2
  <2> QED
    BY <2>1, <2>2
<1>11. \A y \in D : Root(u.parent, y) = Root(k.parent, y)
  <2>1. DOMAIN u.parent = D
    BY <1>8
  <2>2. \A y \in D : r[y] = Root(k.parent, y)
    OBVIOUS
  <2> HIDE DEF r
  <2> QED
    BY <1>9, <1>10, <2>1, <2>2, RootUnique
<1>12. u.parent[x] = Root(u.parent, x)
  BY <1>1, <1>4, <1>7, <1>11 DEF top
<1>13. ASSUME NEW y \in DOMAIN uf.parent, uf.parent[y] = Root(uf.parent, y)
       PROVE  u.parent[y] = Root(u.parent, y)
  <2>1. y \in D /\ k.parent[y] = Root(k.parent, y)
    BY <1>1, <1>2, <1>13
  <2> QED
    BY <1>4, <1>7, <1>11, <2>1
<1>14. DOMAIN u.parent = DOMAIN uf.parent \cup {x}
  BY <1>1, <1>8
<1>15. /\ \A y \in DOMAIN uf.parent : Root(u.parent, y) = Root(uf.parent, y)
       /\ x \notin DOMAIN uf.parent => Root(u.parent, x) = x
  BY <1>1, <1>11
<1> QED
  BY <1>9, <1>12, <1>13, <1>14, <1>15 DEF u
-----------------------------------------------------------------------------
(***************************************************************************)
(* Connected.  A set of nodes is closed if no edge leaves it.              *)
(***************************************************************************)
Closed(E, C) == \A e \in E : e[1] \in C <=> e[2] \in C

\* Connected: every closed set of nodes has both or neither.
LEMMA ConnectedClosed ==
  ASSUME NEW E \in SUBSET (Nat \X Nat), NEW x \in Nat, NEW y \in Nat
  PROVE  Connected(E, x, y) <=> \A C \in SUBSET Nat : Closed(E, C) /\ x \in C => y \in C
<1>1. \A e \in E : e[1] \in Nat /\ e[2] \in Nat /\ e[1] \in Ends(E) /\ e[2] \in Ends(E)
  BY DEF Ends
<1>2. Ends(E) \subseteq Nat
  BY <1>1 DEF Ends
<1>3. ASSUME Connected(E, x, y), NEW C \in SUBSET Nat, Closed(E, C), x \in C, y \notin C
      PROVE  FALSE
  <2> DEFINE S == (C \cap Ends(E)) \ {x, y}
  <2>1. PICK e \in E : (e[1] \in S \cup {x}) # (e[2] \in S \cup {x})
    BY <1>3 DEF Connected
  <2>2. e[1] \in S \cup {x} <=> e[1] \in C
    BY <1>1, <1>3
  <2>3. e[2] \in S \cup {x} <=> e[2] \in C
    BY <1>1, <1>3
  <2> QED
    BY <1>3, <2>1, <2>2, <2>3 DEF Closed
<1>4. ASSUME ~Connected(E, x, y)
      PROVE  \E C \in SUBSET Nat : Closed(E, C) /\ x \in C /\ y \notin C
  <2>1. PICK S \in SUBSET (Ends(E) \ {x, y}) :
          \A e \in E : (e[1] \in S \cup {x}) = (e[2] \in S \cup {x})
    BY <1>4 DEF Connected
  <2>2. x # y
    BY <1>4 DEF Connected
  <2>3. S \cup {x} \in SUBSET Nat /\ y \notin S \cup {x}
    BY <1>2, <2>2
  <2>4. Closed(E, S \cup {x})
    BY <2>1 DEF Closed
  <2> QED
    BY <2>3, <2>4
<1> QED
  BY <1>3, <1>4

\* It is an equivalence in which the ends of an edge are equal, and other nodes alone.
LEMMA ConnectedEquivalence ==
  ASSUME NEW E \in SUBSET (Nat \X Nat)
  PROVE  /\ \A x \in Nat : Connected(E, x, x)
         /\ \A x, y \in Nat : Connected(E, x, y) => Connected(E, y, x)
         /\ \A x, y, z \in Nat : Connected(E, x, y) /\ Connected(E, y, z) => Connected(E, x, z)
         /\ \A e \in E : Connected(E, e[1], e[2])
         /\ \A x, y \in Nat : x \notin Ends(E) /\ Connected(E, x, y) => x = y
<1> DEFINE Same(x, y) == \A C \in SUBSET Nat : Closed(E, C) /\ x \in C => y \in C
<1>1. \A x, y \in Nat : Connected(E, x, y) <=> Same(x, y)
  BY ConnectedClosed
<1>2. \A e \in E : e[1] \in Nat /\ e[2] \in Nat
  OBVIOUS
<1>3. ASSUME NEW x \in Nat, NEW y \in Nat, Same(x, y) PROVE Same(y, x)
  <2> SUFFICES ASSUME NEW C \in SUBSET Nat, Closed(E, C), y \in C, x \notin C PROVE FALSE
    OBVIOUS
  <2>1. Closed(E, Nat \ C)
    BY <1>2 DEF Closed
  <2> QED
    BY <1>3, <2>1
<1>4. \A e \in E : Same(e[1], e[2])
  BY DEF Closed
<1>5. ASSUME NEW x \in Nat, NEW y \in Nat, x \notin Ends(E), Same(x, y) PROVE x = y
  <2>1. Closed(E, {x})
    BY <1>5 DEF Closed, Ends
  <2> QED
    BY <1>5, <2>1
<1> QED
  BY <1>1, <1>2, <1>3, <1>4, <1>5

\* One more edge connects what was connected to its ends.
LEMMA ConnectedAdd ==
  ASSUME NEW E \in SUBSET (Nat \X Nat), NEW e \in Nat \X Nat, NEW x \in Nat, NEW y \in Nat
  PROVE  Connected(E \cup {e}, x, y) <=>
           \/ Connected(E, x, y)
           \/ Connected(E, x, e[1]) /\ Connected(E, y, e[2])
           \/ Connected(E, x, e[2]) /\ Connected(E, y, e[1])
<1> DEFINE F == E \cup {e}
           K(z) == {w \in Nat : Connected(E, z, w)}
<1>1. /\ e[1] \in Nat /\ e[2] \in Nat /\ F \in SUBSET (Nat \X Nat)
  OBVIOUS
<1>2. \A f \in E : f[1] \in Nat /\ f[2] \in Nat /\ Connected(E, f[1], f[2])
  BY ConnectedEquivalence
<1>3. \A z \in Nat : K(z) \in SUBSET Nat /\ z \in K(z) /\ Closed(E, K(z))
  <2> SUFFICES ASSUME NEW z \in Nat PROVE z \in K(z) /\ Closed(E, K(z))
    OBVIOUS
  <2>1. z \in K(z)
    BY ConnectedEquivalence
  <2>2. \A f \in E : f[1] \in K(z) <=> f[2] \in K(z)
    BY <1>2, ConnectedEquivalence
  <2> QED
    BY <2>1, <2>2 DEF Closed
<1>4. \A v, w \in Nat : Connected(E, v, w) => Connected(F, v, w)
  <2>1. \A C : Closed(F, C) => Closed(E, C)
    BY DEF Closed
  <2> QED
    BY <1>1, <2>1, ConnectedClosed
<1>5. ASSUME Connected(E, x, e[1]) /\ Connected(E, y, e[2])
      PROVE  Connected(F, x, y)
  <2>1. Connected(F, e[1], e[2])
    BY <1>1, ConnectedEquivalence
  <2>2. Connected(F, x, e[1]) /\ Connected(F, y, e[2])
    BY <1>1, <1>4, <1>5
  <2> HIDE DEF F
  <2> QED
    BY <1>1, <2>1, <2>2, ConnectedEquivalence
<1>6. ASSUME Connected(E, x, e[2]) /\ Connected(E, y, e[1])
      PROVE  Connected(F, x, y)
  <2>1. Connected(F, e[1], e[2])
    BY <1>1, ConnectedEquivalence
  <2>2. Connected(F, x, e[2]) /\ Connected(F, y, e[1])
    BY <1>1, <1>4, <1>6
  <2> HIDE DEF F
  <2> QED
    BY <1>1, <2>1, <2>2, ConnectedEquivalence
<1>7. ASSUME Connected(F, x, y), ~Connected(E, x, y)
      PROVE  \/ Connected(E, x, e[1]) /\ Connected(E, y, e[2])
             \/ Connected(E, x, e[2]) /\ Connected(E, y, e[1])
  <2>1. \A C \in SUBSET Nat : Closed(F, C) /\ x \in C => y \in C
    BY <1>1, <1>7, ConnectedClosed
  <2>2. \A C : Closed(E, C) /\ (e[1] \in C <=> e[2] \in C) => Closed(F, C)
    BY DEF Closed
  <2>3. y \notin K(x) /\ ~(e[1] \in K(x) <=> e[2] \in K(x))
    BY <1>3, <1>7, <2>1, <2>2
  <2>4. \A z \in Nat : Closed(E, K(x) \cup K(z))
    BY <1>3 DEF Closed
  <2>5. CASE e[1] \in K(x)
    <3>1. Closed(F, K(x) \cup K(e[2]))
      BY <1>1, <1>3, <2>2, <2>4, <2>5
    <3>2. y \in K(e[2])
      BY <1>1, <1>3, <2>1, <2>3, <3>1
    <3> QED
      BY <1>1, <2>5, <3>2, ConnectedEquivalence
  <2>6. CASE e[2] \in K(x)
    <3>1. Closed(F, K(x) \cup K(e[1]))
      BY <1>1, <1>3, <2>2, <2>4, <2>6
    <3>2. y \in K(e[1])
      BY <1>1, <1>3, <2>1, <2>3, <3>1
    <3> QED
      BY <1>1, <2>6, <3>2, ConnectedEquivalence
  <2> QED
    BY <2>3, <2>5, <2>6
<1> QED
  BY <1>4, <1>5, <1>6, <1>7

\* More edges connect more.
LEMMA ConnectedMore ==
  ASSUME NEW E \in SUBSET (Nat \X Nat), NEW F \in SUBSET (Nat \X Nat), E \subseteq F,
         NEW x \in Nat, NEW y \in Nat, Connected(E, x, y)
  PROVE  Connected(F, x, y)
<1>1. \A C : Closed(F, C) => Closed(E, C)
  BY DEF Closed
<1> QED
  BY <1>1, ConnectedClosed
-----------------------------------------------------------------------------
(***************************************************************************)
(* The union-find tells what the edges E connect.                          *)
(***************************************************************************)
Tells(uf, E) ==
  /\ DOMAIN uf.parent \subseteq Nat /\ Ends(E) \subseteq DOMAIN uf.parent
  /\ \A x, y \in DOMAIN uf.parent :
       Root(uf.parent, x) = Root(uf.parent, y) <=> Connected(E, x, y)

\* find leaves that as it is.
LEMMA FindTells ==
  ASSUME NEW uf, NEW R \in Nat, NEW E \in SUBSET (Nat \X Nat), NEW a \in Nat,
         Forest(uf, R), Tells(uf, E)
  PROVE  Tells(Find(uf, a), E)
<1> DEFINE D == DOMAIN uf.parent
           u == Find(uf, a)
<1>1. /\ DOMAIN u.parent = D \cup {a}
      /\ \A y \in D : Root(u.parent, y) = Root(uf.parent, y)
      /\ a \notin D => Root(u.parent, a) = a
  BY FindFacts
<1>2. /\ D \subseteq Nat /\ Ends(E) \subseteq D
      /\ \A x, y \in D : Root(uf.parent, x) = Root(uf.parent, y) <=> Connected(E, x, y)
  BY DEF Tells
<1>3. \A y \in D : Root(uf.parent, y) \in D
  BY PathFacts
<1> HIDE DEF u, D
<1>4. ASSUME NEW x \in D \cup {a}, NEW y \in D \cup {a}
      PROVE  Root(u.parent, x) = Root(u.parent, y) <=> Connected(E, x, y)
  <2>1. CASE x \in D /\ y \in D
    BY <1>1, <1>2, <2>1
  <2>2. CASE x = y
    BY <1>2, <2>2, ConnectedEquivalence
  <2>3. CASE x \in D /\ y = a /\ a \notin D
    <3>1. Root(u.parent, x) # Root(u.parent, y)
      BY <1>1, <1>3, <2>3
    <3>2. ~Connected(E, x, y)
      BY <1>2, <2>3, ConnectedEquivalence
    <3> QED
      BY <3>1, <3>2
  <2>4. CASE y \in D /\ x = a /\ a \notin D
    <3>1. Root(u.parent, x) # Root(u.parent, y)
      BY <1>1, <1>3, <2>4
    <3>2. ~Connected(E, x, y)
      BY <1>2, <2>4, ConnectedEquivalence
    <3> QED
      BY <3>1, <3>2
  <2> QED
    BY <2>1, <2>2, <2>3, <2>4
<1>5. D \cup {a} \subseteq Nat /\ Ends(E) \subseteq D \cup {a}
  BY <1>2
<1>6. Tells(u, E)
  BY <1>1, <1>4, <1>5 DEF Tells
<1> QED
  BY <1>6 DEF u

\* union accounts for one more edge, and says whether it was needed.
LEMMA UnionFacts ==
  ASSUME NEW uf, NEW R \in Nat, NEW E \in SUBSET (Nat \X Nat), NEW e \in Nat \X Nat,
         Forest(uf, R), Tells(uf, E)
  PROVE  LET v == Union(uf, e[1], e[2])
         IN  /\ Forest(v, R + 1) /\ Tells(v, E \cup {e})
             /\ Joins(uf, e[1], e[2]) <=> ~Connected(E, e[1], e[2])
             /\ DOMAIN v.parent = DOMAIN uf.parent \cup {e[1], e[2]}
<1> DEFINE a == e[1]
           b == e[2]
           u1 == Find(uf, a)
           u == Find(u1, b)
           D == DOMAIN u.parent
           ra == u.parent[a]
           rb == u.parent[b]
           v == Union(uf, a, b)
<1>1. a \in Nat /\ b \in Nat
  OBVIOUS
<1>2. /\ Forest(u1, R) /\ Tells(u1, E) /\ DOMAIN u1.parent = DOMAIN uf.parent \cup {a}
      /\ u1.parent[a] = Root(u1.parent, a)
  BY <1>1, FindFacts, FindTells
<1> HIDE DEF u1
<1>3. /\ Forest(u, R) /\ Tells(u, E) /\ D = DOMAIN uf.parent \cup {a, b}
      /\ rb = Root(u.parent, b) /\ ra = Root(u.parent, a)
  <2>1. /\ Forest(u, R) /\ Tells(u, E) /\ D = DOMAIN u1.parent \cup {b}
        /\ rb = Root(u.parent, b)
        /\ \A y \in DOMAIN u1.parent :
             u1.parent[y] = Root(u1.parent, y) => u.parent[y] = Root(u.parent, y)
    BY <1>1, <1>2, FindFacts, FindTells
  <2> QED
    BY <1>2, <2>1
<1>4. v = IF ra = rb THEN u
          ELSE IF u.rank[ra] < u.rank[rb] THEN [u EXCEPT !.parent[ra] = rb]
          ELSE [u EXCEPT !.parent[rb] = ra,
                         !.rank[ra] = IF @ = u.rank[rb] THEN @ + 1 ELSE @]
  BY DEF Union, u1
<1>5. Joins(uf, a, b) <=> ra # rb
  BY DEF Joins, u1
<1> HIDE DEF u
<1>6. /\ a \in D /\ b \in D /\ D \subseteq Nat /\ Ends(E) \subseteq D
      /\ \A x, y \in D : Root(u.parent, x) = Root(u.parent, y) <=> Connected(E, x, y)
  BY <1>3 DEF Tells
<1>7. Joins(uf, a, b) <=> ~Connected(E, a, b)
  BY <1>3, <1>5, <1>6
<1>8. Ends(E \cup {e}) = Ends(E) \cup {a, b}
  BY DEF Ends
<1>9. \A x, y \in D : Connected(E \cup {e}, x, y) <=>
         \/ Root(u.parent, x) = Root(u.parent, y)
         \/ Root(u.parent, x) = ra /\ Root(u.parent, y) = rb
         \/ Root(u.parent, x) = rb /\ Root(u.parent, y) = ra
  BY <1>1, <1>3, <1>6, ConnectedAdd
<1>10. /\ u = [parent |-> u.parent, rank |-> u.rank]
       /\ u.parent \in [D -> D] /\ u.rank \in [D -> 0..R]
       /\ \A x \in D : u.parent[x] # x => u.rank[x] < u.rank[u.parent[x]]
  BY <1>3 DEF Forest
<1>11. \A x \in D : /\ Root(u.parent, x) \in D
                     /\ u.parent[Root(u.parent, x)] = Root(u.parent, x)
                     /\ Root(u.parent, x) = IF u.parent[x] = x THEN x ELSE Root(u.parent, u.parent[x])
  BY <1>3, PathFacts
<1>12. ra \in D /\ rb \in D /\ u.parent[ra] = ra /\ u.parent[rb] = rb
  BY <1>3, <1>6, <1>11
<1>13. CASE ra = rb
  <2>1. v = u
    BY <1>4, <1>13
  <2>2. Forest(u, R + 1)
    BY <1>10 DEF Forest
  <2>3. Tells(u, E \cup {e})
    BY <1>6, <1>8, <1>9, <1>13 DEF Tells
  <2> QED
    BY <1>3, <1>7, <2>1, <2>2, <2>3
<1>14. CASE ra # rb
  <2>1. PICK w \in {ra, rb}, l \in {ra, rb} :
          /\ w # l /\ v.parent = [u.parent EXCEPT ![l] = w]
          /\ v = [parent |-> v.parent, rank |-> v.rank]
          /\ v.rank \in [D -> 0..(R + 1)]
          /\ \A x \in D \ {w} : v.rank[x] = u.rank[x]
          /\ v.rank[w] >= u.rank[w] /\ v.rank[w] > u.rank[l]
    <3>1. u.rank[ra] \in 0..R /\ u.rank[rb] \in 0..R
      BY <1>10, <1>12
    <3>2. CASE u.rank[ra] < u.rank[rb]
      <4>1. v.parent = [u.parent EXCEPT ![ra] = rb] /\ v.rank = u.rank /\ v = [parent |-> v.parent, rank |-> v.rank]
        BY <1>4, <1>10, <1>14, <3>2
      <4>2. v.rank \in [D -> 0..(R + 1)]
        BY <1>10, <4>1
      <4> QED
        BY <1>14, <3>1, <3>2, <4>1, <4>2
    <3>3. CASE ~(u.rank[ra] < u.rank[rb])
      <4> DEFINE k == IF u.rank[ra] = u.rank[rb] THEN u.rank[ra] + 1 ELSE u.rank[ra]
      <4>1. /\ v.parent = [u.parent EXCEPT ![rb] = ra]
            /\ v.rank = [u.rank EXCEPT ![ra] = k]
            /\ v = [parent |-> v.parent, rank |-> v.rank]
        BY <1>4, <1>10, <1>12, <1>14, <3>3
      <4>2. k \in 0..(R + 1) /\ k >= u.rank[ra] /\ k > u.rank[rb]
        BY <3>1, <3>3
      <4> HIDE DEF k
      <4>3. v.rank \in [D -> 0..(R + 1)]
        <5>1. \A x \in D : u.rank[x] \in 0..(R + 1)
          BY <1>10
        <5> QED
          BY <1>10, <4>1, <4>2, <5>1
      <4>4. v.rank[ra] = k /\ \A x \in D \ {ra} : v.rank[x] = u.rank[x]
        BY <1>10, <1>12, <4>1
      <4> QED
        BY <1>14, <4>1, <4>2, <4>3, <4>4
    <3> QED
      BY <3>2, <3>3
  <2>2. w \in D /\ l \in D /\ u.parent[w] = w /\ u.parent[l] = l
    BY <1>12
  <2>3. v.parent \in [D -> D] /\ DOMAIN v.parent = D
    BY <1>10, <2>1, <2>2
  <2>4. \A x \in D : v.parent[x] = IF x = l THEN w ELSE u.parent[x]
    BY <1>10, <2>1, <2>2
  <2>5. ASSUME NEW x \in D, v.parent[x] # x PROVE v.rank[x] < v.rank[v.parent[x]]
    <3>1. /\ u.rank[x] \in 0..R /\ u.rank[w] \in 0..R /\ v.rank[w] \in 0..(R + 1)
          /\ u.parent[x] \in D /\ u.rank[u.parent[x]] \in 0..R
      BY <1>10, <2>1, <2>2
    <3>2. CASE x = l
      BY <2>1, <2>2, <2>4, <3>2
    <3>3. CASE x # l
      <4>1. x # w /\ u.parent[x] # x /\ v.parent[x] = u.parent[x]
        BY <2>2, <2>4, <2>5, <3>3
      <4>2. u.rank[x] < u.rank[u.parent[x]] /\ v.rank[x] = u.rank[x]
        BY <1>10, <2>1, <4>1
      <4> QED
        BY <2>1, <3>1, <4>1, <4>2
    <3> QED
      BY <3>2, <3>3
  <2>6. Forest(v, R + 1)
    BY <2>1, <2>3, <2>5 DEF Forest
  <2> DEFINE r == [x \in D |-> IF Root(u.parent, x) = l THEN w ELSE Root(u.parent, x)]
  <2>7. \A x \in D : r[x] = IF v.parent[x] = x THEN x ELSE r[v.parent[x]]
    <3> SUFFICES ASSUME NEW x \in D PROVE r[x] = IF v.parent[x] = x THEN x ELSE r[v.parent[x]]
      OBVIOUS
    <3>1. Root(u.parent, w) = w /\ Root(u.parent, l) = l
      BY <1>11, <2>2
    <3>2. CASE x = l
      BY <2>1, <2>2, <2>4, <3>1, <3>2
    <3>3. CASE x # l /\ u.parent[x] = x
      BY <1>11, <2>4, <3>3
    <3>4. CASE x # l /\ u.parent[x] # x
      BY <1>10, <1>11, <2>4, <3>4
    <3> QED
      BY <3>2, <3>3, <3>4
  <2>8. \A x \in D : Root(v.parent, x) = IF Root(u.parent, x) = l THEN w ELSE Root(u.parent, x)
    <3>1. \A x \in D : r[x] = IF Root(u.parent, x) = l THEN w ELSE Root(u.parent, x)
      OBVIOUS
    <3> HIDE DEF r, v
    <3> QED
      BY <2>3, <2>6, <2>7, <3>1, RootUnique
  <2>9. Tells(v, E \cup {e})
    <3>1. \A x, y \in D : Root(v.parent, x) = Root(v.parent, y) <=> Connected(E \cup {e}, x, y)
      <4>1. (w = ra /\ l = rb) \/ (w = rb /\ l = ra)
        BY <2>1
      <4>2. \A x, y \in D : Root(v.parent, x) = Root(v.parent, y) <=>
              \/ Root(u.parent, x) = Root(u.parent, y)
              \/ Root(u.parent, x) = w /\ Root(u.parent, y) = l
              \/ Root(u.parent, x) = l /\ Root(u.parent, y) = w
        BY <2>8
      <4> QED
        BY <1>9, <4>1, <4>2
    <3> QED
      BY <1>6, <1>8, <2>3, <3>1 DEF Tells
  <2> QED
    BY <1>3, <1>7, <2>3, <2>6, <2>9
<1> QED
  BY <1>13, <1>14
-----------------------------------------------------------------------------
\* Less is a strict total order.
LEMMA LessOrder ==
  /\ \A e, f \in Nat \X Nat : Less(e, f) \/ Less(f, e) \/ e = f
  /\ \A e, f \in Nat \X Nat : Less(e, f) => e # f /\ ~Less(f, e)
  /\ \A e, f, g \in Nat \X Nat : Less(e, f) /\ Less(f, g) => Less(e, g)
<1>1. \A e, f \in Nat \X Nat : e = f <=> e[1] = f[1] /\ e[2] = f[2]
  OBVIOUS
<1>2. \A e \in Nat \X Nat : e[1] \in Nat /\ e[2] \in Nat
  OBVIOUS
<1> QED
  BY <1>1, <1>2 DEF Less

\* A greater edge joins the forest if the others do not connect its ends.
LEMMA ForestAdd ==
  ASSUME NEW F \in SUBSET (Nat \X Nat), NEW e \in Nat \X Nat, \A f \in F : Less(f, e)
  PROVE  LeastForest(F \cup {e}) = IF Connected(F, e[1], e[2]) THEN LeastForest(F)
                                   ELSE LeastForest(F) \cup {e}
<1>1. {g \in F \cup {e} : Less(g, e)} = F
  BY LessOrder
<1>2. \A f \in F : {g \in F \cup {e} : Less(g, f)} = {g \in F : Less(g, f)}
  BY LessOrder
<1>3. e \notin F
  BY LessOrder
<1> DEFINE U == LeastForest(F \cup {e})
           V == LeastForest(F)
<1>4. e \in U <=> ~Connected(F, e[1], e[2])
  BY <1>1 DEF LeastForest
<1>5. \A f \in F : f \in U <=> f \in V
  BY <1>2 DEF LeastForest
<1>6. U \subseteq F \cup {e} /\ V \subseteq F
  BY DEF LeastForest
<1> HIDE DEF U, V
<1>7. CASE Connected(F, e[1], e[2])
  <2>1. U = V
    BY <1>4, <1>5, <1>6, <1>7
  <2> QED
    BY <1>7, <2>1 DEF U, V
<1>8. CASE ~Connected(F, e[1], e[2])
  <2>1. U = V \cup {e}
    BY <1>4, <1>5, <1>6, <1>8
  <2> QED
    BY <1>8, <2>1 DEF U, V
<1> QED
  BY <1>7, <1>8

\* The new union-find knows of no edge.
LEMMA NewUnionFind ==
  ASSUME NEW nodes \in SUBSET Nat
  PROVE  LET uf == newUnionFind(nodes)
         IN  Forest(uf, 0) /\ Tells(uf, {}) /\ DOMAIN uf.parent = nodes
<1> DEFINE uf == newUnionFind(nodes)
<1>1. /\ uf.parent = [n \in nodes |-> n] /\ uf.rank = [n \in nodes |-> 0]
      /\ uf = [parent |-> uf.parent, rank |-> uf.rank]
  BY DEF newUnionFind
<1> HIDE DEF uf
<1>2. Forest(uf, 0)
  BY <1>1 DEF Forest
<1>3. \A x \in nodes : Root(uf.parent, x) = x
  BY <1>1, <1>2, PathFacts
<1>4. Ends({}) = {} /\ {} \in SUBSET (Nat \X Nat)
  BY DEF Ends
<1>5. \A x, y \in Nat : Connected({}, x, y) <=> x = y
  <2> DEFINE none == {}
  <2>1. none \in SUBSET (Nat \X Nat) /\ \A x \in Nat : x \notin Ends(none)
    BY <1>4
  <2> HIDE DEF none
  <2>2. \A x, y \in Nat : Connected(none, x, y) <=> x = y
    BY <2>1, ConnectedEquivalence
  <2> QED
    BY <2>2 DEF none
<1>6. Tells(uf, {})
  <2>1. DOMAIN uf.parent = nodes
    BY <1>1
  <2>2. \A x, y \in nodes : Root(uf.parent, x) = Root(uf.parent, y) <=> Connected({}, x, y)
    BY <1>3, <1>5
  <2>3. Ends({}) \subseteq nodes
    BY <1>4
  <2> QED
    BY <2>1, <2>2, <2>3 DEF Tells
<1> QED
  BY <1>1, <1>2, <1>6 DEF uf

LEMMA OneMore == \A i \in Nat : 1..(i + 1) = 1..i \cup {i + 1}
OBVIOUS

\* After the loop the union-find knows of all edges, and those taken are the forest.
LEMMA LoopFacts ==
  ASSUME NEW nodes \in SUBSET Nat, NEW sorted \in Seq(Nat \X Nat),
         \A i, j \in 1..Len(sorted) : i < j => Less(sorted[i], sorted[j])
  PROVE  LET k == Loop(nodes, sorted)[Len(sorted)]
         IN  /\ k.mst = LeastForest(Range(sorted))
             /\ Forest(k.uf, Len(sorted)) /\ Tells(k.uf, Range(sorted))
             /\ DOMAIN k.uf.parent = nodes \cup Ends(Range(sorted))
<1> DEFINE N == Len(sorted)
           E(i) == {sorted[j] : j \in 1..i}
           Right(acc, i) ==
             /\ Forest(acc.uf, i) /\ Tells(acc.uf, E(i))
             /\ DOMAIN acc.uf.parent = nodes \cup Ends(E(i))
             /\ acc.mst = LeastForest(E(i))
           T == {i \in Nat : i <= N => Right(Loop(nodes, sorted)[i], i)}
<1>1. N \in Nat /\ \A i \in 1..N : sorted[i] \in Nat \X Nat
  BY LenProperties, ElementOfSeq
<1>2. /\ Loop(nodes, sorted)[0] = [uf |-> newUnionFind(nodes), mst |-> {}]
      /\ \A i \in 1..N : Loop(nodes, sorted)[i] = Take(Loop(nodes, sorted)[i - 1], sorted[i])
  BY LoopUnrolls
<1>3. 0 \in T
  <2> DEFINE acc == Loop(nodes, sorted)[0]
             uf == newUnionFind(nodes)
  <2>1. E(0) = {} /\ LeastForest({}) = {} /\ Ends({}) = {}
    BY DEF LeastForest, Ends
  <2>2. acc.uf = uf /\ acc.mst = {}
    BY <1>2
  <2>3. Forest(uf, 0) /\ Tells(uf, {}) /\ DOMAIN uf.parent = nodes
    BY NewUnionFind
  <2> HIDE DEF acc, uf, E
  <2>4. Right(acc, 0)
    BY <2>1, <2>2, <2>3
  <2> QED
    BY <2>4 DEF acc
<1>4. ASSUME NEW i \in Nat, i + 1 <= N, NEW acc, Right(acc, i)
      PROVE  Right(Take(acc, sorted[i + 1]), i + 1)
  <2> DEFINE e == sorted[i + 1]
             F == E(i)
             new == Take(acc, e)
  <2>1. e \in Nat \X Nat /\ F \in SUBSET (Nat \X Nat) /\ \A f \in F : Less(f, e)
    <3>1. i + 1 \in 1..N /\ \A j \in 1..i : j \in 1..N /\ j < i + 1
      BY <1>1, <1>4
    <3>2. \A j \in 1..i : sorted[j] \in Nat \X Nat /\ Less(sorted[j], sorted[i + 1])
      BY <1>1, <3>1
    <3> QED
      BY <1>1, <3>1, <3>2
  <2>2. E(i + 1) = F \cup {e}
    <3>1. \A j : j \in 1..(i + 1) <=> j \in 1..i \/ j = i + 1
      BY OneMore
    <3>2. \A g : g \in E(i + 1) <=> g \in F \/ g = e
      BY <3>1
    <3> QED
      BY <3>2
  <2>3. Forest(acc.uf, i) /\ Tells(acc.uf, F) /\ DOMAIN acc.uf.parent = nodes \cup Ends(F) /\ acc.mst = LeastForest(F)
    BY <1>4
  <2> HIDE DEF e, F
  <2>4. /\ Forest(new.uf, i + 1) /\ Tells(new.uf, F \cup {e})
        /\ DOMAIN new.uf.parent = DOMAIN acc.uf.parent \cup {e[1], e[2]}
        /\ new.mst = IF Connected(F, e[1], e[2]) THEN acc.mst ELSE acc.mst \cup {e}
    BY <1>4, <2>1, <2>3, UnionFacts DEF Take
  <2>5. Ends(F \cup {e}) = Ends(F) \cup {e[1], e[2]}
    BY DEF Ends
  <2>6. LeastForest(F \cup {e}) = IF Connected(F, e[1], e[2]) THEN LeastForest(F)
                                  ELSE LeastForest(F) \cup {e}
    BY <2>1, ForestAdd
  <2> QED
    BY <2>2, <2>3, <2>4, <2>5, <2>6 DEF e, F
<1>5. ASSUME NEW i \in T \cap Nat PROVE i + 1 \in T
  <2> HIDE DEF Right
  <2> SUFFICES ASSUME i + 1 <= N PROVE Right(Loop(nodes, sorted)[i + 1], i + 1)
    OBVIOUS
  <2>1. Right(Loop(nodes, sorted)[i], i)
    BY <1>1
  <2>2. Loop(nodes, sorted)[i + 1] = Take(Loop(nodes, sorted)[i], sorted[i + 1])
    BY <1>1, <1>2
  <2> QED
    BY <1>4, <2>1, <2>2
<1>6. N \in T
  <2> HIDE DEF T
  <2> QED
    BY <1>1, <1>3, <1>5, NatSet
<1>7. E(N) = Range(sorted)
  BY LenProperties DEF Range
<1>8. Right(Loop(nodes, sorted)[N], N)
  BY <1>1, <1>6
<1> HIDE DEF E
<1> QED
  BY <1>7, <1>8

\* Sorted lists the edges in their order: places are 1 to n, and no two edges share one.
LEMMA SortedFacts ==
  ASSUME NEW edges \in SUBSET (Nat \X Nat), IsFiniteSet(edges)
  PROVE  /\ Sorted(edges) \in Seq(Nat \X Nat) /\ Range(Sorted(edges)) = edges
         /\ \A i, j \in 1..Len(Sorted(edges)) : i < j => Less(Sorted(edges)[i], Sorted(edges)[j])
<1> DEFINE n == Cardinality(edges)
           s == Sorted(edges)
           Upto(e) == {f \in edges : ~Less(e, f)}
           place == Place(edges)
<1>1. place = [e \in edges |-> Cardinality(Upto(e))]
  BY DEF Place
<1> HIDE DEF place
<1>2. n \in Nat
  BY FS_CardinalityType
<1>3. \A e \in edges : e \in Nat \X Nat
  OBVIOUS
<1>4. ASSUME NEW e \in edges
      PROVE  IsFiniteSet(Upto(e)) /\ place[e] \in 1..n
  <2>1. IsFiniteSet(Upto(e)) /\ Cardinality(Upto(e)) <= n
    BY FS_Subset
  <2>2. Cardinality(Upto(e)) \in Nat
    BY <2>1, FS_CardinalityType
  <2>3. e \in Upto(e)
    BY <1>3, LessOrder
  <2>4. Cardinality(Upto(e)) # 0
    BY <2>1, <2>3, FS_EmptySet
  <2> QED
    BY <1>1, <1>2, <2>1, <2>2, <2>4
<1>5. ASSUME NEW e \in edges, NEW g \in edges, Less(e, g)
      PROVE  place[e] < place[g]
  <2>1. Upto(e) \subseteq Upto(g)
    BY <1>3, <1>5, LessOrder
  <2>2. g \in Upto(g) /\ g \notin Upto(e)
    BY <1>3, <1>5, LessOrder
  <2>3. /\ IsFiniteSet(Upto(g))
        /\ place[e] = Cardinality(Upto(e)) /\ place[g] = Cardinality(Upto(g))
        /\ place[e] \in 1..n /\ place[g] \in 1..n
    BY <1>1, <1>4
  <2> HIDE DEF Upto
  <2>4. Cardinality(Upto(e)) <= Cardinality(Upto(g)) /\ Cardinality(Upto(e)) # Cardinality(Upto(g))
    BY <2>1, <2>2, <2>3, FS_Subset
  <2> QED
    BY <1>2, <2>3, <2>4
<1>6. \A e, g \in edges : place[e] = place[g] => e = g
  <2> SUFFICES ASSUME NEW e \in edges, NEW g \in edges, e # g
               PROVE  place[e] # place[g]
    OBVIOUS
  <2>1. place[e] \in 1..n /\ place[g] \in 1..n
    BY <1>4
  <2>2. Less(e, g) \/ Less(g, e)
    BY <1>3, LessOrder
  <2> QED
    BY <1>2, <1>5, <2>1, <2>2
<1>7. \A i \in 1..n : \E e \in edges : place[e] = i
  <2>1. place \in Injection(edges, 1..n) /\ DOMAIN place = edges
    BY <1>1, <1>4, <1>6 DEF Injection, IsInjective
  <2>2. IsFiniteSet(1..n) /\ Cardinality(1..n) = n
    BY <1>2, FS_Interval
  <2> HIDE DEF n
  <2>3. place \in Surjection(edges, 1..n)
    BY <2>1, <2>2, FS_Injection DEF n
  <2>4. \A i \in 1..n : \E e \in edges : place[e] = i
    BY <2>3 DEF Surjection
  <2> QED
    BY <2>4
<1>8. s = [i \in 1..n |-> CHOOSE e \in edges : i \in Range(place) => place[e] = i]
  BY DEF Sorted, Inverse, place
<1>9. \A i \in 1..n : s[i] \in edges /\ place[s[i]] = i
  <2>1. \A i \in 1..n : i \in Range(place)
    BY <1>1, <1>7 DEF Range
  <2> QED
    BY <1>7, <1>8, <2>1
<1> HIDE DEF s, n
<1>10. s \in [1..n -> edges]
  BY <1>8, <1>9
<1>11. s \in Seq(Nat \X Nat) /\ Len(s) = n /\ DOMAIN s = 1..n
  <2>1. s \in [1..n -> Nat \X Nat]
    BY <1>10
  <2> QED
    BY <1>2, <2>1, SeqDef, LenProperties
<1>12. Range(s) = edges
  <2>1. \A e \in edges : place[e] \in 1..n /\ s[place[e]] = e
    BY <1>4, <1>6, <1>9
  <2> QED
    BY <1>9, <1>11, <2>1 DEF Range
<1>13. ASSUME NEW i \in 1..n, NEW j \in 1..n, i < j PROVE Less(s[i], s[j])
  <2>1. /\ s[i] \in edges /\ s[j] \in edges
        /\ place[s[i]] = i /\ place[s[j]] = j
    BY <1>9
  <2>2. ~Less(s[j], s[i])
    BY <1>2, <1>5, <1>13, <2>1
  <2>3. s[i] # s[j]
    BY <1>13, <2>1
  <2> QED
    BY <1>3, <2>1, <2>2, <2>3, LessOrder
<1> QED
  BY <1>11, <1>12, <1>13 DEF s
-----------------------------------------------------------------------------
(***************************************************************************)
(* mst.go, ComputeMST: for any finite set of edges, whether or not their   *)
(* ends are among the nodes it is given, the result is the one spanning    *)
(* forest the order of the edges singles out, and the union-find it leaves *)
(* tells connected from unconnected, with ranks that grow.                 *)
(***************************************************************************)
THEOREM KruskalCorrect ==
  ASSUME NEW nodes \in SUBSET Nat, NEW edges \in SUBSET (Nat \X Nat), IsFiniteSet(edges)
  PROVE  /\ ComputeMST(nodes, edges) = LeastForest(edges)
         /\ Sound(Kruskal(nodes, edges).uf, edges)
         /\ DOMAIN Kruskal(nodes, edges).uf.parent = nodes \cup Ends(edges)
<1> DEFINE sorted == Sorted(edges)
           k == Kruskal(nodes, edges)
<1>1. /\ sorted \in Seq(Nat \X Nat) /\ Range(sorted) = edges
      /\ \A i, j \in 1..Len(sorted) : i < j => Less(sorted[i], sorted[j])
  BY SortedFacts
<1>2. k = Loop(nodes, sorted)[Len(sorted)]
  BY DEF Kruskal
<1> HIDE DEF sorted, k
<1>3. /\ k.mst = LeastForest(edges)
      /\ Forest(k.uf, Len(sorted)) /\ Tells(k.uf, edges)
      /\ DOMAIN k.uf.parent = nodes \cup Ends(edges)
  BY <1>1, <1>2, LoopFacts
<1>4. Sound(k.uf, edges)
  BY <1>3 DEF Forest, Tells, Sound
<1> QED
  BY <1>3, <1>4 DEF ComputeMST, k
-----------------------------------------------------------------------------
(***************************************************************************)
(* The forest and its neighbours.                                          *)
(***************************************************************************)
(***************************************************************************)
(* mst.go, ComputeMST: what the order of the edges singles out is a        *)
(* spanning forest: it connects what the edges connect, and without any    *)
(* one of its edges it would not.                                          *)
(***************************************************************************)
THEOREM ForestSpans ==
  ASSUME NEW edges \in SUBSET (Nat \X Nat), IsFiniteSet(edges)
  PROVE  LET forest == LeastForest(edges)
         IN  /\ \A x, y \in Nat : Connected(forest, x, y) <=> Connected(edges, x, y)
             /\ \A e \in forest : ~Connected(forest \ {e}, e[1], e[2])
<1> DEFINE s == Sorted(edges)
           E(i) == {s[j] : j \in 1..i}
           Spans(F) == \A x, y \in Nat : Connected(LeastForest(F), x, y) <=> Connected(F, x, y)
           Needs(F) == \A e \in LeastForest(F) : ~Connected(LeastForest(F) \ {e}, e[1], e[2])
           T == {i \in Nat : i <= Len(s) => Spans(E(i)) /\ Needs(E(i))}
<1>1. /\ s \in Seq(Nat \X Nat) /\ Range(s) = edges
      /\ \A i, j \in 1..Len(s) : i < j => Less(s[i], s[j])
  BY SortedFacts
<1> HIDE DEF s
<1>2. Len(s) \in Nat /\ DOMAIN s = 1..Len(s) /\ \A i \in 1..Len(s) : s[i] \in Nat \X Nat
  BY <1>1, LenProperties, ElementOfSeq
<1>3. 0 \in T
  <2>1. E(0) = {} /\ LeastForest({}) = {}
    BY DEF LeastForest
  <2> QED
    BY <2>1
<1>4. ASSUME NEW F \in SUBSET (Nat \X Nat), NEW e \in Nat \X Nat, \A f \in F : Less(f, e),
             Spans(F), Needs(F)
      PROVE  Spans(F \cup {e}) /\ Needs(F \cup {e})
  <2> DEFINE V == LeastForest(F)
             U == LeastForest(F \cup {e})
  <2>1. U = IF Connected(F, e[1], e[2]) THEN V ELSE V \cup {e}
    BY <1>4, ForestAdd
  <2>2. /\ V \in SUBSET (Nat \X Nat) /\ V \subseteq F /\ e \notin V
        /\ e[1] \in Nat /\ e[2] \in Nat
        /\ \A x, y \in Nat : Connected(V, x, y) <=> Connected(F, x, y)
        /\ \A g \in V : ~Connected(V \ {g}, g[1], g[2])
    BY <1>4, LessOrder DEF LeastForest
  <2>3. \A x, y \in Nat : Connected(F \cup {e}, x, y) <=>
           \/ Connected(F, x, y)
           \/ Connected(F, x, e[1]) /\ Connected(F, y, e[2])
           \/ Connected(F, x, e[2]) /\ Connected(F, y, e[1])
    BY <1>4, ConnectedAdd
  <2> HIDE DEF U, V
  <2>4. CASE Connected(F, e[1], e[2])
    <3>1. U = V
      BY <2>1, <2>4
    <3>2. \A x, y \in Nat : Connected(F \cup {e}, x, y) <=> Connected(F, x, y)
      <4>1. Connected(F, e[2], e[1])
        BY <1>4, <2>2, <2>4, ConnectedEquivalence
      <4>2. /\ \A x, y \in Nat : Connected(F, x, y) => Connected(F, y, x)
            /\ \A x, y, z \in Nat : Connected(F, x, y) /\ Connected(F, y, z) => Connected(F, x, z)
        BY <1>4, ConnectedEquivalence
      <4> QED
        BY <2>2, <2>3, <2>4, <4>1, <4>2
    <3> QED
      BY <2>2, <3>1, <3>2 DEF U, V
  <2>5. CASE ~Connected(F, e[1], e[2])
    <3>1. U = V \cup {e} /\ U \ {e} = V
      BY <2>1, <2>2, <2>5
    <3>2. \A x, y \in Nat : Connected(V \cup {e}, x, y) <=>
             \/ Connected(V, x, y)
             \/ Connected(V, x, e[1]) /\ Connected(V, y, e[2])
             \/ Connected(V, x, e[2]) /\ Connected(V, y, e[1])
      BY <1>4, <2>2, ConnectedAdd
    <3>3. \A x, y \in Nat : Connected(U, x, y) <=> Connected(F \cup {e}, x, y)
      BY <2>2, <2>3, <3>1, <3>2
    <3>4. ~Connected(U \ {e}, e[1], e[2])
      BY <2>2, <2>5, <3>1
    <3>5. ASSUME NEW g \in V PROVE ~Connected(U \ {g}, g[1], g[2])
      <4> DEFINE W == V \ {g}
                 a == g[1]
                 b == g[2]
      <4>1. /\ W \in SUBSET (Nat \X Nat) /\ W \subseteq V /\ a \in Nat /\ b \in Nat
            /\ U \ {g} = W \cup {e} /\ ~Connected(W, a, b) /\ Connected(V, a, b)
        <5>1. U \ {g} = W \cup {e}
          BY <2>2, <3>1, <3>5
        <5>2. Connected(V, a, b)
          BY <2>2, <3>5, ConnectedEquivalence
        <5> QED
          BY <2>2, <3>5, <5>1, <5>2
      <4> HIDE DEF W, a, b
      <4>2. \A x, y \in Nat : Connected(W, x, y) => Connected(V, x, y)
        BY <2>2, <4>1, ConnectedMore
      <4>3. Connected(W \cup {e}, a, b) <=>
             \/ Connected(W, a, b)
             \/ Connected(W, a, e[1]) /\ Connected(W, b, e[2])
             \/ Connected(W, a, e[2]) /\ Connected(W, b, e[1])
        BY <1>4, <4>1, ConnectedAdd
      <4>4. ~Connected(V, e[1], e[2]) /\ ~Connected(V, e[2], e[1])
        BY <2>2, <2>5, ConnectedEquivalence
      <4>5. ~(Connected(V, a, e[1]) /\ Connected(V, b, e[2])) /\ ~(Connected(V, a, e[2]) /\ Connected(V, b, e[1]))
        BY <2>2, <4>1, <4>4, ConnectedEquivalence
      <4>6. ~Connected(W \cup {e}, a, b)
        BY <2>2, <4>1, <4>2, <4>3, <4>5
      <4> QED
        BY <4>1, <4>6 DEF a, b
    <3> QED
      BY <3>1, <3>3, <3>4, <3>5 DEF U
  <2> QED
    BY <2>4, <2>5
<1>5. ASSUME NEW i \in T \cap Nat PROVE i + 1 \in T
  <2> HIDE DEF Spans, Needs
  <2> SUFFICES ASSUME i + 1 <= Len(s) PROVE Spans(E(i + 1)) /\ Needs(E(i + 1))
    OBVIOUS
  <2> DEFINE e == s[i + 1]
             F == E(i)
  <2>1. i + 1 \in 1..Len(s) /\ \A j \in 1..i : j \in 1..Len(s) /\ j < i + 1
    BY <1>2
  <2>2. e \in Nat \X Nat /\ \A j \in 1..i : s[j] \in Nat \X Nat /\ Less(s[j], e)
    BY <1>1, <1>2, <2>1
  <2>3. F \in SUBSET (Nat \X Nat) /\ \A f \in F : Less(f, e)
    BY <2>2
  <2>4. E(i + 1) = F \cup {e}
    <3>1. \A j : j \in 1..(i + 1) <=> j \in 1..i \/ j = i + 1
      OBVIOUS
    <3>2. \A g : g \in E(i + 1) <=> g \in F \/ g = e
      BY <3>1
    <3> QED
      BY <3>2
  <2>5. Spans(F) /\ Needs(F)
    BY <1>2
  <2> HIDE DEF e, E, F
  <2> QED
    BY <1>4, <2>2, <2>3, <2>4, <2>5
<1>6. Len(s) \in T
  <2> HIDE DEF T
  <2> QED
    BY <1>2, <1>3, <1>5, NatSet
<1>7. E(Len(s)) = edges
  BY <1>1, <1>2 DEF Range
<1>8. Spans(E(Len(s))) /\ Needs(E(Len(s)))
  <2> HIDE DEF Spans, Needs, E
  <2> QED
    BY <1>2, <1>6
<1> HIDE DEF E
<1> QED
  BY <1>7, <1>8

\* An edge of the forest stays one when other edges go.
LEMMA ForestLess ==
  ASSUME NEW E \in SUBSET (Nat \X Nat), NEW F \in SUBSET (Nat \X Nat), E \subseteq F,
         NEW e \in E, e \in LeastForest(F)
  PROVE  e \in LeastForest(E)
<1> DEFINE L(G) == {f \in G : Less(f, e)}
<1>1. L(E) \in SUBSET (Nat \X Nat) /\ L(F) \in SUBSET (Nat \X Nat) /\ L(E) \subseteq L(F)
  OBVIOUS
<1>2. e[1] \in Nat /\ e[2] \in Nat /\ ~Connected(L(F), e[1], e[2])
  BY DEF LeastForest
<1> HIDE DEF L
<1>3. ~Connected(L(E), e[1], e[2])
  BY <1>1, <1>2, ConnectedMore
<1> QED
  BY <1>3 DEF LeastForest, L

\* Of edges that lie the right way round, the neighbours of n are the other ends of those at n.
LEMMA NeighborsEdges ==
  ASSUME NEW mst \in SUBSET (Nat \X Nat), \A e \in mst : e[1] < e[2], NEW n \in Nat, NEW p \in Nat
  PROVE  p \in LocalNeighbors(n, mst) <=> newEdge(n, p) \in mst
<1>1. p \in LocalNeighbors(n, mst) <=> \E e \in mst : (e[1] = n /\ e[2] = p) \/ (e[2] = n /\ e[1] = p /\ e[1] # n)
  BY DEF LocalNeighbors
<1>2. \A e \in mst : e = <<e[1], e[2]>> /\ e[1] \in Nat /\ e[2] \in Nat
  OBVIOUS
<1>3. ASSUME NEW e \in mst, (e[1] = n /\ e[2] = p) \/ (e[2] = n /\ e[1] = p /\ e[1] # n)
      PROVE  newEdge(n, p) \in mst
  BY <1>2, <1>3 DEF newEdge
<1>4. ASSUME newEdge(n, p) \in mst
      PROVE  \E e \in mst : (e[1] = n /\ e[2] = p) \/ (e[2] = n /\ e[1] = p /\ e[1] # n)
  <2> DEFINE e == newEdge(n, p)
  <2>1. e \in mst /\ e[1] < e[2]
    BY <1>4
  <2>2. (e[1] = n /\ e[2] = p) \/ (e[2] = n /\ e[1] = p /\ e[1] # n)
    BY <2>1 DEF newEdge
  <2> QED
    BY <2>1, <2>2
<1> QED
  BY <1>1, <1>3, <1>4

\* newEdge does not ask which end comes first.
LEMMA NewEdgeSame ==
  \A x, y \in Nat : /\ newEdge(x, y) = newEdge(y, x) /\ newEdge(x, y) \in Nat \X Nat
                    /\ newEdge(x, y)[1] <= newEdge(x, y)[2]
                    /\ \A v, w \in Nat : newEdge(v, w) = newEdge(x, y) => (v = x /\ w = y) \/ (v = y /\ w = x)
<1> SUFFICES ASSUME NEW x \in Nat, NEW y \in Nat
             PROVE  /\ newEdge(x, y) = newEdge(y, x) /\ newEdge(x, y) \in Nat \X Nat
                    /\ newEdge(x, y)[1] <= newEdge(x, y)[2]
                    /\ \A v, w \in Nat : newEdge(v, w) = newEdge(x, y) => (v = x /\ w = y) \/ (v = y /\ w = x)
  OBVIOUS
<1>1. newEdge(x, y) = newEdge(y, x)
  BY DEF newEdge
<1>2. newEdge(x, y) \in Nat \X Nat /\ newEdge(x, y)[1] <= newEdge(x, y)[2]
  BY DEF newEdge
<1>3. \A v, w \in Nat : newEdge(v, w) = newEdge(x, y) => (v = x /\ w = y) \/ (v = y /\ w = x)
  BY DEF newEdge
<1> QED
  BY <1>1, <1>2, <1>3

\* The forest has no edge from a node to itself.
LEMMA ForestNeighbors ==
  ASSUME NEW E \in SUBSET (Nat \X Nat), \A e \in E : e[1] <= e[2], NEW n \in Nat, NEW p \in Nat
  PROVE  p \in LocalNeighbors(n, LeastForest(E)) <=> newEdge(n, p) \in LeastForest(E)
<1>1. \A e \in LeastForest(E) : e \in E /\ e[1] # e[2]
  <2> SUFFICES ASSUME NEW e \in LeastForest(E) PROVE e \in E /\ e[1] # e[2]
    OBVIOUS
  <2>1. e \in E /\ ~Connected({f \in E : Less(f, e)}, e[1], e[2])
    BY DEF LeastForest
  <2> QED
    BY <2>1 DEF Connected
<1>2. LeastForest(E) \in SUBSET (Nat \X Nat) /\ \A e \in LeastForest(E) : e[1] < e[2]
  <2>1. \A e \in LeastForest(E) : e \in Nat \X Nat /\ e[1] \in Nat /\ e[2] \in Nat /\ e[1] <= e[2]
    BY <1>1
  <2> QED
    BY <1>1, <2>1
<1> QED
  BY <1>2, NeighborsEdges

\* A node with an edge has one in the forest: the least of its edges.
LEMMA ForestTouches ==
  ASSUME NEW E \in SUBSET (Nat \X Nat), IsFiniteSet(E), \A e \in E : e[1] <= e[2],
         NEW n \in Nat, NEW e0 \in E, e0[1] # e0[2], n \in {e0[1], e0[2]}
  PROVE  LocalNeighbors(n, LeastForest(E)) # {}
<1> DEFINE At == {e \in E : e[1] # e[2] /\ n \in {e[1], e[2]}}
           s == Sorted(At)
           a == s[1]
<1>1. At \in SUBSET (Nat \X Nat) /\ IsFiniteSet(At) /\ e0 \in At
  BY FS_Subset
<1> HIDE DEF At
<1>2. /\ s \in Seq(Nat \X Nat) /\ Range(s) = At
      /\ \A i, j \in 1..Len(s) : i < j => Less(s[i], s[j])
  BY <1>1, SortedFacts
<1> HIDE DEF s
<1>3. Len(s) \in Nat /\ DOMAIN s = 1..Len(s) /\ \A f \in At : \E i \in 1..Len(s) : f = s[i]
  BY <1>2, LenProperties DEF Range
<1>4. 1 \in 1..Len(s) /\ a \in At
  <2>1. PICK i \in 1..Len(s) : e0 = s[i]
    BY <1>1, <1>3
  <2>2. 1 \in 1..Len(s)
    BY <1>3, <2>1
  <2>3. s[1] \in Range(s)
    BY <1>3, <2>2 DEF Range
  <2> QED
    BY <1>2, <2>2, <2>3
<1>5. \A f \in At : f = a \/ Less(a, f)
  BY <1>2, <1>3, <1>4
<1> HIDE DEF a
<1>6. \A f \in At : f \in Nat \X Nat /\ ~Less(f, a)
  BY <1>1, <1>4, <1>5, LessOrder
<1>7. a \in E /\ a[1] \in Nat /\ a[2] \in Nat /\ a[1] # a[2] /\ n \in {a[1], a[2]}
  BY <1>4 DEF At
<1> DEFINE G == {f \in E : Less(f, a)}
<1>8. G \in SUBSET (Nat \X Nat)
  OBVIOUS
<1>9. \A f \in G : f[1] = f[2] \/ (n # f[1] /\ n # f[2])
  BY <1>6 DEF At
<1> HIDE DEF G
<1>10. Closed(G, {n})
  BY <1>9 DEF Closed
<1>11. ~Connected(G, a[1], a[2])
  <2>1. \A y \in Nat : Connected(G, n, y) => y = n
    BY <1>8, <1>10, ConnectedClosed
  <2> QED
    BY <1>7, <1>8, <2>1, ConnectedEquivalence
<1>12. a \in LeastForest(E)
  BY <1>7, <1>11 DEF LeastForest, G
<1>13. PICK p \in Nat : newEdge(n, p) = a
  <2>1. a = <<a[1], a[2]>> /\ a[1] <= a[2]
    BY <1>7
  <2> QED
    BY <1>7, <2>1 DEF newEdge
<1> QED
  BY <1>12, <1>13, ForestNeighbors

\* Some edges of a forest are a forest.
LEMMA ForestPart ==
  ASSUME NEW F \in SUBSET (Nat \X Nat), NEW E, E \subseteq LeastForest(F)
  PROVE  LeastForest(E) = E
<1>1. E \subseteq F /\ E \in SUBSET (Nat \X Nat) /\ \A e \in E : e \in LeastForest(F)
  BY DEF LeastForest
<1>2. \A e \in E : e \in LeastForest(E)
  BY <1>1, ForestLess
<1> QED
  BY <1>2 DEF LeastForest

(***************************************************************************)
(* Whoever knows of all edges of its part of the graph, and of no other    *)
(* than the graph's, knows which of them belong to the forest.             *)
(***************************************************************************)
LEMMA ForestOfPart ==
  ASSUME NEW E \in SUBSET (Nat \X Nat), NEW F \in SUBSET (Nat \X Nat), E \subseteq F,
         NEW n \in Nat, \A e \in F : Connected(F, n, e[1]) => e \in E,
         NEW e \in F, Connected(F, n, e[1])
  PROVE  e \in LeastForest(E) <=> e \in LeastForest(F)
<1> DEFINE L(G) == {f \in G : Less(f, e)}
           K == {w \in Nat : Connected(F, n, w)}
<1>1. /\ L(E) \in SUBSET (Nat \X Nat) /\ L(F) \in SUBSET (Nat \X Nat)
      /\ e \in E /\ e[1] \in Nat /\ e[2] \in Nat
  OBVIOUS
<1>2. /\ \A f \in F : f[1] \in Nat /\ f[2] \in Nat /\ Connected(F, f[1], f[2]) /\ Connected(F, f[2], f[1])
      /\ \A x, y \in Nat : Connected(F, n, x) /\ Connected(F, x, y) => Connected(F, n, y)
  BY ConnectedEquivalence
<1>3. K \in SUBSET Nat /\ Closed(F, K) /\ e[1] \in K
  BY <1>1, <1>2 DEF Closed
<1>4. \A f \in L(F) : f[1] \in K => f \in L(E)
  OBVIOUS
<1>5. \A f \in L(F) : f[1] \in K <=> f[2] \in K
  BY <1>3 DEF Closed
<1>6. e \in LeastForest(E) <=> ~Connected(L(E), e[1], e[2])
  BY <1>1 DEF LeastForest
<1>7. e \in LeastForest(F) <=> ~Connected(L(F), e[1], e[2])
  BY DEF LeastForest
<1> HIDE DEF L, K
<1>8. ASSUME ~Connected(L(E), e[1], e[2])
      PROVE  ~Connected(L(F), e[1], e[2])
  <2>1. PICK C \in SUBSET Nat : Closed(L(E), C) /\ e[1] \in C /\ e[2] \notin C
    BY <1>1, <1>8, ConnectedClosed
  <2>2. Closed(L(F), C \cap K)
    BY <1>4, <1>5, <2>1 DEF Closed
  <2>3. C \cap K \in SUBSET Nat /\ e[1] \in C \cap K /\ e[2] \notin C \cap K
    BY <1>3, <2>1
  <2> QED
    BY <1>1, <2>2, <2>3, ConnectedClosed
<1>9. e \in LeastForest(F) => e \in LeastForest(E)
  BY <1>1, ForestLess
<1> QED
  BY <1>6, <1>7, <1>8, <1>9

\* So it knows its neighbours in the forest.
LEMMA NeighborsOfPart ==
  ASSUME NEW E \in SUBSET (Nat \X Nat), NEW F \in SUBSET (Nat \X Nat), E \subseteq F,
         \A e \in F : e[1] <= e[2],
         NEW n \in Nat, \A e \in F : Connected(F, n, e[1]) => e \in E
  PROVE  LocalNeighbors(n, LeastForest(E)) = LocalNeighbors(n, LeastForest(F))
<1>1. LeastForest(E) \subseteq E /\ LeastForest(F) \subseteq F /\ \A e \in E : e[1] <= e[2]
  BY DEF LeastForest
<1>2. LocalNeighbors(n, LeastForest(E)) \subseteq Nat /\ LocalNeighbors(n, LeastForest(F)) \subseteq Nat
  <2>1. \A e \in F : e[1] \in Nat /\ e[2] \in Nat
    OBVIOUS
  <2> QED
    BY <1>1, <2>1 DEF LocalNeighbors
<1>3. ASSUME NEW p \in Nat, newEdge(n, p) \in F
      PROVE  newEdge(n, p) \in LeastForest(E) <=> newEdge(n, p) \in LeastForest(F)
  <2> DEFINE e == newEdge(n, p)
  <2>1. e[1] \in Nat /\ e[2] \in Nat /\ n \in {e[1], e[2]}
    BY DEF newEdge
  <2> HIDE DEF e
  <2>2. e \in F
    BY <1>3 DEF e
  <2>3. Connected(F, e[2], e[1]) /\ Connected(F, n, n)
    BY <2>1, <2>2, ConnectedEquivalence
  <2>4. Connected(F, n, e[1])
    BY <2>1, <2>3
  <2>5. e \in LeastForest(E) <=> e \in LeastForest(F)
    BY <2>2, <2>4, ForestOfPart
  <2> QED
    BY <2>5 DEF e
<1>4. \A p \in Nat : newEdge(n, p) \in LeastForest(E) <=> newEdge(n, p) \in LeastForest(F)
  BY <1>1, <1>3
<1>5. \A p \in Nat : /\ p \in LocalNeighbors(n, LeastForest(E)) <=> newEdge(n, p) \in LeastForest(E)
                     /\ p \in LocalNeighbors(n, LeastForest(F)) <=> newEdge(n, p) \in LeastForest(F)
  BY <1>1, ForestNeighbors
<1> QED
  BY <1>2, <1>4, <1>5
=============================================================================
