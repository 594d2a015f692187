----------------------- MODULE AdaptiveHuffman_proofs -----------------------
(***************************************************************************)
(* Theorems about AdaptiveHuffman, for every alphabet.  First the shape of *)
(* the array and the weights in the middle of a walk, then what the        *)
(* operators of HuffmanTree do to them, then the two coders, and at last   *)
(* that the code is as short as Huffman's.                                 *)
(***************************************************************************)
EXTENDS AdaptiveHuffman, TLAPS, WellFoundedInduction, FiniteSetTheorems, SequenceTheorems

-------------------------------------------------------------------------------
(* The invariant of one coder. *)

Bits == {0, 1}
Place == Nodes \cup {NIL}
Node == [weight : Nat, symbol : 0 .. alphabet_size + 1, parent : Place, left : Place, right : Place]

Coder == [tree : [Nodes -> Node], nyt_node : Nodes, next_free_slot : 1 .. 2 * alphabet_size + 1,
          map_leaf : [Symbols -> Place], map_code : [0 .. alphabet_size -> Seq(Bits) \cup {NoCode}]]

\* Every node but the root is a child of an earlier one.
Rooted(t, f) ==
  /\ t[0].parent = NIL
  /\ \A n \in 1 .. f - 1 : /\ t[n].parent \in 0 .. n - 1
                           /\ t[t[n].parent].left = n \/ t[t[n].parent].right = n

\* Inner nodes have two children, which come later; leaves have none.
Branches(t, f) ==
  \A n \in 0 .. f - 1 :
    /\ t[n].symbol # Inner => t[n].left = NIL /\ t[n].right = NIL
    /\ t[n].symbol = Inner =>
         /\ t[n].left \in n + 1 .. f - 1 /\ t[n].right \in n + 1 .. f - 1
         /\ t[n].left # t[n].right
         /\ t[t[n].left].parent = n /\ t[t[n].right].parent = n

\* The last three slots are those of the last split, whatever was swapped.
LastSplit(t, f) ==
  f > 1 => f >= 3 /\ t[f - 1].parent = f - 3 /\ t[f - 2].parent = f - 3

Unused(t, f) == \A n \in Nodes : n >= f => t[n] = NewNode

Labels(h) ==
  /\ h.nyt_node = h.next_free_slot - 1
  /\ \A n \in 0 .. h.next_free_slot - 1 :
       /\ h.tree[n].symbol = NYT <=> n = h.nyt_node
       /\ h.tree[n].symbol \in Symbols => h.map_leaf[h.tree[n].symbol] = n
  /\ \A s \in Symbols : Seen(h, s) => /\ h.map_leaf[s] \in 0 .. h.next_free_slot - 1
                                      /\ h.tree[h.map_leaf[s]].symbol = s
  /\ h.next_free_slot = 1 + 2 * Cardinality({s \in Symbols : Seen(h, s)})

Shape(h) ==
  /\ h \in Coder
  /\ Rooted(h.tree, h.next_free_slot) /\ Branches(h.tree, h.next_free_slot)
  /\ LastSplit(h.tree, h.next_free_slot) /\ Unused(h.tree, h.next_free_slot)
  /\ Labels(h)

(* The weights when x is the node to be incremented next, or NIL when the  *)
(* walk has reached the top: what stands between the children and their    *)
(* sum is one increment.                                                   *)
Sums(t, f, x) ==
  \A n \in 0 .. f - 1 : t[n].symbol = Inner =>
    t[t[n].left].weight + t[t[n].right].weight = t[n].weight + (IF n = x THEN 1 ELSE 0)

\* The child before the last may be one ahead of its parent, which then has a
\* block of its own.
Falling(t, f, x) ==
  /\ \A i, j \in 0 .. f - 1 : i < j /\ ~ (x = f - 3 /\ i = x /\ j = f - 2) => t[j].weight <= t[i].weight
  /\ x = f - 3 => \A n \in 0 .. f - 1 : n < x => t[x].weight < t[n].weight

\* Only the NYT leaf weighs nothing, and what the last split made until the
\* walk has passed it.
Positive(t, f, x) ==
  /\ t[f - 1].weight = 0
  /\ \A n \in 0 .. f - 2 : t[n].weight = 0 => (x = f - 2 /\ n >= f - 3) \/ (x = f - 3 /\ n = x)

Weighed(t, f, x) ==
  /\ x \in 0 .. f - 2 \/ x = NIL
  /\ Sums(t, f, x) /\ Falling(t, f, x) /\ Positive(t, f, x)

OnWay(h, x) == Shape(h) /\ Weighed(h.tree, h.next_free_slot, x)

-------------------------------------------------------------------------------
(* Naturals. *)

\* A set of naturals with 0 and closed under successor is all of Nat.
LEMMA NatSetInduction ==
  ASSUME NEW T \in SUBSET Nat, 0 \in T, \A n \in T : n + 1 \in T
  PROVE  T = Nat
<1> DEFINE R == OpToRel(<, Nat)
<1>0. IsWellFoundedOn(R, Nat)
  BY NatLessThanWellFounded
<1>1. SUFFICES ASSUME Nat \ T # {} PROVE FALSE
  OBVIOUS
<1>2. PICK x \in Nat \ T : \A y \in Nat \ T : ~ (<<y, x>> \in R)
  <2> HIDE DEF R
  <2> QED BY <1>0, <1>1, WFMin
<1>3. \A y \in Nat \ T : ~ (y < x)
  BY <1>2 DEF OpToRel
<1> HIDE DEF R
<1>4. x # 0
  OBVIOUS
<1>5. x - 1 \in Nat /\ x - 1 < x
  BY <1>4
<1>6. x - 1 \in T
  BY <1>3, <1>5
<1>7. (x - 1) + 1 \in T
  BY <1>6
<1> QED BY <1>7

\* The least element of a set of naturals exists, and Min finds it.
LEMMA MinOfNats ==
  ASSUME NEW S \in SUBSET Nat, S # {}
  PROVE  Min(S) \in S /\ \A x \in S : Min(S) <= x
<1> DEFINE R == OpToRel(<, Nat)
<1>1. IsWellFoundedOn(R, Nat)
  BY NatLessThanWellFounded
<1>2. PICK x \in S : \A y \in S : ~ (<<y, x>> \in R)
  <2> HIDE DEF R
  <2> QED BY <1>1, WFMin
<1>3. ASSUME NEW y \in S PROVE x <= y
  <2>1. x \in Nat /\ y \in Nat
    OBVIOUS
  <2>2. (y < x) => <<y, x>> \in R
    BY <2>1 DEF OpToRel
  <2>3. ~ (y < x)
    BY <1>2, <2>2
  <2> QED BY <2>1, <2>3
<1> QED BY <1>3 DEF Min

RecursiveOn(S, base, G, n) ==
  \E f \in [0 .. n -> S] : f[0] = base /\ \A i \in 1 .. n : f[i] = G[i][f[i - 1]]

\* A function defined by recursion on an interval exists.
LEMMA IntervalRecursion ==
  ASSUME NEW S, NEW base \in S, NEW G \in [Nat -> [S -> S]], NEW n \in Nat
  PROVE  RecursiveOn(S, base, G, n)
<1> DEFINE Good(m, f) == f[0] = base /\ \A i \in 1 .. m : f[i] = G[i][f[i - 1]]
           T == {m \in Nat : \E f \in [0 .. m -> S] : Good(m, f)}
<1>1. 0 \in T
  <2>1. [i \in 0 .. 0 |-> base] \in [0 .. 0 -> S] /\ Good(0, [i \in 0 .. 0 |-> base])
    OBVIOUS
  <2> QED BY <2>1
<1>2. ASSUME NEW m \in T PROVE m + 1 \in T
  <2>1. PICK f \in [0 .. m -> S] : Good(m, f)
    OBVIOUS
  <2> DEFINE g == [i \in 0 .. m + 1 |-> IF i <= m THEN f[i] ELSE G[m + 1][f[m]]]
  <2>2. f[m] \in S /\ G[m + 1][f[m]] \in S
    OBVIOUS
  <2>3. g \in [0 .. m + 1 -> S]
    BY <2>2
  <2>4. Good(m + 1, g)
    <3>1. g[0] = base
      BY <2>1
    <3>2. ASSUME NEW i \in 1 .. m + 1 PROVE g[i] = G[i][g[i - 1]]
      <4>1. CASE i <= m
        BY <2>1, <4>1
      <4>2. CASE i = m + 1
        BY <4>2
      <4> QED BY <4>1, <4>2
    <3> QED BY <3>1, <3>2
  <2>5. m + 1 \in Nat
    OBVIOUS
  <2> HIDE DEF Good, g
  <2> QED BY <2>3, <2>4, <2>5
<1>3. T = Nat
  <2> HIDE DEF T
  <2>1. T \in SUBSET Nat
    BY DEF T
  <2> QED BY <1>1, <1>2, <2>1, NatSetInduction
<1> QED BY <1>3 DEF RecursiveOn

-------------------------------------------------------------------------------
(* Shape. *)

\* What the type of a coder says of its fields.
LEMMA CoderFields ==
  ASSUME NEW h \in Coder
  PROVE  /\ h.tree \in [Nodes -> Node] /\ h.nyt_node \in Nodes
         /\ h.next_free_slot \in 1 .. 2 * alphabet_size + 1
         /\ h.map_leaf \in [Symbols -> Place]
         /\ h.map_code \in [0 .. alphabet_size -> Seq(Bits) \cup {NoCode}]
BY DEF Coder

\* What the type of a tree says of a node.
LEMMA NodeFields ==
  ASSUME NEW t \in [Nodes -> Node], NEW n \in Nodes
  PROVE  /\ t[n] \in Node /\ t[n].weight \in Nat /\ t[n].symbol \in 0 .. alphabet_size + 1
         /\ t[n].parent \in Place /\ t[n].left \in Place /\ t[n].right \in Place
BY DEF Node

\* The set Children is the set of the nodes with that parent.
LEMMA ChildrenAre ==
  ASSUME NEW t \in [Nodes -> Node], NEW f \in 1 .. 2 * alphabet_size + 1,
         Rooted(t, f), Branches(t, f), NEW n \in 0 .. f - 1, NEW c \in Nodes
  PROVE  c \in Children(t[n]) <=> (c \in 1 .. f - 1 /\ t[c].parent = n)
<1>1. n \in Nodes /\ NIL \notin Nodes
  BY AlphabetAssumption DEF Nodes, NIL
<1>2. ASSUME c \in Children(t[n]) PROVE c \in 1 .. f - 1 /\ t[c].parent = n
  <2>1. c = t[n].left \/ c = t[n].right
    BY <1>2 DEF Children
  <2>2. t[n].symbol = Inner
    BY <1>1, <2>1 DEF Branches
  <2> QED BY <2>1, <2>2 DEF Branches
<1>3. ASSUME c \in 1 .. f - 1, t[c].parent = n PROVE c \in Children(t[n])
  BY <1>1, <1>3 DEF Rooted, Children
<1> QED BY <1>2, <1>3

-------------------------------------------------------------------------------
(* The leader of a block. *)

\* A loop that goes down an array and keeps what it found last.
Scans(t, N, g) ==
  g = [i \in 0 .. N |-> IF i = N THEN N ELSE IF i # t[g[i + 1]].parent THEN i ELSE g[i + 1]]

\* There is such an array.
LEMMA ScanExists ==
  ASSUME NEW N \in Nat, NEW t
  PROVE  \E g : Scans(t, N, g)
<1> DEFINE S == 0 .. N
           G == [k \in Nat |-> [v \in S |-> IF k <= N /\ N - k # t[v].parent THEN N - k ELSE v]]
<1>1. N \in S
  OBVIOUS
<1>2. \A k \in Nat, v \in S : (IF k <= N /\ N - k # t[v].parent THEN N - k ELSE v) \in S
  OBVIOUS
<1>3. G \in [Nat -> [S -> S]]
  <2> HIDE DEF S
  <2> QED BY <1>2
<1>4. PICK u \in [0 .. N -> S] : u[0] = N /\ \A k \in 1 .. N : u[k] = G[k][u[k - 1]]
  <2> HIDE DEF S, G
  <2>1. RecursiveOn(S, N, G, N)
    BY <1>1, <1>3, IntervalRecursion
  <2> QED BY <2>1 DEF RecursiveOn
<1> DEFINE g == [i \in 0 .. N |-> u[N - i]]
<1>5. ASSUME NEW i \in 0 .. N - 1
      PROVE  g[i] = IF i # t[g[i + 1]].parent THEN i ELSE g[i + 1]
  <2>1. N - i \in 1 .. N /\ (N - i) - 1 = N - (i + 1) /\ i + 1 \in 0 .. N /\ N - (N - i) = i /\ N - i \in Nat
    OBVIOUS
  <2>2. u[N - (i + 1)] \in S /\ g[i + 1] = u[N - (i + 1)] /\ g[i] = u[N - i]
    BY <2>1
  <2>3. u[N - i] = G[N - i][u[N - (i + 1)]]
    BY <1>4, <2>1
  <2>4. G[N - i][u[N - (i + 1)]] = IF N - (N - i) # t[u[N - (i + 1)]].parent THEN N - (N - i) ELSE u[N - (i + 1)]
    <3>1. N - i <= N
      BY <2>1
    <3> HIDE DEF S
    <3> QED BY <2>1, <2>2, <3>1
  <2> HIDE DEF g, G
  <2> QED BY <2>1, <2>2, <2>3, <2>4
<1>6. g[N] = N
  BY <1>4
<1>7. g = [i \in 0 .. N |-> IF i = N THEN N ELSE IF i # t[g[i + 1]].parent THEN i ELSE g[i + 1]]
  <2>1. \A i \in 0 .. N : g[i] = IF i = N THEN N ELSE IF i # t[g[i + 1]].parent THEN i ELSE g[i + 1]
    <3> TAKE i \in 0 .. N
    <3>1. CASE i = N
      <4> HIDE DEF g
      <4> QED BY <1>6, <3>1
    <3>2. CASE i # N
      <4>1. i \in 0 .. N - 1
        BY <3>2
      <4> HIDE DEF g
      <4> QED BY <1>5, <3>2, <4>1
    <3> QED BY <3>1, <3>2
  <2>2. g = [i \in 0 .. N |-> g[i]]
    OBVIOUS
  <2> HIDE DEF g
  <2> QED BY <2>1, <2>2
<1> HIDE DEF g
<1> QED BY <1>7 DEF Scans

\* The recursion of get_block_leader.
LEMMA LeaderUnfold ==
  ASSUME NEW t, NEW x \in Nat
  PROVE  \E g : /\ g[x] = x
                /\ \A i \in 0 .. x : i # x => g[i] = IF i # t[g[i + 1]].parent THEN i ELSE g[i + 1]
                /\ get_block_leader(t, x) = g[Min(Block(t, x))]
<1> DEFINE g == CHOOSE u : Scans(t, x, u)
<1>1. Scans(t, x, g)
  BY ScanExists
<1>2. get_block_leader(t, x) = g[Min(Block(t, x))]
  BY DEF get_block_leader, Scans
<1>3. x \in 0 .. x
  OBVIOUS
<1> HIDE DEF g
<1>4. g[x] = x /\ \A i \in 0 .. x : i # x => g[i] = IF i # t[g[i + 1]].parent THEN i ELSE g[i + 1]
  BY <1>1, <1>3 DEF Scans
<1> QED BY <1>2, <1>4

\* Where the block of x begins.
LEMMA BlockFrom ==
  ASSUME NEW t \in [Nodes -> Node], NEW x \in Nodes
  PROVE  LET m == Min(Block(t, x))
         IN  /\ m \in 0 .. x
             /\ \A j \in m .. x : t[j].weight = t[x].weight
             /\ m > 0 => t[m - 1].weight # t[x].weight
<1> DEFINE B == Block(t, x)
           m == Min(B)
<1>0. x \in Nat /\ \A i \in 0 .. x : i \in Nat
  BY AlphabetAssumption DEF Nodes
<1>1. B \in SUBSET Nat /\ B \in SUBSET (0 .. x)
  BY <1>0 DEF Block
<1>2. x \in B
  BY <1>0 DEF Block
<1>3. m \in B /\ \A i \in B : m <= i
  <2> HIDE DEF B
  <2> QED BY <1>1, <1>2, MinOfNats
<1>4. m \in 0 .. x /\ \A j \in m .. x : t[j].weight = t[x].weight
  BY <1>3 DEF Block
<1>5. ASSUME m > 0, t[m - 1].weight = t[x].weight PROVE FALSE
  <2> HIDE DEF B, m
  <2>1. m - 1 \in 0 .. x
    BY <1>0, <1>4, <1>5
  <2>2. \A j \in (m - 1) .. x : t[j].weight = t[x].weight
    <3> TAKE j \in (m - 1) .. x
    <3>1. j = m - 1 \/ j \in m .. x
      BY <1>0, <1>4
    <3> QED BY <1>4, <1>5, <3>1
  <2>3. m - 1 \in B
    BY <2>1, <2>2 DEF B, Block
  <2> QED BY <1>0, <1>3, <1>4, <2>3
<1> HIDE DEF B, m
<1>6. m > 0 => t[m - 1].weight # t[x].weight
  BY <1>5
<1> QED BY <1>4, <1>6 DEF m, B

\* A tree of more than a node, between two increments.
Growing(t, f, x) ==
  /\ t \in [Nodes -> Node] /\ f \in 3 .. 2 * alphabet_size + 1 /\ x \in 0 .. f - 2
  /\ Rooted(t, f) /\ Branches(t, f) /\ LastSplit(t, f)
  /\ Weighed(t, f, x)

\* A parent weighs more than its child, unless it is the last one.
LEMMA ParentHeavier ==
  ASSUME NEW t, NEW f, NEW x, Growing(t, f, x),
         \A n \in 0 .. f - 2 : t[n].weight # 0,
         NEW c \in 1 .. f - 1, t[c].parent # x, t[c].parent # f - 3
  PROVE  t[c].weight < t[t[c].parent].weight
<1> DEFINE p == t[c].parent
           l == t[p].left
           r == t[p].right
<1>1. p \in 0 .. c - 1 /\ p \in 0 .. f - 1 /\ (l = c \/ r = c)
  BY DEF Growing, Rooted
<1>2. t[p].symbol = Inner
  BY <1>1, AlphabetAssumption DEF Growing, Branches, NIL
<1>3. l \in 1 .. f - 1 /\ r \in 1 .. f - 1 /\ t[l].parent = p /\ t[r].parent = p
  <2> HIDE DEF l, r, p
  <2>1. l \in p + 1 .. f - 1 /\ r \in p + 1 .. f - 1 /\ t[l].parent = p /\ t[r].parent = p
    BY <1>1, <1>2 DEF Growing, Branches, l, r
  <2> QED BY <1>1, <2>1 DEF Growing
<1>4. t[l].weight + t[r].weight = t[p].weight + 0
  <2>1. p # x
    OBVIOUS
  <2>2. Sums(t, f, x)
    BY DEF Growing, Weighed
  <2> HIDE DEF p
  <2> QED BY <1>1, <1>2, <2>1, <2>2 DEF Sums
<1>5. l # f - 1 /\ r # f - 1
  BY <1>3 DEF Growing, LastSplit
<1>6. l \in 0 .. f - 2 /\ r \in 0 .. f - 2 /\ l \in Nodes /\ r \in Nodes /\ p \in Nodes
  <2> HIDE DEF l, r, p
  <2>1. f \in 3 .. 2 * alphabet_size + 1
    BY DEF Growing
  <2> QED BY <1>1, <1>3, <1>5, <2>1, AlphabetAssumption DEF Nodes
<1>7. t[l].weight \in Nat /\ t[r].weight \in Nat /\ t[p].weight \in Nat /\ t[l].weight # 0 /\ t[r].weight # 0
  <2> HIDE DEF l, r, p
  <2> QED BY <1>6, NodeFields DEF Growing
<1> HIDE DEF l, r, p
<1> QED BY <1>1, <1>4, <1>7 DEF p

\* The last inner node weighs what its right child weighs, except when it is
\* its turn.
LEMMA LastWeights ==
  ASSUME NEW t, NEW f, NEW x, Growing(t, f, x)
  PROVE  t[f - 3].weight + (IF f - 3 = x THEN 1 ELSE 0) = t[f - 2].weight
<1> DEFINE l == t[f - 3].left
           r == t[f - 3].right
<1>0. /\ f \in Nat /\ f >= 3 /\ f - 1 \in 1 .. f - 1 /\ f - 2 \in 1 .. f - 1 /\ f - 3 \in 0 .. f - 1
      /\ f - 1 \in Nodes /\ f - 2 \in Nodes /\ f - 3 \in Nodes /\ f - 1 # NIL
      /\ t \in [Nodes -> Node]
  BY AlphabetAssumption DEF Growing, Nodes, NIL
<1>1. t[f - 1].parent = f - 3 /\ t[f - 2].parent = f - 3
  BY <1>0 DEF Growing, LastSplit
<1>2. (l = f - 1 \/ r = f - 1) /\ (l = f - 2 \/ r = f - 2)
  BY <1>0, <1>1 DEF Growing, Rooted
<1>3. t[f - 3].symbol = Inner
  BY <1>0, <1>2 DEF Growing, Branches
<1>4. t[l].weight + t[r].weight = t[f - 3].weight + (IF f - 3 = x THEN 1 ELSE 0)
  BY <1>0, <1>3 DEF Growing, Weighed, Sums
<1>5. t[f - 1].weight = 0
  BY DEF Growing, Weighed, Positive
<1>6. t[f - 2].weight \in Nat
  BY <1>0, NodeFields
<1>7. CASE l = f - 1 /\ r = f - 2
  <2> HIDE DEF l, r
  <2> QED BY <1>4, <1>5, <1>6, <1>7
<1>8. CASE l = f - 2 /\ r = f - 1
  <2> HIDE DEF l, r
  <2> QED BY <1>4, <1>5, <1>6, <1>8
<1> HIDE DEF l, r
<1> QED BY <1>0, <1>2, <1>7, <1>8

\* get_block_leader finds the foremost of the block, passing over nothing but
\* the parent of a leaf of the last split that is its neighbour.
LEMMA Leader ==
  ASSUME NEW t, NEW f, NEW x, Growing(t, f, x)
  PROVE  LET l == get_block_leader(t, x)
         IN  \/ /\ l = x
                /\ x > 0 => t[x].weight < t[x - 1].weight
             \/ /\ l = x /\ x = f - 2 /\ t[f - 3].weight = t[x].weight
                /\ \A n \in 0 .. f - 1 : n < f - 3 => t[x].weight < t[n].weight
             \/ /\ l \in 1 .. x - 1 /\ l < f - 3 /\ x # f - 3
                /\ t[l].weight = t[x].weight /\ t[x].weight < t[l - 1].weight
                /\ \A n \in 0 .. f - 2 : t[n].weight # 0
<1> DEFINE m == Min(Block(t, x))
           w(n) == t[n].weight
<1>0. /\ f \in Nat /\ f >= 3 /\ f <= 2 * alphabet_size + 1 /\ x \in Nat /\ x <= f - 2
      /\ t \in [Nodes -> Node] /\ Rooted(t, f) /\ Sums(t, f, x)
      /\ Falling(t, f, x) /\ Positive(t, f, x) /\ LastSplit(t, f)
  BY AlphabetAssumption DEF Growing, Weighed
<1>1. \A n \in 0 .. f - 1 : n \in Nodes /\ n \in Nat
  BY <1>0, AlphabetAssumption DEF Nodes
<1>2. \A n \in 0 .. f - 1 : w(n) \in Nat
  BY <1>0, <1>1, NodeFields
<1>3. x \in 0 .. f - 1 /\ x \in Nodes
  BY <1>0, <1>1
<1>4. /\ m \in 0 .. x
      /\ \A j \in m .. x : w(j) = w(x)
      /\ m > 0 => w(m - 1) # w(x)
  BY <1>0, <1>3, BlockFrom
<1>5. PICK g : /\ g[x] = x
               /\ \A i \in 0 .. x : i # x => g[i] = IF i # t[g[i + 1]].parent THEN i ELSE g[i + 1]
               /\ get_block_leader(t, x) = g[m]
  BY <1>0, LeaderUnfold
<1> HIDE DEF m
<1>6. t[f - 2].parent = f - 3 /\ t[f - 1].parent = f - 3
  BY <1>0 DEF LastSplit
<1>7. CASE x = f - 3
  <2>1. m = x
    BY <1>0, <1>2, <1>3, <1>4, <1>7 DEF Falling
  <2>2. x > 0 => x - 1 \in 0 .. f - 1 /\ x - 1 < x
    BY <1>0
  <2>3. x > 0 => w(x) < w(x - 1)
    BY <1>0, <1>7, <2>2 DEF Falling
  <2> QED BY <1>5, <2>1, <2>3
<1>8. ASSUME x # f - 3
      PROVE  \A i, j \in 0 .. f - 1 : i < j => w(j) <= w(i)
  BY <1>0, <1>8 DEF Falling
<1>9. ASSUME x # f - 3, m > 0 PROVE w(x) < w(m - 1)
  <2>1. m - 1 \in 0 .. f - 1 /\ m - 1 < x
    BY <1>0, <1>4, <1>9
  <2>2. w(x) <= w(m - 1)
    BY <1>3, <1>8, <1>9, <2>1
  <2> HIDE DEF w
  <2> QED BY <1>2, <1>3, <1>4, <1>9, <2>1, <2>2
<1>10. CASE x = f - 2 /\ m = f - 3
  <2>1. f - 3 \in 0 .. x /\ f - 3 # x /\ (f - 3) + 1 = x
    BY <1>0, <1>10
  <2>2. g[f - 3] = x
    BY <1>5, <1>6, <1>10, <2>1
  <2>3. w(f - 3) = w(x)
    BY <1>4, <1>10, <2>1
  <2>4. ASSUME NEW n \in 0 .. f - 1, n < f - 3 PROVE w(x) < w(n)
    <3>1. m > 0 /\ x # f - 3 /\ m - 1 \in 0 .. f - 1
      BY <1>0, <1>1, <1>10, <2>4
    <3>2. w(x) < w(m - 1)
      BY <1>9, <3>1
    <3>3. n = m - 1 \/ n < m - 1
      BY <1>0, <1>1, <1>10, <2>4
    <3>4. w(m - 1) <= w(n)
      <4>1. CASE n = m - 1
        <5> HIDE DEF w
        <5> QED BY <1>2, <3>1, <4>1
      <4>2. CASE n < m - 1
        BY <1>8, <3>1, <4>2
      <4> QED BY <3>3, <4>1, <4>2
    <3> HIDE DEF w
    <3> QED BY <1>2, <1>3, <3>1, <3>2, <3>4
  <2> HIDE DEF w
  <2> QED BY <1>5, <1>10, <2>2, <2>3, <2>4 DEF w
<1>11. CASE x # f - 3 /\ ~ (x = f - 2 /\ m = f - 3)
  <2>0. x = f - 2 => w(f - 3) = w(x)
    <3>1. w(f - 3) + 0 = w(f - 2)
      BY <1>0, <1>11, LastWeights
    <3>2. f - 3 \in 0 .. f - 1
      BY <1>0
    <3> HIDE DEF w
    <3> QED BY <1>2, <3>1, <3>2
  <2>1. x = f - 2 => m < f - 3
    <3>1. ASSUME x = f - 2, m = f - 2 PROVE FALSE
      <4>1. m > 0 /\ m - 1 = f - 3
        BY <1>0, <3>1
      <4> HIDE DEF w
      <4> QED BY <1>4, <2>0, <3>1, <4>1
    <3> QED BY <1>0, <1>4, <1>11, <3>1
  <2>2. ASSUME NEW n \in 0 .. f - 2, w(n) = 0 PROVE FALSE
    <3>1. x = f - 2 /\ n >= f - 3
      BY <1>11, <2>2 DEF w, Positive, Growing, Weighed
    <3>2. n = f - 3 \/ n = f - 2
      BY <1>0, <3>1
    <3>3. w(x) = 0
      <4> HIDE DEF w
      <4> QED BY <2>0, <2>2, <3>1, <3>2
    <3>4. w(m) = 0 /\ m \in 0 .. f - 2 /\ m < f - 3
      <4> HIDE DEF w
      <4> QED BY <1>0, <1>4, <2>1, <3>1, <3>3
    <3> QED BY <1>0, <1>4, <1>11, <3>4 DEF w, Positive
  <2> DEFINE Found(i) == IF x = f - 2 /\ i = f - 3 THEN x ELSE i
  <2>3. ASSUME NEW i \in m .. x, i # x, g[i + 1] = Found(i + 1) PROVE g[i] = Found(i)
    <3>1. i \in Nat /\ i < x /\ i \in 0 .. x /\ i + 1 \in m .. x /\ i + 1 \in 1 .. f - 1
      BY <1>0, <1>4, <2>3
    <3>2. g[i] = IF i # t[g[i + 1]].parent THEN i ELSE g[i + 1]
      BY <1>5, <2>3, <3>1
    <3>3. CASE x = f - 2 /\ i = f - 3
      <4>1. g[i + 1] = x /\ t[x].parent = i
        BY <1>0, <1>6, <2>3, <3>3
      <4> QED BY <3>2, <3>3, <4>1
    <3>4. CASE x = f - 2 /\ i = f - 4
      <4>1. g[i + 1] = x /\ t[x].parent # i /\ i # f - 3
        BY <1>0, <1>6, <2>3, <3>4
      <4> QED BY <3>2, <4>1
    <3>5. CASE ~ (x = f - 2 /\ (i = f - 3 \/ i = f - 4))
      <4>1. (i # f - 3 /\ i + 1 # f - 3) \/ x # f - 2
        BY <1>0, <3>1, <3>5
      <4>2. g[i + 1] = i + 1 /\ Found(i) = i
        BY <1>0, <2>3, <3>1, <3>5, <4>1
      <4>3. ASSUME t[i + 1].parent = i PROVE FALSE
        <5>1. i # x /\ i # f - 3
          BY <1>0, <1>11, <3>1, <3>5
        <5>2. w(i + 1) < w(i)
          BY <2>2, <3>1, <4>3, <5>1, ParentHeavier
        <5>3. w(i + 1) = w(x) /\ w(i) = w(x)
          BY <1>4, <3>1
        <5> HIDE DEF w
        <5> QED BY <1>2, <1>3, <5>2, <5>3
      <4> QED BY <3>2, <4>2, <4>3
    <3> QED BY <3>3, <3>4, <3>5
  <2>4. g[m] = m
    <3> DEFINE T == {k \in Nat : k <= x - m => g[x - k] = Found(x - k)}
    <3>1. 0 \in T
      <4>1. x - 0 = x /\ Found(x) = x
        BY <1>0
      <4> HIDE DEF Found
      <4> QED BY <1>5, <4>1
    <3>2. ASSUME NEW k \in T PROVE k + 1 \in T
      <4>1. SUFFICES ASSUME k + 1 <= x - m PROVE g[x - (k + 1)] = Found(x - (k + 1))
        BY DEF T
      <4>2. /\ x - (k + 1) \in m .. x /\ x - (k + 1) # x /\ (x - (k + 1)) + 1 = x - k
            /\ k <= x - m
        BY <1>0, <1>4, <4>1
      <4>3. g[x - k] = Found(x - k)
        BY <4>2
      <4> HIDE DEF Found, T
      <4> QED BY <2>3, <4>2, <4>3
    <3>3. T = Nat
      <4>1. T \in SUBSET Nat
        OBVIOUS
      <4> HIDE DEF T
      <4> QED BY <3>1, <3>2, <4>1, NatSetInduction
    <3>4. x - m \in T /\ x - (x - m) = m
      <4>1. x - m \in Nat /\ x - (x - m) = m
        BY <1>0, <1>4
      <4> HIDE DEF T
      <4> QED BY <3>3, <4>1
    <3>5. g[m] = Found(m)
      <4>1. g[x - (x - m)] = Found(x - (x - m))
        <5>1. x - m <= x - m
          BY <1>0, <1>4
        <5> HIDE DEF Found
        <5> QED BY <3>4, <5>1
      <4> HIDE DEF Found, T
      <4> QED BY <3>4, <4>1
    <3> QED BY <1>11, <3>5
  <2>5. CASE m = x
    BY <1>5, <1>9, <1>11, <2>4, <2>5
  <2>6. CASE m # x
    <3>1. m < x /\ m < f - 3
      BY <1>0, <1>4, <1>11, <2>1, <2>6
    <3>2. m # 0
      <4>1. SUFFICES ASSUME m = 0 PROVE FALSE
        OBVIOUS
      <4>2. 1 \in 1 .. f - 1 /\ t[1].parent = 0 /\ 0 # x /\ 0 # f - 3
        <5>1. 1 \in 1 .. f - 1 /\ 0 # x /\ 0 # f - 3
          BY <1>0, <3>1, <4>1
        <5> QED BY <1>0, <5>1 DEF Rooted
      <4>3. w(1) < w(0)
        BY <2>2, <4>2, ParentHeavier
      <4>4. w(1) = w(x) /\ w(0) = w(x)
        BY <1>0, <1>4, <3>1, <4>1
      <4> HIDE DEF w
      <4> QED BY <1>2, <1>3, <4>3, <4>4
    <3>3. m \in 1 .. x - 1 /\ w(m) = w(x) /\ w(x) < w(m - 1)
      BY <1>0, <1>4, <1>9, <1>11, <3>1, <3>2
    <3> QED BY <1>5, <1>11, <2>2, <2>4, <3>1, <3>3
  <2> QED BY <2>5, <2>6
<1> QED BY <1>7, <1>10, <1>11

-------------------------------------------------------------------------------
(* Swapping two subtrees. *)

Other(i, x, n) == IF n = i THEN x ELSE IF n = x THEN i ELSE n

\* Two nodes after the root of which neither is above the other, nor the last
\* inner node.
Apart(t, f, i, x) ==
  /\ i \in 1 .. f - 2 /\ x \in 1 .. f - 2 /\ i < x /\ i # f - 3 /\ x # f - 3
  /\ \A c \in 1 .. f - 1 : t[c].parent = i => x < c

\* What swap writes into each node.
LEMMA SwapFields ==
  ASSUME NEW h, Shape(h), NEW i, NEW x, Apart(h.tree, h.next_free_slot, i, x)
  PROVE  LET t == h.tree
             f == h.next_free_slot
             g == swap(h, i, x)
         IN  /\ g.tree \in [Nodes -> Node]
             /\ \A n \in Nodes :
                  /\ g.tree[n].weight = t[Other(i, x, n)].weight
                  /\ g.tree[n].symbol = t[Other(i, x, n)].symbol
                  /\ g.tree[n].left = t[Other(i, x, n)].left
                  /\ g.tree[n].right = t[Other(i, x, n)].right
                  /\ g.tree[n].parent =
                       IF n \in 1 .. f - 1 /\ n # i /\ n # x /\ t[n].parent \in {i, x}
                       THEN Other(i, x, t[n].parent) ELSE t[n].parent
             /\ \A n \in Nodes : n >= f => g.tree[n] = t[n]
<1> DEFINE t == h.tree
           f == h.next_free_slot
           g == swap(h, i, x)
           at(n) == CASE n = i -> [t[x] EXCEPT !.parent = t[i].parent]
                      [] n = x -> [t[i] EXCEPT !.parent = t[x].parent]
                      [] OTHER -> [t[n] EXCEPT !.parent = Adopted(t, i, x, n)]
<1>1. /\ t \in [Nodes -> Node] /\ f \in 1 .. 2 * alphabet_size + 1 /\ Rooted(t, f) /\ Branches(t, f)
      /\ h \in Coder
  BY CoderFields DEF Shape
<1>2. i \in Nodes /\ x \in Nodes /\ i \in 0 .. f - 1 /\ x \in 0 .. f - 1 /\ i # x /\ i < f /\ x < f
  BY <1>1, AlphabetAssumption DEF Apart, Nodes
<1>3. g.tree = [n \in Nodes |-> at(n)]
  BY <1>1 DEF swap, Coder
<1>4. ASSUME NEW n \in Nodes
      PROVE  Adopted(t, i, x, n) =
               IF n \in 1 .. f - 1 /\ t[n].parent \in {i, x}
               THEN Other(i, x, t[n].parent) ELSE t[n].parent
  <2>1. n \in Children(t[i]) <=> (n \in 1 .. f - 1 /\ t[n].parent = i)
    BY <1>1, <1>2, ChildrenAre
  <2>2. n \in Children(t[x]) <=> (n \in 1 .. f - 1 /\ t[n].parent = x)
    BY <1>1, <1>2, ChildrenAre
  <2> HIDE DEF t, f
  <2> QED BY <1>2, <2>1, <2>2 DEF Adopted, Other
<1>5. ASSUME NEW n \in Nodes
      PROVE  /\ at(n) \in Node
             /\ at(n).weight = t[Other(i, x, n)].weight
             /\ at(n).symbol = t[Other(i, x, n)].symbol
             /\ at(n).left = t[Other(i, x, n)].left
             /\ at(n).right = t[Other(i, x, n)].right
             /\ at(n).parent =
                  IF n \in 1 .. f - 1 /\ n # i /\ n # x /\ t[n].parent \in {i, x}
                  THEN Other(i, x, t[n].parent) ELSE t[n].parent
  <2>1. t[n] \in Node /\ t[i] \in Node /\ t[x] \in Node
    BY <1>1, <1>2
  <2>2. Adopted(t, i, x, n) \in Place
    <3>1. t[n].parent \in Place /\ i \in Place /\ x \in Place
      BY <1>2, <2>1 DEF Node, Place
    <3> HIDE DEF t, f
    <3> QED BY <1>4, <3>1 DEF Other
  <2>3. CASE n = i
    <3> HIDE DEF t, f
    <3> QED BY <1>2, <2>1, <2>3 DEF Node, Other
  <2>4. CASE n = x
    <3> HIDE DEF t, f
    <3> QED BY <1>2, <2>1, <2>4 DEF Node, Other
  <2>5. CASE n # i /\ n # x
    <3>1. at(n) = [t[n] EXCEPT !.parent = Adopted(t, i, x, n)]
      BY <2>5
    <3>2. Other(i, x, n) = n
      BY <2>5 DEF Other
    <3>3. /\ at(n) \in Node /\ at(n).weight = t[n].weight /\ at(n).symbol = t[n].symbol
          /\ at(n).left = t[n].left /\ at(n).right = t[n].right
          /\ at(n).parent = Adopted(t, i, x, n)
      <4> HIDE DEF t, f, at
      <4> QED BY <2>1, <2>2, <3>1 DEF Node
    <3> HIDE DEF t, f, at
    <3> QED BY <1>4, <2>5, <3>2, <3>3
  <2> QED BY <2>3, <2>4, <2>5
<1>6. g.tree \in [Nodes -> Node]
  <2> HIDE DEF at, g
  <2> QED BY <1>3, <1>5
<1>7. ASSUME NEW n \in Nodes, n >= f PROVE g.tree[n] = t[n]
  <2>1. n # i /\ n # x /\ n \notin 1 .. f - 1
    BY <1>1, <1>2, <1>7, AlphabetAssumption DEF Nodes
  <2>2. Adopted(t, i, x, n) = t[n].parent
    BY <1>4, <2>1
  <2>3. at(n) = [t[n] EXCEPT !.parent = Adopted(t, i, x, n)]
    BY <2>1
  <2>4. t[n] \in Node
    BY <1>1
  <2>5. at(n) = t[n]
    <3> HIDE DEF t, f, at
    <3> QED BY <2>2, <2>3, <2>4 DEF Node
  <2> HIDE DEF at, g
  <2> QED BY <1>3, <2>5
<1> HIDE DEF at, g
<1>8. \A n \in Nodes : g.tree[n] = at(n)
  BY <1>3
<1> HIDE DEF t, f
<1> QED BY <1>5, <1>6, <1>7, <1>8 DEF g, t, f

\* Swapping keeps the shape; which symbols have a leaf, and the cached codes,
\* do not change.
LEMMA SwapShape ==
  ASSUME NEW h, Shape(h), NEW i, NEW x, Apart(h.tree, h.next_free_slot, i, x)
  PROVE  LET g == swap(h, i, x)
         IN  /\ Shape(g)
             /\ g.next_free_slot = h.next_free_slot /\ g.map_code = h.map_code
             /\ \A s \in Symbols : Seen(g, s) <=> Seen(h, s)
<1> DEFINE t == h.tree
           f == h.next_free_slot
           g == swap(h, i, x)
           u == g.tree
           leaf(s) == CASE t[x].symbol = s -> i [] t[i].symbol = s -> x [] OTHER -> h.map_leaf[s]
           y(n) == Other(i, x, n)
<1>1. /\ t \in [Nodes -> Node] /\ f \in 1 .. 2 * alphabet_size + 1 /\ Rooted(t, f) /\ Branches(t, f)
      /\ LastSplit(t, f) /\ Unused(t, f) /\ Labels(h) /\ h \in Coder /\ h.map_leaf \in [Symbols -> Place]
      /\ h.nyt_node \in Nodes /\ h.map_code \in [0 .. alphabet_size -> Seq(Bits) \cup {NoCode}]
  BY CoderFields DEF Shape
<1>2. /\ i \in 1 .. f - 2 /\ x \in 1 .. f - 2 /\ i < x /\ i # f - 3 /\ x # f - 3
      /\ \A c \in 1 .. f - 1 : t[c].parent = i => x < c
  BY DEF Apart
<1>3. f \in Nat /\ f >= 4 /\ \A n \in 0 .. f - 1 : n \in Nodes /\ n \in Nat /\ n # NIL
  BY <1>1, <1>2, AlphabetAssumption DEF Nodes, NIL
<1>4. u \in [Nodes -> Node]
  BY SwapFields
<1>5. \A n \in Nodes : /\ u[n].symbol = t[y(n)].symbol
                        /\ u[n].left = t[y(n)].left /\ u[n].right = t[y(n)].right
                        /\ u[n].parent =
                             IF n \in 1 .. f - 1 /\ n # i /\ n # x /\ t[n].parent \in {i, x}
                             THEN y(t[n].parent) ELSE t[n].parent
  BY SwapFields
<1>6. \A n \in Nodes : n >= f => u[n] = t[n]
  BY SwapFields
<1>7. /\ g.next_free_slot = f /\ g.nyt_node = h.nyt_node /\ g.map_code = h.map_code
      /\ g.map_leaf = [s \in Symbols |-> leaf(s)]
  BY <1>1 DEF swap, Coder
<1>8. \A s \in Symbols : leaf(s) \in Place
  BY <1>1, <1>2, <1>3 DEF Place
<1>9. g \in Coder
  <2>1. g.map_leaf \in [Symbols -> Place]
    <3> HIDE DEF leaf, g
    <3> QED BY <1>7, <1>8
  <2>2. g = [h EXCEPT !.tree = u, !.map_leaf = g.map_leaf]
    BY <1>1 DEF swap, Coder
  <2> HIDE DEF g, u
  <2> QED BY <1>1, <1>4, <2>1, <2>2 DEF Coder
<1> HIDE DEF g, u
<1>10. ASSUME NEW n \in 0 .. f - 1
       PROVE  y(n) \in 0 .. f - 1 /\ (n # 0 => y(n) # 0) /\ y(y(n)) = n
  BY <1>2, <1>3 DEF Other
<1>11. Rooted(u, f)
  <2>1. u[0].parent = NIL
    BY <1>1, <1>3, <1>5 DEF Rooted
  <2>2. ASSUME NEW n \in 1 .. f - 1
        PROVE  u[n].parent \in 0 .. n - 1 /\ (u[u[n].parent].left = n \/ u[u[n].parent].right = n)
    <3> DEFINE p == t[n].parent
    <3>1. n \in 0 .. f - 1 /\ n \in Nodes
      BY <1>3
    <3>2. p \in 0 .. n - 1 /\ (t[p].left = n \/ t[p].right = n) /\ p \in 0 .. f - 1 /\ p \in Nodes
      BY <1>1, <1>3 DEF Rooted
    <3>3. y(p) \in 0 .. f - 1 /\ y(y(p)) = p /\ y(p) \in Nodes
      <4> HIDE DEF p
      <4> QED BY <1>3, <1>10, <3>2
    <3>4. ASSUME u[n].parent = y(p) PROVE u[u[n].parent].left = n \/ u[u[n].parent].right = n
      <4> HIDE DEF p, y
      <4> QED BY <1>5, <3>2, <3>3, <3>4
    <3>5. CASE n = i \/ n = x
      <4>1. p # x /\ p # i
        <5>1. p = i => x < n
          BY <1>2
        <5> HIDE DEF p
        <5> QED BY <1>2, <1>3, <3>2, <3>5, <5>1
      <4>2. y(p) = p
        BY <4>1 DEF Other
      <4>3. u[n].parent = p
        BY <1>5, <3>1, <3>5
      <4> HIDE DEF p, y
      <4> QED BY <3>2, <3>4, <4>2, <4>3
    <3>6. CASE n # i /\ n # x
      <4>1. u[n].parent = y(p)
        <5>1. p \notin {i, x} => y(p) = p
          BY DEF Other
        <5> HIDE DEF y
        <5> QED BY <1>5, <3>1, <3>6, <5>1
      <4>2. y(p) \in 0 .. n - 1
        <5>1. p = i => x < n
          BY <1>2
        <5> HIDE DEF p
        <5> QED BY <1>2, <1>3, <3>2, <5>1 DEF Other
      <4> QED BY <3>4, <4>1, <4>2
    <3> QED BY <3>5, <3>6
  <2> QED BY <2>1, <2>2 DEF Rooted
<1>12. Branches(u, f)
  <2> SUFFICES ASSUME NEW n \in 0 .. f - 1
               PROVE  /\ u[n].symbol # Inner => u[n].left = NIL /\ u[n].right = NIL
                      /\ u[n].symbol = Inner =>
                           /\ u[n].left \in n + 1 .. f - 1 /\ u[n].right \in n + 1 .. f - 1
                           /\ u[n].left # u[n].right
                           /\ u[u[n].left].parent = n /\ u[u[n].right].parent = n
    BY DEF Branches
  <2>1. n \in Nodes /\ y(n) \in 0 .. f - 1
    BY <1>3, <1>10
  <2>2. CASE u[n].symbol # Inner
    <3> HIDE DEF y
    <3> QED BY <1>1, <1>5, <2>1, <2>2 DEF Branches
  <2>3. CASE u[n].symbol = Inner
    <3> DEFINE m == y(n)
    <3>1. t[m].symbol = Inner
      <4> HIDE DEF y
      <4> QED BY <1>5, <2>1, <2>3
    <3> HIDE DEF m
    <3>2. /\ t[m].left \in m + 1 .. f - 1 /\ t[m].right \in m + 1 .. f - 1 /\ t[m].left # t[m].right
          /\ t[t[m].left].parent = m /\ t[t[m].right].parent = m /\ m \in 0 .. f - 1
      BY <1>1, <2>1, <3>1 DEF Branches, m
    <3>3. ASSUME NEW c \in m + 1 .. f - 1, t[c].parent = m
          PROVE  c \in n + 1 .. f - 1 /\ u[c].parent = n
      <4>1. c \in 1 .. f - 1 /\ c \in Nodes /\ m \in Nat /\ m < c
        BY <1>3, <3>2, <3>3
      <4>2. c \in n + 1 .. f - 1
        <5>1. m = i => x < c
          BY <1>2, <3>3, <4>1
        <5>2. n = IF m = i THEN x ELSE IF m = x THEN i ELSE m
          BY <1>2 DEF m, Other
        <5> QED BY <1>2, <1>3, <4>1, <5>1, <5>2
      <4>3. CASE m # i /\ m # x
        <5>1. n = m
          BY <4>3 DEF m, Other
        <5> HIDE DEF y
        <5> QED BY <1>5, <3>3, <4>1, <4>2, <4>3, <5>1
      <4>4. CASE m = i \/ m = x
        <5>1. c # i /\ c # x
          <6>1. m = i => x < c
            BY <1>2, <3>3, <4>1
          <6> QED BY <1>2, <1>3, <4>1, <4>4, <6>1
        <5>2. y(m) = n
          BY <1>10 DEF m
        <5> HIDE DEF y
        <5> QED BY <1>5, <3>3, <4>1, <4>2, <4>4, <5>1, <5>2
      <4> QED BY <4>3, <4>4
    <3>4. u[n].left = t[m].left /\ u[n].right = t[m].right
      BY <1>5, <2>1 DEF m
    <3> HIDE DEF y
    <3> QED BY <2>3, <3>2, <3>3, <3>4
  <2> QED BY <2>2, <2>3
<1>13. LastSplit(u, f)
  <2>1. /\ f - 1 \in Nodes /\ f - 2 \in Nodes /\ f - 1 # i /\ f - 1 # x /\ f - 3 \notin {i, x}
        /\ t[f - 1].parent = f - 3 /\ t[f - 2].parent = f - 3
    BY <1>1, <1>2, <1>3 DEF LastSplit
  <2>2. u[f - 1].parent = f - 3 /\ u[f - 2].parent = f - 3
    <3> HIDE DEF y
    <3> QED BY <1>5, <2>1
  <2> QED BY <1>3, <2>2 DEF LastSplit
<1>14. Unused(u, f)
  BY <1>1, <1>6 DEF Unused
<1>15. ASSUME NEW s \in Symbols PROVE g.map_leaf[s] = leaf(s)
  BY <1>7, <1>15
<1>16. /\ h.nyt_node = f - 1
       /\ \A n \in 0 .. f - 1 : t[n].symbol = NYT <=> n = f - 1
       /\ \A n \in 0 .. f - 1 : t[n].symbol \in Symbols => h.map_leaf[t[n].symbol] = n
       /\ \A s \in Symbols : h.map_leaf[s] # NIL => h.map_leaf[s] \in 0 .. f - 1 /\ t[h.map_leaf[s]].symbol = s
       /\ f = 1 + 2 * Cardinality({s \in Symbols : Seen(h, s)})
  BY <1>1 DEF Labels, Seen
<1>17. i \in 0 .. f - 1 /\ x \in 0 .. f - 1 /\ i # f - 1 /\ x # f - 1 /\ i # x /\ i # NIL /\ x # NIL
  BY <1>2, <1>3
<1>18. ASSUME NEW s \in Symbols
       PROVE  /\ leaf(s) # NIL <=> h.map_leaf[s] # NIL
              /\ leaf(s) # NIL => leaf(s) \in 0 .. f - 1 /\ t[y(leaf(s))].symbol = s
  <2>1. CASE t[x].symbol = s
    BY <1>16, <1>17, <2>1 DEF Other
  <2>2. CASE t[x].symbol # s /\ t[i].symbol = s
    BY <1>16, <1>17, <2>2 DEF Other
  <2>3. CASE t[x].symbol # s /\ t[i].symbol # s
    BY <1>16, <1>17, <2>3 DEF Other
  <2> QED BY <2>1, <2>2, <2>3
<1>19. \A s \in Symbols : Seen(g, s) <=> Seen(h, s)
  <2> HIDE DEF leaf
  <2> QED BY <1>15, <1>18 DEF Seen
<1>20. Labels(g)
  <2>1. g.nyt_node = f - 1
    BY <1>7, <1>16
  <2>2. ASSUME NEW n \in 0 .. f - 1
        PROVE  /\ u[n].symbol = NYT <=> n = f - 1
               /\ u[n].symbol \in Symbols => g.map_leaf[u[n].symbol] = n
    <3>1. u[n].symbol = t[y(n)].symbol /\ y(n) \in 0 .. f - 1
      BY <1>3, <1>5, <1>10
    <3>2. y(n) = f - 1 <=> n = f - 1
      BY <1>17 DEF Other
    <3>3. u[n].symbol = NYT <=> n = f - 1
      <4> HIDE DEF y
      <4> QED BY <1>16, <3>1, <3>2
    <3>4. ASSUME u[n].symbol \in Symbols PROVE leaf(u[n].symbol) = n
      <4> DEFINE s == u[n].symbol
      <4>1. h.map_leaf[s] = y(n) /\ t[y(n)].symbol = s
        <5> HIDE DEF y
        <5> QED BY <1>16, <3>1, <3>4
      <4>2. (t[x].symbol = s => y(n) = x) /\ (t[i].symbol = s => y(n) = i)
        <5> HIDE DEF y, s
        <5> QED BY <1>16, <1>17, <3>4, <4>1 DEF s
      <4>3. n = x <=> y(n) = i
        BY <1>17 DEF Other
      <4>4. n = i <=> y(n) = x
        BY <1>17 DEF Other
      <4>5. n # i /\ n # x => y(n) = n
        BY DEF Other
      <4>6. (n = i => y(n) = x) /\ (n = x => y(n) = i)
        BY <1>17 DEF Other
      <4> HIDE DEF s, y
      <4> QED BY <4>1, <4>2, <4>3, <4>4, <4>5, <4>6 DEF s
    <3> HIDE DEF leaf
    <3> QED BY <1>15, <3>3, <3>4
  <2>3. ASSUME NEW s \in Symbols, Seen(g, s)
        PROVE  g.map_leaf[s] \in 0 .. f - 1 /\ u[g.map_leaf[s]].symbol = s
    <3>1. leaf(s) # NIL /\ g.map_leaf[s] = leaf(s)
      <4> HIDE DEF leaf
      <4> QED BY <1>15, <2>3 DEF Seen
    <3>2. leaf(s) \in 0 .. f - 1 /\ t[y(leaf(s))].symbol = s
      <4> HIDE DEF leaf
      <4> QED BY <1>18, <3>1
    <3> HIDE DEF leaf, y
    <3> QED BY <1>3, <1>5, <3>1, <3>2
  <2>4. {s \in Symbols : Seen(g, s)} = {s \in Symbols : Seen(h, s)}
    BY <1>19
  <2> QED BY <1>7, <1>16, <2>1, <2>2, <2>3, <2>4 DEF Labels, u
<1>21. Shape(g)
  BY <1>7, <1>9, <1>11, <1>12, <1>13, <1>14, <1>20 DEF Shape, u
<1> QED BY <1>7, <1>19, <1>21 DEF g

-------------------------------------------------------------------------------
(* One round of the walk. *)

Raised(t, x) == [t EXCEPT ![x] = Heavier(t[x])]

\* The node weighs less than the one before it; or it is the last leaf, as heavy
\* as its parent, and both are lighter than all others.
Foremost(t, f, x) ==
  \/ x > 0 => t[x].weight < t[x - 1].weight
  \/ /\ x = f - 2
     /\ \A n \in 0 .. f - 1 : n < f - 3 => t[x].weight < t[n].weight

\* Raising a node that is foremost in its block, and going on to its parent.
LEMMA RaiseWeighed ==
  ASSUME NEW t, NEW f, NEW x, Growing(t, f, x), Foremost(t, f, x)
  PROVE  Weighed(Raised(t, x), f, t[x].parent)
<1> DEFINE u == Raised(t, x)
           p == t[x].parent
           w(n) == t[n].weight
<1>0. /\ f \in Nat /\ f >= 3 /\ x \in Nat /\ x <= f - 2 /\ x \in 0 .. f - 1
      /\ t \in [Nodes -> Node] /\ Rooted(t, f) /\ Branches(t, f) /\ LastSplit(t, f) /\ Sums(t, f, x)
      /\ Falling(t, f, x) /\ Positive(t, f, x)
  BY AlphabetAssumption DEF Growing, Weighed
<1>1. \A n \in 0 .. f - 1 : n \in Nodes /\ n \in Nat /\ n # NIL
  BY <1>0, AlphabetAssumption DEF Growing, Nodes, NIL
<1>2. \A n \in 0 .. f - 1 : w(n) \in Nat
  BY <1>0, <1>1, NodeFields
<1>3. \A n \in 0 .. f - 1 : /\ u[n].weight = w(n) + (IF n = x THEN 1 ELSE 0)
                             /\ u[n].symbol = t[n].symbol /\ u[n].left = t[n].left /\ u[n].right = t[n].right
  <2> TAKE n \in 0 .. f - 1
  <2>1. t[n] \in Node /\ n \in Nodes
    BY <1>0, <1>1
  <2>2. u[n] = IF n = x THEN [t[n] EXCEPT !.weight = t[n].weight + 1] ELSE t[n]
    BY <1>0, <2>1 DEF Raised, Heavier
  <2> HIDE DEF u
  <2> QED BY <2>1, <2>2 DEF Node
<1>4. (x = 0 /\ p = NIL) \/ (x > 0 /\ p \in 0 .. x - 1)
  BY <1>0, <1>1 DEF Rooted
<1>5. t[f - 2].parent = f - 3
  BY <1>0 DEF LastSplit
<1>6. w(f - 3) + (IF f - 3 = x THEN 1 ELSE 0) = w(f - 2)
  BY LastWeights
<1> HIDE DEF u
<1>7. ASSUME NEW i \in 0 .. f - 1, i < x, x # f - 2 \/ i # f - 3 PROVE w(x) < w(i)
  <2>1. CASE x > 0 => w(x) < w(x - 1)
    <3>1. x - 1 \in 0 .. f - 1 /\ x > 0 /\ (i = x - 1 \/ i < x - 1)
      BY <1>0, <1>1, <1>7
    <3>2. i < x - 1 => w(x - 1) <= w(i)
      BY <1>0, <3>1, <1>7 DEF Falling
    <3> HIDE DEF w
    <3> QED BY <1>0, <1>2, <2>1, <3>1, <3>2
  <2>2. CASE x = f - 2 /\ \A n \in 0 .. f - 1 : n < f - 3 => w(x) < w(n)
    <3>1. i < f - 3
      BY <1>0, <1>1, <1>7, <2>2
    <3> QED BY <2>2, <3>1
  <2> QED BY <2>1, <2>2 DEF Foremost
<1>8. Sums(u, f, p)
  <2> SUFFICES ASSUME NEW n \in 0 .. f - 1, u[n].symbol = Inner
               PROVE  u[u[n].left].weight + u[u[n].right].weight = u[n].weight + (IF n = p THEN 1 ELSE 0)
    BY DEF Sums
  <2> DEFINE l == t[n].left
             r == t[n].right
  <2>1. t[n].symbol = Inner /\ u[n].left = l /\ u[n].right = r
    BY <1>3
  <2>2. l \in n + 1 .. f - 1 /\ r \in n + 1 .. f - 1 /\ l # r /\ t[l].parent = n /\ t[r].parent = n
    BY <1>0, <2>1 DEF Branches
  <2>3. w(l) + w(r) = w(n) + (IF n = x THEN 1 ELSE 0)
    BY <1>0, <2>1 DEF Sums
  <2>4. n = p => x = l \/ x = r
    <3>1. n = p => x \in 1 .. f - 1
      BY <1>0, <1>1, <1>4
    <3> QED BY <1>0, <3>1 DEF Rooted
  <2>5. x = l \/ x = r => n = p
    <3> HIDE DEF l, r
    <3> QED BY <2>2
  <2>6. l \in 0 .. f - 1 /\ r \in 0 .. f - 1
    <3> HIDE DEF l, r
    <3> QED BY <1>1, <2>2
  <2>7. w(l) \in Nat /\ w(r) \in Nat /\ w(n) \in Nat
    BY <1>2, <2>6
  <2>8. /\ u[l].weight = w(l) + (IF l = x THEN 1 ELSE 0) /\ u[r].weight = w(r) + (IF r = x THEN 1 ELSE 0)
        /\ u[n].weight = w(n) + (IF n = x THEN 1 ELSE 0)
    BY <1>3, <2>6
  <2> HIDE DEF l, r, w, p
  <2> QED BY <2>1, <2>2, <2>3, <2>4, <2>5, <2>7, <2>8
<1>9. Falling(u, f, p)
  <2>1. ASSUME NEW i \in 0 .. f - 1, NEW j \in 0 .. f - 1, i < j, ~ (p = f - 3 /\ i = p /\ j = f - 2)
        PROVE  u[j].weight <= u[i].weight
    <3>1. /\ u[i].weight = w(i) + (IF i = x THEN 1 ELSE 0) /\ u[j].weight = w(j) + (IF j = x THEN 1 ELSE 0)
          /\ w(i) \in Nat /\ w(j) \in Nat
      BY <1>2, <1>3
    <3>2. CASE j = x
      <4>1. x # f - 2 \/ i # f - 3
        BY <1>5, <2>1, <3>2
      <4>2. w(j) < w(i)
        BY <1>7, <2>1, <3>2, <4>1
      <4> HIDE DEF w
      <4> QED BY <2>1, <3>1, <3>2, <4>2
    <3>3. CASE j # x /\ ~ (x = f - 3 /\ i = x /\ j = f - 2)
      <4>1. w(j) <= w(i)
        BY <1>0, <2>1, <3>3 DEF Falling
      <4> HIDE DEF w
      <4> QED BY <3>1, <3>3, <4>1
    <3>4. CASE x = f - 3 /\ i = x /\ j = f - 2
      <4> HIDE DEF w
      <4> QED BY <1>6, <3>1, <3>4
    <3> QED BY <3>2, <3>3, <3>4
  <2>2. ASSUME p = f - 3, NEW n \in 0 .. f - 1, n < p PROVE u[p].weight < u[n].weight
    <3>1. x = f - 2
      BY <1>0, <1>1, <1>4, <2>2
    <3>2. n < x /\ n # x /\ p # x /\ p \in 0 .. f - 1 /\ n # f - 3
      BY <1>0, <1>1, <2>2, <3>1
    <3>3. w(x) < w(n)
      BY <1>7, <3>2
    <3>4. u[p].weight = w(p) + 0 /\ u[n].weight = w(n) + 0 /\ w(p) \in Nat /\ w(n) \in Nat
      BY <1>2, <1>3, <3>2
    <3>5. w(p) + 0 = w(x)
      BY <1>0, <1>6, <2>2, <3>1
    <3> HIDE DEF w, p
    <3> QED BY <3>3, <3>4, <3>5
  <2> HIDE DEF p
  <2> QED BY <2>1, <2>2 DEF Falling
<1>10. Positive(u, f, p)
  <2>1. u[f - 1].weight = 0
    <3>1. f - 1 \in 0 .. f - 1 /\ f - 1 # x
      BY <1>0
    <3>2. w(f - 1) = 0
      BY <1>0 DEF Positive
    <3> HIDE DEF w
    <3> QED BY <1>3, <3>1, <3>2
  <2>2. ASSUME NEW n \in 0 .. f - 2, u[n].weight = 0
        PROVE  (p = f - 2 /\ n >= f - 3) \/ (p = f - 3 /\ n = p)
    <3>1. n \in 0 .. f - 1
      BY <1>0
    <3>2. n # x /\ w(n) = 0
      <4>1. u[n].weight = w(n) + (IF n = x THEN 1 ELSE 0) /\ w(n) \in Nat
        BY <1>2, <1>3, <3>1
      <4> HIDE DEF w
      <4> QED BY <2>2, <4>1
    <3>3. x = f - 2 /\ n >= f - 3
      BY <1>0, <3>2 DEF Positive
    <3> QED BY <1>0, <1>1, <1>5, <3>1, <3>2, <3>3
  <2> HIDE DEF p
  <2> QED BY <2>1, <2>2 DEF Positive
<1>11. p \in 0 .. f - 2 \/ p = NIL
  <2>1. f \in Nat /\ x \in Nat /\ x <= f - 2
    BY <1>0
  <2> HIDE DEF p
  <2>2. p \in 0 .. x - 1 => p \in 0 .. f - 2
    BY <2>1
  <2> QED BY <1>4, <2>2
<1> QED BY <1>8, <1>9, <1>10, <1>11 DEF Weighed, u

\* A node and the leader of its block may change places.
LEMMA MaySwapLeader ==
  ASSUME NEW t, NEW f, NEW x, Growing(t, f, x),
         NEW i \in 1 .. x - 1, i < f - 3, x # f - 3, t[i].weight = t[x].weight,
         \A n \in 0 .. f - 2 : t[n].weight # 0
  PROVE  MaySwap(t, i, x) /\ Apart(t, f, i, x)
<1>0. /\ f \in Nat /\ f >= 3 /\ x \in Nat /\ x <= f - 2 /\ x \in 1 .. f - 1 /\ i \in 1 .. f - 1 /\ i \in Nat /\ i < x
      /\ t \in [Nodes -> Node] /\ Rooted(t, f) /\ Falling(t, f, x)
      /\ \A n \in 0 .. f - 1 : n \in Nodes /\ n \in Nat /\ n # NIL
  BY AlphabetAssumption DEF Growing, Weighed, Nodes, NIL
<1>1. ASSUME NEW c \in 1 .. f - 1, t[c].parent = i PROVE x < c
  <2>1. t[c].weight < t[i].weight
    <3>1. t[c].parent # x /\ t[c].parent # f - 3
      BY <1>0, <1>1
    <3> QED BY <1>1, <3>1, ParentHeavier
  <2>2. c \in 0 .. f - 1 /\ c \in Nat /\ x \in 0 .. f - 1 /\ c \in Nodes /\ x \in Nodes
    BY <1>0
  <2>3. c < x => t[x].weight <= t[c].weight
    BY <1>0, <2>2 DEF Falling
  <2>4. t[c].weight \in Nat /\ t[x].weight \in Nat
    BY <1>0, <2>2, NodeFields
  <2>5. t[c].weight < t[x].weight
    BY <2>1
  <2>6. ~ (c < x) /\ c # x
    BY <2>3, <2>4, <2>5
  <2> QED BY <1>0, <2>2, <2>6
<1>2. t[x].parent # i
  BY <1>0, <1>1
<1>3. t[i].parent \in 0 .. i - 1 /\ t[x].parent \in 0 .. x - 1
  BY <1>0 DEF Rooted
<1>4. MaySwap(t, i, x)
  BY <1>0, <1>2, <1>3 DEF MaySwap, NIL
<1>5. Apart(t, f, i, x)
  BY <1>0, <1>1 DEF Apart
<1> QED BY <1>4, <1>5

\* After a node has changed places with the leader of its block, it is foremost,
\* and nothing else has changed in weight.
LEMMA SwapWeighed ==
  ASSUME NEW h, Shape(h), NEW x, Growing(h.tree, h.next_free_slot, x),
         NEW i \in 1 .. x - 1, i < h.next_free_slot - 3, x # h.next_free_slot - 3,
         h.tree[i].weight = h.tree[x].weight, h.tree[x].weight < h.tree[i - 1].weight,
         \A n \in 0 .. h.next_free_slot - 2 : h.tree[n].weight # 0
  PROVE  LET g == swap(h, i, x)
         IN  /\ Shape(g) /\ g.next_free_slot = h.next_free_slot
             /\ Growing(g.tree, h.next_free_slot, i) /\ Foremost(g.tree, h.next_free_slot, i)
<1> DEFINE t == h.tree
           f == h.next_free_slot
           g == swap(h, i, x)
           u == g.tree
           y(n) == Other(i, x, n)
<1>1. Apart(t, f, i, x)
  BY MaySwapLeader
<1>2. Shape(g) /\ g.next_free_slot = f
  BY <1>1, SwapShape
<1>3. \A n \in Nodes : /\ u[n].weight = t[y(n)].weight /\ u[n].symbol = t[y(n)].symbol
                        /\ u[n].left = t[y(n)].left /\ u[n].right = t[y(n)].right
  BY <1>1, SwapFields
<1>4. Rooted(u, f) /\ Branches(u, f) /\ LastSplit(u, f) /\ u \in [Nodes -> Node]
  BY <1>2, CoderFields DEF Shape
<1> HIDE DEF g, u
<1>5. /\ f \in Nat /\ f >= 3 /\ f \in 3 .. 2 * alphabet_size + 1 /\ x \in 1 .. f - 2 /\ i \in 1 .. f - 2
      /\ i \in Nat /\ x \in Nat /\ i < x /\ i # f - 3 /\ x # f - 3 /\ i # x
      /\ t \in [Nodes -> Node] /\ Branches(t, f) /\ Sums(t, f, x) /\ Falling(t, f, x) /\ Positive(t, f, x)
  BY AlphabetAssumption DEF Growing, Weighed
<1>6. \A n \in 0 .. f - 1 : n \in Nodes /\ n \in Nat /\ y(n) \in 0 .. f - 1
  BY <1>5, AlphabetAssumption DEF Nodes, Other
<1>7. \A n \in 0 .. f - 1 : u[n].weight = t[n].weight /\ t[n].weight \in Nat
  <2> TAKE n \in 0 .. f - 1
  <2>1. t[y(n)].weight = t[n].weight
    BY DEF Other
  <2>2. t[n].weight \in Nat
    BY <1>5, <1>6, NodeFields
  <2> HIDE DEF y
  <2> QED BY <1>3, <1>6, <2>1, <2>2
<1>8. Sums(u, f, i)
  <2> SUFFICES ASSUME NEW n \in 0 .. f - 1, u[n].symbol = Inner
               PROVE  u[u[n].left].weight + u[u[n].right].weight = u[n].weight + (IF n = i THEN 1 ELSE 0)
    BY DEF Sums
  <2> DEFINE m == y(n)
             l == t[m].left
             r == t[m].right
  <2>1. m \in 0 .. f - 1 /\ t[m].symbol = Inner /\ u[n].left = l /\ u[n].right = r
    <3> HIDE DEF y
    <3> QED BY <1>3, <1>6
  <2>2. m = x <=> n = i
    BY <1>5 DEF Other
  <2>3. t[m].weight = u[n].weight
    <3>1. t[m].weight = t[n].weight
      BY DEF Other
    <3> HIDE DEF m
    <3> QED BY <1>7, <3>1
  <2> HIDE DEF m
  <2>4. t[l].weight + t[r].weight = t[m].weight + (IF m = x THEN 1 ELSE 0)
    BY <1>5, <2>1 DEF Sums
  <2>5. l \in m + 1 .. f - 1 /\ r \in m + 1 .. f - 1
    BY <1>5, <2>1 DEF Branches
  <2> HIDE DEF l, r
  <2>6. l \in 0 .. f - 1 /\ r \in 0 .. f - 1
    BY <1>5, <2>1, <2>5
  <2>7. u[l].weight = t[l].weight /\ u[r].weight = t[r].weight
    BY <1>7, <2>6
  <2> QED BY <2>1, <2>2, <2>3, <2>4, <2>7
<1>9. Falling(u, f, i)
  <2>1. ASSUME NEW j \in 0 .. f - 1, NEW k \in 0 .. f - 1, j < k PROVE u[k].weight <= u[j].weight
    <3>1. t[k].weight <= t[j].weight
      BY <1>5, <2>1 DEF Falling
    <3> QED BY <1>7, <3>1
  <2> QED BY <1>5, <2>1 DEF Falling
<1>10. Positive(u, f, i)
  <2>1. f - 1 \in 0 .. f - 1 /\ \A n \in 0 .. f - 2 : n \in 0 .. f - 1
    BY <1>5
  <2>2. u[f - 1].weight = 0
    BY <1>5, <1>7, <2>1 DEF Positive
  <2>3. \A n \in 0 .. f - 2 : u[n].weight # 0
    BY <1>7, <2>1
  <2> QED BY <2>2, <2>3 DEF Positive
<1>11. Growing(u, f, i)
  <2>1. i \in 0 .. f - 2
    BY <1>5
  <2> QED BY <1>4, <1>5, <1>8, <1>9, <1>10, <2>1 DEF Growing, Weighed
<1>12. Foremost(u, f, i)
  <2>1. i \in 0 .. f - 1 /\ i - 1 \in 0 .. f - 1
    BY <1>5
  <2>2. u[i].weight < u[i - 1].weight
    BY <1>7, <2>1
  <2> QED BY <2>2 DEF Foremost
<1> QED BY <1>2, <1>11, <1>12 DEF u, g

\* Changing weights of used nodes only keeps the shape.
LEMMA RaiseShape ==
  ASSUME NEW h, Shape(h), NEW x \in 0 .. h.next_free_slot - 1
  PROVE  LET g == [h EXCEPT !.tree = Raised(h.tree, x)]
         IN  /\ Shape(g)
             /\ g.tree = Raised(h.tree, x) /\ g.next_free_slot = h.next_free_slot /\ g.map_code = h.map_code
             /\ g.nyt_node = h.nyt_node /\ g.map_leaf = h.map_leaf
             /\ \A n \in Nodes : /\ g.tree[n].symbol = h.tree[n].symbol /\ g.tree[n].parent = h.tree[n].parent
                                 /\ g.tree[n].left = h.tree[n].left /\ g.tree[n].right = h.tree[n].right
<1> DEFINE t == h.tree
           f == h.next_free_slot
           u == Raised(t, x)
           g == [h EXCEPT !.tree = u]
<1>1. /\ t \in [Nodes -> Node] /\ f \in 1 .. 2 * alphabet_size + 1 /\ Rooted(t, f) /\ Branches(t, f)
      /\ LastSplit(t, f) /\ Unused(t, f) /\ Labels(h) /\ h \in Coder
  BY CoderFields DEF Shape
<1>2. f \in Nat /\ \A n \in 0 .. f - 1 : n \in Nodes /\ n \in Nat
  BY <1>1, AlphabetAssumption DEF Nodes
<1>3. ASSUME NEW n \in Nodes
      PROVE  /\ u[n] \in Node /\ u[n].symbol = t[n].symbol /\ u[n].parent = t[n].parent
             /\ u[n].left = t[n].left /\ u[n].right = t[n].right /\ (n # x => u[n] = t[n])
  <2>1. t[n] \in Node
    BY <1>1
  <2>2. u[n] = IF n = x THEN [t[n] EXCEPT !.weight = t[n].weight + 1] ELSE t[n]
    BY <1>1 DEF Raised, Heavier
  <2>3. [t[n] EXCEPT !.weight = t[n].weight + 1] \in Node
    <3> HIDE DEF t
    <3> QED BY <2>1 DEF Node
  <2> HIDE DEF u, t
  <2> QED BY <2>1, <2>2, <2>3 DEF Node
<1>4. u \in [Nodes -> Node]
  <2>1. u = [n \in Nodes |-> u[n]]
    BY <1>1 DEF Raised
  <2> HIDE DEF u
  <2> QED BY <1>3, <2>1
<1> HIDE DEF u
<1>5. g \in Coder
  <2> HIDE DEF t
  <2> QED BY <1>1, <1>4 DEF Coder
<1>6. /\ g.tree = u /\ g.next_free_slot = f /\ g.nyt_node = h.nyt_node /\ g.map_leaf = h.map_leaf
      /\ g.map_code = h.map_code
  BY <1>1 DEF Coder
<1> HIDE DEF g
<1>7. Rooted(u, f)
  <2>1. u[0].parent = NIL
    BY <1>1, <1>2, <1>3 DEF Rooted
  <2>2. ASSUME NEW n \in 1 .. f - 1
        PROVE  u[n].parent \in 0 .. n - 1 /\ (u[u[n].parent].left = n \/ u[u[n].parent].right = n)
    <3>1. t[n].parent \in 0 .. n - 1 /\ (t[t[n].parent].left = n \/ t[t[n].parent].right = n)
      BY <1>1 DEF Rooted
    <3>2. n \in Nodes /\ t[n].parent \in Nodes
      BY <1>2, <3>1
    <3> QED BY <1>3, <3>1, <3>2
  <2> QED BY <2>1, <2>2 DEF Rooted
<1>8. Branches(u, f)
  <2> SUFFICES ASSUME NEW n \in 0 .. f - 1
               PROVE  /\ u[n].symbol # Inner => u[n].left = NIL /\ u[n].right = NIL
                      /\ u[n].symbol = Inner =>
                           /\ u[n].left \in n + 1 .. f - 1 /\ u[n].right \in n + 1 .. f - 1
                           /\ u[n].left # u[n].right
                           /\ u[u[n].left].parent = n /\ u[u[n].right].parent = n
    BY DEF Branches
  <2>1. u[n].symbol = t[n].symbol /\ u[n].left = t[n].left /\ u[n].right = t[n].right
    BY <1>2, <1>3
  <2>2. CASE t[n].symbol # Inner
    BY <1>1, <2>1, <2>2 DEF Branches
  <2>3. CASE t[n].symbol = Inner
    <3>1. /\ t[n].left \in n + 1 .. f - 1 /\ t[n].right \in n + 1 .. f - 1 /\ t[n].left # t[n].right
          /\ t[t[n].left].parent = n /\ t[t[n].right].parent = n
      BY <1>1, <2>3 DEF Branches
    <3>2. t[n].left \in Nodes /\ t[n].right \in Nodes
      BY <1>2, <3>1
    <3> QED BY <1>3, <2>1, <2>3, <3>1, <3>2
  <2> QED BY <2>2, <2>3
<1>9. LastSplit(u, f)
  <2>1. ASSUME f > 1 PROVE f >= 3 /\ u[f - 1].parent = f - 3 /\ u[f - 2].parent = f - 3
    <3>1. f >= 3 /\ t[f - 1].parent = f - 3 /\ t[f - 2].parent = f - 3
      BY <1>1, <2>1 DEF LastSplit
    <3>2. f - 1 \in Nodes /\ f - 2 \in Nodes
      BY <1>2, <3>1
    <3> QED BY <1>3, <3>1, <3>2
  <2> QED BY <2>1 DEF LastSplit
<1>10. Unused(u, f)
  <2> SUFFICES ASSUME NEW n \in Nodes, n >= f PROVE u[n] = NewNode
    BY DEF Unused
  <2>1. n # x
    BY <1>2, AlphabetAssumption DEF Nodes
  <2> QED BY <1>1, <1>3, <2>1 DEF Unused
<1>11. Labels(g)
  <2>1. \A n \in 0 .. f - 1 : u[n].symbol = t[n].symbol
    BY <1>2, <1>3
  <2> QED BY <1>1, <1>6, <2>1 DEF Labels, Seen
<1>12. Shape(g)
  BY <1>5, <1>6, <1>7, <1>8, <1>9, <1>10, <1>11 DEF Shape
<1> QED BY <1>3, <1>6, <1>12 DEF g, u

\* The places in the array that two coders with the same tree agree on: all but
\* the weights.
SameForm(g, h) ==
  /\ g.map_leaf = h.map_leaf
  /\ \A n \in Nodes : g.tree[n].parent = h.tree[n].parent /\ g.tree[n].right = h.tree[n].right

\* What a walk does not change.
Kept(g, h) ==
  /\ g.next_free_slot = h.next_free_slot /\ g.map_code = h.map_code
  /\ \A s \in Symbols : Seen(g, s) <=> Seen(h, s)

\* One round swaps and raises a node, and goes on to an earlier one.
LEMMA ClimbKeeps ==
  ASSUME NEW w, NEW h, NEW x, w.coder = h, w.node = x, OnWay(h, x), x # NIL
  PROVE  LET c == Climb(w)
         IN  /\ OnWay(c.coder, c.node) /\ (c.node = NIL \/ c.node \in 0 .. x - 1)
             /\ Kept(c.coder, h)
             /\ c.swapped \in BOOLEAN /\ (w.swapped => c.swapped)
             /\ c.swapped \/ SameForm(c.coder, h)
<1> DEFINE t == h.tree
           f == h.next_free_slot
           l == get_block_leader(t, x)
           c == Climb(w)
<1>1. /\ Shape(h) /\ Weighed(t, f, x) /\ x \in 0 .. f - 2
      /\ t \in [Nodes -> Node] /\ f \in 1 .. 2 * alphabet_size + 1
      /\ Rooted(t, f) /\ Branches(t, f) /\ LastSplit(t, f)
  BY CoderFields DEF OnWay, Shape, Weighed
<1>2. f \in 3 .. 2 * alphabet_size + 1 /\ f \in Nat /\ x \in Nat /\ x \in 0 .. f - 1 /\ x \in Nodes
  BY <1>1, AlphabetAssumption DEF LastSplit, Nodes
<1>3. Growing(t, f, x)
  BY <1>1, <1>2 DEF Growing
<1>4. CASE l = x /\ Foremost(t, f, x)
  <2> DEFINE g == [h EXCEPT !.tree = Raised(t, x)]
  <2>1. c = [coder |-> g, node |-> t[x].parent, swapped |-> w.swapped \/ FALSE]
    <3>1. ~ MaySwap(t, l, x)
      BY <1>4 DEF MaySwap
    <3> HIDE DEF l
    <3> QED BY <3>1 DEF Climb, Raise, l, Raised
  <2>2. /\ Shape(g) /\ g.tree = Raised(t, x) /\ g.next_free_slot = f /\ g.map_code = h.map_code
        /\ g.map_leaf = h.map_leaf
        /\ \A n \in Nodes : g.tree[n].parent = h.tree[n].parent /\ g.tree[n].right = h.tree[n].right
    BY <1>1, <1>2, RaiseShape
  <2>3. Weighed(Raised(t, x), f, t[x].parent)
    BY <1>3, <1>4, RaiseWeighed
  <2>4. t[x].parent = NIL \/ t[x].parent \in 0 .. x - 1
    BY <1>1, <1>2 DEF Rooted
  <2> HIDE DEF g, c
  <2>5. c.coder = g /\ c.node = t[x].parent /\ c.swapped = (w.swapped \/ FALSE)
    BY <2>1
  <2> QED BY <2>2, <2>3, <2>4, <2>5 DEF OnWay, SameForm, Kept, Seen, c
<1>5. CASE /\ l \in 1 .. x - 1 /\ l < f - 3 /\ x # f - 3
           /\ t[l].weight = t[x].weight /\ t[x].weight < t[l - 1].weight
           /\ \A n \in 0 .. f - 2 : t[n].weight # 0
  <2> HIDE DEF l
  <2> DEFINE s == swap(h, l, x)
             g == [s EXCEPT !.tree = Raised(s.tree, l)]
  <2>1. MaySwap(t, l, x) /\ Apart(t, f, l, x)
    BY <1>3, <1>5, MaySwapLeader
  <2>2. c = [coder |-> g, node |-> s.tree[l].parent, swapped |-> w.swapped \/ TRUE]
    BY <2>1 DEF Climb, Raise, l, Raised
  <2>3. Shape(s) /\ s.next_free_slot = f /\ Growing(s.tree, f, l) /\ Foremost(s.tree, f, l)
    BY <1>1, <1>3, <1>5, SwapWeighed
  <2>4. s.map_code = h.map_code /\ \A a \in Symbols : Seen(s, a) <=> Seen(h, a)
    BY <1>1, <2>1, SwapShape
  <2> HIDE DEF s
  <2>5. l \in 0 .. f - 1
    BY <1>2, <1>5
  <2>6. /\ Shape(g) /\ g.tree = Raised(s.tree, l) /\ g.next_free_slot = f /\ g.map_code = s.map_code
        /\ g.map_leaf = s.map_leaf
    BY <2>3, <2>5, RaiseShape
  <2>7. Weighed(Raised(s.tree, l), f, s.tree[l].parent)
    BY <2>3, RaiseWeighed
  <2>8. s.tree[l].parent \in 0 .. x - 1
    <3>1. s.tree[l].parent \in 0 .. l - 1
      BY <1>2, <1>5, <2>3 DEF Growing, Rooted
    <3>2. l \in Nat /\ l < x
      BY <1>2, <1>5
    <3> QED BY <1>2, <3>1, <3>2
  <2> HIDE DEF g, c
  <2>9. c.coder = g /\ c.node = s.tree[l].parent /\ c.swapped = (w.swapped \/ TRUE)
    BY <2>2
  <2> QED BY <2>3, <2>4, <2>6, <2>7, <2>8, <2>9 DEF OnWay, Kept, Seen, c
<1>6. \/ l = x /\ Foremost(t, f, x)
      \/ /\ l \in 1 .. x - 1 /\ l < f - 3 /\ x # f - 3
         /\ t[l].weight = t[x].weight /\ t[x].weight < t[l - 1].weight
         /\ \A n \in 0 .. f - 2 : t[n].weight # 0
  <2> HIDE DEF t, f
  <2> QED BY <1>3, Leader DEF Foremost
<1> QED BY <1>4, <1>5, <1>6

-------------------------------------------------------------------------------
(* The walk. *)

Round(v) == IF v.node = NIL THEN v ELSE Climb(v)

Walks(h, x, u) ==
  u = [i \in 0 .. h.next_free_slot |->
         IF i = 0 THEN [coder |-> h, node |-> x, swapped |-> FALSE] ELSE Round(u[i - 1])]

\* The states a walk that began at coder h can be in.
WayFrom(h) ==
  {v \in [coder : Coder, node : Place, swapped : BOOLEAN] :
     /\ OnWay(v.coder, v.node) /\ Kept(v.coder, h)
     /\ v.swapped \/ SameForm(v.coder, h)}

\* A round leads from such a state to such a state, further to the front.
LEMMA RoundKeeps ==
  ASSUME NEW h, NEW v \in WayFrom(h)
  PROVE  /\ Round(v) \in WayFrom(h)
         /\ v.node # NIL => Round(v).node = NIL \/ Round(v).node \in 0 .. v.node - 1
<1>1. CASE v.node = NIL
  BY <1>1 DEF Round
<1>2. CASE v.node # NIL
  <2> DEFINE c == Climb(v)
  <2>1. OnWay(v.coder, v.node) /\ Kept(v.coder, h) /\ (v.swapped \/ SameForm(v.coder, h)) /\ v.node \in Place
    BY DEF WayFrom
  <2>2. /\ OnWay(c.coder, c.node) /\ (c.node = NIL \/ c.node \in 0 .. v.node - 1)
        /\ Kept(c.coder, v.coder)
        /\ c.swapped \in BOOLEAN /\ (v.swapped => c.swapped)
        /\ c.swapped \/ SameForm(c.coder, v.coder)
    BY <1>2, <2>1, ClimbKeeps
  <2>3. c = [coder |-> c.coder, node |-> c.node, swapped |-> c.swapped]
    BY DEF Climb, Raise
  <2> HIDE DEF c
  <2>4. c.coder \in Coder
    BY <2>2 DEF OnWay, Shape
  <2>5. c.node \in Place
    <3>1. v.node \in Nodes
      BY <1>2, <2>1 DEF Place
    <3> QED BY <2>2, <3>1, AlphabetAssumption DEF Place, Nodes
  <2>6. c \in [coder : Coder, node : Place, swapped : BOOLEAN]
    BY <2>2, <2>3, <2>4, <2>5
  <2>7. Kept(c.coder, h)
    BY <2>1, <2>2 DEF Kept
  <2>8. c.swapped \/ SameForm(c.coder, h)
    BY <2>1, <2>2 DEF SameForm
  <2>9. c \in WayFrom(h)
    BY <2>2, <2>6, <2>7, <2>8 DEF WayFrom
  <2>10. Round(v) = c
    BY <1>2 DEF Round, c
  <2> QED BY <2>2, <2>9, <2>10
<1> QED BY <1>1, <1>2

\* The state a walk begins in.
LEMMA WalkBegins ==
  ASSUME NEW h, NEW x, OnWay(h, x)
  PROVE  [coder |-> h, node |-> x, swapped |-> FALSE] \in WayFrom(h)
<1> DEFINE v == [coder |-> h, node |-> x, swapped |-> FALSE]
<1>1. h \in Coder /\ h.next_free_slot \in 1 .. 2 * alphabet_size + 1
  BY CoderFields DEF OnWay, Shape
<1>2. x \in Place
  BY <1>1, AlphabetAssumption DEF OnWay, Weighed, Place, Nodes
<1>3. v.coder = h /\ v.node = x /\ v \in [coder : Coder, node : Place, swapped : BOOLEAN]
  BY <1>1, <1>2
<1>4. Kept(h, h) /\ SameForm(h, h)
  BY DEF Kept, SameForm
<1> HIDE DEF v
<1>5. v \in WayFrom(h)
  BY <1>3, <1>4 DEF WayFrom
<1> QED BY <1>5 DEF v

\* The walk's recursion.
LEMMA WalkUnfold ==
  ASSUME NEW h, NEW x, OnWay(h, x)
  PROVE  \E u : Walks(h, x, u) /\ Walk(h, x) = u[h.next_free_slot]
<1> DEFINE S == WayFrom(h)
           base == [coder |-> h, node |-> x, swapped |-> FALSE]
           G == [k \in Nat |-> [v \in S |-> Round(v)]]
           f == h.next_free_slot
<1>1. base \in S
  BY WalkBegins
<1>2. \A v \in S : Round(v) \in S
  BY RoundKeeps
<1>3. G \in [Nat -> [S -> S]]
  <2> HIDE DEF S
  <2> QED BY <1>2
<1>4. f \in Nat
  BY CoderFields, AlphabetAssumption DEF OnWay, Shape
<1>5. PICK u \in [0 .. f -> S] : u[0] = base /\ \A k \in 1 .. f : u[k] = G[k][u[k - 1]]
  <2> HIDE DEF S, G, base, f
  <2>1. RecursiveOn(S, base, G, f)
    BY <1>1, <1>3, <1>4, IntervalRecursion
  <2> QED BY <2>1 DEF RecursiveOn
<1>6. \A k \in 1 .. f : u[k] = Round(u[k - 1])
  <2> TAKE k \in 1 .. f
  <2>1. k - 1 \in 0 .. f /\ k \in Nat
    BY <1>4
  <2>2. u[k - 1] \in S
    <3> HIDE DEF S
    <3> QED BY <2>1
  <2> HIDE DEF S
  <2> QED BY <1>5, <2>1, <2>2
<1>7. u = [i \in 0 .. f |-> IF i = 0 THEN base ELSE Round(u[i - 1])]
  <2>1. \A i \in 0 .. f : u[i] = IF i = 0 THEN base ELSE Round(u[i - 1])
    <3> TAKE i \in 0 .. f
    <3>1. i = 0 \/ i \in 1 .. f
      BY <1>4
    <3> HIDE DEF base, G
    <3> QED BY <1>5, <1>6, <3>1
  <2>2. u = [i \in 0 .. f |-> u[i]]
    OBVIOUS
  <2> HIDE DEF base, G
  <2> QED BY <2>1, <2>2
<1>8. Walks(h, x, u)
  BY <1>7 DEF Walks
<1> DEFINE c == CHOOSE r : Walks(h, x, r)
<1>9. Walks(h, x, c)
  BY <1>8
<1>10. Walk(h, x) = c[f]
  BY DEF Walk, Walks, Round
<1> HIDE DEF c
<1> QED BY <1>9, <1>10

\* A walk is over before its rounds are.
LEMMA WalkEnds ==
  ASSUME NEW h, NEW x, OnWay(h, x)
  PROVE  Walk(h, x) \in WayFrom(h) /\ Walk(h, x).node = NIL
<1> DEFINE f == h.next_free_slot
<1>1. PICK u : Walks(h, x, u) /\ Walk(h, x) = u[f]
  BY WalkUnfold
<1>2. f \in Nat
  BY CoderFields, AlphabetAssumption DEF OnWay, Shape
<1>3. u[0] = [coder |-> h, node |-> x, swapped |-> FALSE]
  BY <1>1, <1>2 DEF Walks
<1>4. ASSUME NEW k \in 0 .. f - 1 PROVE u[k + 1] = Round(u[k])
  <2>1. k + 1 \in 0 .. f /\ k + 1 # 0 /\ (k + 1) - 1 = k
    BY <1>2
  <2> HIDE DEF f
  <2> QED BY <1>1, <2>1 DEF Walks, f
<1> DEFINE Good(k) == u[k] \in WayFrom(h) /\ (u[k].node = NIL \/ u[k].node <= f - 2 - k)
           T == {k \in Nat : k <= f => Good(k)}
<1>5. 0 \in T
  <2>1. u[0] \in WayFrom(h)
    BY <1>3, WalkBegins
  <2>2. x = NIL \/ x <= f - 2 - 0
    BY <1>2 DEF OnWay, Weighed
  <2>3. u[0].node = x
    BY <1>3
  <2> QED BY <2>1, <2>2, <2>3
<1>6. ASSUME NEW k \in T PROVE k + 1 \in T
  <2>1. SUFFICES ASSUME k + 1 <= f PROVE Good(k + 1)
    BY DEF T
  <2>2. k \in Nat /\ k <= f /\ k \in 0 .. f - 1
    BY <1>2, <2>1 DEF T
  <2>3. Good(k)
    BY <2>2 DEF T
  <2>4. u[k + 1] = Round(u[k]) /\ u[k + 1] \in WayFrom(h)
    BY <1>4, <2>2, <2>3, RoundKeeps
  <2>5. CASE u[k].node = NIL
    BY <2>4, <2>5 DEF Round
  <2>6. CASE u[k].node # NIL
    <3>1. u[k + 1].node = NIL \/ u[k + 1].node \in 0 .. u[k].node - 1
      BY <2>3, <2>4, <2>6, RoundKeeps
    <3>2. u[k].node <= f - 2 - k /\ u[k].node \in Nat
      BY <2>3, <2>6, AlphabetAssumption DEF WayFrom, Place, Nodes
    <3>3. u[k + 1].node = NIL \/ u[k + 1].node <= f - 2 - (k + 1)
      BY <1>2, <2>2, <3>1, <3>2
    <3> QED BY <2>4, <3>3
  <2> QED BY <2>5, <2>6
<1>7. T = Nat
  <2>1. T \in SUBSET Nat
    BY DEF T
  <2> HIDE DEF T
  <2> QED BY <1>5, <1>6, <2>1, NatSetInduction
<1>8. Good(f)
  <2>1. f \in T
    BY <1>2, <1>7
  <2> QED BY <1>2, <2>1 DEF T
<1>9. u[f].node \in Place
  BY <1>8 DEF WayFrom
<1>10. u[f].node = NIL
  BY <1>2, <1>8, <1>9, AlphabetAssumption DEF Place, Nodes
<1> QED BY <1>1, <1>8, <1>10

-------------------------------------------------------------------------------
(* Codes. *)

\* No node but those before it is a node's parent.
Upward(t) == t \in [Nodes -> Node] /\ \A n \in Nodes : t[n].parent = NIL \/ t[n].parent \in 0 .. n - 1

Side(t, n) == IF t[t[n].parent].right = n THEN 1 ELSE 0

PathStep(t, u, n) == IF t[n].parent = NIL THEN <<>> ELSE Append(u[t[n].parent], Side(t, n))

Paths(t, u) == u = [n \in Nodes |-> PathStep(t, u, n)]

\* The recursion of Path has a solution, and its values are bits.
LEMMA PathsExist ==
  ASSUME NEW t, Upward(t)
  PROVE  \E u \in [Nodes -> Seq(Bits)] : Paths(t, u)
<1> DEFINE N == 2 * alphabet_size
           Good(m, u) == \A n \in 0 .. m : u[n] = PathStep(t, u, n)
           T == {m \in Nat : m <= N => \E u \in [0 .. m -> Seq(Bits)] : Good(m, u)}
<1>1. N \in Nat /\ Nodes = 0 .. N /\ NIL \notin Nat
  BY AlphabetAssumption DEF Nodes, NIL
<1> HIDE DEF N
<1>2. \A n \in Nodes : n \in Nat /\ (t[n].parent = NIL \/ t[n].parent \in 0 .. n - 1)
  BY <1>1 DEF Upward
<1>3. ASSUME NEW n \in Nodes PROVE Side(t, n) \in Bits
  BY DEF Side, Bits
<1>4. 0 \in T
  <2> DEFINE u == [n \in 0 .. 0 |-> <<>>]
  <2>1. u \in [0 .. 0 -> Seq(Bits)]
    OBVIOUS
  <2>2. t[0].parent = NIL
    <3>1. 0 \in Nodes /\ 0 .. 0 - 1 = {}
      BY <1>1
    <3> QED BY <1>2, <3>1
  <2>3. Good(0, u)
    <3> SUFFICES ASSUME NEW n \in 0 .. 0 PROVE u[n] = PathStep(t, u, n)
      OBVIOUS
    <3>1. n = 0
      OBVIOUS
    <3> QED BY <2>2, <3>1 DEF PathStep
  <2> HIDE DEF u, Good
  <2> QED BY <2>1, <2>3
<1>5. ASSUME NEW m \in T PROVE m + 1 \in T
  <2>0. m \in Nat
    OBVIOUS
  <2>1. SUFFICES ASSUME m + 1 <= N PROVE \E u \in [0 .. m + 1 -> Seq(Bits)] : Good(m + 1, u)
    BY <2>0
  <2>2. PICK u \in [0 .. m -> Seq(Bits)] : Good(m, u)
    <3>1. m <= N
      BY <1>1, <2>0, <2>1
    <3> HIDE DEF Good
    <3> QED BY <3>1
  <2> HIDE DEF T
  <2> DEFINE v == [n \in 0 .. m + 1 |-> IF n <= m THEN u[n] ELSE PathStep(t, u, n)]
  <2>3. \A n \in 0 .. m : n \in Nodes /\ n \in 0 .. m + 1 /\ n <= m
    BY <1>1, <2>0, <2>1
  <2>4. m + 1 \in Nodes /\ m + 1 \in 0 .. m + 1 /\ ~ (m + 1 <= m) /\ (m + 1) - 1 = m
    BY <1>1, <2>0, <2>1
  <2>5. PathStep(t, u, m + 1) \in Seq(Bits)
    <3>1. CASE t[m + 1].parent = NIL
      BY <3>1 DEF PathStep
    <3>2. CASE t[m + 1].parent # NIL
      <4>1. t[m + 1].parent \in 0 .. m
        BY <1>2, <2>4, <3>2
      <4>2. u[t[m + 1].parent] \in Seq(Bits) /\ Side(t, m + 1) \in Bits
        BY <1>3, <2>4, <4>1
      <4> QED BY <3>2, <4>2, AppendProperties DEF PathStep
    <3> QED BY <3>1, <3>2
  <2>6. v \in [0 .. m + 1 -> Seq(Bits)]
    <3>1. \A n \in 0 .. m + 1 : (IF n <= m THEN u[n] ELSE PathStep(t, u, n)) \in Seq(Bits)
      <4> TAKE n \in 0 .. m + 1
      <4>1. n \in 0 .. m \/ n = m + 1
        BY <2>0
      <4> QED BY <2>3, <2>4, <2>5, <4>1
    <3> QED BY <3>1
  <2>7. \A n \in 0 .. m : v[n] = u[n]
    BY <2>3
  <2>8. v[m + 1] = PathStep(t, u, m + 1)
    BY <2>4
  <2> HIDE DEF v
  <2>9. Good(m + 1, v)
    <3> SUFFICES ASSUME NEW n \in 0 .. m + 1 PROVE v[n] = PathStep(t, v, n)
      OBVIOUS
    <3>1. n \in 0 .. m \/ n = m + 1
      BY <2>0
    <3>2. t[n].parent = NIL \/ t[n].parent \in 0 .. m
      <4>1. n \in Nodes
        BY <2>3, <2>4, <3>1
      <4>2. n \in Nat /\ n - 1 <= m
        BY <2>0
      <4>3. t[n].parent \in 0 .. n - 1 => t[n].parent \in 0 .. m
        BY <2>0, <4>2
      <4> QED BY <1>2, <4>1, <4>3
    <3>3. PathStep(t, v, n) = PathStep(t, u, n)
      BY <2>7, <3>2 DEF PathStep
    <3> QED BY <2>2, <2>7, <2>8, <3>1, <3>3
  <2> HIDE DEF Good
  <2> QED BY <2>6, <2>9
<1>6. T = Nat
  <2>1. T \in SUBSET Nat
    OBVIOUS
  <2> HIDE DEF T
  <2> QED BY <1>4, <1>5, <2>1, NatSetInduction
<1>7. PICK u \in [0 .. N -> Seq(Bits)] : Good(N, u)
  <2>1. N \in T /\ N <= N
    BY <1>1, <1>6
  <2> HIDE DEF Good
  <2> QED BY <2>1
<1>8. u = [n \in Nodes |-> u[n]]
  BY <1>1
<1>9. [n \in Nodes |-> u[n]] = [n \in Nodes |-> PathStep(t, u, n)]
  BY <1>1, <1>7
<1>10. Paths(t, u)
  BY <1>8, <1>9 DEF Paths
<1> QED BY <1>1, <1>10

\* What the path to a node is.
LEMMA PathUnfold ==
  ASSUME NEW t, Upward(t)
  PROVE  \E u : Paths(t, u) /\ \A n \in Nodes : Path(t, n) = u[n]
<1> DEFINE u == CHOOSE r : Paths(t, r)
<1>1. Paths(t, u)
  BY PathsExist
<1>2. \A n \in Nodes : Path(t, n) = u[n]
  BY DEF Path, Paths, PathStep, Side
<1> HIDE DEF u
<1> QED BY <1>1, <1>2

\* A node's path is its parent's and one bit more.
LEMMA PathOf ==
  ASSUME NEW t, Upward(t), NEW n \in Nodes
  PROVE  Path(t, n) = IF t[n].parent = NIL THEN <<>> ELSE Append(Path(t, t[n].parent), Side(t, n))
<1>1. PICK u : Paths(t, u) /\ \A m \in Nodes : Path(t, m) = u[m]
  BY PathUnfold
<1>2. u[n] = PathStep(t, u, n)
  BY <1>1 DEF Paths
<1>3. t[n].parent = NIL \/ t[n].parent \in Nodes
  BY AlphabetAssumption DEF Upward, Nodes
<1> QED BY <1>1, <1>2, <1>3 DEF PathStep

\* A path consists of bits.
LEMMA PathType ==
  ASSUME NEW t, Upward(t), NEW n \in Nodes
  PROVE  Path(t, n) \in Seq(Bits)
<1> DEFINE T == {m \in Nat : \A k \in Nodes : k < m => Path(t, k) \in Seq(Bits)}
<1>1. Nodes \in SUBSET Nat
  BY AlphabetAssumption DEF Nodes
<1>2. 0 \in T
  BY <1>1
<1>3. ASSUME NEW m \in T PROVE m + 1 \in T
  <2>1. m \in Nat /\ \A k \in Nodes : k < m => Path(t, k) \in Seq(Bits)
    OBVIOUS
  <2>2. ASSUME NEW k \in Nodes, k < m + 1 PROVE Path(t, k) \in Seq(Bits)
    <3>1. CASE t[k].parent = NIL
      <4>1. Path(t, k) = <<>>
        BY <3>1, PathOf
      <4> QED BY <4>1
    <3>2. CASE t[k].parent # NIL
      <4>1. t[k].parent \in 0 .. k - 1
        BY <3>2 DEF Upward
      <4>2. t[k].parent \in Nodes /\ t[k].parent < m
        BY <1>1, <2>1, <2>2, <4>1, AlphabetAssumption DEF Nodes
      <4>3. Path(t, k) = Append(Path(t, t[k].parent), Side(t, k))
        BY <3>2, PathOf
      <4>4. Side(t, k) \in Bits
        BY DEF Side, Bits
      <4> QED BY <2>1, <4>2, <4>3, <4>4, AppendProperties
    <3> QED BY <3>1, <3>2
  <2> QED BY <2>1, <2>2
<1>4. T = Nat
  <2>1. T \in SUBSET Nat
    OBVIOUS
  <2> HIDE DEF T
  <2> QED BY <1>2, <1>3, <2>1, NatSetInduction
<1>5. n + 1 \in T /\ n < n + 1
  <2>1. n + 1 \in Nat /\ n < n + 1
    BY <1>1
  <2> HIDE DEF T
  <2> QED BY <1>4, <2>1
<1> QED BY <1>5

\* Trees in which the first nodes have the same parents on the same sides give
\* them the same codes.
LEMMA PathSame ==
  ASSUME NEW t, NEW u, Upward(t), Upward(u), NEW f,
         \A n \in Nodes : n < f => /\ u[n].parent = t[n].parent
                                   /\ t[n].parent # NIL => Side(u, n) = Side(t, n),
         NEW n \in Nodes, n < f, f \in Nat
  PROVE  Path(u, n) = Path(t, n)
<1> DEFINE T == {m \in Nat : \A k \in Nodes : k < m /\ k < f => Path(u, k) = Path(t, k)}
<1>1. Nodes \in SUBSET Nat
  BY AlphabetAssumption DEF Nodes
<1>2. 0 \in T
  BY <1>1
<1>3. ASSUME NEW m \in T PROVE m + 1 \in T
  <2>1. m \in Nat /\ \A k \in Nodes : k < m /\ k < f => Path(u, k) = Path(t, k)
    OBVIOUS
  <2>2. ASSUME NEW k \in Nodes, k < m + 1, k < f PROVE Path(u, k) = Path(t, k)
    <3>0. u[k].parent = t[k].parent /\ (t[k].parent # NIL => Side(u, k) = Side(t, k))
      BY <2>2
    <3>1. CASE t[k].parent = NIL
      BY <3>0, <3>1, PathOf
    <3>2. CASE t[k].parent # NIL
      <4>1. t[k].parent \in 0 .. k - 1
        BY <3>2 DEF Upward
      <4>2. t[k].parent \in Nodes /\ t[k].parent < m /\ t[k].parent < f
        BY <1>1, <2>1, <2>2, <4>1, AlphabetAssumption DEF Nodes
      <4>3. Path(t, k) = Append(Path(t, t[k].parent), Side(t, k))
        BY <3>2, PathOf
      <4>4. Path(u, k) = Append(Path(u, u[k].parent), Side(u, k))
        BY <3>0, <3>2, PathOf
      <4>5. Path(u, t[k].parent) = Path(t, t[k].parent)
        BY <2>1, <4>2
      <4> QED BY <3>0, <3>2, <4>3, <4>4, <4>5
    <3> QED BY <3>1, <3>2
  <2> QED BY <2>1, <2>2
<1>4. T = Nat
  <2>1. T \in SUBSET Nat
    OBVIOUS
  <2> HIDE DEF T
  <2> QED BY <1>2, <1>3, <2>1, NatSetInduction
<1>5. n + 1 \in T /\ n < n + 1
  <2>1. n + 1 \in Nat /\ n < n + 1
    BY <1>1
  <2> HIDE DEF T
  <2> QED BY <1>4, <2>1
<1> QED BY <1>5

\* A coder's tree has the form the paths need.
LEMMA ShapeUpward ==
  ASSUME NEW h, Shape(h)
  PROVE  Upward(h.tree)
<1>1. /\ h.tree \in [Nodes -> Node] /\ h.next_free_slot \in 1 .. 2 * alphabet_size + 1
      /\ Rooted(h.tree, h.next_free_slot) /\ Unused(h.tree, h.next_free_slot)
  BY CoderFields DEF Shape
<1>2. ASSUME NEW n \in Nodes PROVE h.tree[n].parent = NIL \/ h.tree[n].parent \in 0 .. n - 1
  <2>1. n = 0 \/ n \in 1 .. h.next_free_slot - 1 \/ n >= h.next_free_slot
    BY <1>1, AlphabetAssumption DEF Nodes
  <2>2. CASE n >= h.next_free_slot
    <3>1. h.tree[n] = NewNode
      BY <1>1, <2>2 DEF Unused
    <3> QED BY <3>1 DEF NewNode
  <2>3. CASE n = 0 \/ n \in 1 .. h.next_free_slot - 1
    BY <1>1, <2>3 DEF Rooted
  <2> QED BY <2>1, <2>2, <2>3
<1> QED BY <1>1, <1>2 DEF Upward

\* The node a bit leads to.
Stepped(t, bit, n) ==
  CASE is_leaf(t[n]) -> n
    [] ~is_leaf(t[n]) /\ bit = 0 -> t[n].left
    [] ~is_leaf(t[n]) /\ bit = 1 -> t[n].right

Descends(t, b, u) == u = [i \in 0 .. Len(b) |-> IF i = 0 THEN 0 ELSE Stepped(t, b[i], u[i - 1])]

\* The leaves are the nodes that are not inner nodes.
LEMMA LeafIs ==
  ASSUME NEW t, NEW f, Branches(t, f), f \in Nat, NEW n \in 0 .. f - 1
  PROVE  is_leaf(t[n]) <=> t[n].symbol # Inner
BY DEF Branches, is_leaf, NIL

\* The recursion of Descend.
LEMMA DescendUnfold ==
  ASSUME NEW h, Shape(h), NEW b \in Seq(Bits)
  PROVE  /\ \A i \in 0 .. Len(b) : Descend(h.tree, b)[i] \in 0 .. h.next_free_slot - 1
         /\ Descend(h.tree, b)[0] = 0
         /\ \A i \in 1 .. Len(b) : Descend(h.tree, b)[i] = Stepped(h.tree, b[i], Descend(h.tree, b)[i - 1])
<1> DEFINE t == h.tree
           f == h.next_free_slot
           S == 0 .. f - 1
           G == [k \in Nat |-> [v \in S |-> IF k \in 1 .. Len(b) THEN Stepped(t, b[k], v) ELSE v]]
           N == Len(b)
<1>1. f \in Nat /\ f >= 1 /\ Branches(t, f) /\ N \in Nat /\ 0 \in S
  BY CoderFields, AlphabetAssumption DEF Shape
<1>2. ASSUME NEW v \in S, NEW k \in 1 .. N PROVE Stepped(t, b[k], v) \in S
  <2>1. b[k] \in Bits
    OBVIOUS
  <2>2. is_leaf(t[v]) <=> t[v].symbol # Inner
    <3> HIDE DEF t, f
    <3> QED BY <1>1, LeafIs
  <2>3. t[v].symbol = Inner => t[v].left \in S /\ t[v].right \in S
    <3>1. t[v].symbol = Inner => t[v].left \in v + 1 .. f - 1 /\ t[v].right \in v + 1 .. f - 1
      BY <1>1 DEF Branches
    <3> HIDE DEF t, f
    <3> QED BY <1>1, <3>1
  <2> HIDE DEF S, t
  <2> QED BY <2>1, <2>2, <2>3 DEF Stepped, Bits
<1>3. G \in [Nat -> [S -> S]]
  <2> HIDE DEF S, N
  <2> QED BY <1>2 DEF N
<1>4. PICK u \in [0 .. N -> S] : u[0] = 0 /\ \A k \in 1 .. N : u[k] = G[k][u[k - 1]]
  <2> HIDE DEF S, G, N
  <2>1. RecursiveOn(S, 0, G, N)
    BY <1>1, <1>3, IntervalRecursion
  <2> QED BY <2>1 DEF RecursiveOn
<1>5. \A k \in 1 .. N : u[k] = Stepped(t, b[k], u[k - 1])
  <2> TAKE k \in 1 .. N
  <2>1. k - 1 \in 0 .. N /\ k \in Nat
    BY <1>1
  <2>2. u[k - 1] \in S
    <3> HIDE DEF S, N
    <3> QED BY <2>1
  <2> HIDE DEF S
  <2> QED BY <1>4, <2>1, <2>2
<1>6. u = [i \in 0 .. N |-> IF i = 0 THEN 0 ELSE Stepped(t, b[i], u[i - 1])]
  <2>1. \A i \in 0 .. N : u[i] = IF i = 0 THEN 0 ELSE Stepped(t, b[i], u[i - 1])
    <3> TAKE i \in 0 .. N
    <3>1. i = 0 \/ i \in 1 .. N
      BY <1>1
    <3> HIDE DEF G, t, N
    <3> QED BY <1>4, <1>5, <3>1
  <2>2. u = [i \in 0 .. N |-> u[i]]
    OBVIOUS
  <2> HIDE DEF G, t, N
  <2> QED BY <2>1, <2>2
<1>7. Descends(t, b, u)
  BY <1>6 DEF Descends
<1> DEFINE c == CHOOSE r : Descends(t, b, r)
<1>8. Descends(t, b, c)
  BY <1>7
<1>9. Descend(t, b) = c
  BY DEF Descend, Descends, Stepped
<1> HIDE DEF c, G
<1>10. c[0] = 0 /\ \A i \in 1 .. N : c[i] = Stepped(t, b[i], c[i - 1])
  <2>1. 0 \in 0 .. N /\ \A i \in 1 .. N : i \in 0 .. N /\ i # 0
    BY <1>1
  <2> HIDE DEF t
  <2> QED BY <1>8, <2>1 DEF Descends
<1> DEFINE T == {k \in Nat : k <= N => c[k] \in S}
<1>11. 0 \in T
  BY <1>1, <1>10
<1>12. ASSUME NEW k \in T PROVE k + 1 \in T
  <2>1. SUFFICES ASSUME k + 1 <= N PROVE c[k + 1] \in S
    OBVIOUS
  <2>2. k \in Nat /\ k <= N /\ k + 1 \in 1 .. N /\ (k + 1) - 1 = k
    BY <1>1, <2>1
  <2>3. c[k] \in S
    BY <2>2
  <2> HIDE DEF S, N, t, T
  <2> QED BY <1>2, <1>10, <2>2, <2>3
<1>13. T = Nat
  <2>1. T \in SUBSET Nat
    OBVIOUS
  <2> HIDE DEF T
  <2> QED BY <1>11, <1>12, <2>1, NatSetInduction
<1>14. \A i \in 0 .. N : c[i] \in S
  <2> TAKE i \in 0 .. N
  <2>1. i \in Nat /\ i <= N
    BY <1>1
  <2>2. i \in T
    <3> HIDE DEF T
    <3> QED BY <1>13, <2>1
  <2> QED BY <2>1, <2>2
<1> QED BY <1>9, <1>10, <1>14

\* b goes along p as far as both go.
Agree(b, p) == \A j \in 1 .. Len(p) : j <= Len(b) => b[j] = p[j]

\* Bits that agree with the path to a node lead along it: no leaf is met before,
\* and if there are enough of them the node is.
LEMMA Leads ==
  ASSUME NEW h, Shape(h), NEW b \in Seq(Bits), NEW n \in 0 .. h.next_free_slot - 1,
         Agree(b, Path(h.tree, n))
  PROVE  /\ \A i \in 0 .. Len(b) : i < Len(Path(h.tree, n)) => ~ is_leaf(h.tree[Descend(h.tree, b)[i]])
         /\ Len(Path(h.tree, n)) <= Len(b) => Descend(h.tree, b)[Len(Path(h.tree, n))] = n
<1> DEFINE t == h.tree
           f == h.next_free_slot
           at == Descend(t, b)
           p(k) == Path(t, k)
           Led(k) == /\ \A i \in 0 .. Len(b) : i < Len(p(k)) => ~ is_leaf(t[at[i]])
                     /\ Len(p(k)) <= Len(b) => at[Len(p(k))] = k
           T == {m \in Nat : \A k \in 0 .. f - 1 : k < m /\ Agree(b, p(k)) => Led(k)}
<1>1. /\ f \in Nat /\ f >= 1 /\ Branches(t, f) /\ Rooted(t, f) /\ Upward(t) /\ t \in [Nodes -> Node]
      /\ \A k \in 0 .. f - 1 : k \in Nodes /\ k \in Nat /\ k # NIL
  <2>1. f \in 1 .. 2 * alphabet_size + 1 /\ Branches(t, f) /\ Rooted(t, f) /\ t \in [Nodes -> Node]
    BY CoderFields DEF Shape
  <2> HIDE DEF t, f
  <2> QED BY <2>1, ShapeUpward, AlphabetAssumption DEF Nodes, NIL, t
<1>2. /\ \A i \in 0 .. Len(b) : at[i] \in 0 .. f - 1
      /\ at[0] = 0 /\ \A i \in 1 .. Len(b) : at[i] = Stepped(t, b[i], at[i - 1])
  BY DescendUnfold
<1>3. Len(b) \in Nat
  OBVIOUS
<1> HIDE DEF at, f, t
<1>4. 0 \in T
  BY <1>1
<1>5. ASSUME NEW m \in Nat, \A k \in 0 .. f - 1 : k < m /\ Agree(b, p(k)) => Led(k),
             NEW k \in 0 .. f - 1, k < m + 1, Agree(b, p(k))
      PROVE  Led(k)
  <2>0. k \in Nodes /\ k \in Nat
    BY <1>1
  <2>1. CASE k = 0
    <3>1. p(k) = <<>>
      BY <1>1, <2>0, <2>1, PathOf DEF Rooted
    <3>2. Len(p(k)) = 0
      BY <3>1
    <3> HIDE DEF p
    <3> QED BY <1>2, <1>3, <2>1, <3>2
  <2>2. CASE k # 0
    <3> DEFINE q == t[k].parent
               bit == Side(t, k)
               l == Len(p(q))
    <3>1. q \in 0 .. k - 1 /\ (t[q].left = k \/ t[q].right = k) /\ q # NIL
      BY <1>1, <2>0, <2>2 DEF Rooted, NIL
    <3>2. q \in 0 .. f - 1 /\ q \in Nodes /\ q < m
      <4> HIDE DEF q
      <4> QED BY <1>1, <1>5, <2>0, <3>1
    <3>3. p(k) = Append(p(q), bit)
      BY <1>1, <2>0, <3>1, PathOf
    <3>4. bit \in Bits /\ p(q) \in Seq(Bits)
      <4> HIDE DEF q
      <4> QED BY <1>1, <3>2, PathType DEF Side, Bits
    <3> HIDE DEF p
    <3>5. Len(p(k)) = l + 1 /\ p(k)[l + 1] = bit /\ l \in Nat /\ \A j \in 1 .. l : p(k)[j] = p(q)[j]
      <4> HIDE DEF q, bit
      <4> QED BY <3>3, <3>4, AppendProperties
    <3> HIDE DEF l
    <3>6. Agree(b, p(q))
      <4>1. Len(p(q)) = l
        BY DEF l
      <4> HIDE DEF q, bit
      <4>2. ASSUME NEW j \in 1 .. l, j <= Len(b) PROVE b[j] = p(q)[j]
        <5>1. j \in 1 .. l + 1
          BY <3>5
        <5>2. b[j] = p(k)[j]
          BY <1>5, <3>5, <4>2, <5>1 DEF Agree
        <5> QED BY <3>5, <5>2
      <4> QED BY <4>1, <4>2 DEF Agree
    <3>7. Led(q)
      <4> HIDE DEF q, Led
      <4> QED BY <1>5, <3>2, <3>6
    <3>8. /\ \A i \in 0 .. Len(b) : i < l => ~ is_leaf(t[at[i]])
          /\ l <= Len(b) => at[l] = q
      BY <3>7 DEF l
    <3>9. ~ is_leaf(t[q])
      <4> HIDE DEF q
      <4> QED BY <1>1, <3>1, <3>2 DEF is_leaf
    <3>10. ASSUME NEW i \in 0 .. Len(b), i < Len(p(k)) PROVE ~ is_leaf(t[at[i]])
      <4>1. i < l \/ i = l
        BY <3>5, <3>10
      <4> HIDE DEF q
      <4> QED BY <1>3, <3>5, <3>8, <3>9, <3>10, <4>1
    <3>11. ASSUME Len(p(k)) <= Len(b) PROVE at[Len(p(k))] = k
      <4>1. l + 1 \in 1 .. Len(b) /\ (l + 1) - 1 = l /\ l <= Len(b) /\ l + 1 <= Len(b) /\ l + 1 \in 1 .. l + 1
        BY <1>3, <3>5, <3>11
      <4>2. b[l + 1] = bit
        <5> HIDE DEF bit
        <5> QED BY <1>5, <3>5, <4>1 DEF Agree
      <4>3. at[l + 1] = Stepped(t, bit, q)
        <5> HIDE DEF bit, q
        <5> QED BY <1>2, <3>8, <4>1, <4>2
      <4>4. bit = IF t[q].right = k THEN 1 ELSE 0
        BY DEF Side
      <4>5. Stepped(t, bit, q) = k
        <5> HIDE DEF bit, q
        <5> QED BY <3>1, <3>9, <4>4 DEF Stepped
      <4> QED BY <3>5, <4>3, <4>5
    <3> QED BY <3>10, <3>11
  <2> QED BY <2>1, <2>2
<1>6. ASSUME NEW m \in T PROVE m + 1 \in T
  <2> HIDE DEF Led, p
  <2>1. m \in Nat /\ \A k \in 0 .. f - 1 : k < m /\ Agree(b, p(k)) => Led(k)
    OBVIOUS
  <2> QED BY <1>5, <2>1
<1>7. T = Nat
  <2>1. T \in SUBSET Nat
    OBVIOUS
  <2> HIDE DEF T
  <2> QED BY <1>4, <1>6, <2>1, NatSetInduction
<1>8. n \in 0 .. f - 1 /\ Agree(b, p(n))
  BY DEF f, t
<1>9. n + 1 \in T /\ n < n + 1
  <2>1. n + 1 \in Nat /\ n < n + 1
    BY <1>1, <1>8
  <2> HIDE DEF T
  <2> QED BY <1>7, <2>1
<1>10. Led(n)
  <2> HIDE DEF Led, p
  <2> QED BY <1>8, <1>9
<1> QED BY <1>10 DEF at, t

-------------------------------------------------------------------------------
(* Literals. *)

Halves(n, u) ==
  u = [j \in 0 .. alphabet_size + 1 |-> IF j = 0 THEN n ELSE u[j - 1] \div 2]

\* Shifting by one more place is halving.
LEMMA ShiftedIs ==
  ASSUME NEW n \in Nat
  PROVE  /\ \A i \in 0 .. alphabet_size + 1 : Shifted(n, i) \in Nat
         /\ Shifted(n, 0) = n
         /\ \A i \in 0 .. alphabet_size : Shifted(n, i + 1) = Shifted(n, i) \div 2
<1> DEFINE N == alphabet_size + 1
           G == [k \in Nat |-> [v \in Nat |-> v \div 2]]
<1>1. N \in Nat
  BY AlphabetAssumption
<1>2. \A v \in Nat : v \div 2 \in Nat
  OBVIOUS
<1>3. G \in [Nat -> [Nat -> Nat]]
  BY <1>2
<1>4. PICK u \in [0 .. N -> Nat] : u[0] = n /\ \A k \in 1 .. N : u[k] = G[k][u[k - 1]]
  <2> HIDE DEF G, N
  <2>1. RecursiveOn(Nat, n, G, N)
    BY <1>1, <1>3, IntervalRecursion
  <2> QED BY <2>1 DEF RecursiveOn
<1>5. \A k \in 1 .. N : u[k] = u[k - 1] \div 2
  <2> TAKE k \in 1 .. N
  <2>1. k - 1 \in 0 .. N /\ k \in Nat
    BY <1>1
  <2>2. u[k - 1] \in Nat
    BY <2>1
  <2> QED BY <1>4, <2>1, <2>2
<1>6. u = [j \in 0 .. N |-> IF j = 0 THEN n ELSE u[j - 1] \div 2]
  <2>1. \A i \in 0 .. N : u[i] = IF i = 0 THEN n ELSE u[i - 1] \div 2
    <3> TAKE i \in 0 .. N
    <3>1. i = 0 \/ i \in 1 .. N
      BY <1>1
    <3> HIDE DEF N
    <3> QED BY <1>4, <1>5, <3>1
  <2>2. u = [i \in 0 .. N |-> u[i]]
    OBVIOUS
  <2> HIDE DEF N
  <2> QED BY <2>1, <2>2
<1> DEFINE c == CHOOSE r : Halves(n, r)
<1>7. Halves(n, c)
  BY <1>6 DEF Halves
<1>8. \A i : Shifted(n, i) = c[i]
  BY DEF Shifted, Halves
<1> HIDE DEF c, G
<1>9. c[0] = n /\ \A i \in 0 .. alphabet_size : c[i + 1] = c[i] \div 2
  <2>1. 0 \in 0 .. N
    BY <1>1
  <2>2. \A i \in 0 .. alphabet_size : i + 1 \in 0 .. N /\ i + 1 # 0 /\ (i + 1) - 1 = i
    BY AlphabetAssumption
  <2> QED BY <1>7, <2>1, <2>2 DEF Halves
<1> DEFINE T == {k \in Nat : k <= N => c[k] \in Nat}
<1>10. 0 \in T
  BY <1>9
<1>11. ASSUME NEW k \in T PROVE k + 1 \in T
  <2>1. SUFFICES ASSUME k + 1 <= N PROVE c[k + 1] \in Nat
    OBVIOUS
  <2>2. k \in 0 .. alphabet_size /\ c[k] \in Nat
    BY <1>1, <2>1, AlphabetAssumption
  <2> HIDE DEF T, N
  <2> QED BY <1>2, <1>9, <2>2
<1>12. T = Nat
  <2>1. T \in SUBSET Nat
    OBVIOUS
  <2> HIDE DEF T
  <2> QED BY <1>10, <1>11, <2>1, NatSetInduction
<1>13. \A i \in 0 .. N : c[i] \in Nat
  <2> TAKE i \in 0 .. N
  <2>1. i \in Nat /\ i <= N
    BY <1>1
  <2>2. i \in T
    <3> HIDE DEF T
    <3> QED BY <1>12, <2>1
  <2> QED BY <2>1, <2>2
<1> QED BY <1>8, <1>9, <1>13

\* The size of the alphabet has one bit above its last log_alphabet_size.
LEMMA LogIs == log_alphabet_size \in 0 .. alphabet_size /\ Shifted(alphabet_size, log_alphabet_size) = 1
<1> DEFINE a == alphabet_size
           Found == \E l \in 0 .. a : Shifted(a, l) = 1
           T == {k \in Nat : k <= a => Found \/ (Shifted(a, k) >= 2 /\ Shifted(a, k) <= a - k)}
<1>1. a \in Nat /\ a >= 1
  BY AlphabetAssumption
<1>2. /\ \A i \in 0 .. a + 1 : Shifted(a, i) \in Nat
      /\ Shifted(a, 0) = a
      /\ \A i \in 0 .. a : Shifted(a, i + 1) = Shifted(a, i) \div 2
  BY <1>1, ShiftedIs
<1>3. 0 \in T
  <2>1. CASE a = 1
    <3>1. Found
      BY <1>2, <2>1
    <3> HIDE DEF Found
    <3> QED BY <3>1
  <2>2. CASE a # 1
    <3>1. Shifted(a, 0) >= 2 /\ Shifted(a, 0) <= a - 0
      BY <1>1, <1>2, <2>2
    <3> HIDE DEF Found
    <3> QED BY <3>1
  <2> QED BY <2>1, <2>2
<1>4. ASSUME NEW k \in T PROVE k + 1 \in T
  <2>1. SUFFICES ASSUME k + 1 <= a, ~ Found PROVE Shifted(a, k + 1) >= 2 /\ Shifted(a, k + 1) <= a - (k + 1)
    OBVIOUS
  <2>2. k \in Nat /\ k <= a /\ k \in 0 .. a /\ k \in 0 .. a + 1 /\ k + 1 \in 0 .. a + 1 /\ k + 1 \in 0 .. a
    BY <1>1, <2>1
  <2>3. Shifted(a, k) >= 2 /\ Shifted(a, k) <= a - k
    <3> HIDE DEF Found
    <3> QED BY <2>1, <2>2
  <2>4. Shifted(a, k + 1) # 1
    BY <2>1, <2>2
  <2>5. Shifted(a, k + 1) = Shifted(a, k) \div 2 /\ Shifted(a, k) \in Nat /\ Shifted(a, k + 1) \in Nat
    BY <1>2, <2>2
  <2>6. \A v \in Nat : v >= 2 => (v \div 2 >= 1 /\ v \div 2 <= v - 1)
    OBVIOUS
  <2>7. Shifted(a, k + 1) >= 1 /\ Shifted(a, k + 1) <= Shifted(a, k) - 1
    BY <2>3, <2>5, <2>6
  <2> HIDE DEF a, T
  <2> QED BY <1>1, <2>2, <2>3, <2>4, <2>5, <2>7
<1>5. T = Nat
  <2>1. T \in SUBSET Nat
    OBVIOUS
  <2> HIDE DEF T
  <2> QED BY <1>3, <1>4, <2>1, NatSetInduction
<1>6. Found
  <2>1. a \in T /\ a <= a /\ a \in 0 .. a + 1
    <3> HIDE DEF T
    <3> QED BY <1>1, <1>5
  <2>2. Found \/ (Shifted(a, a) >= 2 /\ Shifted(a, a) <= a - a)
    <3> HIDE DEF Found
    <3> QED BY <2>1
  <2>3. Shifted(a, a) \in Nat
    BY <1>2, <2>1
  <2> HIDE DEF Found, a
  <2> QED BY <1>1, <2>2, <2>3
<1> QED BY <1>6 DEF log_alphabet_size

\* No symbol needs more bits than a literal has.
LEMMA LiteralWhole ==
  ASSUME NEW s \in Symbols
  PROVE  Shifted(s, log_alphabet_size + 1) = 0
<1> DEFINE a == alphabet_size
           L == log_alphabet_size
           T == {k \in Nat : k <= a + 1 => Shifted(s, k) <= Shifted(a, k)}
<1>1. a \in Nat /\ s \in Nat /\ s <= a
  BY AlphabetAssumption DEF Symbols
<1>2. /\ \A i \in 0 .. a + 1 : Shifted(a, i) \in Nat /\ Shifted(s, i) \in Nat
      /\ Shifted(a, 0) = a /\ Shifted(s, 0) = s
      /\ \A i \in 0 .. a : Shifted(a, i + 1) = Shifted(a, i) \div 2 /\ Shifted(s, i + 1) = Shifted(s, i) \div 2
  BY <1>1, ShiftedIs
<1> HIDE DEF a
<1>3. 0 \in T
  BY <1>1, <1>2
<1>4. ASSUME NEW k \in T PROVE k + 1 \in T
  <2>1. SUFFICES ASSUME k + 1 <= a + 1 PROVE Shifted(s, k + 1) <= Shifted(a, k + 1)
    OBVIOUS
  <2>2. k \in Nat /\ k <= a + 1 /\ k \in 0 .. a /\ k \in 0 .. a + 1
    BY <1>1, <2>1
  <2>3. Shifted(s, k) <= Shifted(a, k)
    BY <2>2
  <2>4. \A v \in Nat, w \in Nat : v <= w => v \div 2 <= w \div 2
    OBVIOUS
  <2> HIDE DEF T
  <2> QED BY <1>2, <2>2, <2>3, <2>4
<1>5. T = Nat
  <2>1. T \in SUBSET Nat
    OBVIOUS
  <2> HIDE DEF T
  <2> QED BY <1>3, <1>4, <2>1, NatSetInduction
<1>6. L \in 0 .. a /\ Shifted(a, L) = 1
  BY LogIs DEF a
<1> HIDE DEF L
<1>7. Shifted(s, L) <= 1
  <2>1. L \in T /\ L <= a + 1
    <3> HIDE DEF T
    <3> QED BY <1>1, <1>5, <1>6
  <2>2. Shifted(s, L) <= Shifted(a, L)
    BY <2>1
  <2> QED BY <1>6, <2>2
<1>8. Shifted(s, L) \in Nat /\ Shifted(s, L + 1) = Shifted(s, L) \div 2
  <2>1. L \in 0 .. a + 1
    BY <1>1, <1>6
  <2> QED BY <1>2, <1>6, <2>1
<1>9. \A v \in Nat : v <= 1 => v \div 2 = 0
  OBVIOUS
<1>10. Shifted(s, L + 1) = 0
  BY <1>7, <1>8, <1>9
<1> QED BY <1>10 DEF L

Numbers(b, u) == u = [i \in 0 .. Len(b) |-> IF i = 0 THEN 0 ELSE 2 * u[i - 1] + b[i]]

\* What a literal stands for is its symbol.
LEMMA NumberLiteral ==
  ASSUME NEW s \in Symbols
  PROVE  /\ Literal(s) \in Seq(Bits) /\ Len(Literal(s)) = log_alphabet_size + 1
         /\ Number(Literal(s)) = s
<1> DEFINE W == log_alphabet_size + 1
           b == Literal(s)
<1>1. W \in Nat /\ W \in 1 .. alphabet_size + 1 /\ s \in Nat
  BY LogIs, AlphabetAssumption DEF Symbols
<1>2. \A i \in 0 .. W : Shifted(s, i) \in Nat
  <2>1. \A i \in 0 .. W : i \in 0 .. alphabet_size + 1
    BY <1>1, AlphabetAssumption
  <2> QED BY <1>1, <2>1, ShiftedIs
<1>3. \A i \in 0 .. W - 1 : Shifted(s, i + 1) = Shifted(s, i) \div 2
  <2>1. \A i \in 0 .. W - 1 : i \in 0 .. alphabet_size
    BY <1>1, AlphabetAssumption
  <2> QED BY <1>1, <2>1, ShiftedIs
<1>4. Shifted(s, W) = 0 /\ Shifted(s, 0) = s
  BY <1>1, LiteralWhole, ShiftedIs
<1>5. b = [j \in 1 .. W |-> Shifted(s, W - j) % 2]
  <2>1. b = [j \in 1 .. log_alphabet_size + 1 |-> Shifted(s, log_alphabet_size + 1 - j) % 2]
    BY DEF Literal
  <2>2. DOMAIN b = 1 .. W /\ b = [j \in DOMAIN b |-> b[j]]
    BY <2>1
  <2>3. \A j \in 1 .. W : b[j] = Shifted(s, W - j) % 2
    <3> TAKE j \in 1 .. W
    <3>1. b[j] = Shifted(s, log_alphabet_size + 1 - j) % 2
      BY <2>1
    <3>2. W - j = log_alphabet_size + 1 - j
      BY LogIs, AlphabetAssumption
    <3> HIDE DEF b, W
    <3> QED BY <3>1, <3>2
  <2> HIDE DEF b, W
  <2> QED BY <2>2, <2>3
<1> HIDE DEF W, b
<1>6. \A j \in 1 .. W : Shifted(s, W - j) % 2 \in Bits
  <2> TAKE j \in 1 .. W
  <2>1. W - j \in 0 .. W
    BY <1>1
  <2>2. \A v \in Nat : v % 2 = 0 \/ v % 2 = 1
    OBVIOUS
  <2> QED BY <1>2, <2>1, <2>2 DEF Bits
<1>7. b \in Seq(Bits) /\ Len(b) = W
  <2>1. b \in [1 .. W -> Bits]
    BY <1>5, <1>6
  <2> QED BY <1>1, <2>1
<1> DEFINE u == [i \in 0 .. W |-> Shifted(s, W - i)]
<1>8. Numbers(b, u)
  <2>1. ASSUME NEW i \in 1 .. W PROVE u[i] = 2 * u[i - 1] + b[i]
    <3>1. W - i \in 0 .. W - 1 /\ (W - i) + 1 = W - (i - 1) /\ i - 1 \in 0 .. W /\ W - i \in 0 .. W /\ i \in 0 .. W
      BY <1>1
    <3>2. u[i] = Shifted(s, W - i) /\ u[i - 1] = Shifted(s, W - i) \div 2 /\ b[i] = Shifted(s, W - i) % 2
      BY <1>3, <1>5, <3>1
    <3>3. \A v \in Nat : v = 2 * (v \div 2) + (v % 2)
      OBVIOUS
    <3> HIDE DEF u
    <3> QED BY <1>2, <3>1, <3>2, <3>3
  <2>2. u[0] = 0
    <3>1. 0 \in 0 .. W /\ W - 0 = W
      BY <1>1
    <3> QED BY <1>4, <3>1
  <2>3. u = [i \in 0 .. W |-> u[i]]
    OBVIOUS
  <2>4. \A i \in 0 .. W : i = 0 \/ i \in 1 .. W
    BY <1>1
  <2> HIDE DEF u
  <2>5. [i \in 0 .. W |-> u[i]] = [i \in 0 .. W |-> IF i = 0 THEN 0 ELSE 2 * u[i - 1] + b[i]]
    BY <2>1, <2>2, <2>4
  <2> QED BY <1>7, <2>3, <2>5 DEF Numbers
<1> DEFINE c == CHOOSE r : Numbers(b, r)
<1>9. Numbers(b, c)
  BY <1>8
<1>10. Number(b) = c[W]
  BY <1>7 DEF Number, Numbers
<1> HIDE DEF c
<1>11. c[0] = 0 /\ \A i \in 0 .. W - 1 : c[i + 1] = 2 * c[i] + b[i + 1]
  <2>1. 0 \in 0 .. W /\ \A i \in 0 .. W - 1 : i + 1 \in 0 .. W /\ i + 1 # 0 /\ (i + 1) - 1 = i
    BY <1>1
  <2> QED BY <1>7, <1>9, <2>1 DEF Numbers
<1>12. u[0] = 0 /\ \A i \in 0 .. W - 1 : u[i + 1] = 2 * u[i] + b[i + 1]
  <2>1. 0 \in 0 .. W /\ \A i \in 0 .. W - 1 : i + 1 \in 0 .. W /\ i + 1 # 0 /\ (i + 1) - 1 = i
    BY <1>1
  <2> HIDE DEF u
  <2> QED BY <1>7, <1>8, <2>1 DEF Numbers
<1> DEFINE T == {k \in Nat : k <= W => c[k] = u[k]}
<1>13. T = Nat
  <2> HIDE DEF u
  <2>1. 0 \in T
    BY <1>11, <1>12
  <2>2. ASSUME NEW k \in T PROVE k + 1 \in T
    <3>1. SUFFICES ASSUME k + 1 <= W PROVE c[k + 1] = u[k + 1]
      OBVIOUS
    <3>2. k \in 0 .. W - 1 /\ c[k] = u[k]
      BY <1>1, <3>1
    <3> QED BY <1>11, <1>12, <3>2
  <2>3. T \in SUBSET Nat
    OBVIOUS
  <2> HIDE DEF T
  <2> QED BY <2>1, <2>2, <2>3, NatSetInduction
<1>14. c[W] = u[W]
  <2>1. W \in T /\ W <= W
    <3> HIDE DEF T
    <3> QED BY <1>1, <1>13
  <2> QED BY <2>1
<1>15. u[W] = s
  <2>1. W \in 0 .. W /\ W - W = 0
    BY <1>1
  <2> QED BY <1>4, <2>1
<1> QED BY <1>7, <1>10, <1>14, <1>15 DEF b, W

-------------------------------------------------------------------------------
(* A new symbol. *)

\* What Split writes, and that there is room for it: one node more and two with
\* each symbol are as many as the array has.
LEMMA SplitFields ==
  ASSUME NEW h, Shape(h), NEW s \in Symbols, ~ Seen(h, s)
  PROVE  LET t == h.tree
             f == h.next_free_slot
             g == Split(h, s)
         IN  /\ g \in Coder /\ f + 2 <= 2 * alphabet_size + 1
             /\ g.next_free_slot = f + 2 /\ g.nyt_node = f + 1 /\ g.map_code = h.map_code
             /\ g.map_leaf = [h.map_leaf EXCEPT ![s] = f]
             /\ \A n \in Nodes : n # f - 1 /\ n # f /\ n # f + 1 => g.tree[n] = t[n]
             /\ g.tree[f - 1] = [t[f - 1] EXCEPT !.symbol = Inner, !.left = f + 1, !.right = f]
             /\ g.tree[f] = [NewNode EXCEPT !.symbol = s, !.parent = f - 1]
             /\ g.tree[f + 1] = [NewNode EXCEPT !.symbol = NYT, !.parent = f - 1]
             /\ Cardinality({a \in Symbols : Seen(g, a)}) = Cardinality({a \in Symbols : Seen(h, a)}) + 1
<1> DEFINE t == h.tree
           f == h.next_free_slot
           g == Split(h, s)
           A == {a \in Symbols : Seen(h, a)}
           B == {a \in Symbols : Seen(g, a)}
           at(n) == CASE n = f - 1 -> [t[n] EXCEPT !.symbol = Inner, !.left = f + 1, !.right = f]
                      [] n = f -> [t[n] EXCEPT !.symbol = s, !.parent = f - 1]
                      [] n = f + 1 -> [t[n] EXCEPT !.symbol = NYT, !.parent = f - 1]
                      [] OTHER -> t[n]
           ml == [h.map_leaf EXCEPT ![s] = f]
           u == [n \in Nodes |-> at(n)]
<1>1. /\ h \in Coder /\ t \in [Nodes -> Node] /\ f \in 1 .. 2 * alphabet_size + 1 /\ Unused(t, f)
      /\ h.nyt_node = f - 1 /\ f = 1 + 2 * Cardinality(A) /\ h.map_leaf \in [Symbols -> Place]
  BY CoderFields DEF Shape, Labels
<1>2. IsFiniteSet(Symbols) /\ Cardinality(Symbols) = alphabet_size
  <2>1. 0 \in Int /\ alphabet_size - 1 \in Int
    BY AlphabetAssumption
  <2>2. IsFiniteSet(0 .. alphabet_size - 1)
    BY <2>1, FS_Interval
  <2>3. Cardinality(0 .. alphabet_size - 1) = IF 0 > alphabet_size - 1 THEN 0 ELSE (alphabet_size - 1) - 0 + 1
    BY <2>1, FS_Interval
  <2> QED BY <2>2, <2>3, AlphabetAssumption DEF Symbols
<1>3. IsFiniteSet(A) /\ Cardinality(A) \in Nat /\ Cardinality(A) + 1 <= alphabet_size
      /\ Cardinality(A \cup {s}) = Cardinality(A) + 1
  <2>1. IsFiniteSet(A) /\ A \cup {s} \subseteq Symbols /\ s \notin A
    BY <1>2, FS_Subset
  <2> HIDE DEF A
  <2>2. Cardinality(A \cup {s}) = Cardinality(A) + 1
    BY <2>1, FS_AddElement
  <2>3. Cardinality(A \cup {s}) <= Cardinality(Symbols)
    BY <1>2, <2>1, FS_Subset
  <2>4. Cardinality(A) \in Nat
    BY <2>1, FS_CardinalityType
  <2> QED BY <1>2, <2>1, <2>2, <2>3, <2>4
<1> HIDE DEF A
<1>4. /\ f \in Nat /\ f >= 1 /\ f + 2 <= 2 * alphabet_size + 1
      /\ f - 1 \in Nodes /\ f \in Nodes /\ f + 1 \in Nodes /\ f + 2 \in 1 .. 2 * alphabet_size + 1
      /\ f - 1 # f /\ f # f + 1 /\ f - 1 # f + 1
  BY <1>1, <1>3, AlphabetAssumption DEF Nodes
<1>5. t[f] = NewNode /\ t[f + 1] = NewNode
  BY <1>1, <1>4 DEF Unused
<1>6. g = [h EXCEPT !.tree = u, !.next_free_slot = (f + 1) + 1, !.map_leaf = ml, !.nyt_node = f + 1]
  BY <1>1 DEF Split
<1>7. ASSUME NEW n \in Nodes PROVE at(n) \in Node
  <2>1. t[n] \in Node
    BY <1>1
  <2>2. /\ Inner \in 0 .. alphabet_size + 1 /\ s \in 0 .. alphabet_size + 1 /\ NYT \in 0 .. alphabet_size + 1
        /\ f \in Place /\ f + 1 \in Place /\ f - 1 \in Place
    BY <1>4, AlphabetAssumption DEF Inner, NYT, Symbols, Place
  <2> HIDE DEF t, f
  <2> QED BY <2>1, <2>2 DEF Node
<1>8. u \in [Nodes -> Node]
  <2> HIDE DEF at
  <2> QED BY <1>7
<1>9. ml \in [Symbols -> Place]
  <2>1. f \in Place
    BY <1>4 DEF Place
  <2> HIDE DEF f
  <2> QED BY <1>1, <2>1
<1>10. (f + 1) + 1 = f + 2
  BY <1>4
<1> HIDE DEF u, ml, g
<1>11. /\ g \in Coder /\ g.tree = u /\ g.next_free_slot = f + 2 /\ g.nyt_node = f + 1
       /\ g.map_leaf = ml /\ g.map_code = h.map_code
  <2> HIDE DEF f
  <2> QED BY <1>1, <1>4, <1>6, <1>8, <1>9, <1>10 DEF Coder
<1>12. \A n \in Nodes : g.tree[n] = at(n)
  <2> HIDE DEF at
  <2> QED BY <1>11 DEF u
<1>13. /\ g.tree[f - 1] = [t[f - 1] EXCEPT !.symbol = Inner, !.left = f + 1, !.right = f]
       /\ g.tree[f] = [NewNode EXCEPT !.symbol = s, !.parent = f - 1]
       /\ g.tree[f + 1] = [NewNode EXCEPT !.symbol = NYT, !.parent = f - 1]
       /\ \A n \in Nodes : n # f - 1 /\ n # f /\ n # f + 1 => g.tree[n] = t[n]
  <2> HIDE DEF f, t
  <2> QED BY <1>4, <1>5, <1>12
<1>14. B = A \cup {s}
  <2>1. \A a \in Symbols : Seen(g, a) <=> a = s \/ Seen(h, a)
    <3> TAKE a \in Symbols
    <3>1. g.map_leaf[a] = IF a = s THEN f ELSE h.map_leaf[a]
      BY <1>1, <1>11 DEF ml
    <3>2. f # NIL
      BY <1>4 DEF NIL
    <3> HIDE DEF f
    <3> QED BY <3>1, <3>2 DEF Seen
  <2> QED BY <2>1 DEF A
<1> HIDE DEF B
<1>15. Cardinality(B) = Cardinality(A) + 1
  BY <1>3, <1>14
<1>16. /\ g \in Coder /\ f + 2 <= 2 * alphabet_size + 1
       /\ g.next_free_slot = f + 2 /\ g.nyt_node = f + 1 /\ g.map_code = h.map_code
       /\ g.map_leaf = [h.map_leaf EXCEPT ![s] = f]
  BY <1>4, <1>11 DEF ml
<1> QED BY <1>13, <1>15, <1>16 DEF g, A, B

\* A split keeps the shape, the codes of the symbols that have one, and leaves
\* the new symbol's leaf to be raised.
LEMMA SplitKeeps ==
  ASSUME NEW h, OnWay(h, NIL), NEW s \in Symbols, ~ Seen(h, s)
  PROVE  LET g == Split(h, s)
         IN  /\ OnWay(g, g.map_leaf[s]) /\ g.map_leaf[s] # NIL
             /\ g.map_code = h.map_code
             /\ \A a \in Symbols : a # s => g.map_leaf[a] = h.map_leaf[a]
             /\ \A n \in 0 .. h.next_free_slot - 1 : Path(g.tree, n) = Path(h.tree, n)
<1> DEFINE t == h.tree
           f == h.next_free_slot
           g == Split(h, s)
           u == g.tree
<1>1. /\ Shape(h) /\ Weighed(t, f, NIL) /\ h \in Coder /\ t \in [Nodes -> Node]
      /\ f \in 1 .. 2 * alphabet_size + 1
      /\ Rooted(t, f) /\ Branches(t, f) /\ LastSplit(t, f) /\ Unused(t, f) /\ Labels(h)
      /\ h.map_leaf \in [Symbols -> Place]
  BY CoderFields DEF OnWay, Shape
<1>2. /\ g \in Coder /\ f + 2 <= 2 * alphabet_size + 1
      /\ g.next_free_slot = f + 2 /\ g.nyt_node = f + 1 /\ g.map_code = h.map_code
      /\ g.map_leaf = [h.map_leaf EXCEPT ![s] = f]
      /\ \A n \in Nodes : n # f - 1 /\ n # f /\ n # f + 1 => u[n] = t[n]
      /\ u[f - 1] = [t[f - 1] EXCEPT !.symbol = Inner, !.left = f + 1, !.right = f]
      /\ u[f] = [NewNode EXCEPT !.symbol = s, !.parent = f - 1]
      /\ u[f + 1] = [NewNode EXCEPT !.symbol = NYT, !.parent = f - 1]
      /\ Cardinality({a \in Symbols : Seen(g, a)}) = Cardinality({a \in Symbols : Seen(h, a)}) + 1
  BY <1>1, SplitFields
<1> HIDE DEF g, u
<1>3. /\ f \in Nat /\ f >= 1 /\ \A n \in 0 .. f + 1 : n \in Nodes /\ n \in Nat /\ n # NIL
  BY <1>1, <1>2, AlphabetAssumption DEF Nodes, NIL
<1>4. /\ u[f].weight = 0 /\ u[f].symbol = s /\ u[f].parent = f - 1 /\ u[f].left = NIL /\ u[f].right = NIL
      /\ u[f + 1].weight = 0 /\ u[f + 1].symbol = NYT /\ u[f + 1].parent = f - 1
      /\ u[f + 1].left = NIL /\ u[f + 1].right = NIL
  BY <1>2 DEF NewNode
<1>5. /\ u[f - 1].weight = t[f - 1].weight /\ u[f - 1].symbol = Inner /\ u[f - 1].parent = t[f - 1].parent
      /\ u[f - 1].left = f + 1 /\ u[f - 1].right = f
  <2>1. t[f - 1] \in Node
    BY <1>1, <1>3
  <2> HIDE DEF t, f
  <2> QED BY <1>2, <2>1 DEF Node
<1>6. \A n \in 0 .. f - 2 : u[n] = t[n]
  <2>1. \A n \in 0 .. f - 2 : n \in 0 .. f + 1 /\ n # f - 1 /\ n # f /\ n # f + 1
    BY <1>3
  <2> QED BY <1>2, <1>3, <2>1
<1>7. /\ t[f - 1].symbol = NYT /\ t[f - 1].left = NIL /\ t[f - 1].right = NIL
      /\ \A n \in 0 .. f - 1 : t[n].symbol = NYT => n = f - 1
      /\ \A n \in 0 .. f - 1 : t[n].symbol \in Symbols => h.map_leaf[t[n].symbol] = n
      /\ \A a \in Symbols : Seen(h, a) => h.map_leaf[a] \in 0 .. f - 1 /\ t[h.map_leaf[a]].symbol = a
      /\ f = 1 + 2 * Cardinality({a \in Symbols : Seen(h, a)})
  <2>1. f - 1 \in 0 .. f - 1
    BY <1>3
  <2>2. NYT # Inner
    BY AlphabetAssumption DEF NYT, Inner
  <2>3. t[f - 1].symbol = NYT
    BY <1>1, <2>1 DEF Labels
  <2>4. t[f - 1].left = NIL /\ t[f - 1].right = NIL
    BY <1>1, <2>1, <2>2, <2>3 DEF Branches
  <2> QED BY <1>1, <2>3, <2>4 DEF Labels
<1>8. NYT \notin Symbols /\ Inner \notin Symbols /\ NYT # Inner
  BY AlphabetAssumption DEF NYT, Inner, Symbols
<1> DEFINE e == f + 2
<1>9. /\ e \in Nat /\ e - 1 = f + 1 /\ e - 2 = f /\ e - 3 = f - 1
      /\ \A n \in 0 .. e - 1 : n \in 0 .. f - 2 \/ n = f - 1 \/ n = f \/ n = f + 1
      /\ f - 1 \in 0 .. e - 1 /\ f \in 0 .. e - 1 /\ f + 1 \in 0 .. e - 1
      /\ f - 1 \in 0 .. f - 1
      /\ \A n \in 0 .. f - 2 : n \in 0 .. f - 1 /\ n \in 0 .. e - 1 /\ n < f - 1 /\ n # f /\ n # f + 1 /\ n \in Nat
  BY <1>3
<1> HIDE DEF e, t, f
<1>10. \A n \in 0 .. f - 1 : /\ u[n].weight = t[n].weight /\ u[n].parent = t[n].parent
  <2>1. \A n \in 0 .. f - 1 : n = f - 1 \/ n \in 0 .. f - 2
    BY <1>3
  <2> QED BY <1>5, <1>6, <2>1
<1>11. Rooted(u, e)
  <2>1. u[0].parent = NIL
    <3>1. 0 \in 0 .. f - 1
      BY <1>3
    <3> QED BY <1>1, <1>10, <3>1 DEF Rooted
  <2>2. ASSUME NEW n \in 1 .. e - 1
        PROVE  u[n].parent \in 0 .. n - 1 /\ (u[u[n].parent].left = n \/ u[u[n].parent].right = n)
    <3>1. CASE n = f \/ n = f + 1
      BY <1>3, <1>4, <1>5, <3>1
    <3>2. CASE n # f /\ n # f + 1
      <4>1. n \in 1 .. f - 1 /\ n \in 0 .. f - 1
        BY <1>3, <1>9, <2>2, <3>2
      <4>2. u[n].parent = t[n].parent /\ t[n].parent \in 0 .. n - 1
            /\ (t[t[n].parent].left = n \/ t[t[n].parent].right = n)
        BY <1>1, <1>10, <4>1 DEF Rooted
      <4>3. t[n].parent \in 0 .. f - 2
        BY <1>3, <4>1, <4>2
      <4> QED BY <1>6, <4>2, <4>3
    <3> QED BY <3>1, <3>2
  <2> QED BY <2>1, <2>2 DEF Rooted
<1>12. Branches(u, e)
  <2> SUFFICES ASSUME NEW n \in 0 .. e - 1
               PROVE  /\ u[n].symbol # Inner => u[n].left = NIL /\ u[n].right = NIL
                      /\ u[n].symbol = Inner =>
                           /\ u[n].left \in n + 1 .. e - 1 /\ u[n].right \in n + 1 .. e - 1
                           /\ u[n].left # u[n].right
                           /\ u[u[n].left].parent = n /\ u[u[n].right].parent = n
    BY DEF Branches
  <2>1. CASE n = f \/ n = f + 1
    BY <1>4, <1>8, <2>1
  <2>2. CASE n = f - 1
    BY <1>3, <1>4, <1>5, <1>9, <2>2
  <2>3. CASE n \in 0 .. f - 2
    <3>1. u[n] = t[n] /\ n \in 0 .. f - 1
      BY <1>6, <1>9, <2>3
    <3>2. CASE t[n].symbol # Inner
      BY <1>1, <3>1, <3>2 DEF Branches
    <3>3. CASE t[n].symbol = Inner
      <4>1. /\ t[n].left \in n + 1 .. f - 1 /\ t[n].right \in n + 1 .. f - 1 /\ t[n].left # t[n].right
            /\ t[t[n].left].parent = n /\ t[t[n].right].parent = n
        BY <1>1, <3>1, <3>3 DEF Branches
      <4>2. /\ t[n].left \in 0 .. f - 1 /\ t[n].right \in 0 .. f - 1
            /\ t[n].left \in n + 1 .. e - 1 /\ t[n].right \in n + 1 .. e - 1
        BY <1>3, <1>9, <3>1, <4>1
      <4> QED BY <1>10, <3>1, <3>3, <4>1, <4>2
    <3> QED BY <3>2, <3>3
  <2> QED BY <1>9, <2>1, <2>2, <2>3
<1>13. LastSplit(u, e)
  BY <1>3, <1>4, <1>9 DEF LastSplit
<1>14. Unused(u, e)
  <2> SUFFICES ASSUME NEW n \in Nodes, n >= e PROVE u[n] = NewNode
    BY DEF Unused
  <2>1. n >= f /\ n # f - 1 /\ n # f /\ n # f + 1
    BY <1>3, AlphabetAssumption DEF e, Nodes
  <2> QED BY <1>1, <1>2, <2>1 DEF Unused, f, t
<1>15. \A a \in Symbols : g.map_leaf[a] = IF a = s THEN f ELSE h.map_leaf[a]
  BY <1>1, <1>2 DEF f
<1>16. ~ Seen(h, s) /\ h.map_leaf[s] = NIL /\ f # NIL
  BY <1>3 DEF Seen, NIL
<1>17. Labels(g)
  <2>1. g.next_free_slot = e /\ g.nyt_node = e - 1
    BY <1>2, <1>9 DEF e, f
  <2>2. ASSUME NEW n \in 0 .. e - 1
        PROVE  /\ u[n].symbol = NYT <=> n = e - 1
               /\ u[n].symbol \in Symbols => g.map_leaf[u[n].symbol] = n
    <3>1. CASE n = f
      BY <1>3, <1>4, <1>8, <1>9, <1>15, <3>1
    <3>2. CASE n = f + 1
      BY <1>4, <1>8, <1>9, <3>2
    <3>3. CASE n = f - 1
      BY <1>3, <1>5, <1>8, <1>9, <3>3
    <3>4. CASE n \in 0 .. f - 2
      <4>1. u[n] = t[n] /\ n \in 0 .. f - 1 /\ n # f - 1 /\ n # f + 1
        BY <1>3, <1>6, <1>9, <3>4
      <4>2. t[n].symbol # NYT
        BY <1>7, <4>1
      <4>3. t[n].symbol \in Symbols => h.map_leaf[t[n].symbol] = n
        BY <1>7, <4>1
      <4>4. n # NIL
        BY <1>3, <1>9, <3>4
      <4> QED BY <1>9, <1>15, <1>16, <4>1, <4>2, <4>3, <4>4
    <3> QED BY <1>9, <3>1, <3>2, <3>3, <3>4
  <2>3. ASSUME NEW a \in Symbols, Seen(g, a)
        PROVE  g.map_leaf[a] \in 0 .. e - 1 /\ u[g.map_leaf[a]].symbol = a
    <3>1. CASE a = s
      BY <1>4, <1>9, <1>15, <3>1
    <3>2. CASE a # s
      <4>1. g.map_leaf[a] = h.map_leaf[a] /\ Seen(h, a)
        BY <1>15, <2>3, <3>2 DEF Seen
      <4>2. h.map_leaf[a] \in 0 .. f - 1 /\ t[h.map_leaf[a]].symbol = a
        BY <1>7, <4>1
      <4>3. h.map_leaf[a] # f - 1
        BY <1>7, <1>8, <4>2
      <4>4. h.map_leaf[a] \in 0 .. f - 2
        BY <1>3, <4>2, <4>3
      <4> QED BY <1>6, <1>9, <4>1, <4>2, <4>4
    <3> QED BY <3>1, <3>2
  <2>4. e = 1 + 2 * Cardinality({a \in Symbols : Seen(g, a)})
    <3> DEFINE A == Cardinality({a \in Symbols : Seen(h, a)})
               B == Cardinality({a \in Symbols : Seen(g, a)})
    <3>1. B = A + 1 /\ f = 1 + 2 * A
      BY <1>2, <1>7
    <3>2. IsFiniteSet({a \in Symbols : Seen(h, a)})
      <4>1. IsFiniteSet(Symbols)
        <5>1. IsFiniteSet(0 .. alphabet_size - 1)
          BY FS_Interval, AlphabetAssumption
        <5> QED BY <5>1 DEF Symbols
      <4> QED BY <4>1, FS_Subset
    <3>3. A \in Nat
      BY <3>2, FS_CardinalityType
    <3> HIDE DEF A, B
    <3>4. e = 1 + 2 * B
      BY <3>1, <3>3 DEF e
    <3> QED BY <3>4 DEF B
  <2> QED BY <2>1, <2>2, <2>3, <2>4 DEF Labels, u
<1>18. Shape(g)
  <2>1. g.next_free_slot = e
    BY <1>2 DEF e, f
  <2> QED BY <1>2, <1>11, <1>12, <1>13, <1>14, <1>17, <2>1 DEF Shape, u
<1>19. Sums(t, f, NIL) /\ Falling(t, f, NIL) /\ Positive(t, f, NIL)
  BY <1>1 DEF Weighed
<1>20. f = 1 \/ f >= 3
  BY <1>1, <1>3 DEF LastSplit
<1>21. t[f - 1].weight = 0 /\ u[f - 1].weight = 0
  BY <1>5, <1>19 DEF Positive
<1>22. \A n \in 0 .. f - 1 : t[n].weight \in Nat
  <2>1. \A n \in 0 .. f - 1 : n \in Nodes
    BY <1>3
  <2> QED BY <1>1, <2>1, NodeFields
<1>23. Sums(u, e, f)
  <2> SUFFICES ASSUME NEW n \in 0 .. e - 1, u[n].symbol = Inner
               PROVE  u[u[n].left].weight + u[u[n].right].weight = u[n].weight + (IF n = f THEN 1 ELSE 0)
    BY DEF Sums
  <2>1. CASE n = f \/ n = f + 1
    BY <1>4, <1>8, <2>1
  <2>2. CASE n = f - 1
    BY <1>3, <1>4, <1>5, <1>21, <2>2
  <2>3. CASE n \in 0 .. f - 2
    <3>1. u[n] = t[n] /\ n \in 0 .. f - 1 /\ n # f /\ n # NIL
      BY <1>3, <1>6, <1>9, <2>3
    <3>2. t[t[n].left].weight + t[t[n].right].weight = t[n].weight + 0
      BY <1>19, <3>1 DEF Sums
    <3>3. t[n].left \in n + 1 .. f - 1 /\ t[n].right \in n + 1 .. f - 1
      BY <1>1, <3>1 DEF Branches
    <3>4. t[n].left \in 0 .. f - 1 /\ t[n].right \in 0 .. f - 1
      BY <1>3, <3>1, <3>3
    <3> QED BY <1>10, <3>1, <3>2, <3>4
  <2> QED BY <1>9, <2>1, <2>2, <2>3
<1>24. Falling(u, e, f)
  <2>1. ASSUME NEW i \in 0 .. e - 1, NEW j \in 0 .. e - 1, i < j PROVE u[j].weight <= u[i].weight
    <3>1. \A n \in 0 .. e - 1 : u[n].weight \in Nat
      BY <1>4, <1>9, <1>10, <1>21, <1>22
    <3>2. CASE j = f - 1 \/ j = f \/ j = f + 1
      BY <1>4, <1>21, <2>1, <3>1, <3>2
    <3>3. CASE j \in 0 .. f - 2
      <4>1. i \in 0 .. f - 2
        BY <1>3, <1>9, <2>1, <3>3
      <4>2. NIL # f - 3
        BY <1>3, <1>20 DEF NIL
      <4>3. t[j].weight <= t[i].weight
        BY <1>9, <1>19, <2>1, <3>3, <4>1, <4>2 DEF Falling
      <4> QED BY <1>6, <3>3, <4>1, <4>3
    <3> QED BY <1>9, <3>2, <3>3
  <2>2. f # e - 3
    BY <1>3, <1>9
  <2> QED BY <2>1, <2>2 DEF Falling
<1>25. Positive(u, e, f)
  <2>1. u[e - 1].weight = 0
    BY <1>4, <1>9
  <2>2. ASSUME NEW n \in 0 .. e - 2, u[n].weight = 0 PROVE f = e - 2 /\ n >= e - 3
    <3>1. n = f \/ n = f - 1 \/ n \in 0 .. f - 2
      BY <1>3, <1>9
    <3>2. ASSUME n \in 0 .. f - 2 PROVE FALSE
      <4>1. t[n].weight = 0
        BY <1>6, <2>2, <3>2
      <4>2. (NIL = f - 2 /\ n >= f - 3) \/ (NIL = f - 3 /\ n = NIL)
        BY <1>19, <3>2, <4>1 DEF Positive
      <4> QED BY <1>3, <1>9, <3>2, <4>2 DEF NIL
    <3> QED BY <1>3, <1>9, <3>1, <3>2
  <2> QED BY <2>1, <2>2 DEF Positive
<1>26. OnWay(g, g.map_leaf[s])
  <2>1. g.map_leaf[s] = f /\ g.next_free_slot = e /\ f \in 0 .. e - 2
    BY <1>2, <1>3, <1>9, <1>15 DEF e, f
  <2> QED BY <1>18, <1>23, <1>24, <1>25, <2>1 DEF OnWay, Weighed, u
<1>27. ASSUME NEW n \in 0 .. f - 1 PROVE Path(u, n) = Path(t, n)
  <2>1. Upward(t) /\ Upward(u)
    BY <1>1, <1>18, ShapeUpward DEF t, u
  <2>2. ASSUME NEW k \in Nodes, k < f
        PROVE  u[k].parent = t[k].parent /\ (t[k].parent # NIL => Side(u, k) = Side(t, k))
    <3>1. k \in 0 .. f - 1
      BY <1>3, <2>2, AlphabetAssumption DEF Nodes
    <3>2. u[k].parent = t[k].parent
      BY <1>10, <3>1
    <3>3. ASSUME t[k].parent # NIL PROVE Side(u, k) = Side(t, k)
      <4>1. t[k].parent \in 0 .. k - 1
        BY <2>1, <3>3 DEF Upward
      <4>2. t[k].parent \in 0 .. f - 2
        BY <1>3, <3>1, <4>1
      <4> QED BY <1>6, <3>2, <4>2 DEF Side
    <3> QED BY <3>2, <3>3
  <2>3. n \in Nodes /\ n < f
    BY <1>3
  <2> QED BY <1>3, <2>1, <2>2, <2>3, PathSame
<1> QED BY <1>2, <1>15, <1>16, <1>26, <1>27 DEF g, u, t, f

-------------------------------------------------------------------------------
(* One coder. *)

\* A code that is kept is the path to the symbol's leaf.
Codes(h) ==
  \A s \in Symbols : h.map_code[s] # NoCode => Seen(h, s) /\ h.map_code[s] = Path(h.tree, h.map_leaf[s])

CoderInv(h) == OnWay(h, NIL) /\ Codes(h)

CodeMap == [0 .. alphabet_size -> Seq(Bits) \cup {NoCode}]

\* The codes that are kept are no part of the shape.
LEMMA OtherCodes ==
  ASSUME NEW h, NEW x, OnWay(h, x), NEW m \in CodeMap
  PROVE  LET g == [h EXCEPT !.map_code = m]
         IN  /\ OnWay(g, x) /\ g.map_code = m
             /\ g.tree = h.tree /\ g.map_leaf = h.map_leaf /\ g.nyt_node = h.nyt_node
             /\ g.next_free_slot = h.next_free_slot
<1> DEFINE g == [h EXCEPT !.map_code = m]
<1>1. h \in Coder /\ Shape(h) /\ Weighed(h.tree, h.next_free_slot, x)
  BY DEF OnWay, Shape
<1>2. /\ g \in Coder /\ g.map_code = m
      /\ g.tree = h.tree /\ g.map_leaf = h.map_leaf /\ g.nyt_node = h.nyt_node
      /\ g.next_free_slot = h.next_free_slot
  BY <1>1 DEF Coder, CodeMap
<1> HIDE DEF g
<1>3. Labels(g)
  BY <1>1, <1>2 DEF Shape, Labels, Seen
<1>4. Shape(g)
  BY <1>1, <1>2, <1>3 DEF Shape
<1> QED BY <1>1, <1>2, <1>4 DEF OnWay, g

\* In the beginning there is the NYT leaf alone.
LEMMA NewCoderInv == CoderInv(NewCoder)
<1> DEFINE h == NewCoder
           t == [n \in Nodes |-> IF n = 0 THEN [NewNode EXCEPT !.symbol = NYT] ELSE NewNode]
           ml == [s \in Symbols |-> NIL]
<1>1. h.tree = t /\ h.nyt_node = 0 /\ h.next_free_slot = 1 /\ h.map_leaf = ml /\ h.map_code = invalidate_cache
  BY DEF NewCoder
<1>2. alphabet_size \in Nat /\ alphabet_size >= 1 /\ 0 \in Nodes
  BY AlphabetAssumption DEF Nodes
<1>3. /\ NewNode \in Node /\ [NewNode EXCEPT !.symbol = NYT] \in Node
      /\ t[0] = [NewNode EXCEPT !.symbol = NYT]
  BY <1>2 DEF NewNode, Node, Place, NYT
<1>4. t[0].weight = 0 /\ t[0].symbol = NYT /\ t[0].parent = NIL /\ t[0].left = NIL /\ t[0].right = NIL
  BY <1>3 DEF NewNode
<1>5. t \in [Nodes -> Node]
  BY <1>3
<1>6. ml \in [Symbols -> Place] /\ \A s \in Symbols : ml[s] = NIL
  BY DEF Place
<1>7. invalidate_cache \in CodeMap /\ \A s \in Symbols : invalidate_cache[s] = NoCode
  BY <1>2 DEF invalidate_cache, CodeMap, Symbols
<1>8. Unused(t, 1)
  <2> SUFFICES ASSUME NEW n \in Nodes, n >= 1 PROVE t[n] = NewNode
    BY DEF Unused
  <2>1. n # 0
    BY <1>2 DEF Nodes
  <2> QED BY <2>1
<1> HIDE DEF t, ml
<1>9. h = [tree |-> t, nyt_node |-> 0, next_free_slot |-> 1, map_leaf |-> ml, map_code |-> invalidate_cache]
  BY DEF NewCoder, t, ml
<1>10. h \in Coder
  <2>1. 1 \in 1 .. 2 * alphabet_size + 1
    BY <1>2
  <2> HIDE DEF h
  <2> QED BY <1>2, <1>5, <1>6, <1>7, <1>9, <2>1 DEF Coder, CodeMap
<1> HIDE DEF h
<1>11. NYT # Inner /\ NYT \notin Symbols /\ NIL \notin Nat
  BY <1>2 DEF NYT, Inner, Symbols, NIL
<1>12. Rooted(t, 1) /\ Branches(t, 1) /\ LastSplit(t, 1)
  BY <1>4, <1>11 DEF Rooted, Branches, LastSplit
<1>13. Labels(h)
  <2>1. {s \in Symbols : Seen(h, s)} = {}
    BY <1>1, <1>6 DEF Seen
  <2>2. Cardinality({s \in Symbols : Seen(h, s)}) = 0
    BY <2>1, FS_EmptySet
  <2>3. \A n \in 0 .. 1 - 1 : n = 0
    OBVIOUS
  <2>4. \A s \in Symbols : ~ Seen(h, s)
    BY <2>1
  <2>5. \A n \in 0 .. 1 - 1 : (t[n].symbol = NYT <=> n = 0) /\ (t[n].symbol \in Symbols => ml[t[n].symbol] = n)
    BY <1>4, <1>11, <2>3
  <2> QED BY <1>1, <2>2, <2>4, <2>5 DEF Labels
<1>14. Sums(t, 1, NIL) /\ Falling(t, 1, NIL) /\ Positive(t, 1, NIL)
  BY <1>4, <1>11 DEF Sums, Falling, Positive, NIL
<1>15. OnWay(h, NIL)
  BY <1>1, <1>8, <1>10, <1>12, <1>13, <1>14 DEF OnWay, Shape, Weighed
<1>16. Codes(h)
  BY <1>1, <1>7 DEF Codes
<1> QED BY <1>15, <1>16 DEF CoderInv, h

\* A leaf that has a symbol can be raised as it is: its weight is in no sum.
LEMMA LeafWaits ==
  ASSUME NEW h, OnWay(h, NIL), NEW s \in Symbols, Seen(h, s)
  PROVE  OnWay(h, h.map_leaf[s])
<1> DEFINE t == h.tree
           f == h.next_free_slot
           x == h.map_leaf[s]
<1>1. /\ Shape(h) /\ Weighed(t, f, NIL) /\ f \in 1 .. 2 * alphabet_size + 1
      /\ Rooted(t, f) /\ Branches(t, f) /\ LastSplit(t, f) /\ Labels(h)
  BY CoderFields DEF OnWay, Shape
<1>2. x \in 0 .. f - 1 /\ t[x].symbol = s /\ h.nyt_node = f - 1
  BY <1>1 DEF Labels
<1>3. NYT # Inner /\ NYT \notin Symbols /\ Inner \notin Symbols
  BY AlphabetAssumption DEF NYT, Inner, Symbols
<1>4. f \in Nat /\ f >= 1
  BY <1>1, AlphabetAssumption
<1>5. x # f - 1 /\ t[x].symbol # Inner
  <2>1. f - 1 \in 0 .. f - 1
    BY <1>4
  <2>2. t[f - 1].symbol = NYT
    BY <1>1, <2>1 DEF Labels
  <2> QED BY <1>2, <1>3, <2>2
<1> HIDE DEF t, f, x
<1>6. x \in 0 .. f - 2 /\ f > 1
  BY <1>2, <1>4, <1>5
<1>7. f >= 3 /\ t[f - 1].parent = f - 3
  BY <1>1, <1>6 DEF LastSplit
<1>8. t[f - 3].symbol = Inner
  <2>1. f - 1 \in 1 .. f - 1 /\ f - 3 \in 0 .. f - 1 /\ f - 1 # NIL
    BY <1>4, <1>7 DEF NIL
  <2>2. t[f - 3].left = f - 1 \/ t[f - 3].right = f - 1
    BY <1>1, <1>7, <2>1 DEF Rooted
  <2> QED BY <1>1, <2>1, <2>2 DEF Branches
<1>9. x # f - 3 /\ NIL # f - 3 /\ NIL # f - 2
  BY <1>4, <1>5, <1>7, <1>8 DEF NIL
<1>10. Sums(t, f, x)
  <2> SUFFICES ASSUME NEW n \in 0 .. f - 1, t[n].symbol = Inner
               PROVE  t[t[n].left].weight + t[t[n].right].weight = t[n].weight + (IF n = x THEN 1 ELSE 0)
    BY DEF Sums
  <2>1. n # x /\ n # NIL
    BY <1>4, <1>5 DEF NIL
  <2> QED BY <1>1, <2>1 DEF Weighed, Sums
<1>11. Falling(t, f, x)
  BY <1>1, <1>9 DEF Weighed, Falling
<1>12. Positive(t, f, x)
  BY <1>1, <1>9 DEF Weighed, Positive
<1> QED BY <1>1, <1>6, <1>10, <1>11, <1>12 DEF OnWay, Weighed, t, f, x

\* What is raised for a symbol: its leaf, which has to be made if it is new.
Grown(h, s) == IF Seen(h, s) THEN h ELSE Split(h, s)

\* The tree is ready for the walk.
LEMMA GrownKeeps ==
  ASSUME NEW h, CoderInv(h), NEW s \in Symbols
  PROVE  OnWay(Grown(h, s), Grown(h, s).map_leaf[s]) /\ Codes(Grown(h, s))
<1> DEFINE g == Grown(h, s)
<1>1. OnWay(h, NIL) /\ Codes(h)
  BY DEF CoderInv
<1>2. CASE Seen(h, s)
  BY <1>1, <1>2, LeafWaits DEF Grown
<1>3. CASE ~ Seen(h, s)
  <2>1. /\ OnWay(g, g.map_leaf[s]) /\ g.map_code = h.map_code
        /\ \A a \in Symbols : a # s => g.map_leaf[a] = h.map_leaf[a]
        /\ \A n \in 0 .. h.next_free_slot - 1 : Path(g.tree, n) = Path(h.tree, n)
    BY <1>1, <1>3, SplitKeeps DEF Grown
  <2> HIDE DEF g
  <2>2. ASSUME NEW a \in Symbols, g.map_code[a] # NoCode
        PROVE  Seen(g, a) /\ g.map_code[a] = Path(g.tree, g.map_leaf[a])
    <3>1. Seen(h, a) /\ h.map_code[a] = Path(h.tree, h.map_leaf[a])
      BY <1>1, <2>1, <2>2 DEF Codes
    <3>2. a # s /\ g.map_leaf[a] = h.map_leaf[a]
      BY <1>3, <2>1, <3>1
    <3>3. h.map_leaf[a] \in 0 .. h.next_free_slot - 1
      BY <1>1, <3>1 DEF OnWay, Shape, Labels
    <3> QED BY <2>1, <3>1, <3>2, <3>3 DEF Seen
  <2>3. Codes(g)
    BY <2>2 DEF Codes
  <2> QED BY <2>1, <2>3 DEF g
<1> QED BY <1>2, <1>3

\* Whatever a walk does, the codes kept afterwards are those of the tree.
LEMMA SlideKeeps ==
  ASSUME NEW g, NEW x, OnWay(g, x), Codes(g)
  PROVE  CoderInv(slide_and_increment(g, x))
<1> DEFINE w == Walk(g, x)
           c == w.coder
<1>1. w \in WayFrom(g) /\ w.node = NIL
  BY WalkEnds
<1>2. OnWay(c, NIL) /\ Kept(c, g) /\ (w.swapped \/ SameForm(c, g))
  BY <1>1 DEF WayFrom
<1>3. slide_and_increment(g, x) = IF w.swapped THEN [c EXCEPT !.map_code = invalidate_cache] ELSE c
  BY DEF slide_and_increment
<1> HIDE DEF w, c
<1>4. CASE w.swapped
  <2> DEFINE r == [c EXCEPT !.map_code = invalidate_cache]
  <2>1. invalidate_cache \in CodeMap /\ \A s \in Symbols : invalidate_cache[s] = NoCode
    BY AlphabetAssumption DEF invalidate_cache, CodeMap, Symbols
  <2>2. OnWay(r, NIL) /\ r.map_code = invalidate_cache
    BY <1>2, <2>1, OtherCodes
  <2> HIDE DEF r
  <2>3. Codes(r)
    BY <2>1, <2>2 DEF Codes
  <2>4. slide_and_increment(g, x) = r
    BY <1>3, <1>4 DEF r
  <2> QED BY <2>2, <2>3, <2>4 DEF CoderInv
<1>5. CASE ~ w.swapped
  <2>1. SameForm(c, g)
    BY <1>2, <1>5
  <2>2. Upward(c.tree) /\ Upward(g.tree)
    BY <1>2, ShapeUpward DEF OnWay
  <2>3. \A n \in Nodes : Path(c.tree, n) = Path(g.tree, n)
    <3> DEFINE e == 2 * alphabet_size + 1
    <3>1. e \in Nat /\ \A n \in Nodes : n < e
      BY AlphabetAssumption DEF Nodes
    <3>2. \A n \in Nodes : /\ c.tree[n].parent = g.tree[n].parent
                           /\ g.tree[n].parent # NIL => Side(c.tree, n) = Side(g.tree, n)
      <4> TAKE n \in Nodes
      <4>1. c.tree[n].parent = g.tree[n].parent
        BY <2>1 DEF SameForm
      <4>2. ASSUME g.tree[n].parent # NIL PROVE Side(c.tree, n) = Side(g.tree, n)
        <5>1. g.tree[n].parent \in Nodes
          BY <2>2, <4>2, AlphabetAssumption DEF Upward, Nodes
        <5>2. c.tree[g.tree[n].parent].right = g.tree[g.tree[n].parent].right
          BY <2>1, <5>1 DEF SameForm
        <5> QED BY <4>1, <5>2 DEF Side
      <4> QED BY <4>1, <4>2
    <3> HIDE DEF e
    <3> QED BY <2>2, <3>1, <3>2, PathSame
  <2>4. ASSUME NEW s \in Symbols, c.map_code[s] # NoCode
        PROVE  Seen(c, s) /\ c.map_code[s] = Path(c.tree, c.map_leaf[s])
    <3>1. c.map_code = g.map_code /\ c.map_leaf = g.map_leaf
      BY <1>2, <2>1 DEF Kept, SameForm
    <3>2. Seen(g, s) /\ g.map_code[s] = Path(g.tree, g.map_leaf[s])
      BY <2>4, <3>1 DEF Codes
    <3>3. g.map_leaf[s] \in Nodes
      <4>1. g.map_leaf[s] \in 0 .. g.next_free_slot - 1 /\ g.next_free_slot \in 1 .. 2 * alphabet_size + 1
        BY <3>2, CoderFields DEF OnWay, Shape, Labels
      <4> QED BY <4>1, AlphabetAssumption DEF Nodes
    <3> QED BY <2>3, <3>1, <3>2, <3>3 DEF Seen
  <2>5. Codes(c)
    BY <2>4 DEF Codes
  <2> QED BY <1>2, <1>3, <1>5, <2>5 DEF CoderInv
<1> QED BY <1>4, <1>5

\* The invariant of a coder is kept by update_tree.
LEMMA UpdateKeeps ==
  ASSUME NEW h, CoderInv(h), NEW s \in Symbols
  PROVE  CoderInv(update_tree(h, s))
<1>1. OnWay(Grown(h, s), Grown(h, s).map_leaf[s]) /\ Codes(Grown(h, s))
  BY GrownKeeps
<1>2. update_tree(h, s) = slide_and_increment(Grown(h, s), Grown(h, s).map_leaf[s])
  BY DEF update_tree, Grown
<1> QED BY <1>1, <1>2, SlideKeeps

\* The leaf whose code is written, and what is written.
LeafOf(h, s) == IF Seen(h, s) THEN h.map_leaf[s] ELSE h.nyt_node

CodeOf(h, s) == IF Seen(h, s) THEN Path(h.tree, h.map_leaf[s]) ELSE Path(h.tree, h.nyt_node) \o Literal(s)

\* The leaf is in the tree, and it is marked with the symbol, or is the NYT leaf.
LEMMA LeafFound ==
  ASSUME NEW h, Shape(h), NEW s \in Symbols
  PROVE  /\ LeafOf(h, s) \in 0 .. h.next_free_slot - 1 /\ LeafOf(h, s) \in Nodes
         /\ h.tree[LeafOf(h, s)].symbol = IF Seen(h, s) THEN s ELSE NYT
         /\ Path(h.tree, LeafOf(h, s)) \in Seq(Bits)
<1> DEFINE l == LeafOf(h, s)
<1>1. h.next_free_slot \in 1 .. 2 * alphabet_size + 1 /\ Labels(h)
  BY CoderFields DEF Shape
<1>2. h.next_free_slot \in Nat /\ h.next_free_slot - 1 \in 0 .. h.next_free_slot - 1
  BY <1>1, AlphabetAssumption
<1>3. l \in 0 .. h.next_free_slot - 1 /\ h.tree[l].symbol = IF Seen(h, s) THEN s ELSE NYT
  BY <1>1, <1>2 DEF Labels, LeafOf
<1>4. l \in Nodes
  BY <1>1, <1>3, AlphabetAssumption DEF Nodes
<1>5. Path(h.tree, l) \in Seq(Bits)
  BY <1>4, ShapeUpward, PathType
<1> QED BY <1>3, <1>4, <1>5

\* Coders that differ at most in the codes they keep.
Same(g, h) ==
  /\ g.tree = h.tree /\ g.nyt_node = h.nyt_node /\ g.next_free_slot = h.next_free_slot
  /\ g.map_leaf = h.map_leaf

\* What encode writes is the path to the leaf, and it keeps the invariant.
LEMMA EncodeKeeps ==
  ASSUME NEW h, CoderInv(h), NEW s \in Symbols
  PROVE  /\ CoderInv(encode(h, s).next)
         /\ encode(h, s).bits = CodeOf(h, s)
         /\ \E g : CoderInv(g) /\ Same(g, h) /\ encode(h, s).next = update_tree(g, s)
<1> DEFINE leaf == LeafOf(h, s)
           code == IF Seen(h, s) /\ h.map_code[s] # NoCode THEN h.map_code[s] ELSE Path(h.tree, leaf)
           symbol == h.tree[leaf].symbol
           m == [h.map_code EXCEPT ![symbol] = code]
           g == [h EXCEPT !.map_code = m]
<1>1. OnWay(h, NIL) /\ Shape(h) /\ Codes(h) /\ h.map_code \in CodeMap
  BY CoderFields DEF CoderInv, OnWay, Shape, CodeMap
<1>2. leaf \in Nodes /\ symbol = (IF Seen(h, s) THEN s ELSE NYT) /\ Path(h.tree, leaf) \in Seq(Bits)
  BY <1>1, LeafFound
<1>3. code = Path(h.tree, leaf)
  BY <1>1 DEF Codes, LeafOf
<1>4. symbol \in 0 .. alphabet_size /\ NYT \notin Symbols
  BY <1>2, AlphabetAssumption DEF Symbols, NYT
<1>5. encode(h, s) = [next |-> update_tree(g, s), bits |-> IF Seen(h, s) THEN code ELSE code \o Literal(s)]
  BY DEF encode, Remember, LeafOf
<1> HIDE DEF code, symbol, leaf
<1>6. m \in CodeMap
  BY <1>1, <1>2, <1>3, <1>4 DEF CodeMap
<1>7. OnWay(g, NIL) /\ g.map_code = m /\ g.tree = h.tree /\ g.map_leaf = h.map_leaf /\ Same(g, h)
  <2> HIDE DEF m
  <2> QED BY <1>1, <1>6, OtherCodes DEF Same
<1>8. ASSUME NEW a \in Symbols, m[a] # NoCode PROVE Seen(h, a) /\ m[a] = Path(h.tree, h.map_leaf[a])
  <2>1. a \in 0 .. alphabet_size
    BY AlphabetAssumption DEF Symbols
  <2>2. m[a] = IF a = symbol THEN code ELSE h.map_code[a]
    BY <1>1, <2>1 DEF CodeMap
  <2>3. CASE a = symbol
    BY <1>2, <1>3, <1>4, <2>2, <2>3 DEF leaf, LeafOf
  <2>4. CASE a # symbol
    BY <1>1, <1>8, <2>2, <2>4 DEF Codes
  <2> QED BY <2>3, <2>4
<1>9. Codes(g)
  <2> HIDE DEF m, g
  <2> QED BY <1>7, <1>8 DEF Codes, Seen
<1> HIDE DEF m, g
<1>10. CoderInv(g)
  BY <1>7, <1>9 DEF CoderInv
<1>11. CoderInv(update_tree(g, s))
  BY <1>10, UpdateKeeps
<1>12. encode(h, s).bits = CodeOf(h, s)
  BY <1>3, <1>5 DEF CodeOf, leaf, LeafOf
<1> QED BY <1>5, <1>7, <1>10, <1>11, <1>12

-------------------------------------------------------------------------------
(* Two coders that differ in the codes they keep. *)

\* A coder has five fields.
LEMMA CoderRecord ==
  ASSUME NEW h \in Coder
  PROVE  h = [tree |-> h.tree, nyt_node |-> h.nyt_node, next_free_slot |-> h.next_free_slot,
              map_leaf |-> h.map_leaf, map_code |-> h.map_code]
BY DEF Coder

SwappedTree(t, first, second) ==
  [n \in Nodes |->
     CASE n = first  -> [t[second] EXCEPT !.parent = t[first].parent]
       [] n = second -> [t[first] EXCEPT !.parent = t[second].parent]
       [] OTHER -> [t[n] EXCEPT !.parent = Adopted(t, first, second, n)]]

SwappedLeaves(t, leaves, first, second) ==
  [s \in Symbols |->
     CASE t[second].symbol = s -> first
       [] t[first].symbol = s -> second
       [] OTHER -> leaves[s]]

\* swap looks at no code.
LEMMA SwapIs ==
  ASSUME NEW h \in Coder, NEW i, NEW x
  PROVE  swap(h, i, x) = [tree |-> SwappedTree(h.tree, i, x), nyt_node |-> h.nyt_node,
                          next_free_slot |-> h.next_free_slot,
                          map_leaf |-> SwappedLeaves(h.tree, h.map_leaf, i, x), map_code |-> h.map_code]
<1> DEFINE T == SwappedTree(h.tree, i, x)
           L == SwappedLeaves(h.tree, h.map_leaf, i, x)
<1>1. swap(h, i, x) = [h EXCEPT !.tree = T, !.map_leaf = L]
  BY DEF swap, SwappedTree, SwappedLeaves
<1> HIDE DEF T, L
<1>2. [h EXCEPT !.tree = T, !.map_leaf = L] =
        [tree |-> T, nyt_node |-> h.nyt_node, next_free_slot |-> h.next_free_slot,
         map_leaf |-> L, map_code |-> h.map_code]
  <2> DEFINE r == [h EXCEPT !.tree = T, !.map_leaf = L]
  <2>1. h \in [tree : {h.tree}, nyt_node : {h.nyt_node}, next_free_slot : {h.next_free_slot},
               map_leaf : {h.map_leaf}, map_code : {h.map_code}]
    BY DEF Coder
  <2>2. r \in [tree : {T}, nyt_node : {h.nyt_node}, next_free_slot : {h.next_free_slot},
               map_leaf : {L}, map_code : {h.map_code}]
    BY <2>1
  <2> HIDE DEF r
  <2>3. r = [tree |-> T, nyt_node |-> h.nyt_node, next_free_slot |-> h.next_free_slot,
             map_leaf |-> L, map_code |-> h.map_code]
    BY <2>2
  <2> QED BY <2>3 DEF r
<1> QED BY <1>1, <1>2 DEF T, L

\* One round does the same to both.
LEMMA ClimbSame ==
  ASSUME NEW v, NEW w, v.coder \in Coder, w.coder \in Coder, Same(v.coder, w.coder),
         v.node = w.node, v.swapped = w.swapped
  PROVE  /\ Same(Climb(v).coder, Climb(w).coder) /\ Climb(v).node = Climb(w).node
         /\ Climb(v).swapped = Climb(w).swapped
<1> DEFINE t == w.coder.tree
           x == w.node
           l == get_block_leader(t, x)
           swaps == MaySwap(t, l, x)
           node == IF swaps THEN l ELSE x
           Moved(h) == IF swaps THEN swap(h, l, x) ELSE h
           Rest(h) == [h EXCEPT !.tree = [h.tree EXCEPT ![node] = Heavier(h.tree[node])]]
<1>1. v.coder.tree = t /\ v.node = x
  BY DEF Same
<1>2. Climb(w) = [coder |-> Rest(Moved(w.coder)), node |-> Moved(w.coder).tree[node].parent,
                  swapped |-> w.swapped \/ swaps]
  BY DEF Climb, Raise
<1>3. Climb(v) = [coder |-> Rest(Moved(v.coder)), node |-> Moved(v.coder).tree[node].parent,
                  swapped |-> v.swapped \/ swaps]
  BY <1>1, Zenon DEF Climb, Raise
<1> HIDE DEF swaps, l, node
<1>4. ASSUME NEW U, NEW c, NEW d, NEW M, NEW m
      PROVE  Rest([tree |-> U, nyt_node |-> c, next_free_slot |-> d, map_leaf |-> M, map_code |-> m]) =
               [tree |-> [U EXCEPT ![node] = Heavier(U[node])], nyt_node |-> c,
                next_free_slot |-> d, map_leaf |-> M, map_code |-> m]
  OBVIOUS
<1> DEFINE T == IF swaps THEN SwappedTree(t, l, x) ELSE t
           L == IF swaps THEN SwappedLeaves(t, w.coder.map_leaf, l, x) ELSE w.coder.map_leaf
<1>5. ASSUME NEW h \in Coder, h.tree = t, h.map_leaf = w.coder.map_leaf
      PROVE  Moved(h) = [tree |-> T, nyt_node |-> h.nyt_node, next_free_slot |-> h.next_free_slot,
                         map_leaf |-> L, map_code |-> h.map_code]
  <2>1. CASE swaps
    BY <1>5, <2>1, SwapIs
  <2>2. CASE ~ swaps
    BY <1>5, <2>2, CoderRecord
  <2> QED BY <2>1, <2>2
<1> HIDE DEF Moved, T, L
<1> DEFINE a == w.coder.nyt_node
           b == w.coder.next_free_slot
<1>6. /\ Moved(w.coder) = [tree |-> T, nyt_node |-> a, next_free_slot |-> b,
                           map_leaf |-> L, map_code |-> w.coder.map_code]
      /\ Moved(v.coder) = [tree |-> T, nyt_node |-> a, next_free_slot |-> b,
                           map_leaf |-> L, map_code |-> v.coder.map_code]
  BY <1>1, <1>5 DEF Same
<1>7. Same(Rest(Moved(v.coder)), Rest(Moved(w.coder)))
  <2> DEFINE U == [T EXCEPT ![node] = Heavier(T[node])]
  <2>1. Rest(Moved(w.coder)) = [tree |-> U, nyt_node |-> a, next_free_slot |-> b,
                                map_leaf |-> L, map_code |-> w.coder.map_code]
    <3>1. Rest([tree |-> T, nyt_node |-> a, next_free_slot |-> b,
                map_leaf |-> L, map_code |-> w.coder.map_code]) =
            [tree |-> U, nyt_node |-> a, next_free_slot |-> b,
             map_leaf |-> L, map_code |-> w.coder.map_code]
      BY <1>4
    <3> HIDE DEF Rest, U, a, b
    <3> QED BY <1>6, <3>1
  <2>2. Rest(Moved(v.coder)) = [tree |-> U, nyt_node |-> a, next_free_slot |-> b,
                                map_leaf |-> L, map_code |-> v.coder.map_code]
    <3>1. Rest([tree |-> T, nyt_node |-> a, next_free_slot |-> b,
                map_leaf |-> L, map_code |-> v.coder.map_code]) =
            [tree |-> U, nyt_node |-> a, next_free_slot |-> b,
             map_leaf |-> L, map_code |-> v.coder.map_code]
      BY <1>4
    <3> HIDE DEF Rest, U, a, b
    <3> QED BY <1>6, <3>1
  <2> HIDE DEF Rest, U, a, b
  <2> QED BY <2>1, <2>2 DEF Same
<1>8. Moved(v.coder).tree = T /\ Moved(w.coder).tree = T
  <2> HIDE DEF a, b
  <2> QED BY <1>6
<1> HIDE DEF Rest
<1> QED BY <1>2, <1>3, <1>7, <1>8

\* So does a walk.
LEMMA WalkSame ==
  ASSUME NEW g, NEW h, NEW x, OnWay(g, x), OnWay(h, x), Same(g, h)
  PROVE  /\ Same(Walk(g, x).coder, Walk(h, x).coder)
         /\ Walk(g, x).swapped = Walk(h, x).swapped
<1> DEFINE f == h.next_free_slot
<1>1. PICK u : Walks(g, x, u) /\ Walk(g, x) = u[g.next_free_slot]
  BY WalkUnfold
<1>2. PICK v : Walks(h, x, v) /\ Walk(h, x) = v[f]
  BY WalkUnfold
<1>3. f \in Nat /\ g.next_free_slot = f
  BY CoderFields, AlphabetAssumption DEF OnWay, Shape, Same
<1>4. /\ u[0] = [coder |-> g, node |-> x, swapped |-> FALSE]
      /\ v[0] = [coder |-> h, node |-> x, swapped |-> FALSE]
  <2>1. 0 \in 0 .. f
    BY <1>3
  <2> HIDE DEF f
  <2> QED BY <1>1, <1>2, <1>3, <2>1 DEF Walks, f
<1>5. ASSUME NEW k \in 0 .. f - 1 PROVE u[k + 1] = Round(u[k]) /\ v[k + 1] = Round(v[k])
  <2>1. k + 1 \in 0 .. f /\ k + 1 # 0 /\ (k + 1) - 1 = k
    BY <1>3
  <2> HIDE DEF f
  <2> QED BY <1>1, <1>2, <1>3, <2>1 DEF Walks, f
<1> DEFINE Good(k) == /\ u[k] \in WayFrom(g) /\ v[k] \in WayFrom(h)
                      /\ Same(u[k].coder, v[k].coder) /\ u[k].node = v[k].node
                      /\ u[k].swapped = v[k].swapped
           T == {k \in Nat : k <= f => Good(k)}
<1> HIDE DEF f
<1>6. 0 \in T
  <2>1. u[0] \in WayFrom(g) /\ v[0] \in WayFrom(h)
    BY <1>4, WalkBegins
  <2>2. Same(u[0].coder, v[0].coder) /\ u[0].node = v[0].node /\ u[0].swapped = v[0].swapped
    BY <1>4
  <2> QED BY <2>1, <2>2
<1>7. ASSUME NEW k \in T PROVE k + 1 \in T
  <2>1. SUFFICES ASSUME k + 1 <= f PROVE Good(k + 1)
    BY DEF T
  <2>2. k \in Nat /\ k <= f /\ k \in 0 .. f - 1
    BY <1>3, <2>1 DEF T
  <2>3. Good(k)
    BY <2>2 DEF T
  <2>4. /\ u[k + 1] = Round(u[k]) /\ v[k + 1] = Round(v[k])
        /\ u[k + 1] \in WayFrom(g) /\ v[k + 1] \in WayFrom(h)
    BY <1>5, <2>2, <2>3, RoundKeeps
  <2>5. CASE u[k].node = NIL
    BY <2>3, <2>4, <2>5 DEF Round
  <2>6. CASE u[k].node # NIL
    <3>1. u[k + 1] = Climb(u[k]) /\ v[k + 1] = Climb(v[k])
      BY <2>3, <2>4, <2>6 DEF Round
    <3>2. u[k].coder \in Coder /\ v[k].coder \in Coder
      BY <2>3 DEF WayFrom
    <3> QED BY <2>3, <2>4, <3>1, <3>2, ClimbSame
  <2> QED BY <2>5, <2>6
<1>8. T = Nat
  <2>1. T \in SUBSET Nat
    BY DEF T
  <2> HIDE DEF T
  <2> QED BY <1>6, <1>7, <2>1, NatSetInduction
<1>9. Good(f)
  <2>1. f \in T
    BY <1>3, <1>8
  <2> QED BY <1>3, <2>1 DEF T
<1> QED BY <1>1, <1>2, <1>3, <1>9

\* And so does a split.
LEMMA SplitSame ==
  ASSUME NEW g, NEW h, Shape(g), Shape(h), Same(g, h), NEW s \in Symbols, ~ Seen(h, s)
  PROVE  Same(Split(g, s), Split(h, s))
<1> DEFINE G == Split(g, s)
           H == Split(h, s)
           f == h.next_free_slot
<1>1. ~ Seen(g, s)
  BY DEF Same, Seen
<1>2. /\ H \in Coder /\ H.next_free_slot = f + 2 /\ H.nyt_node = f + 1
      /\ H.map_leaf = [h.map_leaf EXCEPT ![s] = f]
      /\ \A n \in Nodes : n # f - 1 /\ n # f /\ n # f + 1 => H.tree[n] = h.tree[n]
      /\ H.tree[f - 1] = [h.tree[f - 1] EXCEPT !.symbol = Inner, !.left = f + 1, !.right = f]
      /\ H.tree[f] = [NewNode EXCEPT !.symbol = s, !.parent = f - 1]
      /\ H.tree[f + 1] = [NewNode EXCEPT !.symbol = NYT, !.parent = f - 1]
  BY SplitFields
<1>3. /\ G \in Coder /\ G.next_free_slot = f + 2 /\ G.nyt_node = f + 1
      /\ G.map_leaf = [h.map_leaf EXCEPT ![s] = f]
      /\ \A n \in Nodes : n # f - 1 /\ n # f /\ n # f + 1 => G.tree[n] = h.tree[n]
      /\ G.tree[f - 1] = [h.tree[f - 1] EXCEPT !.symbol = Inner, !.left = f + 1, !.right = f]
      /\ G.tree[f] = [NewNode EXCEPT !.symbol = s, !.parent = f - 1]
      /\ G.tree[f + 1] = [NewNode EXCEPT !.symbol = NYT, !.parent = f - 1]
  <2> DEFINE e == g.next_free_slot
  <2>1. g.tree = h.tree /\ e = f /\ g.map_leaf = h.map_leaf
    BY DEF Same
  <2>2. /\ G \in Coder /\ G.next_free_slot = e + 2 /\ G.nyt_node = e + 1
        /\ G.map_leaf = [g.map_leaf EXCEPT ![s] = e]
        /\ \A n \in Nodes : n # e - 1 /\ n # e /\ n # e + 1 => G.tree[n] = g.tree[n]
        /\ G.tree[e - 1] = [g.tree[e - 1] EXCEPT !.symbol = Inner, !.left = e + 1, !.right = e]
        /\ G.tree[e] = [NewNode EXCEPT !.symbol = s, !.parent = e - 1]
        /\ G.tree[e + 1] = [NewNode EXCEPT !.symbol = NYT, !.parent = e - 1]
    BY <1>1, SplitFields
  <2> HIDE DEF G, f, e
  <2> QED BY <2>1, <2>2
<1> HIDE DEF G, H, f
<1>4. \A n \in Nodes : G.tree[n] = H.tree[n]
  BY <1>2, <1>3
<1>5. G.tree \in [Nodes -> Node] /\ H.tree \in [Nodes -> Node]
  BY <1>2, <1>3, CoderFields
<1>6. G.tree = H.tree
  BY <1>4, <1>5
<1> QED BY <1>2, <1>3, <1>6 DEF Same, G, H

\* Coders that differ in the codes they keep stay so.
LEMMA UpdateSame ==
  ASSUME NEW g, NEW h, CoderInv(g), CoderInv(h), Same(g, h), NEW s \in Symbols
  PROVE  Same(update_tree(g, s), update_tree(h, s))
<1> DEFINE G == Grown(g, s)
           H == Grown(h, s)
           x == H.map_leaf[s]
<1>1. OnWay(G, G.map_leaf[s]) /\ OnWay(H, H.map_leaf[s])
  BY GrownKeeps
<1>2. Same(G, H)
  <2>1. Shape(g) /\ Shape(h) /\ (Seen(g, s) <=> Seen(h, s))
    BY DEF CoderInv, OnWay, Same, Seen
  <2> QED BY <2>1, SplitSame DEF Grown
<1>3. /\ update_tree(g, s) = slide_and_increment(G, G.map_leaf[s])
      /\ update_tree(h, s) = slide_and_increment(H, H.map_leaf[s])
  BY DEF update_tree, Grown
<1> HIDE DEF G, H
<1>4. G.map_leaf[s] = x
  BY <1>2 DEF Same
<1> HIDE DEF x
<1> DEFINE v == Walk(G, x)
           w == Walk(H, x)
<1>5. OnWay(G, x) /\ OnWay(H, x)
  BY <1>1, <1>4 DEF x
<1>6. Same(v.coder, w.coder) /\ v.swapped = w.swapped
  BY <1>2, <1>5, WalkSame
<1>7. v.coder \in Coder /\ w.coder \in Coder
  BY <1>5, WalkEnds DEF WayFrom
<1>8. /\ update_tree(g, s) = IF v.swapped THEN [v.coder EXCEPT !.map_code = invalidate_cache] ELSE v.coder
      /\ update_tree(h, s) = IF w.swapped THEN [w.coder EXCEPT !.map_code = invalidate_cache] ELSE w.coder
  BY <1>3, <1>4 DEF slide_and_increment, x
<1> HIDE DEF v, w
<1>9. Same([v.coder EXCEPT !.map_code = invalidate_cache], [w.coder EXCEPT !.map_code = invalidate_cache])
  BY <1>6, <1>7 DEF Same, Coder
<1> QED BY <1>6, <1>8, <1>9

-------------------------------------------------------------------------------
(* Reading what was written. *)

\* The root is no leaf once there is a symbol.
LEMMA RootIsInner ==
  ASSUME NEW h, Shape(h), h.next_free_slot > 1
  PROVE  h.tree[0].symbol = Inner
<1>1. /\ h.next_free_slot \in 1 .. 2 * alphabet_size + 1 /\ Rooted(h.tree, h.next_free_slot)
      /\ Branches(h.tree, h.next_free_slot)
  BY CoderFields DEF Shape
<1>2. 1 \in 1 .. h.next_free_slot - 1 /\ 0 \in 0 .. h.next_free_slot - 1 /\ \A n \in 0 .. 1 - 1 : n = 0
  BY <1>1, AlphabetAssumption
<1>3. h.tree[0].left = 1 \/ h.tree[0].right = 1
  BY <1>1, <1>2 DEF Rooted
<1> QED BY <1>1, <1>2, <1>3 DEF Branches, NIL

\* A code is a sequence of bits and not empty: the path, and the literal of a
\* symbol that is new.
LEMMA CodeIs ==
  ASSUME NEW h, Shape(h), NEW s \in Symbols
  PROVE  /\ CodeOf(h, s) \in Seq(Bits) /\ Len(CodeOf(h, s)) >= 1
         /\ Seen(h, s) => CodeOf(h, s) = Path(h.tree, LeafOf(h, s))
         /\ ~ Seen(h, s) => CodeOf(h, s) = Path(h.tree, LeafOf(h, s)) \o Literal(s)
<1> DEFINE p == Path(h.tree, LeafOf(h, s))
<1>1. /\ LeafOf(h, s) \in 0 .. h.next_free_slot - 1 /\ LeafOf(h, s) \in Nodes /\ p \in Seq(Bits)
      /\ h.tree[LeafOf(h, s)].symbol = IF Seen(h, s) THEN s ELSE NYT
  BY LeafFound
<1>2. CodeOf(h, s) = IF Seen(h, s) THEN p ELSE p \o Literal(s)
  BY DEF CodeOf, LeafOf
<1> HIDE DEF p
<1>3. CASE ~ Seen(h, s)
  <2>1. Literal(s) \in Seq(Bits) /\ Len(Literal(s)) = log_alphabet_size + 1 /\ log_alphabet_size \in Nat
    BY NumberLiteral, LogIs, AlphabetAssumption
  <2>2. p \o Literal(s) \in Seq(Bits) /\ Len(p \o Literal(s)) = Len(p) + Len(Literal(s)) /\ Len(p) \in Nat
    BY <1>1, <2>1, ConcatProperties
  <2> QED BY <1>2, <1>3, <2>1, <2>2 DEF p
<1>4. CASE Seen(h, s)
  <2>1. Labels(h) /\ h.next_free_slot \in 1 .. 2 * alphabet_size + 1 /\ Rooted(h.tree, h.next_free_slot)
    BY CoderFields DEF Shape
  <2>2. s # NYT /\ s # Inner /\ NYT \in Nat
    BY AlphabetAssumption DEF Symbols, NYT, Inner
  <2>3. h.next_free_slot > 1
    <3>1. LeafOf(h, s) # h.next_free_slot - 1
      BY <1>1, <1>4, <2>1, <2>2 DEF Labels
    <3> QED BY <1>1, <2>1, <3>1, AlphabetAssumption
  <2>4. LeafOf(h, s) # 0
    BY <1>1, <1>4, <2>2, <2>3, RootIsInner
  <2>5. LeafOf(h, s) \in 1 .. h.next_free_slot - 1
    BY <1>1, <2>1, <2>4, AlphabetAssumption
  <2> DEFINE q == h.tree[LeafOf(h, s)].parent
  <2>6. q \in 0 .. LeafOf(h, s) - 1 /\ q # NIL /\ q \in Nodes
    <3>1. q \in 0 .. LeafOf(h, s) - 1
      BY <2>1, <2>5 DEF Rooted
    <3> QED BY <1>1, <3>1, AlphabetAssumption DEF Nodes, NIL
  <2>7. p = Append(Path(h.tree, q), Side(h.tree, LeafOf(h, s))) /\ Path(h.tree, q) \in Seq(Bits)
    BY <1>1, <2>6, ShapeUpward, PathOf, PathType DEF p
  <2>8. Side(h.tree, LeafOf(h, s)) \in Bits
    BY DEF Side, Bits
  <2> HIDE DEF q
  <2>9. Len(p) = Len(Path(h.tree, q)) + 1 /\ Len(Path(h.tree, q)) \in Nat
    BY <2>7, <2>8, AppendProperties
  <2> QED BY <1>1, <1>2, <1>4, <2>9 DEF p
<1> QED BY <1>3, <1>4

\* decode reads a symbol out of bits that begin with its code, and nothing out
\* of bits that end before the code does.
LEMMA DecodeReads ==
  ASSUME NEW h, Shape(h), NEW s \in Symbols, NEW b \in Seq(Bits), Agree(b, CodeOf(h, s))
  PROVE  decode(h, b) = IF Len(CodeOf(h, s)) <= Len(b)
                        THEN [symbol |-> s, next |-> update_tree(h, s), used |-> Len(CodeOf(h, s))]
                        ELSE [symbol |-> NIL, next |-> h, used |-> Len(b)]
<1> DEFINE t == h.tree
           n == LeafOf(h, s)
           p == Path(t, n)
           l == Len(p)
           code == CodeOf(h, s)
           at == Descend(t, b)
           leaves == {i \in 0 .. Len(b) : is_leaf(t[at[i]])}
           W == log_alphabet_size + 1
           short == [symbol |-> NIL, next |-> h, used |-> Len(b)]
           done(a, used) == [symbol |-> a, next |-> update_tree(h, a), used |-> used]
<1>1. n \in 0 .. h.next_free_slot - 1 /\ p \in Seq(Bits) /\ t[n].symbol = IF Seen(h, s) THEN s ELSE NYT
  BY LeafFound
<1>2. /\ code \in Seq(Bits)
      /\ Seen(h, s) => code = p
      /\ ~ Seen(h, s) => code = p \o Literal(s)
  BY CodeIs
<1>3. decode(h, b) =
        IF leaves = {} THEN short
        ELSE IF t[at[Min(leaves)]].symbol # NYT THEN done(t[at[Min(leaves)]].symbol, Min(leaves))
        ELSE IF Len(b) < Min(leaves) + W THEN short
        ELSE done(Number(SubSeq(b, Min(leaves) + 1, Min(leaves) + W)), Min(leaves) + W)
  BY DEF decode, decode_with
<1>4. NYT # Inner /\ NYT \notin Symbols /\ Inner \notin Symbols
  BY AlphabetAssumption DEF NYT, Inner, Symbols
<1>5. is_leaf(t[n])
  <2>1. Branches(t, h.next_free_slot) /\ h.next_free_slot \in Nat
    BY CoderFields, AlphabetAssumption DEF Shape
  <2> HIDE DEF t, n
  <2> QED BY <1>1, <1>4, <2>1, LeafIs
<1>6. l \in Nat /\ Len(b) \in Nat /\ W \in Nat
  BY <1>1, LogIs, AlphabetAssumption
<1>7. Literal(s) \in Seq(Bits) /\ Len(Literal(s)) = W /\ Number(Literal(s)) = s
  BY NumberLiteral
<1>8. Agree(b, code)
  OBVIOUS
<1> HIDE DEF p, code, t, n, W
<1>9. /\ ~ Seen(h, s) => /\ Len(code) = l + W /\ \A j \in 1 .. l : code[j] = p[j]
                         /\ \A j \in 1 .. W : code[l + j] = Literal(s)[j]
      /\ Seen(h, s) => Len(code) = l /\ code = p
  <2>1. ASSUME ~ Seen(h, s)
        PROVE  /\ Len(code) = l + W /\ \A j \in 1 .. l : code[j] = p[j]
               /\ \A j \in 1 .. W : code[l + j] = Literal(s)[j]
    <3>1. code = p \o Literal(s)
      BY <1>2, <2>1
    <3>2. Len(p \o Literal(s)) = Len(p) + Len(Literal(s))
      BY <1>1, <1>7, ConcatProperties
    <3>3. \A i \in 1 .. Len(p) + Len(Literal(s)) :
            (p \o Literal(s))[i] = IF i <= Len(p) THEN p[i] ELSE Literal(s)[i - Len(p)]
      BY <1>1, <1>7, ConcatProperties
    <3>4. \A j \in 1 .. l : j \in 1 .. l + W /\ j <= l
      BY <1>6
    <3>5. \A j \in 1 .. W : l + j \in 1 .. l + W /\ ~ (l + j <= l) /\ (l + j) - l = j
      BY <1>6
    <3> QED BY <1>7, <3>1, <3>2, <3>3, <3>4, <3>5
  <2> QED BY <1>2, <2>1
<1>10. Agree(b, p)
  <2> SUFFICES ASSUME NEW j \in 1 .. Len(p), j <= Len(b) PROVE b[j] = p[j]
    BY DEF Agree
  <2>1. j \in 1 .. Len(code)
    BY <1>6, <1>9
  <2> QED BY <1>8, <1>9, <2>1 DEF Agree
<1>11. /\ \A i \in 0 .. Len(b) : i < l => ~ is_leaf(t[at[i]])
       /\ l <= Len(b) => at[l] = n
  BY <1>1, <1>10, Leads DEF p, t
<1> HIDE DEF l, at
<1>12. CASE Len(b) < l
  <2>1. leaves = {}
    <3>1. \A i \in 0 .. Len(b) : i < l
      BY <1>6, <1>12
    <3> QED BY <1>11, <3>1
  <2>2. ~ (Len(code) <= Len(b))
    BY <1>6, <1>9, <1>12
  <2>3. decode(h, b) = short
    BY <1>3, <2>1
  <2> QED BY <2>2, <2>3 DEF code
<1>13. CASE l <= Len(b)
  <2>1. l \in leaves
    BY <1>5, <1>6, <1>11, <1>13
  <2>2. \A i \in leaves : l <= i /\ i \in Nat
    BY <1>6, <1>11
  <2>3. Min(leaves) = l
    <3>1. leaves \in SUBSET Nat
      BY <2>2
    <3> HIDE DEF leaves
    <3>2. Min(leaves) \in leaves /\ \A i \in leaves : Min(leaves) <= i
      BY <2>1, <3>1, MinOfNats
    <3>3. Min(leaves) <= l /\ l <= Min(leaves) /\ Min(leaves) \in Nat
      BY <2>1, <2>2, <3>2
    <3> QED BY <1>6, <3>3
  <2>4. at[Min(leaves)] = n
    BY <1>11, <1>13, <2>3
  <2> HIDE DEF leaves, short, done
  <2>5. leaves # {}
    BY <2>1
  <2>6. CASE Seen(h, s)
    <3>1. t[n].symbol = s /\ s # NYT /\ Len(code) = l
      BY <1>1, <1>4, <1>9, <2>6
    <3>2. decode(h, b) = done(s, l)
      BY <1>3, <2>3, <2>4, <2>5, <3>1
    <3> QED BY <1>13, <3>1, <3>2 DEF done, code
  <2>7. CASE ~ Seen(h, s)
    <3>1. t[n].symbol = NYT /\ Len(code) = l + W
      BY <1>1, <1>9, <2>7
    <3>2. decode(h, b) = IF Len(b) < l + W THEN short ELSE done(Number(SubSeq(b, l + 1, l + W)), l + W)
      BY <1>3, <2>3, <2>4, <2>5, <3>1
    <3>3. CASE Len(b) < l + W
      <4>1. ~ (Len(code) <= Len(b))
        BY <1>6, <3>1, <3>3
      <4> QED BY <3>2, <3>3, <4>1 DEF code, short
    <3>4. CASE l + W <= Len(b)
      <4> DEFINE c == SubSeq(b, l + 1, l + W)
      <4>1. c \in Seq(Bits) /\ Len(c) = W /\ \A j \in 1 .. W : c[j] = b[l + j]
        <5>1. /\ l + 1 \in Int /\ l + W \in Int /\ l + 1 >= 1 /\ l + W <= Len(b)
              /\ (l + W) - (l + 1) + 1 = W /\ \A j \in 1 .. W : (l + 1) + j - 1 = l + j
              /\ l + 1 \in 1 .. Len(b) + 1 /\ l + W \in l .. Len(b) /\ (l + 1) - 1 = l
          BY <1>6, <3>4
        <5>2. c \in Seq(Bits)
          <6>1. \A i \in l + 1 .. l + W : i \in 1 .. Len(b)
            BY <1>6, <3>4
          <6> QED BY <1>6, <6>1
        <5>3. Len(c) = W /\ \A j \in 1 .. W : c[j] = b[(l + 1) + j - 1]
          BY <1>6, <3>4
        <5> HIDE DEF c
        <5> QED BY <5>1, <5>2, <5>3
      <4>2. ASSUME NEW j \in 1 .. W PROVE b[l + j] = Literal(s)[j]
        <5>1. l + j \in 1 .. Len(code) /\ l + j <= Len(b)
          BY <1>6, <3>1, <3>4
        <5>2. b[l + j] = code[l + j]
          BY <1>8, <5>1 DEF Agree
        <5> QED BY <1>9, <2>7, <5>2
      <4> HIDE DEF c
      <4>3. c = Literal(s)
        <5>1. \A j \in 1 .. W : c[j] = Literal(s)[j]
          BY <4>1, <4>2
        <5> QED BY <1>7, <4>1, <5>1
      <4>4. Number(c) = s
        BY <1>7, <4>3
      <4>5. decode(h, b) = done(s, l + W)
        <5>1. ~ (Len(b) < l + W)
          BY <1>6, <3>4
        <5> QED BY <3>2, <4>4, <5>1 DEF c
      <4>6. Len(code) <= Len(b) /\ Len(code) = l + W
        BY <3>1, <3>4
      <4> QED BY <4>5, <4>6 DEF done, code
    <3>5. Len(b) < l + W \/ l + W <= Len(b)
      BY <1>6
    <3> QED BY <3>3, <3>4, <3>5
  <2> QED BY <2>6, <2>7
<1>14. Len(b) < l \/ l <= Len(b)
  BY <1>6
<1> QED BY <1>12, <1>13, <1>14

-------------------------------------------------------------------------------
(* The two coders. *)

Prefix(b, c) == Len(b) <= Len(c) /\ \A j \in 1 .. Len(b) : b[j] = c[j]

\* The coders that the writer was between the pending symbols, and the bits that
\* were to be read there.
Trail(t, r, P) ==
  /\ t \in [1 .. Len(P) + 1 -> Coder] /\ r \in [1 .. Len(P) + 1 -> Seq(Bits)]
  /\ \A p \in 1 .. Len(P) + 1 : CoderInv(t[p])
  /\ \A p \in 1 .. Len(P) : /\ t[p + 1] = encode(t[p], P[p]).next
                            /\ r[p] = CodeOf(t[p], P[p]) \o r[p + 1]

\* The decoder is at the beginning of such a trail, and the bits begin there.
\* Nothing follows the last symbol but what fills up the last byte of an archive
\* that is complete; that one ends with the end-of-file symbol.
Trails(t, r) ==
  /\ Trail(t, r, pending) /\ Same(dec, t[1])
  /\ Prefix(bits, r[1]) /\ (archive # "cut" => bits = r[1])
  /\ archive = "open" => t[Len(pending) + 1] = enc
  /\ archive # "complete" => r[Len(pending) + 1] = <<>>
  /\ archive = "complete" => Len(pending) > 0 /\ pending[Len(pending)] = eof_symbol

HuffmanInv ==
  /\ CoderInv(enc) /\ CoderInv(dec)
  /\ bits \in Seq(Bits) /\ pending \in Seq(Symbols) /\ archive \in {"open", "complete", "cut"}
  /\ eof \in BOOLEAN
  /\ ~ eof => \E t, r : Trails(t, r)

\* What is left of bits that began with c.
LEMMA RestOfBits ==
  ASSUME NEW b \in Seq(Bits), NEW c \in Seq(Bits), NEW d \in Seq(Bits), Prefix(b, c \o d)
  PROVE  /\ Agree(b, c)
         /\ Len(c) <= Len(b) =>
              /\ SubSeq(b, Len(c) + 1, Len(b)) \in Seq(Bits)
              /\ Prefix(SubSeq(b, Len(c) + 1, Len(b)), d)
              /\ b = c \o d => SubSeq(b, Len(c) + 1, Len(b)) = d
<1> DEFINE k == Len(c)
           m == Len(b)
           n == Len(d)
           e == c \o d
           x == SubSeq(b, k + 1, m)
<1>1. k \in Nat /\ m \in Nat /\ n \in Nat
  OBVIOUS
<1>2. Len(e) = k + n /\ \A i \in 1 .. k + n : e[i] = IF i <= k THEN c[i] ELSE d[i - k]
  BY ConcatProperties
<1>3. m <= k + n /\ \A j \in 1 .. m : b[j] = e[j]
  BY <1>2 DEF Prefix
<1> HIDE DEF e
<1>4. Agree(b, c)
  <2> SUFFICES ASSUME NEW j \in 1 .. k, j <= m PROVE b[j] = c[j]
    BY DEF Agree
  <2>1. j \in 1 .. m /\ j \in 1 .. k + n /\ j <= k
    BY <1>1
  <2> HIDE DEF k, m, n
  <2> QED BY <1>2, <1>3, <2>1
<1>5. ASSUME k <= m
      PROVE  x \in Seq(Bits) /\ Prefix(x, d) /\ (b = e => x = d)
  <2>1. x \in Seq(Bits)
    <3>1. \A i \in k + 1 .. m : i \in 1 .. Len(b)
      BY <1>1
    <3> QED BY <3>1
  <2>2. Len(x) = m - k /\ \A j \in 1 .. m - k : x[j] = b[k + j]
    <3>1. Len(x) = m - k /\ \A j \in 1 .. m - k : x[j] = b[(k + 1) + j - 1]
      BY <1>1, <1>5
    <3>2. \A j \in 1 .. m - k : (k + 1) + j - 1 = k + j
      BY <1>1
    <3> HIDE DEF x, k, m
    <3> QED BY <3>1, <3>2
  <2> HIDE DEF x, k, m, n
  <2>3. ASSUME NEW j \in 1 .. m - k PROVE x[j] = d[j]
    <3>1. k + j \in 1 .. m /\ k + j \in 1 .. k + n /\ ~ (k + j <= k) /\ (k + j) - k = j
      BY <1>1, <1>3
    <3> QED BY <1>2, <1>3, <2>2, <3>1
  <2>4. Prefix(x, d)
    <3>1. m - k <= n
      BY <1>1, <1>3
    <3> QED BY <2>2, <2>3, <3>1 DEF Prefix, n
  <2>5. ASSUME b = e PROVE x = d
    <3>1. m = k + n
      BY <1>2, <2>5 DEF m
    <3>2. Len(x) = Len(d) /\ m - k = n
      BY <1>1, <2>2, <3>1 DEF n
    <3>3. \A j \in 1 .. Len(x) : x[j] = d[j]
      BY <2>2, <2>3
    <3> QED BY <2>1, <3>2, <3>3
  <2> QED BY <2>1, <2>4, <2>5
<1> QED BY <1>4, <1>5 DEF e

\* The trail u, q is t, r with a symbol more, after which z remains.
Longer(t, r, P, h, s, z, u, q) ==
  /\ Trail(u, q, Append(P, s)) /\ u[1] = t[1] /\ q[1] = r[1] \o (CodeOf(h, s) \o z)
  /\ u[Len(P) + 2] = encode(h, s).next /\ q[Len(P) + 2] = z

\* A symbol more is written, and what fills up the archive after the last one.
LEMMA TrailGrows ==
  ASSUME NEW P \in Seq(Symbols), NEW t, NEW r, Trail(t, r, P), r[Len(P) + 1] = <<>>,
         NEW h, h = t[Len(P) + 1], NEW s \in Symbols, NEW z \in Seq(Bits)
  PROVE  \E u, q : Longer(t, r, P, h, s, z, u, q)
<1> DEFINE L == Len(P)
           Q == Append(P, s)
           n == encode(h, s).next
           D == CodeOf(h, s) \o z
           u == [p \in 1 .. L + 2 |-> IF p <= L + 1 THEN t[p] ELSE n]
           q == [p \in 1 .. L + 2 |-> IF p <= L + 1 THEN r[p] \o D ELSE z]
<1>1. L \in Nat /\ Len(Q) = L + 1 /\ Q[L + 1] = s /\ \A p \in 1 .. L : Q[p] = P[p]
  BY AppendProperties
<1>2. /\ L + 1 \in 1 .. L + 1 /\ 1 \in 1 .. L + 1 /\ L + 2 = (L + 1) + 1
      /\ \A p \in 1 .. L + 2 : p \in 1 .. L + 1 \/ p = L + 2
      /\ \A p \in 1 .. L + 1 : p \in 1 .. L + 2 /\ p <= L + 1
      /\ L + 2 \in 1 .. L + 2 /\ ~ (L + 2 <= L + 1)
      /\ \A p \in 1 .. L : p \in 1 .. L + 1 /\ p + 1 \in 1 .. L + 1
      /\ \A p \in 1 .. L + 1 : p \in 1 .. L \/ p = L + 1
  BY <1>1
<1>3. /\ t \in [1 .. L + 1 -> Coder] /\ r \in [1 .. L + 1 -> Seq(Bits)]
      /\ \A p \in 1 .. L + 1 : CoderInv(t[p])
      /\ \A p \in 1 .. L : t[p + 1] = encode(t[p], P[p]).next /\ r[p] = CodeOf(t[p], P[p]) \o r[p + 1]
  BY DEF Trail
<1>4. CoderInv(h) /\ CoderInv(n) /\ n \in Coder
  <2>1. CoderInv(h)
    BY <1>2, <1>3
  <2>2. CoderInv(n)
    BY <2>1, EncodeKeeps
  <2> HIDE DEF n
  <2> QED BY <2>1, <2>2 DEF CoderInv, OnWay, Shape
<1>5. CodeOf(h, s) \in Seq(Bits) /\ D \in Seq(Bits)
  <2>1. CodeOf(h, s) \in Seq(Bits)
    BY <1>4, CodeIs DEF CoderInv, OnWay
  <2> QED BY <2>1, ConcatProperties
<1> HIDE DEF L, Q, n, D
<1>6. /\ \A p \in 1 .. L + 1 : u[p] = t[p] /\ q[p] = r[p] \o D
      /\ u[L + 2] = n /\ q[L + 2] = z
  BY <1>2
<1>7. u \in [1 .. L + 2 -> Coder]
  BY <1>2, <1>3, <1>4
<1>8. q \in [1 .. L + 2 -> Seq(Bits)]
  <2>1. \A p \in 1 .. L + 2 : (IF p <= L + 1 THEN r[p] \o D ELSE z) \in Seq(Bits)
    <3> TAKE p \in 1 .. L + 2
    <3>1. p \in 1 .. L + 1 => r[p] \o D \in Seq(Bits)
      BY <1>3, <1>5, ConcatProperties
    <3> QED BY <1>2, <3>1
  <2> QED BY <2>1
<1> HIDE DEF u, q
<1>9. \A p \in 1 .. L + 2 : CoderInv(u[p])
  BY <1>2, <1>3, <1>4, <1>6
<1>10. ASSUME NEW p \in 1 .. L + 1
       PROVE  u[p + 1] = encode(u[p], Q[p]).next /\ q[p] = CodeOf(u[p], Q[p]) \o q[p + 1]
  <2>1. CASE p \in 1 .. L
    <3>1. u[p] = t[p] /\ u[p + 1] = t[p + 1] /\ q[p] = r[p] \o D /\ q[p + 1] = r[p + 1] \o D /\ Q[p] = P[p]
      BY <1>1, <1>2, <1>6, <2>1
    <3>2. t[p + 1] = encode(t[p], P[p]).next /\ r[p] = CodeOf(t[p], P[p]) \o r[p + 1]
      BY <1>3, <2>1
    <3>3. CodeOf(t[p], P[p]) \in Seq(Bits) /\ r[p + 1] \in Seq(Bits)
      <4>1. CoderInv(t[p]) /\ r[p + 1] \in Seq(Bits)
        BY <1>2, <1>3, <2>1
      <4>2. P[p] \in Symbols
        BY <2>1 DEF L
      <4> QED BY <4>1, <4>2, CodeIs DEF CoderInv, OnWay
    <3>4. (CodeOf(t[p], P[p]) \o r[p + 1]) \o D = CodeOf(t[p], P[p]) \o (r[p + 1] \o D)
      <4>1. \A a, b, c \in Seq(Bits) : (a \o b) \o c = a \o (b \o c)
        BY ConcatAssociative
      <4> HIDE DEF D
      <4> QED BY <1>5, <3>3, <4>1
    <3> QED BY <3>1, <3>2, <3>4
  <2>2. CASE p = L + 1
    <3>1. u[p] = h /\ q[p] = r[L + 1] \o D /\ Q[p] = s /\ u[p + 1] = n /\ q[p + 1] = z
      BY <1>1, <1>2, <1>6, <2>2 DEF L
    <3>2. r[L + 1] \o D = D
      <4>1. <<>> \o D = D
        BY <1>5, ConcatEmptySeq
      <4> QED BY <4>1 DEF L
    <3> QED BY <3>1, <3>2 DEF n, D
  <2> QED BY <1>2, <2>1, <2>2
<1>11. Trail(u, q, Q)
  BY <1>1, <1>2, <1>7, <1>8, <1>9, <1>10 DEF Trail
<1>12. u[1] = t[1] /\ q[1] = r[1] \o D
  BY <1>1, <1>2, <1>6
<1>13. Longer(t, r, P, h, s, z, u, q)
  BY <1>6, <1>11, <1>12 DEF Longer, Q, D, n, L
<1> QED BY <1>13

\* A symbol is read.
LEMMA TrailShrinks ==
  ASSUME NEW P \in Seq(Symbols), P # <<>>, NEW t, NEW r, Trail(t, r, P)
  PROVE  \E u, q : /\ Trail(u, q, Tail(P))
                   /\ u[1] = t[2] /\ u[Len(Tail(P)) + 1] = t[Len(P) + 1]
                   /\ q[1] = r[2] /\ q[Len(Tail(P)) + 1] = r[Len(P) + 1]
<1> DEFINE L == Len(P)
           Q == Tail(P)
           u == [p \in 1 .. L |-> t[p + 1]]
           q == [p \in 1 .. L |-> r[p + 1]]
<1>1. L \in Nat /\ L >= 1 /\ Len(Q) = L - 1 /\ \A p \in 1 .. L - 1 : Q[p] = P[p + 1]
  BY EmptySeq, HeadTailProperties
<1>2. /\ t \in [1 .. L + 1 -> Coder] /\ r \in [1 .. L + 1 -> Seq(Bits)]
      /\ \A p \in 1 .. L + 1 : CoderInv(t[p])
      /\ \A p \in 1 .. L : t[p + 1] = encode(t[p], P[p]).next /\ r[p] = CodeOf(t[p], P[p]) \o r[p + 1]
  BY DEF Trail
<1> HIDE DEF L, Q
<1>3. /\ \A p \in 1 .. L : p + 1 \in 1 .. L + 1
      /\ \A p \in 1 .. L - 1 : p \in 1 .. L /\ p + 1 \in 1 .. L
      /\ (L - 1) + 1 = L /\ 1 \in 1 .. L /\ L \in 1 .. L /\ 1 + 1 = 2
  BY <1>1
<1>4. u \in [1 .. L -> Coder] /\ q \in [1 .. L -> Seq(Bits)]
  BY <1>2, <1>3
<1>5. \A p \in 1 .. L : u[p] = t[p + 1] /\ q[p] = r[p + 1]
  OBVIOUS
<1> HIDE DEF u, q
<1>6. \A p \in 1 .. L - 1 : u[p + 1] = encode(u[p], Q[p]).next /\ q[p] = CodeOf(u[p], Q[p]) \o q[p + 1]
  <2> TAKE p \in 1 .. L - 1
  <2>1. Q[p] = P[p + 1] /\ u[p] = t[p + 1] /\ q[p] = r[p + 1] /\ u[p + 1] = t[(p + 1) + 1] /\ q[p + 1] = r[(p + 1) + 1]
    BY <1>1, <1>3, <1>5
  <2>2. t[(p + 1) + 1] = encode(t[p + 1], P[p + 1]).next /\ r[p + 1] = CodeOf(t[p + 1], P[p + 1]) \o r[(p + 1) + 1]
    BY <1>2, <1>3
  <2> QED BY <2>1, <2>2
<1>7. Trail(u, q, Q)
  <2>1. \A p \in 1 .. L : CoderInv(u[p])
    BY <1>2, <1>3, <1>5
  <2>2. Len(Q) + 1 = L /\ Len(Q) = L - 1
    BY <1>1
  <2> QED BY <1>4, <1>6, <2>1, <2>2 DEF Trail
<1>8. u[1] = t[2] /\ q[1] = r[2] /\ u[Len(Q) + 1] = t[L + 1] /\ q[Len(Q) + 1] = r[L + 1]
  BY <1>1, <1>3, <1>5
<1> QED BY <1>7, <1>8 DEF Q, L

\* Coders with the same tree write the same.
LEMMA SameCode ==
  ASSUME NEW g, NEW h, Same(g, h), NEW s \in Symbols
  PROVE  CodeOf(g, s) = CodeOf(h, s)
BY DEF Same, CodeOf, Seen

\* A reader with the writer's tree gets a symbol out of bits that begin with what
\* was written for it, and then has the writer's tree again; from bits that end
\* before, it gets nothing.
LEMMA SymbolPasses ==
  ASSUME NEW e, CoderInv(e), NEW d, CoderInv(d), Same(d, e), NEW s \in Symbols
  PROVE  /\ CoderInv(encode(e, s).next)
         /\ encode(e, s).bits \in Seq(Bits) /\ Len(encode(e, s).bits) >= 1
         /\ \A b \in Seq(Bits) : Agree(b, encode(e, s).bits) =>
              IF Len(encode(e, s).bits) <= Len(b)
              THEN /\ decode(d, b).symbol = s /\ decode(d, b).used = Len(encode(e, s).bits)
                   /\ CoderInv(decode(d, b).next) /\ Same(decode(d, b).next, encode(e, s).next)
              ELSE decode(d, b).symbol = NIL
<1>1. /\ CoderInv(encode(e, s).next) /\ encode(e, s).bits = CodeOf(e, s)
      /\ \E g : CoderInv(g) /\ Same(g, e) /\ encode(e, s).next = update_tree(g, s)
  BY EncodeKeeps
<1>2. CodeOf(e, s) \in Seq(Bits) /\ Len(CodeOf(e, s)) >= 1
  BY CodeIs DEF CoderInv, OnWay
<1>3. CodeOf(d, s) = CodeOf(e, s)
  BY SameCode
<1>4. CoderInv(update_tree(d, s)) /\ Same(update_tree(d, s), encode(e, s).next)
  <2>1. PICK g : CoderInv(g) /\ Same(g, e) /\ encode(e, s).next = update_tree(g, s)
    BY <1>1
  <2>2. Same(d, g)
    BY <2>1 DEF Same
  <2> QED BY <2>1, <2>2, UpdateSame, UpdateKeeps
<1>5. ASSUME NEW b \in Seq(Bits), Agree(b, CodeOf(e, s))
      PROVE  decode(d, b) = IF Len(CodeOf(e, s)) <= Len(b)
                            THEN [symbol |-> s, next |-> update_tree(d, s), used |-> Len(CodeOf(e, s))]
                            ELSE [symbol |-> NIL, next |-> d, used |-> Len(b)]
  <2>1. Shape(d)
    BY DEF CoderInv, OnWay
  <2> QED BY <1>3, <1>5, <2>1, DecodeReads
<1> QED BY <1>1, <1>2, <1>4, <1>5

\* What the decoder makes of the bits there are: nothing if no symbol is
\* pending, and otherwise the oldest one as soon as its code is there.
LEMMA DecodeNow ==
  ASSUME HuffmanInv, NEW t, NEW r, Trails(t, r)
  PROVE  /\ pending = <<>> => decode(dec, bits).symbol = NIL /\ decode(dec, bits).next = dec
         /\ pending # <<>> =>
              decode(dec, bits) =
                IF Len(CodeOf(t[1], pending[1])) <= Len(bits)
                THEN [symbol |-> pending[1], next |-> update_tree(dec, pending[1]),
                      used |-> Len(CodeOf(t[1], pending[1]))]
                ELSE [symbol |-> NIL, next |-> dec, used |-> Len(bits)]
<1>1. Shape(dec) /\ bits \in Seq(Bits) /\ pending \in Seq(Symbols)
  BY DEF HuffmanInv, CoderInv, OnWay
<1>2. Trail(t, r, pending) /\ Same(dec, t[1]) /\ Prefix(bits, r[1])
  BY DEF Trails
<1>3. Len(pending) \in Nat /\ r \in [1 .. Len(pending) + 1 -> Seq(Bits)]
  BY <1>1, <1>2 DEF Trail
<1>4. ASSUME pending = <<>>
      PROVE  decode(dec, bits).symbol = NIL /\ decode(dec, bits).next = dec
  <2>1. Len(pending) = 0
    BY <1>4
  <2>2. r[1] = <<>>
    BY <2>1 DEF Trails
  <2>3. Len(bits) = 0
    <3>1. Len(bits) <= 0 /\ Len(bits) \in Nat
      BY <1>1, <1>2, <2>2 DEF Prefix
    <3> QED BY <3>1
  <2>4. 0 \in Symbols
    BY AlphabetAssumption DEF Symbols
  <2> DEFINE c == CodeOf(dec, 0)
  <2>5. c \in Seq(Bits) /\ Len(c) >= 1 /\ Len(c) \in Nat
    BY <1>1, <2>4, CodeIs
  <2>6. Agree(bits, c)
    BY <2>3, <2>5 DEF Agree
  <2>7. ~ (Len(c) <= Len(bits))
    BY <2>3, <2>5
  <2>8. decode(dec, bits) = [symbol |-> NIL, next |-> dec, used |-> Len(bits)]
    BY <1>1, <2>4, <2>6, <2>7, DecodeReads
  <2> QED BY <2>8
<1>5. ASSUME pending # <<>>
      PROVE  decode(dec, bits) =
                IF Len(CodeOf(t[1], pending[1])) <= Len(bits)
                THEN [symbol |-> pending[1], next |-> update_tree(dec, pending[1]),
                      used |-> Len(CodeOf(t[1], pending[1]))]
                ELSE [symbol |-> NIL, next |-> dec, used |-> Len(bits)]
  <2> DEFINE a == pending[1]
             c == CodeOf(t[1], a)
  <2>1. 1 \in 1 .. Len(pending) /\ 1 + 1 \in 1 .. Len(pending) + 1
    BY <1>1, <1>5, EmptySeq
  <2>2. a \in Symbols /\ r[1] = c \o r[2] /\ r[2] \in Seq(Bits)
    <3>1. 1 + 1 = 2
      OBVIOUS
    <3>2. a \in Symbols
      BY <1>1, <2>1
    <3> QED BY <1>2, <1>3, <2>1, <3>1, <3>2 DEF Trail
  <2>3. CodeOf(dec, a) = c
    BY <1>2, <2>2, SameCode
  <2>4. c \in Seq(Bits)
    <3>1. CodeOf(dec, a) \in Seq(Bits)
      BY <1>1, <2>2, CodeIs
    <3> QED BY <2>3, <3>1
  <2> HIDE DEF a, c
  <2>5. Agree(bits, CodeOf(dec, a))
    BY <1>1, <1>2, <2>2, <2>3, <2>4, RestOfBits
  <2>6. decode(dec, bits) = IF Len(c) <= Len(bits)
                            THEN [symbol |-> a, next |-> update_tree(dec, a), used |-> Len(c)]
                            ELSE [symbol |-> NIL, next |-> dec, used |-> Len(bits)]
    BY <1>1, <2>2, <2>3, <2>5, DecodeReads
  <2> QED BY <2>6 DEF a, c
<1> QED BY <1>4, <1>5

\* Both coders begin with the same tree.
LEMMA HuffmanInit == Init => HuffmanInv
<1> SUFFICES ASSUME Init PROVE HuffmanInv
  OBVIOUS
<1> DEFINE t == [p \in 1 .. 1 |-> NewCoder]
           r == [p \in 1 .. 1 |-> <<>>]
<1>1. /\ enc = NewCoder /\ dec = NewCoder /\ bits = <<>> /\ pending = <<>> /\ archive = "open" /\ eof = FALSE
  BY DEF Init
<1>2. CoderInv(NewCoder) /\ NewCoder \in Coder
  BY NewCoderInv DEF CoderInv, OnWay, Shape
<1>3. Len(pending) = 0 /\ bits \in Seq(Bits) /\ pending \in Seq(Symbols)
  BY <1>1, EmptySeq
<1>4. Len(pending) + 1 = 1 /\ 1 .. Len(pending) = {}
  BY <1>3
<1>5. t \in [1 .. 1 -> Coder] /\ r \in [1 .. 1 -> Seq(Bits)] /\ t[1] = NewCoder /\ r[1] = <<>>
  BY <1>2, EmptySeq
<1> HIDE DEF t, r
<1>6. \A p \in 1 .. 1 : p = 1
  OBVIOUS
<1>7. Trail(t, r, pending)
  BY <1>2, <1>4, <1>5, <1>6 DEF Trail
<1>8. Trails(t, r)
  BY <1>1, <1>3, <1>4, <1>5, <1>7 DEF Trails, Same, Prefix
<1> QED BY <1>1, <1>2, <1>3, <1>8 DEF HuffmanInv

\* Writing a symbol, the last one or another.
LEMMA WriteKeeps ==
  ASSUME HuffmanInv, archive = "open", NEW s \in Symbols, NEW z \in Seq(Bits),
         enc' = encode(enc, s).next, bits' = bits \o (CodeOf(enc, s) \o z),
         pending' = Append(pending, s), dec' = dec, eof' = eof,
         (archive' = "open" /\ z = <<>>) \/ (archive' = "complete" /\ s = eof_symbol)
  PROVE  HuffmanInv'
<1>1. /\ CoderInv(enc) /\ CoderInv(dec) /\ bits \in Seq(Bits) /\ pending \in Seq(Symbols) /\ eof \in BOOLEAN
  BY DEF HuffmanInv
<1>2. CoderInv(enc') /\ CoderInv(dec')
  BY <1>1, EncodeKeeps
<1>3. pending' \in Seq(Symbols) /\ Len(pending') = Len(pending) + 1 /\ pending'[Len(pending) + 1] = s
      /\ Len(pending) \in Nat
  BY <1>1, AppendProperties
<1>4. bits' \in Seq(Bits)
  <2>1. CodeOf(enc, s) \in Seq(Bits)
    BY <1>1, CodeIs DEF CoderInv, OnWay
  <2>2. CodeOf(enc, s) \o z \in Seq(Bits)
    BY <2>1, ConcatProperties
  <2> QED BY <1>1, <2>2, ConcatProperties
<1>5. ASSUME ~ eof' PROVE (\E t, r : Trails(t, r))'
  <2>1. PICK t, r : Trails(t, r)
    BY <1>5 DEF HuffmanInv
  <2>2. /\ Trail(t, r, pending) /\ Same(dec, t[1]) /\ bits = r[1]
        /\ t[Len(pending) + 1] = enc /\ r[Len(pending) + 1] = <<>>
    BY <2>1 DEF Trails
  <2>3. PICK u, q : Longer(t, r, pending, enc, s, z, u, q)
    BY <1>1, <2>2, TrailGrows
  <2>4. /\ Trail(u, q, pending') /\ Same(dec', u[1]) /\ u[Len(pending') + 1] = enc'
        /\ q[1] = bits' /\ q[Len(pending') + 1] = z
    <3>1. Len(pending') + 1 = Len(pending) + 2
      BY <1>3
    <3> QED BY <2>2, <2>3, <3>1 DEF Longer
  <2>5. Prefix(bits', q[1])
    <3>1. Len(bits') \in Nat
      BY <1>4
    <3> QED BY <2>4, <3>1 DEF Prefix
  <2>6. archive' = "complete" => Len(pending') > 0 /\ pending'[Len(pending')] = eof_symbol
    BY <1>3
  <2>7. Trails(u, q)'
    BY <2>4, <2>5, <2>6 DEF Trails
  <2> QED BY <2>7
<1> QED BY <1>1, <1>2, <1>3, <1>4, <1>5 DEF HuffmanInv

\* What a round of decode_array does, by what it reads.
LEMMA DecodeKeeps ==
  ASSUME HuffmanInv, Decode
  PROVE  /\ HuffmanInv'
         /\ dec' # dec => /\ pending # <<>>
                          /\ IF eof' THEN Head(pending) = eof_symbol ELSE output' = Head(pending)
<1> DEFINE done == decode(dec, bits)
<1>1. /\ CoderInv(enc) /\ CoderInv(dec) /\ bits \in Seq(Bits) /\ pending \in Seq(Symbols) /\ eof \in BOOLEAN
      /\ archive \in {"open", "complete", "cut"}
  BY DEF HuffmanInv
<1>2. /\ ~ eof /\ (done.symbol = NIL => archive # "open")
      /\ dec' = done.next /\ bits' = SubSeq(bits, done.used + 1, Len(bits))
      /\ IF done.symbol \in {NIL, eof_symbol}
         THEN eof' = TRUE /\ UNCHANGED <<pending, output>>
         ELSE eof' = FALSE /\ output' = done.symbol /\ pending' = Tail(pending)
      /\ enc' = enc /\ archive' = archive
  BY DEF Decode
<1>3. PICK t, r : Trails(t, r)
  BY <1>2 DEF HuffmanInv
<1> HIDE DEF done
<1>4. /\ Trail(t, r, pending) /\ Same(dec, t[1]) /\ Prefix(bits, r[1]) /\ (archive # "cut" => bits = r[1])
      /\ archive = "open" => t[Len(pending) + 1] = enc
      /\ archive # "complete" => r[Len(pending) + 1] = <<>>
      /\ archive = "complete" => Len(pending) > 0 /\ pending[Len(pending)] = eof_symbol
  BY <1>3 DEF Trails
<1>5. SubSeq(bits, Len(bits) + 1, Len(bits)) = <<>> /\ Len(bits) \in Nat
  <2>1. Len(bits) \in Nat
    BY <1>1
  <2>2. Len(bits) + 1 > Len(bits)
    BY <2>1
  <2> QED BY <1>1, <2>1, <2>2
<1>6. CASE pending = <<>>
  <2>1. done.symbol = NIL /\ done.next = dec
    BY <1>3, <1>6, DecodeNow DEF done
  <2>2. eof' = TRUE /\ pending' = pending /\ dec' = dec
    BY <1>2, <2>1
  <2>3. bits' \in Seq(Bits)
    <3>1. r[1] = <<>> /\ Len(bits) <= 0
      BY <1>4, <1>6 DEF Prefix
    <3>2. bits = <<>>
      BY <1>1, <1>5, <3>1, EmptySeq
    <3>3. SubSeq(bits, done.used + 1, Len(bits)) = <<>>
      BY <3>2
    <3> QED BY <1>2, <3>3, EmptySeq
  <2> QED BY <1>1, <1>2, <2>2, <2>3 DEF HuffmanInv
<1>7. CASE pending # <<>>
  <2> DEFINE s == pending[1]
             c == CodeOf(t[1], s)
  <2>1. done = IF Len(c) <= Len(bits)
               THEN [symbol |-> s, next |-> update_tree(dec, s), used |-> Len(c)]
               ELSE [symbol |-> NIL, next |-> dec, used |-> Len(bits)]
    BY <1>3, <1>7, DecodeNow DEF done
  <2>2. Len(pending) \in Nat /\ Len(pending) >= 1 /\ s \in Symbols /\ Head(pending) = s /\ 1 \in 1 .. Len(pending)
    BY <1>1, <1>7, EmptySeq
  <2>3. r[1] = c \o r[2] /\ t[2] = encode(t[1], s).next /\ r[2] \in Seq(Bits) /\ CoderInv(t[1]) /\ CoderInv(t[2])
    <3>1. 1 + 1 = 2 /\ 1 + 1 \in 1 .. Len(pending) + 1 /\ 1 \in 1 .. Len(pending) + 1
      BY <2>2
    <3> QED BY <1>4, <2>2, <3>1 DEF Trail
  <2>4. c \in Seq(Bits)
    BY <2>2, <2>3, CodeIs DEF CoderInv, OnWay
  <2> HIDE DEF s, c
  <2>5. CASE ~ (Len(c) <= Len(bits))
    <3>1. done.symbol = NIL /\ done.next = dec /\ done.used = Len(bits)
      BY <2>1, <2>5
    <3>2. eof' = TRUE /\ pending' = pending /\ dec' = dec /\ bits' = <<>>
      BY <1>2, <1>5, <3>1
    <3> QED BY <1>1, <1>2, <3>2, EmptySeq DEF HuffmanInv
  <2>6. CASE Len(c) <= Len(bits)
    <3>1. done.symbol = s /\ done.next = update_tree(dec, s) /\ done.used = Len(c)
      BY <2>1, <2>6
    <3>2. CoderInv(dec')
      BY <1>1, <1>2, <2>2, <3>1, UpdateKeeps
    <3>3. /\ bits' \in Seq(Bits) /\ Prefix(bits', r[2])
          /\ archive # "cut" => bits' = r[2]
      <4>1. Prefix(bits, c \o r[2]) /\ (archive # "cut" => bits = c \o r[2])
        BY <1>4, <2>3
      <4> QED BY <1>1, <1>2, <2>3, <2>4, <2>6, <3>1, <4>1, RestOfBits
    <3>4. s # NIL
      BY <2>2, AlphabetAssumption DEF Symbols, NIL
    <3>5. CASE s = eof_symbol
      <4>1. eof' = TRUE /\ pending' = pending
        BY <1>2, <3>1, <3>5
      <4> QED BY <1>1, <1>2, <1>7, <2>2, <3>2, <3>3, <3>5, <4>1 DEF HuffmanInv
    <3>6. CASE s # eof_symbol
      <4>1. eof' = FALSE /\ output' = s /\ pending' = Tail(pending)
        BY <1>2, <3>1, <3>4, <3>6
      <4>2. /\ pending' \in Seq(Symbols) /\ Len(pending') = Len(pending) - 1
            /\ \A p \in 1 .. Len(pending) - 1 : pending'[p] = pending[p + 1]
        BY <1>1, <1>7, <4>1, HeadTailProperties
      <4>3. PICK u, q : /\ Trail(u, q, pending')
                        /\ u[1] = t[2] /\ u[Len(pending') + 1] = t[Len(pending) + 1]
                        /\ q[1] = r[2] /\ q[Len(pending') + 1] = r[Len(pending) + 1]
        BY <1>1, <1>4, <1>7, <4>1, TrailShrinks
      <4>4. Same(dec', t[2])
        <5>1. PICK g : CoderInv(g) /\ Same(g, t[1]) /\ t[2] = update_tree(g, s)
          BY <2>2, <2>3, EncodeKeeps
        <5>2. Same(dec, g)
          BY <1>4, <5>1 DEF Same
        <5>3. Same(update_tree(dec, s), update_tree(g, s))
          BY <1>1, <2>2, <5>1, <5>2, UpdateSame
        <5> QED BY <1>2, <3>1, <5>1, <5>3
      <4>5. archive = "complete" => Len(pending') > 0 /\ pending'[Len(pending')] = eof_symbol
        <5> SUFFICES ASSUME archive = "complete" PROVE Len(pending') > 0 /\ pending'[Len(pending')] = eof_symbol
          OBVIOUS
        <5>1. pending[Len(pending)] = eof_symbol
          BY <1>4
        <5>2. Len(pending) # 1
          BY <3>6, <5>1 DEF s
        <5>3. /\ Len(pending) - 1 \in 1 .. Len(pending) - 1 /\ (Len(pending) - 1) + 1 = Len(pending)
              /\ Len(pending) - 1 > 0
          BY <2>2, <5>2
        <5> QED BY <4>2, <5>1, <5>3
      <4>6. Trails(u, q)'
        BY <1>2, <1>4, <3>3, <4>3, <4>4, <4>5 DEF Trails
      <4>7. HuffmanInv'
        BY <1>1, <1>2, <3>2, <3>3, <4>1, <4>2, <4>6 DEF HuffmanInv
      <4> QED BY <1>7, <2>2, <4>1, <4>7
    <3> QED BY <3>5, <3>6
  <2> QED BY <2>5, <2>6
<1> QED BY <1>6, <1>7

\* Every step keeps the invariant.
LEMMA HuffmanNext == HuffmanInv /\ [Next]_vars => HuffmanInv'
<1> SUFFICES ASSUME HuffmanInv, [Next]_vars PROVE HuffmanInv'
  OBVIOUS
<1>1. /\ CoderInv(enc) /\ CoderInv(dec) /\ bits \in Seq(Bits) /\ pending \in Seq(Symbols) /\ eof \in BOOLEAN
      /\ archive \in {"open", "complete", "cut"}
  BY DEF HuffmanInv
<1>2. ASSUME NEW s \in Symbols PROVE encode(enc, s).bits = CodeOf(enc, s) /\ CodeOf(enc, s) \in Seq(Bits)
  BY <1>1, EncodeKeeps, CodeIs DEF CoderInv, OnWay
<1>3. ASSUME NEW symbol \in Symbols, Encode(symbol) PROVE HuffmanInv'
  <2> DEFINE c == CodeOf(enc, symbol)
  <2>1. /\ archive = "open" /\ enc' = encode(enc, symbol).next /\ bits' = bits \o encode(enc, symbol).bits
        /\ pending' = Append(pending, symbol) /\ dec' = dec /\ archive' = archive /\ eof' = eof
    BY <1>3 DEF Encode, Write
  <2>2. c \o <<>> = c
    <3>1. c \in Seq(Bits)
      BY <1>2
    <3> HIDE DEF c
    <3> QED BY <3>1, ConcatEmptySeq
  <2>3. bits' = bits \o (c \o <<>>)
    BY <1>2, <2>1, <2>2
  <2>4. <<>> \in Seq(Bits)
    BY EmptySeq
  <2> QED BY <2>1, <2>3, <2>4, WriteKeeps
<1>4. ASSUME NEW padding \in Paddings, EncodeEnd(padding) PROVE HuffmanInv'
  <2> DEFINE c == CodeOf(enc, eof_symbol)
             z == [j \in 1 .. padding |-> 0]
  <2>1. /\ archive = "open" /\ archive' = "complete" /\ enc' = encode(enc, eof_symbol).next
        /\ bits' = (bits \o encode(enc, eof_symbol).bits) \o z
        /\ pending' = Append(pending, eof_symbol) /\ dec' = dec /\ eof' = eof
    BY <1>4 DEF EncodeEnd
  <2>2. eof_symbol \in Symbols /\ padding \in Nat
    BY HuffmanAssumption
  <2>3. z \in Seq(Bits)
    <3>1. z \in [1 .. padding -> Bits]
      BY DEF Bits
    <3> HIDE DEF z
    <3> QED BY <2>2, <3>1
  <2>4. encode(enc, eof_symbol).bits = c /\ c \in Seq(Bits)
    BY <1>2, <2>2
  <2> HIDE DEF c, z
  <2>5. (bits \o c) \o z = bits \o (c \o z)
    BY <1>1, <2>3, <2>4, ConcatAssociative
  <2>6. bits' = bits \o (CodeOf(enc, eof_symbol) \o z)
    BY <2>1, <2>4, <2>5 DEF c
  <2> QED BY <2>1, <2>2, <2>3, <2>6, WriteKeeps
<1>5. ASSUME NEW n \in 0 .. Len(bits), Cut(n) PROVE HuffmanInv'
  <2>1. /\ archive = "open" /\ archive' = "cut" /\ bits' = SubSeq(bits, 1, n)
        /\ enc' = enc /\ dec' = dec /\ pending' = pending /\ eof' = eof
    BY <1>5 DEF Cut
  <2>2. Len(bits) \in Nat /\ n \in Nat /\ n <= Len(bits)
    BY <1>1
  <2>3. bits' \in Seq(Bits) /\ Len(bits') = n /\ \A j \in 1 .. n : bits'[j] = bits[j]
    <3>1. \A i \in 1 .. n : i \in 1 .. Len(bits)
      BY <2>2
    <3> QED BY <1>1, <2>1, <2>2, <3>1
  <2>4. ASSUME NEW t, NEW r, Trails(t, r) PROVE Trails(t, r)'
    <3>1. Prefix(bits, r[1])
      BY <2>4 DEF Trails
    <3>2. Prefix(bits', r[1])
      <4>1. \A j \in 1 .. n : j \in 1 .. Len(bits)
        BY <2>2
      <4>2. n <= Len(r[1])
        <5>1. Len(r[1]) \in Nat
          <6>1. 1 \in 1 .. Len(pending) + 1
            BY <1>1
          <6>2. r[1] \in Seq(Bits)
            BY <2>4, <6>1 DEF Trails, Trail
          <6> QED BY <6>2
        <5> QED BY <2>2, <3>1, <5>1 DEF Prefix
      <4> QED BY <2>3, <3>1, <4>1, <4>2 DEF Prefix
    <3> QED BY <2>1, <2>4, <3>2 DEF Trails
  <2>5. ~ eof' => (\E t, r : Trails(t, r))'
    BY <2>1, <2>4 DEF HuffmanInv
  <2> QED BY <1>1, <2>1, <2>3, <2>5 DEF HuffmanInv
<1>6. CASE Decode
  BY <1>6, DecodeKeeps
<1>7. CASE UNCHANGED vars
  BY <1>7 DEF vars, HuffmanInv, Trails
<1> QED BY <1>3, <1>4, <1>5, <1>6, <1>7 DEF Next

\* The invariant holds throughout.
LEMMA HuffmanInvariant == Spec => []HuffmanInv
BY HuffmanInit, HuffmanNext, PTL DEF Spec

-------------------------------------------------------------------------------
(* The theorems. *)

\* A coder's invariant says that its tree is well-formed: the array stays the
\* one binary tree it is read as, whatever slide_and_increment has swapped.
LEMMA WellFormedCoder ==
  ASSUME NEW h, CoderInv(h)
  PROVE  /\ alphabet_size < MAX_ALPHA_SIZE => h.next_free_slot <= MAX_TREE_NODES
         /\ h.tree[0].parent = NIL /\ h.tree[h.nyt_node].symbol = NYT
         /\ \A n \in Used(h) :
              /\ Cardinality(Children(h.tree[n])) = (IF h.tree[n].symbol = Inner THEN 2 ELSE 0)
              /\ \A child \in Children(h.tree[n]) : h.tree[child].parent = n
              /\ n # 0 => n \in Children(h.tree[h.tree[n].parent])
              /\ h.tree[n].symbol = NYT => n = h.nyt_node
              /\ h.tree[n].symbol \in Symbols => h.map_leaf[h.tree[n].symbol] = n
         /\ \A s \in Symbols : Seen(h, s) => h.tree[h.map_leaf[s]].symbol = s
<1> DEFINE t == h.tree
           f == h.next_free_slot
<1>1. /\ Shape(h) /\ t \in [Nodes -> Node] /\ f \in 1 .. 2 * alphabet_size + 1
      /\ Rooted(t, f) /\ Branches(t, f) /\ Labels(h)
  BY CoderFields DEF CoderInv, OnWay, Shape
<1>2. f \in Nat /\ f >= 1 /\ \A n \in 0 .. f - 1 : n \in Nodes /\ n \in Nat /\ n # NIL
  BY <1>1, AlphabetAssumption DEF Nodes, NIL
<1>3. alphabet_size < MAX_ALPHA_SIZE => f <= MAX_TREE_NODES
  <2>1. alphabet_size \in Nat /\ MAX_ALPHA_SIZE \in Nat
    BY AlphabetAssumption, HuffmanAssumption
  <2> HIDE DEF f
  <2> QED BY <1>1, <2>1 DEF MAX_TREE_NODES
<1>4. t[h.nyt_node].symbol = NYT /\ t[0].parent = NIL
  <2>1. f - 1 \in 0 .. f - 1
    BY <1>2
  <2> QED BY <1>1, <2>1 DEF Labels, Rooted
<1> HIDE DEF t, f
<1>5. ASSUME NEW n \in 0 .. f - 1
      PROVE  /\ Cardinality(Children(t[n])) = (IF t[n].symbol = Inner THEN 2 ELSE 0)
             /\ \A child \in Children(t[n]) : t[child].parent = n
             /\ n # 0 => n \in Children(t[t[n].parent])
  <2>1. ASSUME t[n].symbol = Inner PROVE Cardinality(Children(t[n])) = 2
    <3> DEFINE a == t[n].left
               b == t[n].right
    <3>1. a \in n + 1 .. f - 1 /\ b \in n + 1 .. f - 1 /\ a # b /\ t[a].parent = n /\ t[b].parent = n
      BY <1>1, <2>1 DEF Branches
    <3>2. Children(t[n]) = {a, b}
      <4>1. n \in Nat
        BY <1>2
      <4> HIDE DEF a, b
      <4>2. a # NIL /\ b # NIL
        BY <3>1, <4>1 DEF NIL
      <4>3. Children(t[n]) = {a, b} \ {NIL}
        BY DEF Children, a, b
      <4> QED BY <4>2, <4>3
    <3> HIDE DEF a, b
    <3>3. Cardinality({a, b}) = 2
      <4>1. IsFiniteSet({a}) /\ Cardinality({a}) = 1
        BY FS_Singleton
      <4>2. Cardinality({a} \cup {b}) = Cardinality({a}) + 1
        BY <3>1, <4>1, FS_AddElement
      <4>3. {a} \cup {b} = {a, b}
        OBVIOUS
      <4> QED BY <4>1, <4>2, <4>3
    <3> QED BY <3>2, <3>3
  <2>2. ASSUME t[n].symbol # Inner PROVE Cardinality(Children(t[n])) = 0
    <3>1. Children(t[n]) = {}
      BY <1>1, <2>2 DEF Branches, Children
    <3> QED BY <3>1, FS_EmptySet
  <2>3. ASSUME n # 0 PROVE n \in Children(t[t[n].parent])
    <3>1. n \in 1 .. f - 1 /\ n # NIL
      BY <1>2, <2>3
    <3> QED BY <1>1, <3>1 DEF Rooted, Children
  <2>4. \A child \in Children(t[n]) : t[child].parent = n
    BY <1>1 DEF Branches, Children
  <2> QED BY <2>1, <2>2, <2>3, <2>4
<1>6. Used(h) = 0 .. f - 1
  BY DEF Used, f
<1>7. ASSUME NEW n \in 0 .. f - 1
      PROVE  /\ t[n].symbol = NYT => n = h.nyt_node
             /\ t[n].symbol \in Symbols => h.map_leaf[t[n].symbol] = n
  BY <1>1 DEF Labels, t, f
<1>8. \A s \in Symbols : Seen(h, s) => t[h.map_leaf[s]].symbol = s
  BY <1>1 DEF Labels, t
<1> QED BY <1>3, <1>4, <1>5, <1>6, <1>7, <1>8 DEF t, f

\* The array of nodes that AdaptiveHuffman keeps is at all times one binary
\* tree, map_leaf the inverse of its leaves, and as large as the alphabet allows.
THEOREM WellFormedCorrect == Spec => []WellFormed
<1>1. HuffmanInv => WellFormed
  BY WellFormedCoder DEF HuffmanInv, WellFormed
<1> QED BY <1>1, HuffmanInvariant, PTL

\* Between two symbols the weights are sums and fall with the index: what
\* get_block_leader and the swaps of slide_and_increment need and restore.
THEOREM SiblingCorrect == Spec => []SiblingProperty
<1>1. ASSUME NEW h, CoderInv(h), NEW n \in Used(h)
      PROVE  /\ h.tree[n].symbol = Inner =>
                  h.tree[n].weight = h.tree[h.tree[n].left].weight + h.tree[h.tree[n].right].weight
             /\ n > 0 => h.tree[n].weight <= h.tree[n - 1].weight
  <2> DEFINE t == h.tree
             f == h.next_free_slot
  <2>1. /\ t \in [Nodes -> Node] /\ f \in 1 .. 2 * alphabet_size + 1 /\ LastSplit(t, f)
        /\ Sums(t, f, NIL) /\ Falling(t, f, NIL)
    BY <1>1, CoderFields DEF CoderInv, OnWay, Shape, Weighed
  <2>2. n \in 0 .. f - 1 /\ n \in Nat /\ n \in Nodes /\ n # NIL /\ f \in Nat
    BY <1>1, <2>1, AlphabetAssumption DEF Used, Nodes, NIL
  <2> HIDE DEF t, f
  <2>3. t[n].symbol = Inner => t[n].weight = t[t[n].left].weight + t[t[n].right].weight
    <3>1. t[n].weight + 0 = t[n].weight
      BY <2>1, <2>2, NodeFields
    <3> QED BY <2>1, <2>2, <3>1 DEF Sums
  <2>4. ASSUME n > 0 PROVE t[n].weight <= t[n - 1].weight
    <3>1. n - 1 \in 0 .. f - 1 /\ n - 1 < n /\ n - 1 # NIL
      BY <2>2, <2>4 DEF NIL
    <3> QED BY <2>1, <2>2, <3>1 DEF Falling
  <2> QED BY <2>3, <2>4 DEF t
<1>2. HuffmanInv => SiblingProperty
  BY <1>1 DEF HuffmanInv, SiblingProperty
<1> QED BY <1>2, HuffmanInvariant, PTL

\* A code that the encoder has kept is the one its tree gives at that time.
THEOREM CodesFreshCorrect == Spec => []CodesFresh
<1>1. HuffmanInv => CodesFresh
  BY DEF HuffmanInv, CoderInv, Codes, CodesFresh
<1> QED BY <1>1, HuffmanInvariant, PTL

\* A symbol is decoded from its own bits and in its turn, however far the reader
\* is behind and wherever the archive was cut.
THEOREM DecodesOldestCorrect == Spec => DecodesOldest
<1> DEFINE Oldest == dec' # dec => /\ pending # <<>>
                                   /\ IF eof' THEN Head(pending) = eof_symbol ELSE output' = Head(pending)
<1>1. HuffmanInv /\ [Next]_vars => [Oldest]_vars
  <2> SUFFICES ASSUME HuffmanInv, [Next]_vars PROVE Oldest \/ UNCHANGED vars
    OBVIOUS
  <2>1. CASE Decode
    BY <2>1, DecodeKeeps
  <2>2. CASE \E symbol \in Symbols : Encode(symbol)
    BY <2>2 DEF Encode
  <2>3. CASE \E padding \in Paddings : EncodeEnd(padding)
    BY <2>3 DEF EncodeEnd
  <2>4. CASE \E n \in 0 .. Len(bits) : Cut(n)
    BY <2>4 DEF Cut
  <2> QED BY <2>1, <2>2, <2>3, <2>4 DEF Next
<1> QED BY <1>1, HuffmanInvariant, PTL DEF Spec, DecodesOldest

-------------------------------------------------------------------------------
(* The pairs. *)

\* After the root the slots are the pairs that the splits made; whatever was
\* swapped, both of a pair have the same parent.
Paired(t, f) == \A m \in Nat : m > 0 /\ 2 * m <= f - 1 => t[2 * m - 1].parent = t[2 * m].parent

\* An exchange of the children of two nodes takes every pair along.
LEMMA SwapPaired ==
  ASSUME NEW h, Shape(h), NEW i, NEW x, Apart(h.tree, h.next_free_slot, i, x), MaySwap(h.tree, i, x),
         Paired(h.tree, h.next_free_slot)
  PROVE  Paired(swap(h, i, x).tree, h.next_free_slot)
<1> DEFINE t == h.tree
           f == h.next_free_slot
           u == swap(h, i, x).tree
           Moved(p) == IF p \in {i, x} THEN Other(i, x, p) ELSE p
<1>1. f \in 1 .. 2 * alphabet_size + 1 /\ f \in Nat /\ \A n \in 1 .. f - 1 : n \in Nodes
  BY CoderFields, AlphabetAssumption DEF Shape, Nodes
<1>2. ASSUME NEW n \in 1 .. f - 1 PROVE u[n].parent = Moved(t[n].parent)
  <2>1. u[n].parent = IF n # i /\ n # x /\ t[n].parent \in {i, x} THEN Other(i, x, t[n].parent) ELSE t[n].parent
    BY <1>1, SwapFields
  <2>2. t[i].parent \notin {i, x} /\ t[x].parent \notin {i, x}
    <3>1. i \in 1 .. f - 1 /\ x \in 1 .. f - 1 /\ i \in Nat /\ x \in Nat
      BY <1>1 DEF Apart
    <3>2. t[i].parent \in 0 .. i - 1 /\ t[x].parent \in 0 .. x - 1
      BY <3>1 DEF Shape, Rooted
    <3>3. t[i].parent # i /\ t[x].parent # x
      BY <3>1, <3>2
    <3> QED BY <3>3 DEF MaySwap
  <2> QED BY <2>1, <2>2
<1>3. ASSUME NEW m \in Nat, m > 0, 2 * m <= f - 1 PROVE u[2 * m - 1].parent = u[2 * m].parent
  <2>1. 2 * m - 1 \in 1 .. f - 1 /\ 2 * m \in 1 .. f - 1
    BY <1>1, <1>3
  <2>2. t[2 * m - 1].parent = t[2 * m].parent
    BY <1>3 DEF Paired
  <2> HIDE DEF u, t, f, Moved
  <2> QED BY <1>2, <2>1, <2>2
<1> QED BY <1>3 DEF Paired

\* One round keeps the pairs.
LEMMA RoundPaired ==
  ASSUME NEW v, OnWay(v.coder, v.node), Paired(v.coder.tree, v.coder.next_free_slot)
  PROVE  LET g == Round(v).coder
         IN  Paired(g.tree, v.coder.next_free_slot)
<1> DEFINE h == v.coder
           x == v.node
           t == h.tree
           f == h.next_free_slot
           l == get_block_leader(t, x)
<1>1. CASE x = NIL
  BY <1>1 DEF Round
<1>2. CASE x # NIL
  <2>1. /\ Shape(h) /\ Weighed(t, f, x) /\ x \in 0 .. f - 2
        /\ t \in [Nodes -> Node] /\ f \in 1 .. 2 * alphabet_size + 1
        /\ Rooted(t, f) /\ Branches(t, f) /\ LastSplit(t, f)
    BY <1>2, CoderFields DEF OnWay, Shape, Weighed
  <2>2. f \in 3 .. 2 * alphabet_size + 1 /\ f \in Nat /\ x \in Nat /\ x \in 0 .. f - 1 /\ x \in Nodes
    BY <2>1, AlphabetAssumption DEF LastSplit, Nodes
  <2>3. Growing(t, f, x)
    BY <2>1, <2>2 DEF Growing
  <2>4. ASSUME NEW k, Shape(k), k.next_free_slot = f, Paired(k.tree, f), NEW n \in 0 .. f - 1
        PROVE  Paired(Raise(k, n).tree, f)
    <3>1. Raise(k, n).tree = Raised(k.tree, n)
      BY DEF Raise, Raised
    <3>2. k.tree \in [Nodes -> Node] /\ \A j \in 0 .. f - 1 : j \in Nodes
      BY <2>4, <2>2, CoderFields, AlphabetAssumption DEF Shape, Nodes
    <3>3. \A j \in 0 .. f - 1 : Raised(k.tree, n)[j].parent = k.tree[j].parent
      BY <3>2 DEF Raised, Heavier, Node
    <3>4. ASSUME NEW m \in Nat, m > 0, 2 * m <= f - 1 PROVE 2 * m - 1 \in 0 .. f - 1 /\ 2 * m \in 0 .. f - 1
      BY <2>2, <3>4
    <3> QED BY <2>4, <3>1, <3>3, <3>4 DEF Paired
  <2>5. CASE MaySwap(t, l, x)
    <3> HIDE DEF t, f, l
    <3>1. Apart(t, f, l, x) /\ l \in 0 .. f - 1
      <4>1. l # x
        BY <2>5 DEF MaySwap
      <4>2. \/ l = x
            \/ /\ l \in 1 .. x - 1 /\ l < f - 3 /\ x # f - 3
               /\ t[l].weight = t[x].weight
               /\ \A n \in 0 .. f - 2 : t[n].weight # 0
        BY <2>3, Leader DEF l
      <4>3. l \in 0 .. f - 1
        BY <2>2, <4>1, <4>2
      <4> QED BY <2>3, <4>1, <4>2, <4>3, MaySwapLeader
    <3>2. Shape(swap(h, l, x)) /\ swap(h, l, x).next_free_slot = f
      BY <2>1, <3>1, SwapShape DEF t, f
    <3>3. Paired(swap(h, l, x).tree, f)
      BY <2>1, <2>5, <3>1, SwapPaired DEF t, f
    <3>4. Round(v).coder = Raise(swap(h, l, x), l)
      BY <1>2, <2>5 DEF Round, Climb, l, t
    <3> QED BY <2>4, <3>1, <3>2, <3>3, <3>4 DEF f
  <2>6. CASE ~ MaySwap(t, l, x)
    <3>1. Round(v).coder = Raise(h, x)
      BY <1>2, <2>6 DEF Round, Climb
    <3> HIDE DEF t, f, l
    <3> QED BY <2>1, <2>2, <2>4, <3>1 DEF t, f
  <2> QED BY <2>5, <2>6
<1> QED BY <1>1, <1>2

\* So does a walk.
LEMMA WalkPaired ==
  ASSUME NEW h, NEW x, OnWay(h, x), Paired(h.tree, h.next_free_slot)
  PROVE  Paired(Walk(h, x).coder.tree, h.next_free_slot)
<1> DEFINE f == h.next_free_slot
<1>1. PICK u : Walks(h, x, u) /\ Walk(h, x) = u[f]
  BY WalkUnfold
<1>2. f \in Nat
  BY CoderFields, AlphabetAssumption DEF OnWay, Shape
<1>3. u[0] = [coder |-> h, node |-> x, swapped |-> FALSE]
  BY <1>1, <1>2 DEF Walks
<1>4. ASSUME NEW k \in 0 .. f - 1 PROVE u[k + 1] = Round(u[k])
  <2>1. k + 1 \in 0 .. f /\ k + 1 # 0 /\ (k + 1) - 1 = k
    BY <1>2
  <2> HIDE DEF f
  <2> QED BY <1>1, <2>1 DEF Walks, f
<1> DEFINE Good(k) == u[k] \in WayFrom(h) /\ Paired(u[k].coder.tree, f)
           T == {k \in Nat : k <= f => Good(k)}
<1>5. 0 \in T
  BY <1>3, WalkBegins
<1>6. ASSUME NEW k \in T PROVE k + 1 \in T
  <2>1. SUFFICES ASSUME k + 1 <= f PROVE Good(k + 1)
    BY DEF T
  <2>2. k \in Nat /\ k <= f /\ k \in 0 .. f - 1
    BY <1>2, <2>1 DEF T
  <2>3. Good(k)
    BY <2>2 DEF T
  <2>4. u[k + 1] = Round(u[k]) /\ u[k + 1] \in WayFrom(h)
    BY <1>4, <2>2, <2>3, RoundKeeps
  <2>5. OnWay(u[k].coder, u[k].node) /\ u[k].coder.next_free_slot = f
    BY <2>3 DEF WayFrom, Kept
  <2> HIDE DEF f
  <2>6. Paired(Round(u[k]).coder.tree, f)
    BY <2>3, <2>5, RoundPaired
  <2> QED BY <2>4, <2>6
<1>7. T = Nat
  <2>1. T \in SUBSET Nat
    BY DEF T
  <2> HIDE DEF T
  <2> QED BY <1>5, <1>6, <2>1, NatSetInduction
<1>8. Good(f)
  <2>1. f \in T
    BY <1>2, <1>7
  <2> QED BY <1>2, <2>1 DEF T
<1> QED BY <1>1, <1>8

\* There is an odd number of nodes.
LEMMA OddSlots ==
  ASSUME NEW h, Shape(h)
  PROVE  \E c \in Nat : h.next_free_slot = 1 + 2 * c
<1> DEFINE S == {a \in Symbols : Seen(h, a)}
<1>1. IsFiniteSet(Symbols)
  BY AlphabetAssumption, FS_Interval DEF Symbols
<1>2. IsFiniteSet(S)
  BY <1>1, FS_Subset
<1>3. Cardinality(S) \in Nat
  BY <1>2, FS_CardinalityType
<1>4. h.next_free_slot = 1 + 2 * Cardinality(S)
  BY DEF Shape, Labels
<1> HIDE DEF S
<1> QED BY <1>3, <1>4

\* A split makes a pair.
LEMMA SplitPaired ==
  ASSUME NEW h, Shape(h), Paired(h.tree, h.next_free_slot), NEW s \in Symbols, ~ Seen(h, s)
  PROVE  Paired(Split(h, s).tree, Split(h, s).next_free_slot)
<1> DEFINE t == h.tree
           f == h.next_free_slot
           u == Split(h, s).tree
<1>1. /\ f + 2 <= 2 * alphabet_size + 1 /\ Split(h, s).next_free_slot = f + 2
      /\ \A n \in Nodes : n # f - 1 /\ n # f /\ n # f + 1 => u[n] = t[n]
      /\ u[f - 1] = [t[f - 1] EXCEPT !.symbol = Inner, !.left = f + 1, !.right = f]
      /\ u[f] = [NewNode EXCEPT !.symbol = s, !.parent = f - 1]
      /\ u[f + 1] = [NewNode EXCEPT !.symbol = NYT, !.parent = f - 1]
  BY SplitFields
<1>2. f \in 1 .. 2 * alphabet_size + 1 /\ f \in Nat /\ t \in [Nodes -> Node] /\ alphabet_size \in Nat
  BY CoderFields, AlphabetAssumption DEF Shape
<1>3. PICK C \in Nat : f = 1 + 2 * C
  BY OddSlots
<1> HIDE DEF t, f, u
<1>4. u[f].parent = f - 1 /\ u[f + 1].parent = f - 1
  BY <1>1 DEF NewNode
<1>5. ASSUME NEW n \in 1 .. f - 1 PROVE u[n].parent = t[n].parent
  <2>1. n \in Nodes
    BY <1>2 DEF Nodes
  <2>2. CASE n = f - 1
    <3>1. t[f - 1] \in Node
      BY <1>2, <2>1, <2>2
    <3>2. [t[f - 1] EXCEPT !.symbol = Inner, !.left = f + 1, !.right = f].parent = t[f - 1].parent
      BY <3>1 DEF Node
    <3> QED BY <1>1, <2>2, <3>2
  <2>3. CASE n # f - 1
    BY <1>1, <1>2, <2>1, <2>3
  <2> QED BY <2>2, <2>3
<1>6. ASSUME NEW m \in Nat, m > 0, 2 * m <= (f + 2) - 1 PROVE u[2 * m - 1].parent = u[2 * m].parent
  <2>1. CASE 2 * m <= f - 1
    <3>1. 2 * m - 1 \in 1 .. f - 1 /\ 2 * m \in 1 .. f - 1
      BY <1>2, <1>6, <2>1
    <3>2. t[2 * m - 1].parent = t[2 * m].parent
      BY <1>6, <2>1 DEF Paired, t, f
    <3> QED BY <1>5, <3>1, <3>2
  <2>2. CASE 2 * m > f - 1
    <3>1. 2 * m - 1 = f /\ 2 * m = f + 1
      BY <1>2, <1>3, <1>6, <2>2
    <3> QED BY <1>4, <3>1
  <2> QED BY <1>2, <2>1, <2>2
<1>7. Paired(u, f + 2)
  BY <1>6 DEF Paired
<1> QED BY <1>1, <1>7 DEF u, f

\* A coder keeps the pairs.
LEMMA EncodePaired ==
  ASSUME NEW h, CoderInv(h), Paired(h.tree, h.next_free_slot), NEW s \in Symbols
  PROVE  Paired(encode(h, s).next.tree, encode(h, s).next.next_free_slot)
<1>1. PICK g : CoderInv(g) /\ Same(g, h) /\ encode(h, s).next = update_tree(g, s)
  BY EncodeKeeps
<1>2. Paired(g.tree, g.next_free_slot)
  BY <1>1 DEF Same
<1> DEFINE n == Grown(g, s)
           x == n.map_leaf[s]
<1>3. OnWay(n, x)
  BY <1>1, GrownKeeps
<1>4. Paired(n.tree, n.next_free_slot)
  BY <1>1, <1>2, SplitPaired DEF Grown, CoderInv, OnWay
<1>5. update_tree(g, s) = slide_and_increment(n, x)
  BY DEF update_tree, Grown
<1> HIDE DEF n, x
<1>6. Paired(Walk(n, x).coder.tree, n.next_free_slot) /\ Walk(n, x) \in WayFrom(n)
  BY <1>3, <1>4, WalkPaired, WalkEnds
<1>7. Walk(n, x).coder.next_free_slot = n.next_free_slot /\ Walk(n, x).coder \in Coder
  BY <1>6 DEF WayFrom, Kept
<1>8. /\ slide_and_increment(n, x).tree = Walk(n, x).coder.tree
      /\ slide_and_increment(n, x).next_free_slot = Walk(n, x).coder.next_free_slot
  BY <1>7 DEF slide_and_increment, Coder
<1> QED BY <1>1, <1>5, <1>6, <1>7, <1>8

-------------------------------------------------------------------------------
(* Sums. *)

Totals(V, m, u) == u = [n \in 0 .. m |-> IF n = 0 THEN 0 ELSE u[n - 1] + V[n - 1]]

\* The recursion of Total.
LEMMA TotalUnfold ==
  ASSUME NEW m \in Nat, NEW V \in [0 .. m - 1 -> Nat]
  PROVE  \E u \in [0 .. m -> Nat] : /\ u[0] = 0 /\ \A i \in 1 .. m : u[i] = u[i - 1] + V[i - 1]
                                    /\ Total(V, m) = u[m]
<1> DEFINE G == [k \in Nat |-> [v \in Nat |-> IF k \in 1 .. m THEN v + V[k - 1] ELSE v]]
<1>1. \A k \in 1 .. m : k - 1 \in 0 .. m - 1 /\ k - 1 \in 0 .. m /\ V[k - 1] \in Nat
  OBVIOUS
<1>2. G \in [Nat -> [Nat -> Nat]]
  BY <1>1
<1>3. PICK u \in [0 .. m -> Nat] : u[0] = 0 /\ \A k \in 1 .. m : u[k] = G[k][u[k - 1]]
  <2> HIDE DEF G
  <2>1. RecursiveOn(Nat, 0, G, m)
    BY <1>2, IntervalRecursion
  <2> QED BY <2>1 DEF RecursiveOn
<1>4. \A k \in 1 .. m : u[k] = u[k - 1] + V[k - 1]
  <2> TAKE k \in 1 .. m
  <2>1. k \in Nat /\ u[k - 1] \in Nat
    BY <1>1
  <2> QED BY <1>3, <2>1
<1>5. Totals(V, m, u)
  <2>1. \A i \in 0 .. m : u[i] = IF i = 0 THEN 0 ELSE u[i - 1] + V[i - 1]
    <3> TAKE i \in 0 .. m
    <3>1. i = 0 \/ i \in 1 .. m
      OBVIOUS
    <3> HIDE DEF G
    <3> QED BY <1>3, <1>4, <3>1
  <2>2. u = [i \in 0 .. m |-> u[i]]
    OBVIOUS
  <2> HIDE DEF G
  <2> QED BY <2>1, <2>2 DEF Totals
<1> DEFINE c == CHOOSE r : Totals(V, m, r)
<1>6. Totals(V, m, c)
  BY <1>5
<1>7. Total(V, m) = c[m]
  BY DEF Total, Totals
<1> HIDE DEF c
<1>8. \A i \in 0 .. m : c[i] = IF i = 0 THEN 0 ELSE c[i - 1] + V[i - 1]
  BY <1>6 DEF Totals
<1> DEFINE T == {i \in Nat : i <= m => c[i] = u[i]}
<1>9. 0 \in T
  <2>1. 0 \in 0 .. m
    OBVIOUS
  <2> QED BY <1>3, <1>8, <2>1
<1>10. ASSUME NEW i \in T PROVE i + 1 \in T
  <2> SUFFICES ASSUME i + 1 <= m PROVE c[i + 1] = u[i + 1]
    BY DEF T
  <2>1. i + 1 \in 0 .. m /\ i + 1 \in 1 .. m /\ i + 1 # 0 /\ (i + 1) - 1 = i /\ c[i] = u[i]
    OBVIOUS
  <2> HIDE DEF T, G
  <2> QED BY <1>4, <1>8, <2>1
<1>11. T = Nat
  <2>1. T \in SUBSET Nat
    BY DEF T
  <2> HIDE DEF T
  <2> QED BY <1>9, <1>10, <2>1, NatSetInduction
<1>12. c[m] = u[m]
  <2>1. m \in T
    BY <1>11
  <2> QED BY <2>1 DEF T
<1> HIDE DEF G, T
<1> QED BY <1>3, <1>4, <1>7, <1>12

\* A sum with one term exchanged.
LEMMA TotalChange ==
  ASSUME NEW m \in Nat, NEW V \in [0 .. m - 1 -> Nat], NEW W \in [0 .. m - 1 -> Nat], NEW k \in 0 .. m - 1,
         \A i \in 0 .. m - 1 : i # k => W[i] = V[i]
  PROVE  /\ Total(V, m) \in Nat /\ Total(W, m) \in Nat
         /\ Total(W, m) + V[k] = Total(V, m) + W[k]
<1>1. \A i \in 0 .. m - 1 : W[i] \in Nat /\ V[i] \in Nat
  OBVIOUS
<1>2. PICK u \in [0 .. m -> Nat] : u[0] = 0 /\ (\A i \in 1 .. m : u[i] = u[i - 1] + V[i - 1]) /\ Total(V, m) = u[m]
  BY TotalUnfold
<1>3. PICK w \in [0 .. m -> Nat] : w[0] = 0 /\ (\A i \in 1 .. m : w[i] = w[i - 1] + W[i - 1]) /\ Total(W, m) = w[m]
  BY <1>1, TotalUnfold
<1> DEFINE Off(i) == IF i <= k THEN w[i] = u[i] ELSE w[i] + V[k] = u[i] + W[k]
           T == {i \in Nat : i <= m => Off(i)}
<1>4. 0 \in T
  BY <1>2, <1>3
<1>5. ASSUME NEW i \in T PROVE i + 1 \in T
  <2> SUFFICES ASSUME i + 1 <= m PROVE Off(i + 1)
    BY DEF T
  <2>1. i + 1 \in 1 .. m /\ (i + 1) - 1 = i /\ i \in 0 .. m - 1 /\ i \in 0 .. m /\ i + 1 \in 0 .. m /\ Off(i)
    OBVIOUS
  <2>2. w[i + 1] = w[i] + W[i] /\ u[i + 1] = u[i] + V[i]
    BY <1>2, <1>3, <2>1
  <2>3. w[i] \in Nat /\ u[i] \in Nat /\ V[i] \in Nat /\ V[k] \in Nat /\ i \in Nat /\ k \in Nat
    BY <2>1
  <2> HIDE DEF T
  <2>4. CASE i = k
    BY <2>1, <2>2, <2>3, <2>4, <1>1
  <2>5. CASE i # k
    <3>1. W[i] = V[i]
      BY <2>1, <2>5
    <3>2. CASE i < k
      <4>1. i <= k /\ i + 1 <= k
        BY <2>3, <3>2
      <4> QED BY <2>1, <2>2, <2>3, <3>1, <4>1
    <3>3. CASE i > k
      <4>1. ~ (i <= k) /\ ~ (i + 1 <= k)
        BY <2>3, <3>3
      <4>2. w[i] + V[k] = u[i] + W[k]
        BY <2>1, <4>1
      <4>3. V[i] \in Nat /\ W[k] \in Nat /\ V[k] \in Nat /\ w[i] \in Nat /\ u[i] \in Nat
        BY <1>1, <2>1
      <4> DEFINE p == w[i]
                 q == u[i]
                 v == V[i]
                 r == V[k]
                 y == W[k]
      <4>4. p + r = q + y /\ p \in Nat /\ q \in Nat /\ v \in Nat /\ r \in Nat /\ y \in Nat
        BY <4>2, <4>3
      <4> HIDE DEF p, q, v, r, y
      <4>5. (p + v) + r = (q + v) + y
        BY <4>4
      <4>6. p + v = w[i + 1] /\ q + v = u[i + 1]
        BY <2>2, <3>1 DEF p, q, v
      <4> QED BY <4>1, <4>5, <4>6 DEF r, y
    <3> QED BY <2>3, <2>5, <3>2, <3>3
  <2> QED BY <2>4, <2>5
<1>6. T = Nat
  <2>1. T \in SUBSET Nat
    BY DEF T
  <2> HIDE DEF T
  <2> QED BY <1>4, <1>5, <2>1, NatSetInduction
<1>7. w[m] + V[k] = u[m] + W[k]
  <2>1. ~ (m <= k)
    OBVIOUS
  <2>2. m \in T
    BY <1>6
  <2> QED BY <2>1, <2>2 DEF T
<1>8. w[m] \in Nat /\ u[m] \in Nat
  OBVIOUS
<1> QED BY <1>2, <1>3, <1>7, <1>8

\* A sum of nothing.
LEMMA TotalZero ==
  ASSUME NEW m \in Nat, NEW V \in [0 .. m - 1 -> Nat], \A i \in 0 .. m - 1 : V[i] = 0
  PROVE  Total(V, m) = 0
<1>1. PICK u \in [0 .. m -> Nat] : u[0] = 0 /\ (\A i \in 1 .. m : u[i] = u[i - 1] + V[i - 1]) /\ Total(V, m) = u[m]
  BY TotalUnfold
<1> DEFINE T == {i \in Nat : i <= m => u[i] = 0}
<1>2. 0 \in T
  BY <1>1
<1>3. ASSUME NEW i \in T PROVE i + 1 \in T
  <2> SUFFICES ASSUME i + 1 <= m PROVE u[i + 1] = 0
    BY DEF T
  <2>1. i + 1 \in 1 .. m /\ (i + 1) - 1 = i /\ i \in 0 .. m - 1 /\ u[i] = 0
    OBVIOUS
  <2> HIDE DEF T
  <2> QED BY <1>1, <2>1
<1>4. T = Nat
  <2>1. T \in SUBSET Nat
    BY DEF T
  <2> HIDE DEF T
  <2> QED BY <1>2, <1>3, <2>1, NatSetInduction
<1>5. m \in T
  BY <1>4
<1> QED BY <1>1, <1>5 DEF T

-------------------------------------------------------------------------------
(* The trees that Huffman's construction still has to join. *)

\* A tree between two symbols.
Settled(h) ==
  /\ Shape(h) /\ Paired(h.tree, h.next_free_slot)
  /\ Sums(h.tree, h.next_free_slot, NIL) /\ Falling(h.tree, h.next_free_slot, NIL)

\* The roots of what is left of the trees when the nodes after k are joined.
Frontier(t, k) == {n \in 0 .. k : \A c \in Children(t[n]) : c > k}

\* The last pair is joined under its parent.
LEMMA FrontierStep ==
  ASSUME NEW h, Settled(h), NEW m \in Nat, m > 0, 2 * m <= h.next_free_slot - 1
  PROVE  LET t == h.tree
             k == 2 * m
             p == t[k].parent
         IN  /\ k \in Frontier(t, k) /\ k - 1 \in Frontier(t, k)
             /\ p \in 0 .. k - 2 /\ p \notin Frontier(t, k) /\ t[k - 1].parent = p
             /\ Frontier(t, k - 2) = (Frontier(t, k) \ {k, k - 1}) \cup {p}
             /\ t[p].weight = t[k].weight + t[k - 1].weight
<1> DEFINE t == h.tree
           f == h.next_free_slot
           k == 2 * m
           p == t[k].parent
<1>1. /\ t \in [Nodes -> Node] /\ f \in 1 .. 2 * alphabet_size + 1
      /\ Rooted(t, f) /\ Branches(t, f) /\ Sums(t, f, NIL) /\ Paired(t, f)
  BY CoderFields DEF Settled, Shape
<1>2. f \in Nat /\ (\A n \in 0 .. f - 1 : n \in Nodes /\ n # NIL) /\ k \in Nat /\ k >= 2 /\ k <= f - 1
  BY <1>1, AlphabetAssumption DEF Nodes, NIL
<1> HIDE DEF t, f
<1>3. t[k - 1].parent = p
  BY <1>1, <1>2 DEF Paired
<1> HIDE DEF k
<1>4. k \in 1 .. f - 1 /\ k - 1 \in 1 .. f - 1 /\ k \in 0 .. f - 1 /\ k - 1 \in 0 .. f - 1
  BY <1>2
<1>5. p \in 0 .. k - 2 /\ p \in 0 .. f - 1 /\ p \in Nat
  <2>1. p \in 0 .. (k - 1) - 1
    BY <1>1, <1>3, <1>4 DEF Rooted
  <2> HIDE DEF p
  <2> QED BY <1>2, <2>1
<1>6. k \in Nodes /\ k - 1 \in Nodes /\ p \in Nodes
  BY <1>2, <1>4, <1>5
<1>7. Children(t[p]) = {k, k - 1} /\ t[p].symbol = Inner /\ {t[p].left, t[p].right} = {k, k - 1}
  <2>1. (t[p].left = k \/ t[p].right = k) /\ (t[p].left = k - 1 \/ t[p].right = k - 1)
    BY <1>1, <1>3, <1>4 DEF Rooted
  <2>2. k # NIL /\ k - 1 # NIL /\ k # k - 1
    BY <1>2, <1>4
  <2>3. t[p].symbol = Inner
    <3> HIDE DEF p
    <3> QED BY <1>1, <1>5, <2>1, <2>2 DEF Branches
  <2> HIDE DEF p
  <2> QED BY <2>1, <2>2, <2>3 DEF Children
<1>8. ASSUME NEW n \in 0 .. f - 1, NEW c \in Children(t[n])
      PROVE  c \in n + 1 .. f - 1 /\ t[c].parent = n
  <2>1. t[n].symbol = Inner
    BY <1>1, <1>8 DEF Branches, Children
  <2> QED BY <1>1, <1>8, <2>1 DEF Branches, Children
<1>9. k \in Frontier(t, k) /\ k - 1 \in Frontier(t, k)
  <2>1. ASSUME NEW c \in Children(t[k]) PROVE c > k
    <3>1. c \in k + 1 .. f - 1
      BY <1>4, <1>8
    <3> QED BY <1>2, <3>1
  <2>2. ASSUME NEW c \in Children(t[k - 1]) PROVE c > k
    <3>1. c \in k .. f - 1 /\ t[c].parent = k - 1
      <4>1. (k - 1) + 1 = k
        BY <1>2
      <4> QED BY <1>4, <1>8, <4>1
    <3>2. c # k
      <4>1. p # k - 1
        <5> HIDE DEF p
        <5> QED BY <1>2, <1>5
      <4> QED BY <3>1, <4>1
    <3> QED BY <1>2, <3>1, <3>2
  <2>3. k \in 0 .. k /\ k - 1 \in 0 .. k
    BY <1>2
  <2> QED BY <2>1, <2>2, <2>3 DEF Frontier
<1>10. p \notin Frontier(t, k)
  <2>1. k \in Children(t[p]) /\ ~ (k > k)
    BY <1>2, <1>7
  <2> QED BY <2>1 DEF Frontier
<1>11. Frontier(t, k - 2) = (Frontier(t, k) \ {k, k - 1}) \cup {p}
  <2>1. ASSUME NEW n \in Frontier(t, k - 2), n # p PROVE n \in Frontier(t, k) \ {k, k - 1}
    <3>1. n \in 0 .. k - 2 /\ n \in 0 .. f - 1 /\ n \in 0 .. k /\ n \in Nat
      BY <1>2 DEF Frontier
    <3>2. ASSUME NEW c \in Children(t[n]) PROVE c > k
      <4>1. c > k - 2 /\ c \in n + 1 .. f - 1 /\ t[c].parent = n
        BY <1>8, <3>1 DEF Frontier
      <4>2. c # k /\ c # k - 1
        BY <1>3, <2>1, <4>1
      <4> QED BY <1>2, <3>1, <4>1, <4>2
    <3>3. n # k /\ n # k - 1
      BY <1>2, <3>1
    <3> QED BY <3>1, <3>2, <3>3 DEF Frontier
  <2>2. p \in Frontier(t, k - 2)
    <3>1. k > k - 2 /\ k - 1 > k - 2
      BY <1>2
    <3> QED BY <1>5, <1>7, <3>1 DEF Frontier
  <2>3. ASSUME NEW n \in Frontier(t, k), n # k, n # k - 1 PROVE n \in Frontier(t, k - 2)
    <3>1. n \in 0 .. k /\ n \in 0 .. k - 2 /\ n \in Nat /\ n \in 0 .. f - 1
      BY <1>2, <2>3 DEF Frontier
    <3>2. ASSUME NEW c \in Children(t[n]) PROVE c > k - 2
      <4>1. c > k /\ c \in n + 1 .. f - 1
        BY <1>8, <3>1 DEF Frontier
      <4> QED BY <1>2, <3>1, <4>1
    <3> QED BY <3>1, <3>2 DEF Frontier
  <2> HIDE DEF p
  <2> QED BY <2>1, <2>2, <2>3
<1>12. t[p].weight = t[k].weight + t[k - 1].weight
  <2>1. t[t[p].left].weight + t[t[p].right].weight = t[p].weight + 0
    <3>1. p # NIL
      BY <1>2, <1>5
    <3> QED BY <1>1, <1>5, <1>7, <3>1 DEF Sums
  <2>2. t[k].weight \in Nat /\ t[k - 1].weight \in Nat /\ t[p].weight \in Nat
    BY <1>1, <1>6, NodeFields
  <2>3. \/ t[p].left = k /\ t[p].right = k - 1
        \/ t[p].left = k - 1 /\ t[p].right = k
    <3>1. k # k - 1
      BY <1>2
    <3> HIDE DEF p
    <3> QED BY <1>7, <3>1
  <2> HIDE DEF p
  <2>4. t[k].weight + t[k - 1].weight = t[p].weight + 0
    BY <2>1, <2>2, <2>3
  <2> QED BY <2>2, <2>4
<1> HIDE DEF p
<1> QED BY <1>3, <1>5, <1>9, <1>10, <1>11, <1>12 DEF t, k, p

\* The last two nodes of the frontier are the lightest.
LEMMA FrontierLightest ==
  ASSUME NEW h, Settled(h), NEW k \in Nat, k >= 2, k <= h.next_free_slot - 1
  PROVE  LET t == h.tree
         IN  /\ \A n \in Frontier(t, k) : t[n].weight \in Nat /\ t[k].weight <= t[n].weight
             /\ \A n \in Frontier(t, k) \ {k} : t[k - 1].weight <= t[n].weight
<1> DEFINE t == h.tree
           f == h.next_free_slot
<1>1. t \in [Nodes -> Node] /\ f \in 1 .. 2 * alphabet_size + 1 /\ Falling(t, f, NIL)
  BY CoderFields DEF Settled, Shape
<1>2. f \in Nat /\ (\A n \in 0 .. f - 1 : n \in Nodes /\ n # NIL)
  BY <1>1, AlphabetAssumption DEF Nodes, NIL
<1>3. k <= f - 1
  OBVIOUS
<1> HIDE DEF t, f
<1>4. ASSUME NEW i \in 0 .. f - 1, NEW j \in 0 .. f - 1, i <= j
      PROVE  t[i].weight \in Nat /\ t[j].weight <= t[i].weight
  <2>1. t[i].weight \in Nat
    BY <1>1, <1>2, NodeFields
  <2>2. CASE i = j
    BY <2>1, <2>2
  <2>3. CASE i < j
    <3>1. i # NIL
      BY <1>2
    <3>2. t[j].weight <= t[i].weight
      BY <1>1, <2>3, <3>1 DEF Falling
    <3> QED BY <2>1, <3>2
  <2> QED BY <1>2, <1>4, <2>2, <2>3
<1>5. k \in 0 .. f - 1 /\ k - 1 \in 0 .. f - 1
  BY <1>2, <1>3
<1>6. ASSUME NEW n \in Frontier(t, k) PROVE t[n].weight \in Nat /\ t[k].weight <= t[n].weight
  <2>1. n \in 0 .. f - 1 /\ n <= k
    BY <1>2, <1>3 DEF Frontier
  <2> QED BY <1>4, <1>5, <2>1
<1>7. ASSUME NEW n \in Frontier(t, k) \ {k} PROVE t[k - 1].weight <= t[n].weight
  <2>1. n \in 0 .. f - 1 /\ n <= k - 1
    BY <1>2, <1>3 DEF Frontier
  <2> QED BY <1>4, <1>5, <2>1
<1> QED BY <1>6, <1>7 DEF t

Terms(t, f, k) == [n \in 0 .. f - 1 |-> IF n \in Frontier(t, k) THEN t[n].weight * Len(Path(t, n)) ELSE 0]

\* The terms of such a sum are naturals.
LEMMA TermsType ==
  ASSUME NEW h, Shape(h), NEW k
  PROVE  LET f == h.next_free_slot
         IN  /\ \A n \in 0 .. f - 1 : h.tree[n].weight \in Nat /\ Len(Path(h.tree, n)) \in Nat
             /\ Terms(h.tree, f, k) \in [0 .. f - 1 -> Nat] /\ Total(Terms(h.tree, f, k), f) \in Nat
<1> DEFINE t == h.tree
           f == h.next_free_slot
<1>1. t \in [Nodes -> Node] /\ f \in 1 .. 2 * alphabet_size + 1 /\ Upward(t)
  BY CoderFields, ShapeUpward DEF Shape
<1>2. f \in Nat /\ (\A n \in 0 .. f - 1 : n \in Nodes)
  BY <1>1, AlphabetAssumption DEF Nodes
<1> HIDE DEF t, f
<1>3. ASSUME NEW n \in 0 .. f - 1 PROVE t[n].weight \in Nat /\ Len(Path(t, n)) \in Nat
  <2>1. Path(t, n) \in Seq(Bits)
    BY <1>1, <1>2, PathType
  <2> QED BY <1>1, <1>2, <2>1, NodeFields, LenProperties
<1>4. ASSUME NEW n \in 0 .. f - 1
      PROVE  (IF n \in Frontier(t, k) THEN t[n].weight * Len(Path(t, n)) ELSE 0) \in Nat
  <2>1. \A x, y \in Nat : x * y \in Nat
    OBVIOUS
  <2>2. t[n].weight * Len(Path(t, n)) \in Nat
    BY <1>3, <2>1
  <2> QED BY <2>2
<1>5. Terms(t, f, k) \in [0 .. f - 1 -> Nat]
  BY <1>4 DEF Terms
<1>6. PICK v \in [0 .. f -> Nat] : Total(Terms(t, f, k), f) = v[f]
  BY <1>2, <1>5, TotalUnfold
<1>7. f \in 0 .. f
  BY <1>2
<1> QED BY <1>3, <1>5, <1>6, <1>7 DEF t, f

\* What a join costs is what it takes from the sum over the frontier.
LEMMA TermsStep ==
  ASSUME NEW h, Settled(h), NEW m \in Nat, m > 0, 2 * m <= h.next_free_slot - 1
  PROVE  LET t == h.tree
             f == h.next_free_slot
             k == 2 * m
         IN  /\ Total(Terms(t, f, k), f) \in Nat /\ Total(Terms(t, f, k - 2), f) \in Nat
             /\ Total(Terms(t, f, k - 2), f) + (t[k].weight + t[k - 1].weight) = Total(Terms(t, f, k), f)
<1> DEFINE t == h.tree
           f == h.next_free_slot
           k == 2 * m
           p == t[k].parent
           a == t[k].weight
           b == t[k - 1].weight
           d == Len(Path(t, p))
<1>1. /\ t \in [Nodes -> Node] /\ f \in 1 .. 2 * alphabet_size + 1 /\ Upward(t)
  BY CoderFields, ShapeUpward DEF Settled, Shape
<1>2. f \in Nat /\ (\A n \in 0 .. f - 1 : n \in Nodes /\ n # NIL) /\ k \in Nat /\ k >= 2 /\ k <= f - 1
  BY <1>1, AlphabetAssumption DEF Nodes, NIL
<1>3. /\ k \in Frontier(t, k) /\ k - 1 \in Frontier(t, k)
      /\ p \in 0 .. k - 2 /\ p \notin Frontier(t, k) /\ t[k - 1].parent = p
      /\ Frontier(t, k - 2) = (Frontier(t, k) \ {k, k - 1}) \cup {p}
      /\ t[p].weight = a + b
  BY FrontierStep
<1> HIDE DEF t, f, k
<1>4. k \in 0 .. f - 1 /\ k - 1 \in 0 .. f - 1 /\ p \in 0 .. f - 1 /\ p # k /\ p # k - 1 /\ k - 1 # k
  <2> HIDE DEF p
  <2> QED BY <1>2, <1>3
<1>5. \A n \in 0 .. f - 1 : t[n].weight \in Nat /\ Len(Path(t, n)) \in Nat
  BY TermsType DEF Settled, t, f
<1>6. Len(Path(t, k)) = d + 1 /\ Len(Path(t, k - 1)) = d + 1
  <2>1. p # NIL /\ p \in Nodes /\ k \in Nodes /\ k - 1 \in Nodes
    BY <1>2, <1>4
  <2>2. Path(t, p) \in Seq(Bits) /\ Side(t, k) \in Bits /\ Side(t, k - 1) \in Bits
    BY <1>1, <2>1, PathType DEF Side, Bits
  <2>3. Path(t, k) = Append(Path(t, p), Side(t, k)) /\ Path(t, k - 1) = Append(Path(t, p), Side(t, k - 1))
    BY <1>1, <1>3, <2>1, PathOf
  <2> HIDE DEF p
  <2> QED BY <2>2, <2>3
<1>7. a \in Nat /\ b \in Nat /\ d \in Nat
  BY <1>4, <1>5
<1> DEFINE V == Terms(t, f, k)
           V1 == [V EXCEPT ![k] = 0]
           V2 == [V1 EXCEPT ![k - 1] = 0]
           V3 == [V2 EXCEPT ![p] = (a + b) * d]
<1>8. V \in [0 .. f - 1 -> Nat]
  BY TermsType DEF Settled, t, f
<1>9. V[k] = a * (d + 1) /\ V[k - 1] = b * (d + 1) /\ V[p] = 0
  <2> HIDE DEF p
  <2> QED BY <1>3, <1>4, <1>6 DEF Terms
<1> HIDE DEF p, a, b, d, V
<1>10. V1 \in [0 .. f - 1 -> Nat] /\ V1[k] = 0 /\ \A n \in 0 .. f - 1 : n # k => V1[n] = V[n]
  BY <1>4, <1>8
<1> HIDE DEF V1
<1>11. V2 \in [0 .. f - 1 -> Nat] /\ V2[k - 1] = 0 /\ \A n \in 0 .. f - 1 : n # k - 1 => V2[n] = V1[n]
  BY <1>4, <1>10
<1> HIDE DEF V2
<1>12. (a + b) * d \in Nat
  BY <1>7
<1>13. V3 \in [0 .. f - 1 -> Nat] /\ V3[p] = (a + b) * d /\ \A n \in 0 .. f - 1 : n # p => V3[n] = V2[n]
  BY <1>4, <1>11, <1>12
<1> HIDE DEF V3
<1>14. /\ Total(V, f) \in Nat /\ Total(V1, f) \in Nat
       /\ Total(V1, f) + V[k] = Total(V, f) + V1[k]
  <2>1. f \in Nat /\ k \in 0 .. f - 1
    BY <1>2, <1>4
  <2>2. V1 \in [0 .. f - 1 -> Nat] /\ V \in [0 .. f - 1 -> Nat]
    BY <1>8, <1>10
  <2>3. \A n \in 0 .. f - 1 : n # k => V1[n] = V[n]
    BY <1>10
  <2> QED BY <2>1, <2>2, <2>3, TotalChange
<1>15. /\ Total(V2, f) \in Nat
       /\ Total(V2, f) + V1[k - 1] = Total(V1, f) + V2[k - 1]
  <2>1. f \in Nat /\ k - 1 \in 0 .. f - 1
    BY <1>2, <1>4
  <2>2. V1 \in [0 .. f - 1 -> Nat] /\ V2 \in [0 .. f - 1 -> Nat]
    BY <1>10, <1>11
  <2>3. \A n \in 0 .. f - 1 : n # k - 1 => V2[n] = V1[n]
    BY <1>11
  <2> QED BY <2>1, <2>2, <2>3, TotalChange
<1>16. /\ Total(V3, f) \in Nat
       /\ Total(V3, f) + V2[p] = Total(V2, f) + V3[p]
  BY <1>2, <1>4, <1>11, <1>13, TotalChange
<1>17. V1[k - 1] = V[k - 1] /\ V2[p] = V[p]
  BY <1>4, <1>10, <1>11
<1>18. V3 = Terms(t, f, k - 2)
  <2>1. ASSUME NEW n \in 0 .. f - 1
        PROVE  V3[n] = IF n \in Frontier(t, k - 2) THEN t[n].weight * Len(Path(t, n)) ELSE 0
    <3>1. CASE n = p
      BY <1>3, <1>13, <3>1 DEF d
    <3>2. CASE n = k
      BY <1>3, <1>4, <1>10, <1>11, <1>13, <3>2
    <3>3. CASE n = k - 1
      BY <1>3, <1>4, <1>11, <1>13, <3>3
    <3>4. CASE n # p /\ n # k /\ n # k - 1
      <4>1. V3[n] = V[n]
        BY <1>10, <1>11, <1>13, <3>4
      <4>2. n \in Frontier(t, k - 2) <=> n \in Frontier(t, k)
        BY <1>3, <3>4
      <4> QED BY <4>1, <4>2 DEF V, Terms
    <3> QED BY <3>1, <3>2, <3>3, <3>4
  <2>2. V3 = [n \in 0 .. f - 1 |-> V3[n]]
    BY <1>13
  <2> QED BY <2>1, <2>2 DEF Terms
<1>19. a * (d + 1) = a * d + a /\ b * (d + 1) = b * d + b /\ (a + b) * d = a * d + b * d /\ a * d \in Nat /\ b * d \in Nat
  BY <1>7
<1>20. /\ Total(V1, f) + a * (d + 1) = Total(V, f) + 0
       /\ Total(V2, f) + b * (d + 1) = Total(V1, f) + 0
       /\ Total(V3, f) + 0 = Total(V2, f) + (a + b) * d
  BY <1>9, <1>10, <1>11, <1>13, <1>14, <1>15, <1>16, <1>17
<1>21. Total(V3, f) + (a + b) = Total(V, f)
  BY <1>7, <1>14, <1>15, <1>16, <1>19, <1>20
<1> QED BY <1>14, <1>16, <1>18, <1>21 DEF t, f, k, a, b, V

-------------------------------------------------------------------------------
(* Huffman's construction, followed on the tree. *)

OneToOne(e, D, F) ==
  /\ e \in [D -> F]
  /\ \A i, j \in D : e[i] = e[j] => i = j
  /\ \A n \in F : \E i \in D : e[i] = n

\* Two of the same value may change roles.
LEMMA Renamed ==
  ASSUME NEW e, NEW D, NEW F, OneToOne(e, D, F), NEW val, NEW a \in D, NEW n \in F, val[e[a]] = val[n]
  PROVE  \E g : OneToOne(g, D, F) /\ g[a] = n /\ \A i \in D : val[g[i]] = val[e[i]]
<1> DEFINE g == [i \in D |-> IF i = a THEN n ELSE IF e[i] = n THEN e[a] ELSE e[i]]
<1>1. g \in [D -> F] /\ g[a] = n
  BY DEF OneToOne
<1>2. ASSUME NEW i \in D, NEW j \in D, g[i] = g[j] PROVE i = j
  BY <1>2 DEF OneToOne
<1>3. ASSUME NEW x \in F PROVE \E i \in D : g[i] = x
  <2>1. PICK i \in D : e[i] = x
    BY DEF OneToOne
  <2>2. PICK j \in D : e[j] = n
    BY DEF OneToOne
  <2>3. CASE x = n
    BY <1>1, <2>3
  <2>4. CASE x # n /\ i # a
    BY <2>1, <2>4
  <2>5. CASE x # n /\ i = a
    <3>1. j # a
      BY <2>1, <2>2, <2>5
    <3> QED BY <2>1, <2>2, <2>5, <3>1
  <2> QED BY <2>3, <2>4, <2>5
<1>4. \A i \in D : val[g[i]] = val[e[i]]
  OBVIOUS
<1> HIDE DEF g
<1> QED BY <1>1, <1>2, <1>3, <1>4 DEF OneToOne

\* Without one and its partner they are still one to one.
LEMMA OneLess ==
  ASSUME NEW e, NEW D, NEW F, OneToOne(e, D, F), NEW a \in D
  PROVE  OneToOne([i \in D \ {a} |-> e[i]], D \ {a}, F \ {e[a]})
BY DEF OneToOne

\* Lightest finds a least weight.
LEMMA LightestIs ==
  ASSUME NEW w, NEW D, w \in [D -> Nat], NEW E \in SUBSET D, E # {}
  PROVE  Lightest(w, E) \in E /\ \A m \in E : w[Lightest(w, E)] <= w[m]
<1> DEFINE S == {w[n] : n \in E}
<1>1. S \in SUBSET Nat /\ S # {}
  OBVIOUS
<1>2. Min(S) \in S /\ \A x \in S : Min(S) <= x
  <2> HIDE DEF S
  <2> QED BY <1>1, MinOfNats
<1>3. \E n \in E : \A m \in E : w[n] <= w[m]
  BY <1>2
<1> QED BY <1>3 DEF Lightest

\* The trees of a forest stand one to one for those of the frontier, and weigh
\* the same.
Follows(w, t, k) ==
  /\ w \in [DOMAIN w -> Nat]
  /\ \E e : OneToOne(e, DOMAIN w, Frontier(t, k)) /\ \A i \in DOMAIN w : w[i] = t[e[i]].weight

\* A join takes the last pair of the frontier, or others of the same weights.
LEMMA JoinFollows ==
  ASSUME NEW h, Settled(h), NEW m \in Nat, m > 0, 2 * m <= h.next_free_slot - 1,
         NEW r, Follows(r.weights, h.tree, 2 * m), r.cost \in Nat
  PROVE  LET t == h.tree
             k == 2 * m
             D == DOMAIN r.weights
         IN  /\ Follows(Join(r).weights, t, k - 2)
             /\ Join(r).cost = r.cost + (t[k].weight + t[k - 1].weight) /\ Join(r).cost \in Nat
             /\ \E b \in D : DOMAIN Join(r).weights = D \ {b} /\ D \ {b} # {}
<1> DEFINE t == h.tree
           k == 2 * m
           w == r.weights
           D == DOMAIN w
           p == t[k].parent
           F == Frontier(t, k)
           a == Lightest(w, D)
           b == Lightest(w, D \ {a})
           sum == w[a] + w[b]
           v == Join(r).weights
<1>1. /\ k \in F /\ k - 1 \in F
      /\ p \in 0 .. k - 2 /\ p \notin F /\ t[k - 1].parent = p
      /\ Frontier(t, k - 2) = (F \ {k, k - 1}) \cup {p}
      /\ t[p].weight = t[k].weight + t[k - 1].weight
  BY FrontierStep
<1>2. k \in Nat /\ k >= 2 /\ k <= h.next_free_slot - 1 /\ k - 1 # k
  OBVIOUS
<1>3. /\ \A n \in F : t[n].weight \in Nat /\ t[k].weight <= t[n].weight
      /\ \A n \in F \ {k} : t[k - 1].weight <= t[n].weight
  <2> HIDE DEF k
  <2> QED BY <1>2, FrontierLightest
<1>4. PICK e : OneToOne(e, D, F) /\ \A i \in D : w[i] = t[e[i]].weight
  BY DEF Follows
<1>5. w \in [D -> Nat]
  BY DEF Follows
<1>6. Join(r) = [weights |-> [n \in D \ {b} |-> IF n = a THEN sum ELSE w[n]], cost |-> r.cost + sum]
  BY DEF Join
<1>7. v = [n \in D \ {b} |-> IF n = a THEN sum ELSE w[n]] /\ Join(r).cost = r.cost + sum
  BY <1>6
<1> HIDE DEF t, k, w, D, p, F, v
<1>8. a \in D /\ \A i \in D : w[a] <= w[i]
  <2>1. D # {}
    BY <1>1, <1>4 DEF OneToOne
  <2> QED BY <1>5, <2>1, LightestIs
<1> HIDE DEF a
<1>9. w[a] = t[k].weight
  <2>1. PICK i \in D : e[i] = k
    BY <1>1, <1>4 DEF OneToOne
  <2>2. w[i] = t[k].weight /\ w[a] = t[e[a]].weight /\ e[a] \in F
    BY <1>4, <1>8, <2>1 DEF OneToOne
  <2>3. w[a] <= t[k].weight /\ t[k].weight <= w[a] /\ w[a] \in Nat /\ t[k].weight \in Nat
    BY <1>1, <1>3, <1>5, <1>8, <2>1, <2>2
  <2> QED BY <2>3
<1> DEFINE val == [n \in F |-> t[n].weight]
<1>10. PICK g : OneToOne(g, D, F) /\ g[a] = k /\ \A i \in D : val[g[i]] = val[e[i]]
  <2>1. e[a] \in F /\ val[e[a]] = val[k]
    BY <1>1, <1>4, <1>8, <1>9 DEF OneToOne
  <2> HIDE DEF val
  <2> QED BY <1>1, <1>4, <1>8, <2>1, Renamed
<1>11. \A i \in D : w[i] = val[g[i]] /\ g[i] \in F
  BY <1>4, <1>10 DEF OneToOne
<1> DEFINE C == D \ {a}
           g1 == [i \in C |-> g[i]]
           H == F \ {k}
<1>12. OneToOne(g1, C, H) /\ \A i \in C : g1[i] = g[i]
  BY <1>8, <1>10, OneLess
<1> HIDE DEF C, g1, H
<1>13. b \in C /\ \A i \in C : w[b] <= w[i]
  <2>1. C # {}
    BY <1>1, <1>2, <1>12 DEF OneToOne, H
  <2>2. C \in SUBSET D
    BY DEF C
  <2>3. Lightest(w, C) \in C /\ \A i \in C : w[Lightest(w, C)] <= w[i]
    BY <1>5, <2>1, <2>2, LightestIs
  <2> QED BY <2>3 DEF b, C
<1> HIDE DEF b
<1>14. k - 1 \in H /\ \A n \in H : n \in F
  BY <1>1, <1>2 DEF H
<1>15. w[b] = t[k - 1].weight
  <2>1. PICK i \in C : g1[i] = k - 1
    BY <1>12, <1>14 DEF OneToOne
  <2>2. w[i] = t[k - 1].weight /\ w[b] = t[g1[b]].weight /\ g1[b] \in H
    BY <1>11, <1>12, <1>13, <1>14, <2>1 DEF OneToOne, C
  <2>3. w[b] <= t[k - 1].weight /\ t[k - 1].weight <= w[b] /\ w[b] \in Nat /\ t[k - 1].weight \in Nat
    <3>1. b \in D
      BY <1>13 DEF C
    <3> QED BY <1>1, <1>3, <1>5, <1>13, <2>1, <2>2, <3>1 DEF H
  <2> QED BY <2>3
<1>16. PICK g2 : OneToOne(g2, C, H) /\ g2[b] = k - 1 /\ \A i \in C : val[g2[i]] = val[g1[i]]
  <2>1. val[g1[b]] = val[k - 1]
    <3>1. b \in D
      BY <1>13 DEF C
    <3>2. w[b] = val[g[b]] /\ g[b] = g1[b] /\ val[k - 1] = t[k - 1].weight
      BY <1>1, <1>11, <1>12, <1>13, <3>1
    <3> HIDE DEF val
    <3> QED BY <1>15, <3>2
  <2> HIDE DEF val
  <2> QED BY <1>12, <1>13, <1>14, <2>1, Renamed
<1> DEFINE B == C \ {b}
           g3 == [i \in B |-> g2[i]]
           I == H \ {k - 1}
<1>17. OneToOne(g3, B, I) /\ \A i \in B : g3[i] = g2[i]
  <2>1. OneToOne([i \in C \ {b} |-> g2[i]], C \ {b}, H \ {g2[b]})
    <3> HIDE DEF val
    <3> QED BY <1>13, <1>16, OneLess
  <2> QED BY <1>16, <2>1
<1>18. \A i \in B : w[i] = t[g3[i]].weight
  <2> TAKE i \in B
  <2>1. i \in C /\ i \in D /\ g3[i] = g2[i]
    BY DEF C
  <2>2. g2[i] \in F
    BY <1>14, <1>16, <2>1 DEF OneToOne
  <2>3. w[i] = val[g[i]] /\ g[i] = g1[i] /\ val[g1[i]] = val[g2[i]]
    BY <1>11, <1>12, <1>16, <2>1
  <2> QED BY <2>1, <2>2, <2>3
<1> HIDE DEF B, g3, I, val
<1>19. D \ {b} = B \cup {a} /\ a \notin B
  BY <1>8, <1>13 DEF B, C
<1>20. Frontier(t, k - 2) = I \cup {p} /\ p \notin I
  BY <1>1 DEF I, H
<1> DEFINE e2 == [i \in D \ {b} |-> IF i = a THEN p ELSE g3[i]]
<1>21. OneToOne(e2, D \ {b}, Frontier(t, k - 2))
  <2>1. e2 \in [D \ {b} -> I \cup {p}]
    BY <1>17, <1>19 DEF OneToOne
  <2>2. ASSUME NEW i \in D \ {b}, NEW j \in D \ {b}, e2[i] = e2[j] PROVE i = j
    BY <1>17, <1>19, <1>20, <2>2 DEF OneToOne
  <2>3. ASSUME NEW n \in I \cup {p} PROVE \E i \in D \ {b} : e2[i] = n
    <3>1. CASE n = p
      BY <1>19, <3>1
    <3>2. CASE n \in I
      <4>1. PICK i \in B : g3[i] = n
        BY <1>17, <3>2 DEF OneToOne
      <4> QED BY <1>19, <4>1
    <3> QED BY <3>1, <3>2
  <2> HIDE DEF e2
  <2> QED BY <1>20, <2>1, <2>2, <2>3 DEF OneToOne
<1>22. sum = t[p].weight /\ sum = t[k].weight + t[k - 1].weight /\ sum \in Nat
  <2>1. t[k].weight \in Nat /\ t[k - 1].weight \in Nat
    BY <1>1, <1>3
  <2> HIDE DEF p
  <2> QED BY <1>1, <1>9, <1>15, <2>1
<1>23. \A i \in D \ {b} : v[i] = t[e2[i]].weight
  <2> TAKE i \in D \ {b}
  <2>1. CASE i = a
    BY <1>7, <1>22, <2>1
  <2>2. CASE i # a
    <3>1. i \in B /\ e2[i] = g3[i] /\ v[i] = w[i]
      BY <1>7, <1>19, <2>2
    <3> QED BY <1>18, <3>1
  <2> QED BY <2>1, <2>2
<1>24. DOMAIN v = D \ {b} /\ v \in [D \ {b} -> Nat] /\ D \ {b} # {} /\ b \in D
  <2>1. b \in D
    BY <1>13 DEF C
  <2> HIDE DEF sum
  <2> QED BY <1>5, <1>7, <1>19, <1>22, <2>1
<1> HIDE DEF e2
<1>25. Follows(v, t, k - 2)
  BY <1>21, <1>23, <1>24 DEF Follows
<1>26. Join(r).cost = r.cost + (t[k].weight + t[k - 1].weight) /\ Join(r).cost \in Nat
  <2> HIDE DEF sum
  <2> QED BY <1>7, <1>22
<1> HIDE DEF sum
<1> QED BY <1>24, <1>25, <1>26 DEF v, t, k, w, D

Forests(h, L, u) ==
  u = [i \in 1 .. L |-> IF i = 1 THEN [weights |-> [n \in Leaves(h) |-> h.tree[n].weight], cost |-> 0]
                        ELSE Join(u[i - 1])]

\* The recursion of HuffmanCost.
LEMMA ForestsExist ==
  ASSUME NEW h, NEW L \in Nat
  PROVE  \E u : Forests(h, L, u)
<1> DEFINE first == [weights |-> [n \in Leaves(h) |-> h.tree[n].weight], cost |-> 0]
           Good(m, u) == u = [i \in 1 .. m |-> IF i = 1 THEN first ELSE Join(u[i - 1])]
           T == {m \in Nat : \E u : Good(m, u)}
<1> HIDE DEF first
<1>1. 0 \in T
  <2>1. Good(0, [i \in 1 .. 0 |-> first])
    OBVIOUS
  <2> QED BY <2>1
<1>2. ASSUME NEW m \in T PROVE m + 1 \in T
  <2>1. PICK u : Good(m, u)
    OBVIOUS
  <2>2. m \in Nat
    OBVIOUS
  <2> HIDE DEF T
  <2> DEFINE g == [i \in 1 .. m + 1 |-> IF i = 1 THEN first ELSE Join(u[i - 1])]
  <2>3. \A i \in 1 .. m : g[i] = u[i]
    <3> TAKE i \in 1 .. m
    <3>1. i \in 1 .. m + 1
      BY <2>2
    <3>2. g[i] = IF i = 1 THEN first ELSE Join(u[i - 1])
      BY <3>1
    <3>3. u[i] = IF i = 1 THEN first ELSE Join(u[i - 1])
      BY <2>1
    <3> HIDE DEF g
    <3> QED BY <3>2, <3>3
  <2>4. ASSUME NEW i \in 1 .. m + 1
        PROVE  (IF i = 1 THEN first ELSE Join(u[i - 1])) = IF i = 1 THEN first ELSE Join(g[i - 1])
    <3>1. i = 1 \/ i - 1 \in 1 .. m
      BY <2>2
    <3> HIDE DEF g
    <3> QED BY <2>3, <3>1
  <2>5. g = [i \in 1 .. m + 1 |-> IF i = 1 THEN first ELSE Join(g[i - 1])]
    <3>1. g = [i \in 1 .. m + 1 |-> IF i = 1 THEN first ELSE Join(u[i - 1])]
      OBVIOUS
    <3> HIDE DEF g
    <3> QED BY <2>4, <3>1
  <2>6. Good(m + 1, g)
    BY <2>5
  <2>7. m + 1 \in Nat
    BY <2>2
  <2> HIDE DEF g, Good
  <2> QED BY <2>6, <2>7 DEF T
<1>3. T = Nat
  <2>1. T \in SUBSET Nat
    BY DEF T
  <2> HIDE DEF T
  <2> QED BY <1>1, <1>2, <2>1, NatSetInduction
<1>4. PICK u : Good(L, u)
  BY <1>3
<1> QED BY <1>4 DEF Forests, first

\* A tree between two symbols costs what Huffman's construction costs.
LEMMA SettledOptimal ==
  ASSUME NEW h, Settled(h)
  PROVE  Cost(h) = HuffmanCost(h)
<1> DEFINE t == h.tree
           f == h.next_free_slot
           L == Cardinality(Leaves(h))
           u == CHOOSE r : Forests(h, L, r)
<1>1. /\ t \in [Nodes -> Node] /\ f \in 1 .. 2 * alphabet_size + 1 /\ Upward(t)
      /\ Rooted(t, f) /\ Branches(t, f) /\ Labels(h)
  BY CoderFields, ShapeUpward DEF Settled, Shape
<1>2. f \in Nat /\ (\A n \in 0 .. f - 1 : n \in Nodes /\ n # NIL)
  BY <1>1, AlphabetAssumption DEF Nodes, NIL
<1>3. PICK c \in Nat : f = 1 + 2 * c
  BY OddSlots DEF Settled
<1>4. Leaves(h) = Frontier(t, 2 * c) /\ Leaves(h) \in SUBSET (0 .. f - 1)
  <2>1. Used(h) = 0 .. f - 1 /\ 2 * c = f - 1
    BY <1>3 DEF Used
  <2>2. ASSUME NEW n \in 0 .. f - 1
        PROVE  is_leaf(t[n]) <=> \A x \in Children(t[n]) : x > f - 1
    <3>1. is_leaf(t[n]) <=> t[n].symbol # Inner
      BY <1>1, <1>2, LeafIs
    <3>2. CASE t[n].symbol # Inner
      <4>1. Children(t[n]) = {}
        BY <1>1, <3>2 DEF Branches, Children
      <4> QED BY <3>1, <3>2, <4>1
    <3>3. CASE t[n].symbol = Inner
      <4>1. t[n].left \in n + 1 .. f - 1
        BY <1>1, <3>3 DEF Branches
      <4>2. t[n].left # NIL /\ ~ (t[n].left > f - 1)
        <5>1. n \in Nat
          BY <1>2
        <5> QED BY <1>2, <4>1, <5>1 DEF NIL
      <4>3. t[n].left \in Children(t[n])
        BY <4>2 DEF Children
      <4> QED BY <3>1, <3>3, <4>2, <4>3
    <3> QED BY <3>2, <3>3
  <2> HIDE DEF t, f
  <2>3. Leaves(h) = {n \in 0 .. f - 1 : is_leaf(t[n])}
    BY <2>1 DEF Leaves, t
  <2>4. Frontier(t, 2 * c) = {n \in 0 .. f - 1 : \A x \in Children(t[n]) : x > f - 1}
    BY <2>1 DEF Frontier
  <2> QED BY <2>2, <2>3, <2>4
<1>5. IsFiniteSet(Leaves(h)) /\ L \in Nat /\ L >= 1
  <2>1. IsFiniteSet(0 .. f - 1)
    BY <1>2, FS_Interval
  <2>2. IsFiniteSet(Leaves(h))
    BY <1>4, <2>1, FS_Subset
  <2>3. Leaves(h) # {}
    <3>1. f - 1 \in 0 .. f - 1
      BY <1>1, <1>2
    <3>2. t[f - 1].symbol = NYT
      BY <1>1, <3>1 DEF Labels
    <3>3. is_leaf(t[f - 1])
      <4>1. NYT # Inner
        BY AlphabetAssumption DEF NYT, Inner
      <4> HIDE DEF f, t
      <4> QED BY <1>1, <1>2, <3>1, <3>2, <4>1, LeafIs
    <3> QED BY <3>1, <3>3 DEF Leaves, Used
  <2>4. L \in Nat /\ L # 0
    BY <2>2, <2>3, FS_CardinalityType, FS_EmptySet
  <2> QED BY <2>2, <2>4
<1>6. Forests(h, L, u)
  <2> HIDE DEF L
  <2> QED BY <1>5, ForestsExist
<1>7. HuffmanCost(h) = u[L].cost
  BY DEF HuffmanCost, Forests
<1>8. Cost(h) = Total(Terms(t, f, 2 * c), f)
  <2>1. Used(h) = 0 .. f - 1
    BY DEF Used
  <2> QED BY <1>4, <2>1 DEF Cost, Terms
<1> HIDE DEF t, f, L, u
<1> DEFINE D(j) == DOMAIN u[j + 1].weights
           Done(j) == /\ j + 1 <= L
                      /\ Follows(u[j + 1].weights, t, 2 * (c - j)) /\ u[j + 1].cost \in Nat
                      /\ u[j + 1].cost + Total(Terms(t, f, 2 * (c - j)), f) = Cost(h)
                      /\ IsFiniteSet(D(j)) /\ Cardinality(D(j)) = L - j
           T == {j \in Nat : j <= c => Done(j)}
<1>9. 0 \in T
  <2>1. 1 \in 1 .. L
    BY <1>5
  <2>2. u[1] = [weights |-> [n \in Leaves(h) |-> t[n].weight], cost |-> 0]
    BY <1>6, <2>1 DEF Forests, t
  <2> DEFINE w == [n \in Leaves(h) |-> t[n].weight]
             e == [n \in Leaves(h) |-> n]
  <2>3. \A n \in Leaves(h) : t[n].weight \in Nat
    BY <1>1, <1>2, <1>4, NodeFields
  <2>4. w \in [DOMAIN w -> Nat] /\ DOMAIN w = Leaves(h)
    BY <2>3
  <2>5. OneToOne(e, Leaves(h), Frontier(t, 2 * c)) /\ \A i \in Leaves(h) : w[i] = t[e[i]].weight
    BY <1>4 DEF OneToOne
  <2> HIDE DEF w, e
  <2>6. Follows(w, t, 2 * c)
    BY <2>4, <2>5 DEF Follows
  <2>7. u[1].weights = w /\ u[1].cost = 0
    BY <2>2 DEF w
  <2>8. 2 * (c - 0) = 2 * c /\ 0 + 1 = 1 /\ 1 <= L /\ L - 0 = L
    BY <1>3, <1>5
  <2>9. 0 + Total(Terms(t, f, 2 * c), f) = Cost(h)
    <3>1. Total(Terms(t, f, 2 * c), f) \in Nat
      BY TermsType DEF Settled, t, f
    <3> QED BY <1>8, <3>1
  <2>10. D(0) = Leaves(h)
    BY <2>4, <2>7, <2>8
  <2>11. Done(0)
    BY <1>5, <2>6, <2>7, <2>8, <2>9, <2>10 DEF L
  <2> QED BY <2>11
<1>10. ASSUME NEW j \in T PROVE j + 1 \in T
  <2>1. SUFFICES ASSUME j + 1 <= c PROVE Done(j + 1)
    BY DEF T
  <2>2. j \in Nat /\ Done(j)
    BY <1>3, <2>1 DEF T
  <2> DEFINE m == c - j
             r == u[j + 1]
             k == 2 * m
             S == t[k].weight + t[k - 1].weight
  <2>3. m \in Nat /\ m > 0 /\ 2 * m <= f - 1 /\ 2 * (c - (j + 1)) = k - 2
    BY <1>3, <2>1, <2>2
  <2>4. Follows(r.weights, t, 2 * m) /\ r.cost \in Nat
    BY <2>2
  <2> HIDE DEF T, m, r, Done
  <2>5. /\ Follows(Join(r).weights, t, k - 2)
        /\ Join(r).cost = r.cost + S /\ Join(r).cost \in Nat
        /\ \E b \in DOMAIN r.weights : DOMAIN Join(r).weights = DOMAIN r.weights \ {b} /\ DOMAIN r.weights \ {b} # {}
    BY <2>3, <2>4, JoinFollows DEF t, f
  <2>6. /\ Total(Terms(t, f, k), f) \in Nat /\ Total(Terms(t, f, k - 2), f) \in Nat
        /\ Total(Terms(t, f, k - 2), f) + S = Total(Terms(t, f, k), f)
    BY <2>3, TermsStep DEF t, f
  <2>7. /\ IsFiniteSet(DOMAIN r.weights) /\ Cardinality(DOMAIN r.weights) = L - j
        /\ r.cost + Total(Terms(t, f, k), f) = Cost(h) /\ j + 1 <= L
    BY <2>2 DEF Done, r, m
  <2>8. S \in Nat
    <3>1. k \in Nodes /\ k - 1 \in Nodes
      <4>1. k \in 0 .. f - 1 /\ k - 1 \in 0 .. f - 1
        BY <1>3, <2>3
      <4> QED BY <1>2, <4>1
    <3>2. t[k].weight \in Nat /\ t[k - 1].weight \in Nat
      BY <1>1, <3>1, NodeFields
    <3> QED BY <3>2
  <2>9. /\ IsFiniteSet(DOMAIN Join(r).weights) /\ Cardinality(DOMAIN Join(r).weights) = L - (j + 1)
        /\ (j + 1) + 1 <= L
    <3>1. PICK b \in DOMAIN r.weights : /\ DOMAIN Join(r).weights = DOMAIN r.weights \ {b}
                                        /\ DOMAIN r.weights \ {b} # {}
      BY <2>5
    <3> DEFINE E == DOMAIN r.weights
    <3> HIDE DEF E
    <3>2. IsFiniteSet(E \ {b}) /\ Cardinality(E \ {b}) = Cardinality(E) - 1
      BY <2>7, <3>1, FS_RemoveElement DEF E
    <3>3. Cardinality(E \ {b}) \in Nat /\ Cardinality(E \ {b}) # 0
      BY <3>1, <3>2, FS_CardinalityType, FS_EmptySet DEF E
    <3>4. Cardinality(E) = L - j
      BY <2>7 DEF E
    <3>5. (L - j) - 1 = L - (j + 1) /\ (j + 1) + 1 <= L
      BY <1>5, <2>2, <3>2, <3>3, <3>4
    <3> QED BY <3>1, <3>2, <3>4, <3>5 DEF E
  <2>10. u[(j + 1) + 1] = Join(r)
    <3>1. (j + 1) + 1 \in 1 .. L /\ (j + 1) + 1 # 1 /\ ((j + 1) + 1) - 1 = j + 1
      BY <1>5, <2>2, <2>9
    <3> QED BY <1>6, <3>1 DEF Forests, r
  <2> DEFINE A == Total(Terms(t, f, k), f)
             B == Total(Terms(t, f, k - 2), f)
  <2>11. Join(r).cost + B = Cost(h)
    <3>1. Join(r).cost = r.cost + S /\ B + S = A /\ r.cost + A = Cost(h) /\ A \in Nat /\ B \in Nat /\ r.cost \in Nat
      BY <2>4, <2>5, <2>6, <2>7
    <3> HIDE DEF A, B, S
    <3> QED BY <2>8, <3>1
  <2> HIDE DEF S, k
  <2> QED BY <2>3, <2>5, <2>9, <2>10, <2>11 DEF Done
<1>11. T = Nat
  <2>1. T \in SUBSET Nat
    BY DEF T
  <2> HIDE DEF T
  <2> QED BY <1>9, <1>10, <2>1, NatSetInduction
<1>12. Done(c)
  <2>1. c \in T
    BY <1>3, <1>11
  <2> QED BY <1>3, <2>1 DEF T
<1>13. 2 * (c - c) = 0 /\ 0 \in 0 .. f - 1
  BY <1>1, <1>3
<1>14. L = c + 1
  <2>1. Frontier(t, 0) \in SUBSET {0}
    <3>1. 0 .. 0 = {0}
      OBVIOUS
    <3> QED BY <3>1 DEF Frontier
  <2>2. PICK e : OneToOne(e, D(c), Frontier(t, 0))
    BY <1>12, <1>13 DEF Follows
  <2>3. \A x, y \in D(c) : x = y
    BY <2>1, <2>2 DEF OneToOne
  <2>4. IsFiniteSet(D(c)) /\ Cardinality(D(c)) = L - c /\ c + 1 <= L
    BY <1>12
  <2> DEFINE E == D(c)
  <2> HIDE DEF E
  <2>5. E # {}
    <3>1. Cardinality(E) # 0
      BY <1>3, <1>5, <2>4 DEF E
    <3> QED BY <3>1, FS_EmptySet
  <2>6. PICK x : E = {x}
    BY <2>3, <2>5 DEF E
  <2>7. Cardinality(E) = 1
    BY <2>6, FS_Singleton
  <2> QED BY <1>3, <1>5, <2>4, <2>7 DEF E
<1>15. Total(Terms(t, f, 0), f) = 0
  <2>1. ASSUME NEW n \in 0 .. f - 1 PROVE Terms(t, f, 0)[n] = 0
    <3>1. CASE n = 0
      <4>1. 0 \in Nodes /\ t[0].parent = NIL
        BY <1>1, <1>2, <1>13 DEF Rooted
      <4>2. Path(t, 0) = <<>> /\ t[0].weight \in Nat
        BY <1>1, <4>1, PathOf, NodeFields
      <4>3. Len(<<>>) = 0 /\ \A x \in Nat : x * 0 = 0
        OBVIOUS
      <4> QED BY <3>1, <4>2, <4>3 DEF Terms
    <3>2. CASE n # 0
      BY <3>2 DEF Terms, Frontier
    <3> QED BY <3>1, <3>2
  <2>2. Terms(t, f, 0) \in [0 .. f - 1 -> Nat]
    <3>1. Terms(t, f, 0) = [n \in 0 .. f - 1 |-> Terms(t, f, 0)[n]]
      BY DEF Terms
    <3> QED BY <2>1, <3>1
  <2> QED BY <1>2, <2>1, <2>2, TotalZero
<1>16. u[c + 1].cost + 0 = Cost(h) /\ u[c + 1].cost \in Nat
  BY <1>12, <1>13, <1>15
<1> HIDE DEF Done, T
<1> QED BY <1>7, <1>14, <1>16

\* The encoder's tree is settled between two symbols.
LEMMA EncoderSettled == Spec => [](HuffmanInv /\ Paired(enc.tree, enc.next_free_slot))
<1> DEFINE P == Paired(enc.tree, enc.next_free_slot)
<1>1. Init => P
  <2> SUFFICES ASSUME Init PROVE P
    OBVIOUS
  <2>1. enc.next_free_slot = 1
    BY DEF Init, NewCoder
  <2> QED BY <2>1 DEF Paired
<1>2. HuffmanInv /\ P /\ [Next]_vars => P'
  <2> SUFFICES ASSUME HuffmanInv, P, [Next]_vars PROVE P'
    OBVIOUS
  <2>1. CoderInv(enc) /\ eof_symbol \in Symbols
    BY HuffmanAssumption DEF HuffmanInv
  <2>2. \/ enc' = enc
        \/ \E s \in Symbols : enc' = encode(enc, s).next
    BY <2>1 DEF Next, Encode, Write, EncodeEnd, Cut, Decode, vars
  <2>3. CASE enc' = enc
    BY <2>3
  <2>4. ASSUME NEW s \in Symbols, enc' = encode(enc, s).next PROVE P'
    BY <2>1, <2>4, EncodePaired
  <2> QED BY <2>2, <2>3, <2>4
<1> QED BY <1>1, <1>2, HuffmanInit, HuffmanNext, PTL DEF Spec

\* After every symbol the code that the tree gives is one of the cheapest for
\* the symbols so far: the pairs in the array are joined as Huffman would.
THEOREM OptimalCorrect == Spec => []Optimal
<1>1. HuffmanInv /\ Paired(enc.tree, enc.next_free_slot) => Optimal
  <2> SUFFICES ASSUME HuffmanInv, Paired(enc.tree, enc.next_free_slot) PROVE Optimal
    OBVIOUS
  <2>1. Settled(enc)
    BY DEF HuffmanInv, CoderInv, OnWay, Weighed, Settled
  <2> QED BY <2>1, SettledOptimal DEF Optimal
<1> QED BY <1>1, EncoderSettled, PTL
===============================================================================
