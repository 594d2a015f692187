------------------------------ MODULE HuffmanTree ------------------------------
(***************************************************************************)
(* The code tree of src/encoders/AdaptiveHuffman.cpp, as operators on      *)
(* coder objects.  The tree lies in an array: node 0 is the root, weights  *)
(* are meant to fall with the index, and the last node is the not yet      *)
(* transmitted leaf (NYT), under which new symbols enter.  The encoder     *)
(* keeps the code of a symbol until some swap changes the tree.            *)
(*                                                                         *)
(* A code is a sequence of bits, root first; map_code packs it in 64 bits. *)
(* The weights are 64 bits wide and do not overflow.                       *)
(***************************************************************************)
EXTENDS Integers, Sequences, FiniteSets, SequencesExt

CONSTANT alphabet_size \* symbols, the end-of-file symbol included

ASSUME AlphabetAssumption == alphabet_size \in Nat \ {0}

Symbols == 0 .. alphabet_size - 1
NIL == -1
NoCode == <<NIL>>  \* map_code_length is -1

\* The symbol of the NYT leaf and of an inner node.
NYT == alphabet_size
Inner == alphabet_size + 1

\* A symbol adds two nodes to the one there is in the beginning.
Nodes == 0 .. 2 * alphabet_size

NewNode == [weight |-> 0, symbol |-> 0, parent |-> NIL, left |-> NIL, right |-> NIL]

invalidate_cache == [s \in 0 .. alphabet_size |-> NoCode]

NewCoder ==
  [tree |-> [n \in Nodes |-> IF n = 0 THEN [NewNode EXCEPT !.symbol = NYT] ELSE NewNode],
   nyt_node |-> 0, next_free_slot |-> 1,
   map_leaf |-> [s \in Symbols |-> NIL], map_code |-> invalidate_cache]

is_leaf(node) == node.left = NIL /\ node.right = NIL

Children(node) == {node.left, node.right} \ {NIL}

-------------------------------------------------------------------------------
(* Codes. *)

\* The bits from the root to a node: 1 where the way goes right.
Path(tree, node) ==
  LET path[n \in Nodes] ==
        LET parent == tree[n].parent
        IN  IF parent = NIL THEN <<>>
            ELSE Append(path[parent], IF tree[parent].right = n THEN 1 ELSE 0)
  IN  path[node]

\* number >> i
Shifted(number, i) ==
  LET shifted[j \in 0 .. alphabet_size + 1] ==
        IF j = 0 THEN number ELSE shifted[j - 1] \div 2
  IN  shifted[i]

\* (int) log2(alphabet_size)
log_alphabet_size == CHOOSE l \in 0 .. alphabet_size : Shifted(alphabet_size, l) = 1

\* The symbol in log_alphabet_size + 1 bits, and the number such bits make.
Literal(symbol) ==
  [j \in 1 .. log_alphabet_size + 1 |-> Shifted(symbol, log_alphabet_size + 1 - j) % 2]

Number(bits) ==
  LET number[i \in 0 .. Len(bits)] == IF i = 0 THEN 0 ELSE 2 * number[i - 1] + bits[i]
  IN  number[Len(bits)]

-------------------------------------------------------------------------------
(* Updating the tree. *)

\* Slip: the children keep the parent they had.
Adopted_not(t, first, second, n) == t[n].parent

\* The parent of n after first and second have exchanged their children.
Adopted(t, first, second, n) ==
  CASE n \in Children(t[first])  -> second
    [] n \in Children(t[second]) -> first
    [] OTHER -> t[n].parent

\* Two subtrees change places: each array slot keeps its parent and gets the
\* other's weight, symbol and children.
swap(h, first, second) ==
  LET t == h.tree
      at(n) == CASE n = first  -> [t[second] EXCEPT !.parent = t[first].parent]
                 [] n = second -> [t[first] EXCEPT !.parent = t[second].parent]
                 [] OTHER -> [t[n] EXCEPT !.parent = Adopted(t, first, second, n)]
      leaf(s) == CASE t[second].symbol = s -> first
                   [] t[first].symbol = s -> second
                   [] OTHER -> h.map_leaf[s]
  IN  [h EXCEPT !.tree = [n \in Nodes |-> at(n)], !.map_leaf = [s \in Symbols |-> leaf(s)]]

\* The slots before node, without a gap, that have its weight.
Block(tree, node) ==
  {i \in 0 .. node : \A j \in i .. node : tree[j].weight = tree[node].weight}

\* Slip: the block is taken to end at the next slot.
get_block_leader_next(tree, node) ==
  IF node - 1 \in Block(tree, node) /\ node - 1 # tree[node].parent THEN node - 1 ELSE node

\* The foremost slot of the block, passing over what is the parent of the
\* leader found so far.
get_block_leader(tree, node) ==
  LET leader[i \in 0 .. node] ==
        IF i = node THEN node
        ELSE LET found == leader[i + 1]
             IN  IF i # tree[found].parent THEN i ELSE found
  IN  leader[Min(Block(tree, node))]

\* Neither is the root or the parent of the other.
MaySwap(tree, leader, node) ==
  /\ leader # node
  /\ tree[leader].parent \notin {NIL, node}
  /\ tree[node].parent \notin {NIL, leader}

Heavier(node) == [node EXCEPT !.weight = node.weight + 1]

Raise(h, node) == [h EXCEPT !.tree = [h.tree EXCEPT ![node] = Heavier(h.tree[node])]]

\* One round of the loop of slide_and_increment; the walk goes on from the
\* parent of the slot the node has come to.
Climb(walk) ==
  LET leader == get_block_leader(walk.coder.tree, walk.node)
      swaps == MaySwap(walk.coder.tree, leader, walk.node)
      h == IF swaps THEN swap(walk.coder, leader, walk.node) ELSE walk.coder
      node == IF swaps THEN leader ELSE walk.node
  IN  [coder |-> Raise(h, node),
       node |-> h.tree[node].parent, swapped |-> walk.swapped \/ swaps]

Walk(h, node) ==
  LET walk[i \in 0 .. h.next_free_slot] ==
        IF i = 0 THEN [coder |-> h, node |-> node, swapped |-> FALSE]
        ELSE LET before == walk[i - 1]
             IN  IF before.node = NIL THEN before ELSE Climb(before)
  IN  walk[h.next_free_slot]

\* Slip: codes are kept although their leaves have moved.
slide_and_increment_keeping(h, node) == Walk(h, node).coder

slide_and_increment(h, node) ==
  LET walk == Walk(h, node)
  IN  IF walk.swapped THEN [walk.coder EXCEPT !.map_code = invalidate_cache] ELSE walk.coder

\* A symbol seen for the first time: the NYT leaf becomes an inner node with
\* the symbol to its right and the new NYT leaf to its left.
Split(h, symbol) ==
  LET t == h.tree
      right == h.next_free_slot
      left == right + 1
      at(n) == CASE n = h.nyt_node -> [t[n] EXCEPT !.symbol = Inner, !.left = left, !.right = right]
                 [] n = right -> [t[n] EXCEPT !.symbol = symbol, !.parent = h.nyt_node]
                 [] n = left  -> [t[n] EXCEPT !.symbol = NYT, !.parent = h.nyt_node]
                 [] OTHER     -> t[n]
  IN  [h EXCEPT !.tree = [n \in Nodes |-> at(n)], !.next_free_slot = left + 1,
                !.map_leaf = [h.map_leaf EXCEPT ![symbol] = right], !.nyt_node = left]

Seen(h, symbol) == h.map_leaf[symbol] # NIL

update_tree(h, symbol) ==
  LET grown == IF Seen(h, symbol) THEN h ELSE Split(h, symbol)
  IN  slide_and_increment(grown, grown.map_leaf[symbol])

-------------------------------------------------------------------------------
(* One symbol. *)

\* write_symbol(node): the code is remembered under the symbol of the node.
Remember(h, symbol, code) == [h EXCEPT !.map_code = [h.map_code EXCEPT ![symbol] = code]]

encode(h, symbol) ==
  LET leaf == IF Seen(h, symbol) THEN h.map_leaf[symbol] ELSE h.nyt_node
      code == IF Seen(h, symbol) /\ h.map_code[symbol] # NoCode THEN h.map_code[symbol]
              ELSE Path(h.tree, leaf)
  IN  [next |-> update_tree(Remember(h, h.tree[leaf].symbol, code), symbol),
       bits |-> IF Seen(h, symbol) THEN code ELSE code \o Literal(symbol)]

\* The node that the first i of the bits lead to.
Descend(tree, bits) ==
  LET at[i \in 0 .. Len(bits)] ==
        IF i = 0 THEN 0
        ELSE LET before == at[i - 1]
                 node == tree[before]
             IN  CASE is_leaf(node) -> before
                   [] ~is_leaf(node) /\ bits[i] = 0 -> node.left
                   [] ~is_leaf(node) /\ bits[i] = 1 -> node.right
  IN  at

\* What comes out when literals have `width' bits; when the bits end before, -1.
decode_with(h, bits, width) ==
  LET at == Descend(h.tree, bits)
      leaves == {i \in 0 .. Len(bits) : is_leaf(h.tree[at[i]])}
      short == [symbol |-> NIL, next |-> h, used |-> Len(bits)]
      done(symbol, used) == [symbol |-> symbol, next |-> update_tree(h, symbol), used |-> used]
  IN  IF leaves = {} THEN short
      ELSE LET used == Min(leaves)
               found == h.tree[at[used]].symbol
           IN  IF found # NYT THEN done(found, used)
               ELSE IF Len(bits) < used + width THEN short
               ELSE done(Number(SubSeq(bits, used + 1, used + width)), used + width)

\* Slip: one bit too few of a literal is read.
decode_literal(h, bits) == decode_with(h, bits, log_alphabet_size)

\* decode reads bits up to a leaf, and a literal after the NYT leaf.
decode(h, bits) == decode_with(h, bits, log_alphabet_size + 1)
===============================================================================
