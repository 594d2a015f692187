---------------------------- MODULE AdaptiveHuffman ----------------------------
(***************************************************************************)
(* An AdaptiveHuffman object that encodes and one that decodes what the    *)
(* first wrote.  Both start from the same tree and change it after each    *)
(* symbol; nothing but the bits passes between them.  `bits' are written   *)
(* and not read yet, `pending' the symbols they stand for; the decoder may *)
(* be any number of symbols behind, so it is the later reader of an        *)
(* archive as well as a reader that follows the writer.                    *)
(***************************************************************************)
EXTENDS HuffmanTree

CONSTANTS
  eof_symbol,     \* ends the archive; the last symbol of the alphabet
  MAX_ALPHA_SIZE, \* largest alphabet the constructor's assert lets pass (513)
  Paddings,       \* numbers of bits that fill up the last byte
  MaxSymbols,     \* bound on the symbols encoded
  MaxLag          \* bound on the symbols the decoder is behind

ASSUME HuffmanAssumption ==
  /\ eof_symbol \in Symbols
  /\ Paddings \subseteq 0 .. 7
  /\ MAX_ALPHA_SIZE \in Nat /\ alphabet_size <= MAX_ALPHA_SIZE
  /\ MaxSymbols \in Nat /\ MaxLag \in Nat

VARIABLES
  enc,      \* the encoder
  dec,      \* the decoder
  bits,     \* written, not read
  pending,  \* symbols written, not read
  archive,  \* open, complete or cut
  output,   \* the symbol decoded last
  eof       \* the decoder's flag

vars == <<enc, dec, bits, pending, archive, output, eof>>

Init ==
  /\ enc = NewCoder /\ dec = NewCoder
  /\ bits = <<>> /\ pending = <<>> /\ archive = "open" /\ output = NIL /\ eof = FALSE

-------------------------------------------------------------------------------
Write(symbol) ==
  LET done == encode(enc, symbol)
  IN  /\ enc' = done.next
      /\ bits' = bits \o done.bits
      /\ pending' = Append(pending, symbol)

Encode(symbol) ==
  /\ archive = "open" /\ symbol # eof_symbol
  /\ enc.tree[0].weight < MaxSymbols /\ Len(pending) < MaxLag
  /\ Write(symbol)
  /\ UNCHANGED <<dec, archive, output, eof>>

\* encode_end; what flush_remaining adds to fill the last byte is at most
\* seven bits of zero.
EncodeEnd(padding) ==
  /\ archive = "open" /\ archive' = "complete"
  /\ LET done == encode(enc, eof_symbol)
     IN  /\ enc' = done.next
         /\ bits' = bits \o done.bits \o [j \in 1 .. padding |-> 0]
         /\ pending' = Append(pending, eof_symbol)
  /\ UNCHANGED <<dec, output, eof>>

\* The writer was stopped, and its last bits never reached the file.
Cut(n) ==
  /\ archive = "open" /\ archive' = "cut"
  /\ n <= Len(bits) /\ bits' = SubSeq(bits, 1, n)
  /\ UNCHANGED <<enc, dec, pending, output, eof>>

\* One round of decode_array.  In an open archive only what was written whole
\* can be read.
Decode ==
  LET done == decode(dec, bits)
  IN  /\ ~eof /\ (done.symbol = NIL => archive # "open")
      /\ dec' = done.next
      /\ bits' = SubSeq(bits, done.used + 1, Len(bits))
      /\ IF done.symbol \in {NIL, eof_symbol}
         THEN eof' = TRUE /\ UNCHANGED <<pending, output>>
         ELSE eof' = FALSE /\ output' = done.symbol /\ pending' = Tail(pending)
      /\ UNCHANGED <<enc, archive>>

Next ==
  \/ \E symbol \in Symbols : Encode(symbol)
  \/ \E padding \in Paddings : EncodeEnd(padding)
  \/ \E n \in 0 .. Len(bits) : Cut(n)
  \/ Decode

Spec == Init /\ [][Next]_vars

-------------------------------------------------------------------------------
Code == Seq({0, 1})

CoderType(h) ==
  /\ h.tree \in [Nodes -> [weight : 0 .. MaxSymbols + 1, symbol : 0 .. alphabet_size + 1,
                           parent : Nodes \cup {NIL}, left : Nodes \cup {NIL},
                           right : Nodes \cup {NIL}]]
  /\ h.nyt_node \in Nodes /\ h.next_free_slot \in 1 .. 2 * alphabet_size + 1
  /\ h.map_leaf \in [Symbols -> Nodes \cup {NIL}]
  /\ DOMAIN h.map_code = 0 .. alphabet_size
  /\ \A s \in 0 .. alphabet_size : h.map_code[s] = NoCode \/ h.map_code[s] \in Code

TypeOK ==
  /\ CoderType(enc) /\ CoderType(dec)
  /\ bits \in Code /\ pending \in Seq(Symbols)
  /\ archive \in {"open", "complete", "cut"} /\ output \in Symbols \cup {NIL}
  /\ eof \in BOOLEAN

Used(h) == 0 .. h.next_free_slot - 1

\* The length of the array `tree'.
MAX_TREE_NODES == MAX_ALPHA_SIZE * 2 - 1

\* The array holds one binary tree with root 0, its only NYT leaf is nyt_node,
\* and map_leaf is the inverse of the leaves' symbols: whatever was swapped.  A
\* tree begins with one node and gains two with each new symbol, so all fit the
\* array if the alphabet is smaller than the largest one, which would need two
\* nodes more than there are though the constructor's assert lets it pass.
WellFormed ==
  \A h \in {enc, dec} :
    /\ alphabet_size < MAX_ALPHA_SIZE => h.next_free_slot <= MAX_TREE_NODES
    /\ h.tree[0].parent = NIL /\ h.tree[h.nyt_node].symbol = NYT
    /\ \A n \in Used(h) :
         /\ Cardinality(Children(h.tree[n])) = (IF h.tree[n].symbol = Inner THEN 2 ELSE 0)
         /\ \A child \in Children(h.tree[n]) : h.tree[child].parent = n
         /\ n # 0 => n \in Children(h.tree[h.tree[n].parent])
         /\ h.tree[n].symbol = NYT => n = h.nyt_node
         /\ h.tree[n].symbol \in Symbols => h.map_leaf[h.tree[n].symbol] = n
    /\ \A s \in Symbols : Seen(h, s) => h.tree[h.map_leaf[s]].symbol = s

\* Between two symbols every inner node weighs what its children weigh, and
\* the weights fall with the index, which get_block_leader relies on.
SiblingProperty ==
  \A h \in {enc, dec} : \A n \in Used(h) :
    /\ h.tree[n].symbol = Inner =>
         h.tree[n].weight = h.tree[h.tree[n].left].weight + h.tree[h.tree[n].right].weight
    /\ n > 0 => h.tree[n].weight <= h.tree[n - 1].weight

\* The code the encoder remembers for a symbol is the one its tree gives: no
\* swap and no split leaves a stale code behind.
CodesFresh ==
  \A s \in Symbols : Seen(enc, s) /\ enc.map_code[s] # NoCode =>
    enc.map_code[s] = Path(enc.tree, enc.map_leaf[s])

\* A symbol is decoded from exactly its own bits, in the order of the writer;
\* out of a cut archive nothing is decoded that was not encoded.
DecodesOldest ==
  [][dec' # dec =>
       /\ pending # <<>>
       /\ IF eof' THEN Head(pending) = eof_symbol ELSE output' = Head(pending)]_vars

-------------------------------------------------------------------------------
(* The cost of the best prefix code, by Huffman's own construction.        *)

\* terms[0] + ... + terms[m - 1]
Total(terms, m) ==
  LET total[n \in 0 .. m] == IF n = 0 THEN 0 ELSE total[n - 1] + terms[n - 1]
  IN  total[m]

Leaves(h) == {n \in Used(h) : is_leaf(h.tree[n])}

\* The bits of all codes for the symbols so far.
Cost(h) ==
  Total([n \in Used(h) |-> IF n \in Leaves(h) THEN h.tree[n].weight * Len(Path(h.tree, n)) ELSE 0],
        h.next_free_slot)

Lightest(weights, trees) == CHOOSE n \in trees : \A m \in trees : weights[n] <= weights[m]

\* The two lightest trees are joined, under the name of the one.
Join(forest) ==
  LET w == forest.weights
      first == Lightest(w, DOMAIN w)
      second == Lightest(w, DOMAIN w \ {first})
      sum == w[first] + w[second]
  IN  [weights |-> [n \in DOMAIN w \ {second} |-> IF n = first THEN sum ELSE w[n]],
       cost |-> forest.cost + sum]

HuffmanCost(h) ==
  LET forest[i \in 1 .. Cardinality(Leaves(h))] ==
        IF i = 1 THEN [weights |-> [n \in Leaves(h) |-> h.tree[n].weight], cost |-> 0]
        ELSE Join(forest[i - 1])
  IN  forest[Cardinality(Leaves(h))].cost

\* After every symbol the code is one of the cheapest for the symbols so far,
\* which is what the swaps with the block leader are for.
Optimal == Cost(enc) = HuffmanCost(enc)

===============================================================================
