----------------------------- MODULE BlockFormat -----------------------------
(***************************************************************************)
(* What the blocks of a file hold: serialize_node and deserialize_node of   *)
(* BTreeFileStorage.impl.hpp, writeHeader and readHeader of                 *)
(* BlockStorage.impl.hpp, and BTreeFileStorage_Compute_Max_B, which says    *)
(* how large a node may grow before it no longer fits its block.            *)
(***************************************************************************)
EXTENDS Packer

CONSTANTS
  BlockSize,   \* block sizes
  Nodes,       \* nodes that are written into them
  UserHeaders, \* m_user_header
  KeySize,     \* MAX_SERIALIZED_KEYSIZE of each tree
  ValueSize    \* TTraits::SerializedSize

FormatAssumption ==
  /\ BlockSize \subseteq Nat
  /\ KeySize \subseteq Nat \ {0} /\ ValueSize \subseteq Nat \ {0}

ASSUME FormatAssumption

VARIABLES
  block,    \* the bytes of a block
  content   \* what was last written into it

NoContent == [nothing |-> TRUE]

MAJOR_VERSION == 0
MINOR_VERSION == 1
Field(type, v) == [type |-> type, v |-> v]
Each(type, s) == [i \in 1..Len(s) |-> Field(type, s[i])]
Times(type, n) == [i \in 1..n |-> type]

\* What a chain of >> into variables of these types yields.
ReadNext(read, type, bytes) ==
  LET v == Decoded(type, SubSeq(bytes, read.src + 1, Len(bytes)))
  IN [src |-> read.src + serializedsize(type, v), v |-> Append(read.v, v)]

Chain(types, bytes) ==
  LET read[i \in 0..Len(types)] ==
        IF i = 0 THEN [src |-> 0, v |-> <<>>] ELSE ReadNext(read[i - 1], types[i], bytes)
  IN read[Len(types)].v

(***************************************************************************)
(* Nodes.                                                                   *)
(***************************************************************************)
HeadFields(node) ==
  <<Field("uint32", node.id), Field("uint32", node.parentId),
    Field("uint32", node.leftId), Field("uint32", node.rightId),
    Field("bool", node.leaf), Field("uint16", Len(node.keys)), Field("int16", node.rank)>>
HeadTypes == <<"uint32", "uint32", "uint32", "uint32", "bool", "uint16", "int16">>

NodeFields(node) ==
  HeadFields(node) \o Each("string", node.keys)
    \o (IF node.leaf THEN Each("locator", node.values) ELSE Each("uint32", node.children))

serialize_node(node) == Bytes(NodeFields(node))

\* A node as the tree has them: a value for each key, or a child more than keys.
Packed(fields) == \A i \in 1..Len(fields) : IsValue(fields[i])

IsNode(node) ==
  /\ node \in [id : Int, parentId : Int, leftId : Int, rightId : Int, leaf : BOOLEAN, rank : Int,
               keys : Seq(Seq(Byte)), values : Seq([block : Int, offset : Int]),
               children : Seq(Int)]
  /\ Packed(NodeFields(node))
  /\ Len(node.values) = IF node.leaf THEN Len(node.keys) ELSE 0
  /\ Len(node.children) = IF node.leaf THEN 0 ELSE Len(node.keys) + 1

\* Mutant: one child less is read.
LastTypesByN(leaf, n) == IF leaf THEN Times("locator", n) ELSE Times("uint32", n)

LastTypes(leaf, n) == IF leaf THEN Times("locator", n) ELSE Times("uint32", n + 1)

deserialize_node(bytes) ==
  LET head == Chain(HeadTypes, bytes)
      leaf == head[5]
      n    == head[6]
      v    == Chain(HeadTypes \o Times("string", n) \o LastTypes(leaf, n), bytes)
      last == SubSeq(v, 8 + n, Len(v))
  IN [id |-> v[1], parentId |-> v[2], leftId |-> v[3], rightId |-> v[4], leaf |-> leaf,
      rank |-> v[7], keys |-> SubSeq(v, 8, 7 + n),
      values |-> IF leaf THEN last ELSE <<>>, children |-> IF leaf THEN <<>> ELSE last]

(***************************************************************************)
(* The header block.                                                        *)
(***************************************************************************)
HeaderFields(texts) ==
  <<Field("int32", MAJOR_VERSION), Field("int32", MINOR_VERSION), Field("int32", Len(texts))>>
    \o FlattenSeq([i \in 1..Len(texts) |-> <<Field("int32", i - 1), Field("string", texts[i])>>])

ContentsAssumption ==
  /\ \A node \in Nodes : IsNode(node)
  /\ \A texts \in UserHeaders : texts \in Seq(Seq(Byte)) /\ Packed(HeaderFields(texts))

ASSUME ContentsAssumption

\* The texts, or none if the numbers of the users are not in order.
ReadHeader(bytes) ==
  LET first == <<"int32", "int32", "int32">>
      n == Chain(first, bytes)[3]
      v == Chain(first \o FlattenSeq([i \in 1..n |-> <<"int32", "string">>]), bytes)
  IN IF \A i \in 1..n : v[2 * i + 2] = i - 1 THEN [i \in 1..n |-> v[2 * i + 3]] ELSE <<>>

(***************************************************************************)
(* The largest node.  Sizes are unsigned: for a block smaller than HEAD_SIZE *)
(* the difference would wrap, and none is.                                  *)
(***************************************************************************)
HEAD_SIZE == 4 * 4 + 1 + 2 + 2

LeafBytes(n, k, v) == HEAD_SIZE + n * k + n * v
InnerBytes(n, k) == HEAD_SIZE + n * k + (n + 1) * 4

LeafB(bs, k, v) == ((bs - HEAD_SIZE) \div (k + v) + 1) \div 2

\* Mutant: rounded up like that of a leaf.
InnerBRounded(bs, k) == ((bs - HEAD_SIZE + k) \div (k + 4) + 1) \div 2

InnerB(bs, k) == ((bs - HEAD_SIZE + k) \div (k + 4)) \div 2

\* BTreeFileStorage_Compute_Max_B()
Compute_Max_B(bs, k, v) ==
  IF LeafB(bs, k, v) < InnerB(bs, k) THEN LeafB(bs, k, v) ELSE InnerB(bs, k)

(***************************************************************************)
(* Writing a block.  The store and the tree assert that what they write     *)
(* fits: no key is longer than the maximum, no node larger than B allows.   *)
(***************************************************************************)
Zeros(n) == [i \in 1..n |-> NUL]

\* memcpy of the packed bytes into a block object made for them.
WriteBlock(bytes, what) ==
  /\ Len(bytes) <= Len(block)
  /\ block' = [i \in 1..Len(block) |-> IF i <= Len(bytes) THEN bytes[i] ELSE NUL]
  /\ content' = what

NoBlock == <<>>

\* Block(index), of the size its storage has.
NewBlock ==
  /\ block = NoBlock
  /\ \E bs \in BlockSize : block' = Zeros(bs)
  /\ UNCHANGED content

BlockNext ==
  \/ NewBlock
  \/ \E node \in Nodes : WriteBlock(serialize_node(node), [node |-> node])
  \/ \E texts \in UserHeaders : WriteBlock(Bytes(HeaderFields(texts)), [texts |-> texts])

\* Nobody packs by hand while a block is written: the packers of
\* serialize_node and of writeHeader are theirs alone.
FormatInit == Init /\ block = NoBlock /\ content = NoContent
FormatNext ==
  \/ block = NoBlock /\ Next /\ UNCHANGED <<block, content>>
  \/ Init /\ BlockNext /\ UNCHANGED vars

FormatSpec == FormatInit /\ [][FormatNext]_<<vars, block, content>>

(***************************************************************************)
(* Properties.                                                              *)
(***************************************************************************)
\* What a full node takes.  The node of a tree whose B is at most what
\* Compute_Max_B computes for the size of its blocks fits a block, be it a
\* leaf or not, whatever the sizes: the error that the assertions of
\* serialize_node exclude does not come up.
NodesFit ==
  \A k \in KeySize, v \in ValueSize :
    Len(block) >= HEAD_SIZE =>
      \A B \in 1..Compute_Max_B(Len(block), k, v) :
        LeafBytes(2 * B - 1, k, v) <= Len(block) /\ InnerBytes(2 * B - 1, k) <= Len(block)

Longest(keys, k) == \A i \in DOMAIN keys : 4 + Len(keys[i]) <= k

\* A node and a header block come back as they were written, whatever
\* follows them in the block, and a node takes no more bytes than
\* Compute_Max_B counts on.
BlocksReadBack ==
  /\ "node" \in DOMAIN content =>
       LET node == content.node
       IN /\ deserialize_node(block)
               = [node EXCEPT !.values = [i \in DOMAIN @ |-> Normalized(@[i])]]
          /\ \A k \in KeySize :
               Longest(node.keys, k) =>
                 Len(serialize_node(node)) <= IF node.leaf THEN LeafBytes(Len(node.keys), k, 6)
                                              ELSE InnerBytes(Len(node.keys), k)
  /\ "texts" \in DOMAIN content => ReadHeader(block) = content.texts
=============================================================================
