--------------------------- MODULE KeyValueProofs ---------------------------
(***************************************************************************)
(* Theorems about KeyValueHistory, and that it implements KeyValueMap.      *)
(***************************************************************************)
EXTENDS KeyValueRefinement, SequenceTheorems, TLAPS

(***************************************************************************)
(* The inductive invariant.                                                 *)
(***************************************************************************)
\* The file ends where the next id begins, so that a new object counts on
\* from where the old one stopped.
IdsOK == file_blocks = next_id /\ (nodes = {} => next_id = 1)

\* What is left of a span is the rest of its last block, or nothing.
SpanOK(l, id) ==
  l.block # BLOCK_ID_INVALID =>
    \/ l.size = 0 /\ l.offset = 0 /\ l.block \in 1..id
    \/ l.size > 0 /\ l.offset + l.size = BLOCKSIZE /\ l.block \in 1..(id - 1)

Placed(e, id) ==
  e \in [at : Nat, size : Nat] /\ BLOCKSIZE <= e.at /\ End(e) <= id * BLOCKSIZE

HeadsOK ==
  \A k \in Key : Present(k) =>
     tree[k].block \in 1..(next_id - 1) /\ tree[k].offset + LengthFieldSize <= BLOCKSIZE

IInv ==
  /\ TypeOK /\ IdsOK /\ HeadsOK
  /\ SpanOK(FreeLocation, next_id)
  /\ \A e \in granted : Placed(e, next_id)
  /\ SpaceDisjoint

-----------------------------------------------------------------------------
(***************************************************************************)
(* Arithmetic of blocks and offsets.                                        *)
(***************************************************************************)
\* The assumptions on the sizes, one by one.
LEMMA Sizes ==
  /\ BLOCKSIZE \in Nat /\ BLOCKSIZE > 0
  /\ LengthFieldSize \in Nat /\ LengthFieldSize > 0 /\ LengthFieldSize <= BLOCKSIZE
  /\ SizeModulus \in Nat /\ MaxBlock \in Nat /\ MaxBlock > 1
  /\ MaxBlock * BLOCKSIZE < SizeModulus
  BY SizesAssumption DEF SizesAssumption

\* Division with remainder, and by the size of a block.
LEMMA DivModBy ==
  ASSUME NEW a \in Nat, NEW m \in Nat, m > 0
  PROVE  a \div m \in Nat /\ a % m \in 0 .. (m - 1) /\ a = (a \div m) * m + (a % m)
  BY SMTT(30)

\* An address is a block and an offset in it.
LEMMA DivMod ==
  ASSUME NEW a \in Nat
  PROVE  /\ a \div BLOCKSIZE \in Nat /\ a % BLOCKSIZE \in Offset
         /\ a = (a \div BLOCKSIZE) * BLOCKSIZE + (a % BLOCKSIZE)
  BY DivModBy, Sizes DEF Offset

\* Quotient and remainder are unique.
LEMMA DivModIs ==
  ASSUME NEW q \in Nat, NEW r \in Offset
  PROVE  (q * BLOCKSIZE + r) \div BLOCKSIZE = q /\ (q * BLOCKSIZE + r) % BLOCKSIZE = r
<1>1. q * BLOCKSIZE + r \in Nat  BY Sizes DEF Offset
<1> DEFINE a == q * BLOCKSIZE + r  p == a \div BLOCKSIZE  s == a % BLOCKSIZE
<1>2. p \in Nat /\ s \in Offset /\ a = p * BLOCKSIZE + s  BY <1>1, DivMod
<1>3. a = q * BLOCKSIZE + r  OBVIOUS
<1> HIDE DEF a, p, s
<1>4. ~ p < q
  <2>1. SUFFICES ASSUME p < q PROVE FALSE  OBVIOUS
  <2>2. (p + 1) * BLOCKSIZE <= q * BLOCKSIZE  BY <2>1, <1>2, Sizes, SMTT(30)
  <2> QED  BY <2>2, <1>2, <1>3, Sizes, SMTT(30) DEF Offset
<1>5. ~ q < p
  <2>1. SUFFICES ASSUME q < p PROVE FALSE  OBVIOUS
  <2>2. (q + 1) * BLOCKSIZE <= p * BLOCKSIZE  BY <2>1, <1>2, Sizes, SMTT(30)
  <2> QED  BY <2>2, <1>2, <1>3, Sizes, SMTT(30) DEF Offset
<1>6. p = q  BY <1>2, <1>4, <1>5
<1>7. s = r  BY <1>2, <1>3, <1>6, Sizes DEF Offset
<1> QED  BY <1>6, <1>7 DEF a, p, s

\* A lower id is a lower address.
LEMMA Monotone ==
  ASSUME NEW i \in Int, NEW j \in Int, i <= j
  PROVE  i * BLOCKSIZE <= j * BLOCKSIZE
  BY Sizes, SMTT(30)

\* A block ends where the next one begins.
LEMMA BlockEnd ==
  ASSUME NEW i \in Int
  PROVE  (i + 1) * BLOCKSIZE = i * BLOCKSIZE + BLOCKSIZE
  BY Sizes, SMTT(30)

\* size_in_blocks() rounds up.
LEMMA RoundedUp ==
  ASSUME NEW s \in Nat, s > 0
  PROVE  /\ size_in_blocks(s) \in Nat /\ size_in_blocks(s) > 0
         /\ s <= size_in_blocks(s) * BLOCKSIZE
         /\ (size_in_blocks(s) - 1) * BLOCKSIZE < s
<1> DEFINE n == (s + BLOCKSIZE - 1) \div BLOCKSIZE  r == (s + BLOCKSIZE - 1) % BLOCKSIZE
<1>1. s + BLOCKSIZE - 1 \in Nat  BY Sizes
<1>2. n \in Nat /\ r \in Offset /\ s + BLOCKSIZE - 1 = n * BLOCKSIZE + r  BY <1>1, DivMod
<1>3. size_in_blocks(s) = n  BY DEF size_in_blocks
<1> HIDE DEF n, r
<1>4. s <= n * BLOCKSIZE /\ (n - 1) * BLOCKSIZE < s  BY <1>2, Sizes, SMTT(30) DEF Offset
<1>5. n > 0  BY <1>2, <1>4, Sizes
<1> QED  BY <1>2, <1>3, <1>4, <1>5

\* Numbers below the modulus are left as they are.
LEMMA ModSmall ==
  ASSUME NEW x \in Nat, NEW m \in Nat, x < m
  PROVE  x % m = x
<1> DEFINE q == x \div m  r == x % m
<1>1. q \in Nat /\ r \in 0 .. (m - 1) /\ x = q * m + r  BY DivModBy
<1> HIDE DEF q, r
<1>2. q = 0
  <2>1. SUFFICES ASSUME q >= 1 PROVE FALSE  BY <1>1
  <2>2. q * m >= m  BY <2>1, <1>1, SMTT(30)
  <2> QED  BY <2>2, <1>1
<1> QED  BY <1>1, <1>2 DEF r

\* Sizes that stay in range are subtracted as numbers.
LEMMA MinusIs ==
  ASSUME NEW a \in Size, NEW b \in Nat, b <= a
  PROVE  Minus(a, b) = a - b
<1>1. a - b \in Nat /\ a - b < SizeModulus  BY Sizes DEF Size
<1> QED  BY <1>1, ModSmall, Sizes DEF Minus

(***************************************************************************)
(* Locators.                                                                *)
(***************************************************************************)
\* Consuming moves a locator by as much as it shrinks it.
LEMMA ConsumeOK ==
  ASSUME NEW l \in SizedLocators, l.block # BLOCK_ID_INVALID, NEW n \in Nat, n <= l.size
  PROVE  /\ consume(l, n) \in SizedLocators
         /\ consume(l, n).block = l.block + ((l.offset + n) \div BLOCKSIZE)
         /\ consume(l, n).offset = (l.offset + n) % BLOCKSIZE
         /\ consume(l, n).size = l.size - n
         /\ consume(l, n).block \in Nat
         /\ At(consume(l, n)) = At(l) + n
<1> DEFINE c == consume(l, n)
<1>1. l.block \in Nat /\ l.offset \in Nat /\ l.offset + n \in Nat /\ l.size \in Size
  BY Sizes DEF SizedLocators, Offset, Size
<1>2. /\ (l.offset + n) \div BLOCKSIZE \in Nat /\ (l.offset + n) % BLOCKSIZE \in Offset
      /\ l.offset + n = ((l.offset + n) \div BLOCKSIZE) * BLOCKSIZE + ((l.offset + n) % BLOCKSIZE)
  BY <1>1, DivMod
<1>3. Minus(l.size, n) = l.size - n  BY <1>1, MinusIs
<1>4. c = [block |-> l.block + ((l.offset + n) \div BLOCKSIZE),
           offset |-> (l.offset + n) % BLOCKSIZE, size |-> l.size - n]
  BY <1>3 DEF consume, normalize, SizedLocators, BLOCK_ID_INVALID
<1>5. l.size - n \in Size  BY <1>1, Sizes DEF Size
<1>6. c \in SizedLocators  BY <1>1, <1>2, <1>4, <1>5 DEF SizedLocators
<1>7. At(c) = At(l) + n
  <2> DEFINE q == (l.offset + n) \div BLOCKSIZE  r == (l.offset + n) % BLOCKSIZE
  <2>1. At(c) = (l.block + q) * BLOCKSIZE + r  BY <1>4 DEF At
  <2>2. q \in Nat /\ r \in Nat /\ l.offset + n = q * BLOCKSIZE + r
    BY <1>2, Sizes DEF Offset
  <2> HIDE DEF q, r, c
  <2>3. (l.block + q) * BLOCKSIZE = l.block * BLOCKSIZE + q * BLOCKSIZE
    BY <1>1, <2>2, Sizes, SMTT(30)
  <2>4. l.block * BLOCKSIZE \in Int /\ q * BLOCKSIZE \in Int  BY <1>1, <2>2, Sizes
  <2> QED  BY <2>1, <2>2, <2>3, <2>4, <1>1 DEF At
<1> QED  BY <1>1, <1>2, <1>4, <1>6, <1>7

\* What consuming n bytes leaves of a span that ends with a block: the rest of
\* its last block, if n reaches into that block.
LEMMA RestOfSpan ==
  ASSUME NEW l \in SizedLocators, l.block \in Nat, l.block >= 1,
         NEW k \in Nat, k >= 1, l.offset + l.size = k * BLOCKSIZE,
         NEW n \in Nat, n <= l.size, (k - 1) * BLOCKSIZE < l.offset + n
  PROVE  SpanOK(consume(l, n), l.block + k)
<1> DEFINE c == consume(l, n)
<1>1. /\ c \in SizedLocators /\ c.block = l.block + ((l.offset + n) \div BLOCKSIZE)
      /\ c.offset = (l.offset + n) % BLOCKSIZE /\ c.size = l.size - n
  BY ConsumeOK DEF BLOCK_ID_INVALID
<1>2. l.offset \in Nat /\ l.size \in Nat  BY Sizes DEF SizedLocators, Offset, Size
<1> HIDE DEF c
<1>3. CASE n = l.size
  <2>1. l.offset + n = k * BLOCKSIZE + 0  BY <1>2, <1>3, Sizes
  <2>2. (l.offset + n) \div BLOCKSIZE = k /\ (l.offset + n) % BLOCKSIZE = 0
    BY <2>1, DivModIs, Sizes DEF Offset
  <2> QED  BY <1>1, <1>2, <1>3, <2>2 DEF SpanOK, c
<1>4. CASE n < l.size
  <2> DEFINE r == l.offset + n - (k - 1) * BLOCKSIZE
  <2>1. k * BLOCKSIZE = (k - 1) * BLOCKSIZE + BLOCKSIZE  BY BlockEnd
  <2>2. r \in Offset /\ l.offset + n = (k - 1) * BLOCKSIZE + r
    BY <2>1, <1>2, <1>4, Sizes, SMTT(30) DEF Offset
  <2>3. (l.offset + n) \div BLOCKSIZE = k - 1 /\ (l.offset + n) % BLOCKSIZE = r
    BY <2>2, DivModIs
  <2>4. r + (l.size - n) = BLOCKSIZE
    <3>1. (k - 1) * BLOCKSIZE \in Int /\ k * BLOCKSIZE \in Int  BY Sizes
    <3> QED  BY <3>1, <2>1, <1>2, Sizes
  <2> QED  BY <1>1, <1>2, <1>4, <2>3, <2>4, <2>2 DEF SpanOK, c
<1> QED  BY <1>2, <1>3, <1>4

\* A span lies above the header block and below the next id.
LEMMA SpanPlaced ==
  ASSUME NEW l \in SizedLocators, NEW id \in Nat, id >= 1, l.block # BLOCK_ID_INVALID,
         SpanOK(l, id)
  PROVE  Placed(Extent(l), id)
<1>1. l.block \in Nat /\ l.offset \in Nat /\ l.size \in Nat /\ l.block >= 1
  BY Sizes DEF SizedLocators, Offset, Size, SpanOK
<1>2. At(l) \in Nat /\ BLOCKSIZE <= At(l)
  <2>1. 1 * BLOCKSIZE <= l.block * BLOCKSIZE  BY <1>1, Monotone
  <2> QED  BY <2>1, <1>1, Sizes DEF At
<1>3. At(l) + l.size <= id * BLOCKSIZE
  <2>1. CASE l.size = 0 /\ l.offset = 0 /\ l.block \in 1..id
    <3>1. l.block * BLOCKSIZE <= id * BLOCKSIZE  BY <2>1, <1>1, Monotone
    <3> QED  BY <2>1, <3>1, <1>1, Sizes DEF At
  <2>2. CASE l.offset + l.size = BLOCKSIZE /\ l.block \in 1..(id - 1)
    <3>1. (l.block + 1) * BLOCKSIZE <= id * BLOCKSIZE  BY <2>2, <1>1, Monotone
    <3>2. (l.block + 1) * BLOCKSIZE = l.block * BLOCKSIZE + BLOCKSIZE  BY <1>1, BlockEnd
    <3> QED  BY <2>2, <3>1, <3>2, <1>1, Sizes DEF At
  <2> QED  BY <2>1, <2>2 DEF SpanOK
<1> QED  BY <1>1, <1>2, <1>3 DEF Placed, Extent, End

\* Handing out ids leaves the free span where it was.
LEMMA SpanGrows ==
  ASSUME NEW l \in SizedLocators, NEW i \in Int, NEW j \in Int, i <= j, SpanOK(l, i)
  PROVE  SpanOK(l, j)
  BY DEF SpanOK, SizedLocators

\* Handing out ids leaves an extent below the next id.
LEMMA PlacedGrows ==
  ASSUME NEW e, NEW i \in Int, NEW j \in Int, i <= j, Placed(e, i)
  PROVE  Placed(e, j)
<1>1. i * BLOCKSIZE <= j * BLOCKSIZE  BY Monotone
<1>2. e.at \in Nat /\ e.size \in Nat  BY DEF Placed
<1> QED  BY <1>1, <1>2, Sizes DEF Placed, End

\* The free span, seen as an extent.
LEMMA FreeTyped ==
  ASSUME TypeOK
  PROVE  FreeLocation \in SizedLocators
  BY DEF TypeOK, FreeLocation

\* The free span, where there is one, lies above the header block and below the
\* next id.
LEMMA FreePlaced ==
  ASSUME TypeOK, SpanOK(FreeLocation, next_id)
  PROVE  /\ FreeSpan \in [at : Nat, size : Nat]
         /\ End(FreeSpan) <= next_id * BLOCKSIZE
         /\ FreeLocation.block # BLOCK_ID_INVALID =>
               FreeSpan = Extent(FreeLocation) /\ BLOCKSIZE <= FreeSpan.at
<1>1. FreeLocation \in SizedLocators  BY FreeTyped
<1>2. next_id \in Nat /\ next_id >= 1  BY DEF TypeOK
<1>3. CASE FreeLocation.block = BLOCK_ID_INVALID
  <2>1. FreeSpan = [at |-> 0, size |-> 0]  BY <1>3 DEF FreeSpan, valid
  <2>2. 0 * BLOCKSIZE <= next_id * BLOCKSIZE  BY <1>2, Monotone
  <2> QED  BY <2>1, <2>2, <1>3, Sizes DEF End
<1>4. CASE FreeLocation.block # BLOCK_ID_INVALID
  <2>1. FreeLocation.offset < BLOCKSIZE  BY <1>1, Sizes DEF SizedLocators, Offset
  <2>2. FreeSpan = Extent(FreeLocation)  BY <1>4, <2>1 DEF FreeSpan, valid
  <2>3. Placed(Extent(FreeLocation), next_id)  BY <1>1, <1>2, <1>4, SpanPlaced
  <2> QED  BY <2>2, <2>3 DEF Placed
<1> QED  BY <1>3, <1>4

\* What ends below an id keeps away from that block and all later ones.
LEMMA BelowBlock ==
  ASSUME NEW e \in [at : Nat, size : Nat], NEW i \in Int, NEW b \in Int, i <= b,
         End(e) <= i * BLOCKSIZE
  PROVE  Apart(e, BlockExtent(b)) /\ Apart(BlockExtent(b), e)
<1>1. i * BLOCKSIZE <= b * BLOCKSIZE  BY Monotone
<1>2. i * BLOCKSIZE \in Int /\ b * BLOCKSIZE \in Int  BY Sizes
<1> QED  BY <1>1, <1>2 DEF Apart, End, BlockExtent

\* Blocks below an id end below it.
LEMMA BlockBelow ==
  ASSUME NEW b \in Nat, NEW i \in Int, b < i
  PROVE  /\ BlockExtent(b) \in [at : Nat, size : Nat]
         /\ End(BlockExtent(b)) <= i * BLOCKSIZE
<1>1. (b + 1) * BLOCKSIZE <= i * BLOCKSIZE  BY Monotone
<1>2. (b + 1) * BLOCKSIZE = b * BLOCKSIZE + BLOCKSIZE  BY BlockEnd
<1>3. b * BLOCKSIZE \in Nat  BY Sizes
<1> QED  BY <1>1, <1>2, <1>3, Sizes DEF BlockExtent, End

\* A search hands out at most one id, the first, which becomes the root.
LEMMA AfterSearch ==
  ASSUME TypeOK, IdsOK
  PROVE  /\ IdAfterSearch \in 2..MaxBlock /\ next_id <= IdAfterSearch
         /\ NodesAfterSearch \subseteq 1..(IdAfterSearch - 1)
         /\ nodes \subseteq NodesAfterSearch
         /\ \A b \in NodesAfterSearch \ nodes : b = next_id /\ nodes = {} /\ IdAfterSearch = next_id + 1
         /\ IdAfterSearch = next_id \/ IdAfterSearch - 1 \in NodesAfterSearch
<1>1. next_id \in 1..MaxBlock /\ nodes \subseteq 1..(next_id - 1)  BY DEF TypeOK
<1>2. CASE nodes = {}
  <2>1. next_id = 1  BY <1>2 DEF IdsOK
  <2>2. IdAfterSearch = 2 /\ NodesAfterSearch = {1}
    BY <1>2, <2>1 DEF IdAfterSearch, NodesAfterSearch
  <2> QED  BY <2>1, <2>2, <1>2, Sizes
<1>3. CASE nodes # {}
  <2>1. IdAfterSearch = next_id /\ NodesAfterSearch = nodes
    BY <1>3 DEF IdAfterSearch, NodesAfterSearch
  <2>2. next_id >= 2
    <3>1. PICK b \in nodes : TRUE  BY <1>3
    <3> QED  BY <3>1, <1>1
  <2> QED  BY <2>1, <2>2, <1>1
<1> QED  BY <1>2, <1>3

\* The file is as long as it has ids in use.
LEMMA ReachIs ==
  ASSUME NEW b \in Int, NEW id \in Nat, ReachBlock(b),
         file_blocks \in Nat, file_blocks <= id, b + 1 <= id, nodes' \subseteq 1..(id - 1),
         file_blocks = id \/ b + 1 = id \/ id - 1 \in nodes'
  PROVE  file_blocks' = id
<1> DEFINE ends == {file_blocks, b + 1} \cup {i + 1 : i \in nodes'}
<1>1. \A f \in ends : f \in Int /\ f <= id  OBVIOUS
<1>2. id \in ends  OBVIOUS
<1>3. file_blocks' = CHOOSE e \in ends : \A f \in ends : f <= e  BY DEF ReachBlock
<1> HIDE DEF ends
<1>4. file_blocks' \in ends /\ \A f \in ends : f <= file_blocks'  BY <1>1, <1>2, <1>3
<1> QED  BY <1>1, <1>2, <1>4

-----------------------------------------------------------------------------
(***************************************************************************)
(* Allocation.                                                              *)
(***************************************************************************)
\* What a value takes in the file is a size that can be represented.
LEMMA Amounts ==
  ASSUME NEW v \in Value
  PROVE  /\ Length[v] \in Nat /\ Amount(v) \in Nat /\ Amount(v) = Length[v] + LengthFieldSize
         /\ Amount(v) > 0 /\ LengthFieldSize <= Amount(v) /\ Amount(v) \in Size
<1>1. Length[v] \in Nat /\ Length[v] + LengthFieldSize < SizeModulus
  BY SizesAssumption DEF SizesAssumption
<1> QED  BY <1>1, Sizes DEF Amount, Size

\* A part of an extent keeps away from what the whole keeps away from.
LEMMA PartApart ==
  ASSUME NEW e \in [at : Nat, size : Nat], NEW f \in [at : Nat, size : Nat],
         NEW g \in [at : Nat, size : Nat], f.at <= g.at, End(g) <= End(f), Apart(e, f)
  PROVE  Apart(e, g) /\ Apart(g, e)
  BY DEF Apart, End

\* A new span begins at the next id, a span in use is the free span; either
\* has room for the value, ends below the ids to come, and leaves a rest that
\* is again a free span.
LEMMA NewSpan ==
  ASSUME IInv, is_open, NEW v \in Value, IdAfterAlloc(Amount(v)) <= MaxBlock,
         NeedsSpan(Amount(v))
  PROVE  LET S == SpanFor(Amount(v))  id == IdAfterAlloc(Amount(v)) IN
         /\ S \in SizedLocators /\ S.block \in 1..(id - 1) /\ Amount(v) <= S.size
         /\ S.offset + LengthFieldSize <= BLOCKSIZE
         /\ id \in Nat /\ IdAfterSearch <= id
         /\ SpanOK(consume(S, Amount(v)), id)
         /\ At(S) = IdAfterSearch * BLOCKSIZE
         /\ At(S) + S.size = id * BLOCKSIZE
         /\ S.block = IdAfterSearch /\ S.offset = 0
<1> DEFINE a == Amount(v)  n == size_in_blocks(a)  S == SpanFor(a)  id == IdAfterAlloc(a)
<1>1. a \in Nat /\ a > 0 /\ LengthFieldSize <= a  BY Amounts
<1>2. n \in Nat /\ n > 0 /\ a <= n * BLOCKSIZE /\ (n - 1) * BLOCKSIZE < a  BY <1>1, RoundedUp
<1>3. IdAfterSearch \in 2..MaxBlock  BY AfterSearch DEF IInv
<1>4. S = [block |-> IdAfterSearch, offset |-> 0, size |-> n * BLOCKSIZE]
  BY DEF SpanFor, SizedLocator
<1>5. id = IdAfterSearch + n  BY DEF IdAfterAlloc
<1>6. id <= MaxBlock  OBVIOUS
<1> HIDE DEF a, n, S, id
<1>7. n * BLOCKSIZE \in Size
  <2>1. n * BLOCKSIZE <= MaxBlock * BLOCKSIZE  BY <1>2, <1>3, <1>5, <1>6, Sizes, Monotone
  <2>2. n * BLOCKSIZE \in Nat /\ MaxBlock * BLOCKSIZE \in Nat  BY <1>2, Sizes
  <2> QED  BY <2>1, <2>2, Sizes DEF Size
<1>8. S \in SizedLocators  BY <1>3, <1>4, <1>7, Sizes DEF SizedLocators, Offset
<1>9. S.block \in Nat /\ S.block >= 1 /\ n >= 1 /\ S.offset + S.size = n * BLOCKSIZE
      /\ a <= S.size /\ (n - 1) * BLOCKSIZE < S.offset + a
  BY <1>1, <1>2, <1>3, <1>4, Sizes
<1>10. SpanOK(consume(S, a), S.block + n)  BY <1>1, <1>2, <1>8, <1>9, RestOfSpan
<1>11. At(S) = IdAfterSearch * BLOCKSIZE  BY <1>3, <1>4, Sizes DEF At
<1>12. At(S) + S.size = id * BLOCKSIZE
  <2>1. (IdAfterSearch + n) * BLOCKSIZE = IdAfterSearch * BLOCKSIZE + n * BLOCKSIZE
    BY <1>2, <1>3, Sizes, SMTT(30)
  <2> QED  BY <2>1, <1>4, <1>5, <1>11
<1> QED  BY <1>2, <1>3, <1>4, <1>5, <1>8, <1>9, <1>10, <1>11, <1>12, Sizes DEF a, S, id

\* The span in use, when it has room for the value: the rest of one block.
LEMMA SpanInUse ==
  ASSUME IInv, is_open, NEW v \in Value, ~ NeedsSpan(Amount(v))
  PROVE  LET S == SpanFor(Amount(v))  id == IdAfterAlloc(Amount(v)) IN
         /\ S = next_location /\ Extent(S) = FreeSpan
         /\ S \in SizedLocators /\ S.block \in 1..(id - 1) /\ Amount(v) <= S.size
         /\ S.offset + S.size = BLOCKSIZE
         /\ S.offset + LengthFieldSize <= BLOCKSIZE
         /\ id = next_id /\ nodes # {} /\ IdAfterSearch = next_id
         /\ SpanOK(consume(S, Amount(v)), id)
<1> DEFINE a == Amount(v)  S == SpanFor(a)  id == IdAfterAlloc(a)
<1>1. a \in Nat /\ a > 0 /\ LengthFieldSize <= a  BY Amounts
<1>2. S = next_location /\ valid(next_location) /\ ~ next_location.size < a
  BY DEF SpanFor, NeedsSpan
<1>3. FreeLocation = next_location  BY DEF FreeLocation
<1>4. S \in SizedLocators /\ SpanOK(S, next_id) /\ Extent(S) = FreeSpan
  BY <1>2, <1>3 DEF IInv, TypeOK, FreeSpan
<1>5. S.block # BLOCK_ID_INVALID  BY <1>2 DEF valid
<1>6. S.size \in Nat /\ S.offset \in Nat /\ a <= S.size
  BY <1>1, <1>2, <1>4, Sizes DEF SizedLocators, Size, Offset
<1>7. S.offset + S.size = BLOCKSIZE /\ S.block \in 1..(next_id - 1)
  BY <1>1, <1>4, <1>5, <1>6 DEF SpanOK
<1>8. next_id \in Nat /\ nodes # {}  BY <1>7 DEF IInv, TypeOK, IdsOK
<1>9. IdAfterSearch = next_id /\ id = next_id  BY <1>8 DEF IdAfterSearch, IdAfterAlloc
<1> HIDE DEF a, S, id
<1>10. SpanOK(consume(S, a), S.block + 1)
  <2>1. 1 * BLOCKSIZE = BLOCKSIZE /\ (1 - 1) * BLOCKSIZE = 0  BY Sizes
  <2>2. S.block \in Nat /\ S.block >= 1 /\ 0 < S.offset + a  BY <1>1, <1>6, <1>7
  <2> QED  BY <2>1, <2>2, <1>1, <1>4, <1>6, <1>7, RestOfSpan
<1>11. consume(S, a) \in SizedLocators  BY <1>1, <1>4, <1>5, <1>6, ConsumeOK
<1>12. SpanOK(consume(S, a), next_id)  BY <1>7, <1>8, <1>10, <1>11, SpanGrows
<1> QED  BY <1>1, <1>2, <1>4, <1>6, <1>7, <1>8, <1>9, <1>12, Sizes DEF a, S, id

\* Either way: what allocating space for v finds and leaves.
LEMMA AllocOK ==
  ASSUME IInv, is_open, NEW v \in Value, IdAfterAlloc(Amount(v)) <= MaxBlock
  PROVE  LET S == SpanFor(Amount(v))  R == consume(S, Amount(v))
             E == Extent(NewEnvelope(v))  id == IdAfterAlloc(Amount(v)) IN
         /\ S.block \in 1..(id - 1) /\ S.offset \in Offset
         /\ S.offset + LengthFieldSize <= BLOCKSIZE
         /\ id \in Nat /\ next_id <= IdAfterSearch /\ IdAfterSearch <= id
         /\ R \in SizedLocators /\ SpanOK(R, id)
         /\ R.block # BLOCK_ID_INVALID
         /\ E \in [at : Nat, size : Nat] /\ Placed(E, id) /\ E.at = At(S) /\ E.size = Amount(v)
         /\ Extent(R) \in [at : Nat, size : Nat] /\ Extent(R).at = End(E)
         /\ \A e \in [at : Nat, size : Nat] :
               End(e) <= next_id * BLOCKSIZE /\ Apart(e, FreeSpan) =>
                  Apart(e, E) /\ Apart(e, Extent(R))
         /\ \A b \in NodesAfterSearch \cup {0} :
               Apart(E, BlockExtent(b)) /\ Apart(Extent(R), BlockExtent(b))
<1> DEFINE a == Amount(v)  S == SpanFor(a)  R == consume(S, a)
           E == Extent(NewEnvelope(v))  id == IdAfterAlloc(a)  W == Extent(S)
<1>1. a \in Nat /\ a > 0  BY Amounts
<1>2. /\ IdAfterSearch \in 2..MaxBlock /\ next_id <= IdAfterSearch
      /\ NodesAfterSearch \subseteq 1..(IdAfterSearch - 1)
  BY AfterSearch DEF IInv
<1>3. /\ S \in SizedLocators /\ S.block \in 1..(id - 1) /\ a <= S.size
      /\ S.offset + LengthFieldSize <= BLOCKSIZE
      /\ id \in Nat /\ IdAfterSearch <= id /\ SpanOK(R, id)
  <2>1. CASE NeedsSpan(a)  BY <2>1, NewSpan
  <2>2. CASE ~ NeedsSpan(a)  BY <2>2, SpanInUse, <1>2
  <2> QED  BY <2>1, <2>2
<1>4. E = [at |-> At(S), size |-> a]  BY DEF NewEnvelope, SizedLocator, Extent, At
<1>5. W = [at |-> At(S), size |-> S.size]  BY DEF Extent
<1>6. next_id \in Nat /\ next_id >= 1  BY DEF IInv, TypeOK
\* The bounds of the span.
<1>7. BLOCKSIZE <= At(S) /\ At(S) \in Nat /\ At(S) + S.size <= id * BLOCKSIZE
  <2> HIDE DEF a, S, R, E, id, W
  <2>1. S.block \in Nat /\ S.block >= 1 /\ S.offset \in Nat /\ S.size \in Nat
    BY <1>3, Sizes DEF SizedLocators, Offset, Size
  <2>2. 1 * BLOCKSIZE <= S.block * BLOCKSIZE /\ S.block * BLOCKSIZE \in Nat
    BY <2>1, Monotone, Sizes
  <2>3. BLOCKSIZE <= At(S) /\ At(S) \in Nat  BY <2>1, <2>2, Sizes DEF At
  <2>4. CASE NeedsSpan(a)
    BY <2>3, <2>4, <2>1, <1>3, NewSpan, Sizes DEF a, S, id
  <2>5. CASE ~ NeedsSpan(a)
    <3>1. S.offset + S.size = BLOCKSIZE  BY <2>5, SpanInUse DEF a, S
    <3>2. (S.block + 1) * BLOCKSIZE <= id * BLOCKSIZE  BY <1>3, <2>1, Monotone
    <3>3. (S.block + 1) * BLOCKSIZE = S.block * BLOCKSIZE + BLOCKSIZE  BY <2>1, BlockEnd
    <3>4. id * BLOCKSIZE \in Int  BY <1>3, Sizes
    <3> QED  BY <2>1, <2>2, <2>3, <3>1, <3>2, <3>3, <3>4, Sizes DEF At
  <2> QED  BY <2>3, <2>4, <2>5
<1>8. /\ R \in SizedLocators /\ R.size = S.size - a /\ R.block \in Nat /\ At(R) = At(S) + a
  <2>1. S.block # BLOCK_ID_INVALID  BY <1>3 DEF BLOCK_ID_INVALID
  <2> QED  BY <2>1, <1>1, <1>3, ConsumeOK
<1>9. Extent(R) = [at |-> At(S) + a, size |-> S.size - a]  BY <1>8 DEF Extent
\* What keeps away from the span.
<1>10. \A e \in [at : Nat, size : Nat] :
          End(e) <= next_id * BLOCKSIZE /\ Apart(e, FreeSpan) => Apart(e, W)
  <2> SUFFICES ASSUME NEW e \in [at : Nat, size : Nat],
                      End(e) <= next_id * BLOCKSIZE, Apart(e, FreeSpan)
               PROVE  Apart(e, W)
    OBVIOUS
  <2>1. CASE NeedsSpan(a)
    <3>1. At(S) = IdAfterSearch * BLOCKSIZE  BY <2>1, NewSpan
    <3>2. next_id * BLOCKSIZE <= IdAfterSearch * BLOCKSIZE  BY <1>2, <1>6, Monotone
    <3> HIDE DEF a, S, R, E, id, W
    <3>3. next_id * BLOCKSIZE \in Int /\ IdAfterSearch * BLOCKSIZE \in Int  BY <1>2, <1>6, Sizes
    <3> QED  BY <3>1, <3>2, <3>3, <1>5 DEF Apart, End
  <2>2. CASE ~ NeedsSpan(a)  BY <2>2, SpanInUse
  <2> QED  BY <2>1, <2>2
<1>11. \A b \in NodesAfterSearch \cup {0} : Apart(W, BlockExtent(b))
  <2> SUFFICES ASSUME NEW b \in NodesAfterSearch \cup {0} PROVE Apart(W, BlockExtent(b))
    OBVIOUS
  <2>1. CASE NeedsSpan(a)
    <3>1. At(S) = IdAfterSearch * BLOCKSIZE  BY <2>1, NewSpan
    <3>2. b \in Nat /\ b < IdAfterSearch  BY <1>2
    <3>3. End(BlockExtent(b)) <= IdAfterSearch * BLOCKSIZE  BY <3>2, <1>2, BlockBelow
    <3> QED  BY <3>1, <3>3, <1>5 DEF Apart
  <2>2. CASE ~ NeedsSpan(a)
    <3>1. NodesAfterSearch = nodes  BY <2>2, SpanInUse DEF NodesAfterSearch
    <3>2. W = FreeSpan  BY <2>2, SpanInUse
    <3> QED  BY <3>1, <3>2 DEF IInv, SpaceDisjoint
  <2> QED  BY <2>1, <2>2
<1>12. S.size \in Nat /\ S.offset \in Offset  BY <1>3, Sizes DEF SizedLocators, Size
<1>13. id * BLOCKSIZE \in Int  BY <1>3, Sizes
<1> HIDE DEF a, S, R, E, id, W
<1>14. /\ W \in [at : Nat, size : Nat] /\ E \in [at : Nat, size : Nat]
       /\ Extent(R) \in [at : Nat, size : Nat]
       /\ W.at <= E.at /\ End(E) <= End(W)
       /\ W.at <= Extent(R).at /\ End(Extent(R)) <= End(W) /\ Extent(R).at = End(E)
  BY <1>1, <1>3, <1>4, <1>5, <1>7, <1>9, <1>12 DEF End
<1>15. Placed(E, id)
  BY <1>1, <1>3, <1>4, <1>7, <1>12, <1>13, <1>14, Sizes DEF Placed, End
<1>16. \A e \in [at : Nat, size : Nat] :
          Apart(e, W) => Apart(e, E) /\ Apart(e, Extent(R))
  BY <1>14, PartApart
<1>17. \A b \in NodesAfterSearch \cup {0} :
          Apart(E, BlockExtent(b)) /\ Apart(Extent(R), BlockExtent(b))
  <2> SUFFICES ASSUME NEW b \in NodesAfterSearch \cup {0}
               PROVE  Apart(E, BlockExtent(b)) /\ Apart(Extent(R), BlockExtent(b))
    OBVIOUS
  <2>1. BlockExtent(b) \in [at : Nat, size : Nat]  BY <1>2, Sizes DEF BlockExtent
  <2>2. Apart(BlockExtent(b), W)  BY <1>11 DEF Apart
  <2> QED  BY <2>1, <2>2, <1>14, PartApart
<1>18. R.block # BLOCK_ID_INVALID  BY <1>8 DEF BLOCK_ID_INVALID
<1> QED
  BY <1>2, <1>3, <1>4, <1>8, <1>10, <1>12, <1>14, <1>15, <1>16, <1>17, <1>18 DEF a, S, R, E, id

-----------------------------------------------------------------------------
(***************************************************************************)
(* What a step does to the space.                                           *)
(***************************************************************************)
\* Nodes get new ids, nothing else is taken: all keep their distance.
LEMMA GrowKeeps ==
  ASSUME IInv, FreeLocation' = FreeLocation, granted' = granted,
         next_id' \in Nat, next_id <= next_id',
         \A b \in nodes' : b \in nodes \/ (b \in Nat /\ next_id <= b)
  PROVE  /\ SpanOK(FreeLocation', next_id')
         /\ \A e \in granted' : Placed(e, next_id')
         /\ SpaceDisjoint'
<1>1. next_id \in Nat /\ FreeLocation \in SizedLocators  BY FreeTyped DEF IInv, TypeOK
<1>2. SpanOK(FreeLocation, next_id)  BY DEF IInv
<1>3. SpanOK(FreeLocation', next_id')  BY <1>1, <1>2, SpanGrows
<1>4. ASSUME NEW e \in granted' PROVE Placed(e, next_id')
  BY <1>1, PlacedGrows DEF IInv
<1>5. FreeSpan' = FreeSpan  BY DEF FreeSpan, Extent, At, valid
<1>6. FreeSpan \in [at : Nat, size : Nat] /\ End(FreeSpan) <= next_id * BLOCKSIZE
  BY <1>2, FreePlaced DEF IInv
<1>7. ASSUME NEW e \in granted PROVE e \in [at : Nat, size : Nat] /\ End(e) <= next_id * BLOCKSIZE
  BY DEF IInv, Placed
<1>8. ASSUME NEW e \in granted, NEW b \in nodes' \cup {0} PROVE Apart(e, BlockExtent(b))
  <2>1. CASE b \in nodes \cup {0}  BY <2>1 DEF IInv, SpaceDisjoint
  <2>2. CASE b \in Nat /\ next_id <= b  BY <2>2, <1>1, <1>7, BelowBlock
  <2> QED  BY <2>1, <2>2
<1>9. ASSUME NEW b \in nodes' \cup {0} PROVE Apart(FreeSpan, BlockExtent(b))
  <2>1. CASE b \in nodes \cup {0}  BY <2>1 DEF IInv, SpaceDisjoint
  <2>2. CASE b \in Nat /\ next_id <= b  BY <2>2, <1>1, <1>6, BelowBlock
  <2> QED  BY <2>1, <2>2
<1>10. SpaceDisjoint'
  <2>1. /\ \A e, f \in granted : e # f => Apart(e, f)
        /\ \A e \in granted : Apart(e, FreeSpan)
    BY DEF IInv, SpaceDisjoint
  <2> QED  BY <2>1, <1>5, <1>8, <1>9 DEF SpaceDisjoint
<1> QED  BY <1>3, <1>4, <1>10

\* A value gets its envelope and the tree n nodes: the new envelope, the new
\* nodes and what remains free keep their distance from everything.
LEMMA AllocKeeps ==
  ASSUME IInv, is_open, is_open', NEW v \in Value, NEW n \in Nat,
         next_id' = IdAfterAlloc(Amount(v)) + n, next_id' <= MaxBlock,
         nodes' = NodesAfterSearch \cup
                    (IdAfterAlloc(Amount(v)) .. (IdAfterAlloc(Amount(v)) + n - 1)),
         next_location' = consume(SpanFor(Amount(v)), Amount(v)),
         granted' = granted \cup {Extent(NewEnvelope(v))}
  PROVE  /\ SpanOK(FreeLocation', next_id')
         /\ \A e \in granted' : Placed(e, next_id')
         /\ SpaceDisjoint'
<1> DEFINE a == Amount(v)  S == SpanFor(a)  R == consume(S, a)
           E == Extent(NewEnvelope(v))  id == IdAfterAlloc(a)
<1>1. id \in Nat
  <2>1. IdAfterSearch \in Nat /\ a \in Nat /\ a > 0  BY AfterSearch, Amounts DEF IInv
  <2>2. size_in_blocks(a) \in Nat  BY <2>1, RoundedUp
  <2> QED  BY <2>1, <2>2 DEF IdAfterAlloc
<1>2. id <= MaxBlock  BY <1>1, Sizes
<1>3. /\ next_id <= IdAfterSearch /\ IdAfterSearch <= id
      /\ R \in SizedLocators /\ SpanOK(R, id) /\ R.block # BLOCK_ID_INVALID
      /\ E \in [at : Nat, size : Nat] /\ Placed(E, id)
      /\ Extent(R) \in [at : Nat, size : Nat] /\ Extent(R).at = End(E)
  BY <1>2, AllocOK
<1>4. \A e \in [at : Nat, size : Nat] :
         End(e) <= next_id * BLOCKSIZE /\ Apart(e, FreeSpan) =>
            Apart(e, E) /\ Apart(e, Extent(R))
  BY <1>2, AllocOK
<1>5. \A b \in NodesAfterSearch \cup {0} :
         Apart(E, BlockExtent(b)) /\ Apart(Extent(R), BlockExtent(b))
  BY <1>2, AllocOK
<1>6. next_id \in Nat /\ IdAfterSearch \in Nat /\ next_id' \in Nat
  BY <1>1, AfterSearch DEF IInv, TypeOK
<1>7. FreeLocation' = R  BY DEF FreeLocation
<1>8. granted' = granted \cup {E} /\ next_id' = id + n
      /\ nodes' = NodesAfterSearch \cup (id .. (id + n - 1))
  OBVIOUS
<1> HIDE DEF a, S, R, E, id
<1>9. SpanOK(FreeLocation', next_id')
  BY <1>1, <1>3, <1>6, <1>7, <1>8, SpanGrows
<1>10. \A e \in granted' : Placed(e, next_id')
  <2>1. ASSUME NEW e \in granted PROVE Placed(e, next_id')
    BY <1>1, <1>3, <1>6, <1>8, PlacedGrows DEF IInv
  <2>2. Placed(E, next_id')  BY <1>1, <1>3, <1>6, <1>8, PlacedGrows
  <2> QED  BY <2>1, <2>2, <1>8
<1>11. FreeSpan' = Extent(R)
  <2>1. R.offset < BLOCKSIZE  BY <1>3, Sizes DEF SizedLocators, Offset
  <2>2. valid(R)  BY <1>3, <2>1 DEF valid
  <2> QED  BY <2>2, <1>7 DEF FreeSpan, valid, Extent, At
<1>12. ASSUME NEW e \in granted
       PROVE  /\ e \in [at : Nat, size : Nat] /\ End(e) <= next_id * BLOCKSIZE
              /\ End(e) <= id * BLOCKSIZE
              /\ Apart(e, E) /\ Apart(e, Extent(R))
  <2>1. e \in [at : Nat, size : Nat] /\ End(e) <= next_id * BLOCKSIZE
    BY DEF IInv, Placed
  <2>2. Apart(e, FreeSpan)  BY DEF IInv, SpaceDisjoint
  <2>3. Placed(e, id)  BY <1>1, <1>3, <1>6, PlacedGrows DEF IInv
  <2> QED  BY <2>1, <2>2, <2>3, <1>4 DEF Placed
<1>13. End(E) <= id * BLOCKSIZE /\ End(Extent(R)) <= id * BLOCKSIZE
  <2>1. Placed(Extent(R), id)
    <3>1. id >= 1  BY <1>1, <1>3, <1>6, AfterSearch DEF IInv
    <3> QED  BY <3>1, <1>1, <1>3, SpanPlaced
  <2> QED  BY <2>1, <1>3 DEF Placed
\* Blocks of the tree: old ones and the root, then the new ones.
<1>14. ASSUME NEW b \in nodes' \cup {0}
       PROVE  /\ Apart(E, BlockExtent(b)) /\ Apart(Extent(R), BlockExtent(b))
              /\ \A e \in granted : Apart(e, BlockExtent(b))
  <2>1. CASE b \in NodesAfterSearch \cup {0}
    <3>1. ASSUME NEW e \in granted PROVE Apart(e, BlockExtent(b))
      <4>1. CASE b \in nodes \cup {0}  BY <4>1 DEF IInv, SpaceDisjoint
      <4>2. CASE b = next_id  BY <4>2, <1>6, <1>12, BelowBlock
      <4> QED  BY <2>1, <4>1, <4>2 DEF NodesAfterSearch
    <3> QED  BY <2>1, <3>1, <1>5
  <2>2. CASE b \in id .. (id + n - 1)
    <3>1. b \in Int /\ id <= b  BY <2>2, <1>1
    <3>2. Apart(E, BlockExtent(b)) /\ Apart(Extent(R), BlockExtent(b))
      BY <3>1, <1>1, <1>3, <1>13, BelowBlock
    <3>3. ASSUME NEW e \in granted PROVE Apart(e, BlockExtent(b))
      BY <3>1, <1>1, <1>12, BelowBlock
    <3> QED  BY <3>2, <3>3
  <2> QED  BY <2>1, <2>2, <1>8
<1>15. SpaceDisjoint'
  <2>1. \A e, f \in granted' : e # f => Apart(e, f)
    <3>1. \A e, f \in granted : e # f => Apart(e, f)  BY DEF IInv, SpaceDisjoint
    <3>2. \A e \in granted : Apart(e, E) /\ Apart(E, e)  BY <1>12 DEF Apart
    <3> QED  BY <3>1, <3>2, <1>8
  <2>2. \A e \in granted', b \in nodes' \cup {0} : Apart(e, BlockExtent(b))
    BY <1>14, <1>8
  <2>3. \A e \in granted' : Apart(e, Extent(R))
    <3>1. Apart(E, Extent(R))  BY <1>3 DEF Apart
    <3> QED  BY <3>1, <1>8, <1>12
  <2>4. \A b \in nodes' \cup {0} : Apart(Extent(R), BlockExtent(b))  BY <1>14
  <2> QED  BY <2>1, <2>2, <2>3, <2>4, <1>11 DEF SpaceDisjoint
<1> QED  BY <1>9, <1>10, <1>15

-----------------------------------------------------------------------------
(***************************************************************************)
(* Types of what the calls compute.                                         *)
(***************************************************************************)
\* A size stays a size, whatever is taken from it.
LEMMA MinusTyped ==
  ASSUME NEW a \in Int, NEW b \in Int
  PROVE  Minus(a, b) \in Size
  BY Sizes, SMTT(30) DEF Minus, Size

\* A locator stays normalized, however far it is moved.
LEMMA ConsumeTyped ==
  ASSUME NEW l \in SizedLocators, l.block # BLOCK_ID_INVALID, NEW n \in Nat
  PROVE  /\ consume(l, n) \in SizedLocators /\ consume(l, n).block \in Nat
         /\ At(consume(l, n)) \in Nat
<1>1. l.block \in Nat /\ l.offset \in Nat /\ l.offset + n \in Nat /\ l.size \in Int
  BY Sizes DEF SizedLocators, Offset, Size
<1>2. (l.offset + n) \div BLOCKSIZE \in Nat /\ (l.offset + n) % BLOCKSIZE \in Offset
  BY <1>1, DivMod
<1>3. Minus(l.size, n) \in Size  BY <1>1, MinusTyped
<1>4. consume(l, n) = [block |-> l.block + ((l.offset + n) \div BLOCKSIZE),
                       offset |-> (l.offset + n) % BLOCKSIZE, size |-> Minus(l.size, n)]
  BY DEF consume, normalize, SizedLocators, BLOCK_ID_INVALID
<1>5. consume(l, n).block \in Nat /\ consume(l, n).offset \in Nat
  BY <1>1, <1>2, <1>4, Sizes DEF Offset
<1>6. At(consume(l, n)) \in Nat  BY <1>5, Sizes DEF At
<1> QED  BY <1>1, <1>2, <1>3, <1>4, <1>5, <1>6 DEF SizedLocators

\* Writing bytes into memory.
LEMMA OverlayTyped ==
  ASSUME NEW m \in [Address -> Cell], NEW a \in Nat, NEW s \in Seq(Cell)
  PROVE  Overlay(m, a, s) \in [Address -> Cell]
<1>1. ASSUME NEW x \in Address, x \in a .. (a + Len(s) - 1) PROVE s[x - a + 1] \in Cell
  <2>1. x - a + 1 \in 1..Len(s)  BY <1>1
  <2> QED  BY <2>1
<1> QED  BY <1>1 DEF Overlay

\* A value and its length field are strings of cells.
LEMMA BytesTyped ==
  ASSUME NEW v \in Value
  PROVE  Bytes(v) \in Seq(Cell) /\ LengthField(Length[v]) \in Seq(Cell)
<1>1. Length[v] \in Nat /\ Length[v] \in 0 .. (SizeModulus - 1 - LengthFieldSize)
  BY Sizes, SizesAssumption DEF SizesAssumption
<1>2. \A i \in 1..Length[v] : [value |-> v, at |-> i] \in Cell  BY <1>1 DEF Cell
<1>3. \A i \in 1..LengthFieldSize : [length |-> Length[v], at |-> i] \in Cell
  BY <1>1, Sizes DEF Cell
<1>4. Bytes(v) \in Seq(Cell)  BY <1>1, <1>2 DEF Bytes
<1>5. LengthField(Length[v]) \in Seq(Cell)  BY <1>3, Sizes DEF LengthField
<1> QED  BY <1>4, <1>5

\* Writing an envelope leaves the memory a memory.
LEMMA WriteTyped ==
  ASSUME TypeOK, NEW l \in SizedLocators, l.block # BLOCK_ID_INVALID, NEW v \in Value
  PROVE  WriteEnvelope(l, v) \in [Address -> Cell] /\ Fits(l, v) \in BOOLEAN
<1>1. memory \in [Address -> Cell]  BY DEF TypeOK
<1>2. At(l) \in Nat  BY Sizes DEF At, SizedLocators, Offset
<1>3. At(contentsLocator(l)) \in Nat  BY ConsumeTyped, Sizes DEF contentsLocator
<1> DEFINE headed == Overlay(memory, At(l), LengthField(Length[v]))
<1>4. headed \in [Address -> Cell]  BY <1>1, <1>2, BytesTyped, OverlayTyped
<1>5. Overlay(headed, At(contentsLocator(l)), Bytes(v)) \in [Address -> Cell]
  BY <1>3, <1>4, BytesTyped, OverlayTyped
<1>6. Fits(l, v) \in BOOLEAN  BY DEF Fits
<1> QED  BY <1>4, <1>5, <1>6 DEF WriteEnvelope

\* The envelope of a stored key.
LEMMA HeadTyped ==
  ASSUME TypeOK, HeadsOK, NEW k \in Key, Present(k)
  PROVE  EnvelopeOf(k) \in SizedLocators /\ EnvelopeOf(k).block # BLOCK_ID_INVALID
<1>1. /\ tree[k] \in Locators /\ tree[k].block \in 1..(next_id - 1)
      /\ tree[k].offset + LengthFieldSize <= BLOCKSIZE
      /\ next_id \in Nat /\ next_id <= MaxBlock
  BY Sizes DEF TypeOK, HeadsOK
<1>2. At(tree[k]) \in Address
  <2>1. tree[k].offset \in Nat /\ tree[k].offset < BLOCKSIZE /\ tree[k].block \in Nat
    BY <1>1, Sizes DEF Locators, Offset
  <2>2. (tree[k].block + 1) * BLOCKSIZE <= MaxBlock * BLOCKSIZE  BY <1>1, <2>1, Monotone, Sizes
  <2>3. (tree[k].block + 1) * BLOCKSIZE = tree[k].block * BLOCKSIZE + BLOCKSIZE
    BY <2>1, BlockEnd
  <2>4. tree[k].block * BLOCKSIZE \in Nat /\ MaxBlock * BLOCKSIZE \in Nat  BY <2>1, Sizes
  <2> QED  BY <2>1, <2>2, <2>3, <2>4, Sizes DEF At, Address
<1>3. memory[At(tree[k])] \in Cell  BY <1>2 DEF TypeOK
<1>4. LengthAt(At(tree[k])) \in 0 .. (SizeModulus - 1 - LengthFieldSize)
  <2> DEFINE c == memory[At(tree[k])]
  <2>1. SizeModulus - 1 - LengthFieldSize >= 0
    <3>1. 2 * BLOCKSIZE <= MaxBlock * BLOCKSIZE  BY Sizes, Monotone
    <3> QED  BY <3>1, Sizes
  <2>2. CASE "length" \in DOMAIN c
    <3>1. c \in [length : 0 .. (SizeModulus - 1 - LengthFieldSize), at : Nat]
      BY <1>3, <2>2 DEF Cell, Zero
    <3>2. c.length \in 0 .. (SizeModulus - 1 - LengthFieldSize)  BY <3>1
    <3> QED  BY <2>1, <3>2, Sizes DEF LengthAt
  <2>3. CASE "length" \notin DOMAIN c  BY <2>1, <2>3, Sizes DEF LengthAt
  <2> QED  BY <2>2, <2>3
<1>5. LengthAt(At(tree[k])) + LengthFieldSize \in Size  BY <1>4, Sizes DEF Size
<1> QED
  BY <1>1, <1>5 DEF EnvelopeOf, SizedLocator, SizedLocators, Locators, BLOCK_ID_INVALID

\* The file reaches as far as the ids in use.
LEMMA LastBlockIs ==
  ASSUME IInv, is_open, NEW v \in Value, IdAfterAlloc(Amount(v)) <= MaxBlock
  PROVE  /\ LastBlock(NewEnvelope(v), v) \in Int
         /\ LastBlock(NewEnvelope(v), v) + 1 <= IdAfterAlloc(Amount(v))
         /\ \/ IdAfterAlloc(Amount(v)) = next_id
            \/ LastBlock(NewEnvelope(v), v) + 1 = IdAfterAlloc(Amount(v))
<1> DEFINE a == Amount(v)  S == SpanFor(a)  id == IdAfterAlloc(a)  n == size_in_blocks(a)
<1>1. a \in Nat /\ a > 0  BY Amounts
<1>2. LastBlock(NewEnvelope(v), v) = (At(S) + a - 1) \div BLOCKSIZE
  BY DEF LastBlock, NewEnvelope, SizedLocator, At
<1>3. CASE NeedsSpan(a)
  <2>1. n \in Nat /\ n > 0 /\ a <= n * BLOCKSIZE /\ (n - 1) * BLOCKSIZE < a  BY <1>1, RoundedUp
  <2>2. At(S) = IdAfterSearch * BLOCKSIZE  BY <1>3, NewSpan
  <2>3. id = IdAfterSearch + n  BY <1>3 DEF IdAfterAlloc
  <2>4. IdAfterSearch \in Nat  BY AfterSearch DEF IInv
  <2> DEFINE r == a - 1 - (n - 1) * BLOCKSIZE
  <2> HIDE DEF a, S, id, n
  <2>5. (n - 1) * BLOCKSIZE \in Nat /\ n * BLOCKSIZE = (n - 1) * BLOCKSIZE + BLOCKSIZE
    <3>1. n - 1 \in Nat  BY <2>1
    <3> QED  BY <3>1, <2>1, BlockEnd, Sizes
  <2>6. r \in Offset  BY <1>1, <2>1, <2>5, Sizes DEF Offset
  <2>7. At(S) + a - 1 = (IdAfterSearch + n - 1) * BLOCKSIZE + r
    <3>1. (IdAfterSearch + (n - 1)) * BLOCKSIZE = IdAfterSearch * BLOCKSIZE + (n - 1) * BLOCKSIZE
      BY <2>1, <2>4, Sizes, SMTT(30)
    <3>2. IdAfterSearch + n - 1 = IdAfterSearch + (n - 1)  BY <2>1, <2>4
    <3>3. IdAfterSearch * BLOCKSIZE \in Nat  BY <2>4, Sizes
    <3> QED  BY <3>1, <3>2, <3>3, <2>2, <2>5, <1>1
  <2>8. (At(S) + a - 1) \div BLOCKSIZE = IdAfterSearch + n - 1
    <3>1. IdAfterSearch + n - 1 \in Nat  BY <2>1, <2>4
    <3> QED  BY <3>1, <2>6, <2>7, DivModIs
  <2> QED  BY <1>2, <2>1, <2>3, <2>4, <2>8 DEF a, S, id
<1>4. CASE ~ NeedsSpan(a)
  <2>1. /\ S \in SizedLocators /\ S.block \in 1..(id - 1) /\ a <= S.size
        /\ S.offset + S.size = BLOCKSIZE /\ id = next_id
    BY <1>4, SpanInUse
  <2>2. next_id \in Nat  BY DEF IInv, TypeOK
  <2> HIDE DEF a, S, id, n
  <2>3. S.block \in Nat /\ S.offset \in Nat /\ S.size \in Nat
    BY <2>1, Sizes DEF SizedLocators, Offset, Size
  <2>4. S.offset + a - 1 \in Offset  BY <1>1, <2>1, <2>3, Sizes DEF Offset
  <2>5. At(S) + a - 1 = S.block * BLOCKSIZE + (S.offset + a - 1)
    <3>1. S.block * BLOCKSIZE \in Nat  BY <2>3, Sizes
    <3> QED  BY <3>1, <2>3, <1>1 DEF At
  <2>6. (At(S) + a - 1) \div BLOCKSIZE = S.block  BY <2>3, <2>4, <2>5, DivModIs
  <2> QED  BY <1>2, <2>1, <2>2, <2>6 DEF a, S, id
<1> QED  BY <1>3, <1>4

-----------------------------------------------------------------------------
(***************************************************************************)
(* The calls.                                                               *)
(***************************************************************************)
\* How ids, nodes and the file move when nothing is allocated.
Grown ==
  /\ next_id' \in 1..MaxBlock /\ next_id <= next_id'
  /\ nodes' \subseteq 1..(next_id' - 1)
  /\ \A b \in nodes' : b \in nodes \/ (b \in Nat /\ next_id <= b)
  /\ file_blocks' = next_id'
  /\ IdsOK'

\* A search of the tree, with the root it may create.
LEMMA SearchGrows ==
  ASSUME IInv, SearchTree
  PROVE  Grown
<1>1. /\ IdAfterSearch \in 2..MaxBlock /\ next_id <= IdAfterSearch
      /\ NodesAfterSearch \subseteq 1..(IdAfterSearch - 1)
      /\ \A b \in NodesAfterSearch \ nodes : b = next_id
      /\ IdAfterSearch = next_id \/ IdAfterSearch - 1 \in NodesAfterSearch
  BY AfterSearch DEF IInv
<1>2. next_id' = IdAfterSearch /\ nodes' = NodesAfterSearch /\ ReachBlock(0)
  BY DEF SearchTree
<1>3. next_id \in Nat /\ file_blocks = next_id  BY DEF IInv, TypeOK, IdsOK
<1>4. file_blocks' = next_id'  BY <1>1, <1>2, <1>3, ReachIs
<1>5. nodes' # {}  BY <1>2 DEF NodesAfterSearch
<1>6. ASSUME NEW b \in nodes' PROVE b \in nodes \/ (b \in Nat /\ next_id <= b)
  BY <1>1, <1>2, <1>3
<1>7. IdsOK'  BY <1>4, <1>5 DEF IdsOK
<1>8. next_id' \in 1..MaxBlock /\ next_id <= next_id'  BY <1>1, <1>2, <1>3, Sizes
<1>9. nodes' \subseteq 1..(next_id' - 1)  BY <1>1, <1>2
<1> QED  BY <1>4, <1>6, <1>7, <1>8, <1>9 DEF Grown

\* An insertion into the tree that adds n nodes, where nothing is allocated.
LEMMA AddGrows ==
  ASSUME IInv, NEW n \in Nat, AddNodes(IdAfterSearch, n), ReachBlock(0)
  PROVE  Grown
<1>1. /\ IdAfterSearch \in 2..MaxBlock /\ next_id <= IdAfterSearch
      /\ NodesAfterSearch \subseteq 1..(IdAfterSearch - 1)
      /\ \A b \in NodesAfterSearch \ nodes : b = next_id
      /\ IdAfterSearch = next_id \/ IdAfterSearch - 1 \in NodesAfterSearch
  BY AfterSearch DEF IInv
<1>2. /\ next_id' = IdAfterSearch + n /\ next_id' <= MaxBlock
      /\ nodes' = NodesAfterSearch \cup (IdAfterSearch .. (IdAfterSearch + n - 1))
  BY DEF AddNodes
<1>3. next_id \in Nat /\ file_blocks = next_id  BY DEF IInv, TypeOK, IdsOK
<1>4. nodes' \subseteq 1..(next_id' - 1)  BY <1>1, <1>2
<1>5. file_blocks = next_id' \/ next_id' - 1 \in nodes'  BY <1>1, <1>2, <1>3
<1>6. file_blocks' = next_id'  BY <1>1, <1>2, <1>3, <1>4, <1>5, ReachIs
<1>7. nodes' # {}  BY <1>2 DEF NodesAfterSearch
<1>8. ASSUME NEW b \in nodes' PROVE b \in nodes \/ (b \in Nat /\ next_id <= b)
  BY <1>1, <1>2, <1>3
<1>9. IdsOK'  BY <1>6, <1>7 DEF IdsOK
<1>10. next_id' \in 1..MaxBlock /\ next_id <= next_id'  BY <1>1, <1>2, <1>3, Sizes
<1> QED  BY <1>4, <1>6, <1>8, <1>9, <1>10 DEF Grown

\* A call that allocates no space for a value.
LEMMA NoAllocation ==
  ASSUME IInv, TypeOK', Grown, granted' = granted, FreeLocation' = FreeLocation,
         \A k \in Key : tree'[k] \in {tree[i] : i \in Key} \cup {NoLocator}
  PROVE  IInv'
<1>1. HeadsOK'
  <2> SUFFICES ASSUME NEW k \in Key, tree'[k] # NoLocator
               PROVE  /\ tree'[k].block \in 1..(next_id' - 1)
                      /\ tree'[k].offset + LengthFieldSize <= BLOCKSIZE
    BY DEF HeadsOK, Present
  <2>1. PICK i \in Key : tree'[k] = tree[i]  OBVIOUS
  <2>2. /\ tree[i].block \in 1..(next_id - 1)
        /\ tree[i].offset + LengthFieldSize <= BLOCKSIZE
    BY <2>1 DEF IInv, HeadsOK, Present
  <2>3. next_id \in Nat  BY DEF IInv, TypeOK
  <2> QED  BY <2>1, <2>2, <2>3 DEF Grown
<1>2. /\ SpanOK(FreeLocation', next_id')
      /\ \A e \in granted' : Placed(e, next_id')
      /\ SpaceDisjoint'
  BY GrowKeeps DEF Grown
<1> QED  BY <1>1, <1>2 DEF IInv, Grown

\* put() refused, has(), get(), and rename() of a key that is not stored.
LEMMA QuietStep ==
  ASSUME IInv, NEW k \in Key, HQuiet(k)
  PROVE  IInv'
<1>1. /\ SearchTree
      /\ UNCHANGED <<is_open, tree, memory, first_block_id, next_location, header, search,
                     granted>>
      /\ DOMAIN answer' = {"call", "ok", "value"} /\ answer'.ok \in BOOLEAN
  <2>1. CASE PutRefused(k)  BY <2>1 DEF HQuiet, PutRefused, Answer
  <2>2. CASE Has(k)  BY <2>2 DEF HQuiet, Has, Answer, Present
  <2>3. CASE Get(k)  BY <2>3 DEF HQuiet, Get, Answer, Present
  <2>4. CASE \E new \in Key : RenameMissing(k, new)
    BY <2>4 DEF HQuiet, RenameMissing, Answer
  <2> QED  BY <2>1, <2>2, <2>3, <2>4 DEF HQuiet
<1>2. Grown  BY <1>1, SearchGrows
<1>3. TypeOK'  BY <1>1, <1>2 DEF IInv, TypeOK, Grown
<1>4. FreeLocation' = FreeLocation  BY <1>1 DEF FreeLocation
<1> QED  BY <1>1, <1>2, <1>3, <1>4, NoAllocation

\* find() keeps the locator of the envelope, or invalidates the one it had.
LEMMA FindStep ==
  ASSUME IInv, NEW k \in Key, HFind(k)
  PROVE  IInv'
<1>1. /\ SearchTree
      /\ UNCHANGED <<is_open, tree, memory, first_block_id, next_location, header, granted>>
      /\ DOMAIN answer' = {"call", "ok", "value"} /\ answer'.ok \in BOOLEAN
  BY DEF HFind, Find, Answer, Present
<1>2. Grown  BY <1>1, SearchGrows
<1>3. search' \in [found : BOOLEAN, loc : SizedLocators]
  <2>1. CASE Present(k)
    <3>1. EnvelopeOf(k) \in SizedLocators  BY <2>1, HeadTyped DEF IInv
    <3>2. search' = [found |-> TRUE, loc |-> EnvelopeOf(k)]  BY <2>1 DEF HFind, Find
    <3> QED  BY <3>1, <3>2
  <2>2. CASE ~ Present(k)
    <3>1. search' = [found |-> FALSE, loc |-> [search.loc EXCEPT !.block = BLOCK_ID_INVALID]]
      BY <2>2 DEF HFind, Find
    <3>2. search.loc \in SizedLocators  BY DEF IInv, TypeOK
    <3>3. [search.loc EXCEPT !.block = BLOCK_ID_INVALID] \in SizedLocators
      BY <3>2 DEF SizedLocators
    <3> QED  BY <3>1, <3>3
  <2> QED  BY <2>1, <2>2
<1>4. TypeOK'  BY <1>1, <1>2, <1>3 DEF IInv, TypeOK, Grown
<1>5. FreeLocation' = FreeLocation  BY <1>1 DEF FreeLocation
<1> QED  BY <1>1, <1>2, <1>4, <1>5, NoAllocation

\* put() in place writes over an envelope that stays where it is.
LEMMA PutInPlaceStep ==
  ASSUME IInv, NEW k \in Key, NEW v \in Value, HPutInPlace(k, v)
  PROVE  IInv'
<1>1. /\ SearchTree /\ Present(k)
      /\ memory' = WriteEnvelope(EnvelopeOf(k), v)
      /\ UNCHANGED <<is_open, tree, first_block_id, next_location, header, search, granted>>
      /\ answer' = [call |-> <<"put", k, v>>, ok |-> Fits(EnvelopeOf(k), v), value |-> <<>>]
  BY DEF HPutInPlace, PutInPlace, Answer
<1>2. Grown  BY <1>1, SearchGrows
<1>3. EnvelopeOf(k) \in SizedLocators /\ EnvelopeOf(k).block # BLOCK_ID_INVALID
  BY <1>1, HeadTyped DEF IInv
<1>4. memory' \in [Address -> Cell] /\ Fits(EnvelopeOf(k), v) \in BOOLEAN
  BY <1>1, <1>3, WriteTyped DEF IInv
<1>5. TypeOK'  BY <1>1, <1>2, <1>4 DEF IInv, TypeOK, Grown
<1>6. FreeLocation' = FreeLocation  BY <1>1 DEF FreeLocation
<1> QED  BY <1>1, <1>2, <1>5, <1>6, NoAllocation

\* rename() moves a locator from one key to another.
LEMMA RenameStep ==
  ASSUME IInv, NEW old \in Key, NEW new \in Key, NEW n \in 0..MaxNewNodes, HRename(old, new, n)
  PROVE  IInv'
<1>1. /\ AddNodes(IdAfterSearch, n) /\ ReachBlock(0)
      /\ tree' = [tree EXCEPT ![new] = tree[old], ![old] = NoLocator]
      /\ UNCHANGED <<is_open, memory, first_block_id, next_location, header, search, granted>>
      /\ answer' = [call |-> <<"rename", old, new>>, ok |-> TRUE, value |-> <<>>]
  BY DEF HRename, Rename, Answer
<1>2. n \in Nat  BY SizesAssumption DEF SizesAssumption
<1>3. Grown  BY <1>1, <1>2, AddGrows
<1>4. tree \in [Key -> Locators]  BY DEF IInv, TypeOK
<1>5. NoLocator \in Locators
  BY Sizes DEF NoLocator, DataLocator, Locators, Offset
<1>6. tree' \in [Key -> Locators]  BY <1>1, <1>4, <1>5
<1>7. TypeOK'  BY <1>1, <1>3, <1>6 DEF IInv, TypeOK, Grown
<1>8. FreeLocation' = FreeLocation  BY <1>1 DEF FreeLocation
<1>9. \A k \in Key : tree'[k] \in {tree[i] : i \in Key} \cup {NoLocator}  BY <1>1, <1>4
<1> QED  BY <1>1, <1>3, <1>7, <1>8, <1>9, NoAllocation

\* get() of a piece moves the locator of the Search.
LEMMA StreamStep ==
  ASSUME IInv, NEW n \in Piece \cup {contents_size(search.loc)}, HStream(n)
  PROVE  IInv'
<1>1. /\ search.found /\ valid(search.loc)
      /\ search' = [search EXCEPT !.loc = consume(search.loc, n)]
      /\ UNCHANGED <<is_open, tree, nodes, memory, next_id, file_blocks, first_block_id,
                     next_location, header, granted>>
      /\ DOMAIN answer' = {"call", "ok", "value"} /\ answer'.ok \in BOOLEAN
  BY DEF HStream, Stream, Streaming, Answer
<1>2. search \in [found : BOOLEAN, loc : SizedLocators]  BY DEF IInv, TypeOK
<1>3. n \in Nat
  <2>1. search.loc.size \in Int
    <3>1. search.loc \in SizedLocators  BY <1>2
    <3> QED  BY <3>1, Sizes DEF SizedLocators, Size
  <2>2. Minus(search.loc.size, LengthFieldSize) \in Size  BY <2>1, MinusTyped, Sizes
  <2>3. contents_size(search.loc) \in Nat  BY <2>2, Sizes DEF contents_size, Size
  <2> QED  BY <2>3, SizesAssumption DEF SizesAssumption
<1>4. consume(search.loc, n) \in SizedLocators
  BY <1>1, <1>2, <1>3, ConsumeTyped DEF valid
<1>5. search' \in [found : BOOLEAN, loc : SizedLocators]  BY <1>1, <1>2, <1>4
<1>6. TypeOK'  BY <1>1, <1>5 DEF IInv, TypeOK
<1>7. Grown
  BY <1>1, Sizes DEF IInv, TypeOK, IdsOK, Grown
<1>8. FreeLocation' = FreeLocation  BY <1>1 DEF FreeLocation
<1> QED  BY <1>1, <1>6, <1>7, <1>8, NoAllocation

\* close() puts the free span into the header, open() takes it from there; a
\* new object counts on from the end of the file.
LEMMA OtherStep ==
  ASSUME IInv, HOther
  PROVE  IInv'
<1>1. /\ UNCHANGED <<tree, nodes, memory, file_blocks, search, granted>>
      /\ DOMAIN answer' = {"call", "ok", "value"} /\ answer'.ok \in BOOLEAN
      /\ next_id' = next_id
      /\ is_open' \in BOOLEAN
      /\ first_block_id' \in Nat \cup {BLOCK_ID_INVALID}
      /\ next_location' \in SizedLocators
      /\ header' \in [first : Nat \cup {BLOCK_ID_INVALID}, next : SizedLocators]
      /\ FreeLocation' = FreeLocation
  <2>1. /\ first_block_id \in Nat \cup {BLOCK_ID_INVALID} /\ next_location \in SizedLocators
        /\ header \in [first : Nat \cup {BLOCK_ID_INVALID}, next : SizedLocators]
        /\ is_open \in BOOLEAN /\ file_blocks = next_id
    BY DEF IInv, TypeOK, IdsOK
  <2>2. CASE RefuseLongKey
    BY <2>1, <2>2 DEF HOther, RefuseLongKey, Answer, FreeLocation
  <2>3. CASE StreamNothing
    BY <2>1, <2>3 DEF HOther, StreamNothing, Answer, FreeLocation
  <2>4. CASE Close
    BY <2>1, <2>4 DEF HOther, Close, Answer, FreeLocation, Running, header_write
  <2>5. CASE \E new_object \in BOOLEAN : Open(new_object)
    BY <2>1, <2>5 DEF HOther, Open, Answer, FreeLocation, header_read
  <2> QED  BY <2>2, <2>3, <2>4, <2>5 DEF HOther
<1>2. Grown  BY <1>1, Sizes DEF IInv, TypeOK, IdsOK, Grown
<1>3. TypeOK'  BY <1>1 DEF IInv, TypeOK
<1> QED  BY <1>1, <1>2, <1>3, NoAllocation

\* put() that allocates: the envelope, n nodes, and the key in the tree.
LEMMA AllocStep ==
  ASSUME IInv, NEW k \in Key, NEW v \in Value, NEW n \in Nat, Running,
         AddNodes(IdAfterAlloc(Amount(v)), n), PutAllocated(k, v), Grant(v)
  PROVE  IInv'
<1> DEFINE a == Amount(v)  S == SpanFor(a)  id == IdAfterAlloc(a)  l == NewEnvelope(v)
<1>1. /\ next_id' = id + n /\ next_id' <= MaxBlock
      /\ nodes' = NodesAfterSearch \cup (id .. (id + n - 1))
      /\ next_location' = consume(S, a)
      /\ first_block_id' = IF NeedsSpan(a) /\ first_block_id = BLOCK_ID_INVALID
                           THEN IdAfterSearch ELSE first_block_id
      /\ memory' = WriteEnvelope(l, v)
      /\ tree' = [tree EXCEPT ![k] = DataLocator(l.block, l.offset)]
      /\ ReachBlock(LastBlock(l, v))
      /\ answer' = [call |-> <<"put", k, v>>, ok |-> Fits(l, v), value |-> <<>>]
      /\ granted' = granted \cup {Extent(l)}
      /\ UNCHANGED <<is_open, header, search>>
  BY DEF AddNodes, PutAllocated, alloc_value_envelope, Answer, Grant
<1>2. /\ is_open /\ is_open'  BY <1>1 DEF Running
<1>3. /\ IdAfterSearch \in 2..MaxBlock /\ next_id <= IdAfterSearch
      /\ NodesAfterSearch \subseteq 1..(IdAfterSearch - 1)
  BY AfterSearch DEF IInv
<1>4. id \in Nat
  <2>1. a \in Nat /\ a > 0  BY Amounts
  <2>2. size_in_blocks(a) \in Nat  BY <2>1, RoundedUp
  <2> QED  BY <2>2, <1>3 DEF IdAfterAlloc
<1>5. id <= MaxBlock  BY <1>1, <1>4, Sizes
<1>6. /\ S.block \in 1..(id - 1) /\ S.offset \in Offset
      /\ S.offset + LengthFieldSize <= BLOCKSIZE
      /\ IdAfterSearch <= id /\ consume(S, a) \in SizedLocators
  BY <1>2, <1>5, AllocOK
<1>7. l = [block |-> S.block, offset |-> S.offset, size |-> a]
  BY DEF NewEnvelope, SizedLocator
<1>8. /\ LastBlock(l, v) \in Int /\ LastBlock(l, v) + 1 <= id
      /\ id = next_id \/ LastBlock(l, v) + 1 = id
  BY <1>2, <1>5, LastBlockIs
<1>9. /\ SpanOK(FreeLocation', next_id')
      /\ \A e \in granted' : Placed(e, next_id')
      /\ SpaceDisjoint'
  BY <1>1, <1>2, AllocKeeps
<1>10. a \in Size  BY Amounts
<1>11. l \in SizedLocators /\ l.block # BLOCK_ID_INVALID
  <2> HIDE DEF a, S, id, l
  <2> QED  BY <1>4, <1>6, <1>7, <1>10 DEF SizedLocators, BLOCK_ID_INVALID
<1>12. WriteEnvelope(l, v) \in [Address -> Cell] /\ Fits(l, v) \in BOOLEAN
  BY <1>11, WriteTyped DEF IInv
<1>13. /\ next_id \in 1..MaxBlock /\ file_blocks = next_id
       /\ tree \in [Key -> Locators]
       /\ first_block_id \in Nat \cup {BLOCK_ID_INVALID}
       /\ is_open \in BOOLEAN
       /\ header \in [first : Nat \cup {BLOCK_ID_INVALID}, next : SizedLocators]
       /\ search \in [found : BOOLEAN, loc : SizedLocators]
  BY DEF IInv, TypeOK, IdsOK
<1> HIDE DEF a, S, id, l
<1>14. nodes' \subseteq 1..(next_id' - 1)  BY <1>1, <1>3, <1>4, <1>6
<1>15. file_blocks' = next_id'
  <2>1. next_id' \in Nat /\ file_blocks \in Nat /\ file_blocks <= next_id'
        /\ LastBlock(l, v) + 1 <= next_id'
    BY <1>1, <1>3, <1>4, <1>6, <1>8, <1>13
  <2>2. file_blocks = next_id' \/ LastBlock(l, v) + 1 = next_id' \/ next_id' - 1 \in nodes'
    <3>1. CASE n = 0  BY <3>1, <1>1, <1>4, <1>8, <1>13
    <3>2. CASE n > 0  BY <3>2, <1>1, <1>4
    <3> QED  BY <3>1, <3>2
  <2> QED  BY <2>1, <2>2, <1>1, <1>8, <1>14, ReachIs
<1>16. IdsOK'
  <2>1. nodes' # {}  BY <1>1 DEF NodesAfterSearch
  <2> QED  BY <2>1, <1>15 DEF IdsOK
<1>17. DataLocator(l.block, l.offset) \in Locators
  BY <1>11 DEF DataLocator, Locators, SizedLocators
<1>18. HeadsOK'
  <2> SUFFICES ASSUME NEW i \in Key, tree'[i] # NoLocator
               PROVE  /\ tree'[i].block \in 1..(next_id' - 1)
                      /\ tree'[i].offset + LengthFieldSize <= BLOCKSIZE
    BY DEF HeadsOK, Present
  <2>1. CASE i = k
    <3>1. tree'[i] = [block |-> S.block, offset |-> S.offset]
      BY <2>1, <1>1, <1>7, <1>13 DEF DataLocator
    <3> QED  BY <3>1, <1>1, <1>4, <1>6
  <2>2. CASE i # k
    <3>1. tree'[i] = tree[i]  BY <2>2, <1>1, <1>13
    <3>2. /\ tree[i].block \in 1..(next_id - 1)
          /\ tree[i].offset + LengthFieldSize <= BLOCKSIZE
      BY <3>1 DEF IInv, HeadsOK, Present
    <3> QED  BY <3>1, <3>2, <1>1, <1>3, <1>4, <1>6, <1>13
  <2> QED  BY <2>1, <2>2
<1>19. TypeOK'
  <2>1. tree' \in [Key -> Locators]  BY <1>1, <1>13, <1>17
  <2>2. next_id' \in 1..MaxBlock  BY <1>1, <1>3, <1>4, <1>6, <1>13, Sizes
  <2>3. first_block_id' \in Nat \cup {BLOCK_ID_INVALID}  BY <1>1, <1>3, <1>13
  <2>4. next_location' \in SizedLocators /\ memory' \in [Address -> Cell]
    BY <1>1, <1>6, <1>12
  <2>5. DOMAIN answer' = {"call", "ok", "value"} /\ answer'.ok \in BOOLEAN
    BY <1>1, <1>12
  <2> QED  BY <2>1, <2>2, <2>3, <2>4, <2>5, <1>1, <1>13, <1>14, <1>15 DEF TypeOK
<1> QED  BY <1>9, <1>16, <1>18, <1>19 DEF IInv

\* A new store: no value, no node, no free span.
LEMMA InitOK ==
  ASSUME HInit
  PROVE  IInv
<1>1. /\ is_open = TRUE /\ nodes = {} /\ granted = {} /\ next_id = 1 /\ file_blocks = 1
      /\ tree = [k \in Key |-> NoLocator] /\ memory = [x \in Address |-> Zero]
      /\ header = EmptyHeader
      /\ first_block_id = BLOCK_ID_INVALID
      /\ next_location = SizedLocator(BLOCK_ID_INVALID, 0, 0)
      /\ search = [found |-> FALSE, loc |-> SizedLocator(BLOCK_ID_INVALID, 0, 0)]
      /\ answer = [call |-> <<"open">>, ok |-> TRUE, value |-> <<>>]
  BY DEF HInit, Init, EmptyHeader
<1>2. SizedLocator(BLOCK_ID_INVALID, 0, 0) \in SizedLocators
  BY Sizes DEF SizedLocator, SizedLocators, Offset, Size
<1>3. NoLocator \in Locators  BY Sizes DEF NoLocator, DataLocator, Locators, Offset
<1>4. Zero \in Cell  BY DEF Cell
<1>5. TypeOK
  BY <1>1, <1>2, <1>3, <1>4, Sizes DEF TypeOK, EmptyHeader
<1>6. FreeLocation.block = BLOCK_ID_INVALID
  BY <1>1 DEF FreeLocation, SizedLocator
<1>7. FreeSpan = [at |-> 0, size |-> 0]  BY <1>6 DEF FreeSpan, valid
<1>8. SpaceDisjoint
  <2>1. Apart(FreeSpan, BlockExtent(0))
    <3>1. 0 * BLOCKSIZE = 0  BY Sizes
    <3> QED  BY <3>1, <1>7 DEF Apart, End, BlockExtent
  <2> QED  BY <2>1, <1>1 DEF SpaceDisjoint
<1> QED  BY <1>1, <1>5, <1>6, <1>8 DEF IInv, IdsOK, HeadsOK, SpanOK, Present

\* Every step of a careful caller keeps the invariant.
LEMMA StepOK ==
  ASSUME IInv, [HNext]_hvars
  PROVE  IInv'
<1>1. CASE \E k \in Key : HQuiet(k) \/ HFind(k)  BY <1>1, QuietStep, FindStep
<1>2. CASE \E k \in Key, v \in Value : HPutInPlace(k, v)  BY <1>2, PutInPlaceStep
<1>3. CASE \E k \in Key, v \in Value : HPutLonger(k, v)
  BY <1>3, AllocStep DEF HPutLonger, PutLonger
<1>4. CASE \E k \in Key, v \in Value, n \in 0..MaxNewNodes : HPutNew(k, v, n)
  <2>1. PICK k \in Key, v \in Value, n \in 0..MaxNewNodes : HPutNew(k, v, n)  BY <1>4
  <2>2. n \in Nat  BY SizesAssumption DEF SizesAssumption
  <2> QED  BY <2>1, <2>2, AllocStep DEF HPutNew, PutNew
<1>5. CASE \E old, new \in Key, n \in 0..MaxNewNodes : HRename(old, new, n)
  BY <1>5, RenameStep
<1>6. CASE \E n \in Piece \cup {contents_size(search.loc)} : HStream(n)
  BY <1>6, StreamStep
<1>7. CASE HOther  BY <1>7, OtherStep
<1>8. CASE UNCHANGED hvars
  <2>1. UNCHANGED <<is_open, tree, nodes, memory, next_id, file_blocks, first_block_id,
                    next_location, header, search, answer, granted>>
    BY <1>8 DEF hvars, vars
  <2>2. TypeOK'  BY <2>1 DEF IInv, TypeOK
  <2>3. Grown  BY <2>1, Sizes DEF IInv, TypeOK, IdsOK, Grown
  <2>4. FreeLocation' = FreeLocation  BY <2>1 DEF FreeLocation
  <2> QED  BY <2>1, <2>2, <2>3, <2>4, NoAllocation
<1> QED  BY <1>1, <1>2, <1>3, <1>4, <1>5, <1>6, <1>7, <1>8 DEF HNext

\* The inductive invariant holds of every reachable state of the store.
LEMMA Invariance == HSpec => []IInv
<1>1. HInit => IInv  BY InitOK
<1>2. IInv /\ [HNext]_hvars => IInv'  BY StepOK
<1> QED  BY <1>1, <1>2, PTL DEF HSpec

-----------------------------------------------------------------------------
(***************************************************************************)
(* The theorems.                                                            *)
(***************************************************************************)
\* Every reachable state of the store is well typed; in particular every
\* locator it keeps is normalized (DataLocator::normalize), whatever the sizes
\* of blocks, values and pieces.
THEOREM TypeCorrect == HSpec => []TypeOK
<1>1. IInv => TypeOK  BY DEF IInv
<1> QED  BY <1>1, Invariance, PTL

\* No two values ever share a byte of the file, nor does a value with a node
\* of the tree, with the header block, or with the space the allocator goes on
\* with (alloc_value_envelope), across put, rename, close and reopening.
THEOREM SpaceIsDisjoint == HSpec => []SpaceDisjoint
<1>1. IInv => SpaceDisjoint  BY DEF IInv
<1> QED  BY <1>1, Invariance, PTL

\* The assertions of find() and alloc_value_envelope() about locators hold.
THEOREM LocatorAssertionsHold == HSpec => []LocatorAssertions
<1>1. ASSUME IInv PROVE LocatorAssertions
  <2>1. ASSUME NEW k \in Key, Present(k)
        PROVE  /\ valid(tree[k]) /\ tree[k].offset + LengthFieldSize <= BLOCKSIZE
               /\ tree[k].block < next_id
    <3>1. tree[k].block \in 1..(next_id - 1) /\ tree[k].offset + LengthFieldSize <= BLOCKSIZE
          /\ tree[k] \in Locators /\ next_id \in Nat
      BY <1>1, <2>1 DEF IInv, HeadsOK, TypeOK
    <3>2. tree[k].offset < BLOCKSIZE  BY <3>1, Sizes DEF Locators, Offset
    <3> QED  BY <3>1, <3>2 DEF valid, BLOCK_ID_INVALID
  <2>2. ASSUME is_open, NEW v \in Value, Amount(v) <= BLOCKSIZE
        PROVE  SpanFor(Amount(v)).offset <= BLOCKSIZE - Amount(v)
    <3>1. CASE NeedsSpan(Amount(v))
      <4>1. SpanFor(Amount(v)).offset = 0  BY <3>1 DEF SpanFor, SizedLocator
      <4> QED  BY <4>1, <2>2, Amounts, Sizes
    <3>2. CASE ~ NeedsSpan(Amount(v))
      <4>1. /\ SpanFor(Amount(v)) \in SizedLocators
            /\ Amount(v) <= SpanFor(Amount(v)).size
            /\ SpanFor(Amount(v)).offset + SpanFor(Amount(v)).size = BLOCKSIZE
        BY <1>1, <2>2, <3>2, SpanInUse
      <4>2. SpanFor(Amount(v)).offset \in Nat /\ SpanFor(Amount(v)).size \in Nat
        BY <4>1, Sizes DEF SizedLocators, Offset, Size
      <4> QED  BY <4>1, <4>2, Amounts, Sizes
    <3> QED  BY <3>1, <3>2
  <2> QED  BY <2>1, <2>2 DEF LocatorAssertions
<1> QED  BY <1>1, Invariance, PTL

\* The file, once its caches are written, reaches beyond every value, node and
\* free span: the ids a new object hands out from its end on are unused.
THEOREM FileHolds == HSpec => []FileHoldsAll
<1>1. ASSUME IInv PROVE FileHoldsAll
  <2>1. file_blocks = next_id /\ next_id \in Nat /\ nodes \subseteq 1..(next_id - 1)
    BY <1>1 DEF IInv, IdsOK, TypeOK
  <2>2. \A e \in granted : End(e) <= file_blocks * BLOCKSIZE
    BY <1>1, <2>1 DEF IInv, Placed
  <2>3. End(FreeSpan) <= file_blocks * BLOCKSIZE  BY <1>1, <2>1, FreePlaced DEF IInv
  <2>4. \A b \in nodes : b < file_blocks  BY <2>1
  <2> QED  BY <2>2, <2>3, <2>4 DEF FileHoldsAll
<1> QED  BY <1>1, Invariance, PTL

-----------------------------------------------------------------------------
(***************************************************************************)
(* What is stored, and what a stream still has to deliver.                  *)
(***************************************************************************)
\* Value v and its length lie at address a.
Written(a, v) ==
  /\ \A i \in 1..LengthFieldSize : memory[a + i - 1] = [length |-> Length[v], at |-> i]
  /\ \A i \in 1..Length[v] : memory[a + LengthFieldSize + i - 1] = [value |-> v, at |-> i]

\* A value lies in the space that was granted to it or to a longer one.
ValuesOK ==
  \A k \in Key : Present(k) =>
    \E e \in granted, v \in Value : e.at = At(tree[k]) /\ Amount(v) <= e.size /\ Written(e.at, v)

KeysApart ==
  /\ \A j, k \in Key : Present(j) /\ Present(k) /\ At(tree[j]) = At(tree[k]) => j = k
  /\ \A e \in granted : e.size > 0

\* What is left of a stream lies in the space granted to the value it was
\* opened on, which is still that of the key it is said to come from, and of
\* no other.
StreamLies(e) ==
  /\ e.at <= At(search.loc) /\ At(search.loc) + search.loc.size <= End(e)
  /\ \A k \in Key : stream.source = k <=> Present(k) /\ At(tree[k]) = e.at

StreamOK ==
  /\ stream \in [state : {"none", "live", "spoilt"}, source : Key \cup {NoKey}, rest : Seq(Cell)]
  /\ stream.state = "none" => stream = NoStream /\ ~ search.found
  /\ stream.state = "spoilt" => stream.rest = <<>>
  /\ stream.state = "live" => stream.rest = Contents(search.loc)
  /\ stream.state # "none" =>
       /\ search.found /\ valid(search.loc) /\ LengthFieldSize <= search.loc.size
       /\ \E e \in granted : StreamLies(e)

VInv == IInv /\ ValuesOK /\ KeysApart /\ StreamOK

\* Space that is granted lies in the memory.
LEMMA GrantedInMemory ==
  ASSUME IInv, NEW e \in granted
  PROVE  /\ e \in [at : Nat, size : Nat]
         /\ End(e) <= MaxBlock * BLOCKSIZE
         /\ \A x \in Nat : e.at <= x /\ x < End(e) => x \in Address
<1>1. Placed(e, next_id) /\ next_id \in Nat /\ next_id <= MaxBlock
  BY Sizes DEF IInv, TypeOK
<1>2. next_id * BLOCKSIZE <= MaxBlock * BLOCKSIZE /\ next_id * BLOCKSIZE \in Nat
      /\ MaxBlock * BLOCKSIZE \in Nat
  BY <1>1, Monotone, Sizes
<1>3. e \in [at : Nat, size : Nat] /\ End(e) <= next_id * BLOCKSIZE
  BY <1>1 DEF Placed
<1>4. End(e) \in Nat /\ End(e) <= MaxBlock * BLOCKSIZE
  BY <1>2, <1>3 DEF End
<1> QED
  BY <1>2, <1>3, <1>4 DEF Address

\* No two grants start at one address.
LEMMA SameStart ==
  ASSUME IInv, KeysApart, NEW e \in granted, NEW f \in granted, e.at = f.at
  PROVE  e = f
<1>1. e \in [at : Nat, size : Nat] /\ f \in [at : Nat, size : Nat] /\ e.size > 0 /\ f.size > 0
  BY GrantedInMemory DEF KeysApart
<1>2. ~ Apart(e, f)
  BY <1>1 DEF Apart, End
<1> QED
  BY <1>2 DEF IInv, SpaceDisjoint

\* Bytes laid over a memory.
LEMMA OverlayIs ==
  ASSUME NEW m \in [Address -> Cell], NEW a \in Nat, NEW s \in Seq(Cell), NEW n, Len(s) = n
  PROVE  \A x \in Address :
           Overlay(m, a, s)[x] = IF a <= x /\ x < a + n THEN s[x - a + 1] ELSE m[x]
<1> SUFFICES ASSUME NEW x \in Address
             PROVE  Overlay(m, a, s)[x] = IF a <= x /\ x < a + n THEN s[x - a + 1] ELSE m[x]
  OBVIOUS
<1>1. x \in Int
  BY Sizes DEF Address
<1>2. x \in a .. (a + Len(s) - 1) <=> a <= x /\ x < a + n
  BY <1>1
<1> QED
  BY <1>2 DEF Overlay

\* Where the bytes behind a length field are, and how many.
LEMMA ContentsLie ==
  ASSUME NEW l \in SizedLocators, l.block # BLOCK_ID_INVALID, LengthFieldSize <= l.size
  PROVE  /\ contents_size(l) = l.size - LengthFieldSize
         /\ contentsLocator(l).size = l.size - LengthFieldSize
         /\ At(contentsLocator(l)) = At(l) + LengthFieldSize
         /\ At(l) \in Nat /\ l.size \in Nat
<1>1. l.size \in Size /\ l.size \in Nat
  BY Sizes DEF SizedLocators, Size
<1>2. contents_size(l) = l.size - LengthFieldSize
  BY <1>1, MinusIs, Sizes DEF contents_size
<1>3. At(l) \in Nat
  BY Sizes DEF At, SizedLocators, Offset
<1> QED
  BY <1>1, <1>2, <1>3, ConsumeOK, Sizes DEF contentsLocator

\* write() with room for the value: the length field and the bytes are there,
\* everything else is as before.
LEMMA WriteIs ==
  ASSUME TypeOK, NEW l \in SizedLocators, l.block # BLOCK_ID_INVALID, NEW v \in Value,
         Amount(v) <= l.size, At(l) + Amount(v) <= MaxBlock * BLOCKSIZE,
         memory' = WriteEnvelope(l, v)
  PROVE  /\ Fits(l, v) = TRUE
         /\ Written(At(l), v)'
         /\ \A x \in Address : x < At(l) \/ At(l) + Amount(v) <= x => memory'[x] = memory[x]
<1> DEFINE a == At(l)
           field == LengthField(Length[v])
           headed == Overlay(memory, a, field)
           c == a + LengthFieldSize
<1>1. memory \in [Address -> Cell]
  BY DEF TypeOK
<1>2. /\ Length[v] \in Nat /\ Amount(v) = Length[v] + LengthFieldSize
      /\ Amount(v) \in Nat
  BY Amounts
<1>3. /\ contentsLocator(l).size = l.size - LengthFieldSize /\ At(contentsLocator(l)) = c
      /\ a \in Nat /\ l.size \in Nat
  <2>1. l.size \in Nat
    BY Sizes DEF SizedLocators, Size
  <2>2. LengthFieldSize <= l.size
    BY <1>2, <2>1, Sizes
  <2> QED
    BY <2>2, ContentsLie
<1>4. Fits(l, v) = TRUE
  BY <1>2, <1>3, Sizes DEF Fits
<1>5. memory' = Overlay(headed, c, Bytes(v))
  BY <1>3, <1>4 DEF WriteEnvelope
<1>6. /\ field \in Seq(Cell) /\ Len(field) = LengthFieldSize
      /\ \A i \in 1..LengthFieldSize : field[i] = [length |-> Length[v], at |-> i]
  BY BytesTyped, Sizes DEF LengthField
<1>7. /\ Bytes(v) \in Seq(Cell) /\ Len(Bytes(v)) = Length[v]
      /\ \A i \in 1..Length[v] : Bytes(v)[i] = [value |-> v, at |-> i]
  BY <1>2, BytesTyped DEF Bytes
<1>8. headed \in [Address -> Cell] /\ c \in Nat
  BY <1>1, <1>3, <1>6, OverlayTyped, Sizes
<1> HIDE DEF a, field, headed, c
<1>9. \A x \in Address : memory'[x] =
         IF c <= x /\ x < c + Length[v] THEN Bytes(v)[x - c + 1]
         ELSE IF a <= x /\ x < a + LengthFieldSize THEN field[x - a + 1] ELSE memory[x]
  <2>1. \A x \in Address : headed[x] =
           IF a <= x /\ x < a + LengthFieldSize THEN field[x - a + 1] ELSE memory[x]
    BY <1>1, <1>3, <1>6, OverlayIs DEF headed
  <2>2. \A x \in Address : Overlay(headed, c, Bytes(v))[x] =
           IF c <= x /\ x < c + Length[v] THEN Bytes(v)[x - c + 1] ELSE headed[x]
    BY <1>7, <1>8, OverlayIs
  <2> QED
    BY <2>1, <2>2, <1>5
<1>10. c = a + LengthFieldSize
  BY DEF c
<1>11. \A x \in Nat : a <= x /\ x < a + Amount(v) => x \in Address
  BY <1>2, <1>3, Sizes DEF Address, a
<1>12. \A i \in 1..LengthFieldSize : memory'[a + i - 1] = [length |-> Length[v], at |-> i]
  <2> SUFFICES ASSUME NEW i \in 1..LengthFieldSize
               PROVE  memory'[a + i - 1] = [length |-> Length[v], at |-> i]
    OBVIOUS
  <2>1. a + i - 1 \in Address /\ a + i - 1 < c /\ a <= a + i - 1 /\ (a + i - 1) - a + 1 = i
    BY <1>2, <1>3, <1>10, <1>11, Sizes
  <2>2. memory'[a + i - 1] = field[i]
    BY <2>1, <1>3, <1>8, <1>9, <1>10
  <2> QED
    BY <2>2, <1>6
<1>13. \A i \in 1..Length[v] : memory'[a + LengthFieldSize + i - 1] = [value |-> v, at |-> i]
  <2> SUFFICES ASSUME NEW i \in 1..Length[v]
               PROVE  memory'[a + LengthFieldSize + i - 1] = [value |-> v, at |-> i]
    OBVIOUS
  <2> DEFINE x == a + LengthFieldSize + i - 1
  <2>1. x \in Address /\ c <= x /\ x < c + Length[v] /\ x - c + 1 = i
    BY <1>2, <1>3, <1>10, <1>11, Sizes
  <2> HIDE DEF x
  <2>2. memory'[x] = Bytes(v)[i]
    BY <2>1, <1>9
  <2> QED
    BY <2>2, <1>7 DEF x
<1>14. \A x \in Address : x < a \/ a + Amount(v) <= x => memory'[x] = memory[x]
  <2> SUFFICES ASSUME NEW x \in Address, x < a \/ a + Amount(v) <= x
               PROVE  memory'[x] = memory[x]
    OBVIOUS
  <2>1. x \in Int
    BY Sizes DEF Address
  <2>2. ~(c <= x /\ x < c + Length[v]) /\ ~(a <= x /\ x < a + LengthFieldSize)
    BY <2>1, <1>2, <1>3, <1>10, Sizes
  <2> QED
    BY <2>2, <1>9
<1>15. Written(a, v)'
  BY <1>12, <1>13 DEF Written, a
<1> QED
  BY <1>4, <1>14, <1>15 DEF a

\* What find() and get() make of a stored value.
LEMMA EnvelopeIs ==
  ASSUME IInv, NEW k \in Key, Present(k), NEW e \in granted, NEW v \in Value,
         e.at = At(tree[k]), Amount(v) <= e.size, Written(e.at, v)
  PROVE  /\ EnvelopeOf(k) \in SizedLocators /\ EnvelopeOf(k).block # BLOCK_ID_INVALID
         /\ At(EnvelopeOf(k)) = e.at /\ EnvelopeOf(k).size = Amount(v)
         /\ contents_size(EnvelopeOf(k)) = Length[v]
         /\ Contents(EnvelopeOf(k)) = Bytes(v)
         /\ ContentsOfStore[k] = Bytes(v)
<1> DEFINE l == EnvelopeOf(k)
<1>1. l \in SizedLocators /\ l.block # BLOCK_ID_INVALID
  BY HeadTyped DEF IInv
<1>2. Length[v] \in Nat /\ Amount(v) = Length[v] + LengthFieldSize
  BY Amounts
<1>3. e.at \in Nat
  BY GrantedInMemory
<1>4. memory[e.at] = [length |-> Length[v], at |-> 1]
  <2>1. 1 \in 1..LengthFieldSize /\ e.at + 1 - 1 = e.at
    BY <1>3, Sizes
  <2>2. memory[e.at + 1 - 1] = [length |-> Length[v], at |-> 1]
    BY <2>1 DEF Written
  <2> QED
    BY <2>1, <2>2
<1>5. Stored(e.at, LengthFieldSize) = LengthField(Length[v])
  BY DEF Stored, LengthField, Written
<1>6. LengthAt(e.at) = Length[v]
  BY <1>4, <1>5 DEF LengthAt
<1>7. l = [block |-> tree[k].block, offset |-> tree[k].offset, size |-> Amount(v)]
  BY <1>2, <1>6 DEF EnvelopeOf, SizedLocator
<1>8. At(l) = e.at /\ l.size = Amount(v)
  BY <1>7 DEF At
<1> HIDE DEF l
<1>9. contents_size(l) = Length[v] /\ At(contentsLocator(l)) = e.at + LengthFieldSize
  BY <1>1, <1>2, <1>8, ContentsLie, Sizes
<1>10. Stored(e.at + LengthFieldSize, Length[v]) = Bytes(v)
  BY DEF Stored, Bytes, Written
<1> QED
  BY <1>1, <1>6, <1>8, <1>9, <1>10 DEF Contents, ContentsOfStore, l

\* What the map has for every key.
LEMMA ContentsOfStoreIs ==
  ASSUME VInv
  PROVE  \A k \in Key :
           /\ Present(k) => ContentsOfStore[k] = Contents(EnvelopeOf(k)) /\ ContentsOfStore[k] # Missing
           /\ ~ Present(k) => ContentsOfStore[k] = Missing
<1>1. ASSUME NEW k \in Key, Present(k)
      PROVE  ContentsOfStore[k] = Contents(EnvelopeOf(k)) /\ ContentsOfStore[k] # Missing
  <2>1. PICK e \in granted, v \in Value :
           e.at = At(tree[k]) /\ Amount(v) <= e.size /\ Written(e.at, v)
    BY <1>1 DEF VInv, ValuesOK
  <2>2. Contents(EnvelopeOf(k)) = Bytes(v) /\ ContentsOfStore[k] = Bytes(v)
    BY <1>1, <2>1, EnvelopeIs DEF VInv
  <2> QED
    BY <2>2, MissingAssumption
<1>2. ASSUME NEW k \in Key, ~ Present(k) PROVE ContentsOfStore[k] = Missing
  BY <1>2 DEF ContentsOfStore
<1> QED
  BY <1>1, <1>2

\* The memory in extent e is as before.
Untouched(e) == \A x \in Address : e.at <= x /\ x < End(e) => memory'[x] = memory[x]

\* Where the memory is as before, a value is still written.
LEMMA WrittenKept ==
  ASSUME IInv, NEW e \in granted, NEW v \in Value, Amount(v) <= e.size, Written(e.at, v),
         Untouched(e)
  PROVE  Written(e.at, v)'
<1>1. /\ e \in [at : Nat, size : Nat]
      /\ \A x \in Nat : e.at <= x /\ x < End(e) => x \in Address
  BY GrantedInMemory
<1>2. Length[v] \in Nat /\ Amount(v) = Length[v] + LengthFieldSize
  BY Amounts
<1>3. \A i \in 1..LengthFieldSize : memory'[e.at + i - 1] = memory[e.at + i - 1]
  <2> SUFFICES ASSUME NEW i \in 1..LengthFieldSize
               PROVE  memory'[e.at + i - 1] = memory[e.at + i - 1]
    OBVIOUS
  <2>1. e.at + i - 1 \in Nat /\ e.at <= e.at + i - 1 /\ e.at + i - 1 < End(e)
    BY <1>1, <1>2, Sizes DEF End
  <2> QED
    BY <1>1, <2>1 DEF Untouched
<1>4. \A i \in 1..Length[v] :
         memory'[e.at + LengthFieldSize + i - 1] = memory[e.at + LengthFieldSize + i - 1]
  <2> SUFFICES ASSUME NEW i \in 1..Length[v]
               PROVE  memory'[e.at + LengthFieldSize + i - 1]
                      = memory[e.at + LengthFieldSize + i - 1]
    OBVIOUS
  <2> DEFINE x == e.at + LengthFieldSize + i - 1
  <2>1. x \in Nat /\ e.at <= x /\ x < End(e)
    BY <1>1, <1>2, Sizes DEF End
  <2> QED
    BY <1>1, <2>1 DEF Untouched
<1> QED
  BY <1>3, <1>4 DEF Written

\* What is left of a stream is as before where the memory is.
LEMMA ContentsKept ==
  ASSUME IInv, NEW e \in granted, NEW l \in SizedLocators, l.block # BLOCK_ID_INVALID,
         LengthFieldSize <= l.size, e.at <= At(l), At(l) + l.size <= End(e), Untouched(e)
  PROVE  Contents(l)' = Contents(l)
<1>1. /\ e \in [at : Nat, size : Nat]
      /\ \A x \in Nat : e.at <= x /\ x < End(e) => x \in Address
  BY GrantedInMemory
<1>2. /\ contents_size(l) = l.size - LengthFieldSize
      /\ At(contentsLocator(l)) = At(l) + LengthFieldSize /\ At(l) \in Nat /\ l.size \in Nat
  BY ContentsLie
<1> DEFINE n == contents_size(l)  a == At(contentsLocator(l))
<1>3. \A i \in 1..n : memory'[a + i - 1] = memory[a + i - 1]
  <2> SUFFICES ASSUME NEW i \in 1..n PROVE memory'[a + i - 1] = memory[a + i - 1]
    OBVIOUS
  <2>1. a + i - 1 \in Nat /\ e.at <= a + i - 1 /\ a + i - 1 < End(e)
    BY <1>1, <1>2, Sizes DEF End
  <2> QED
    BY <1>1, <2>1 DEF Untouched
<1>4. Contents(l) = [i \in 1..n |-> memory[a + i - 1]]
  BY DEF Contents, Stored
<1>5. Contents(l)' = [i \in 1..n |-> memory'[a + i - 1]]
  BY DEF Contents, Stored
<1> QED
  BY <1>3, <1>4, <1>5

\* Space granted at another address keeps out of the way of what is written.
LEMMA OthersUntouched ==
  ASSUME IInv, NEW f \in [at : Nat, size : Nat], NEW n \in Nat, n <= f.size,
         \A x \in Address : x < f.at \/ f.at + n <= x => memory'[x] = memory[x],
         NEW e \in granted, Apart(e, f)
  PROVE  Untouched(e)
<1>1. e \in [at : Nat, size : Nat]
  BY GrantedInMemory
<1> SUFFICES ASSUME NEW x \in Address, e.at <= x, x < End(e)
             PROVE  memory'[x] = memory[x]
  BY DEF Untouched
<1>2. x \in Int
  BY Sizes DEF Address
<1> QED
  BY <1>1, <1>2 DEF Apart, End

-----------------------------------------------------------------------------
(***************************************************************************)
(* Every call is a step of KeyValueMap.                                     *)
(***************************************************************************)
\* A call that changes no locator, no byte and no grant leaves what is stored.
LEMMA StoreKept ==
  ASSUME VInv, UNCHANGED <<tree, memory, granted>>
  PROVE  ValuesOK' /\ KeysApart' /\ ContentsOfStore' = ContentsOfStore
<1>1. ValuesOK /\ KeysApart
  BY DEF VInv
<1>2. ValuesOK'
  BY <1>1 DEF ValuesOK, Written, Present
<1>3. KeysApart'
  BY <1>1 DEF KeysApart, Present
<1>4. ContentsOfStore' = ContentsOfStore
  BY DEF ContentsOfStore, Stored, LengthAt, Present
<1> QED
  BY <1>2, <1>3, <1>4

\* The stream goes on where nothing it depends on changes.
LEMMA StreamKept ==
  ASSUME VInv, UNCHANGED <<tree, memory, granted, search, stream>>
  PROVE  StreamOK'
<1>1. StreamOK
  BY DEF VInv
<1>2. Contents(search.loc)' = Contents(search.loc)
  BY DEF Contents, Stored
<1>3. \A e \in granted : StreamLies(e)' <=> StreamLies(e)
  BY DEF StreamLies, Present
<1> QED
  BY <1>1, <1>2, <1>3 DEF StreamOK

\* A key that is stored has a string in the map, any other has none.
LEMMA Stores ==
  ASSUME VInv, NEW k \in Key
  PROVE  /\ Present(k) = (ContentsOfStore[k] # Missing)
         /\ Present(k) \in BOOLEAN
<1>1. Present(k) \in BOOLEAN
  BY DEF Present
<1> QED
  BY <1>1, ContentsOfStoreIs

\* A store that was just created has nothing, and no stream.
LEMMA InitRefines ==
  ASSUME HInit
  PROVE  VInv /\ Promise!Init
<1>1. /\ granted = {} /\ stream = NoStream /\ search.found = FALSE
      /\ tree = [k \in Key |-> NoLocator]
      /\ answer = [call |-> <<"open">>, ok |-> TRUE, value |-> <<>>]
  BY DEF HInit, Init
<1>2. IInv
  BY InitOK
<1>3. ValuesOK /\ KeysApart
  BY <1>1 DEF ValuesOK, KeysApart, Present
<1>4. StreamOK
  BY <1>1 DEF StreamOK, NoStream
<1>5. ContentsOfStore = [k \in Key |-> Missing]
  BY <1>1 DEF ContentsOfStore, Present
<1>6. Promise!Init
  BY <1>1, <1>5 DEF Promise!Init, Promise!NoStream, NoStream
<1> QED
  BY <1>2, <1>3, <1>4, <1>6 DEF VInv

\* put() refused, has(), get(), and rename() of a key that is not stored.
LEMMA QuietRefines ==
  ASSUME VInv, NEW k \in Key, HQuiet(k)
  PROVE  VInv' /\ Promise!Next
<1>1. UNCHANGED <<tree, memory, granted, search, stream>>
  BY DEF HQuiet, PutRefused, Has, Get, RenameMissing
<1>2. VInv'
  <2>1. IInv'
    BY QuietStep DEF VInv
  <2> QED
    BY <1>1, <2>1, StoreKept, StreamKept DEF VInv
<1>3. ContentsOfStore' = ContentsOfStore
  BY <1>1, StoreKept
<1>4. CASE PutRefused(k)
  <2>1. Present(k) /\ answer' = [call |-> <<"put if new", k>>, ok |-> FALSE, value |-> <<>>]
    BY <1>4 DEF PutRefused, Answer
  <2>2. Promise!PutRefused(k)
    BY <1>1, <1>3, <2>1, Stores DEF Promise!PutRefused, Promise!Answer
  <2> QED
    BY <1>2, <2>2 DEF Promise!Next
<1>5. CASE Has(k)
  <2>1. answer' = [call |-> <<"has", k>>, ok |-> Present(k), value |-> <<>>]
    BY <1>5 DEF Has, Answer
  <2>2. Promise!Has(k)
    BY <1>1, <1>3, <2>1, Stores DEF Promise!Has, Promise!Answer
  <2> QED
    BY <1>2, <2>2 DEF Promise!Next
<1>6. CASE Get(k)
  <2>1. answer' = [call |-> <<"get", k>>, ok |-> Present(k),
                   value |-> IF Present(k) THEN Contents(EnvelopeOf(k)) ELSE <<>>]
    BY <1>6 DEF Get, Answer
  <2>2. (IF Present(k) THEN Contents(EnvelopeOf(k)) ELSE <<>>)
        = IF ContentsOfStore[k] = Missing THEN <<>> ELSE ContentsOfStore[k]
    BY ContentsOfStoreIs
  <2>3. Promise!Get(k)
    BY <1>1, <1>3, <2>1, <2>2, Stores DEF Promise!Get, Promise!Answer
  <2> QED
    BY <1>2, <2>3 DEF Promise!Next
<1>7. CASE \E new \in Key : RenameMissing(k, new)
  <2>1. PICK new \in Key : RenameMissing(k, new)
    BY <1>7
  <2>2. ~ Present(k) /\ answer' = [call |-> <<"rename", k, new>>, ok |-> FALSE, value |-> <<>>]
    BY <2>1 DEF RenameMissing, Answer
  <2>3. Promise!Rename(k, new)
    BY <1>1, <1>3, <2>2, Stores DEF Promise!Rename, Promise!Answer
  <2> QED
    BY <1>2, <2>3 DEF Promise!Next
<1> QED
  BY <1>4, <1>5, <1>6, <1>7 DEF HQuiet

\* find() opens a stream on the bytes its key has.
LEMMA FindRefines ==
  ASSUME VInv, NEW k \in Key, HFind(k)
  PROVE  VInv' /\ Promise!Next
<1>1. /\ UNCHANGED <<tree, memory, granted>>
      /\ answer' = [call |-> <<"find", k>>, ok |-> Present(k), value |-> <<>>]
      /\ search' = IF Present(k) THEN [found |-> TRUE, loc |-> EnvelopeOf(k)]
                   ELSE [found |-> FALSE, loc |-> [search.loc EXCEPT !.block = BLOCK_ID_INVALID]]
      /\ stream' = IF Present(k)
                   THEN [state |-> "live", source |-> k, rest |-> Contents(EnvelopeOf(k))]
                   ELSE NoStream
  BY DEF HFind, Find, Answer
<1>2. IInv'
  BY FindStep DEF VInv
<1>3. ValuesOK' /\ KeysApart' /\ ContentsOfStore' = ContentsOfStore
  BY <1>1, StoreKept
<1>4. StreamOK'
  <2>1. CASE ~ Present(k)
    <3>1. stream' = NoStream /\ search'.found = FALSE
      BY <1>1, <2>1
    <3> QED
      BY <3>1 DEF StreamOK, NoStream
  <2>2. CASE Present(k)
    <3>1. PICK e \in granted, v \in Value :
             e.at = At(tree[k]) /\ Amount(v) <= e.size /\ Written(e.at, v)
      BY <2>2 DEF VInv, ValuesOK
    <3>2. /\ EnvelopeOf(k) \in SizedLocators /\ EnvelopeOf(k).block # BLOCK_ID_INVALID
          /\ At(EnvelopeOf(k)) = e.at /\ EnvelopeOf(k).size = Amount(v)
          /\ Contents(EnvelopeOf(k)) = Bytes(v)
      BY <2>2, <3>1, EnvelopeIs DEF VInv
    <3> DEFINE l == EnvelopeOf(k)
    <3>3. search' = [found |-> TRUE, loc |-> l]
          /\ stream' = [state |-> "live", source |-> k, rest |-> Bytes(v)]
      BY <1>1, <2>2, <3>2
    <3>4. PICK m : m = l
      OBVIOUS
    <3> HIDE DEF l
    <3>5. valid(m) /\ LengthFieldSize <= m.size
      <4>1. m.offset < BLOCKSIZE
        BY <3>2, <3>4, Sizes DEF SizedLocators, Offset, l
      <4> QED
        BY <3>2, <3>4, <4>1, Amounts DEF valid, l
    <3>6. Contents(m)' = Bytes(v)
      <4>1. Contents(m)' = Contents(m)
        BY <1>1 DEF Contents, Stored
      <4> QED
        BY <4>1, <3>2, <3>4 DEF l
    <3>7. StreamLies(e)'
      <4>1. e \in [at : Nat, size : Nat] /\ Amount(v) \in Nat
        BY GrantedInMemory, Amounts DEF VInv
      <4>2. e.at <= At(m) /\ At(m) + m.size <= End(e)
        BY <4>1, <3>1, <3>2, <3>4 DEF End, l
      <4>3. \A j \in Key : k = j <=> Present(j) /\ At(tree[j]) = e.at
        BY <2>2, <3>1 DEF VInv, KeysApart
      <4> QED
        BY <4>2, <4>3, <1>1, <3>3, <3>4 DEF StreamLies, Present
    <3>8. /\ stream'.state = "live" /\ stream'.source = k /\ stream'.rest = Bytes(v)
          /\ search'.found = TRUE /\ search'.loc = m
      BY <3>3, <3>4
    <3>9. stream' \in [state : {"none", "live", "spoilt"}, source : Key \cup {NoKey}, rest : Seq(Cell)]
      BY <3>3, BytesTyped
    <3> QED
      BY <3>1, <3>5, <3>6, <3>7, <3>8, <3>9, <1>1 DEF StreamOK
  <2> QED
    BY <2>1, <2>2
<1>5. Promise!Find(k)
  <2>1. stream' = IF ContentsOfStore[k] = Missing THEN Promise!NoStream
                  ELSE [state |-> "live", source |-> k, rest |-> ContentsOfStore[k]]
    BY <1>1, ContentsOfStoreIs DEF Promise!NoStream, NoStream
  <2> QED
    BY <1>1, <1>3, <2>1, Stores DEF Promise!Find, Promise!Answer
<1> QED
  BY <1>2, <1>3, <1>4, <1>5 DEF VInv, Promise!Next

\* What is read, after a step, of a value that is written then.
LEMMA ReadsBack ==
  ASSUME NEW a \in Nat, NEW v \in Value, Written(a, v)'
  PROVE  Stored(a + LengthFieldSize, LengthAt(a))' = Bytes(v)
<1>1. memory'[a] = [length |-> Length[v], at |-> 1]
  <2>1. 1 \in 1..LengthFieldSize /\ a + 1 - 1 = a
    BY Sizes
  <2>2. memory'[a + 1 - 1] = [length |-> Length[v], at |-> 1]
    BY <2>1 DEF Written
  <2> QED
    BY <2>1, <2>2
<1>2. Stored(a, LengthFieldSize)' = LengthField(Length[v])
  BY DEF Stored, LengthField, Written
<1>3. LengthAt(a)' = Length[v]
  BY <1>1, <1>2 DEF LengthAt
<1>4. Stored(a + LengthFieldSize, Length[v])' = Bytes(v)
  BY DEF Stored, Bytes, Written
<1> QED
  BY <1>3, <1>4 DEF Stored

\* A key gets value v in extent f, away from the values of all other keys: it
\* has the bytes of v, and every other key what it had.
LEMMA PutStores ==
  ASSUME VInv, NEW k \in Key, NEW v \in Value, NEW f \in [at : Nat, size : Nat],
         granted' = granted \cup {f}, Amount(v) <= f.size,
         \A e \in granted : e = f \/ Apart(e, f),
         tree'[k] # NoLocator, At(tree'[k]) = f.at,
         \A j \in Key \ {k} : tree'[j] = tree[j] /\ (Present(j) => At(tree[j]) # f.at),
         Written(f.at, v)',
         \A x \in Address : x < f.at \/ f.at + Amount(v) <= x => memory'[x] = memory[x]
  PROVE  /\ ValuesOK' /\ KeysApart'
         /\ ContentsOfStore' = [ContentsOfStore EXCEPT ![k] = Bytes(v)]
<1>1. IInv /\ ValuesOK /\ KeysApart
  BY DEF VInv
<1>2. Amount(v) \in Nat /\ Amount(v) > 0
  BY Amounts
<1>3. ASSUME NEW j \in Key \ {k}, Present(j)
      PROVE  /\ \E e \in granted, u \in Value :
                   e.at = At(tree[j]) /\ Amount(u) <= e.size /\ Written(e.at, u)'
             /\ ContentsOfStore'[j] = ContentsOfStore[j]
  <2>1. PICK e \in granted, u \in Value :
           e.at = At(tree[j]) /\ Amount(u) <= e.size /\ Written(e.at, u)
    BY <1>1, <1>3 DEF ValuesOK
  <2>2. Apart(e, f)
    BY <2>1, <1>3
  <2>3. Untouched(e)
    BY <1>1, <1>2, <2>2, OthersUntouched
  <2>4. Written(e.at, u)'
    BY <1>1, <2>1, <2>3, WrittenKept
  <2>5. e.at \in Nat
    BY <1>1, GrantedInMemory
  <2>6. Stored(e.at + LengthFieldSize, LengthAt(e.at))' = Bytes(u)
    BY <2>4, <2>5, ReadsBack
  <2>7. tree'[j] # NoLocator /\ At(tree'[j]) = e.at
    BY <1>3, <2>1 DEF Present
  <2>8. ContentsOfStore'[j] = Bytes(u)
    BY <2>6, <2>7 DEF ContentsOfStore, Present, Stored, LengthAt
  <2>9. ContentsOfStore[j] = Bytes(u)
    BY <1>1, <1>3, <2>1, EnvelopeIs
  <2> QED
    BY <2>1, <2>4, <2>8, <2>9
<1>4. ValuesOK'
  <2> SUFFICES ASSUME NEW j \in Key, tree'[j] # NoLocator
               PROVE  \E e \in granted', u \in Value :
                         e.at = At(tree'[j]) /\ Amount(u) <= e.size /\ Written(e.at, u)'
    BY DEF ValuesOK, Present
  <2>1. CASE j = k
    BY <2>1
  <2>2. CASE j # k
    BY <2>2, <1>3 DEF Present
  <2> QED
    BY <2>1, <2>2
<1>5. KeysApart'
  <2>1. \A i, j \in Key : tree'[i] # NoLocator /\ tree'[j] # NoLocator
                          /\ At(tree'[i]) = At(tree'[j]) => i = j
    BY <1>1 DEF KeysApart, Present
  <2>2. f.size > 0
    BY <1>2
  <2> QED
    BY <1>1, <2>1, <2>2 DEF KeysApart, Present
<1>6. ContentsOfStore'[k] = Bytes(v)
  <2>1. Stored(f.at + LengthFieldSize, LengthAt(f.at))' = Bytes(v)
    BY ReadsBack
  <2> QED
    BY <2>1 DEF ContentsOfStore, Present, Stored, LengthAt
<1>7. \A j \in Key \ {k} : ContentsOfStore'[j] = ContentsOfStore[j]
  <2>1. ASSUME NEW j \in Key \ {k}, ~ Present(j)
        PROVE  ContentsOfStore'[j] = ContentsOfStore[j]
    BY <2>1 DEF ContentsOfStore, Present
  <2> QED
    BY <1>3, <2>1
<1>8. /\ ContentsOfStore = [j \in Key |-> ContentsOfStore[j]]
      /\ ContentsOfStore' = [j \in Key |-> ContentsOfStore'[j]]
  BY DEF ContentsOfStore
<1> QED
  BY <1>4, <1>5, <1>6, <1>7, <1>8

\* A stream goes on, with source s, where its bytes are as before and s is the
\* key whose value they are, if any is.
LEMMA StreamGoesOn ==
  ASSUME VInv, search' = search, granted \subseteq granted',
         NEW s \in Key \cup {NoKey}, stream' = [stream EXCEPT !.source = s],
         stream.state = "none" => s = NoKey,
         stream.state # "none" =>
            \A e \in granted : StreamLies(e) =>
               /\ Untouched(e)
               /\ \A j \in Key : s = j <=> tree'[j] # NoLocator /\ At(tree'[j]) = e.at
  PROVE  StreamOK'
<1>1. StreamOK /\ IInv
  BY DEF VInv
<1>2. stream \in [state : {"none", "live", "spoilt"}, source : Key \cup {NoKey}, rest : Seq(Cell)]
  BY <1>1 DEF StreamOK
<1>3. /\ stream' \in [state : {"none", "live", "spoilt"}, source : Key \cup {NoKey}, rest : Seq(Cell)]
      /\ stream'.state = stream.state /\ stream'.rest = stream.rest /\ stream'.source = s
  BY <1>2
<1>4. CASE stream.state = "none"
  <2>1. stream' = NoStream /\ ~ search'.found
    BY <1>1, <1>4 DEF StreamOK, NoStream
  <2> QED
    BY <1>3, <1>4, <2>1 DEF StreamOK
<1>5. CASE stream.state # "none"
  <2>1. search.found /\ valid(search.loc) /\ LengthFieldSize <= search.loc.size
    BY <1>1, <1>5 DEF StreamOK
  <2>2. PICK e \in granted : StreamLies(e)
    BY <1>1, <1>5 DEF StreamOK
  <2>3. Untouched(e) /\ \A j \in Key : s = j <=> tree'[j] # NoLocator /\ At(tree'[j]) = e.at
    BY <1>5, <2>2
  <2>4. StreamLies(e)'
    BY <1>3, <2>2, <2>3 DEF StreamLies, Present
  <2>5. PICK m : m = search.loc
    OBVIOUS
  <2>6. Contents(m)' = Contents(m)
    <3>1. m \in SizedLocators /\ m.block # BLOCK_ID_INVALID
      BY <1>1, <2>1, <2>5 DEF IInv, TypeOK, valid
    <3>2. e.at <= At(m) /\ At(m) + m.size <= End(e)
      BY <2>2, <2>5 DEF StreamLies
    <3> QED
      BY <1>1, <2>1, <2>3, <2>5, <3>1, <3>2, ContentsKept
  <2>7. stream'.state = "live" => stream'.rest = Contents(search.loc)'
    BY <1>1, <1>3, <2>5, <2>6 DEF StreamOK
  <2>8. stream'.state = "spoilt" => stream'.rest = <<>>
    BY <1>1, <1>3 DEF StreamOK
  <2> QED
    BY <1>3, <1>5, <2>1, <2>2, <2>4, <2>7, <2>8 DEF StreamOK
<1> QED
  BY <1>4, <1>5

\* A stream whose source is a key comes from the value that key has.
LEMMA SourceIs ==
  ASSUME VInv, NEW k \in Key, stream.source = k
  PROVE  stream.state # "none" /\ Present(k)
<1>1. stream.state # "none"
  BY MissingAssumption DEF VInv, StreamOK, NoStream
<1> QED
  BY <1>1 DEF VInv, StreamOK, StreamLies

\* put() in place: the key gets the new bytes, a stream from it is spoilt.
LEMMA PutInPlaceRefines ==
  ASSUME VInv, NEW k \in Key, NEW v \in Value, HPutInPlace(k, v)
  PROVE  VInv' /\ Promise!Next
<1>1. /\ Present(k) /\ Length[v] <= contents_size(EnvelopeOf(k))
      /\ memory' = WriteEnvelope(EnvelopeOf(k), v)
      /\ UNCHANGED <<tree, search, granted>>
      /\ answer' = [call |-> <<"put", k, v>>, ok |-> Fits(EnvelopeOf(k), v), value |-> <<>>]
      /\ stream' = IF stream.source = k THEN [stream EXCEPT !.state = "spoilt", !.rest = <<>>]
                   ELSE stream
  BY DEF HPutInPlace, PutInPlace, Answer
<1>2. IInv /\ TypeOK /\ KeysApart /\ StreamOK
  BY DEF VInv, IInv
<1>3. PICK e \in granted, w \in Value :
         e.at = At(tree[k]) /\ Amount(w) <= e.size /\ Written(e.at, w)
  BY <1>1 DEF VInv, ValuesOK
<1>4. PICK l : l = EnvelopeOf(k)
  OBVIOUS
<1>5. /\ l \in SizedLocators /\ l.block # BLOCK_ID_INVALID
      /\ At(l) = e.at /\ l.size = Amount(w) /\ contents_size(l) = Length[w]
  BY <1>1, <1>2, <1>3, <1>4, EnvelopeIs
<1>6. /\ Amount(v) \in Nat /\ Amount(v) <= l.size /\ Amount(v) <= e.size
      /\ e \in [at : Nat, size : Nat] /\ End(e) <= MaxBlock * BLOCKSIZE
  <2>1. Amount(v) <= Amount(w) /\ Amount(v) \in Nat /\ Amount(w) \in Nat
    BY <1>1, <1>4, <1>5, Amounts, Sizes
  <2>2. e \in [at : Nat, size : Nat] /\ End(e) <= MaxBlock * BLOCKSIZE
    BY <1>2, GrantedInMemory
  <2> QED
    BY <2>1, <2>2, <1>3, <1>5
<1>7. /\ Fits(l, v) = TRUE /\ Written(e.at, v)'
      /\ \A x \in Address : x < e.at \/ e.at + Amount(v) <= x => memory'[x] = memory[x]
  <2>1. At(l) + Amount(v) <= MaxBlock * BLOCKSIZE
    <3>1. MaxBlock * BLOCKSIZE \in Nat
      BY Sizes
    <3> QED
      BY <3>1, <1>5, <1>6 DEF End
  <2>2. memory' = WriteEnvelope(l, v)
    BY <1>1, <1>4
  <2>3. /\ Fits(l, v) = TRUE /\ Written(At(l), v)'
        /\ \A x \in Address : x < At(l) \/ At(l) + Amount(v) <= x => memory'[x] = memory[x]
    BY <1>2, <1>5, <1>6, <2>1, <2>2, WriteIs
  <2>4. PICK a : a = At(l)
    OBVIOUS
  <2> QED
    BY <2>3, <1>5
<1>8. \A d \in granted : d = e \/ Apart(d, e)
  BY <1>2 DEF IInv, SpaceDisjoint
<1>9. \A j \in Key \ {k} : tree'[j] = tree[j] /\ (Present(j) => At(tree[j]) # e.at)
  BY <1>1, <1>2, <1>3 DEF KeysApart
<1>10. /\ ValuesOK' /\ KeysApart'
       /\ ContentsOfStore' = [ContentsOfStore EXCEPT ![k] = Bytes(v)]
  <2>1. granted' = granted \cup {e} /\ tree'[k] # NoLocator /\ At(tree'[k]) = e.at
    BY <1>1, <1>3 DEF Present
  <2> QED
    BY <1>6, <1>7, <1>8, <1>9, <2>1, PutStores
<1>11. IInv'
  BY <1>2, PutInPlaceStep
<1>12. stream \in [state : {"none", "live", "spoilt"}, source : Key \cup {NoKey}, rest : Seq(Cell)]
  BY <1>2 DEF StreamOK
<1>13. StreamOK'
  <2>1. CASE stream.source # k
    <3>1. stream' = [stream EXCEPT !.source = stream.source]
      BY <1>1, <1>12, <2>1
    <3>2. stream.state = "none" => stream.source = NoKey
      BY <1>2 DEF StreamOK, NoStream
    <3>3. ASSUME NEW d \in granted, StreamLies(d)
          PROVE  /\ Untouched(d)
                 /\ \A j \in Key : stream.source = j <=> tree'[j] # NoLocator /\ At(tree'[j]) = d.at
      <4>1. d # e
        BY <3>3, <2>1, <1>1, <1>3 DEF StreamLies
      <4>2. Untouched(d)
        BY <4>1, <1>2, <1>6, <1>7, <1>8, OthersUntouched
      <4> QED
        BY <4>2, <3>3, <1>1 DEF StreamLies, Present
    <3> QED
      BY <1>1, <1>12, <3>1, <3>2, <3>3, StreamGoesOn
  <2>2. CASE stream.source = k
    <3>1. stream.state # "none" /\ stream' = [stream EXCEPT !.state = "spoilt", !.rest = <<>>]
      BY <1>1, <2>2, SourceIs
    <3>2. /\ stream'.state = "spoilt" /\ stream'.rest = <<>> /\ stream'.source = stream.source
          /\ stream' \in [state : {"none", "live", "spoilt"}, source : Key \cup {NoKey}, rest : Seq(Cell)]
      <4>1. <<>> \in Seq(Cell)
        OBVIOUS
      <4>2. stream' = [state |-> "spoilt", source |-> stream.source, rest |-> <<>>]
        BY <1>12, <3>1
      <4> QED
        BY <1>12, <4>1, <4>2
    <3>3. /\ search.found /\ valid(search.loc) /\ LengthFieldSize <= search.loc.size
          /\ \E d \in granted : StreamLies(d)
      BY <1>2, <3>1 DEF StreamOK
    <3>4. \A d \in granted : StreamLies(d) => StreamLies(d)'
      BY <1>1, <3>2 DEF StreamLies, Present
    <3> QED
      BY <1>1, <3>2, <3>3, <3>4 DEF StreamOK
  <2> QED
    BY <2>1, <2>2
<1>14. Promise!Put(k, v)
  <2>1. Promise!StreamAfterPut(k)
    BY <1>1 DEF Promise!StreamAfterPut
  <2> QED
    BY <1>1, <1>4, <1>7, <1>10, <2>1 DEF Promise!Put, Promise!Answer
<1> QED
  BY <1>10, <1>11, <1>13, <1>14 DEF VInv, Promise!Next

\* put() that allocates: the key gets the new bytes in new space, a stream from
\* it reads on in the space it had.
LEMMA AllocRefines ==
  ASSUME VInv, NEW k \in Key, NEW v \in Value, NEW n \in Nat, Running,
         AddNodes(IdAfterAlloc(Amount(v)), n), PutAllocated(k, v), Grant(v),
         stream' = IF stream.source = k THEN [stream EXCEPT !.source = NoKey] ELSE stream
  PROVE  VInv' /\ Promise!Next
<1>1. /\ memory' = WriteEnvelope(NewEnvelope(v), v)
      /\ tree' = [tree EXCEPT ![k] = DataLocator(NewEnvelope(v).block, NewEnvelope(v).offset)]
      /\ answer' = [call |-> <<"put", k, v>>, ok |-> Fits(NewEnvelope(v), v), value |-> <<>>]
      /\ granted' = granted \cup {Extent(NewEnvelope(v))}
      /\ search' = search /\ is_open
      /\ next_id' = IdAfterAlloc(Amount(v)) + n /\ next_id' <= MaxBlock
  BY DEF AddNodes, PutAllocated, Answer, Grant, Running
<1>2. IInv /\ TypeOK /\ ValuesOK /\ KeysApart /\ StreamOK
  BY DEF VInv, IInv
<1>3. IdAfterAlloc(Amount(v)) \in Nat /\ IdAfterAlloc(Amount(v)) <= MaxBlock
  <2>1. Amount(v) \in Nat /\ Amount(v) > 0
    BY Amounts
  <2>2. size_in_blocks(Amount(v)) \in Nat /\ IdAfterSearch \in Nat
    BY <2>1, <1>2, RoundedUp, AfterSearch DEF IInv
  <2>3. IdAfterAlloc(Amount(v)) \in Nat
    BY <2>2 DEF IdAfterAlloc
  <2> QED
    BY <2>3, <1>1, Sizes
<1>4. PICK l : l = NewEnvelope(v)
  OBVIOUS
<1>5. PICK e : e = Extent(l)
  OBVIOUS
<1>6. /\ l.block \in Nat /\ l.offset \in Offset /\ l.size = Amount(v)
      /\ l = SizedLocator(l.block, l.offset, l.size)
      /\ e \in [at : Nat, size : Nat] /\ e.size = Amount(v) /\ At(l) = e.at
      /\ Placed(e, IdAfterAlloc(Amount(v)))
      /\ \A d \in [at : Nat, size : Nat] :
            End(d) <= next_id * BLOCKSIZE /\ Apart(d, FreeSpan) => Apart(d, e)
  <2>1. /\ SpanFor(Amount(v)).block \in 1..(IdAfterAlloc(Amount(v)) - 1)
        /\ SpanFor(Amount(v)).offset \in Offset
        /\ Extent(NewEnvelope(v)) \in [at : Nat, size : Nat]
        /\ Placed(Extent(NewEnvelope(v)), IdAfterAlloc(Amount(v)))
        /\ \A d \in [at : Nat, size : Nat] :
              End(d) <= next_id * BLOCKSIZE /\ Apart(d, FreeSpan)
                => Apart(d, Extent(NewEnvelope(v)))
    BY <1>1, <1>2, <1>3, AllocOK
  <2>2. l = [block |-> SpanFor(Amount(v)).block, offset |-> SpanFor(Amount(v)).offset,
             size |-> Amount(v)]
    BY <1>4 DEF NewEnvelope, SizedLocator
  <2>3. e = [at |-> At(l), size |-> Amount(v)]
    BY <1>5, <2>2 DEF Extent
  <2> QED
    BY <1>3, <1>4, <1>5, <2>1, <2>2, <2>3 DEF SizedLocator
<1>7. l \in SizedLocators /\ l.block # BLOCK_ID_INVALID
  <2>1. Amount(v) \in Size
    BY Amounts
  <2> QED
    BY <1>6, <2>1 DEF SizedLocators, SizedLocator, BLOCK_ID_INVALID
<1>8. Amount(v) \in Nat /\ Amount(v) > 0
  BY Amounts
<1>9. /\ Fits(l, v) = TRUE /\ Written(e.at, v)'
      /\ \A x \in Address : x < e.at \/ e.at + Amount(v) <= x => memory'[x] = memory[x]
  <2>1. At(l) + Amount(v) <= MaxBlock * BLOCKSIZE
    <3>1. IdAfterAlloc(Amount(v)) * BLOCKSIZE <= MaxBlock * BLOCKSIZE
      BY <1>3, Monotone, Sizes
    <3>2. IdAfterAlloc(Amount(v)) * BLOCKSIZE \in Nat /\ MaxBlock * BLOCKSIZE \in Nat
      BY <1>3, Sizes
    <3> QED
      BY <3>1, <3>2, <1>6, <1>8 DEF Placed, End
  <2>2. memory' = WriteEnvelope(l, v)
    BY <1>1, <1>4
  <2>3. /\ Fits(l, v) = TRUE /\ Written(At(l), v)'
        /\ \A x \in Address : x < At(l) \/ At(l) + Amount(v) <= x => memory'[x] = memory[x]
    <3>1. Amount(v) <= l.size
      BY <1>6, <1>8
    <3> QED
      BY <1>2, <1>7, <2>1, <2>2, <3>1, WriteIs
  <2> QED
    BY <2>3, <1>6
<1>10. \A d \in granted : Apart(d, e) /\ d.at # e.at
  <2> SUFFICES ASSUME NEW d \in granted PROVE Apart(d, e) /\ d.at # e.at
    OBVIOUS
  <2>1. d \in [at : Nat, size : Nat] /\ End(d) <= next_id * BLOCKSIZE /\ Apart(d, FreeSpan)
    BY <1>2 DEF IInv, Placed, SpaceDisjoint
  <2>2. Apart(d, e)
    BY <2>1, <1>6
  <2>3. d.size > 0
    BY <1>2 DEF KeysApart
  <2> QED
    BY <2>1, <2>2, <2>3, <1>6, <1>8 DEF Apart, End
<1>11. tree \in [Key -> Locators]
  BY <1>2 DEF TypeOK
<1>12. tree'[k] = DataLocator(l.block, l.offset) /\ tree'[k] # NoLocator /\ At(tree'[k]) = e.at
  <2>1. tree'[k] = DataLocator(l.block, l.offset)
    BY <1>1, <1>4, <1>11
  <2>2. At(tree'[k]) = At(l)
    BY <2>1 DEF At, DataLocator
  <2> QED
    BY <2>1, <2>2, <1>6 DEF DataLocator, NoLocator, BLOCK_ID_INVALID
<1>13. \A j \in Key \ {k} : tree'[j] = tree[j] /\ (Present(j) => At(tree[j]) # e.at)
  <2> SUFFICES ASSUME NEW j \in Key \ {k}
               PROVE  tree'[j] = tree[j] /\ (Present(j) => At(tree[j]) # e.at)
    OBVIOUS
  <2>1. tree'[j] = tree[j]
    BY <1>1, <1>11
  <2>2. Present(j) => \E d \in granted : d.at = At(tree[j])
    BY <1>2 DEF ValuesOK
  <2> QED
    BY <2>1, <2>2, <1>10
<1>14. granted' = granted \cup {e}
  BY <1>1, <1>4, <1>5
<1>15. /\ ValuesOK' /\ KeysApart'
       /\ ContentsOfStore' = [ContentsOfStore EXCEPT ![k] = Bytes(v)]
  BY <1>6, <1>8, <1>9, <1>10, <1>12, <1>13, <1>14, PutStores
<1>16. IInv'
  BY <1>2, AllocStep
<1>17. stream \in [state : {"none", "live", "spoilt"}, source : Key \cup {NoKey}, rest : Seq(Cell)]
  BY <1>2 DEF StreamOK
<1>18. StreamOK'
  <2> DEFINE s == IF stream.source = k THEN NoKey ELSE stream.source
  <2>1. s \in Key \cup {NoKey} /\ stream' = [stream EXCEPT !.source = s]
    BY <1>17
  <2>2. s # k
    BY MissingAssumption
  <2>3. stream.state = "none" => s = NoKey
    BY <1>2 DEF StreamOK, NoStream
  <2>4. ASSUME NEW d \in granted, StreamLies(d)
        PROVE  /\ Untouched(d)
               /\ \A j \in Key : s = j <=> tree'[j] # NoLocator /\ At(tree'[j]) = d.at
    <3>1. Untouched(d)
      BY <1>2, <1>6, <1>8, <1>9, <1>10, OthersUntouched
    <3>2. ASSUME NEW j \in Key \ {k}
          PROVE  s = j <=> tree'[j] # NoLocator /\ At(tree'[j]) = d.at
      BY <2>4, <1>13, MissingAssumption DEF StreamLies, Present
    <3>3. ~ (tree'[k] # NoLocator /\ At(tree'[k]) = d.at)
      BY <1>10, <1>12
    <3> QED
      BY <2>2, <3>1, <3>2, <3>3
  <2> HIDE DEF s
  <2> QED
    BY <1>1, <1>14, <2>1, <2>3, <2>4, StreamGoesOn
<1>19. Promise!Put(k, v)
  <2>1. Promise!StreamAfterPut(k)
    BY DEF Promise!StreamAfterPut
  <2> QED
    BY <1>1, <1>4, <1>9, <1>15, <2>1 DEF Promise!Put, Promise!Answer
<1> QED
  BY <1>15, <1>16, <1>18, <1>19 DEF VInv, Promise!Next

\* Keys with one locator have one string, where no byte changes.
LEMMA SameString ==
  ASSUME UNCHANGED memory, NEW i \in Key, NEW j \in Key, tree'[j] = tree[i]
  PROVE  ContentsOfStore'[j] = ContentsOfStore[i]
<1>1. PICK t : t = tree[i]
  OBVIOUS
<1>2. Stored(At(t) + LengthFieldSize, LengthAt(At(t)))'
      = Stored(At(t) + LengthFieldSize, LengthAt(At(t)))
  BY DEF Stored, LengthAt
<1>3. ContentsOfStore[i] = IF t # NoLocator THEN Stored(At(t) + LengthFieldSize, LengthAt(At(t)))
                           ELSE Missing
  BY <1>1 DEF ContentsOfStore, Present
<1>4. ContentsOfStore'[j] = IF t # NoLocator
                            THEN Stored(At(t) + LengthFieldSize, LengthAt(At(t)))'
                            ELSE Missing
  BY <1>1 DEF ContentsOfStore, Present, Stored, LengthAt
<1> QED
  BY <1>2, <1>3, <1>4

\* rename() hands the value, and the stream from it, to the new key.
LEMMA RenameRefines ==
  ASSUME VInv, NEW old \in Key, NEW new \in Key, NEW n \in 0..MaxNewNodes, HRename(old, new, n)
  PROVE  VInv' /\ Promise!Next
<1>1. /\ Present(old) /\ ~ Present(new)
      /\ tree' = [tree EXCEPT ![new] = tree[old], ![old] = NoLocator]
      /\ UNCHANGED <<memory, search, granted>>
      /\ answer' = [call |-> <<"rename", old, new>>, ok |-> TRUE, value |-> <<>>]
      /\ stream' = IF stream.source = old THEN [stream EXCEPT !.source = new] ELSE stream
  BY DEF HRename, Rename, Answer
<1>2. IInv /\ TypeOK /\ ValuesOK /\ KeysApart /\ StreamOK
  BY DEF VInv, IInv
<1>3. old # new /\ tree'[new] = tree[old] /\ tree'[old] = NoLocator
      /\ \A j \in Key \ {old, new} : tree'[j] = tree[j]
  <2>1. tree \in [Key -> Locators]
    BY <1>2 DEF TypeOK
  <2> QED
    BY <2>1, <1>1
<1>4. ValuesOK'
  <2> SUFFICES ASSUME NEW j \in Key, tree'[j] # NoLocator
               PROVE  \E e \in granted, u \in Value :
                         e.at = At(tree'[j]) /\ Amount(u) <= e.size /\ Written(e.at, u)'
    BY <1>1 DEF ValuesOK, Present
  <2>1. PICK i \in Key : tree'[j] = tree[i] /\ Present(i)
    BY <1>1, <1>3 DEF Present
  <2>2. PICK e \in granted, u \in Value :
           e.at = At(tree[i]) /\ Amount(u) <= e.size /\ Written(e.at, u)
    BY <1>2, <2>1 DEF ValuesOK
  <2>3. Written(e.at, u)'
    BY <1>1, <2>2 DEF Written
  <2> QED
    BY <2>1, <2>2, <2>3
<1>5. KeysApart'
  BY <1>1, <1>2, <1>3 DEF KeysApart, Present
<1>6. ContentsOfStore' = [ContentsOfStore EXCEPT ![new] = ContentsOfStore[old], ![old] = Missing]
  <2>1. /\ ContentsOfStore = [j \in Key |-> ContentsOfStore[j]]
        /\ ContentsOfStore' = [j \in Key |-> ContentsOfStore'[j]]
    BY DEF ContentsOfStore
  <2>2. ContentsOfStore'[new] = ContentsOfStore[old]
    BY <1>1, <1>3, SameString DEF Present
  <2>3. ContentsOfStore'[old] = Missing
    BY <1>3 DEF ContentsOfStore, Present
  <2>4. \A j \in Key \ {old, new} : ContentsOfStore'[j] = ContentsOfStore[j]
    BY <1>1, <1>3, SameString DEF Present
  <2> QED
    BY <2>1, <2>2, <2>3, <2>4, <1>3
<1>7. IInv'
  BY <1>2, RenameStep
<1>8. StreamOK'
  <2> DEFINE s == IF stream.source = old THEN new ELSE stream.source
  <2>1. stream \in [state : {"none", "live", "spoilt"}, source : Key \cup {NoKey}, rest : Seq(Cell)]
    BY <1>2 DEF StreamOK
  <2>2. s \in Key \cup {NoKey} /\ stream' = [stream EXCEPT !.source = s]
    BY <1>1, <2>1
  <2>3. stream.state = "none" => s = NoKey
    BY <1>2, MissingAssumption DEF StreamOK, NoStream
  <2>4. ASSUME NEW d \in granted, StreamLies(d)
        PROVE  /\ Untouched(d)
               /\ \A j \in Key : s = j <=> tree'[j] # NoLocator /\ At(tree'[j]) = d.at
    <3>1. Untouched(d)
      BY <1>1 DEF Untouched
    <3>2. \A j \in Key : stream.source = j <=> tree[j] # NoLocator /\ At(tree[j]) = d.at
      BY <2>4 DEF StreamLies, Present
    <3> QED
      BY <3>1, <3>2, <1>1, <1>3 DEF Present
  <2> HIDE DEF s
  <2> QED
    BY <1>1, <2>2, <2>3, <2>4, StreamGoesOn
<1>9. Promise!Rename(old, new)
  BY <1>1, <1>6, Stores DEF Promise!Rename, Promise!Answer
<1> QED
  BY <1>4, <1>5, <1>7, <1>8, <1>9 DEF VInv, Promise!Next

\* close(), open(), a key that is too long, and the end of a stream.
LEMMA OtherRefines ==
  ASSUME VInv, HOther
  PROVE  VInv' /\ Promise!Next
<1>1. UNCHANGED <<tree, memory, granted, search, stream>>
  BY DEF HOther, RefuseLongKey, StreamNothing, Close, Open
<1>2. VInv'
  <2>1. IInv'
    BY OtherStep DEF VInv
  <2> QED
    BY <1>1, <2>1, StoreKept, StreamKept DEF VInv
<1>3. ContentsOfStore' = ContentsOfStore
  BY <1>1, StoreKept
<1>4. CASE RefuseLongKey
  <2>1. Promise!RefuseLongKey
    BY <1>1, <1>3, <1>4 DEF RefuseLongKey, Answer, Promise!RefuseLongKey, Promise!Answer
  <2> QED
    BY <1>2, <2>1 DEF Promise!Next
<1>5. CASE StreamNothing
  <2>1. /\ search.found => contents_size(search.loc) = 0
        /\ answer' = [call |-> <<"piece">>, ok |-> FALSE, value |-> <<>>]
    BY <1>5 DEF StreamNothing, Answer
  <2>2. StreamOK
    BY DEF VInv
  <2>3. CASE stream.state = "spoilt"
    <3>1. Promise!DeliverAnything
      BY <1>1, <1>3, <2>1, <2>3 DEF Promise!DeliverAnything
    <3> QED
      BY <1>2, <3>1 DEF Promise!Next
  <2>4. CASE stream.state # "spoilt"
    <3>1. stream.rest = <<>>
      <4>1. CASE stream.state = "none"
        BY <2>2, <4>1 DEF StreamOK, NoStream
      <4>2. CASE stream.state = "live"
        <5>1. stream.rest = Contents(search.loc) /\ contents_size(search.loc) = 0
          BY <2>1, <2>2, <4>2 DEF StreamOK
        <5>2. Stored(At(contentsLocator(search.loc)), 0) = <<>>
          BY DEF Stored
        <5> QED
          BY <5>1, <5>2 DEF Contents
      <4> QED
        BY <2>2, <2>4, <4>1, <4>2 DEF StreamOK
    <3>2. Promise!DeliverNothing
      BY <1>1, <1>3, <2>1, <2>4, <3>1 DEF Promise!DeliverNothing, Promise!Answer
    <3> QED
      BY <1>2, <3>2 DEF Promise!Next
  <2> QED
    BY <2>3, <2>4
<1>6. CASE Close \/ \E new_object \in BOOLEAN : Open(new_object)
  <2>1. \/ answer' = [call |-> <<"close">>, ok |-> TRUE, value |-> <<>>]
        \/ answer' = [call |-> <<"open">>, ok |-> TRUE, value |-> <<>>]
    BY <1>6 DEF Close, Open, Answer
  <2>2. Promise!Reopen
    BY <1>1, <1>3, <2>1 DEF Promise!Reopen, Promise!Answer
  <2> QED
    BY <1>2, <2>2 DEF Promise!Next
<1> QED
  BY <1>4, <1>5, <1>6 DEF HOther

\* Bytes that lie one after the other in the memory, and a part of them.
LEMMA StoredParts ==
  ASSUME TypeOK, NEW a \in Nat, NEW c \in Nat, NEW n \in 0..c,
         \A x \in Nat : a <= x /\ x < a + c => x \in Address
  PROVE  /\ Stored(a, c) \in Seq(Cell) /\ Len(Stored(a, c)) = c
         /\ SubSeq(Stored(a, c), 1, n) = Stored(a, n)
         /\ SubSeq(Stored(a, c), n + 1, c) = Stored(a + n, c - n)
<1>1. \A i \in 1..c : memory[a + i - 1] \in Cell
  <2> SUFFICES ASSUME NEW i \in 1..c PROVE memory[a + i - 1] \in Cell
    OBVIOUS
  <2>1. a + i - 1 \in Address
    OBVIOUS
  <2> QED
    BY <2>1 DEF TypeOK
<1>2. /\ Stored(a, c) \in Seq(Cell) /\ Len(Stored(a, c)) = c
      /\ \A i \in 1..c : Stored(a, c)[i] = memory[a + i - 1]
  BY <1>1 DEF Stored
<1>3. SubSeq(Stored(a, c), 1, n) = Stored(a, n)
  <2>1. /\ Stored(a, n) \in Seq(Cell) /\ Len(Stored(a, n)) = n
        /\ \A i \in 1..n : Stored(a, n)[i] = memory[a + i - 1]
    BY <1>1 DEF Stored
  <2>2. \A i \in 1..n : Stored(a, c)[i] \in Cell
    BY <1>1, <1>2
  <2> DEFINE s == Stored(a, c)  t == SubSeq(s, 1, n)
  <2> HIDE DEF s
  <2>3. /\ t \in Seq(Cell) /\ Len(t) = (IF 1 <= n THEN n - 1 + 1 ELSE 0)
        /\ \A i \in 1..(n - 1 + 1) : t[i] = s[1 + i - 1]
    <3>1. \A i \in 1..n : s[i] \in Cell
      BY <2>2 DEF s
    <3> QED
      BY <3>1, SubSeqProperties
  <2> HIDE DEF t
  <2>4. Len(t) = n /\ \A i \in 1..n : t[i] = s[i]
    BY <2>3
  <2>5. \A i \in 1..n : t[i] = Stored(a, n)[i]
    <3> SUFFICES ASSUME NEW i \in 1..n PROVE t[i] = Stored(a, n)[i]
      OBVIOUS
    <3>1. i \in 1..c
      OBVIOUS
    <3> QED
      BY <3>1, <1>2, <2>1, <2>4 DEF s
  <2> QED
    BY <2>1, <2>3, <2>4, <2>5, SeqEqual DEF t, s
<1>4. SubSeq(Stored(a, c), n + 1, c) = Stored(a + n, c - n)
  <2>1. /\ Stored(a + n, c - n) \in Seq(Cell) /\ Len(Stored(a + n, c - n)) = c - n
        /\ \A i \in 1..(c - n) : Stored(a + n, c - n)[i] = memory[a + n + i - 1]
    <3>1. \A i \in 1..(c - n) : memory[a + n + i - 1] \in Cell
      <4> SUFFICES ASSUME NEW i \in 1..(c - n) PROVE memory[a + n + i - 1] \in Cell
        OBVIOUS
      <4>1. n + i \in 1..c /\ a + (n + i) - 1 = a + n + i - 1
        OBVIOUS
      <4> QED
        BY <4>1, <1>1
    <3> QED
      BY <3>1 DEF Stored
  <2> DEFINE s == Stored(a, c)  t == SubSeq(s, n + 1, c)
  <2> HIDE DEF s
  <2>2. /\ t \in Seq(Cell) /\ Len(t) = (IF n + 1 <= c THEN c - (n + 1) + 1 ELSE 0)
        /\ \A i \in 1..(c - (n + 1) + 1) : t[i] = s[(n + 1) + i - 1]
    <3>1. \A i \in (n + 1)..c : s[i] \in Cell
      BY <1>1, <1>2 DEF s
    <3>2. n + 1 \in Int /\ c \in Int
      OBVIOUS
    <3> QED
      BY <3>1, <3>2, SubSeqProperties
  <2> HIDE DEF t
  <2>3. Len(t) = c - n /\ \A i \in 1..(c - n) : t[i] = s[n + i]
    BY <2>2
  <2>4. \A i \in 1..(c - n) : t[i] = Stored(a + n, c - n)[i]
    <3> SUFFICES ASSUME NEW i \in 1..(c - n) PROVE t[i] = Stored(a + n, c - n)[i]
      OBVIOUS
    <3>1. n + i \in 1..c /\ a + (n + i) - 1 = a + n + i - 1
      OBVIOUS
    <3> QED
      BY <3>1, <1>2, <2>1, <2>3 DEF s
  <2> QED
    BY <2>1, <2>2, <2>3, <2>4, SeqEqual DEF t, s
<1> QED
  BY <1>2, <1>3, <1>4

\* What is left to read lies in the space of the value, and so in the memory.
LEMMA RestLies ==
  ASSUME VInv, stream.state # "none"
  PROVE  /\ search.found /\ search.loc \in SizedLocators
         /\ search.loc.block # BLOCK_ID_INVALID /\ LengthFieldSize <= search.loc.size
         /\ At(contentsLocator(search.loc)) \in Nat /\ contents_size(search.loc) \in Nat
         /\ At(contentsLocator(search.loc)) = At(search.loc) + LengthFieldSize
         /\ contents_size(search.loc) = search.loc.size - LengthFieldSize
         /\ At(contentsLocator(search.loc)) + contents_size(search.loc) <= next_id * BLOCKSIZE
         /\ \A x \in Nat : /\ At(contentsLocator(search.loc)) <= x
                           /\ x < At(contentsLocator(search.loc)) + contents_size(search.loc)
                           => x \in Address
<1>1. PICK l : l = search.loc
  OBVIOUS
<1>2. /\ search.found /\ l \in SizedLocators /\ l.block # BLOCK_ID_INVALID
      /\ LengthFieldSize <= l.size
  BY <1>1 DEF VInv, IInv, TypeOK, StreamOK, valid
<1>3. /\ contents_size(l) = l.size - LengthFieldSize
      /\ At(contentsLocator(l)) = At(l) + LengthFieldSize /\ At(l) \in Nat /\ l.size \in Nat
  BY <1>2, ContentsLie
<1>4. PICK e \in granted : e.at <= At(l) /\ At(l) + l.size <= End(e)
  BY <1>1 DEF VInv, StreamOK, StreamLies
<1>5. /\ e \in [at : Nat, size : Nat] /\ End(e) <= next_id * BLOCKSIZE
      /\ \A x \in Nat : e.at <= x /\ x < End(e) => x \in Address
  BY GrantedInMemory DEF VInv, IInv, Placed
<1>6. End(e) \in Nat /\ next_id * BLOCKSIZE \in Nat
  BY <1>5, Sizes DEF End, VInv, IInv, TypeOK
<1> QED
  BY <1>1, <1>2, <1>3, <1>4, <1>5, <1>6, Sizes

\* get() of a piece delivers the next bytes of the string.
LEMMA StreamRefines ==
  ASSUME VInv, NEW n \in Piece \cup {contents_size(search.loc)}, HStream(n)
  PROVE  VInv' /\ Promise!Next
<1>1. /\ search.found /\ n <= contents_size(search.loc) /\ contents_size(search.loc) > 0
      /\ search' = [search EXCEPT !.loc = consume(search.loc, n)]
      /\ UNCHANGED <<tree, memory, granted>>
      /\ answer' = [call |-> <<"piece">>, ok |-> TRUE,
                    value |-> Stored(At(contentsLocator(search.loc)), n)]
      /\ stream' = IF stream.state = "live"
                   THEN [stream EXCEPT !.rest = SubSeq(stream.rest, n + 1, Len(stream.rest))]
                   ELSE stream
  BY DEF HStream, Stream, Streaming, Answer
<1>2. IInv /\ TypeOK /\ StreamOK
  BY DEF VInv, IInv
<1>3. stream.state # "none"
  BY <1>1, <1>2 DEF StreamOK
<1>4. PICK l : l = search.loc
  OBVIOUS
<1> DEFINE a == At(contentsLocator(l))  c == contents_size(l)
<1>5. /\ l \in SizedLocators /\ l.block # BLOCK_ID_INVALID /\ LengthFieldSize <= l.size
      /\ a \in Nat /\ c \in Nat /\ a = At(l) + LengthFieldSize /\ c = l.size - LengthFieldSize
      /\ \A x \in Nat : a <= x /\ x < a + c => x \in Address
  BY <1>3, <1>4, RestLies
<1>6. n \in 1..c
  <2>1. n \in Nat /\ n # 0
    BY <1>1, <1>4, <1>5, SizesAssumption DEF SizesAssumption
  <2> QED
    BY <2>1, <1>1, <1>4, <1>5
<1>7. PICK m : m = consume(l, n)
  OBVIOUS
<1>8. /\ m \in SizedLocators /\ m.block # BLOCK_ID_INVALID /\ m.size = l.size - n
      /\ At(m) = At(l) + n /\ LengthFieldSize <= m.size /\ At(l) \in Nat /\ l.size \in Nat
  <2>1. l.size \in Nat /\ At(l) \in Nat
    BY <1>5, ContentsLie
  <2>2. n \in Nat /\ n <= l.size
    BY <2>1, <1>5, <1>6, Sizes
  <2>3. /\ m \in SizedLocators /\ m.block \in Nat /\ m.size = l.size - n /\ At(m) = At(l) + n
    BY <1>5, <1>7, <2>2, ConsumeOK
  <2> QED
    BY <2>1, <2>2, <2>3, <1>5, <1>6, Sizes DEF BLOCK_ID_INVALID
<1>9. At(contentsLocator(m)) = a + n /\ contents_size(m) = c - n
  <2>1. /\ contents_size(m) = m.size - LengthFieldSize
        /\ At(contentsLocator(m)) = At(m) + LengthFieldSize
    BY <1>8, ContentsLie
  <2> QED
    BY <2>1, <1>5, <1>6, <1>8, Sizes
<1>10. search' = [found |-> TRUE, loc |-> m] /\ search'.found = TRUE /\ search'.loc = m
  BY <1>1, <1>2, <1>4, <1>7 DEF TypeOK
<1> HIDE DEF a, c
<1>11. /\ Stored(a, c) \in Seq(Cell) /\ Len(Stored(a, c)) = c
       /\ SubSeq(Stored(a, c), 1, n) = Stored(a, n)
       /\ SubSeq(Stored(a, c), n + 1, c) = Stored(a + n, c - n)
  <2>1. n \in 0..c
    BY <1>6
  <2> QED
    BY <2>1, <1>2, <1>5, StoredParts
<1>12. Contents(l) = Stored(a, c) /\ Contents(m) = Stored(a + n, c - n)
  BY <1>9 DEF Contents, a, c
<1>13. Contents(m)' = Contents(m)
  BY <1>1 DEF Contents, Stored
<1>14. stream \in [state : {"none", "live", "spoilt"}, source : Key \cup {NoKey}, rest : Seq(Cell)]
  BY <1>2 DEF StreamOK
<1>15. stream.state = "live" => stream.rest = Stored(a, c)
  BY <1>2, <1>4, <1>12 DEF StreamOK
<1>16. /\ stream'.state = stream.state /\ stream'.source = stream.source
       /\ stream'.rest = IF stream.state = "live" THEN Stored(a + n, c - n) ELSE stream.rest
       /\ stream' \in [state : {"none", "live", "spoilt"}, source : Key \cup {NoKey}, rest : Seq(Cell)]
  <2>1. CASE stream.state # "live"
    BY <2>1, <1>1, <1>14
  <2>2. CASE stream.state = "live"
    <3>1. stream' = [stream EXCEPT !.rest = Stored(a + n, c - n)]
      BY <2>2, <1>1, <1>11, <1>15
    <3>2. Stored(a + n, c - n) \in Seq(Cell)
      <4>1. a + n \in Nat /\ c - n \in Nat
        BY <1>5, <1>6 DEF a, c
      <4>2. \A x \in Nat : a + n <= x /\ x < (a + n) + (c - n) => x \in Address
        BY <1>5, <1>6 DEF a, c
      <4>3. 0 \in 0..(c - n)
        BY <4>1
      <4> QED
        BY <4>1, <4>2, <4>3, <1>2, StoredParts
    <3> QED
      BY <2>2, <3>1, <3>2, <1>14
  <2> QED
    BY <2>1, <2>2
<1>17. StreamOK'
  <2>1. valid(m)
    BY <1>8, Sizes DEF valid, SizedLocators, Offset
  <2>2. PICK e \in granted : StreamLies(e)
    BY <1>2, <1>3 DEF StreamOK
  <2>3. e.at <= At(l) /\ At(l) + l.size <= End(e) /\ e \in [at : Nat, size : Nat]
    BY <2>2, <1>2, <1>4, GrantedInMemory DEF StreamLies
  <2>4. e.at <= At(m) /\ At(m) + m.size <= End(e)
    <3>1. n \in Nat /\ At(m) + m.size = At(l) + l.size
      BY <1>6, <1>8, <1>5 DEF c
    <3> QED
      BY <3>1, <2>3, <1>8
  <2>5. StreamLies(e)'
    BY <2>2, <2>4, <1>1, <1>10, <1>16 DEF StreamLies, Present
  <2>6. stream'.state = "live" => stream'.rest = Contents(m)'
    BY <1>12, <1>13, <1>16
  <2>7. stream'.state = "spoilt" => stream'.rest = <<>>
    BY <1>2, <1>16 DEF StreamOK
  <2> QED
    BY <1>1, <1>3, <1>8, <1>10, <1>16, <2>1, <2>2, <2>5, <2>6, <2>7 DEF StreamOK
<1>18. ValuesOK' /\ KeysApart' /\ ContentsOfStore' = ContentsOfStore
  BY <1>1, StoreKept
<1>19. VInv'
  <2>1. IInv'
    BY <1>2, StreamStep
  <2> QED
    BY <2>1, <1>17, <1>18 DEF VInv
<1>20. CASE stream.state = "spoilt"
  <2>1. Promise!DeliverAnything
    BY <1>1, <1>18, <1>20 DEF Promise!DeliverAnything
  <2> QED
    BY <1>19, <2>1 DEF Promise!Next
<1>21. CASE stream.state = "live"
  <2>1. Promise!Deliver(n)
    <3>1. stream.rest = Stored(a, c) /\ Stored(At(contentsLocator(search.loc)), n) = Stored(a, n)
      BY <1>4, <1>15, <1>21 DEF a
    <3> QED
      BY <3>1, <1>1, <1>11, <1>18, <1>21 DEF Promise!Deliver, Promise!Answer
  <2>2. n \in 1..Len(stream.rest)
    BY <1>6, <1>11, <1>15, <1>21
  <2> QED
    BY <1>19, <2>1, <2>2 DEF Promise!Next
<1> QED
  BY <1>3, <1>14, <1>20, <1>21

\* Every step of a careful caller keeps the invariant, and is a step of the map
\* or changes nothing the map speaks of.
LEMMA StepRefines ==
  ASSUME VInv, [HNext]_hvars
  PROVE  VInv' /\ [Promise!Next]_(Promise!vars)
<1>1. CASE \E k \in Key : HQuiet(k) \/ HFind(k)
  BY <1>1, QuietRefines, FindRefines
<1>2. CASE \E k \in Key, v \in Value : HPutInPlace(k, v)
  BY <1>2, PutInPlaceRefines
<1>3. CASE \E k \in Key, v \in Value : HPutLonger(k, v)
  BY <1>3, AllocRefines DEF HPutLonger, PutLonger
<1>4. CASE \E k \in Key, v \in Value, n \in 0..MaxNewNodes : HPutNew(k, v, n)
  <2>1. PICK k \in Key, v \in Value, n \in 0..MaxNewNodes : HPutNew(k, v, n)
    BY <1>4
  <2>2. n \in Nat
    BY SizesAssumption DEF SizesAssumption
  <2>3. /\ Running /\ ~ Present(k) /\ AddNodes(IdAfterAlloc(Amount(v)), n)
        /\ PutAllocated(k, v) /\ Grant(v) /\ stream' = stream
    BY <2>1 DEF HPutNew, PutNew
  <2>4. stream.source # k
    BY <2>3, SourceIs
  <2> QED
    BY <2>2, <2>3, <2>4, AllocRefines
<1>5. CASE \E old, new \in Key, n \in 0..MaxNewNodes : HRename(old, new, n)
  BY <1>5, RenameRefines
<1>6. CASE \E n \in Piece \cup {contents_size(search.loc)} : HStream(n)
  BY <1>6, StreamRefines
<1>7. CASE HOther
  BY <1>7, OtherRefines
<1>8. CASE UNCHANGED hvars
  <2>1. UNCHANGED <<tree, memory, granted, search, stream, answer>>
    BY <1>8 DEF hvars, vars
  <2>2. IInv'
    BY <1>8, StepOK DEF VInv
  <2>3. VInv' /\ ContentsOfStore' = ContentsOfStore
    BY <2>1, <2>2, StoreKept, StreamKept DEF VInv
  <2> QED
    BY <2>1, <2>3 DEF Promise!vars
<1> QED
  BY <1>1, <1>2, <1>3, <1>4, <1>5, <1>6, <1>7, <1>8 DEF HNext

\* What get() returns is what the last put() stored, and a stream delivers the
\* bytes its key had when it was opened, each once and in order, whatever is
\* overwritten in place, moved, renamed or reopened: the store implements a map
\* with one stream.
THEOREM Refinement == HSpec => ImplementsKeyValueMap
<1>1. HInit => VInv /\ Promise!Init
  BY InitRefines
<1>2. VInv /\ [HNext]_hvars => VInv' /\ [Promise!Next]_(Promise!vars)
  BY StepRefines
<1> QED
  BY <1>1, <1>2, PTL DEF HSpec, ImplementsKeyValueMap, Promise!Spec

\* What is left of a stream always lies in blocks that exist: block_get() does
\* not run into its assertion for a caller who asks for no more.
THEOREM StreamStaysInFile == HSpec => []StreamInFile
<1>1. HInit => VInv
  BY InitRefines
<1>2. VInv /\ [HNext]_hvars => VInv'
  BY StepRefines
<1>3. ASSUME VInv PROVE StreamInFile
  <2> SUFFICES ASSUME Streaming PROVE BlocksExist(search.loc, contents_size(search.loc))
    BY DEF StreamInFile
  <2>1. stream.state # "none" /\ contents_size(search.loc) > 0
    BY <1>3 DEF Streaming, VInv, StreamOK
  <2> DEFINE x == At(contentsLocator(search.loc)) + contents_size(search.loc) - 1
             q == x \div BLOCKSIZE
  <2>2. x \in Nat /\ x < next_id * BLOCKSIZE
    <3>1. next_id * BLOCKSIZE \in Nat
      BY <1>3, Sizes DEF VInv, IInv, TypeOK
    <3> QED
      BY <1>3, <2>1, <3>1, RestLies
  <2>3. q \in Nat /\ x % BLOCKSIZE \in Offset /\ x = q * BLOCKSIZE + (x % BLOCKSIZE)
    BY <2>2, DivMod
  <2>4. next_id \in Nat
    BY <1>3, Sizes DEF VInv, IInv, TypeOK
  <2>5. BlocksExist(search.loc, contents_size(search.loc)) = (q < next_id)
    BY DEF BlocksExist
  <2> HIDE DEF x, q
  <2>6. q < next_id
    <3> SUFFICES ASSUME next_id <= q PROVE FALSE
      BY <2>3, <2>4
    <3>1. next_id * BLOCKSIZE <= q * BLOCKSIZE
      BY <2>3, <2>4, Monotone
    <3>2. next_id * BLOCKSIZE \in Nat /\ q * BLOCKSIZE \in Nat
      BY <2>3, <2>4, Sizes
    <3> QED
      BY <2>2, <2>3, <3>1, <3>2, Sizes DEF Offset
  <2>7. (q < next_id) = TRUE
    BY <2>6
  <2> QED
    BY <2>5, <2>7
<1> QED
  BY <1>1, <1>2, <1>3, PTL DEF HSpec
=============================================================================
