------------------------------- MODULE Packer -------------------------------
(***************************************************************************)
(* Seriously.h and Seriously.impl.hpp: a Packer is a buffer of SIZE bytes   *)
(* that values are packed into and unpacked from, and Traits<T> says what   *)
(* bytes a value of type T becomes.  Every block and every header of a file *)
(* is written and read through a Packer.                                    *)
(*                                                                          *)
(* A byte has Base values instead of 256, and a C++ type keeps its width in *)
(* bytes.  The machine is little-endian.                                    *)
(***************************************************************************)
EXTENDS Integers, Sequences, SequencesExt

CONSTANTS
  SIZE,       \* the bytes of m_buffer
  Base,       \* bound: how many values a byte has
  BLOCKSIZE,  \* what DataLocator::normalize counts offsets in
  Values,     \* what users pack
  Texts       \* the strings that a variable may hold before it is read into

WidthsAssumption ==
  SIZE \in Nat /\ Base \in Nat \ {0, 1, 2} /\ BLOCKSIZE \in 1..Base * Base

ASSUME WidthsAssumption

VARIABLES
  buffer,     \* m_buffer
  dst,        \* m_dstp, counted from the start of the buffer
  dst_avail,  \* m_dst_avail
  src,        \* m_srcp, likewise
  src_avail,  \* m_src_avail
  length,     \* m_length
  error,      \* m_error
  packed,     \* history: the values packed into the buffer
  loaded,     \* history: the buffer was filled by data()
  got         \* history: what was read since the first byte was last read

vars == <<buffer, dst, dst_avail, src, src_avail, length, error, packed, loaded, got>>

Byte == 0 .. Base - 1
NUL == 0
TrueByte == 1    \* 't'
FalseByte == 2   \* 'f'

(***************************************************************************)
(* Numbers.  Memory holds the lowest byte first, network order the highest. *)
(***************************************************************************)
Width == [int8 |-> 1, uint8 |-> 1, int16 |-> 2, uint16 |-> 2,
          int32 |-> 4, uint32 |-> 4, int64 |-> 8, uint64 |-> 8]
Signed == {"int8", "int16", "int32", "int64"}

\* How many numbers n bytes hold.
Power[n \in Nat] == IF n = 0 THEN 1 ELSE Base * Power[n - 1]

InMemory(n, w) == [i \in 1..w |-> (n \div Power[i - 1]) % Base]
FromMemory(m) ==
  LET number[i \in 0..Len(m)] == IF i = 0 THEN 0 ELSE number[i - 1] + m[i] * Power[i - 1]
  IN number[Len(m)]

AsSigned(n, w) == IF 2 * n >= Power[w] THEN n - Power[w] ELSE n

\* htons() and htonl() reverse the bytes of a number.
hton(m) == Reverse(m)

\* Mutant: the words keep their places.
HtonllByWord(m) == hton(SubSeq(m, 1, 4)) \o hton(SubSeq(m, 5, 8))

\* htonll() has htonl() for each half and swaps the halves; ntohll() is the same.
htonll(m) == hton(SubSeq(m, 5, 8)) \o hton(SubSeq(m, 1, 4))

Swapped(m) == IF Len(m) = 8 THEN htonll(m) ELSE hton(m)

Number(type, n) == Swapped(InMemory(n, Width[type]))
ToNumber(type, bytes) ==
  LET n == FromMemory(Swapped(bytes))
  IN IF type \in Signed THEN AsSigned(n, Width[type]) ELSE n

(***************************************************************************)
(* Traits<T>.                                                               *)
(***************************************************************************)
\* DataLocator::normalize().
Normalized(l) == [block |-> l.block + (l.offset \div BLOCKSIZE), offset |-> l.offset % BLOCKSIZE]

Encoded(x) ==
  CASE x.type = "bool"    -> IF x.v THEN <<TrueByte>> ELSE <<FalseByte>>
    [] x.type = "string"  -> Number("uint32", Len(x.v)) \o x.v
    [] x.type = "locator" -> Number("uint32", Normalized(x.v).block)
                               \o Number("uint16", Normalized(x.v).offset)
    [] OTHER              -> Number(x.type, x.v)

\* serializedsize(v): for a string, of the text v.
serializedsize(type, v) ==
  CASE type = "bool"    -> 1
    [] type = "string"  -> 4 + Len(v)
    [] type = "locator" -> 6
    [] OTHER            -> Width[type]

\* What deserialize() makes of the bytes from a given place on, when there
\* are enough of them.
Decoded(type, bytes) ==
  CASE type = "bool"    -> bytes[1] = TrueByte
    [] type = "string"  -> SubSeq(bytes, 5, 4 + ToNumber("uint32", SubSeq(bytes, 1, 4)))
    [] type = "locator" -> [block |-> ToNumber("uint32", SubSeq(bytes, 1, 4)),
                            offset |-> ToNumber("uint16", SubSeq(bytes, 5, 6))]
    [] OTHER            -> ToNumber(type, SubSeq(bytes, 1, Width[type]))

\* What a value comes back as.
Meant(x) == IF x.type = "locator" THEN [x EXCEPT !.v = Normalized(x.v)] ELSE x

\* What a variable of each type may hold: an integer of its width, a text whose
\* length has four bytes, a locator that is valid and that normalize() keeps so.
ValidBlock(b) == b \in 0 .. Power[4] - 2

Holds(type, v) ==
  \/ type = "bool" /\ v \in BOOLEAN
  \/ type = "string" /\ v \in Seq(Byte) /\ Len(v) < Power[4]
  \/ /\ type = "locator"
     /\ v = [block |-> v.block, offset |-> v.offset] /\ v.offset \in Int
     /\ ValidBlock(v.block) /\ ValidBlock(Normalized(v).block)
  \/ /\ type \in Signed
     /\ v \in Int /\ -Power[Width[type]] <= 2 * v /\ 2 * v < Power[Width[type]]
  \/ type \in DOMAIN Width \ Signed /\ v \in 0 .. Power[Width[type]] - 1

Types == {"bool", "string", "locator"} \cup DOMAIN Width

IsValue(x) == x = [type |-> x.type, v |-> x.v] /\ x.type \in Types /\ Holds(x.type, x.v)

ValuesAssumption ==
  (\A x \in Values : IsValue(x)) /\ (\A held \in Texts : held \in Seq(Byte))

ASSUME ValuesAssumption

(***************************************************************************)
(* The packer.  Its users either pack from the start and take the contents, *)
(* or load contents and unpack them.                                        *)
(***************************************************************************)
Nothing == [type |-> "nothing"]   \* the variable keeps what it held

\* Packer().  The buffer is not initialized.
Init ==
  /\ \E junk \in Byte : buffer = [i \in 1..SIZE |-> junk]
  /\ dst = 0 /\ dst_avail = SIZE /\ src = 0 /\ src_avail = 0
  /\ length = 0 /\ error = FALSE
  /\ packed = <<>> /\ loaded = FALSE /\ got = <<>>

\* The bytes go where m_dstp points, and a '\0' after them if there is room.
Terminated(s) ==
  [i \in 1..SIZE |-> IF i - dst \in 1..Len(s) THEN s[i - dst]
                     ELSE IF i = dst + Len(s) + 1 THEN NUL
                     ELSE buffer[i]]

\* operator<<
PackRefused(x) ==
  /\ dst_avail < serializedsize(x.type, x.v)
  /\ error' = TRUE
  /\ UNCHANGED <<buffer, dst, dst_avail, src, src_avail, length, packed, loaded, got>>

Pack(x) ==
  LET used == Len(Encoded(x))
  IN /\ dst_avail >= serializedsize(x.type, x.v)
     /\ buffer' = Terminated(Encoded(x))
     /\ dst' = dst + used
     /\ dst_avail' = dst_avail - used
     /\ length' = length + used
     /\ src_avail' = src_avail + used
     /\ packed' = Append(packed, x)
     /\ UNCHANGED <<src, error, loaded, got>>

Rest == SubSeq(buffer, src + 1, SIZE)

\* The bytes a stored string says it has.
TextLength == ToNumber("uint32", SubSeq(buffer, src + 1, src + 4))

\* Mutant: what just fits is refused.
RefusesExact(type, held) == src_avail <= serializedsize(type, held)

\* operator>> into a variable that holds the value `held': its size is what
\* the check looks at.
Refuses(type, held) == src_avail < serializedsize(type, held)
TooLong(type) == type = "string" /\ src_avail - 4 < TextLength

UnpackRefused(type, held) ==
  /\ Refuses(type, held)
  /\ error' = TRUE
  /\ got' = Append(got, Nothing)
  /\ UNCHANGED <<buffer, dst, dst_avail, src, src_avail, length, packed, loaded>>

\* deserialize() of a string fails: the length it read is gone from
\* m_src_avail, while m_srcp stays.
UnpackTooLong(type, held) ==
  /\ ~ Refuses(type, held) /\ TooLong(type)
  /\ src_avail' = src_avail - 4
  /\ error' = TRUE
  /\ got' = Append(got, Nothing)
  /\ UNCHANGED <<buffer, dst, dst_avail, src, length, packed, loaded>>

\* Mutant: a value that is there takes the error back.
UnpackForgiving(type, held) ==
  LET v == Decoded(type, Rest)
      consumed == serializedsize(type, v)
  IN /\ ~ Refuses(type, held) /\ ~ TooLong(type)
     /\ src' = src + consumed /\ src_avail' = src_avail - consumed
     /\ error' = FALSE
     /\ got' = Append(got, [type |-> type, v |-> v])
     /\ UNCHANGED <<buffer, dst, dst_avail, length, packed, loaded>>

Unpack(type, held) ==
  LET v == Decoded(type, Rest)
      consumed == serializedsize(type, v)
  IN /\ ~ Refuses(type, held) /\ ~ TooLong(type)
     /\ src' = src + consumed
     /\ src_avail' = src_avail - consumed
     /\ got' = Append(got, [type |-> type, v |-> v])
     /\ UNCHANGED <<buffer, dst, dst_avail, length, error, packed, loaded>>

\* Mutant: m_srcp stays.
LoadInPlace(n) ==
  /\ n <= SIZE
  /\ buffer' = [i \in 1..SIZE |-> IF i = n + 1 THEN NUL ELSE buffer[i]]
  /\ length' = n
  /\ dst' = 0 /\ dst_avail' = SIZE - n
  /\ src' = src /\ src_avail' = n
  /\ error' = FALSE
  /\ loaded' = TRUE /\ got' = <<>>
  /\ UNCHANGED packed

\* data(data_, size_) with the first n bytes of these contents: another packer
\* of the same size takes them over, and its user unpacks what was packed.
Load(n) ==
  /\ n <= SIZE
  /\ buffer' = [i \in 1..SIZE |-> IF i = n + 1 THEN NUL ELSE buffer[i]]
  /\ length' = n
  /\ dst' = 0 /\ dst_avail' = SIZE - n
  /\ src' = 0 /\ src_avail' = n
  /\ error' = FALSE
  /\ loaded' = TRUE /\ got' = <<>>
  /\ UNCHANGED packed

\* rewind()
Rewind ==
  /\ dst' = 0 /\ dst_avail' = SIZE
  /\ src' = 0 /\ src_avail' = 0
  /\ length' = 0 /\ error' = FALSE
  /\ packed' = <<>> /\ loaded' = FALSE /\ got' = <<>>
  /\ UNCHANGED buffer

\* unpacking_rewind()
UnpackingRewind ==
  /\ src' = 0 /\ src_avail' = length
  /\ got' = <<>>
  /\ UNCHANGED <<buffer, dst, dst_avail, length, error, packed, loaded>>

(***************************************************************************)
(* The users.                                                               *)
(***************************************************************************)
Bytes(values) == FlattenSeq([i \in 1..Len(values) |-> Encoded(values[i])])
Uncut == length >= Len(Bytes(packed))

\* The contents taken over: some of what was packed, or the whole buffer, the
\* way a block is read back.
Taken == 0..length \cup {n \in {SIZE} : Uncut}

\* What the reader asks for next: the types in the order they were packed,
\* once more after the last if nothing but the packed values is there.
Asked ==
  IF Len(got) < Len(packed) THEN {packed[Len(got) + 1].type}
  ELSE IF Len(got) = Len(packed) /\ length <= Len(Bytes(packed)) THEN {"string", "uint16", "bool"}
  ELSE {}

\* A string variable may hold a text before it is read into.
Held(type) == IF type = "string" THEN Texts ELSE {<<>>}

Next ==
  \/ \E x \in Values : ~ loaded /\ (Pack(x) \/ PackRefused(x))
  \/ \E type \in Asked : \E held \in Held(type) :
       Unpack(type, held) \/ UnpackRefused(type, held) \/ UnpackTooLong(type, held)
  \/ \E n \in Taken : Load(n)
  \/ Rewind
  \/ UnpackingRewind

Spec == Init /\ [][Next]_vars

(***************************************************************************)
(* Properties.                                                              *)
(***************************************************************************)
\* The buffer holds bytes, and no pointer or count of a packer leads past
\* its end or its contents, whatever is read from whatever contents.
TypeOK ==
  /\ buffer \in [1..SIZE -> Byte]
  /\ {dst, dst_avail, src, src_avail, length} \subseteq 0..SIZE
  /\ error \in BOOLEAN
  /\ length + dst_avail = SIZE
  /\ src + src_avail <= length
  /\ dst <= length

\* What unpacking yields while no error is reported is what was packed, in
\* order, each value of its type: however the calls interleave, wherever the
\* contents are cut off, and whatever the chain of >> goes on to read after a
\* failure.  It is what node_read, readHeader and both header_read build on
\* when they look at error() once, after the last >>.
ReadsBack ==
  ~ error => /\ Len(got) <= Len(packed)
             /\ \A i \in 1..Len(got) : got[i] = Meant(packed[i])

\* Where the encoding of the n-th packed value ends.
EndOf(n) == Len(Bytes(SubSeq(packed, 1, n)))

\* Numbers lie in the buffer with their highest byte first, negative ones and
\* those of 64 bits included: a file written on a machine of one byte order
\* can be read on one of the other.
NetworkOrder ==
  \A i \in 1..Len(packed) :
    LET w == Width[packed[i].type]
    IN packed[i].type \in DOMAIN Width /\ EndOf(i) <= length =>
         \A j \in 1..w : buffer[EndOf(i - 1) + j] = (packed[i].v \div Power[w - j]) % Base

\* An error is reported only for a reason.  Packing: the value does not fit
\* after the others.  Unpacking: there is nothing more, or the contents are
\* cut off inside the value, or the variable held a text longer than what is
\* left.
ErrorsJustified ==
  [][~ error /\ error' =>
       IF got' = got
       THEN \E x \in Values : Len(Bytes(packed)) + Len(Encoded(x)) > SIZE
       ELSE \/ Len(got) = Len(packed)
            \/ EndOf(Len(got) + 1) > length
            \/ /\ packed[Len(got) + 1].type = "string"
               /\ \E held \in Texts : 4 + Len(held) > length - EndOf(Len(got))]_vars
=============================================================================
