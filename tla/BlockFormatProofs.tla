-------------------------- MODULE BlockFormatProofs --------------------------
(***************************************************************************)
(* Proofs about Packer and BlockFormat.  What is unpacked is what was       *)
(* packed, for a buffer of every size, bytes of every base and every value  *)
(* that its type holds; a node that B allows fits its block, for every size *)
(* of blocks, keys and values; and the nodes and headers that are written   *)
(* into blocks come back from them.  The numbers, the sequences of bytes,   *)
(* the steps of a packer and the blocks come in this order.                 *)
(***************************************************************************)
EXTENDS BlockFormat, FiniteSetTheorems, SequenceTheorems, TLAPS

(***************************************************************************)
(* Recursion.                                                               *)
(***************************************************************************)
\* A set that has 0 and the successors of its members has every natural.
LEMMA NatSet ==
  ASSUME NEW U, 0 \in U, \A n \in Nat : n \in U => n + 1 \in U
  PROVE  Nat \subseteq U
<1>1. SUFFICES ASSUME NEW n \in Nat, n \notin U PROVE FALSE
  OBVIOUS
<1> DEFINE V == {x \in Nat : \A y \in 0 .. x : y \in U}
           s == [x \in V |-> x + 1]
<1>2. 0 \in V /\ V \subseteq Nat
  OBVIOUS
<1>3. \A x \in V : x + 1 \in V
  OBVIOUS
<1>4. \A x \in V : x <= n
  BY <1>1
<1>5. IsFiniteSet(V)
  BY <1>2, <1>4, <1>1, FS_BoundedSetOfNaturals
<1>6. s \in Injection(V, V)
  BY <1>3, <1>2 DEF Injection, IsInjective
<1>7. s \in Surjection(V, V)
  BY <1>5, <1>6, FS_Injection
<1>8. \E x \in V : s[x] = 0
  BY <1>7, <1>2 DEF Surjection
<1> QED BY <1>8, <1>2

\* c starts with a, and step g leads from each place to the next, up to n.
Steps(c, Q, a, g, n) ==
  /\ c \in [0..n -> Q]
  /\ c[0] = a
  /\ \A i \in 1..n : c[i] = g[i][c[i - 1]]

\* a is the start, and g leads on from everything in Q.
Leads(Q, a, g) == a \in Q /\ \A i \in Nat, q \in Q : g[i][q] \in Q

\* c goes on without an end.
StepsOn(c, Q, a, g) ==
  /\ c \in [Nat -> Q]
  /\ c[0] = a
  /\ \A i \in Nat : c[i + 1] = g[i + 1][c[i]]

\* What is defined step by step exists.
LEMMA StepsExist ==
  ASSUME NEW Q, NEW a, NEW g, Leads(Q, a, g)
  PROVE  \A n \in Nat : \E c : Steps(c, Q, a, g, n)
<1> DEFINE U == {n \in Nat : \E c : Steps(c, Q, a, g, n)}
<1>1. 0 \in U
  <2>1. Steps([i \in 0..0 |-> a], Q, a, g, 0)
    BY DEF Steps, Leads
  <2> QED BY <2>1
<1>2. ASSUME NEW n \in Nat, n \in U PROVE n + 1 \in U
  <2>1. PICK c : Steps(c, Q, a, g, n)
    BY <1>2
  <2>2. PICK q \in Q : q = g[n + 1][c[n]]
    BY <2>1 DEF Steps, Leads
  <2>3. PICK d : d = [i \in 0 .. n + 1 |-> IF i = n + 1 THEN q ELSE c[i]]
    OBVIOUS
  <2>4. \A i \in 0..n : d[i] = c[i] /\ c[i] \in Q
    BY <2>1, <2>3 DEF Steps
  <2>5. d[n + 1] = q /\ d \in [0 .. n + 1 -> Q]
    <3>1. n + 1 \in 0 .. n + 1 /\ \A i \in 0 .. n + 1 : i # n + 1 => i \in 0..n
      OBVIOUS
    <3> QED BY <2>2, <2>3, <2>4, <3>1
  <2>6. ASSUME NEW i \in 1 .. n + 1 PROVE d[i] = g[i][d[i - 1]]
    <3>1. i - 1 \in 0..n /\ d[i - 1] = c[i - 1]
      BY <2>4
    <3>2. CASE i = n + 1
      BY <3>1, <3>2, <2>2, <2>5
    <3>3. CASE i # n + 1
      BY <3>1, <3>3, <2>1, <2>4 DEF Steps
    <3> QED BY <3>2, <3>3
  <2>7. d[0] = a
    BY <2>1, <2>4 DEF Steps
  <2>8. Steps(d, Q, a, g, n + 1)
    BY <2>5, <2>6, <2>7 DEF Steps
  <2> QED BY <2>8
<1>3. Nat \subseteq U
  <2> HIDE DEF U
  <2> QED BY <1>1, <1>2, NatSet
<1> QED BY <1>3

\* It is determined by its start and its steps.
LEMMA StepsUnique ==
  ASSUME NEW Q, NEW a, NEW g, NEW m \in Nat, NEW n \in Nat, NEW c, NEW d,
         Steps(c, Q, a, g, m), Steps(d, Q, a, g, n)
  PROVE  \A i \in Nat : i <= m /\ i <= n => c[i] = d[i]
<1> DEFINE U == {i \in Nat : i <= m /\ i <= n => c[i] = d[i]}
<1>1. 0 \in U
  BY DEF Steps
<1>2. ASSUME NEW i \in Nat, i \in U PROVE i + 1 \in U
  <2>1. SUFFICES ASSUME i + 1 <= m, i + 1 <= n PROVE c[i + 1] = d[i + 1]
    OBVIOUS
  <2>2. i + 1 \in 1..m /\ i + 1 \in 1..n /\ c[i] = d[i] /\ (i + 1) - 1 = i
    BY <1>2, <2>1
  <2>3. c[i + 1] = g[i + 1][c[i]]
    BY <2>2 DEF Steps
  <2>4. d[i + 1] = g[i + 1][d[i]]
    BY <2>2 DEF Steps
  <2> QED BY <2>2, <2>3, <2>4
<1>3. Nat \subseteq U
  <2> HIDE DEF U
  <2> QED BY <1>1, <1>2, NatSet
<1> QED BY <1>3

\* Without an end.
LEMMA StepsForever ==
  ASSUME NEW Q, NEW a, NEW g, Leads(Q, a, g)
  PROVE  \E f : StepsOn(f, Q, a, g)
<1> DEFINE C(n) == CHOOSE c : Steps(c, Q, a, g, n)
           f == [n \in Nat |-> C(n)[n]]
<1>1. \A n \in Nat : Steps(C(n), Q, a, g, n)
  BY StepsExist
<1> HIDE DEF C
<1>2. f \in [Nat -> Q]
  BY <1>1 DEF Steps
<1>3. f[0] = a
  BY <1>1 DEF Steps
<1>4. ASSUME NEW i \in Nat PROVE f[i + 1] = g[i + 1][f[i]]
  <2>1. Steps(C(i), Q, a, g, i) /\ Steps(C(i + 1), Q, a, g, i + 1)
    BY <1>1
  <2>2. C(i)[i] = C(i + 1)[i]
    BY <2>1, StepsUnique
  <2>3. i + 1 \in 1 .. i + 1 /\ (i + 1) - 1 = i
    OBVIOUS
  <2>4. C(i + 1)[i + 1] = g[i + 1][C(i + 1)[i]]
    BY <2>1, <2>3 DEF Steps
  <2> QED BY <2>2, <2>4
<1> QED BY <1>2, <1>3, <1>4 DEF StepsOn

(***************************************************************************)
(* Numbers.                                                                 *)
(***************************************************************************)
\* Powers multiply.
LEMMA PowerDef ==
  /\ Power \in [Nat -> Nat]
  /\ Power[0] = 1
  /\ \A n \in Nat : Power[n + 1] = Base * Power[n]
<1>0. Base \in Nat
  BY WidthsAssumption DEF WidthsAssumption
<1>1. PICK g : g = [i \in Nat |-> [q \in Nat |-> Base * q]]
  OBVIOUS
<1>2. \A i \in Nat, q \in Nat : g[i][q] = Base * q /\ g[i][q] \in Nat
  BY <1>0, <1>1
<1>3. Leads(Nat, 1, g)
  BY <1>2 DEF Leads
<1>3a. PICK f : StepsOn(f, Nat, 1, g)
  BY <1>3, StepsForever
<1>3b. f \in [Nat -> Nat] /\ f[0] = 1 /\ \A i \in Nat : f[i + 1] = g[i + 1][f[i]]
  BY <1>3a DEF StepsOn
<1>4. ASSUME NEW n \in Nat PROVE f[n] = IF n = 0 THEN 1 ELSE Base * f[n - 1]
  <2>1. CASE n = 0
    BY <2>1, <1>3b
  <2>2. CASE n # 0
    <3>1. n - 1 \in Nat /\ (n - 1) + 1 = n
      BY <2>2
    <3>2. f[n] = g[n][f[n - 1]] /\ f[n - 1] \in Nat
      BY <3>1, <1>3b
    <3> QED BY <3>1, <3>2, <1>2, <2>2
  <2> QED BY <2>1, <2>2
<1>5. f = [n \in Nat |-> IF n = 0 THEN 1 ELSE Base * f[n - 1]]
  BY <1>4, <1>3b
<1>6. Power = [n \in Nat |-> IF n = 0 THEN 1 ELSE Base * Power[n - 1]]
  <2>1. \E h : h = [n \in Nat |-> IF n = 0 THEN 1 ELSE Base * h[n - 1]]
    BY <1>5
  <2> QED BY <2>1, Zenon DEF Power
<1> DEFINE U == {n \in Nat : Power[n] \in Nat}
<1>7. Power[0] = 1
  BY <1>6
<1>8. \A n \in Nat : Power[n + 1] = Base * Power[n]
  BY <1>6
<1>9. Nat \subseteq U
  <2>1. 0 \in U
    BY <1>7
  <2>2. \A n \in Nat : n \in U => n + 1 \in U
    BY <1>0, <1>8
  <2> HIDE DEF U
  <2> QED BY <2>1, <2>2, NatSet
<1>10. DOMAIN Power = Nat /\ Power = [n \in Nat |-> Power[n]]
  BY <1>6
<1> QED BY <1>7, <1>8, <1>9, <1>10

\* A byte has a value.
LEMMA BaseNat == Base \in Nat \ {0, 1, 2}
BY WidthsAssumption DEF WidthsAssumption

\* So has each of its values.
LEMMA ByteNat ==
  Byte \subseteq Nat /\ {NUL, TrueByte, FalseByte} \subseteq Byte
BY BaseNat DEF Byte, NUL, TrueByte, FalseByte

\* A power is a number to divide by.
LEMMA PowerPositive == \A n \in Nat : Power[n] \in Nat \ {0}
<1> DEFINE U == {n \in Nat : Power[n] \in Nat \ {0}}
<1>1. 0 \in U
  BY PowerDef
<1>2. ASSUME NEW n \in Nat, n \in U PROVE n + 1 \in U
  <2>1. Power[n + 1] = Base * Power[n] /\ Power[n] \in Nat \ {0}
    BY <1>2, PowerDef
  <2> QED BY <2>1, BaseNat
<1>3. Nat \subseteq U
  <2> HIDE DEF U
  <2> QED BY <1>1, <1>2, NatSet
<1> QED BY <1>3

\* Quotients and remainders.
LEMMA DivDef ==
  ASSUME NEW x \in Int, NEW d \in Nat \ {0}
  PROVE  /\ x \div d \in Int
         /\ x % d = x - d * (x \div d)
         /\ d * (x \div d) <= x /\ x < d * (x \div d) + d
OBVIOUS

\* A remainder is smaller than what it is of.
LEMMA ModRange ==
  ASSUME NEW x \in Int, NEW d \in Nat \ {0}
  PROVE  x % d \in 0 .. d - 1
OBVIOUS

\* There is one quotient.
LEMMA DivUnique ==
  ASSUME NEW x \in Int, NEW d \in Nat \ {0}, NEW q \in Int, d * q <= x, x < d * q + d
  PROVE  x \div d = q
<1>1. PICK e \in Int : e = x \div d
  BY DivDef
<1>2. d * e <= x /\ x < d * e + d
  BY <1>1, DivDef
<1>3. ASSUME q < e PROVE FALSE
  <2>1. d * (q + 1) <= d * e
    BY <1>3
  <2> QED BY <2>1, <1>2
<1>4. ASSUME e < q PROVE FALSE
  <2>1. d * (e + 1) <= d * q
    BY <1>4
  <2> QED BY <2>1, <1>2
<1> QED BY <1>1, <1>3, <1>4

\* Dividing twice is dividing by the product.
LEMMA DivTwice ==
  ASSUME NEW x \in Int, NEW p \in Nat \ {0}, NEW b \in Nat \ {0}
  PROVE  (x \div p) \div b = x \div (b * p)
<1>1. PICK y \in Int : y = x \div p
  BY DivDef
<1>2. PICK z \in Int : z = y \div b
  BY DivDef
<1>3. p * y <= x /\ x < p * y + p
  BY <1>1, DivDef
<1>4. b * z <= y /\ y < b * z + b
  BY <1>2, DivDef
<1>5. b * p \in Nat \ {0}
  OBVIOUS
<1>6. p * (b * z) <= p * y
  BY <1>4
<1>7. p * (y + 1) <= p * (b * z + b)
  BY <1>4
<1>8. (b * p) * z = p * (b * z) /\ p * (b * z + b) = (b * p) * z + b * p /\ p * (y + 1) = p * y + p
  OBVIOUS
<1>9. (b * p) * z <= x /\ x < (b * p) * z + b * p
  <2>1. p * y \in Int /\ (b * p) * z \in Int
    OBVIOUS
  <2> QED BY <1>3, <1>5, <1>6, <1>7, <1>8, <2>1
<1>10. x \div (b * p) = z
  BY <1>5, <1>9, DivUnique
<1> QED BY <1>1, <1>2, <1>10

\* A number is the sum of its digits, each with its power.
LEMMA FromMemoryDef ==
  ASSUME NEW m \in Seq(Nat)
  PROVE  \E f \in [0..Len(m) -> Nat] :
           /\ f[0] = 0
           /\ \A i \in 1..Len(m) : f[i] = f[i - 1] + m[i] * Power[i - 1]
           /\ FromMemory(m) = f[Len(m)]
<1> DEFINE N == Len(m)
<1>0. N \in Nat /\ \A i \in 1..N : m[i] \in Nat
  OBVIOUS
<1> HIDE DEF N
<1>1. PICK g : g = [i \in Nat |-> [q \in Nat |-> IF i \in 1..N THEN q + m[i] * Power[i - 1] ELSE 0]]
  OBVIOUS
<1>2. ASSUME NEW i \in Nat, NEW q \in Nat PROVE g[i][q] \in Nat
  <2>1. g[i][q] = IF i \in 1..N THEN q + m[i] * Power[i - 1] ELSE 0
    BY <1>1
  <2>2. i \in 1..N => m[i] \in Nat /\ Power[i - 1] \in Nat
    <3>1. i \in 1..N => i - 1 \in Nat
      BY <1>0
    <3>2. \A j \in Nat : Power[j] \in Nat
      BY PowerDef
    <3> QED BY <1>0, <3>1, <3>2
  <2> QED BY <2>1, <2>2
<1>3. Leads(Nat, 0, g)
  BY <1>2 DEF Leads
<1>4. PICK f : Steps(f, Nat, 0, g, N)
  BY <1>0, <1>3, StepsExist
<1>5. f \in [0..N -> Nat] /\ f[0] = 0 /\ \A i \in 1..N : f[i] = g[i][f[i - 1]]
  BY <1>4 DEF Steps
<1>6. ASSUME NEW i \in 1..N PROVE f[i] = f[i - 1] + m[i] * Power[i - 1]
  <2>1. i \in Nat /\ f[i - 1] \in Nat /\ f[i] = g[i][f[i - 1]]
    BY <1>0, <1>5
  <2> QED BY <2>1, <1>1
<1>7. \A i \in 0..N : f[i] = IF i = 0 THEN 0 ELSE f[i - 1] + m[i] * Power[i - 1]
  <2>1. \A i \in 0..N : i # 0 => i \in 1..N
    BY <1>0
  <2> QED BY <1>5, <1>6, <2>1
<1>8. f = [i \in 0..N |-> IF i = 0 THEN 0 ELSE f[i - 1] + m[i] * Power[i - 1]]
  BY <1>5, <1>7
<1> DEFINE h == CHOOSE h : h = [i \in 0..N |-> IF i = 0 THEN 0 ELSE h[i - 1] + m[i] * Power[i - 1]]
<1>9. h = [i \in 0..N |-> IF i = 0 THEN 0 ELSE h[i - 1] + m[i] * Power[i - 1]]
  <2>1. \E e : e = [i \in 0..N |-> IF i = 0 THEN 0 ELSE e[i - 1] + m[i] * Power[i - 1]]
    BY <1>8
  <2> QED BY <2>1, Zenon
<1>10. FromMemory(m) = h[N]
  BY Zenon DEF FromMemory, N
<1> HIDE DEF h
<1> DEFINE U == {i \in Nat : i <= N => h[i] = f[i]}
<1>11. 0 \in U
  BY <1>0, <1>5, <1>9
<1>12. ASSUME NEW i \in Nat, i \in U PROVE i + 1 \in U
  <2>1. SUFFICES ASSUME i + 1 <= N PROVE h[i + 1] = f[i + 1]
    OBVIOUS
  <2>2. i + 1 \in 0..N /\ i + 1 # 0 /\ (i + 1) - 1 = i /\ i + 1 \in 1..N /\ h[i] = f[i]
    BY <1>12, <1>0, <2>1
  <2> QED BY <2>2, <1>6, <1>9
<1>13. Nat \subseteq U
  <2> HIDE DEF U
  <2> QED BY <1>11, <1>12, NatSet
<1>14. h[N] = f[N]
  BY <1>0, <1>13
<1> QED BY <1>5, <1>6, <1>10, <1>14 DEF N

\* What is put into memory are bytes.
LEMMA InMemoryBytes ==
  ASSUME NEW n \in Int, NEW w \in Nat
  PROVE  /\ InMemory(n, w) \in Seq(Byte) /\ Len(InMemory(n, w)) = w
         /\ \A i \in 1..w : InMemory(n, w)[i] = (n \div Power[i - 1]) % Base
<1>1. ASSUME NEW i \in 1..w PROVE (n \div Power[i - 1]) % Base \in Byte
  <2>1. Power[i - 1] \in Nat \ {0}
    <3>1. i - 1 \in Nat
      OBVIOUS
    <3> QED BY <3>1, PowerPositive
  <2>2. n \div Power[i - 1] \in Int
    BY <2>1, DivDef
  <2> QED BY <2>2, BaseNat, ModRange DEF Byte
<1>2. InMemory(n, w) \in [1..w -> Byte]
  BY <1>1 DEF InMemory
<1>3. InMemory(n, w) \in Seq(Byte)
  BY <1>2
<1> QED BY <1>2, <1>3 DEF InMemory

\* Reading w bytes of a number yields what of it fits them.
LEMMA MemoryReadsBack ==
  ASSUME NEW n \in Int, NEW w \in Nat
  PROVE  FromMemory(InMemory(n, w)) = n % Power[w]
<1> DEFINE D(i) == n \div Power[i]
<1>1. PICK m : m = InMemory(n, w)
  OBVIOUS
<1>2. m \in Seq(Byte) /\ Len(m) = w /\ \A i \in 1..w : m[i] = D(i - 1) % Base
  BY <1>1, InMemoryBytes
<1>3. m \in Seq(Nat)
  BY <1>2, ByteNat, SeqMonotonic
<1>4. PICK f \in [0..w -> Nat] :
        /\ f[0] = 0
        /\ \A i \in 1..w : f[i] = f[i - 1] + m[i] * Power[i - 1]
        /\ FromMemory(m) = f[w]
  BY <1>2, <1>3, FromMemoryDef
<1>5. \A i \in Nat : D(i) \in Int /\ D(i + 1) = D(i) \div Base /\ D(0) = n
  <2>1. ASSUME NEW i \in Nat PROVE D(i) \in Int /\ D(i + 1) = D(i) \div Base
    <3>1. Power[i] \in Nat \ {0} /\ Power[i + 1] = Base * Power[i]
      BY PowerPositive, PowerDef
    <3>2. D(i) \in Int
      BY <3>1, DivDef
    <3>3. (n \div Power[i]) \div Base = n \div (Base * Power[i])
      BY <3>1, BaseNat, DivTwice
    <3> QED BY <3>1, <3>2, <3>3
  <2>2. D(0) = n
    BY PowerDef
  <2> QED BY <2>1, <2>2
<1>5a. D(w) = n \div Power[w]
  OBVIOUS
<1> HIDE DEF D
<1> DEFINE U == {i \in Nat : i <= w => f[i] = n - Power[i] * D(i)}
<1>6. 0 \in U
  <2>1. f[0] = 0 /\ Power[0] = 1 /\ D(0) = n
    BY <1>4, <1>5, PowerDef
  <2> QED BY <2>1
<1>7. ASSUME NEW i \in Nat, i \in U PROVE i + 1 \in U
  <2>1. SUFFICES ASSUME i + 1 <= w PROVE f[i + 1] = n - Power[i + 1] * D(i + 1)
    OBVIOUS
  <2>2. i + 1 \in 1..w /\ (i + 1) - 1 = i /\ f[i] = n - Power[i] * D(i)
    BY <1>7, <2>1
  <2>3. f[i + 1] = f[i] + m[i + 1] * Power[i] /\ m[i + 1] = D(i) % Base
    BY <2>2, <1>2, <1>4
  <2>4. PICK x \in Int : x = D(i)
    BY <1>5
  <2>5. PICK y \in Int : y = D(i + 1)
    BY <1>5
  <2>6. PICK p \in Int : p = Power[i]
    BY PowerDef
  <2>7. PICK b \in Int : b = Base
    BY BaseNat
  <2>8. m[i + 1] = x - b * y
    <3>1. x % Base = x - Base * (x \div Base)
      BY BaseNat, DivDef
    <3> QED BY <2>3, <2>4, <2>5, <2>7, <1>5, <3>1
  <2>9. Power[i + 1] = b * p
    BY <2>6, <2>7, PowerDef
  <2>10. (n - p * x) + (x - b * y) * p = n - (b * p) * y
    OBVIOUS
  <2>11. f[i + 1] = (n - p * x) + (x - b * y) * p
    BY <2>2, <2>3, <2>4, <2>6, <2>8
  <2> QED BY <2>5, <2>9, <2>10, <2>11
<1>8. Nat \subseteq U
  <2> HIDE DEF U
  <2> QED BY <1>6, <1>7, NatSet
<1>9. f[w] = n - Power[w] * D(w)
  BY <1>8
<1>10. n % Power[w] = n - Power[w] * (n \div Power[w])
  <2>1. Power[w] \in Nat \ {0}
    BY PowerPositive
  <2> QED BY <2>1, DivDef
<1>11. FromMemory(m) = n - Power[w] * (n \div Power[w])
  BY <1>4, <1>5a, <1>9
<1> QED BY <1>1, <1>10, <1>11

\* Swapping reverses the bytes, those of 64 bits too.
LEMMA SwappedReverses ==
  ASSUME NEW S, NEW m \in Seq(S)
  PROVE  /\ Swapped(m) \in Seq(S) /\ Len(Swapped(m)) = Len(m)
         /\ \A j \in 1..Len(m) : Swapped(m)[j] = m[Len(m) + 1 - j]
<1>1. ASSUME NEW s \in Seq(S)
      PROVE  /\ hton(s) \in Seq(S) /\ Len(hton(s)) = Len(s)
             /\ \A j \in 1..Len(s) : hton(s)[j] = s[Len(s) + 1 - j]
  <2>1. hton(s) = [j \in 1..Len(s) |-> s[(Len(s) - j) + 1]]
    BY DEF hton, Reverse
  <2>2. Len(s) \in Nat /\ \A j \in 1..Len(s) : (Len(s) - j) + 1 \in 1..Len(s) /\ (Len(s) - j) + 1 = Len(s) + 1 - j
    OBVIOUS
  <2>3. \A j \in 1..Len(s) : s[(Len(s) - j) + 1] \in S
    BY <2>2
  <2>4. hton(s) \in [1..Len(s) -> S]
    BY <2>1, <2>3
  <2>5. hton(s) \in Seq(S) /\ Len(hton(s)) = Len(s)
    BY <2>2, <2>4
  <2> QED BY <2>1, <2>2, <2>5
<1>2. CASE Len(m) = 8
  <2>1. PICK a, b : a = SubSeq(m, 5, 8) /\ b = SubSeq(m, 1, 4)
    OBVIOUS
  <2>2. \A i \in 1..8 : m[i] \in S
    <3>1. \A i \in 1..Len(m) : m[i] \in S
      OBVIOUS
    <3> QED BY <1>2, <3>1
  <2>3. a \in Seq(S) /\ Len(a) = 4 /\ \A i \in 1..4 : a[i] = m[4 + i]
    <3>1. \A i \in 5..8 : m[i] \in S
      BY <2>2
    <3>2. /\ SubSeq(m, 5, 8) \in Seq(S) /\ Len(SubSeq(m, 5, 8)) = IF 5 <= 8 THEN 8 - 5 + 1 ELSE 0
          /\ \A i \in 1 .. 8 - 5 + 1 : SubSeq(m, 5, 8)[i] = m[5 + i - 1]
      BY <3>1, SubSeqProperties
    <3> QED BY <2>1, <3>2
  <2>4. b \in Seq(S) /\ Len(b) = 4 /\ \A i \in 1..4 : b[i] = m[i]
    <3>1. \A i \in 1..4 : m[i] \in S
      BY <2>2
    <3>2. /\ SubSeq(m, 1, 4) \in Seq(S) /\ Len(SubSeq(m, 1, 4)) = IF 1 <= 4 THEN 4 - 1 + 1 ELSE 0
          /\ \A i \in 1 .. 4 - 1 + 1 : SubSeq(m, 1, 4)[i] = m[1 + i - 1]
      BY <3>1, SubSeqProperties
    <3> QED BY <2>1, <3>2
  <2>5. PICK c, d : c = hton(a) /\ d = hton(b)
    OBVIOUS
  <2>6. /\ c \in Seq(S) /\ Len(c) = 4 /\ \A j \in 1..4 : c[j] = a[5 - j]
        /\ d \in Seq(S) /\ Len(d) = 4 /\ \A j \in 1..4 : d[j] = b[5 - j]
    <3>1. ASSUME NEW s \in Seq(S), Len(s) = 4
          PROVE  hton(s) \in Seq(S) /\ Len(hton(s)) = 4 /\ \A j \in 1..4 : hton(s)[j] = s[5 - j]
      <4>1. \A j \in 1..Len(s) : hton(s)[j] = s[Len(s) + 1 - j]
        BY <1>1
      <4>2. hton(s) \in Seq(S) /\ Len(hton(s)) = Len(s)
        BY <1>1
      <4>3. \A j \in 1..4 : 4 + 1 - j = 5 - j
        OBVIOUS
      <4> QED BY <3>1, <4>1, <4>2, <4>3
    <3> QED BY <3>1, <2>3, <2>4, <2>5
  <2>7. PICK s : s = c \o d
    OBVIOUS
  <2>7a. s \in Seq(S) /\ Len(s) = 8 /\ \A i \in 1..8 : s[i] = IF i <= 4 THEN c[i] ELSE d[i - 4]
    <3>1. /\ c \o d \in Seq(S) /\ Len(c \o d) = Len(c) + Len(d)
          /\ \A i \in 1 .. Len(c) + Len(d) : (c \o d)[i] = IF i <= Len(c) THEN c[i] ELSE d[i - Len(c)]
      BY <2>6, ConcatProperties
    <3> QED BY <2>6, <2>7, <3>1
  <2>8. \A i \in 1..8 : s[i] = m[9 - i]
    <3>1. ASSUME NEW i \in 1..8 PROVE s[i] = m[9 - i]
      <4>1. CASE i <= 4
        <5>1. i \in 1..4 /\ 5 - i \in 1..4 /\ 4 + (5 - i) = 9 - i
          BY <4>1
        <5> QED BY <4>1, <5>1, <2>3, <2>6, <2>7a
      <4>2. CASE i > 4
        <5>1. i - 4 \in 1..4 /\ 5 - (i - 4) \in 1..4 /\ 5 - (i - 4) = 9 - i /\ ~ (i <= 4)
          BY <4>2
        <5> QED BY <4>2, <5>1, <2>4, <2>6, <2>7a
      <4> QED BY <4>1, <4>2
    <3> QED BY <3>1
  <2>9. Swapped(m) = s
    BY <1>2, <2>1, <2>5, <2>7 DEF Swapped, htonll
  <2> QED BY <2>7a, <2>8, <2>9, <1>2
<1>3. CASE Len(m) # 8
  BY <1>1, <1>3 DEF Swapped
<1> QED BY <1>2, <1>3

\* Swapping twice restores the bytes.
LEMMA SwappedTwice ==
  ASSUME NEW S, NEW m \in Seq(S)
  PROVE  Swapped(Swapped(m)) = m
<1>1. PICK s : s = Swapped(m)
  OBVIOUS
<1>2. s \in Seq(S) /\ Len(s) = Len(m) /\ \A j \in 1..Len(m) : s[j] = m[Len(m) + 1 - j]
  BY <1>1, SwappedReverses
<1>3. PICK t : t = Swapped(s)
  OBVIOUS
<1>4. t \in Seq(S) /\ Len(t) = Len(m) /\ \A j \in 1..Len(m) : t[j] = s[Len(m) + 1 - j]
  BY <1>2, <1>3, SwappedReverses
<1>5. ASSUME NEW j \in 1..Len(m) PROVE t[j] = m[j]
  <2>1. Len(m) \in Nat
    OBVIOUS
  <2>2. Len(m) + 1 - j \in 1..Len(m) /\ Len(m) + 1 - (Len(m) + 1 - j) = j
    BY <2>1
  <2> QED BY <2>2, <1>2, <1>4
<1>6. t = m
  BY <1>4, <1>5, SeqEqual
<1> QED BY <1>1, <1>3, <1>6

(***************************************************************************)
(* What a value is encoded as, and what it is decoded to.                   *)
(***************************************************************************)
\* The widths of the integers.
LEMMA Widths ==
  /\ DOMAIN Width = {"int8", "uint8", "int16", "uint16", "int32", "uint32", "int64", "uint64"}
  /\ Width["uint32"] = 4 /\ Width["uint16"] = 2
  /\ \A type \in DOMAIN Width : Width[type] \in Nat \ {0}
BY DEF Width

\* A number becomes as many bytes as its type has, the highest first.
LEMMA NumberBytes ==
  ASSUME NEW type \in DOMAIN Width, NEW n \in Int
  PROVE  /\ Number(type, n) \in Seq(Byte) /\ Len(Number(type, n)) = Width[type]
         /\ \A j \in 1..Width[type] : Number(type, n)[j] = (n \div Power[Width[type] - j]) % Base
<1>1. PICK w \in Nat \ {0} : w = Width[type]
  BY Widths
<1>2. PICK m : m = InMemory(n, w)
  OBVIOUS
<1>3. m \in Seq(Byte) /\ Len(m) = w /\ \A i \in 1..w : m[i] = (n \div Power[i - 1]) % Base
  BY <1>2, InMemoryBytes
<1>4. PICK s : s = Swapped(m)
  OBVIOUS
<1>5. s \in Seq(Byte) /\ Len(s) = w /\ \A j \in 1..w : s[j] = m[w + 1 - j]
  <2>1. s \in Seq(Byte) /\ Len(s) = Len(m) /\ \A j \in 1..Len(m) : s[j] = m[Len(m) + 1 - j]
    BY <1>3, <1>4, SwappedReverses
  <2> QED BY <2>1, <1>3
<1>6. ASSUME NEW j \in 1..w PROVE s[j] = (n \div Power[w - j]) % Base
  <2>1. w + 1 - j \in 1..w /\ (w + 1 - j) - 1 = w - j
    OBVIOUS
  <2>2. m[w + 1 - j] = (n \div Power[(w + 1 - j) - 1]) % Base
    BY <2>1, <1>3
  <2> QED BY <2>1, <2>2, <1>5
<1>7. Number(type, n) = s
  BY <1>1, <1>2, <1>4 DEF Number
<1> QED BY <1>1, <1>5, <1>6, <1>7

\* What the bytes of a number are read as, before a sign.
LEMMA NumberModulo ==
  ASSUME NEW type \in DOMAIN Width, NEW n \in Int
  PROVE  FromMemory(Swapped(Number(type, n))) = n % Power[Width[type]]
<1>1. PICK w \in Nat \ {0} : w = Width[type]
  BY Widths
<1>2. InMemory(n, w) \in Seq(Byte)
  BY InMemoryBytes
<1>3. Swapped(Swapped(InMemory(n, w))) = InMemory(n, w)
  BY <1>2, SwappedTwice
<1> QED BY <1>1, <1>3, MemoryReadsBack DEF Number

\* The two types that texts and locators are made of.
LEMMA NumberBytes32 ==
  ASSUME NEW n \in Int
  PROVE  Number("uint32", n) \in Seq(Byte) /\ Len(Number("uint32", n)) = 4
<1>1. "uint32" \in DOMAIN Width /\ Width["uint32"] = 4
  BY Widths
<1> QED BY <1>1, NumberBytes

\* The other one.
LEMMA NumberBytes16 ==
  ASSUME NEW n \in Int
  PROVE  Number("uint16", n) \in Seq(Byte) /\ Len(Number("uint16", n)) = 2
<1>1. "uint16" \in DOMAIN Width /\ Width["uint16"] = 2
  BY Widths
<1> QED BY <1>1, NumberBytes

\* What a bool holds.
LEMMA HoldsBool ==
  ASSUME NEW v, Holds("bool", v)
  PROVE  v \in BOOLEAN
BY Widths DEF Holds, Signed

\* What a string holds.
LEMMA HoldsString ==
  ASSUME NEW v, Holds("string", v)
  PROVE  v \in Seq(Byte) /\ Len(v) \in Nat /\ Len(v) < Power[4]
<1>1. "string" \notin DOMAIN Width /\ "string" \notin Signed
  BY Widths DEF Signed
<1>2. v \in Seq(Byte) /\ Len(v) < Power[4]
  BY <1>1 DEF Holds
<1> QED BY <1>2

\* What a locator holds.
LEMMA HoldsLocator ==
  ASSUME NEW l, Holds("locator", l)
  PROVE  /\ l = [block |-> l.block, offset |-> l.offset] /\ l.offset \in Int
         /\ ValidBlock(l.block) /\ ValidBlock(Normalized(l).block)
<1>1. "locator" \notin DOMAIN Width /\ "locator" \notin Signed
  BY Widths DEF Signed
<1> QED BY <1>1 DEF Holds

\* What fits into the integers without a sign.
LEMMA HoldsUnsigned ==
  ASSUME NEW n
  PROVE  /\ n \in 0 .. Power[4] - 1 => Holds("uint32", n)
         /\ n \in 0 .. Power[2] - 1 => Holds("uint16", n)
<1>1. "uint32" \in DOMAIN Width \ Signed /\ Width["uint32"] = 4
  BY Widths DEF Signed
<1>2. "uint16" \in DOMAIN Width \ Signed /\ Width["uint16"] = 2
  BY Widths DEF Signed
<1> QED BY <1>1, <1>2 DEF Holds

\* A number below p is its own remainder; a negative one lacks p.
LEMMA SmallRemainder ==
  ASSUME NEW n \in Int, NEW p \in Nat \ {0}
  PROVE  /\ n \in 0 .. p - 1 => n % p = n
         /\ - p <= n /\ n < 0 => n % p = n + p
<1>1. ASSUME n \in 0 .. p - 1 PROVE n % p = n
  <2>1. p * 0 <= n /\ n < p * 0 + p
    BY <1>1
  <2>2. n \div p = 0
    BY <2>1, DivUnique
  <2> QED BY <2>2, DivDef
<1>2. ASSUME - p <= n, n < 0 PROVE n % p = n + p
  <2>1. p * (-1) <= n /\ n < p * (-1) + p
    BY <1>2
  <2>2. n \div p = -1
    BY <2>1, DivUnique
  <2>3. n % p = n - p * (-1)
    BY <2>2, DivDef
  <2> QED BY <2>3
<1> QED BY <1>1, <1>2

\* A number comes back as it was, signed or not.
LEMMA NumberReadsBack ==
  ASSUME NEW type \in DOMAIN Width, NEW n, Holds(type, n)
  PROVE  n \in Int /\ ToNumber(type, Number(type, n)) = n
<1>1. PICK p \in Nat \ {0} : p = Power[Width[type]]
  BY Widths, PowerPositive
<1>2. type \notin {"bool", "string", "locator"} /\ Signed \subseteq DOMAIN Width
  BY Widths DEF Signed
<1>3. IF type \in Signed THEN n \in Int /\ - p <= 2 * n /\ 2 * n < p ELSE n \in 0 .. p - 1
  BY <1>1, <1>2 DEF Holds
<1>4. n \in Int
  BY <1>3
<1>5. PICK r : r = FromMemory(Swapped(Number(type, n)))
  OBVIOUS
<1>6. r = n % p
  BY <1>1, <1>4, <1>5, NumberModulo
<1>7. ToNumber(type, Number(type, n)) = IF type \in Signed THEN AsSigned(r, Width[type]) ELSE r
  BY <1>5 DEF ToNumber
<1>8. CASE type \notin Signed
  BY <1>3, <1>6, <1>7, <1>8, SmallRemainder
<1>9. CASE type \in Signed
  <2>1. AsSigned(r, Width[type]) = IF 2 * r >= p THEN r - p ELSE r
    BY <1>1 DEF AsSigned
  <2>2. CASE n >= 0
    <3>1. n \in 0 .. p - 1
      BY <1>3, <1>9, <2>2
    <3>2. r = n
      BY <3>1, <1>4, <1>6, SmallRemainder
    <3> QED BY <3>2, <2>1, <1>3, <1>7, <1>9
  <2>3. CASE n < 0
    <3>1. - p <= n
      BY <1>3, <1>9, <2>3
    <3>2. r = n + p
      BY <3>1, <2>3, <1>4, <1>6, SmallRemainder
    <3>3. 2 * r >= p /\ r - p = n
      BY <3>2, <1>3, <1>9
    <3> QED BY <3>3, <2>1, <1>4, <1>7, <1>9
  <2> QED BY <2>2, <2>3, <1>4
<1> QED BY <1>4, <1>8, <1>9

\* Whatever the bytes are, they are a number.
LEMMA ToNumberType ==
  ASSUME NEW type \in DOMAIN Width, NEW bytes \in Seq(Byte)
  PROVE  ToNumber(type, bytes) \in Int /\ (type \notin Signed => ToNumber(type, bytes) \in Nat)
<1>1. Swapped(bytes) \in Seq(Nat)
  <2>1. Swapped(bytes) \in Seq(Byte)
    BY SwappedReverses
  <2> QED BY <2>1, ByteNat, SeqMonotonic
<1>2. PICK n : n = FromMemory(Swapped(bytes))
  OBVIOUS
<1>3. n \in Nat
  <2>1. PICK f \in [0..Len(Swapped(bytes)) -> Nat] : FromMemory(Swapped(bytes)) = f[Len(Swapped(bytes))]
    BY <1>1, FromMemoryDef
  <2>2. Len(Swapped(bytes)) \in Nat
    BY <1>1
  <2> QED BY <2>1, <2>2, <1>2
<1>4. AsSigned(n, Width[type]) \in Int
  <2>1. Power[Width[type]] \in Nat
    BY Widths, PowerDef
  <2> QED BY <2>1, <1>3 DEF AsSigned
<1> QED BY <1>2, <1>3, <1>4 DEF ToNumber

\* A part of a sequence that is s, place by place, is s.
LEMMA SubSeqIs ==
  ASSUME NEW S, NEW bytes \in Seq(S), NEW s \in Seq(S), NEW a \in Nat,
         a + Len(s) <= Len(bytes), \A i \in 1..Len(s) : bytes[a + i] = s[i]
  PROVE  SubSeq(bytes, a + 1, a + Len(s)) = s
<1>1. PICK n \in Nat : n = Len(s)
  OBVIOUS
<1>2. \A i \in a + 1 .. a + n : bytes[i] \in S
  <2>1. \A i \in 1..Len(bytes) : bytes[i] \in S
    OBVIOUS
  <2>2. Len(bytes) \in Nat /\ \A i \in a + 1 .. a + n : i \in 1..Len(bytes)
    BY <1>1
  <2> QED BY <2>1, <2>2
<1>3. PICK t : t = SubSeq(bytes, a + 1, a + n)
  OBVIOUS
<1>4. /\ t \in Seq(S)
      /\ Len(t) = IF a + 1 <= a + n THEN (a + n) - (a + 1) + 1 ELSE 0
      /\ \A i \in 1 .. (a + n) - (a + 1) + 1 : t[i] = bytes[(a + 1) + i - 1]
  <2>1. a + 1 \in Int /\ a + n \in Int
    OBVIOUS
  <2> QED BY <2>1, <1>2, <1>3, SubSeqProperties
<1>5. Len(t) = n /\ (a + n) - (a + 1) + 1 = n
  BY <1>4
<1>6. ASSUME NEW i \in 1..n PROVE t[i] = s[i]
  <2>1. t[i] = bytes[(a + 1) + i - 1] /\ (a + 1) + i - 1 = a + i
    BY <1>4, <1>5
  <2>2. bytes[a + i] = s[i]
    BY <1>1
  <2> QED BY <2>1, <2>2
<1> QED BY <1>1, <1>3, <1>4, <1>5, <1>6, SeqEqual

\* A part of bytes are bytes.
LEMMA SubSeqBytes ==
  ASSUME NEW bytes \in Seq(Byte), NEW a \in Nat, NEW b \in Int, b <= Len(bytes)
  PROVE  /\ SubSeq(bytes, a + 1, b) \in Seq(Byte)
         /\ Len(SubSeq(bytes, a + 1, b)) = IF a <= b THEN b - a ELSE 0
         /\ \A i \in 1 .. b - a : SubSeq(bytes, a + 1, b)[i] = bytes[a + i]
<1>1. \A i \in a + 1 .. b : bytes[i] \in Byte
  <2>1. \A i \in 1..Len(bytes) : bytes[i] \in Byte
    OBVIOUS
  <2>2. Len(bytes) \in Nat /\ \A i \in a + 1 .. b : i \in 1..Len(bytes)
    OBVIOUS
  <2> QED BY <2>1, <2>2
<1>2. PICK t : t = SubSeq(bytes, a + 1, b)
  OBVIOUS
<1>3. /\ t \in Seq(Byte)
      /\ Len(t) = IF a + 1 <= b THEN b - (a + 1) + 1 ELSE 0
      /\ \A i \in 1 .. b - (a + 1) + 1 : t[i] = bytes[(a + 1) + i - 1]
  <2>1. a + 1 \in Int
    OBVIOUS
  <2> QED BY <2>1, <1>1, <1>2, SubSeqProperties
<1>4. Len(t) = IF a <= b THEN b - a ELSE 0
  BY <1>3
<1>5. ASSUME NEW i \in 1 .. b - a PROVE t[i] = bytes[a + i]
  <2>1. i \in 1 .. b - (a + 1) + 1 /\ (a + 1) + i - 1 = a + i
    OBVIOUS
  <2> QED BY <2>1, <1>3
<1> QED BY <1>2, <1>3, <1>4, <1>5

\* A locator that is normalized points into a block.
LEMMA NormalizedHolds ==
  ASSUME NEW l, Holds("locator", l)
  PROVE  /\ Normalized(l) = [block |-> Normalized(l).block, offset |-> Normalized(l).offset]
         /\ Normalized(l).block \in 0 .. Power[4] - 1
         /\ Normalized(l).offset \in 0 .. Power[2] - 1
<1>1. ValidBlock(Normalized(l).block) /\ l.offset \in Int
  BY HoldsLocator
<1>2. BLOCKSIZE \in Nat \ {0} /\ BLOCKSIZE <= Base * Base
  BY WidthsAssumption, BaseNat DEF WidthsAssumption
<1>3. Power[2] = Base * Base
  <2>1. Power[0 + 1] = Base * Power[0] /\ Power[1 + 1] = Base * Power[1] /\ Power[0] = 1
    BY PowerDef
  <2>2. Power[1] = Base
    BY <2>1, BaseNat
  <2> QED BY <2>1, <2>2
<1>4. Normalized(l).offset = l.offset % BLOCKSIZE
  BY DEF Normalized
<1>5. l.offset % BLOCKSIZE \in 0 .. BLOCKSIZE - 1
  BY <1>1, <1>2, ModRange
<1>6. Normalized(l).offset \in 0 .. Power[2] - 1
  <2>1. PICK p \in Int : p = Base * Base
    BY BaseNat
  <2> QED BY <2>1, <1>2, <1>3, <1>4, <1>5
<1>7. Power[4] \in Nat
  BY PowerDef
<1> QED BY <1>1, <1>6, <1>7 DEF ValidBlock, Normalized

\* A value becomes as many bytes as serializedsize() says.
LEMMA EncodedBytes ==
  ASSUME NEW x, IsValue(x)
  PROVE  /\ Encoded(x) \in Seq(Byte)
         /\ Len(Encoded(x)) = serializedsize(x.type, x.v)
         /\ Len(Encoded(x)) \in Nat \ {0}
<1>1. x.type \in Types /\ Holds(x.type, x.v)
  BY DEF IsValue
<1>2. CASE x.type = "bool"
  <2>1. Encoded(x) = IF x.v THEN <<TrueByte>> ELSE <<FalseByte>>
    BY <1>2 DEF Encoded
  <2>2. <<TrueByte>> \in Seq(Byte) /\ Len(<<TrueByte>>) = 1
    BY ByteNat
  <2>3. <<FalseByte>> \in Seq(Byte) /\ Len(<<FalseByte>>) = 1
    BY ByteNat
  <2>4. x.v \in BOOLEAN
    BY <1>1, <1>2, HoldsBool
  <2>5. Encoded(x) \in Seq(Byte) /\ Len(Encoded(x)) = 1
    BY <2>1, <2>2, <2>3, <2>4
  <2> QED BY <2>5, <1>2 DEF serializedsize
<1>3. CASE x.type = "string"
  <2>1. x.v \in Seq(Byte) /\ Len(x.v) \in Nat
    BY <1>1, <1>3, HoldsString
  <2>2. PICK s : s = Number("uint32", Len(x.v))
    OBVIOUS
  <2>3. s \in Seq(Byte) /\ Len(s) = 4
    BY <2>1, <2>2, NumberBytes32
  <2>4. s \o x.v \in Seq(Byte) /\ Len(s \o x.v) = 4 + Len(x.v)
    <3>1. s \o x.v \in Seq(Byte) /\ Len(s \o x.v) = Len(s) + Len(x.v)
      BY <2>1, <2>3, ConcatProperties
    <3> QED BY <3>1, <2>3
  <2>5. Encoded(x) = s \o x.v
    BY <2>2, <1>3 DEF Encoded
  <2>6. serializedsize(x.type, x.v) = 4 + Len(x.v)
    BY <1>3 DEF serializedsize
  <2> QED BY <2>1, <2>4, <2>5, <2>6
<1>4. CASE x.type = "locator"
  <2>1. Normalized(x.v).block \in Int /\ Normalized(x.v).offset \in Int
    BY <1>1, <1>4, NormalizedHolds
  <2>2. PICK s, t : s = Number("uint32", Normalized(x.v).block) /\ t = Number("uint16", Normalized(x.v).offset)
    OBVIOUS
  <2>3. s \in Seq(Byte) /\ Len(s) = 4 /\ t \in Seq(Byte) /\ Len(t) = 2
    BY <2>1, <2>2, NumberBytes32, NumberBytes16
  <2>4. s \o t \in Seq(Byte) /\ Len(s \o t) = 6
    <3>1. s \o t \in Seq(Byte) /\ Len(s \o t) = Len(s) + Len(t)
      BY <2>3, ConcatProperties
    <3> QED BY <3>1, <2>3
  <2>5. Encoded(x) = s \o t /\ serializedsize(x.type, x.v) = 6
    BY <2>2, <1>4 DEF Encoded, serializedsize
  <2> QED BY <2>4, <2>5
<1>5. CASE x.type \notin {"bool", "string", "locator"}
  <2>1. x.type \in DOMAIN Width
    BY <1>1, <1>5 DEF Types
  <2>2. x.v \in Int
    BY <1>1, <2>1, NumberReadsBack
  <2>3. Encoded(x) = Number(x.type, x.v) /\ serializedsize(x.type, x.v) = Width[x.type]
    BY <1>5 DEF Encoded, serializedsize
  <2>4. Number(x.type, x.v) \in Seq(Byte) /\ Len(Number(x.type, x.v)) = Width[x.type]
    BY <2>1, <2>2, NumberBytes
  <2>5. Width[x.type] \in Nat \ {0}
    BY <2>1, Widths
  <2> QED BY <2>3, <2>4, <2>5
<1> QED BY <1>2, <1>3, <1>4, <1>5

\* bytes begin with s.
Begins(bytes, s) == Len(s) <= Len(bytes) /\ \A i \in 1..Len(s) : bytes[i] = s[i]

\* The first four bytes of a stored text are its length.
LEMMA TextLengthReadsBack ==
  ASSUME NEW v, Holds("string", v), NEW bytes \in Seq(Byte),
         Len(bytes) >= 4, \A i \in 1..4 : bytes[i] = Number("uint32", Len(v))[i]
  PROVE  ToNumber("uint32", SubSeq(bytes, 1, 4)) = Len(v)
<1>1. Len(v) \in Nat /\ Len(v) < Power[4]
  BY HoldsString
<1>2. Holds("uint32", Len(v))
  <2>1. Power[4] \in Nat
    BY PowerDef
  <2> QED BY <2>1, <1>1, HoldsUnsigned
<1>3. PICK s : s = Number("uint32", Len(v))
  OBVIOUS
<1>4. s \in Seq(Byte) /\ Len(s) = 4 /\ ToNumber("uint32", s) = Len(v)
  BY <1>1, <1>2, <1>3, Widths, NumberBytes32, NumberReadsBack
<1>5. SubSeq(bytes, 0 + 1, 0 + Len(s)) = s
  <2>1. 0 + Len(s) <= Len(bytes) /\ \A i \in 1..Len(s) : bytes[0 + i] = s[i]
    BY <1>3, <1>4
  <2> QED BY <1>4, <2>1, SubSeqIs
<1>6. 0 + 1 = 1 /\ 0 + Len(s) = 4
  BY <1>4
<1> QED BY <1>4, <1>5, <1>6

\* Decoding what begins with the encoding of a value yields the value, a
\* locator as normalize() leaves it.
LEMMA DecodesEncoded ==
  ASSUME NEW x, IsValue(x), NEW bytes \in Seq(Byte), Begins(bytes, Encoded(x))
  PROVE  /\ Decoded(x.type, bytes) = Meant(x).v
         /\ serializedsize(x.type, Decoded(x.type, bytes)) = Len(Encoded(x))
<1>1. x.type \in Types /\ Holds(x.type, x.v)
  BY DEF IsValue
<1>2. /\ Len(Encoded(x)) <= Len(bytes) /\ Encoded(x) \in Seq(Byte)
      /\ \A i \in 1..Len(Encoded(x)) : bytes[i] = Encoded(x)[i]
      /\ Len(Encoded(x)) = serializedsize(x.type, x.v)
  BY EncodedBytes DEF Begins
<1>3. CASE x.type = "bool"
  <2>1. Encoded(x) = IF x.v THEN <<TrueByte>> ELSE <<FalseByte>>
    BY <1>3 DEF Encoded
  <2>2. x.v \in BOOLEAN
    BY <1>1, <1>3, HoldsBool
  <2>3. bytes[1] = IF x.v THEN TrueByte ELSE FalseByte
    BY <2>1, <2>2, <1>2
  <2>4. bytes[1] = TrueByte <=> x.v
    BY <2>2, <2>3 DEF TrueByte, FalseByte
  <2>5. Decoded(x.type, bytes) = (bytes[1] = TrueByte)
    BY <1>3 DEF Decoded
  <2>6. (bytes[1] = TrueByte) = x.v
    BY <2>2, <2>4, Zenon
  <2>7. Meant(x).v = x.v
    BY <1>3 DEF Meant
  <2> QED BY <2>5, <2>6, <2>7, <1>2
<1>4. CASE x.type = "string"
  <2>1. x.v \in Seq(Byte) /\ Len(x.v) \in Nat
    BY <1>1, <1>4, HoldsString
  <2>2. PICK s : s = Number("uint32", Len(x.v))
    OBVIOUS
  <2>3. s \in Seq(Byte) /\ Len(s) = 4
    BY <2>1, <2>2, NumberBytes32
  <2>4. Encoded(x) = s \o x.v
    BY <2>2, <1>4 DEF Encoded
  <2>5. /\ Len(Encoded(x)) = 4 + Len(x.v)
        /\ \A i \in 1 .. 4 + Len(x.v) : Encoded(x)[i] = IF i <= 4 THEN s[i] ELSE x.v[i - 4]
    <3>1. /\ Len(s \o x.v) = Len(s) + Len(x.v)
          /\ \A i \in 1 .. Len(s) + Len(x.v) : (s \o x.v)[i] = IF i <= Len(s) THEN s[i] ELSE x.v[i - Len(s)]
      BY <2>1, <2>3, ConcatProperties
    <3> QED BY <3>1, <2>3, <2>4
  <2>6. ToNumber("uint32", SubSeq(bytes, 1, 4)) = Len(x.v)
    <3>1. Len(bytes) >= 4 /\ \A i \in 1..4 : bytes[i] = s[i]
      <4>1. \A i \in 1..4 : i \in 1 .. 4 + Len(x.v)
        BY <2>1
      <4>2. \A i \in 1..4 : Encoded(x)[i] = s[i]
        BY <4>1, <2>5
      <4>3. \A i \in 1..4 : bytes[i] = Encoded(x)[i]
        BY <4>1, <2>5, <1>2
      <4>4. Len(bytes) >= 4
        BY <2>1, <2>5, <1>2
      <4> QED BY <4>2, <4>3, <4>4
    <3> QED BY <3>1, <2>2, <1>1, <1>4, TextLengthReadsBack
  <2>7. SubSeq(bytes, 4 + 1, 4 + Len(x.v)) = x.v
    <3>1. ASSUME NEW i \in 1..Len(x.v) PROVE bytes[4 + i] = x.v[i]
      <4>1. 4 + i \in 1 .. 4 + Len(x.v) /\ ~ (4 + i <= 4) /\ (4 + i) - 4 = i
        BY <2>1
      <4> QED BY <4>1, <2>5, <1>2
    <3>2. 4 + Len(x.v) <= Len(bytes)
      BY <2>5, <1>2
    <3> QED BY <3>1, <3>2, <2>1, SubSeqIs
  <2>8. Decoded(x.type, bytes) = x.v
    BY <2>6, <2>7, <1>4 DEF Decoded
  <2> QED BY <2>8, <1>2, <1>4 DEF Meant
<1>5. CASE x.type = "locator"
  <2>1. PICK b, o : b = Normalized(x.v).block /\ o = Normalized(x.v).offset
    OBVIOUS
  <2>2. Holds("uint32", b) /\ Holds("uint16", o) /\ b \in Int /\ o \in Int /\ Normalized(x.v) = [block |-> b, offset |-> o]
    <3>1. Holds("locator", x.v)
      BY <1>1, <1>5
    <3>2. Normalized(x.v) = [block |-> b, offset |-> o] /\ b \in 0 .. Power[4] - 1 /\ o \in 0 .. Power[2] - 1
      BY <3>1, <2>1, NormalizedHolds
    <3>3. Power[4] \in Nat /\ Power[2] \in Nat
      BY PowerDef
    <3> QED BY <3>2, <3>3, HoldsUnsigned
  <2>3. PICK s, t : s = Number("uint32", b) /\ t = Number("uint16", o)
    OBVIOUS
  <2>4. s \in Seq(Byte) /\ Len(s) = 4 /\ t \in Seq(Byte) /\ Len(t) = 2
    BY <2>2, <2>3, NumberBytes32, NumberBytes16
  <2>5. Encoded(x) = s \o t
    BY <2>1, <2>3, <1>5 DEF Encoded
  <2>6. Len(Encoded(x)) = 6 /\ \A i \in 1..6 : Encoded(x)[i] = IF i <= 4 THEN s[i] ELSE t[i - 4]
    <3>1. /\ Len(s \o t) = Len(s) + Len(t)
          /\ \A i \in 1 .. Len(s) + Len(t) : (s \o t)[i] = IF i <= Len(s) THEN s[i] ELSE t[i - Len(s)]
      BY <2>4, ConcatProperties
    <3> QED BY <3>1, <2>4, <2>5
  <2>7. SubSeq(bytes, 0 + 1, 0 + Len(s)) = s
    <3>1. 0 + Len(s) <= Len(bytes) /\ \A i \in 1..Len(s) : bytes[0 + i] = s[i]
      BY <2>4, <2>6, <1>2
    <3> QED BY <3>1, <2>4, SubSeqIs
  <2>8. SubSeq(bytes, 4 + 1, 4 + Len(t)) = t
    <3>1. 4 + Len(t) <= Len(bytes) /\ \A i \in 1..Len(t) : bytes[4 + i] = t[i]
      BY <2>4, <2>6, <1>2
    <3> QED BY <3>1, <2>4, SubSeqIs
  <2>9. SubSeq(bytes, 1, 4) = s /\ SubSeq(bytes, 5, 6) = t
    BY <2>4, <2>7, <2>8
  <2>10. ToNumber("uint32", s) = b /\ ToNumber("uint16", t) = o
    BY <2>2, <2>3, Widths, NumberReadsBack
  <2>11. Decoded(x.type, bytes) = Normalized(x.v)
    BY <2>2, <2>9, <2>10, <1>5 DEF Decoded
  <2>12. Meant(x).v = Normalized(x.v)
    BY <1>5 DEF Meant, IsValue
  <2> QED BY <2>11, <2>12, <2>6, <1>5 DEF serializedsize
<1>6. CASE x.type \notin {"bool", "string", "locator"}
  <2>1. x.type \in DOMAIN Width
    BY <1>1, <1>6 DEF Types
  <2>2. x.v \in Int /\ ToNumber(x.type, Number(x.type, x.v)) = x.v
    BY <1>1, <2>1, NumberReadsBack
  <2>3. PICK s : s = Number(x.type, x.v)
    OBVIOUS
  <2>4. s \in Seq(Byte) /\ Len(s) = Width[x.type]
    BY <2>1, <2>2, <2>3, NumberBytes
  <2>5. Encoded(x) = s
    BY <2>3, <1>6 DEF Encoded
  <2>6. SubSeq(bytes, 0 + 1, 0 + Len(s)) = s
    <3>1. 0 + Len(s) <= Len(bytes) /\ \A i \in 1..Len(s) : bytes[0 + i] = s[i]
      BY <2>4, <2>5, <1>2
    <3> QED BY <3>1, <2>4, SubSeqIs
  <2>7. 0 + 1 = 1 /\ 0 + Len(s) = Width[x.type]
    BY <2>4
  <2>8. Decoded(x.type, bytes) = ToNumber(x.type, SubSeq(bytes, 1, Width[x.type]))
    BY <1>6 DEF Decoded
  <2>9. Decoded(x.type, bytes) = x.v
    BY <2>2, <2>3, <2>6, <2>7, <2>8
  <2> QED BY <2>9, <1>2, <1>6 DEF Meant
<1> QED BY <1>3, <1>4, <1>5, <1>6

(***************************************************************************)
(* What a chain of << makes of values.                                      *)
(***************************************************************************)
\* c puts the sequences in ss one after the other.
Joins(c, S, ss) ==
  /\ c \in [0..Len(ss) -> Seq(S)]
  /\ c[0] = <<>>
  /\ \A i \in 1..Len(ss) : c[i] = c[i - 1] \o ss[i]

\* FlattenSeq() does.
LEMMA FlattenJoins ==
  ASSUME NEW S, NEW ss \in Seq(Seq(S))
  PROVE  \E c : Joins(c, S, ss) /\ FlattenSeq(ss) = c[Len(ss)]
<1> DEFINE N == Len(ss)
<1>0. N \in Nat /\ (\A i \in 1..N : ss[i] \in Seq(S)) /\ <<>> \in Seq(S)
  OBVIOUS
<1> HIDE DEF N
<1>1. PICK g : g = [i \in Nat |-> [q \in Seq(S) |-> IF i \in 1..N THEN q \o ss[i] ELSE <<>>]]
  OBVIOUS
<1>2. ASSUME NEW i \in Nat, NEW q \in Seq(S) PROVE g[i][q] \in Seq(S)
  <2>1. g[i][q] = IF i \in 1..N THEN q \o ss[i] ELSE <<>>
    BY <1>1
  <2>2. i \in 1..N => q \o ss[i] \in Seq(S)
    BY <1>0, ConcatProperties
  <2> QED BY <2>1, <2>2, <1>0
<1>3. Leads(Seq(S), <<>>, g)
  BY <1>0, <1>2 DEF Leads
<1>4. PICK c : Steps(c, Seq(S), <<>>, g, N)
  BY <1>0, <1>3, StepsExist
<1>5. c \in [0..N -> Seq(S)] /\ c[0] = <<>> /\ \A i \in 1..N : c[i] = g[i][c[i - 1]]
  BY <1>4 DEF Steps
<1>6. ASSUME NEW i \in 1..N PROVE c[i] = c[i - 1] \o ss[i]
  <2>1. i \in Nat /\ c[i - 1] \in Seq(S) /\ c[i] = g[i][c[i - 1]]
    BY <1>0, <1>5
  <2> QED BY <2>1, <1>1
<1>7. CASE N = 0
  <2>1. FlattenSeq(ss) = ss
    BY <1>7 DEF FlattenSeq, N
  <2>2. ss = <<>>
    BY <1>7 DEF N
  <2> QED BY <2>1, <2>2, <1>5, <1>6, <1>7 DEF Joins, N
<1>8. CASE N # 0
  <2>1. c[1] = ss[1]
    <3>1. 1 \in 1..N
      BY <1>0, <1>8
    <3>2. c[1] = c[1 - 1] \o ss[1]
      BY <3>1, <1>6
    <3>3. c[1 - 1] = <<>>
      BY <1>5
    <3>4. <<>> \o ss[1] = ss[1]
      BY <3>1, <1>0, ConcatEmptySeq
    <3> QED BY <3>2, <3>3, <3>4
  <2>2. PICK e : e = [i \in 1..N |-> c[i]]
    OBVIOUS
  <2>3. \A i \in 1..N : e[i] = IF i = 1 THEN ss[i] ELSE e[i - 1] \o ss[i]
    <3>1. \A i \in 1..N : i # 1 => i - 1 \in 1..N
      BY <1>0
    <3> QED BY <3>1, <2>1, <2>2, <1>6
  <2>4. e = [i \in 1..N |-> IF i = 1 THEN ss[i] ELSE e[i - 1] \o ss[i]]
    BY <2>2, <2>3
  <2> DEFINE h == CHOOSE h : h = [i \in 1..N |-> IF i = 1 THEN ss[i] ELSE h[i - 1] \o ss[i]]
  <2>5. h = [i \in 1..N |-> IF i = 1 THEN ss[i] ELSE h[i - 1] \o ss[i]]
    <3>1. \E d : d = [i \in 1..N |-> IF i = 1 THEN ss[i] ELSE d[i - 1] \o ss[i]]
      BY <2>4
    <3> QED BY <3>1, Zenon
  <2>6. FlattenSeq(ss) = h[N]
    BY <1>8, Zenon DEF FlattenSeq, N
  <2> HIDE DEF h
  <2> DEFINE U == {i \in Nat : i + 1 <= N => h[i + 1] = c[i + 1]}
  <2>7. 0 \in U
    <3>1. 1 \in 1..N
      BY <1>0, <1>8
    <3> QED BY <3>1, <2>1, <2>5
  <2>8. ASSUME NEW i \in Nat, i \in U PROVE i + 1 \in U
    <3>1. SUFFICES ASSUME (i + 1) + 1 <= N PROVE h[(i + 1) + 1] = c[(i + 1) + 1]
      OBVIOUS
    <3>2. PICK j \in Nat : j = i + 1
      OBVIOUS
    <3>3. j + 1 \in 1..N /\ j + 1 # 1 /\ (j + 1) - 1 = j /\ h[j] = c[j]
      BY <2>8, <3>1, <3>2, <1>0
    <3>4. h[j + 1] = h[j] \o ss[j + 1]
      <4>1. \A k \in 1..N : k # 1 => h[k] = h[k - 1] \o ss[k]
        BY <2>5
      <4> QED BY <4>1, <3>3
    <3>5. c[j + 1] = c[j] \o ss[j + 1]
      <4>1. \A k \in 1..N : c[k] = c[k - 1] \o ss[k]
        BY <1>6
      <4> QED BY <4>1, <3>3
    <3> QED BY <3>2, <3>3, <3>4, <3>5
  <2>9. Nat \subseteq U
    <3> HIDE DEF U
    <3> QED BY <2>7, <2>8, NatSet
  <2>10. h[N] = c[N]
    <3>1. N - 1 \in Nat /\ (N - 1) + 1 = N
      BY <1>0, <1>8
    <3>2. N - 1 \in U
      BY <3>1, <2>9
    <3> QED BY <3>1, <3>2
  <2> QED BY <2>6, <2>10, <1>5, <1>6 DEF Joins, N
<1> QED BY <1>7, <1>8

\* One more at the end.
LEMMA FlattenAppend ==
  ASSUME NEW S, NEW ss \in Seq(Seq(S)), NEW s \in Seq(S)
  PROVE  /\ FlattenSeq(ss) \in Seq(S)
         /\ FlattenSeq(Append(ss, s)) = FlattenSeq(ss) \o s
<1>1. PICK tt : tt = Append(ss, s)
  OBVIOUS
<1>2. PICK n \in Nat : n = Len(ss)
  OBVIOUS
<1>3. tt \in Seq(Seq(S)) /\ Len(tt) = n + 1 /\ (\A i \in 1..n : tt[i] = ss[i]) /\ tt[n + 1] = s
  BY <1>1, <1>2, AppendProperties
<1>4. PICK c : Joins(c, S, ss) /\ FlattenSeq(ss) = c[Len(ss)]
  BY FlattenJoins
<1>5. PICK d : Joins(d, S, tt) /\ FlattenSeq(tt) = d[Len(tt)]
  BY <1>3, FlattenJoins
<1>6. /\ c \in [0..n -> Seq(S)] /\ c[0] = <<>>
      /\ \A i \in 1..n : c[i] = c[i - 1] \o ss[i]
  BY <1>2, <1>4 DEF Joins
<1>7. /\ d[0] = <<>>
      /\ \A i \in 1 .. n + 1 : d[i] = d[i - 1] \o tt[i]
  BY <1>3, <1>5 DEF Joins
<1> DEFINE U == {i \in Nat : i <= n => c[i] = d[i]}
<1>8. 0 \in U
  BY <1>6, <1>7
<1>9. ASSUME NEW i \in Nat, i \in U PROVE i + 1 \in U
  <2>1. SUFFICES ASSUME i + 1 <= n PROVE c[i + 1] = d[i + 1]
    OBVIOUS
  <2>2. i + 1 \in 1..n /\ i + 1 \in 1 .. n + 1 /\ (i + 1) - 1 = i /\ c[i] = d[i] /\ tt[i + 1] = ss[i + 1]
    BY <1>9, <1>3, <2>1
  <2>3. c[i + 1] = c[i] \o ss[i + 1]
    BY <2>2, <1>6
  <2>4. d[i + 1] = d[i] \o tt[i + 1]
    BY <2>2, <1>7
  <2> QED BY <2>2, <2>3, <2>4
<1>10. Nat \subseteq U
  <2> HIDE DEF U
  <2> QED BY <1>8, <1>9, NatSet
<1>11. d[n + 1] = c[n] \o s
  <2>1. n + 1 \in 1 .. n + 1 /\ (n + 1) - 1 = n /\ c[n] = d[n]
    BY <1>10
  <2> QED BY <2>1, <1>3, <1>7
<1>12. c[n] \in Seq(S)
  BY <1>6
<1> QED BY <1>1, <1>2, <1>3, <1>4, <1>5, <1>11, <1>12

\* Only values that can be packed.
Packable(V) == \A x \in V : IsValue(x)

\* The encodings of values.
LEMMA EncodedEach ==
  ASSUME NEW V, Packable(V), NEW values \in Seq(V)
  PROVE  [i \in 1..Len(values) |-> Encoded(values[i])] \in Seq(Seq(Byte))
<1>1. \A i \in 1..Len(values) : Encoded(values[i]) \in Seq(Byte)
  <2>1. ASSUME NEW i \in 1..Len(values) PROVE Encoded(values[i]) \in Seq(Byte)
    <3>1. values[i] \in V
      OBVIOUS
    <3> QED BY <3>1, EncodedBytes DEF Packable
  <2> QED BY <2>1
<1>2. [i \in 1..Len(values) |-> Encoded(values[i])] \in [1..Len(values) -> Seq(Byte)]
  BY <1>1
<1>3. Len(values) \in Nat
  OBVIOUS
<1> QED BY <1>2, <1>3

\* A chain of none, and a chain of one more.
LEMMA BytesAppend ==
  ASSUME NEW V, Packable(V), NEW values \in Seq(V), NEW x \in V
  PROVE  /\ Bytes(values) \in Seq(Byte)
         /\ Bytes(Append(values, x)) = Bytes(values) \o Encoded(x)
         /\ Bytes(<<>>) = <<>>
<1>1. PICK ss : ss = [i \in 1..Len(values) |-> Encoded(values[i])]
  OBVIOUS
<1>2. ss \in Seq(Seq(Byte))
  BY <1>1, EncodedEach
<1>3. PICK v : v = Append(values, x)
  OBVIOUS
<1>4. PICK n \in Nat : n = Len(values)
  OBVIOUS
<1>5. v \in Seq(V) /\ Len(v) = n + 1 /\ (\A i \in 1..n : v[i] = values[i]) /\ v[n + 1] = x
  BY <1>3, <1>4, AppendProperties
<1>6. PICK tt : tt = [i \in 1..Len(v) |-> Encoded(v[i])]
  OBVIOUS
<1>7. tt \in Seq(Seq(Byte))
  BY <1>5, <1>6, EncodedEach
<1>8. Encoded(x) \in Seq(Byte)
  BY EncodedBytes DEF Packable
<1>9. PICK e : e = Encoded(x)
  OBVIOUS
<1>10. PICK uu : uu = Append(ss, e)
  OBVIOUS
<1>11. Len(ss) = n /\ Len(tt) = n + 1
  BY <1>1, <1>2, <1>4, <1>5, <1>6, <1>7
<1>12. uu \in Seq(Seq(Byte)) /\ Len(uu) = n + 1 /\ (\A i \in 1..n : uu[i] = ss[i]) /\ uu[n + 1] = e
  <2>1. /\ Append(ss, e) \in Seq(Seq(Byte)) /\ Len(Append(ss, e)) = Len(ss) + 1
        /\ \A i \in 1..Len(ss) : Append(ss, e)[i] = ss[i]
        /\ Append(ss, e)[Len(ss) + 1] = e
    BY <1>2, <1>8, <1>9, AppendProperties
  <2> QED BY <2>1, <1>10, <1>11
<1>13. \A i \in 1 .. n + 1 : tt[i] = uu[i]
  <2>1. ASSUME NEW i \in 1 .. n + 1 PROVE tt[i] = uu[i]
    <3>1. tt[i] = Encoded(v[i])
      BY <1>5, <1>6
    <3>2. CASE i = n + 1
      BY <3>1, <3>2, <1>5, <1>9, <1>12
    <3>3. CASE i # n + 1
      <4>1. i \in 1..n
        BY <3>3
      <4>2. ss[i] = Encoded(values[i])
        BY <4>1, <1>1, <1>4
      <4> QED BY <3>1, <4>1, <4>2, <1>5, <1>12
    <3> QED BY <3>2, <3>3
  <2> QED BY <2>1
<1>14. tt = uu
  BY <1>7, <1>11, <1>12, <1>13, SeqEqual
<1>15. FlattenSeq(ss) \in Seq(Byte) /\ FlattenSeq(uu) = FlattenSeq(ss) \o e
  BY <1>2, <1>8, <1>9, <1>10, FlattenAppend
<1>16. Bytes(values) = FlattenSeq(ss) /\ Bytes(v) = FlattenSeq(tt)
  BY <1>1, <1>6 DEF Bytes
<1>17. Bytes(<<>>) = <<>>
  <2>1. [i \in 1..Len(<<>>) |-> Encoded(<<>>[i])] = <<>>
    OBVIOUS
  <2> QED BY <2>1 DEF Bytes, FlattenSeq
<1> QED BY <1>3, <1>9, <1>14, <1>15, <1>16, <1>17

\* The bytes of the first m values.
Written(values) == [m \in 0..Len(values) |-> Bytes(SubSeq(values, 1, m))]

\* Each has the encoding of one value more than the one before.
LEMMA PrefixSteps ==
  ASSUME NEW V, Packable(V), NEW values \in Seq(V)
  PROVE  /\ Written(values) \in [0..Len(values) -> Seq(Byte)]
         /\ Written(values)[0] = <<>>
         /\ Written(values)[Len(values)] = Bytes(values)
         /\ \A m \in 1..Len(values) :
              /\ Encoded(values[m]) \in Seq(Byte)
              /\ Written(values)[m] = Written(values)[m - 1] \o Encoded(values[m])
<1>0. PICK N \in Nat : N = Len(values)
  OBVIOUS
<1>1. PICK b : b = Written(values)
  OBVIOUS
<1>2. \A m \in 0..N : b[m] = Bytes(SubSeq(values, 1, m))
  BY <1>0, <1>1 DEF Written
<1>3. ASSUME NEW m \in 0..N
      PROVE  SubSeq(values, 1, m) \in Seq(V) /\ Len(SubSeq(values, 1, m)) = m
  <2>1. \A i \in 1..m : values[i] \in V
    <3>1. \A i \in 1..Len(values) : values[i] \in V
      OBVIOUS
    <3> QED BY <3>1, <1>0
  <2>2. Len(SubSeq(values, 1, m)) = (IF 1 <= m THEN m - 1 + 1 ELSE 0) /\ SubSeq(values, 1, m) \in Seq(V)
    BY <2>1, SubSeqProperties
  <2> QED BY <2>2
<1>4. b[0] = <<>>
  <2>1. SubSeq(values, 1, 0) = <<>>
    BY SubSeqEmpty
  <2>2. [i \in 1..Len(<<>>) |-> Encoded(<<>>[i])] = <<>>
    OBVIOUS
  <2>3. Bytes(<<>>) = <<>>
    BY <2>2 DEF Bytes, FlattenSeq
  <2>4. 0 \in 0..N
    OBVIOUS
  <2> QED BY <2>1, <2>3, <2>4, <1>2
<1>5. b[N] = Bytes(values)
  <2>1. SubSeq(values, 1, Len(values)) = values
    BY SubSeqFull
  <2>2. N \in 0..N
    OBVIOUS
  <2> QED BY <2>1, <2>2, <1>0, <1>2
<1>6. ASSUME NEW m \in 1..N
      PROVE  /\ b[m - 1] \in Seq(Byte) /\ Encoded(values[m]) \in Seq(Byte)
             /\ b[m] = b[m - 1] \o Encoded(values[m])
  <2>1. m - 1 \in 0..N /\ m \in 0..N /\ values[m] \in V /\ m \in 1..Len(values)
    BY <1>0
  <2>2. PICK s : s = SubSeq(values, 1, m - 1)
    OBVIOUS
  <2>3. s \in Seq(V)
    BY <2>1, <2>2, <1>3
  <2>4. SubSeq(values, 1, m) = s \o <<values[m]>>
    <3>1. 1 \in 1..Len(values) /\ m \in 1..Len(values)
      BY <2>1
    <3> QED BY <3>1, <2>2, SubSeqRecursiveSecond
  <2>5. Append(s, values[m]) = s \o <<values[m]>>
    BY <2>1, <2>3, AppendIsConcat
  <2>6. Bytes(s) \in Seq(Byte) /\ Bytes(Append(s, values[m])) = Bytes(s) \o Encoded(values[m])
    BY <2>1, <2>3, BytesAppend
  <2>7. Encoded(values[m]) \in Seq(Byte)
    BY <2>1, EncodedBytes DEF Packable
  <2> QED BY <2>1, <2>2, <2>4, <2>5, <2>6, <2>7, <1>2
<1>7. ASSUME NEW m \in 0..N PROVE b[m] \in Seq(Byte)
  <2>1. CASE m = 0
    BY <2>1, <1>4
  <2>2. CASE m # 0
    <3>1. m \in 1..N
      BY <2>2
    <3> QED BY <3>1, <1>6, ConcatProperties
  <2> QED BY <2>1, <2>2
<1>8. b \in [0..N -> Seq(Byte)]
  BY <1>0, <1>1, <1>7 DEF Written
<1> QED BY <1>0, <1>1, <1>4, <1>5, <1>6, <1>8

\* Where the encoding of the n-th value ends.
Upto(values, n) == Len(Bytes(SubSeq(values, 1, n)))

\* The bytes of the n-th value follow those of the values before.
LEMMA Places ==
  ASSUME NEW V, Packable(V), NEW values \in Seq(V)
  PROVE  /\ Bytes(values) \in Seq(Byte)
         /\ Upto(values, 0) = 0
         /\ Upto(values, Len(values)) = Len(Bytes(values))
         /\ \A n \in 0..Len(values) : Upto(values, n) \in Nat /\ Upto(values, n) <= Len(Bytes(values))
         /\ \A n \in 1..Len(values) :
              /\ Upto(values, n) = Upto(values, n - 1) + Len(Encoded(values[n]))
              /\ \A j \in 1..Len(Encoded(values[n])) :
                   Bytes(values)[Upto(values, n - 1) + j] = Encoded(values[n])[j]
<1>0. PICK N \in Nat : N = Len(values)
  OBVIOUS
<1>1. PICK b : b = Written(values)
  OBVIOUS
<1>2. /\ b \in [0..N -> Seq(Byte)] /\ b[0] = <<>> /\ b[N] = Bytes(values)
      /\ \A m \in 1..N : Encoded(values[m]) \in Seq(Byte) /\ b[m] = b[m - 1] \o Encoded(values[m])
  BY <1>0, <1>1, PrefixSteps
<1>3. \A m \in 0..N : Upto(values, m) = Len(b[m]) /\ Len(b[m]) \in Nat
  <2>1. \A m \in 0..N : b[m] = Bytes(SubSeq(values, 1, m))
    BY <1>0, <1>1 DEF Written
  <2> QED BY <2>1, <1>2 DEF Upto
<1>4. ASSUME NEW m \in 1..N
      PROVE  /\ m - 1 \in 0..N /\ m \in 0..N
             /\ Len(b[m]) = Len(b[m - 1]) + Len(Encoded(values[m]))
             /\ \A i \in 1..Len(b[m]) : b[m][i] = IF i <= Len(b[m - 1]) THEN b[m - 1][i]
                                                  ELSE Encoded(values[m])[i - Len(b[m - 1])]
  <2>1. m - 1 \in 0..N /\ m \in 0..N
    OBVIOUS
  <2>2. PICK s, e : s = b[m - 1] /\ e = Encoded(values[m])
    OBVIOUS
  <2>3. s \in Seq(Byte) /\ e \in Seq(Byte) /\ b[m] = s \o e
    BY <2>1, <2>2, <1>2
  <2>4. /\ Len(s \o e) = Len(s) + Len(e)
        /\ \A i \in 1 .. Len(s) + Len(e) : (s \o e)[i] = IF i <= Len(s) THEN s[i] ELSE e[i - Len(s)]
    BY <2>3, ConcatProperties
  <2>5. PICK t : t = b[m]
    OBVIOUS
  <2>6. /\ Len(t) = Len(s) + Len(e)
        /\ \A i \in 1..Len(t) : t[i] = IF i <= Len(s) THEN s[i] ELSE e[i - Len(s)]
    BY <2>3, <2>4, <2>5
  <2> QED BY <2>1, <2>2, <2>5, <2>6
<1>5. ASSUME NEW m \in 0..N
      PROVE  /\ Len(b[m]) <= Len(b[N])
             /\ \A i \in 1..Len(b[m]) : b[N][i] = b[m][i]
  <2> DEFINE U == {k \in Nat : m + k <= N =>
                     /\ Len(b[m]) <= Len(b[m + k])
                     /\ \A i \in 1..Len(b[m]) : b[m + k][i] = b[m][i]}
  <2>1. 0 \in U
    <3>1. m + 0 = m /\ Len(b[m]) <= Len(b[m])
      BY <1>3
    <3> QED BY <3>1
  <2>2. ASSUME NEW k \in Nat, k \in U PROVE k + 1 \in U
    <3>1. SUFFICES ASSUME m + (k + 1) <= N
                   PROVE  /\ Len(b[m]) <= Len(b[m + (k + 1)])
                          /\ \A i \in 1..Len(b[m]) : b[m + (k + 1)][i] = b[m][i]
      OBVIOUS
    <3>2. PICK j \in 1..N : j = m + (k + 1)
      BY <3>1
    <3>3. j - 1 = m + k /\ j - 1 \in 0..N /\ j \in 0..N
      BY <3>2
    <3>4. Len(b[m]) <= Len(b[j - 1]) /\ \A i \in 1..Len(b[m]) : b[j - 1][i] = b[m][i]
      BY <2>2, <3>3, <3>2
    <3>5. /\ Len(b[j]) = Len(b[j - 1]) + Len(Encoded(values[j]))
          /\ \A i \in 1..Len(b[j]) : i <= Len(b[j - 1]) => b[j][i] = b[j - 1][i]
      BY <1>4
    <3>6. /\ Len(b[m]) \in Nat /\ Len(b[j - 1]) \in Nat /\ Len(b[j]) \in Nat
          /\ Len(Encoded(values[j])) \in Nat
      BY <3>3, <1>2, <1>3
    <3>7. Len(b[m]) <= Len(b[j]) /\ \A i \in 1..Len(b[m]) : b[j][i] = b[m][i]
      <4>1. Len(b[m]) <= Len(b[j]) /\ \A i \in 1..Len(b[m]) : i \in 1..Len(b[j]) /\ i <= Len(b[j - 1])
        <5>1. PICK x \in Nat : x = Len(b[m])
          BY <3>6
        <5>2. PICK y \in Nat : y = Len(b[j - 1])
          BY <3>6
        <5>3. PICK z \in Nat : z = Len(b[j])
          BY <3>6
        <5>4. x <= y /\ y <= z
          <6>1. Len(b[m]) <= Len(b[j - 1])
            BY <3>4
          <6>2. PICK e \in Nat : e = Len(Encoded(values[j]))
            BY <3>6
          <6>3. z = y + e
            BY <3>5, <5>2, <5>3, <6>2
          <6> QED BY <6>1, <6>3, <5>1, <5>2
        <5> QED BY <5>1, <5>2, <5>3, <5>4
      <4> QED BY <4>1, <3>4, <3>5
    <3> QED BY <3>2, <3>7
  <2>3. Nat \subseteq U
    <3> HIDE DEF U
    <3> QED BY <2>1, <2>2, NatSet
  <2>4. N - m \in Nat /\ m + (N - m) = N
    OBVIOUS
  <2>5. N - m \in U
    BY <2>3, <2>4
  <2> QED BY <2>4, <2>5
<1>6. ASSUME NEW n \in 1..N
      PROVE  /\ Upto(values, n) = Upto(values, n - 1) + Len(Encoded(values[n]))
             /\ \A j \in 1..Len(Encoded(values[n])) :
                  Bytes(values)[Upto(values, n - 1) + j] = Encoded(values[n])[j]
  <2>1. PICK p \in Nat : p = Len(b[n - 1]) /\ p = Upto(values, n - 1)
    BY <1>3, <1>4
  <2>2. PICK e : e = Encoded(values[n])
    OBVIOUS
  <2>3. e \in Seq(Byte) /\ Len(e) \in Nat
    <3>1. \A m \in 1..N : Encoded(values[m]) \in Seq(Byte)
      BY <1>2
    <3>2. e \in Seq(Byte)
      BY <2>2, <3>1
    <3> QED BY <3>2
  <2>4. Len(b[n]) = p + Len(e) /\ Upto(values, n) = Len(b[n])
    BY <2>1, <2>2, <1>3, <1>4
  <2>5. ASSUME NEW j \in 1..Len(e) PROVE b[N][p + j] = e[j]
    <3>1. p + j \in 1..Len(b[n]) /\ ~ (p + j <= p) /\ (p + j) - p = j
      BY <2>3, <2>4
    <3>2. b[n][p + j] = e[j]
      BY <3>1, <2>1, <2>2, <1>4
    <3>3. b[N][p + j] = b[n][p + j]
      BY <3>1, <1>4, <1>5
    <3> QED BY <3>2, <3>3
  <2> QED BY <2>1, <2>2, <2>4, <2>5, <1>2
<1>7. Upto(values, 0) = 0 /\ Upto(values, N) = Len(Bytes(values)) /\ Bytes(values) \in Seq(Byte)
  BY <1>2, <1>3
<1>8. \A n \in 0..N : Upto(values, n) \in Nat /\ Upto(values, n) <= Len(Bytes(values))
  BY <1>2, <1>3, <1>5
<1> QED BY <1>0, <1>6, <1>7, <1>8

\* Another value leaves the places of the others.
LEMMA UptoAppend ==
  ASSUME NEW V, Packable(V), NEW values \in Seq(V), NEW x \in V, NEW n \in 0..Len(values)
  PROVE  Upto(Append(values, x), n) = Upto(values, n)
<1>1. \A i \in 1..n : values[i] \in V /\ Append(values, x)[i] = values[i]
  <2>1. \A i \in 1..Len(values) : values[i] \in V /\ Append(values, x)[i] = values[i]
    BY AppendProperties
  <2>2. \A i \in 1..n : i \in 1..Len(values)
    OBVIOUS
  <2> QED BY <2>1, <2>2
<1>2. PICK s, t : s = SubSeq(values, 1, n) /\ t = SubSeq(Append(values, x), 1, n)
  OBVIOUS
<1>3. s \in Seq(V) /\ Len(s) = (IF 1 <= n THEN n - 1 + 1 ELSE 0) /\ \A i \in 1 .. n - 1 + 1 : s[i] = values[1 + i - 1]
  BY <1>1, <1>2, SubSeqProperties
<1>4. t \in Seq(V) /\ Len(t) = (IF 1 <= n THEN n - 1 + 1 ELSE 0) /\ \A i \in 1 .. n - 1 + 1 : t[i] = Append(values, x)[1 + i - 1]
  BY <1>1, <1>2, SubSeqProperties
<1>5. \A i \in 1..n : 1 + i - 1 = i /\ i \in 1 .. n - 1 + 1
  OBVIOUS
<1>6. Len(s) = n /\ Len(t) = n /\ \A i \in 1..n : s[i] = t[i]
  BY <1>1, <1>3, <1>4, <1>5
<1>7. s = t
  BY <1>3, <1>4, <1>6, SeqEqual
<1> QED BY <1>2, <1>7 DEF Upto

(***************************************************************************)
(* The invariant of a packer.                                               *)
(***************************************************************************)
\* What may be read.
Readable ==
  {Nothing} \cup [type : Types, v : BOOLEAN \cup Seq(Byte) \cup Int \cup [block : Int, offset : Int]]

\* The buffer holds the bytes of the packed values, as far as they go.
Contents ==
  \A i \in 1..Len(Bytes(packed)) : i <= length => buffer[i] = Bytes(packed)[i]

\* Nothing is lost between what was packed and what is counted.
Packing == ~ loaded => dst = length /\ length = Len(Bytes(packed))

\* Without an error, reading stands at the end of what was read.
Reading ==
  ~ error => /\ Len(got) <= Len(packed)
             /\ \A i \in 1..Len(got) : got[i] = Meant(packed[i])
             /\ src = EndOf(Len(got))
             /\ src + src_avail = length

Histories == packed \in Seq(Values) /\ got \in Seq(Readable)

PackerInv == TypeOK /\ Histories /\ Contents /\ Packing /\ Reading

\* The values of users can be packed.
LEMMA ValuesPackable == Packable(Values) /\ Texts \subseteq Seq(Byte)
BY ValuesAssumption DEF ValuesAssumption, Packable

\* The buffer is a sequence of bytes.
LEMMA BufferSeq ==
  ASSUME TypeOK
  PROVE  /\ SIZE \in Nat /\ buffer \in Seq(Byte) /\ Len(buffer) = SIZE
         /\ dst \in Nat /\ dst_avail \in Nat /\ src \in Nat /\ src_avail \in Nat /\ length \in Nat
         /\ length <= SIZE /\ src + src_avail <= length /\ length + dst_avail = SIZE
<1>1. SIZE \in Nat
  BY WidthsAssumption DEF WidthsAssumption
<1> QED BY <1>1 DEF TypeOK

\* What is left to read.
LEMMA RestBytes ==
  ASSUME TypeOK
  PROVE  /\ Rest \in Seq(Byte) /\ Len(Rest) = SIZE - src
         /\ \A i \in 1 .. SIZE - src : Rest[i] = buffer[src + i]
<1>1. /\ SIZE \in Nat /\ buffer \in Seq(Byte) /\ Len(buffer) = SIZE /\ src \in Nat /\ src <= SIZE
  BY BufferSeq
<1>2. /\ SubSeq(buffer, src + 1, SIZE) \in Seq(Byte)
      /\ Len(SubSeq(buffer, src + 1, SIZE)) = IF src <= SIZE THEN SIZE - src ELSE 0
      /\ \A i \in 1 .. SIZE - src : SubSeq(buffer, src + 1, SIZE)[i] = buffer[src + i]
  BY <1>1, SubSeqBytes
<1> QED BY <1>1, <1>2 DEF Rest

\* The bytes of a length, if they are there.
LEMMA TextLengthRest ==
  ASSUME TypeOK, src_avail >= 4
  PROVE  /\ TextLength = ToNumber("uint32", SubSeq(Rest, 1, 4))
         /\ TextLength \in Nat
<1>1. /\ SIZE \in Nat /\ buffer \in Seq(Byte) /\ Len(buffer) = SIZE /\ src \in Nat /\ src + 4 <= SIZE
  BY BufferSeq
<1>2. PICK s : s = SubSeq(buffer, src + 1, src + 4)
  OBVIOUS
<1>3. s \in Seq(Byte) /\ Len(s) = 4 /\ \A i \in 1..4 : s[i] = buffer[src + i]
  <2>1. /\ s \in Seq(Byte) /\ Len(s) = IF src <= src + 4 THEN (src + 4) - src ELSE 0
        /\ \A i \in 1 .. (src + 4) - src : s[i] = buffer[src + i]
    BY <1>1, <1>2, SubSeqBytes
  <2> QED BY <2>1, <1>1
<1>4. SubSeq(Rest, 0 + 1, 0 + Len(s)) = s
  <2>1. Rest \in Seq(Byte) /\ Len(Rest) = SIZE - src /\ \A i \in 1 .. SIZE - src : Rest[i] = buffer[src + i]
    BY RestBytes
  <2>2. \A i \in 1..4 : Rest[0 + i] = s[i]
    BY <2>1, <1>1, <1>3
  <2>3. 0 + Len(s) <= Len(Rest) /\ \A i \in 1..Len(s) : Rest[0 + i] = s[i]
    BY <2>1, <2>2, <1>1, <1>3
  <2> QED BY <2>1, <2>3, <1>3, SubSeqIs
<1>5. SubSeq(Rest, 1, 4) = s
  BY <1>3, <1>4
<1>6. "uint32" \in DOMAIN Width /\ "uint32" \notin Signed
  BY Widths DEF Signed
<1>7. ToNumber("uint32", s) \in Nat
  BY <1>3, <1>6, ToNumberType
<1> QED BY <1>2, <1>5, <1>7 DEF TextLength

\* What a read that succeeds consumes is there, and it yields a value.
LEMMA ReadsWithin ==
  ASSUME TypeOK, NEW type \in Types, NEW held, type = "string" => Len(held) \in Nat,
         ~ Refuses(type, held), ~ TooLong(type)
  PROVE  /\ serializedsize(type, Decoded(type, Rest)) \in 0..src_avail
         /\ [type |-> type, v |-> Decoded(type, Rest)] \in Readable
<1> DEFINE V == BOOLEAN \cup Seq(Byte) \cup Int \cup [block : Int, offset : Int]
<1>0. \A v \in V : [type |-> type, v |-> v] \in Readable
  BY DEF Readable
<1>1. src_avail \in Nat /\ src \in Nat /\ SIZE \in Nat /\ src + src_avail <= SIZE
  BY BufferSeq
<1>2. /\ Rest \in Seq(Byte) /\ Len(Rest) = SIZE - src
  BY RestBytes
<1>3. ~ (src_avail < serializedsize(type, held))
  BY DEF Refuses
<1>4. CASE type = "bool"
  <2>1. serializedsize(type, held) = 1 /\ serializedsize(type, Decoded(type, Rest)) = 1
    BY <1>4 DEF serializedsize
  <2>2. Decoded(type, Rest) = (Rest[1] = TrueByte)
    BY <1>4 DEF Decoded
  <2>3. Decoded(type, Rest) \in BOOLEAN
    BY <2>2
  <2>4. Decoded(type, Rest) \in V
    BY <2>3
  <2> HIDE DEF V
  <2> QED BY <2>1, <2>4, <1>0, <1>1, <1>3
<1>5. CASE type = "string"
  <2>1. serializedsize(type, held) = 4 + Len(held)
    BY <1>5 DEF serializedsize
  <2>2. src_avail >= 4
    BY <2>1, <1>1, <1>3, <1>5
  <2>3. PICK n \in Nat : n = TextLength
    BY <2>2, TextLengthRest
  <2>4. n = ToNumber("uint32", SubSeq(Rest, 1, 4))
    BY <2>2, <2>3, TextLengthRest
  <2>5. 4 + n <= src_avail
    BY <2>3, <1>1, <1>5 DEF TooLong
  <2>6. Decoded(type, Rest) = SubSeq(Rest, 5, 4 + n)
    BY <2>4, <1>5 DEF Decoded
  <2>7. SubSeq(Rest, 4 + 1, 4 + n) \in Seq(Byte) /\ Len(SubSeq(Rest, 4 + 1, 4 + n)) = IF 4 <= 4 + n THEN (4 + n) - 4 ELSE 0
    <3>1. 4 \in Nat /\ 4 + n \in Int /\ 4 + n <= Len(Rest)
      BY <2>5, <1>1, <1>2
    <3> QED BY <3>1, <1>2, SubSeqBytes
  <2>8. Decoded(type, Rest) \in Seq(Byte) /\ Len(Decoded(type, Rest)) = n
    BY <2>6, <2>7
  <2>9. serializedsize(type, Decoded(type, Rest)) = 4 + n
    BY <2>8, <1>5 DEF serializedsize
  <2>10. Decoded(type, Rest) \in V
    BY <2>8
  <2> HIDE DEF V
  <2> QED BY <2>5, <2>9, <2>10, <1>0
<1>6. CASE type = "locator"
  <2>1. serializedsize(type, held) = 6 /\ serializedsize(type, Decoded(type, Rest)) = 6
    BY <1>6 DEF serializedsize
  <2>2. 6 <= Len(Rest)
    BY <2>1, <1>1, <1>2, <1>3
  <2>3. SubSeq(Rest, 0 + 1, 4) \in Seq(Byte) /\ SubSeq(Rest, 4 + 1, 6) \in Seq(Byte)
    BY <2>2, <1>2, SubSeqBytes
  <2>4. SubSeq(Rest, 1, 4) \in Seq(Byte) /\ SubSeq(Rest, 5, 6) \in Seq(Byte)
    BY <2>3
  <2>5. ToNumber("uint32", SubSeq(Rest, 1, 4)) \in Int /\ ToNumber("uint16", SubSeq(Rest, 5, 6)) \in Int
    BY <2>4, Widths, ToNumberType
  <2>6. Decoded(type, Rest) \in [block : Int, offset : Int]
    BY <2>5, <1>6 DEF Decoded
  <2>7. Decoded(type, Rest) \in V
    BY <2>6
  <2> HIDE DEF V
  <2> QED BY <2>1, <2>7, <1>0, <1>1, <1>3
<1>7. CASE type \notin {"bool", "string", "locator"}
  <2>1. type \in DOMAIN Width
    BY <1>7 DEF Types
  <2>2. Width[type] \in Nat \ {0}
    BY <2>1, Widths
  <2>3. serializedsize(type, held) = Width[type] /\ serializedsize(type, Decoded(type, Rest)) = Width[type]
    BY <1>7 DEF serializedsize
  <2>4. Width[type] <= Len(Rest)
    BY <2>2, <2>3, <1>1, <1>2, <1>3
  <2>5. SubSeq(Rest, 1, Width[type]) \in Seq(Byte)
    <3>1. SubSeq(Rest, 0 + 1, Width[type]) \in Seq(Byte)
      BY <2>2, <2>4, <1>2, SubSeqBytes
    <3>2. 0 + 1 = 1
      OBVIOUS
    <3> QED BY <3>1, <3>2
  <2>6. Decoded(type, Rest) = ToNumber(type, SubSeq(Rest, 1, Width[type]))
    BY <1>7 DEF Decoded
  <2>7. Decoded(type, Rest) \in Int
    BY <2>1, <2>5, <2>6, ToNumberType
  <2>8. Decoded(type, Rest) \in V
    BY <2>7
  <2> HIDE DEF V
  <2> QED BY <2>2, <2>3, <2>8, <1>0, <1>1, <1>3
<1> QED BY <1>4, <1>5, <1>6, <1>7

\* What the next value that was packed is read as.
LEMMA ReadsNext ==
  ASSUME PackerInv, ~ error, Len(got) < Len(packed),
         NEW x, x = packed[Len(got) + 1]
  PROVE  /\ IsValue(x) /\ Len(Encoded(x)) = serializedsize(x.type, x.v)
         /\ Len(Encoded(x)) \in Nat \ {0}
         /\ EndOf(Len(got) + 1) = src + Len(Encoded(x))
         /\ EndOf(Len(got) + 1) <= length => Begins(Rest, Encoded(x))
         /\ x.type = "string" /\ src_avail >= 4 => TextLength = Len(x.v)
<1>1. packed \in Seq(Values) /\ got \in Seq(Readable) /\ Len(got) \in Nat /\ Len(packed) \in Nat
  BY DEF PackerInv, Histories
<1>2. PICK k \in 1..Len(packed) : k = Len(got) + 1
  BY <1>1
<1>3. /\ SIZE \in Nat /\ src \in Nat /\ src_avail \in Nat /\ length \in Nat /\ length <= SIZE
      /\ src + src_avail <= length
  BY BufferSeq DEF PackerInv
<1>4. src = Upto(packed, k - 1) /\ EndOf(Len(got) + 1) = Upto(packed, k)
  BY <1>1, <1>2 DEF PackerInv, Reading, EndOf, Upto
<1>5. IsValue(x)
  <2>1. x \in Values
    BY <1>1, <1>2
  <2> QED BY <2>1, ValuesPackable DEF Packable
<1>6. PICK e : e = Encoded(x)
  OBVIOUS
<1>7. e \in Seq(Byte) /\ Len(e) = serializedsize(x.type, x.v) /\ Len(e) \in Nat \ {0}
  BY <1>5, <1>6, EncodedBytes
<1>8. PICK b : b = Bytes(packed)
  OBVIOUS
<1>9. /\ b \in Seq(Byte) /\ Upto(packed, k) <= Len(b)
      /\ Upto(packed, k) = src + Len(e)
      /\ \A j \in 1..Len(e) : b[src + j] = e[j]
  <2>1. k \in 0..Len(packed) /\ x = packed[k]
    BY <1>2
  <2>2. /\ Bytes(packed) \in Seq(Byte) /\ Upto(packed, k) <= Len(Bytes(packed))
    BY <2>1, <1>1, ValuesPackable, Places
  <2>3. /\ Upto(packed, k) = Upto(packed, k - 1) + Len(Encoded(packed[k]))
        /\ \A j \in 1..Len(Encoded(packed[k])) : Bytes(packed)[Upto(packed, k - 1) + j] = Encoded(packed[k])[j]
    BY <1>1, ValuesPackable, Places
  <2> QED BY <2>1, <2>2, <2>3, <1>4, <1>6, <1>8
<1>10. Rest \in Seq(Byte) /\ Len(Rest) = SIZE - src /\ \A i \in 1 .. SIZE - src : Rest[i] = buffer[src + i]
  BY RestBytes DEF PackerInv
<1>11. ASSUME NEW j \in 1..Len(e), src + j <= length PROVE Rest[j] = e[j]
  <2>1. src + j \in 1..Len(b) /\ j \in 1 .. SIZE - src
    BY <1>3, <1>7, <1>9, <1>11
  <2>2. buffer[src + j] = b[src + j]
    BY <2>1, <1>8, <1>11 DEF PackerInv, Contents
  <2> QED BY <2>1, <2>2, <1>9, <1>10
<1>12. ASSUME Upto(packed, k) <= length PROVE Begins(Rest, e)
  <2>1. \A j \in 1..Len(e) : src + j <= length
    BY <1>3, <1>7, <1>9, <1>12
  <2>2. Len(e) <= Len(Rest)
    BY <1>3, <1>7, <1>9, <1>10, <1>12
  <2> QED BY <2>1, <2>2, <1>11 DEF Begins
<1>13. ASSUME x.type = "string", src_avail >= 4 PROVE TextLength = Len(x.v)
  <2>1. Holds("string", x.v)
    BY <1>5, <1>13 DEF IsValue
  <2>2. x.v \in Seq(Byte) /\ Len(x.v) \in Nat
    BY <2>1, HoldsString
  <2>3. PICK s : s = Number("uint32", Len(x.v))
    OBVIOUS
  <2>4. s \in Seq(Byte) /\ Len(s) = 4
    BY <2>2, <2>3, NumberBytes32
  <2>5. e = s \o x.v
    BY <2>3, <1>6, <1>13 DEF Encoded
  <2>6. Len(e) = 4 + Len(x.v) /\ \A i \in 1..4 : i \in 1..Len(e) /\ e[i] = s[i]
    <3>1. /\ Len(s \o x.v) = Len(s) + Len(x.v)
          /\ \A i \in 1 .. Len(s) + Len(x.v) : (s \o x.v)[i] = IF i <= Len(s) THEN s[i] ELSE x.v[i - Len(s)]
      BY <2>2, <2>4, ConcatProperties
    <3>2. \A i \in 1..4 : i \in 1 .. 4 + Len(x.v) /\ i <= 4
      BY <2>2
    <3> QED BY <3>1, <3>2, <2>2, <2>4, <2>5
  <2>7. \A i \in 1..4 : Rest[i] = s[i]
    <3>1. \A i \in 1..4 : src + i <= length
      BY <1>3, <1>13
    <3> QED BY <3>1, <2>6, <1>11
  <2>8. Len(Rest) >= 4
    BY <1>3, <1>10, <1>13
  <2>9. ToNumber("uint32", SubSeq(Rest, 1, 4)) = Len(x.v)
    BY <2>1, <2>3, <2>7, <2>8, <1>10, TextLengthReadsBack
  <2> QED BY <2>9, <1>13, TextLengthRest DEF PackerInv
<1> QED BY <1>4, <1>5, <1>6, <1>7, <1>9, <1>12, <1>13

\* A new packer.
LEMMA PackerInit == Init => PackerInv
<1> SUFFICES ASSUME Init PROVE PackerInv
  OBVIOUS
<1>1. SIZE \in Nat
  BY WidthsAssumption DEF WidthsAssumption
<1>2. PICK junk \in Byte : buffer = [i \in 1..SIZE |-> junk]
  BY DEF Init
<1>3. dst = 0 /\ dst_avail = SIZE /\ src = 0 /\ src_avail = 0 /\ length = 0 /\ error = FALSE
  BY DEF Init
<1>4. TypeOK
  <2>1. buffer \in [1..SIZE -> Byte]
    BY <1>2
  <2>2. 0 \in 0..SIZE /\ SIZE \in 0..SIZE
    BY <1>1
  <2>3. {dst, dst_avail, src, src_avail, length} \subseteq 0..SIZE
    BY <2>2, <1>3
  <2>4. 0 + SIZE = SIZE /\ 0 + 0 <= 0 /\ 0 <= 0
    BY <1>1
  <2>5. length + dst_avail = SIZE /\ src + src_avail <= length /\ dst <= length
    BY <2>4, <1>3
  <2> QED BY <2>1, <2>3, <2>5, <1>3 DEF TypeOK
<1>5. packed = <<>> /\ got = <<>>
  BY DEF Init
<1>6. packed \in Seq(Values) /\ got \in Seq(Readable) /\ Len(packed) = 0 /\ Len(got) = 0
  BY <1>5
<1>7. Bytes(packed) \in Seq(Byte) /\ Upto(packed, 0) = 0 /\ Upto(packed, Len(packed)) = Len(Bytes(packed))
  BY <1>6, ValuesPackable, Places
<1>8. Len(Bytes(packed)) = 0 /\ EndOf(Len(got)) = 0
  BY <1>6, <1>7 DEF EndOf, Upto
<1> QED BY <1>3, <1>4, <1>6, <1>8 DEF PackerInv, Histories, Contents, Packing, Reading

\* One more value packed.
LEMMA PackStep ==
  ASSUME PackerInv, NEW x \in Values, ~ loaded, Pack(x)
  PROVE  PackerInv'
<1>1. /\ SIZE \in Nat /\ buffer \in Seq(Byte) /\ Len(buffer) = SIZE
      /\ dst \in Nat /\ dst_avail \in Nat /\ src \in Nat /\ src_avail \in Nat /\ length \in Nat
      /\ length <= SIZE /\ src + src_avail <= length /\ length + dst_avail = SIZE
  BY BufferSeq DEF PackerInv
<1>2. packed \in Seq(Values) /\ got \in Seq(Readable) /\ Len(got) \in Nat /\ Len(packed) \in Nat
  BY DEF PackerInv, Histories
<1>3. IsValue(x)
  BY ValuesPackable DEF Packable
<1>4. PICK e : e = Encoded(x)
  OBVIOUS
<1>5. PICK u \in Nat \ {0} : u = Len(e)
  BY <1>3, <1>4, EncodedBytes
<1>6. e \in Seq(Byte) /\ serializedsize(x.type, x.v) = u
  BY <1>3, <1>4, <1>5, EncodedBytes
<1>7. PICK b : b = Bytes(packed)
  OBVIOUS
<1>8. b \in Seq(Byte) /\ Len(b) = length /\ dst = length
  BY <1>2, <1>7, ValuesPackable, Places DEF PackerInv, Packing
<1>9. /\ dst_avail >= u
      /\ buffer' = [i \in 1..SIZE |-> IF i - dst \in 1..u THEN e[i - dst]
                                      ELSE IF i = dst + u + 1 THEN NUL ELSE buffer[i]]
      /\ dst' = dst + u /\ dst_avail' = dst_avail - u /\ length' = length + u
      /\ src_avail' = src_avail + u /\ packed' = Append(packed, x)
      /\ src' = src /\ error' = error /\ loaded' = loaded /\ got' = got
  BY <1>4, <1>5, <1>6 DEF Pack, Terminated
<1>10. TypeOK'
  <2>1. ASSUME NEW i \in 1..SIZE PROVE buffer'[i] \in Byte
    <3>1. i - dst \in 1..u => e[i - dst] \in Byte
      BY <1>5, <1>6
    <3>2. buffer[i] \in Byte /\ NUL \in Byte
      BY <1>1, ByteNat
    <3> QED BY <3>1, <3>2, <1>9
  <2>2. buffer' \in [1..SIZE -> Byte]
    BY <2>1, <1>9
  <2>3. {dst', dst_avail', src', src_avail', length'} \subseteq 0..SIZE
    BY <1>1, <1>8, <1>9
  <2>4. length' + dst_avail' = SIZE /\ src' + src_avail' <= length' /\ dst' <= length'
    BY <1>1, <1>8, <1>9
  <2>5. error' \in BOOLEAN
    BY <1>9 DEF PackerInv, TypeOK
  <2> QED BY <2>2, <2>3, <2>4, <2>5 DEF TypeOK
<1>11. /\ packed' \in Seq(Values) /\ Len(packed') = Len(packed) + 1
       /\ \A i \in 1..Len(packed) : packed'[i] = packed[i]
  BY <1>2, <1>9, AppendProperties
<1>12. Bytes(packed') = b \o e
  BY <1>2, <1>4, <1>7, <1>9, ValuesPackable, BytesAppend
<1>13. /\ Len(Bytes(packed')) = length + u
       /\ \A i \in 1 .. length + u : Bytes(packed')[i] = IF i <= length THEN b[i] ELSE e[i - length]
  <2>1. /\ Len(b \o e) = Len(b) + Len(e)
        /\ \A i \in 1 .. Len(b) + Len(e) : (b \o e)[i] = IF i <= Len(b) THEN b[i] ELSE e[i - Len(b)]
    BY <1>6, <1>8, ConcatProperties
  <2> QED BY <2>1, <1>5, <1>8, <1>12
<1>14. Contents'
  <2>1. ASSUME NEW i \in 1 .. length + u PROVE buffer'[i] = Bytes(packed')[i]
    <3>1. i \in 1..SIZE
      BY <1>1, <1>9
    <3>2. CASE i <= length
      <4>1. i - dst \notin 1..u /\ i # dst + u + 1
        BY <3>2, <1>1, <1>8
      <4>2. buffer'[i] = buffer[i]
        BY <3>1, <4>1, <1>9
      <4>3. i \in 1..Len(b)
        BY <3>2, <1>8
      <4>4. buffer[i] = b[i]
        BY <4>3, <3>2, <1>7 DEF PackerInv, Contents
      <4> QED BY <3>2, <4>2, <4>4, <1>13
    <3>3. CASE ~ (i <= length)
      <4>1. i - dst \in 1..u /\ i - dst = i - length
        BY <3>3, <1>1, <1>8
      <4> QED BY <3>1, <3>3, <4>1, <1>9, <1>13
    <3> QED BY <3>2, <3>3
  <2> QED BY <2>1, <1>13 DEF Contents
<1>15. Packing'
  BY <1>8, <1>9, <1>13 DEF Packing
<1>16. Reading'
  <2>1. SUFFICES ASSUME ~ error
        PROVE  /\ Len(got) <= Len(packed')
               /\ \A i \in 1..Len(got) : got[i] = Meant(packed'[i])
               /\ src' = Upto(packed', Len(got))
               /\ src' + src_avail' = length'
    BY <1>9 DEF Reading, EndOf, Upto
  <2>2. /\ Len(got) <= Len(packed)
        /\ \A i \in 1..Len(got) : got[i] = Meant(packed[i])
        /\ src = Upto(packed, Len(got))
        /\ src + src_avail = length
    BY <2>1 DEF PackerInv, Reading, EndOf, Upto
  <2>3. Upto(packed', Len(got)) = Upto(packed, Len(got))
    <3>1. Len(got) \in 0..Len(packed)
      BY <1>2, <2>2
    <3> QED BY <3>1, <1>2, <1>9, ValuesPackable, UptoAppend
  <2>4. \A i \in 1..Len(got) : packed'[i] = packed[i]
    BY <1>2, <1>11, <2>2
  <2>5. \A i \in 1..Len(got) : got[i] = Meant(packed'[i])
    BY <2>2, <2>4
  <2>6. Len(got) <= Len(packed')
    BY <2>2, <1>2, <1>11
  <2>7. src' = Upto(packed', Len(got))
    BY <2>2, <2>3, <1>9
  <2>8. src' + src_avail' = length'
    BY <2>2, <1>1, <1>9
  <2> QED BY <2>5, <2>6, <2>7, <2>8
<1>17. Histories'
  BY <1>2, <1>9, <1>11 DEF Histories
<1> QED BY <1>10, <1>14, <1>15, <1>16, <1>17 DEF PackerInv

\* The types that may be asked for.
LEMMA AskedTypes ==
  ASSUME PackerInv, NEW type \in Asked, NEW held \in Held(type)
  PROVE  /\ type \in Types
         /\ type = "string" => held \in Texts /\ Len(held) \in Nat
<1>1. packed \in Seq(Values) /\ Len(got) \in Nat
  BY DEF PackerInv, Histories
<1>2. ASSUME Len(got) < Len(packed) PROVE packed[Len(got) + 1].type \in Types
  <2>1. packed[Len(got) + 1] \in Values
    BY <1>1, <1>2
  <2> QED BY <2>1, ValuesPackable DEF Packable, IsValue
<1>3. {"string", "uint16", "bool"} \subseteq Types
  BY Widths DEF Types
<1>4. type \in Types
  BY <1>2, <1>3 DEF Asked
<1>5. type = "string" => held \in Texts /\ held \in Seq(Byte)
  BY ValuesPackable DEF Held
<1> QED BY <1>4, <1>5

\* What is read is appended.
LEMMA GotAppend ==
  ASSUME PackerInv, NEW y \in Readable
  PROVE  /\ Append(got, y) \in Seq(Readable) /\ Len(Append(got, y)) = Len(got) + 1
         /\ \A i \in 1..Len(got) : Append(got, y)[i] = got[i]
         /\ Append(got, y)[Len(got) + 1] = y
         /\ Append(got, y) # got
<1>1. got \in Seq(Readable)
  BY DEF PackerInv, Histories
<1> QED BY <1>1, AppendProperties

\* A read that succeeds.
LEMMA UnpackStep ==
  ASSUME PackerInv, NEW type \in Asked, NEW held \in Held(type), Unpack(type, held)
  PROVE  PackerInv'
<1>1. /\ SIZE \in Nat
      /\ dst \in Nat /\ dst_avail \in Nat /\ src \in Nat /\ src_avail \in Nat /\ length \in Nat
      /\ length <= SIZE /\ src + src_avail <= length /\ length + dst_avail = SIZE
  BY BufferSeq DEF PackerInv
<1>2. packed \in Seq(Values) /\ got \in Seq(Readable) /\ Len(got) \in Nat /\ Len(packed) \in Nat
  BY DEF PackerInv, Histories
<1>3. PICK v : v = Decoded(type, Rest)
  OBVIOUS
<1>4. PICK c : c = serializedsize(type, v)
  OBVIOUS
<1>5. /\ ~ Refuses(type, held) /\ ~ TooLong(type)
      /\ src' = src + c /\ src_avail' = src_avail - c
      /\ got' = Append(got, [type |-> type, v |-> v])
      /\ UNCHANGED <<buffer, dst, dst_avail, length, error, packed, loaded>>
  BY <1>3, <1>4 DEF Unpack
<1>6. type \in Types /\ (type = "string" => Len(held) \in Nat)
  BY AskedTypes
<1>7. c \in 0..src_avail /\ [type |-> type, v |-> v] \in Readable
  BY <1>3, <1>4, <1>5, <1>6, ReadsWithin DEF PackerInv
<1>8. /\ got' \in Seq(Readable) /\ Len(got') = Len(got) + 1
      /\ \A i \in 1..Len(got) : got'[i] = got[i]
      /\ got'[Len(got) + 1] = [type |-> type, v |-> v]
  BY <1>5, <1>7, GotAppend
<1>9. TypeOK'
  <2>1. src' = src + c /\ src_avail' = src_avail - c
    BY <1>5
  <2>2. src' \in 0..SIZE /\ src_avail' \in 0..SIZE /\ src' + src_avail' <= length
    BY <2>1, <1>1, <1>7
  <2>3. /\ buffer \in [1..SIZE -> Byte] /\ {dst, dst_avail, length} \subseteq 0..SIZE
        /\ error \in BOOLEAN /\ length + dst_avail = SIZE /\ dst <= length
    BY DEF PackerInv, TypeOK
  <2>4. /\ buffer' = buffer /\ dst' = dst /\ dst_avail' = dst_avail /\ length' = length
        /\ error' = error
    BY <1>5
  <2> QED BY <2>2, <2>3, <2>4 DEF TypeOK
<1>10. Histories' /\ Contents' /\ Packing'
  BY <1>2, <1>5, <1>8 DEF PackerInv, Histories, Contents, Packing
<1>11. Reading'
  <2>1. SUFFICES ASSUME ~ error
        PROVE  /\ Len(got') <= Len(packed)
               /\ \A i \in 1..Len(got') : got'[i] = Meant(packed[i])
               /\ src' = EndOf(Len(got'))
               /\ src' + src_avail' = length
    BY <1>5 DEF Reading, EndOf
  <2>2. /\ Len(got) <= Len(packed)
        /\ \A i \in 1..Len(got) : got[i] = Meant(packed[i])
        /\ src = EndOf(Len(got))
        /\ src + src_avail = length
    BY <2>1 DEF PackerInv, Reading
  <2>3. CASE Len(got) < Len(packed)
    <3>1. PICK x : x = packed[Len(got) + 1]
      OBVIOUS
    <3>2. type = x.type
      BY <2>3, <3>1 DEF Asked
    <3>3. PICK e : e = Encoded(x)
      OBVIOUS
    <3>4. /\ IsValue(x) /\ Len(e) = serializedsize(x.type, x.v)
          /\ Len(e) \in Nat \ {0}
          /\ EndOf(Len(got) + 1) = src + Len(e)
          /\ EndOf(Len(got) + 1) <= length => Begins(Rest, e)
          /\ x.type = "string" /\ src_avail >= 4 => TextLength = Len(x.v)
      BY <2>1, <2>3, <3>1, <3>3, ReadsNext
    <3>5. Len(e) <= src_avail
      <4>1. CASE type = "string"
        <5>1. serializedsize(type, held) = 4 + Len(held) /\ serializedsize(x.type, x.v) = 4 + Len(x.v)
          BY <4>1, <3>2 DEF serializedsize
        <5>2. src_avail >= 4
          BY <5>1, <4>1, <1>1, <1>5, <1>6 DEF Refuses
        <5>3. TextLength = Len(x.v) /\ TextLength \in Nat
          BY <5>2, <4>1, <3>2, <3>4, TextLengthRest DEF PackerInv
        <5>4. ~ (src_avail - 4 < TextLength)
          BY <4>1, <1>5 DEF TooLong
        <5> QED BY <5>1, <5>3, <5>4, <3>4, <1>1
      <4>2. CASE type # "string"
        <5>1. serializedsize(type, held) = serializedsize(x.type, x.v)
          BY <4>2, <3>2 DEF serializedsize
        <5> QED BY <5>1, <3>4, <1>1, <1>5 DEF Refuses
      <4> QED BY <4>1, <4>2
    <3>6. EndOf(Len(got) + 1) <= length
      BY <3>4, <3>5, <2>2, <1>1
    <3>7. v = Meant(x).v /\ c = Len(e)
      <4>1. Rest \in Seq(Byte)
        BY RestBytes DEF PackerInv
      <4>2. /\ Decoded(x.type, Rest) = Meant(x).v
            /\ serializedsize(x.type, Decoded(x.type, Rest)) = Len(Encoded(x))
        BY <4>1, <3>3, <3>4, <3>6, DecodesEncoded
      <4> QED BY <4>2, <3>2, <3>3, <1>3, <1>4
    <3>8. [type |-> type, v |-> v] = Meant(x)
      <4>1. x = [type |-> x.type, v |-> x.v]
        BY <3>4 DEF IsValue
      <4> QED BY <4>1, <3>2, <3>7 DEF Meant
    <3>9. src' = EndOf(Len(got'))
      BY <3>4, <3>7, <1>5, <1>8
    <3>10. \A i \in 1 .. Len(got) + 1 : got'[i] = Meant(packed[i])
      <4>1. \A i \in 1 .. Len(got) + 1 : i = Len(got) + 1 \/ i \in 1..Len(got)
        BY <1>2
      <4> QED BY <4>1, <3>1, <3>8, <2>2, <1>8
    <3>11. src' + src_avail' = length
      BY <2>2, <1>1, <1>5, <1>7
    <3> QED BY <3>9, <3>10, <3>11, <2>3, <1>2, <1>8
  <2>4. CASE ~ (Len(got) < Len(packed))
    <3>1. Len(got) = Len(packed) /\ length <= Len(Bytes(packed)) /\ type \in {"string", "uint16", "bool"}
      BY <2>2, <2>4, <1>2 DEF Asked
    <3>2. src = Len(Bytes(packed)) /\ Len(Bytes(packed)) \in Nat
      <4>1. Bytes(packed) \in Seq(Byte) /\ Upto(packed, Len(packed)) = Len(Bytes(packed))
        BY <1>2, ValuesPackable, Places
      <4> QED BY <4>1, <2>2, <3>1 DEF EndOf, Upto
    <3>3. src_avail = 0
      BY <3>1, <3>2, <2>2, <1>1
    <3>4. serializedsize(type, held) \in Nat \ {0}
      BY <3>1, <1>6, Widths DEF serializedsize
    <3>5. Refuses(type, held)
      BY <3>3, <3>4 DEF Refuses
    <3> QED BY <3>5, <1>5
  <2> QED BY <2>3, <2>4
<1> QED BY <1>9, <1>10, <1>11 DEF PackerInv

\* A read that fails: the value is not there, or a string's length says more
\* than there is.
LEMMA FailedStep ==
  ASSUME PackerInv, NEW type \in Asked, NEW held \in Held(type),
         UnpackRefused(type, held) \/ UnpackTooLong(type, held)
  PROVE  PackerInv'
<1>1. got' = Append(got, Nothing) /\ error' = TRUE /\ src' = src
  BY DEF UnpackRefused, UnpackTooLong
<1>2. UNCHANGED <<buffer, dst, dst_avail, length, packed, loaded>>
  BY DEF UnpackRefused, UnpackTooLong
<1>3. /\ SIZE \in Nat /\ src \in Nat /\ src_avail \in Nat /\ length \in Nat
      /\ length <= SIZE /\ src + src_avail <= length
  BY BufferSeq DEF PackerInv
<1>4. type = "string" => Len(held) \in Nat
  BY AskedTypes
<1>5. src_avail' = src_avail \/ (src_avail' = src_avail - 4 /\ src_avail >= 4)
  <2>1. CASE UnpackRefused(type, held)
    BY <2>1 DEF UnpackRefused
  <2>2. CASE UnpackTooLong(type, held)
    <3>1. type = "string" /\ ~ (src_avail < serializedsize(type, held)) /\ src_avail' = src_avail - 4
      BY <2>2 DEF UnpackTooLong, TooLong, Refuses
    <3>2. serializedsize(type, held) = 4 + Len(held)
      BY <3>1 DEF serializedsize
    <3> QED BY <3>1, <3>2, <1>3, <1>4
  <2> QED BY <2>1, <2>2
<1>6. src_avail' \in 0..SIZE /\ src + src_avail' <= length
  BY <1>3, <1>5
<1>7. TypeOK'
  <2>1. /\ buffer \in [1..SIZE -> Byte] /\ {dst, dst_avail, src, length} \subseteq 0..SIZE
        /\ length + dst_avail = SIZE /\ dst <= length
    BY DEF PackerInv, TypeOK
  <2> QED BY <2>1, <1>1, <1>2, <1>6 DEF TypeOK
<1>8. Nothing \in Readable
  BY DEF Readable
<1>9. got' \in Seq(Readable)
  BY <1>1, <1>8, GotAppend
<1>10. Histories' /\ Contents' /\ Packing'
  BY <1>2, <1>9 DEF PackerInv, Histories, Contents, Packing
<1>11. Reading'
  BY <1>1 DEF Reading
<1> QED BY <1>7, <1>10, <1>11 DEF PackerInv

\* Nothing was packed yet when reading starts over.
LEMMA EndOfNone ==
  ASSUME packed \in Seq(Values)
  PROVE  EndOf(0) = 0 /\ Len(Bytes(packed)) \in Nat /\ Bytes(packed) \in Seq(Byte)
<1>1. Upto(packed, 0) = 0 /\ Bytes(packed) \in Seq(Byte)
  BY ValuesPackable, Places
<1> QED BY <1>1 DEF EndOf, Upto

\* Contents taken over.
LEMMA LoadStep ==
  ASSUME PackerInv, NEW n \in Taken, Load(n)
  PROVE  PackerInv'
<1>1. /\ SIZE \in Nat /\ length \in Nat /\ length <= SIZE
  BY BufferSeq DEF PackerInv
<1>2. packed \in Seq(Values)
  BY DEF PackerInv, Histories
<1>3. /\ EndOf(0) = 0 /\ Len(Bytes(packed)) \in Nat
  BY <1>2, EndOfNone
<1>4. n \in 0..SIZE /\ (n <= length \/ length >= Len(Bytes(packed)))
  BY <1>1 DEF Taken, Uncut
<1>5. /\ buffer' = [i \in 1..SIZE |-> IF i = n + 1 THEN NUL ELSE buffer[i]]
      /\ length' = n /\ dst' = 0 /\ dst_avail' = SIZE - n /\ src' = 0 /\ src_avail' = n
      /\ error' = FALSE /\ loaded' = TRUE /\ got' = <<>> /\ packed' = packed
  BY DEF Load
<1>6. TypeOK'
  <2>1. buffer \in [1..SIZE -> Byte] /\ NUL \in Byte
    BY ByteNat DEF PackerInv, TypeOK
  <2>2. buffer' \in [1..SIZE -> Byte]
    BY <2>1, <1>5
  <2>3. 0 \in 0..SIZE /\ SIZE - n \in 0..SIZE /\ n + (SIZE - n) = SIZE /\ 0 + n <= n /\ 0 <= n
    BY <1>1, <1>4
  <2>4. {dst', dst_avail', src', src_avail', length'} \subseteq 0..SIZE
    BY <2>3, <1>4, <1>5
  <2>5. length' + dst_avail' = SIZE /\ src' + src_avail' <= length' /\ dst' <= length'
    BY <2>3, <1>5
  <2> QED BY <2>2, <2>4, <2>5, <1>5 DEF TypeOK
<1>7. Contents'
  <2>1. SUFFICES ASSUME NEW i \in 1..Len(Bytes(packed)), i <= n
                 PROVE  buffer'[i] = Bytes(packed)[i]
    BY <1>5 DEF Contents
  <2>2. i \in 1..SIZE /\ i # n + 1 /\ i <= length
    BY <2>1, <1>1, <1>3, <1>4
  <2>3. buffer'[i] = buffer[i]
    BY <2>2, <1>5
  <2>4. buffer[i] = Bytes(packed)[i]
    BY <2>2 DEF PackerInv, Contents
  <2> QED BY <2>3, <2>4
<1>8. Packing'
  BY <1>5 DEF Packing
<1>9. Histories'
  BY <1>2, <1>5 DEF Histories
<1>10. Reading'
  <2>1. Len(got') = 0
    BY <1>5
  <2>2. Len(got') <= Len(packed) /\ \A i \in 1..Len(got') : got'[i] = Meant(packed[i])
    BY <2>1, <1>2
  <2>3. src' = EndOf(Len(got')) /\ src' + src_avail' = length'
    BY <2>1, <1>3, <1>4, <1>5
  <2> QED BY <2>2, <2>3, <1>5 DEF Reading, EndOf
<1> QED BY <1>6, <1>7, <1>8, <1>9, <1>10 DEF PackerInv

\* Back to an empty packer.
LEMMA RewindStep ==
  ASSUME PackerInv, Rewind
  PROVE  PackerInv'
<1>1. SIZE \in Nat
  BY WidthsAssumption DEF WidthsAssumption
<1>2. /\ dst' = 0 /\ dst_avail' = SIZE /\ src' = 0 /\ src_avail' = 0 /\ length' = 0
      /\ error' = FALSE /\ packed' = <<>> /\ loaded' = FALSE /\ got' = <<>> /\ buffer' = buffer
  BY DEF Rewind
<1>3. TypeOK'
  <2>1. buffer \in [1..SIZE -> Byte]
    BY DEF PackerInv, TypeOK
  <2>2. 0 \in 0..SIZE /\ SIZE \in 0..SIZE
    BY <1>1
  <2>3. {dst', dst_avail', src', src_avail', length'} \subseteq 0..SIZE
    BY <2>2, <1>2
  <2>4. 0 + SIZE = SIZE /\ 0 + 0 <= 0 /\ 0 <= 0
    BY <1>1
  <2>5. length' + dst_avail' = SIZE /\ src' + src_avail' <= length' /\ dst' <= length'
    BY <2>4, <1>2
  <2> QED BY <2>1, <2>3, <2>5, <1>2 DEF TypeOK
<1>4. packed' \in Seq(Values) /\ got' \in Seq(Readable) /\ Len(packed') = 0 /\ Len(got') = 0
  BY <1>2
<1>5. Upto(packed', 0) = 0 /\ Upto(packed', Len(packed')) = Len(Bytes(packed'))
  BY <1>4, ValuesPackable, Places
<1>6. Len(Bytes(packed')) = 0 /\ Upto(packed', Len(got')) = 0
  BY <1>4, <1>5
<1>7. Histories' /\ Contents' /\ Packing'
  BY <1>2, <1>4, <1>6 DEF Histories, Contents, Packing
<1>8. Reading'
  BY <1>2, <1>4, <1>6 DEF Reading, EndOf, Upto
<1> QED BY <1>3, <1>7, <1>8 DEF PackerInv

\* Back to the first byte.
LEMMA UnpackingRewindStep ==
  ASSUME PackerInv, UnpackingRewind
  PROVE  PackerInv'
<1>1. /\ SIZE \in Nat /\ length \in Nat /\ length <= SIZE
  BY BufferSeq DEF PackerInv
<1>2. packed \in Seq(Values)
  BY DEF PackerInv, Histories
<1>3. EndOf(0) = 0
  BY <1>2, EndOfNone
<1>4. src' = 0 /\ src_avail' = length /\ got' = <<>>
  BY DEF UnpackingRewind
<1>5. UNCHANGED <<buffer, dst, dst_avail, length, error, packed, loaded>>
  BY DEF UnpackingRewind
<1>6. TypeOK'
  <2>1. /\ buffer \in [1..SIZE -> Byte] /\ {dst, dst_avail, length} \subseteq 0..SIZE
        /\ error \in BOOLEAN /\ length + dst_avail = SIZE /\ dst <= length
    BY DEF PackerInv, TypeOK
  <2>2. 0 \in 0..SIZE /\ 0 + length <= length
    BY <1>1
  <2> QED BY <2>1, <2>2, <1>4, <1>5 DEF TypeOK
<1>7. Histories' /\ Contents' /\ Packing'
  BY <1>2, <1>4, <1>5 DEF PackerInv, Histories, Contents, Packing
<1>8. Reading'
  <2>1. Len(got') = 0
    BY <1>4
  <2>2. Len(got') <= Len(packed) /\ \A i \in 1..Len(got') : got'[i] = Meant(packed[i])
    BY <2>1, <1>2
  <2>3. src' = EndOf(Len(got')) /\ src' + src_avail' = length
    BY <2>1, <1>1, <1>3, <1>4
  <2> QED BY <2>2, <2>3, <1>5 DEF Reading, EndOf
<1> QED BY <1>6, <1>7, <1>8 DEF PackerInv

\* Every step.
LEMMA PackerNext == PackerInv /\ [Next]_vars => PackerInv'
<1> SUFFICES ASSUME PackerInv, [Next]_vars PROVE PackerInv'
  OBVIOUS
<1>1. ASSUME NEW x \in Values, ~ loaded, Pack(x) PROVE PackerInv'
  BY <1>1, PackStep
<1>2. ASSUME NEW x \in Values, PackRefused(x) PROVE PackerInv'
  <2>1. /\ error' = TRUE
        /\ UNCHANGED <<buffer, dst, dst_avail, src, src_avail, length, packed, loaded, got>>
    BY <1>2 DEF PackRefused
  <2>2. TypeOK'
    BY <2>1 DEF PackerInv, TypeOK
  <2>3. Histories' /\ Contents' /\ Packing'
    BY <2>1 DEF PackerInv, Histories, Contents, Packing
  <2>4. Reading'
    BY <2>1 DEF Reading
  <2> QED BY <2>2, <2>3, <2>4 DEF PackerInv
<1>3. ASSUME NEW type \in Asked, NEW held \in Held(type),
             Unpack(type, held) \/ UnpackRefused(type, held) \/ UnpackTooLong(type, held)
      PROVE  PackerInv'
  BY <1>3, UnpackStep, FailedStep
<1>4. ASSUME NEW n \in Taken, Load(n) PROVE PackerInv'
  BY <1>4, LoadStep
<1>5. CASE Rewind
  BY <1>5, RewindStep
<1>6. CASE UnpackingRewind
  BY <1>6, UnpackingRewindStep
<1>7. CASE UNCHANGED vars
  <2>1. UNCHANGED <<buffer, dst, dst_avail, src, src_avail, length, error, packed, loaded, got>>
    BY <1>7 DEF vars
  <2>2. TypeOK'
    BY <2>1 DEF PackerInv, TypeOK
  <2>3. Histories' /\ Contents' /\ Packing' /\ Reading'
    BY <2>1 DEF PackerInv, Histories, Contents, Packing, Reading, EndOf
  <2> QED BY <2>2, <2>3 DEF PackerInv
<1> QED BY <1>1, <1>2, <1>3, <1>4, <1>5, <1>6, <1>7 DEF Next

\* The invariant holds of a packer.
LEMMA PackerInvariant == Spec => []PackerInv
BY PackerInit, PackerNext, PTL DEF Spec

\* No pointer or count of a packer leads past its end or its contents.
THEOREM PackerTypes == Spec => []TypeOK
<1>1. PackerInv => TypeOK
  BY DEF PackerInv
<1> QED BY <1>1, PackerInvariant, PTL

\* What is unpacked while no error is reported is what was packed, in order.
THEOREM PackerReadsBack == Spec => []ReadsBack
<1>1. PackerInv => ReadsBack
  BY DEF PackerInv, Reading, ReadsBack
<1> QED BY <1>1, PackerInvariant, PTL

\* The highest byte of a number comes first.
THEOREM PackerNetworkOrder == Spec => []NetworkOrder
<1>1. ASSUME PackerInv PROVE NetworkOrder
  <2>1. SUFFICES ASSUME NEW i \in 1..Len(packed), NEW w, w = Width[packed[i].type],
                        packed[i].type \in DOMAIN Width, EndOf(i) <= length,
                        NEW j \in 1..w
                 PROVE  buffer[EndOf(i - 1) + j] = (packed[i].v \div Power[w - j]) % Base
    BY DEF NetworkOrder
  <2>2. packed \in Seq(Values)
    BY <1>1 DEF PackerInv, Histories
  <2>3. PICK x : x = packed[i]
    OBVIOUS
  <2>4. IsValue(x)
    <3>1. x \in Values
      BY <2>2, <2>3
    <3> QED BY <3>1, ValuesPackable DEF Packable
  <2>5. x.v \in Int
    <3>1. Holds(x.type, x.v) /\ x.type \in DOMAIN Width
      BY <2>1, <2>3, <2>4 DEF IsValue
    <3>2. w \in Nat \ {0}
      BY <2>1, Widths
    <3>3. Power[w] \in Nat
      BY <3>2, PowerPositive
    <3>4. x.type # "bool" /\ x.type # "string" /\ x.type # "locator"
      BY <3>1, Widths
    <3> QED BY <3>1, <3>3, <3>4, <2>1, <2>3 DEF Holds
  <2>6. Encoded(x) = Number(x.type, x.v)
    <3>1. x.type # "bool" /\ x.type # "string" /\ x.type # "locator"
      BY <2>1, <2>3, Widths
    <3> QED BY <3>1 DEF Encoded
  <2>7. PICK e : e = Encoded(x)
    OBVIOUS
  <2>8. Len(e) = w /\ w \in Nat /\ e[j] = (x.v \div Power[w - j]) % Base
    <3>1. x.type \in DOMAIN Width /\ w = Width[x.type]
      BY <2>1, <2>3
    <3>2. PICK type \in DOMAIN Width : type = x.type
      BY <3>1
    <3>3. PICK v \in Int : v = x.v
      BY <2>5
    <3>4. /\ Len(Number(type, v)) = Width[type]
          /\ \A m \in 1..Width[type] : Number(type, v)[m] = (v \div Power[Width[type] - m]) % Base
      BY NumberBytes
    <3>5. e = Number(type, v) /\ w = Width[type]
      BY <3>1, <3>2, <3>3, <2>6, <2>7
    <3>6. w \in Nat
      BY <3>5, Widths
    <3> QED BY <3>3, <3>4, <3>5, <3>6
  <2>9. PICK b : b = Bytes(packed)
    OBVIOUS
  <2>10. PICK p \in Nat : p = Upto(packed, i - 1) /\ p = EndOf(i - 1)
    <3>1. i - 1 \in 0..Len(packed)
      BY <2>2
    <3>2. Upto(packed, i - 1) \in Nat
      BY <3>1, <2>2, ValuesPackable, Places
    <3> QED BY <3>2 DEF Upto, EndOf
  <2>11. EndOf(i) = p + Len(e) /\ b[p + j] = e[j]
    <3>1. /\ Upto(packed, i) = Upto(packed, i - 1) + Len(Encoded(packed[i]))
          /\ \A m \in 1..Len(Encoded(packed[i])) :
               Bytes(packed)[Upto(packed, i - 1) + m] = Encoded(packed[i])[m]
      BY <2>2, ValuesPackable, Places
    <3>2. EndOf(i) = Upto(packed, i) /\ j \in 1..Len(e)
      BY <2>1, <2>8 DEF Upto, EndOf
    <3> QED BY <3>1, <3>2, <2>3, <2>7, <2>9, <2>10
  <2>12. b \in Seq(Byte) /\ EndOf(i) <= Len(b)
    <3>1. i \in 0..Len(packed)
      BY <2>2
    <3>2. Bytes(packed) \in Seq(Byte) /\ Upto(packed, i) <= Len(Bytes(packed))
      BY <3>1, <2>2, ValuesPackable, Places
    <3> QED BY <3>2, <2>9 DEF Upto, EndOf
  <2>13. length \in Nat
    BY <1>1, BufferSeq DEF PackerInv
  <2>14. p + j \in 1..Len(b) /\ p + j <= length
    <3>1. PICK q \in Nat : q = EndOf(i) /\ q = p + w
      BY <2>8, <2>11
    <3>2. PICK m \in Nat : m = Len(b)
      BY <2>12
    <3>3. q <= m /\ q <= length
      BY <2>1, <2>12, <3>1, <3>2
    <3>4. p + j \in 1..m /\ p + j <= length
      BY <2>1, <2>8, <2>13, <3>1, <3>3
    <3> QED BY <3>2, <3>4
  <2>15. buffer[p + j] = b[p + j]
    BY <1>1, <2>14, <2>9 DEF PackerInv, Contents
  <2> QED BY <2>3, <2>8, <2>10, <2>11, <2>15
<1> QED BY <1>1, PackerInvariant, PTL

\* A read that reports the first error.
LEMMA FirstError ==
  ASSUME PackerInv, ~ error, NEW type \in Asked, NEW held \in Held(type),
         UnpackRefused(type, held) \/ UnpackTooLong(type, held)
  PROVE  \/ Len(got) = Len(packed)
         \/ EndOf(Len(got) + 1) > length
         \/ /\ packed[Len(got) + 1].type = "string"
            /\ \E h \in Texts : 4 + Len(h) > length - EndOf(Len(got))
<1>1. /\ Len(got) <= Len(packed) /\ src = EndOf(Len(got)) /\ src + src_avail = length
  BY DEF PackerInv, Reading
<1>2. src \in Nat /\ src_avail \in Nat /\ length \in Nat
  BY BufferSeq DEF PackerInv
<1>3. Len(got) \in Nat /\ Len(packed) \in Nat
  BY DEF PackerInv, Histories
<1>4. SUFFICES ASSUME Len(got) < Len(packed)
      PROVE  \/ EndOf(Len(got) + 1) > length
             \/ /\ packed[Len(got) + 1].type = "string"
                /\ \E h \in Texts : 4 + Len(h) > length - EndOf(Len(got))
  BY <1>1, <1>3
<1>5. PICK x : x = packed[Len(got) + 1]
  OBVIOUS
<1>6. type = x.type
  BY <1>4, <1>5 DEF Asked
<1>7. PICK e : e = Encoded(x)
  OBVIOUS
<1>8. /\ Len(e) = serializedsize(x.type, x.v) /\ Len(e) \in Nat
      /\ EndOf(Len(got) + 1) = src + Len(e)
      /\ x.type = "string" /\ src_avail >= 4 => TextLength = Len(x.v)
  BY <1>4, <1>5, <1>7, ReadsNext
<1>9. type = "string" => held \in Texts /\ Len(held) \in Nat
  BY AskedTypes
<1>10. CASE UnpackRefused(type, held)
  <2>1. src_avail < serializedsize(type, held)
    BY <1>10 DEF UnpackRefused, Refuses
  <2>2. CASE type = "string"
    <3>1. src_avail < 4 + Len(held)
      BY <2>1, <2>2 DEF serializedsize
    <3>2. length - EndOf(Len(got)) = src_avail
      BY <1>1, <1>2
    <3>3. 4 + Len(held) > length - EndOf(Len(got))
      BY <3>1, <3>2, <2>2, <1>2, <1>9
    <3> QED BY <3>3, <2>2, <1>5, <1>6, <1>9
  <2>3. CASE type # "string"
    <3>1. serializedsize(type, held) = serializedsize(x.type, x.v)
      BY <2>3, <1>6 DEF serializedsize
    <3>2. EndOf(Len(got) + 1) > length
      BY <3>1, <2>1, <1>1, <1>2, <1>8
    <3> QED BY <3>2
  <2> QED BY <2>2, <2>3
<1>11. CASE UnpackTooLong(type, held)
  <2>1. type = "string" /\ ~ (src_avail < serializedsize(type, held)) /\ src_avail - 4 < TextLength
    BY <1>11 DEF UnpackTooLong, TooLong, Refuses
  <2>2. serializedsize(type, held) = 4 + Len(held) /\ serializedsize(x.type, x.v) = 4 + Len(x.v)
    BY <2>1, <1>6 DEF serializedsize
  <2>3. src_avail >= 4
    BY <2>1, <2>2, <1>2, <1>9
  <2>4. TextLength = Len(x.v) /\ TextLength \in Nat
    BY <2>1, <2>3, <1>6, <1>8, TextLengthRest DEF PackerInv
  <2>5. EndOf(Len(got) + 1) > length
    BY <2>1, <2>2, <2>4, <1>1, <1>2, <1>8
  <2> QED BY <2>5
<1> QED BY <1>10, <1>11

\* Why an error is reported.
Reason ==
  IF got' = got
  THEN \E x \in Values : Len(Bytes(packed)) + Len(Encoded(x)) > SIZE
  ELSE \/ Len(got) = Len(packed)
       \/ EndOf(Len(got) + 1) > length
       \/ /\ packed[Len(got) + 1].type = "string"
          /\ \E held \in Texts : 4 + Len(held) > length - EndOf(Len(got))

\* An error is reported only for a reason.
THEOREM PackerErrorsJustified == Spec => ErrorsJustified
<1>1. ASSUME PackerInv, [Next]_vars, ~ error, error' PROVE Reason
  <2>1. ASSUME NEW x \in Values, ~ loaded, PackRefused(x) PROVE Reason
    <3>1. got' = got /\ dst_avail < serializedsize(x.type, x.v)
      BY <2>1 DEF PackRefused
    <3>2. IsValue(x)
      BY ValuesPackable DEF Packable
    <3>3. Len(Encoded(x)) = serializedsize(x.type, x.v) /\ Len(Encoded(x)) \in Nat
      BY <3>2, EncodedBytes
    <3>4. SIZE \in Nat /\ length \in Nat /\ length + dst_avail = SIZE /\ dst_avail \in Nat
      BY <1>1, BufferSeq DEF PackerInv
    <3>5. length = Len(Bytes(packed))
      BY <1>1, <2>1 DEF PackerInv, Packing
    <3>6. Len(Bytes(packed)) + Len(Encoded(x)) > SIZE
      BY <3>1, <3>3, <3>4, <3>5
    <3> QED BY <3>1, <3>6 DEF Reason
  <2>2. ASSUME NEW type \in Asked, NEW held \in Held(type),
               UnpackRefused(type, held) \/ UnpackTooLong(type, held)
        PROVE  Reason
    <3>1. Nothing \in Readable
      BY DEF Readable
    <3>2. got' # got
      BY <1>1, <2>2, <3>1, GotAppend DEF UnpackRefused, UnpackTooLong
    <3>3. \/ Len(got) = Len(packed)
          \/ EndOf(Len(got) + 1) > length
          \/ /\ packed[Len(got) + 1].type = "string"
             /\ \E h \in Texts : 4 + Len(h) > length - EndOf(Len(got))
      BY <1>1, <2>2, FirstError
    <3> QED BY <3>2, <3>3 DEF Reason
  <2>3. ASSUME NEW x \in Values, Pack(x) PROVE FALSE
    BY <1>1, <2>3 DEF Pack
  <2>4. ASSUME NEW type \in Asked, NEW held \in Held(type), Unpack(type, held) PROVE FALSE
    BY <1>1, <2>4 DEF Unpack
  <2>5. ~ (\E n \in Taken : Load(n)) /\ ~ Rewind /\ ~ UnpackingRewind /\ ~ UNCHANGED vars
    BY <1>1 DEF Load, Rewind, UnpackingRewind, vars
  <2> QED BY <1>1, <2>1, <2>2, <2>3, <2>4, <2>5 DEF Next
<1>2. PackerInv /\ [Next]_vars => [~ error /\ error' => Reason]_vars
  BY <1>1
<1>3. Spec => [][~ error /\ error' => Reason]_vars
  BY <1>2, PackerInvariant, PTL DEF Spec
<1> QED BY <1>3 DEF ErrorsJustified, Reason

-----------------------------------------------------------------------------
(***************************************************************************)
(* The blocks.                                                              *)
(***************************************************************************)
\* What a quotient says of the product.
LEMMA DivMul ==
  ASSUME NEW x \in Nat, NEW d \in Nat \ {0}
  PROVE  x \div d \in Nat /\ (x \div d) * d <= x
OBVIOUS

\* Products grow with their factors.
LEMMA MulMono ==
  ASSUME NEW a \in Nat, NEW b \in Nat, NEW c \in Nat, a <= b
  PROVE  a * c <= b * c
OBVIOUS

\* A leaf with the most keys that LeafB allows.
LEMMA LeafFits ==
  ASSUME NEW bs \in Nat, bs >= HEAD_SIZE, NEW k \in Nat \ {0}, NEW v \in Nat \ {0},
         NEW b \in Nat \ {0}, b <= LeafB(bs, k, v)
  PROVE  LeafBytes(2 * b - 1, k, v) <= bs
<1> DEFINE q == (bs - 21) \div (k + v)
           n == 2 * b - 1
<1>1. bs - 21 \in Nat /\ k + v \in Nat \ {0} /\ n \in Nat
  BY DEF HEAD_SIZE
<1>2. q \in Nat /\ q * (k + v) <= bs - 21
  BY <1>1, DivMul
<1>3. b <= (q + 1) \div 2
  BY DEF LeafB, HEAD_SIZE
<1> HIDE DEF q
<1>4. n <= q
  BY <1>2, <1>3
<1> HIDE DEF n
<1>5. n * (k + v) <= q * (k + v)
  BY <1>1, <1>2, <1>4, MulMono
<1>6. n * (k + v) = n * k + n * v /\ n * k \in Nat /\ n * v \in Nat /\ q * (k + v) \in Nat
  BY <1>1, <1>2
<1>7. 21 + n * k + n * v <= bs
  BY <1>1, <1>2, <1>5, <1>6
<1> QED
  BY <1>7 DEF LeafBytes, HEAD_SIZE, n

\* The same of the other nodes, which have a child more than keys.
LEMMA InnerFits ==
  ASSUME NEW bs \in Nat, bs >= HEAD_SIZE, NEW k \in Nat \ {0},
         NEW b \in Nat \ {0}, b <= InnerB(bs, k)
  PROVE  InnerBytes(2 * b - 1, k) <= bs
<1> DEFINE q == (bs - 21 + k) \div (k + 4)
           n == 2 * b
<1>1. bs - 21 + k \in Nat /\ k + 4 \in Nat \ {0} /\ n \in Nat /\ 2 * b - 1 = n - 1
  BY DEF HEAD_SIZE
<1>2. q \in Nat /\ q * (k + 4) <= bs - 21 + k
  BY <1>1, DivMul
<1>3. b <= q \div 2
  BY DEF InnerB, HEAD_SIZE
<1> HIDE DEF q
<1>4. n <= q
  BY <1>2, <1>3
<1> HIDE DEF n
<1>5. n * (k + 4) <= q * (k + 4)
  BY <1>1, <1>2, <1>4, MulMono
<1>6. /\ n * (k + 4) = n * k + n * 4 /\ (n - 1) * k = n * k - k
      /\ n * k \in Nat /\ q * (k + 4) \in Nat
  BY <1>1, <1>2
<1>7. 21 + (n - 1) * k + n * 4 <= bs
  BY <1>1, <1>2, <1>5, <1>6
<1> QED
  BY <1>1, <1>7 DEF InnerBytes, HEAD_SIZE

\* The length of what is built place by place.
LEMMA LenOfPlaces ==
  ASSUME NEW n \in Nat, NEW f, f = [i \in 1..n |-> f[i]]
  PROVE  Len(f) = n
<1> DEFINE S == {f[i] : i \in 1..n}
<1>1. f \in [1..n -> S]
  OBVIOUS
<1> HIDE DEF S
<1>2. f \in Seq(S)
  BY <1>1
<1> QED
  BY <1>1, <1>2

\* A block has a length, which writing does not change.
LEMMA BlockHasLength == FormatSpec => [](Len(block) \in Nat)
<1>1. FormatInit => Len(block) \in Nat
  BY DEF FormatInit, NoBlock
<1>2. Len(block) \in Nat /\ [FormatNext]_<<vars, block, content>> => (Len(block) \in Nat)'
  <2> SUFFICES ASSUME Len(block) \in Nat, FormatNext PROVE Len(block') \in Nat
    OBVIOUS
  <2>1. CASE NewBlock
    <3>1. PICK bs \in BlockSize : block' = [i \in 1..bs |-> NUL]
      BY <2>1 DEF NewBlock, Zeros
    <3>2. bs \in Nat
      BY FormatAssumption DEF FormatAssumption
    <3> QED
      BY <3>1, <3>2, LenOfPlaces
  <2>2. ASSUME NEW bytes, NEW what, WriteBlock(bytes, what) PROVE Len(block') \in Nat
    <3>1. block' = [i \in 1..Len(block) |-> IF i <= Len(bytes) THEN bytes[i] ELSE NUL]
      BY <2>2 DEF WriteBlock
    <3>2. block' = [i \in 1..Len(block) |-> block'[i]]
      BY <3>1
    <3> QED
      BY <3>2, LenOfPlaces
  <2>3. CASE BlockNext
    BY <2>1, <2>2, <2>3 DEF BlockNext
  <2>4. CASE block' = block
    BY <2>4
  <2> QED
    BY <2>3, <2>4 DEF FormatNext
<1> QED
  BY <1>1, <1>2, PTL DEF FormatSpec

\* B as BTreeFileStorage_Compute_Max_B computes it: a tree that asserts its B
\* is no larger never makes a node that its block cannot take.
THEOREM FullNodesFit == FormatSpec => []NodesFit
<1>1. Len(block) \in Nat => NodesFit
  <2> SUFFICES ASSUME Len(block) \in Nat, Len(block) >= HEAD_SIZE,
                      NEW k \in KeySize, NEW v \in ValueSize,
                      NEW b \in 1..Compute_Max_B(Len(block), k, v)
               PROVE  /\ LeafBytes(2 * b - 1, k, v) <= Len(block)
                      /\ InnerBytes(2 * b - 1, k) <= Len(block)
    BY DEF NodesFit
  <2>1. k \in Nat \ {0} /\ v \in Nat \ {0}
    BY FormatAssumption DEF FormatAssumption
  <2>2. LeafB(Len(block), k, v) \in Int /\ InnerB(Len(block), k) \in Int
    BY <2>1 DEF LeafB, InnerB, HEAD_SIZE
  <2>3. b \in Nat \ {0} /\ b <= LeafB(Len(block), k, v) /\ b <= InnerB(Len(block), k)
    BY <2>2 DEF Compute_Max_B
  <2> QED
    BY <2>1, <2>3, LeafFits, InnerFits
<1> QED
  BY <1>1, BlockHasLength, PTL

(***************************************************************************)
(* What a block holds is what was written into it.                          *)
(***************************************************************************)
\* One more of a row of values.
LEMMA RowGrows ==
  ASSUME NEW a, NEW i \in Nat \ {0}
  PROVE  Append([j \in 1 .. i - 1 |-> a[j]], a[i]) = [j \in 1..i |-> a[j]]
<1>1. PICK S : S = {a[j] : j \in 1..i}
  OBVIOUS
<1>2. PICK k \in Nat : k = i - 1 /\ i = k + 1
  OBVIOUS
<1>3. PICK s, t, x : s = [j \in 1..k |-> a[j]] /\ t = [j \in 1..i |-> a[j]] /\ x = a[i]
  OBVIOUS
<1>4. s \in Seq(S) /\ t \in Seq(S) /\ x \in S /\ Len(s) = k /\ Len(t) = i
  <2>1. s \in [1..k -> S] /\ t \in [1..i -> S] /\ x \in S
    BY <1>1, <1>2, <1>3
  <2> QED BY <2>1, <1>2
<1>5. PICK r : r = Append(s, x)
  OBVIOUS
<1>6. r \in Seq(S) /\ Len(r) = i /\ (\A j \in 1..k : r[j] = s[j]) /\ r[i] = x
  BY <1>2, <1>4, <1>5, AppendProperties
<1>7. \A j \in 1..i : r[j] = t[j]
  <2>1. \A j \in 1..i : j = i \/ j \in 1..k
    BY <1>2
  <2> QED BY <2>1, <1>3, <1>6
<1>8. r = t
  BY <1>4, <1>6, <1>7, SeqEqual
<1> QED BY <1>2, <1>3, <1>5, <1>8

\* A read of a chain, where the bytes of the values stand.
LEMMA ReadsNextOf ==
  ASSUME NEW V, Packable(V), NEW fields \in Seq(V), NEW bytes \in Seq(Byte),
         Begins(bytes, Bytes(fields)), NEW i \in 1..Len(fields), NEW q
  PROVE  ReadNext([src |-> Upto(fields, i - 1), v |-> q], fields[i].type, bytes)
           = [src |-> Upto(fields, i), v |-> Append(q, Meant(fields[i]).v)]
<1>1. PICK x : x = fields[i]
  OBVIOUS
<1>2. IsValue(x)
  <2>1. x \in V
    BY <1>1
  <2> QED BY <2>1 DEF Packable
<1>3. PICK e : e = Encoded(x)
  OBVIOUS
<1>4. e \in Seq(Byte) /\ Len(e) \in Nat
  BY <1>2, <1>3, EncodedBytes
<1>5. PICK b : b = Bytes(fields)
  OBVIOUS
<1>6. i \in 0..Len(fields) /\ i - 1 \in 0..Len(fields)
  OBVIOUS
<1>7. b \in Seq(Byte) /\ Upto(fields, i - 1) \in Nat /\ Upto(fields, i) <= Len(b)
  BY <1>5, <1>6, Places
<1>8. /\ Upto(fields, i) = Upto(fields, i - 1) + Len(e)
      /\ \A j \in 1..Len(e) : b[Upto(fields, i - 1) + j] = e[j]
  BY <1>1, <1>3, <1>5, Places
<1>9. PICK p \in Nat : p = Upto(fields, i - 1)
  BY <1>7
<1>10. p + Len(e) <= Len(b) /\ \A j \in 1..Len(e) : b[p + j] = e[j]
  BY <1>7, <1>8, <1>9
<1>11. PICK B, E \in Nat : B = Len(b) /\ E = Len(bytes)
  BY <1>7
<1>12. B <= E /\ \A j \in 1..B : bytes[j] = b[j]
  BY <1>5, <1>11 DEF Begins
<1>13. PICK rest : rest = SubSeq(bytes, p + 1, Len(bytes))
  OBVIOUS
<1>14. rest \in Seq(Byte) /\ Len(rest) = E - p /\ \A j \in 1 .. E - p : rest[j] = bytes[p + j]
  <2>1. p <= E /\ E <= Len(bytes)
    BY <1>4, <1>10, <1>11, <1>12
  <2>2. /\ SubSeq(bytes, p + 1, E) \in Seq(Byte)
        /\ Len(SubSeq(bytes, p + 1, E)) = IF p <= E THEN E - p ELSE 0
        /\ \A j \in 1 .. E - p : SubSeq(bytes, p + 1, E)[j] = bytes[p + j]
    BY <2>1, SubSeqBytes
  <2> QED BY <2>1, <2>2, <1>11, <1>13
<1>15. Begins(rest, e)
  <2>1. Len(e) <= E - p
    BY <1>4, <1>10, <1>11, <1>12
  <2>2. ASSUME NEW j \in 1..Len(e) PROVE rest[j] = e[j]
    <3>1. p + j \in 1..B /\ j \in 1 .. E - p
      BY <2>1, <1>4, <1>10, <1>11
    <3> QED BY <3>1, <1>10, <1>12, <1>14
  <2> QED BY <2>1, <2>2, <1>14 DEF Begins
<1>16. Decoded(x.type, rest) = Meant(x).v /\ serializedsize(x.type, Decoded(x.type, rest)) = Len(e)
  BY <1>2, <1>3, <1>14, <1>15, DecodesEncoded
<1>17. PICK read : read = [src |-> p, v |-> q]
  OBVIOUS
<1>18. ReadNext(read, x.type, bytes) = [src |-> p + Len(e), v |-> Append(q, Meant(x).v)]
  BY <1>13, <1>16, <1>17 DEF ReadNext
<1> QED BY <1>1, <1>8, <1>9, <1>17, <1>18

\* A chain of >> yields the values that were packed.
LEMMA ChainReads ==
  ASSUME NEW V, Packable(V), NEW fields \in Seq(V), NEW bytes \in Seq(Byte),
         Begins(bytes, Bytes(fields)), NEW types, NEW m \in 0..Len(fields), Len(types) = m,
         \A i \in 1..m : types[i] = fields[i].type
  PROVE  Chain(types, bytes) = [i \in 1..m |-> Meant(fields[i]).v]
<1>0. m \in Nat /\ \A i \in 1..m : i \in 1..Len(fields)
  OBVIOUS
<1>1. PICK a : a = [i \in 1..m |-> Meant(fields[i]).v]
  OBVIOUS
<1>2. PICK start : start = [src |-> 0, v |-> <<>>]
  OBVIOUS
<1>3. PICK f : f = [i \in 0..m |-> [src |-> Upto(fields, i), v |-> [j \in 1..i |-> a[j]]]]
  OBVIOUS
<1>4. f[0] = start
  <2>1. 0 \in 0..m /\ 0 \in 0..Len(fields)
    BY <1>0
  <2>2. Upto(fields, 0) = 0
    BY Places
  <2>3. [j \in 1..0 |-> a[j]] = <<>>
    OBVIOUS
  <2> QED BY <2>1, <2>2, <2>3, <1>2, <1>3
<1>5. ASSUME NEW i \in 1..m PROVE f[i] = ReadNext(f[i - 1], types[i], bytes)
  <2>1. i \in 0..m /\ i - 1 \in 0..m /\ i \in Nat \ {0} /\ i \in 1..Len(fields)
    BY <1>0
  <2>2. PICK q : q = [j \in 1 .. i - 1 |-> a[j]]
    OBVIOUS
  <2>3. f[i - 1] = [src |-> Upto(fields, i - 1), v |-> q]
    BY <2>1, <2>2, <1>3
  <2>4. Append(q, a[i]) = [j \in 1..i |-> a[j]]
    BY <2>1, <2>2, RowGrows
  <2>5. a[i] = Meant(fields[i]).v
    BY <1>1
  <2>6. ReadNext([src |-> Upto(fields, i - 1), v |-> q], fields[i].type, bytes)
          = [src |-> Upto(fields, i), v |-> Append(q, Meant(fields[i]).v)]
    BY <2>1, ReadsNextOf
  <2>7. f[i] = [src |-> Upto(fields, i), v |-> Append(q, a[i])]
    BY <2>1, <2>4, <1>3
  <2> QED BY <2>3, <2>5, <2>6, <2>7
<1>6. \A i \in 0..m : f[i] = IF i = 0 THEN start ELSE ReadNext(f[i - 1], types[i], bytes)
  <2>1. \A i \in 0..m : i # 0 => i \in 1..m
    BY <1>0
  <2> QED BY <2>1, <1>4, <1>5
<1>7. f = [i \in 0..m |-> IF i = 0 THEN start ELSE ReadNext(f[i - 1], types[i], bytes)]
  <2>1. f = [i \in 0..m |-> f[i]]
    BY <1>3
  <2> QED BY <2>1, <1>6, Zenon
<1> DEFINE h == CHOOSE h : h = [i \in 0..m |-> IF i = 0 THEN start ELSE ReadNext(h[i - 1], types[i], bytes)]
<1>8. h = [i \in 0..m |-> IF i = 0 THEN start ELSE ReadNext(h[i - 1], types[i], bytes)]
  <2>1. \E e : e = [i \in 0..m |-> IF i = 0 THEN start ELSE ReadNext(e[i - 1], types[i], bytes)]
    BY <1>7
  <2> QED BY <2>1, Zenon
<1>9. Chain(types, bytes) = h[m].v
  BY <1>2, Zenon DEF Chain
<1> HIDE DEF h
<1> DEFINE U == {i \in Nat : i <= m => h[i] = f[i]}
<1>10. 0 \in U
  <2>1. 0 \in 0..m
    BY <1>0
  <2>2. h[0] = start
    BY <2>1, <1>8
  <2> QED BY <2>2, <1>4
<1>11. ASSUME NEW i \in Nat, i \in U PROVE i + 1 \in U
  <2>1. SUFFICES ASSUME i + 1 <= m PROVE h[i + 1] = f[i + 1]
    OBVIOUS
  <2>2. PICK k \in Nat : k = i + 1
    OBVIOUS
  <2>3. k \in 0..m /\ k # 0 /\ k - 1 = i /\ k \in 1..m /\ h[i] = f[i]
    BY <1>11, <1>0, <2>1, <2>2
  <2>4. h[k] = ReadNext(h[k - 1], types[k], bytes)
    BY <2>3, <1>8
  <2> QED BY <2>2, <2>3, <2>4, <1>5
<1>12. Nat \subseteq U
  <2> HIDE DEF U
  <2> QED BY <1>10, <1>11, NatSet
<1>13. h[m] = f[m]
  BY <1>0, <1>12
<1>14. f[m].v = a
  <2>1. m \in 0..m
    BY <1>0
  <2>2. f[m].v = [j \in 1..m |-> a[j]]
    BY <2>1, <1>3
  <2> QED BY <2>2, <1>1
<1> QED BY <1>1, <1>9, <1>13, <1>14

\* A row of values takes no more than the largest of them, each time.
LEMMA UptoBound ==
  ASSUME NEW V, Packable(V), NEW fields \in Seq(V), NEW l \in 0..Len(fields), NEW m \in 0..l,
         NEW k \in Nat, \A i \in m + 1 .. l : Len(Encoded(fields[i])) <= k
  PROVE  Upto(fields, l) <= Upto(fields, m) + (l - m) * k
<1>0. Len(fields) \in Nat
  OBVIOUS
<1>1. PICK u : u = [i \in 0..Len(fields) |-> Upto(fields, i)]
  OBVIOUS
<1>2. \A i \in 0..Len(fields) : u[i] \in Nat
  BY <1>1, Places
<1>3. ASSUME NEW i \in m + 1 .. l PROVE u[i] <= u[i - 1] + k
  <2>1. i \in 1..Len(fields) /\ i \in 0..Len(fields) /\ i - 1 \in 0..Len(fields)
    BY <1>0
  <2>2. Upto(fields, i) = Upto(fields, i - 1) + Len(Encoded(fields[i]))
    BY <2>1, Places
  <2>3. fields[i] \in V
    BY <2>1
  <2>4. IsValue(fields[i])
    BY <2>3 DEF Packable
  <2>5. Len(Encoded(fields[i])) \in Nat
    BY <2>4, EncodedBytes
  <2>6. u[i] = u[i - 1] + Len(Encoded(fields[i])) /\ u[i - 1] \in Nat
    BY <2>1, <2>2, <1>1, <1>2
  <2> QED BY <2>5, <2>6
<1> DEFINE U == {j \in Nat : m + j <= l => u[m + j] <= u[m] + j * k}
<1>4. 0 \in U
  <2>1. m + 0 = m /\ m \in 0..Len(fields) /\ 0 * k = 0
    BY <1>0
  <2>2. u[m] <= u[m] + 0
    BY <2>1, <1>2
  <2> QED BY <2>1, <2>2
<1>5. ASSUME NEW j \in Nat, j \in U PROVE j + 1 \in U
  <2>1. SUFFICES ASSUME m + (j + 1) <= l PROVE u[m + (j + 1)] <= u[m] + (j + 1) * k
    OBVIOUS
  <2>2. PICK i \in Nat : i = m + (j + 1)
    OBVIOUS
  <2>3. i \in m + 1 .. l /\ i - 1 = m + j /\ i \in 0..Len(fields) /\ i - 1 \in 0..Len(fields) /\ m \in 0..Len(fields)
    BY <2>1, <2>2, <1>0
  <2>4. u[i] <= u[i - 1] + k /\ u[i - 1] <= u[m] + j * k
    BY <2>1, <2>3, <1>3, <1>5
  <2>5. PICK x, y, z \in Nat : x = u[i] /\ y = u[i - 1] /\ z = u[m]
    BY <2>3, <1>2
  <2>6. j * k \in Nat /\ (j + 1) * k = j * k + k
    OBVIOUS
  <2>7. PICK c, d \in Nat : c = j * k /\ d = (j + 1) * k
    <3>1. (j + 1) * k \in Nat
      OBVIOUS
    <3> QED BY <3>1, <2>6
  <2>8. d = c + k /\ x <= y + k /\ y <= z + c
    BY <2>4, <2>5, <2>6, <2>7
  <2>9. x <= z + d
    BY <2>8
  <2>10. x <= z + (j + 1) * k
    BY <2>7, <2>9
  <2> QED BY <2>2, <2>5, <2>10
<1>6. Nat \subseteq U
  <2> HIDE DEF U
  <2> QED BY <1>4, <1>5, NatSet
<1>7. l - m \in Nat /\ m + (l - m) = l /\ m \in 0..Len(fields)
  BY <1>0
<1>8. u[l] <= u[m] + (l - m) * k
  <2>1. PICK j \in Nat : j = l - m
    BY <1>7
  <2>2. j \in U /\ m + j = l
    BY <2>1, <1>6, <1>7
  <2>3. u[m + j] <= u[m] + j * k
    BY <2>2, <1>7
  <2> QED BY <2>1, <2>2, <2>3
<1> QED BY <1>1, <1>7, <1>8

\* What the fields of nodes and headers hold.
FieldValue == Int \cup BOOLEAN \cup Seq(Byte) \cup [block : Int, offset : Int]
Fields == [type : Types, v : FieldValue]

\* A field for each member of a sequence.
LEMMA EachField ==
  ASSUME NEW type \in Types, NEW s \in Seq(FieldValue)
  PROVE  /\ Each(type, s) \in Seq(Fields) /\ Len(Each(type, s)) = Len(s)
         /\ \A i \in 1..Len(s) : Each(type, s)[i] = Field(type, s[i])
<1>1. \A i \in 1..Len(s) : Field(type, s[i]) \in Fields
  <2>1. \A i \in 1..Len(s) : s[i] \in FieldValue
    OBVIOUS
  <2> QED BY <2>1 DEF Field, Fields
<1>2. Each(type, s) = [i \in 1..Len(s) |-> Field(type, s[i])]
  BY DEF Each
<1>3. Len(s) \in Nat
  OBVIOUS
<1>4. PICK t, n : t = Each(type, s) /\ n = Len(s)
  OBVIOUS
<1>5. n \in Nat /\ t \in [1..n -> Fields] /\ \A i \in 1..n : t[i] = Field(type, s[i])
  BY <1>1, <1>2, <1>3, <1>4
<1>6. t \in Seq(Fields) /\ Len(t) = n
  BY <1>5
<1> QED BY <1>4, <1>5, <1>6

\* The same type again and again.
LEMMA TimesOf ==
  ASSUME NEW type \in Types, NEW n \in Nat
  PROVE  /\ Times(type, n) \in Seq(Types) /\ Len(Times(type, n)) = n
         /\ \A i \in 1..n : Times(type, n)[i] = type
<1>1. PICK t : t = Times(type, n)
  OBVIOUS
<1>2. t \in [1..n -> Types] /\ \A i \in 1..n : t[i] = type
  BY <1>1 DEF Times
<1>3. t \in Seq(Types) /\ Len(t) = n
  BY <1>2
<1> QED BY <1>1, <1>2, <1>3

\* The types of the fields of blocks.
LEMMA FieldTypes == {"uint32", "bool", "uint16", "int16", "int32", "string", "locator"} \subseteq Types
BY Widths DEF Types

\* The fields every node begins with.
LEMMA HeadFieldsAre ==
  ASSUME NEW node, IsNode(node)
  PROVE  /\ HeadFields(node) \in Seq(Fields) /\ Len(HeadFields(node)) = 7
         /\ HeadFields(node)[1] = Field("uint32", node.id)
         /\ HeadFields(node)[2] = Field("uint32", node.parentId)
         /\ HeadFields(node)[3] = Field("uint32", node.leftId)
         /\ HeadFields(node)[4] = Field("uint32", node.rightId)
         /\ HeadFields(node)[5] = Field("bool", node.leaf)
         /\ HeadFields(node)[6] = Field("uint16", Len(node.keys))
         /\ HeadFields(node)[7] = Field("int16", node.rank)
<1>1. /\ node.id \in Int /\ node.parentId \in Int /\ node.leftId \in Int /\ node.rightId \in Int
      /\ node.leaf \in BOOLEAN /\ Len(node.keys) \in Int /\ node.rank \in Int
  BY DEF IsNode
<1>2. \A type \in Types : \A v \in Int \cup BOOLEAN : Field(type, v) \in Fields
  BY DEF Field, Fields, FieldValue
<1>4. \A type \in {"uint32", "bool", "uint16", "int16"} : type \in Types
  BY FieldTypes
<1>3. /\ Field("uint32", node.id) \in Fields /\ Field("uint32", node.parentId) \in Fields
      /\ Field("uint32", node.leftId) \in Fields /\ Field("uint32", node.rightId) \in Fields
      /\ Field("bool", node.leaf) \in Fields /\ Field("uint16", Len(node.keys)) \in Fields
      /\ Field("int16", node.rank) \in Fields
  BY <1>1, <1>2, <1>4
<1> QED BY <1>3 DEF HeadFields

\* What the fields of a node are: its own, then its n keys, then its m values
\* or children.
NodeShape(node, n, m, keys, last, lastType) ==
  /\ n = Len(node.keys) /\ m = (IF node.leaf THEN n ELSE n + 1)
  /\ keys = node.keys /\ last = (IF node.leaf THEN node.values ELSE node.children)
  /\ Len(last) = m /\ lastType = (IF node.leaf THEN "locator" ELSE "uint32")
  /\ NodeFields(node) \in Seq(Fields) /\ Len(NodeFields(node)) = 7 + n + m
  /\ \A i \in 1..7 : NodeFields(node)[i] = HeadFields(node)[i]
  /\ \A i \in 1..n : NodeFields(node)[7 + i] = Field("string", keys[i])
  /\ \A i \in 1..m : NodeFields(node)[7 + n + i] = Field(lastType, last[i])

\* The fields of a node, in order.
LEMMA NodeFieldsAre ==
  ASSUME NEW node, IsNode(node)
  PROVE  \E n \in Nat, m \in Nat, keys \in Seq(FieldValue), last \in Seq(FieldValue), lastType \in Types :
           NodeShape(node, n, m, keys, last, lastType)
<1>1. /\ node.keys \in Seq(Seq(Byte)) /\ node.values \in Seq([block : Int, offset : Int])
      /\ node.children \in Seq(Int) /\ node.leaf \in BOOLEAN
  BY DEF IsNode
<1>2. PICK n \in Nat : n = Len(node.keys)
  BY <1>1
<1>3. PICK last : last = IF node.leaf THEN node.values ELSE node.children
  OBVIOUS
<1>4. PICK keys : keys = node.keys
  OBVIOUS
<1>5. keys \in Seq(FieldValue) /\ last \in Seq(FieldValue)
  <2>1. /\ Seq(Byte) \subseteq FieldValue /\ Int \subseteq FieldValue
        /\ [block : Int, offset : Int] \subseteq FieldValue
    BY DEF FieldValue
  <2>2. \A S, T : S \subseteq T => Seq(S) \subseteq Seq(T)
    OBVIOUS
  <2>3. CASE node.leaf
    BY <2>1, <2>2, <2>3, <1>1, <1>3, <1>4
  <2>4. CASE ~ node.leaf
    BY <2>1, <2>2, <2>4, <1>1, <1>3, <1>4
  <2> QED BY <2>3, <2>4
<1>6. PICK lastType \in Types : lastType = IF node.leaf THEN "locator" ELSE "uint32"
  BY FieldTypes
<1>7. PICK h, k, l : h = HeadFields(node) /\ k = Each("string", keys) /\ l = Each(lastType, last)
  OBVIOUS
<1>8. h \in Seq(Fields) /\ Len(h) = 7
  BY <1>7, HeadFieldsAre
<1>9. k \in Seq(Fields) /\ Len(k) = n /\ \A i \in 1..n : k[i] = Field("string", keys[i])
  <2>1. "string" \in Types
    BY FieldTypes
  <2> QED BY <2>1, <1>2, <1>4, <1>5, <1>7, EachField
<1>10. l \in Seq(Fields) /\ Len(l) = Len(last) /\ \A i \in 1..Len(last) : l[i] = Field(lastType, last[i])
  BY <1>5, <1>7, EachField
<1>11. NodeFields(node) = (h \o k) \o l
  <2>1. CASE node.leaf
    BY <2>1, <1>3, <1>4, <1>6, <1>7 DEF NodeFields
  <2>2. CASE ~ node.leaf
    BY <2>2, <1>3, <1>4, <1>6, <1>7 DEF NodeFields
  <2> QED BY <2>1, <2>2
<1>12. PICK hk : hk = h \o k
  OBVIOUS
<1>13. /\ hk \in Seq(Fields) /\ Len(hk) = 7 + n
       /\ \A i \in 1 .. 7 + n : hk[i] = IF i <= 7 THEN h[i] ELSE k[i - 7]
  <2>1. /\ h \o k \in Seq(Fields)
        /\ Len(h \o k) = Len(h) + Len(k)
        /\ \A i \in 1 .. Len(h) + Len(k) : (h \o k)[i] = IF i <= Len(h) THEN h[i] ELSE k[i - Len(h)]
    BY <1>8, <1>9, ConcatProperties
  <2> QED BY <2>1, <1>8, <1>9, <1>12
<1>14. PICK M \in Nat : M = Len(last)
  BY <1>5
<1>15. PICK f : f = NodeFields(node)
  OBVIOUS
<1>16. /\ f \in Seq(Fields) /\ Len(f) = 7 + n + M
       /\ \A i \in 1 .. 7 + n + M : f[i] = IF i <= 7 + n THEN hk[i] ELSE l[i - (7 + n)]
  <2>0. hk \in Seq(Fields) /\ l \in Seq(Fields)
    BY <1>10, <1>13
  <2>1. /\ hk \o l \in Seq(Fields)
        /\ Len(hk \o l) = Len(hk) + Len(l)
        /\ \A i \in 1 .. Len(hk) + Len(l) : (hk \o l)[i] = IF i <= Len(hk) THEN hk[i] ELSE l[i - Len(hk)]
    BY <2>0, ConcatProperties
  <2> QED BY <2>1, <1>10, <1>11, <1>12, <1>13, <1>14, <1>15
<1>17. \A i \in 1..7 : f[i] = h[i]
  <2>1. \A i \in 1..7 : i \in 1 .. 7 + n /\ i \in 1 .. 7 + n + M /\ i <= 7 /\ i <= 7 + n
    OBVIOUS
  <2> QED BY <2>1, <1>13, <1>16
<1>18. \A i \in 1..n : f[7 + i] = Field("string", keys[i])
  <2>1. ASSUME NEW i \in 1..n PROVE f[7 + i] = Field("string", keys[i])
    <3>1. /\ 7 + i \in 1 .. 7 + n /\ 7 + i \in 1 .. 7 + n + M /\ ~ (7 + i <= 7) /\ 7 + i <= 7 + n
          /\ (7 + i) - 7 = i
      OBVIOUS
    <3>2. f[7 + i] = hk[7 + i]
      BY <3>1, <1>16
    <3>3. hk[7 + i] = k[i]
      BY <3>1, <1>13
    <3> QED BY <3>2, <3>3, <1>9
  <2> QED BY <2>1
<1>19. \A i \in 1..M : f[7 + n + i] = Field(lastType, last[i])
  <2>1. ASSUME NEW i \in 1..M PROVE f[7 + n + i] = Field(lastType, last[i])
    <3>1. 7 + n + i \in 1 .. 7 + n + M /\ ~ (7 + n + i <= 7 + n) /\ (7 + n + i) - (7 + n) = i
      OBVIOUS
    <3>2. f[7 + n + i] = l[i]
      BY <3>1, <1>16
    <3> QED BY <3>2, <1>10, <1>14
  <2> QED BY <2>1
<1>20. M = IF node.leaf THEN n ELSE n + 1
  BY <1>2, <1>3, <1>14 DEF IsNode
<1>21. /\ n = Len(node.keys) /\ M = (IF node.leaf THEN n ELSE n + 1)
       /\ keys = node.keys /\ last = (IF node.leaf THEN node.values ELSE node.children)
       /\ Len(last) = M /\ lastType = (IF node.leaf THEN "locator" ELSE "uint32")
       /\ f \in Seq(Fields) /\ Len(f) = 7 + n + M
       /\ \A i \in 1..7 : f[i] = HeadFields(node)[i]
       /\ \A i \in 1..n : f[7 + i] = Field("string", keys[i])
       /\ \A i \in 1..M : f[7 + n + i] = Field(lastType, last[i])
  BY <1>2, <1>3, <1>4, <1>6, <1>7, <1>14, <1>16, <1>17, <1>18, <1>19, <1>20
<1>22. NodeShape(node, n, M, keys, last, lastType)
  BY <1>15, <1>21 DEF NodeShape
<1> QED BY <1>5, <1>22

\* What a field comes back as.
LEMMA MeantField ==
  ASSUME NEW type, NEW v
  PROVE  /\ Field(type, v).type = type
         /\ Meant(Field(type, v)).v = IF type = "locator" THEN Normalized(v) ELSE v
<1>1. Field(type, v) = [type |-> type, v |-> v]
  BY DEF Field
<1>2. CASE type = "locator"
  BY <1>1, <1>2 DEF Meant
<1>3. CASE type # "locator"
  BY <1>1, <1>3 DEF Meant
<1> QED BY <1>1, <1>2, <1>3

\* Fields that hold values of their types can be packed.
LEMMA PackedFields ==
  ASSUME NEW fields \in Seq(Fields), Packed(fields)
  PROVE  \E V : Packable(V) /\ fields \in Seq(V)
<1>1. PICK V : V = {fields[i] : i \in 1..Len(fields)}
  OBVIOUS
<1>2. Packable(V)
  BY <1>1 DEF Packable, Packed
<1>3. fields \in Seq(V)
  <2>1. fields \in [1..Len(fields) -> V] /\ Len(fields) \in Nat
    BY <1>1
  <2> QED BY <2>1
<1> QED BY <1>2, <1>3

\* The first types that deserialize_node asks for are those of the first fields.
LEMMA HeadTypesAre ==
  ASSUME NEW node, IsNode(node)
  PROVE  \A i \in 1..7 : HeadFields(node)[i].type = HeadTypes[i]
<1>1. \A type, v : Field(type, v).type = type
  BY MeantField
<1> QED BY <1>1, HeadFieldsAre DEF HeadTypes

\* The types that deserialize_node asks for, of a node with n keys.
TypesOf(leaf, n) == HeadTypes \o Times("string", n) \o LastTypes(leaf, n)

\* They are those of the fields.
LEMMA NodeTypes ==
  ASSUME NEW node, IsNode(node), NEW n \in Nat, NEW m \in Nat, NEW keys, NEW last,
         NEW lastType \in Types, NodeShape(node, n, m, keys, last, lastType)
  PROVE  /\ Len(TypesOf(node.leaf, n)) = 7 + n + m
         /\ \A i \in 1 .. 7 + n + m : TypesOf(node.leaf, n)[i] = NodeFields(node)[i].type
<1>1. PICK h, k, l : h = HeadTypes /\ k = Times("string", n) /\ l = Times(lastType, m)
  OBVIOUS
<1>2. h \in Seq(Types) /\ Len(h) = 7
  <2>1. \A type \in {"uint32", "bool", "uint16", "int16"} : type \in Types
    BY FieldTypes
  <2>2. /\ "uint32" \in Types /\ "bool" \in Types /\ "uint16" \in Types /\ "int16" \in Types
    BY <2>1
  <2> QED BY <2>2, <1>1 DEF HeadTypes
<1>3. k \in Seq(Types) /\ Len(k) = n /\ \A i \in 1..n : k[i] = "string"
  <2>1. "string" \in Types
    BY FieldTypes
  <2> QED BY <2>1, <1>1, TimesOf
<1>4. l \in Seq(Types) /\ Len(l) = m /\ \A i \in 1..m : l[i] = lastType
  BY <1>1, TimesOf
<1>5. l = LastTypes(node.leaf, n)
  <2>1. CASE node.leaf
    BY <2>1, <1>1 DEF NodeShape, LastTypes
  <2>2. CASE ~ node.leaf
    BY <2>2, <1>1 DEF NodeShape, LastTypes
  <2> QED BY <2>1, <2>2
<1>6. PICK hk : hk = h \o k
  OBVIOUS
<1>7. /\ hk \in Seq(Types) /\ Len(hk) = 7 + n
      /\ \A i \in 1 .. 7 + n : hk[i] = IF i <= 7 THEN h[i] ELSE k[i - 7]
  <2>1. /\ h \o k \in Seq(Types)
        /\ Len(h \o k) = Len(h) + Len(k)
        /\ \A i \in 1 .. Len(h) + Len(k) : (h \o k)[i] = IF i <= Len(h) THEN h[i] ELSE k[i - Len(h)]
    BY <1>2, <1>3, ConcatProperties
  <2> QED BY <2>1, <1>2, <1>3, <1>6
<1>8. PICK ty : ty = hk \o l
  OBVIOUS
<1>9. /\ Len(ty) = 7 + n + m
      /\ \A i \in 1 .. 7 + n + m : ty[i] = IF i <= 7 + n THEN hk[i] ELSE l[i - (7 + n)]
  <2>0. hk \in Seq(Types) /\ l \in Seq(Types)
    BY <1>4, <1>7
  <2>1. /\ Len(hk \o l) = Len(hk) + Len(l)
        /\ \A i \in 1 .. Len(hk) + Len(l) : (hk \o l)[i] = IF i <= Len(hk) THEN hk[i] ELSE l[i - Len(hk)]
    BY <2>0, ConcatProperties
  <2> QED BY <2>1, <1>4, <1>7, <1>8
<1>10. PICK f : f = NodeFields(node)
  OBVIOUS
<1>11. ASSUME NEW i \in 1 .. 7 + n + m PROVE ty[i] = f[i].type
  <2>1. CASE i \in 1..7
    <3>1. i \in 1 .. 7 + n /\ i <= 7 /\ i <= 7 + n
      BY <2>1
    <3>2. ty[i] = h[i]
      BY <3>1, <1>7, <1>9
    <3>3. f[i] = HeadFields(node)[i]
      BY <2>1, <1>10 DEF NodeShape
    <3>4. \A j \in 1..7 : HeadFields(node)[j].type = HeadTypes[j]
      BY HeadTypesAre
    <3> QED BY <2>1, <3>2, <3>3, <3>4, <1>1
  <2>2. CASE i \in 8 .. 7 + n
    <3>1. PICK j \in 1..n : i = 7 + j /\ i - 7 = j
      <4>1. i - 7 \in 1..n /\ i = 7 + (i - 7)
        BY <2>2
      <4> QED BY <4>1
    <3>2. i \in 1 .. 7 + n /\ ~ (i <= 7) /\ i <= 7 + n
      BY <2>2
    <3>3. ty[i] = "string"
      BY <3>1, <3>2, <1>3, <1>7, <1>9
    <3>4. f[i] = Field("string", keys[j])
      BY <3>1, <1>10 DEF NodeShape
    <3> QED BY <3>3, <3>4, MeantField
  <2>3. CASE i \in 8 + n .. 7 + n + m
    <3>1. PICK j \in 1..m : i = 7 + n + j /\ i - (7 + n) = j
      <4>1. i - (7 + n) \in 1..m /\ i = 7 + n + (i - (7 + n))
        BY <2>3
      <4> QED BY <4>1
    <3>2. ~ (i <= 7 + n)
      BY <2>3
    <3>3. ty[i] = lastType
      BY <3>1, <3>2, <1>4, <1>9
    <3>4. f[i] = Field(lastType, last[j])
      BY <3>1, <1>10 DEF NodeShape
    <3> QED BY <3>3, <3>4, MeantField
  <2> QED BY <2>1, <2>2, <2>3
<1>12. ty = TypesOf(node.leaf, n)
  BY <1>1, <1>5, <1>6, <1>8 DEF TypesOf
<1> QED BY <1>9, <1>10, <1>11, <1>12

\* The chain that serialize_node packs is the chain that deserialize_node reads.
LEMMA NodeReadsBack ==
  ASSUME NEW node, IsNode(node), NEW bytes \in Seq(Byte), Begins(bytes, serialize_node(node))
  PROVE  deserialize_node(bytes)
           = [node EXCEPT !.values = [i \in DOMAIN @ |-> Normalized(@[i])]]
<1>1. PICK n \in Nat, m \in Nat, keys \in Seq(FieldValue), last \in Seq(FieldValue), lastType \in Types :
        NodeShape(node, n, m, keys, last, lastType)
  BY NodeFieldsAre
<1>2. PICK f : f = NodeFields(node)
  OBVIOUS
<1>3. f \in Seq(Fields) /\ Len(f) = 7 + n + m /\ Packed(f)
  BY <1>1, <1>2 DEF NodeShape, IsNode
<1>4. PICK V : Packable(V) /\ f \in Seq(V)
  BY <1>3, PackedFields
<1>5. Begins(bytes, Bytes(f))
  BY <1>2 DEF serialize_node
<1>6. PICK ty : ty = TypesOf(node.leaf, n)
  OBVIOUS
<1>27. Len(ty) = 7 + n + m /\ \A i \in 1 .. 7 + n + m : ty[i] = f[i].type
  BY <1>1, <1>2, <1>6, NodeTypes
<1>7. PICK v : v = Chain(ty, bytes)
  OBVIOUS
<1>8. v = [i \in 1 .. 7 + n + m |-> Meant(f[i]).v]
  <2>1. PICK N \in 0..Len(f) : N = 7 + n + m
    BY <1>3
  <2>2. Len(ty) = N /\ \A i \in 1..N : ty[i] = f[i].type
    BY <2>1, <1>27
  <2>3. Chain(ty, bytes) = [i \in 1..N |-> Meant(f[i]).v]
    BY <2>2, <1>4, <1>5, ChainReads
  <2> QED BY <2>1, <2>3, <1>7
<1>9. PICK head : head = Chain(HeadTypes, bytes)
  OBVIOUS
<1>10. head = [i \in 1..7 |-> Meant(f[i]).v]
  <2>1. PICK N \in 0..Len(f) : N = 7
    BY <1>3
  <2>3. Len(HeadTypes) = N
    BY <2>1 DEF HeadTypes
  <2>2. \A i \in 1..7 : HeadTypes[i] = f[i].type
    <3>1. \A i \in 1..7 : f[i] = HeadFields(node)[i]
      BY <1>1, <1>2 DEF NodeShape
    <3>2. \A i \in 1..7 : HeadFields(node)[i].type = HeadTypes[i]
      BY HeadTypesAre
    <3> QED BY <3>1, <3>2
  <2>4. PICK ht : ht = HeadTypes
    OBVIOUS
  <2>5. Len(ht) = N /\ \A i \in 1..N : ht[i] = f[i].type
    BY <2>1, <2>2, <2>3, <2>4
  <2>6. Chain(ht, bytes) = [i \in 1..N |-> Meant(f[i]).v]
    BY <2>5, <1>4, <1>5, ChainReads
  <2> QED BY <2>1, <2>4, <2>6, <1>9
<1>11. \A i \in 1..7 : head[i] = Meant(HeadFields(node)[i]).v /\ v[i] = Meant(HeadFields(node)[i]).v
  <2>1. \A i \in 1..7 : i \in 1 .. 7 + n + m
    OBVIOUS
  <2>2. \A i \in 1..7 : f[i] = HeadFields(node)[i]
    BY <1>1, <1>2 DEF NodeShape
  <2> QED BY <2>1, <2>2, <1>8, <1>10
<1>12. /\ v[1] = node.id /\ v[2] = node.parentId /\ v[3] = node.leftId /\ v[4] = node.rightId
       /\ head[5] = node.leaf /\ head[6] = n /\ v[7] = node.rank
  <2>1. n = Len(node.keys)
    BY <1>1 DEF NodeShape
  <2>2. \A x : /\ Meant(Field("uint32", x)).v = x /\ Meant(Field("bool", x)).v = x
               /\ Meant(Field("uint16", x)).v = x /\ Meant(Field("int16", x)).v = x
    BY MeantField
  <2> QED BY <2>1, <2>2, <1>11, HeadFieldsAre
<1>13. PICK s : s = [i \in 1..m |-> IF node.leaf THEN Normalized(last[i]) ELSE last[i]]
  OBVIOUS
<1>14. PICK W : W = {v[i] : i \in 1 .. 7 + n + m} \cup {keys[i] : i \in 1..n} \cup {s[i] : i \in 1..m}
  OBVIOUS
<1>15. v \in Seq(W) /\ Len(v) = 7 + n + m
  <2>1. v \in [1 .. 7 + n + m -> W] /\ 7 + n + m \in Nat
    BY <1>8, <1>14
  <2> QED BY <2>1
<1>16. s \in Seq(W) /\ Len(s) = m
  <2>1. s \in [1..m -> W]
    BY <1>13, <1>14
  <2> QED BY <2>1
<1>17. keys \in Seq(W) /\ Len(keys) = n
  <2>1. Len(keys) = n /\ keys \in [1..Len(keys) -> FieldValue]
    BY <1>1 DEF NodeShape
  <2>2. keys \in [1..n -> W]
    BY <2>1, <1>14
  <2> QED BY <2>1, <2>2
<1>18. \A i \in 1..n : v[7 + i] = keys[i]
  <2>1. \A i \in 1..n : 7 + i \in 1 .. 7 + n + m
    OBVIOUS
  <2>2. \A i \in 1..n : f[7 + i] = Field("string", keys[i])
    BY <1>1, <1>2 DEF NodeShape
  <2>3. \A x : Meant(Field("string", x)).v = x
    BY MeantField
  <2> QED BY <2>1, <2>2, <2>3, <1>8
<1>19. \A i \in 1..m : v[7 + n + i] = s[i]
  <2>1. \A i \in 1..m : 7 + n + i \in 1 .. 7 + n + m
    OBVIOUS
  <2>2. \A i \in 1..m : f[7 + n + i] = Field(lastType, last[i])
    BY <1>1, <1>2 DEF NodeShape
  <2>3. \A x : Meant(Field(lastType, x)).v = IF node.leaf THEN Normalized(x) ELSE x
    BY <1>1, MeantField DEF NodeShape
  <2> QED BY <2>1, <2>2, <2>3, <1>8, <1>13
<1>20. SubSeq(v, 8, 7 + n) = keys
  <2>1. 7 + Len(keys) <= Len(v) /\ \A i \in 1..Len(keys) : v[7 + i] = keys[i]
    BY <1>15, <1>17, <1>18
  <2>2. SubSeq(v, 7 + 1, 7 + Len(keys)) = keys
    BY <2>1, <1>15, <1>17, SubSeqIs
  <2>3. 7 + 1 = 8
    OBVIOUS
  <2> QED BY <2>2, <2>3, <1>17
<1>21. SubSeq(v, 8 + n, Len(v)) = s
  <2>1. 7 + n + Len(s) <= Len(v) /\ \A i \in 1..Len(s) : v[7 + n + i] = s[i]
    BY <1>15, <1>16, <1>19
  <2>2. SubSeq(v, (7 + n) + 1, (7 + n) + Len(s)) = s
    <3>1. 7 + n \in Nat
      OBVIOUS
    <3> QED BY <2>1, <3>1, <1>15, <1>16, SubSeqIs
  <2>3. (7 + n) + 1 = 8 + n /\ (7 + n) + Len(s) = Len(v)
    BY <1>15, <1>16
  <2> QED BY <2>2, <2>3
<1>22. deserialize_node(bytes)
         = [id |-> v[1], parentId |-> v[2], leftId |-> v[3], rightId |-> v[4], leaf |-> node.leaf,
            rank |-> v[7], keys |-> keys,
            values |-> IF node.leaf THEN s ELSE <<>>, children |-> IF node.leaf THEN <<>> ELSE s]
  <2>1. Chain(HeadTypes, bytes)[5] = node.leaf /\ Chain(HeadTypes, bytes)[6] = n
    BY <1>9, <1>12
  <2>2. Chain(HeadTypes \o Times("string", n) \o LastTypes(node.leaf, n), bytes) = v
    BY <1>6, <1>7 DEF TypesOf
  <2>3. deserialize_node(bytes)
          = [id |-> v[1], parentId |-> v[2], leftId |-> v[3], rightId |-> v[4], leaf |-> node.leaf,
             rank |-> v[7], keys |-> SubSeq(v, 8, 7 + n),
             values |-> IF node.leaf THEN SubSeq(v, 8 + n, Len(v)) ELSE <<>>,
             children |-> IF node.leaf THEN <<>> ELSE SubSeq(v, 8 + n, Len(v))]
    BY <2>1, <2>2 DEF deserialize_node
  <2> QED BY <2>3, <1>20, <1>21
<1>23. node \in [id : Int, parentId : Int, leftId : Int, rightId : Int, leaf : BOOLEAN, rank : Int,
                 keys : Seq(Seq(Byte)), values : Seq([block : Int, offset : Int]),
                 children : Seq(Int)]
  BY DEF IsNode
<1>24. PICK values : values = [i \in DOMAIN node.values |-> Normalized(node.values[i])]
  OBVIOUS
<1>25. /\ keys = node.keys
       /\ values = (IF node.leaf THEN s ELSE <<>>)
       /\ node.children = (IF node.leaf THEN <<>> ELSE s)
  <2>1. keys = node.keys
    BY <1>1 DEF NodeShape
  <2>2. CASE node.leaf
    <3>1. last = node.values /\ Len(last) = m
      BY <2>2, <1>1 DEF NodeShape
    <3>2. DOMAIN node.values = 1..m
      BY <3>1
    <3>3. values = s
      BY <2>2, <3>1, <3>2, <1>13, <1>24
    <3>4. Len(node.children) = 0 /\ node.children \in Seq(Int)
      BY <2>2, <1>23 DEF IsNode
    <3>5. node.children = <<>>
      BY <3>4
    <3> QED BY <2>1, <2>2, <3>3, <3>5
  <2>3. CASE ~ node.leaf
    <3>1. last = node.children /\ Len(last) = m
      BY <2>3, <1>1 DEF NodeShape
    <3>2. last = [i \in 1..m |-> last[i]]
      BY <3>1
    <3>3. s = last
      BY <2>3, <3>2, <1>13
    <3>4. Len(node.values) = 0 /\ node.values \in Seq([block : Int, offset : Int])
      BY <2>3, <1>23 DEF IsNode
    <3>5. values = <<>>
      <4>1. node.values = <<>>
        BY <3>4
      <4>2. DOMAIN node.values = {}
        BY <4>1
      <4> QED BY <4>2, <1>24
    <3> QED BY <2>1, <2>3, <3>1, <3>3, <3>5
  <2>4. node.leaf \in BOOLEAN
    BY <1>23
  <2> QED BY <2>2, <2>3, <2>4
<1>26. [node EXCEPT !.values = [i \in DOMAIN @ |-> Normalized(@[i])]]
         = [id |-> node.id, parentId |-> node.parentId, leftId |-> node.leftId,
            rightId |-> node.rightId, leaf |-> node.leaf, rank |-> node.rank, keys |-> node.keys,
            values |-> values, children |-> node.children]
  <2>1. [node EXCEPT !.values = [i \in DOMAIN @ |-> Normalized(@[i])]] = [node EXCEPT !.values = values]
    BY <1>24
  <2>2. node = [id |-> node.id, parentId |-> node.parentId, leftId |-> node.leftId,
                rightId |-> node.rightId, leaf |-> node.leaf, rank |-> node.rank, keys |-> node.keys,
                values |-> node.values, children |-> node.children]
    BY <1>23
  <2> QED BY <2>1, <2>2
<1> QED BY <1>12, <1>22, <1>25, <1>26

\* What a field takes.
LEMMA FieldSize ==
  ASSUME NEW type, NEW v, IsValue(Field(type, v))
  PROVE  Len(Encoded(Field(type, v))) = serializedsize(type, v)
<1>1. Field(type, v).type = type /\ Field(type, v).v = v
  BY DEF Field
<1> QED BY <1>1, EncodedBytes

\* A node takes no more than Compute_Max_B counts on.
LEMMA NodeSize ==
  ASSUME NEW node, IsNode(node), NEW k \in Nat, Longest(node.keys, k)
  PROVE  Len(serialize_node(node)) <= IF node.leaf THEN LeafBytes(Len(node.keys), k, 6)
                                      ELSE InnerBytes(Len(node.keys), k)
<1>1. PICK n \in Nat, m \in Nat, keys \in Seq(FieldValue), last \in Seq(FieldValue), lastType \in Types :
        NodeShape(node, n, m, keys, last, lastType)
  BY NodeFieldsAre
<1>2. PICK f : f = NodeFields(node)
  OBVIOUS
<1>3. f \in Seq(Fields) /\ Len(f) = 7 + n + m /\ Packed(f)
  BY <1>1, <1>2 DEF NodeShape, IsNode
<1>4. PICK V : Packable(V) /\ f \in Seq(V)
  BY <1>3, PackedFields
<1>5. \A i \in 1 .. 7 + n + m : IsValue(f[i])
  BY <1>3 DEF Packed
<1>6. PICK size : size = IF node.leaf THEN 6 ELSE 4
  OBVIOUS
<1>7. \A i \in 1..7 : f[i] = HeadFields(node)[i] /\ IsValue(HeadFields(node)[i])
  <2>1. \A i \in 1..7 : f[i] = HeadFields(node)[i]
    BY <1>1, <1>2 DEF NodeShape
  <2>2. \A i \in 1..7 : i \in 1 .. 7 + n + m
    OBVIOUS
  <2> QED BY <2>1, <2>2, <1>5
<1>8. /\ Len(Encoded(f[1])) = 4 /\ Len(Encoded(f[2])) = 4 /\ Len(Encoded(f[3])) = 4
      /\ Len(Encoded(f[4])) = 4 /\ Len(Encoded(f[5])) = 1 /\ Len(Encoded(f[6])) = 2
      /\ Len(Encoded(f[7])) = 2
  <2>1. \A x : /\ serializedsize("uint32", x) = 4 /\ serializedsize("bool", x) = 1
               /\ serializedsize("uint16", x) = 2 /\ serializedsize("int16", x) = 2
    BY DEF serializedsize, Width
  <2>2. /\ IsValue(Field("uint32", node.id)) /\ IsValue(Field("uint32", node.parentId))
        /\ IsValue(Field("uint32", node.leftId)) /\ IsValue(Field("uint32", node.rightId))
        /\ IsValue(Field("bool", node.leaf)) /\ IsValue(Field("uint16", Len(node.keys)))
        /\ IsValue(Field("int16", node.rank))
    BY <1>7, HeadFieldsAre
  <2>3. /\ Len(Encoded(Field("uint32", node.id))) = 4
        /\ Len(Encoded(Field("uint32", node.parentId))) = 4
        /\ Len(Encoded(Field("uint32", node.leftId))) = 4
        /\ Len(Encoded(Field("uint32", node.rightId))) = 4
        /\ Len(Encoded(Field("bool", node.leaf))) = 1
        /\ Len(Encoded(Field("uint16", Len(node.keys)))) = 2
        /\ Len(Encoded(Field("int16", node.rank))) = 2
    BY <2>1, <2>2, FieldSize
  <2> QED BY <2>3, <1>7, HeadFieldsAre
<1>9. Upto(f, 7) <= 21
  <2>1. \A i \in 0..7 : i \in 0..Len(f)
    BY <1>3
  <2>2. \A i \in 1..7 : i \in 1..Len(f)
    BY <1>3
  <2>3. PICK u : u = [i \in 0..7 |-> Upto(f, i)]
    OBVIOUS
  <2>4. \A i \in 1..7 : Upto(f, i) = Upto(f, i - 1) + Len(Encoded(f[i]))
    BY <2>2, <1>4, Places
  <2>5. \A i \in 1..7 : i \in 0..7 /\ i - 1 \in 0..7
    OBVIOUS
  <2>6. \A i \in 1..7 : u[i] = u[i - 1] + Len(Encoded(f[i]))
    BY <2>3, <2>4, <2>5
  <2>7. u[0] = 0
    BY <2>3, <1>4, Places
  <2>8. u[1] = 4 /\ u[2] = 8 /\ u[3] = 12 /\ u[4] = 16 /\ u[5] = 17 /\ u[6] = 19 /\ u[7] = 21
    <3>1. /\ u[1] = u[0] + 4 /\ u[2] = u[1] + 4 /\ u[3] = u[2] + 4 /\ u[4] = u[3] + 4
          /\ u[5] = u[4] + 1 /\ u[6] = u[5] + 2 /\ u[7] = u[6] + 2
      <4>1. /\ u[1] = u[1 - 1] + Len(Encoded(f[1])) /\ u[2] = u[2 - 1] + Len(Encoded(f[2]))
            /\ u[3] = u[3 - 1] + Len(Encoded(f[3])) /\ u[4] = u[4 - 1] + Len(Encoded(f[4]))
            /\ u[5] = u[5 - 1] + Len(Encoded(f[5])) /\ u[6] = u[6 - 1] + Len(Encoded(f[6]))
            /\ u[7] = u[7 - 1] + Len(Encoded(f[7]))
        BY <2>6
      <4> QED BY <4>1, <1>8
    <3> QED BY <3>1, <2>7
  <2> QED BY <2>3, <2>8
<1>10. Upto(f, 7 + n) <= Upto(f, 7) + ((7 + n) - 7) * k
  <2>1. ASSUME NEW i \in 7 + 1 .. 7 + n PROVE Len(Encoded(f[i])) <= k
    <3>1. PICK j \in 1..n : i = 7 + j
      <4>1. i - 7 \in 1..n /\ i = 7 + (i - 7)
        OBVIOUS
      <4> QED BY <4>1
    <3>2. f[i] = Field("string", keys[j])
      BY <3>1, <1>1, <1>2 DEF NodeShape
    <3>3. i \in 1 .. 7 + n + m
      OBVIOUS
    <3>4. IsValue(Field("string", keys[j]))
      BY <3>2, <3>3, <1>5
    <3>5. serializedsize("string", keys[j]) = 4 + Len(keys[j])
      BY DEF serializedsize
    <3>6. 4 + Len(keys[j]) <= k
      <4>1. keys = node.keys /\ j \in DOMAIN keys
        <5>1. keys = node.keys /\ Len(keys) = n
          BY <1>1 DEF NodeShape
        <5> QED BY <5>1
      <4> QED BY <4>1 DEF Longest
    <3> QED BY <3>2, <3>4, <3>5, <3>6, FieldSize
  <2>2. PICK l \in 0..Len(f) : l = 7 + n
    BY <1>3
  <2>3. PICK a \in 0..l : a = 7
    BY <2>2
  <2>4. \A i \in a + 1 .. l : Len(Encoded(f[i])) <= k
    BY <2>1, <2>2, <2>3
  <2>5. Upto(f, l) <= Upto(f, a) + (l - a) * k
    BY <2>4, <1>4, UptoBound
  <2> QED BY <2>2, <2>3, <2>5
<1>11. Upto(f, 7 + n + m) <= Upto(f, 7 + n) + ((7 + n + m) - (7 + n)) * size
  <2>1. ASSUME NEW i \in (7 + n) + 1 .. 7 + n + m PROVE Len(Encoded(f[i])) <= size
    <3>1. PICK j \in 1..m : i = 7 + n + j
      <4>1. i - (7 + n) \in 1..m /\ i = 7 + n + (i - (7 + n))
        OBVIOUS
      <4> QED BY <4>1
    <3>2. f[i] = Field(lastType, last[j])
      BY <3>1, <1>1, <1>2 DEF NodeShape
    <3>3. i \in 1 .. 7 + n + m
      OBVIOUS
    <3>4. IsValue(Field(lastType, last[j]))
      BY <3>2, <3>3, <1>5
    <3>5. serializedsize(lastType, last[j]) = size
      BY <1>1, <1>6 DEF NodeShape, serializedsize, Width
    <3>6. size <= size
      BY <1>6
    <3> QED BY <3>2, <3>4, <3>5, <3>6, FieldSize
  <2>2. PICK l \in 0..Len(f) : l = 7 + n + m
    BY <1>3
  <2>3. PICK a \in 0..l : a = 7 + n
    BY <2>2
  <2>4. \A i \in a + 1 .. l : Len(Encoded(f[i])) <= size
    BY <2>1, <2>2, <2>3
  <2>5. Upto(f, l) <= Upto(f, a) + (l - a) * size
    <3>1. size \in Nat
      BY <1>6
    <3> QED BY <2>4, <3>1, <1>4, UptoBound
  <2> QED BY <2>2, <2>3, <2>5
<1>12. Len(serialize_node(node)) = Upto(f, 7 + n + m)
  <2>1. Upto(f, Len(f)) = Len(Bytes(f))
    BY <1>4, Places
  <2> QED BY <2>1, <1>2, <1>3 DEF serialize_node
<1>13. Upto(f, 7) \in Nat /\ Upto(f, 7 + n) \in Nat /\ Upto(f, 7 + n + m) \in Nat
  <2>1. 7 \in 0..Len(f) /\ 7 + n \in 0..Len(f) /\ 7 + n + m \in 0..Len(f)
    BY <1>3
  <2> QED BY <2>1, <1>4, Places
<1>14. PICK x, y, z \in Nat : x = Upto(f, 7) /\ y = Upto(f, 7 + n) /\ z = Upto(f, 7 + n + m)
  BY <1>13
<1>15. PICK nk \in Nat : nk = n * k
  OBVIOUS
<1>16. x <= 21 /\ y <= x + nk
  <2>1. (7 + n) - 7 = n
    OBVIOUS
  <2> QED BY <2>1, <1>9, <1>10, <1>14, <1>15
<1>17. n = Len(node.keys) /\ m = (IF node.leaf THEN n ELSE n + 1)
  BY <1>1 DEF NodeShape
<1>18. z <= y + m * size
  <2>1. (7 + n + m) - (7 + n) = m
    OBVIOUS
  <2> QED BY <2>1, <1>11, <1>14
<1>19. CASE node.leaf
  <2>1. z <= y + n * 6
    BY <1>6, <1>17, <1>18, <1>19
  <2>2. z <= 21 + nk + n * 6
    BY <2>1, <1>16
  <2>3. LeafBytes(n, k, 6) = 21 + nk + n * 6
    BY <1>15 DEF LeafBytes, HEAD_SIZE
  <2> QED BY <2>2, <2>3, <1>12, <1>14, <1>17, <1>19
<1>20. CASE ~ node.leaf
  <2>1. z <= y + (n + 1) * 4
    BY <1>6, <1>17, <1>18, <1>20
  <2>2. z <= 21 + nk + (n + 1) * 4
    BY <2>1, <1>16
  <2>3. InnerBytes(n, k) = 21 + nk + (n + 1) * 4
    BY <1>15 DEF InnerBytes, HEAD_SIZE
  <2> QED BY <2>2, <2>3, <1>12, <1>14, <1>17, <1>20
<1> QED BY <1>19, <1>20

\* Pairs of members of S.
Pairs(ss, S, n, a, b) ==
  ss = [i \in 1..n |-> <<a[i], b[i]>>] /\ \A i \in 1..n : a[i] \in S /\ b[i] \in S

\* A sequence of 2n members of S, in turn those of a and of b.
InTurn(s, S, n, a, b) ==
  /\ s \in Seq(S) /\ Len(s) = 2 * n
  /\ \A i \in 1..n : s[2 * i - 1] = a[i] /\ s[2 * i] = b[i]

\* Pairs one after the other.
LEMMA FlattenPairs ==
  ASSUME NEW S, NEW n \in Nat, NEW a, NEW b, NEW ss, Pairs(ss, S, n, a, b)
  PROVE  InTurn(FlattenSeq(ss), S, n, a, b)
<1>1. ss = [i \in 1..n |-> <<a[i], b[i]>>] /\ \A i \in 1..n : a[i] \in S /\ b[i] \in S
  BY DEF Pairs
<1>2. ASSUME NEW i \in 1..n
      PROVE  ss[i] \in Seq(S) /\ Len(ss[i]) = 2 /\ ss[i][1] = a[i] /\ ss[i][2] = b[i]
  BY <1>1
<1>3. ss \in Seq(Seq(S)) /\ Len(ss) = n
  <2>1. ss \in [1..n -> Seq(S)]
    BY <1>1, <1>2
  <2> QED BY <2>1
<1>4. PICK c : Joins(c, S, ss) /\ FlattenSeq(ss) = c[Len(ss)]
  BY <1>3, FlattenJoins
<1>5. c \in [0..n -> Seq(S)] /\ c[0] = <<>> /\ \A i \in 1..n : c[i] = c[i - 1] \o ss[i]
  BY <1>3, <1>4 DEF Joins
<1> DEFINE Paired(i) == /\ Len(c[i]) = 2 * i
                        /\ \A j \in 1..i : c[i][2 * j - 1] = a[j] /\ c[i][2 * j] = b[j]
           U == {i \in Nat : i <= n => Paired(i)}
<1>6. 0 \in U
  BY <1>5
<1>7. ASSUME NEW i \in Nat, i \in U PROVE i + 1 \in U
  <2>1. SUFFICES ASSUME i + 1 <= n PROVE Paired(i + 1)
    <3> HIDE DEF Paired
    <3> QED OBVIOUS
  <2>2. PICK k \in 1..n : k = i + 1 /\ k - 1 = i
    BY <2>1
  <2>3. i \in 0..n /\ k \in 0..n /\ i <= n
    BY <2>2
  <2>4. PICK p, q, r : p = c[i] /\ q = ss[k] /\ r = c[k]
    OBVIOUS
  <2>5. /\ p \in Seq(S) /\ Len(p) = 2 * i /\ \A j \in 1..i : p[2 * j - 1] = a[j] /\ p[2 * j] = b[j]
    BY <2>3, <2>4, <1>5, <1>7
  <2>6. q \in Seq(S) /\ Len(q) = 2 /\ q[1] = a[k] /\ q[2] = b[k]
    BY <2>4, <1>2
  <2>7. r = p \o q
    BY <2>2, <2>4, <1>5
  <2>8. /\ Len(r) = 2 * i + 2
        /\ \A j \in 1 .. 2 * i + 2 : r[j] = IF j <= 2 * i THEN p[j] ELSE q[j - 2 * i]
    <3>1. /\ Len(p \o q) = Len(p) + Len(q)
          /\ \A j \in 1 .. Len(p) + Len(q) : (p \o q)[j] = IF j <= Len(p) THEN p[j] ELSE q[j - Len(p)]
      BY <2>5, <2>6, ConcatProperties
    <3> QED BY <3>1, <2>5, <2>6, <2>7
  <2>9. ASSUME NEW j \in 1..k PROVE r[2 * j - 1] = a[j] /\ r[2 * j] = b[j]
    <3>1. CASE j = k
      <4>1. /\ 2 * j - 1 \in 1 .. 2 * i + 2 /\ ~ (2 * j - 1 <= 2 * i) /\ (2 * j - 1) - 2 * i = 1
            /\ 2 * j \in 1 .. 2 * i + 2 /\ ~ (2 * j <= 2 * i) /\ 2 * j - 2 * i = 2
        BY <3>1, <2>2
      <4> QED BY <4>1, <3>1, <2>6, <2>8
    <3>2. CASE j # k
      <4>1. /\ j \in 1..i
            /\ 2 * j - 1 \in 1 .. 2 * i + 2 /\ 2 * j - 1 <= 2 * i
            /\ 2 * j \in 1 .. 2 * i + 2 /\ 2 * j <= 2 * i
        BY <3>2, <2>2
      <4> QED BY <4>1, <2>5, <2>8
    <3> QED BY <3>1, <3>2
  <2>10. Len(r) = 2 * k
    BY <2>2, <2>8
  <2> QED BY <2>2, <2>4, <2>9, <2>10
<1>8. Nat \subseteq U
  <2> HIDE DEF U
  <2> QED BY <1>6, <1>7, NatSet
<1>9. Paired(n) /\ c[n] \in Seq(S)
  <2>1. n \in U /\ n <= n /\ n \in 0..n
    BY <1>8
  <2> QED BY <2>1, <1>5
<1>10. FlattenSeq(ss) = c[n]
  BY <1>3, <1>4
<1> QED BY <1>9, <1>10 DEF InTurn

\* The fields of a header block, three of its own and two for each user.
LEMMA HeaderFieldsAre ==
  ASSUME NEW texts \in Seq(Seq(Byte)), NEW n \in Nat, n = Len(texts)
  PROVE  /\ HeaderFields(texts) \in Seq(Fields) /\ Len(HeaderFields(texts)) = 3 + 2 * n
         /\ \A i \in 1..3 : HeaderFields(texts)[i].type = "int32"
         /\ HeaderFields(texts)[3] = Field("int32", n)
         /\ \A i \in 1..n : /\ HeaderFields(texts)[2 * i + 2] = Field("int32", i - 1)
                            /\ HeaderFields(texts)[2 * i + 3] = Field("string", texts[i])
<1>1. PICK a : a = [i \in 1..n |-> Field("int32", i - 1)]
  OBVIOUS
<1>2. PICK b : b = [i \in 1..n |-> Field("string", texts[i])]
  OBVIOUS
<1>3. \A i \in 1..n : a[i] \in Fields /\ b[i] \in Fields
  <2>1. "int32" \in Types /\ "string" \in Types
    BY FieldTypes
  <2>2. \A i \in 1..n : i - 1 \in FieldValue /\ texts[i] \in FieldValue
    BY DEF FieldValue
  <2> QED BY <2>1, <2>2, <1>1, <1>2 DEF Field, Fields
<1>15. PICK ss : ss = [i \in 1..n |-> <<a[i], b[i]>>]
  OBVIOUS
<1>4. PICK s : s = FlattenSeq(ss)
  OBVIOUS
<1>5. s \in Seq(Fields) /\ Len(s) = 2 * n /\ \A i \in 1..n : s[2 * i - 1] = a[i] /\ s[2 * i] = b[i]
  <2>1. Pairs(ss, Fields, n, a, b)
    BY <1>3, <1>15 DEF Pairs
  <2>2. InTurn(FlattenSeq(ss), Fields, n, a, b)
    BY <2>1, FlattenPairs
  <2> QED BY <2>2, <1>4 DEF InTurn
<1>6. s = FlattenSeq([i \in 1..Len(texts) |-> <<Field("int32", i - 1), Field("string", texts[i])>>])
  <2>1. [i \in 1..n |-> <<a[i], b[i]>>] = [i \in 1..n |-> <<Field("int32", i - 1), Field("string", texts[i])>>]
    BY <1>1, <1>2
  <2> QED BY <2>1, <1>4, <1>15
<1>7. PICK first : first = <<Field("int32", MAJOR_VERSION), Field("int32", MINOR_VERSION), Field("int32", n)>>
  OBVIOUS
<1>8. /\ first \in Seq(Fields) /\ Len(first) = 3 /\ first[3] = Field("int32", n)
      /\ \A i \in 1..3 : first[i].type = "int32"
  <2>1. \A v \in Int : Field("int32", v) \in Fields /\ Field("int32", v).type = "int32"
    BY FieldTypes, MeantField DEF Field, Fields, FieldValue
  <2>2. /\ Field("int32", MAJOR_VERSION) \in Fields /\ Field("int32", MINOR_VERSION) \in Fields
        /\ Field("int32", n) \in Fields
    BY <2>1 DEF MAJOR_VERSION, MINOR_VERSION
  <2>3. /\ Field("int32", MAJOR_VERSION).type = "int32" /\ Field("int32", MINOR_VERSION).type = "int32"
        /\ Field("int32", n).type = "int32"
    BY <2>1 DEF MAJOR_VERSION, MINOR_VERSION
  <2> QED BY <2>2, <2>3, <1>7
<1>9. PICK f : f = HeaderFields(texts)
  OBVIOUS
<1>10. f = first \o s
  BY <1>6, <1>7, <1>9 DEF HeaderFields
<1>11. /\ f \in Seq(Fields) /\ Len(f) = 3 + 2 * n
       /\ \A i \in 1 .. 3 + 2 * n : f[i] = IF i <= 3 THEN first[i] ELSE s[i - 3]
  <2>1. /\ first \o s \in Seq(Fields)
        /\ Len(first \o s) = Len(first) + Len(s)
        /\ \A i \in 1 .. Len(first) + Len(s) : (first \o s)[i] = IF i <= Len(first) THEN first[i] ELSE s[i - Len(first)]
    BY <1>5, <1>8, ConcatProperties
  <2> QED BY <2>1, <1>5, <1>8, <1>10
<1>12. \A i \in 1..3 : i \in 1 .. 3 + 2 * n /\ i <= 3
  OBVIOUS
<1>13. \A i \in 1..3 : f[i] = first[i]
  BY <1>11, <1>12
<1>14. ASSUME NEW i \in 1..n PROVE f[2 * i + 2] = Field("int32", i - 1) /\ f[2 * i + 3] = Field("string", texts[i])
  <2>1. /\ 2 * i + 2 \in 1 .. 3 + 2 * n /\ ~ (2 * i + 2 <= 3) /\ (2 * i + 2) - 3 = 2 * i - 1
        /\ 2 * i + 3 \in 1 .. 3 + 2 * n /\ ~ (2 * i + 3 <= 3) /\ (2 * i + 3) - 3 = 2 * i
    OBVIOUS
  <2>2. f[2 * i + 2] = s[2 * i - 1] /\ f[2 * i + 3] = s[2 * i]
    BY <2>1, <1>11
  <2> QED BY <2>2, <1>1, <1>2, <1>5
<1> QED BY <1>8, <1>9, <1>11, <1>13, <1>14

\* The types that readHeader asks for, for the header of n users.
HeaderTypes(n) ==
  <<"int32", "int32", "int32">> \o FlattenSeq([i \in 1..n |-> <<"int32", "string">>])

\* They are those of the fields.
LEMMA HeaderTypesAre ==
  ASSUME NEW texts \in Seq(Seq(Byte)), NEW n \in Nat, n = Len(texts)
  PROVE  /\ Len(HeaderTypes(n)) = 3 + 2 * n
         /\ \A i \in 1 .. 3 + 2 * n : HeaderTypes(n)[i] = HeaderFields(texts)[i].type
<1>1. PICK a : a = [i \in 1..n |-> "int32"]
  OBVIOUS
<1>2. PICK b : b = [i \in 1..n |-> "string"]
  OBVIOUS
<1>3. \A i \in 1..n : a[i] \in Types /\ b[i] \in Types
  BY <1>1, <1>2, FieldTypes
<1>15. PICK ss : ss = [i \in 1..n |-> <<a[i], b[i]>>]
  OBVIOUS
<1>4. PICK s : s = FlattenSeq(ss)
  OBVIOUS
<1>5. s \in Seq(Types) /\ Len(s) = 2 * n /\ \A i \in 1..n : s[2 * i - 1] = a[i] /\ s[2 * i] = b[i]
  <2>1. Pairs(ss, Types, n, a, b)
    BY <1>3, <1>15 DEF Pairs
  <2>2. InTurn(FlattenSeq(ss), Types, n, a, b)
    BY <2>1, FlattenPairs
  <2> QED BY <2>2, <1>4 DEF InTurn
<1>6. s = FlattenSeq([i \in 1..n |-> <<"int32", "string">>])
  <2>1. [i \in 1..n |-> <<a[i], b[i]>>] = [i \in 1..n |-> <<"int32", "string">>]
    BY <1>1, <1>2
  <2> QED BY <2>1, <1>4, <1>15
<1>7. PICK first : first = <<"int32", "int32", "int32">>
  OBVIOUS
<1>8. first \in Seq(Types) /\ Len(first) = 3 /\ \A i \in 1..3 : first[i] = "int32"
  <2>1. "int32" \in Types
    BY FieldTypes
  <2> QED BY <2>1, <1>7
<1>9. PICK ty : ty = HeaderTypes(n)
  OBVIOUS
<1>10. /\ Len(ty) = 3 + 2 * n
       /\ \A i \in 1 .. 3 + 2 * n : ty[i] = IF i <= 3 THEN first[i] ELSE s[i - 3]
  <2>1. /\ Len(first \o s) = Len(first) + Len(s)
        /\ \A i \in 1 .. Len(first) + Len(s) : (first \o s)[i] = IF i <= Len(first) THEN first[i] ELSE s[i - Len(first)]
    BY <1>5, <1>8, ConcatProperties
  <2>2. ty = first \o s
    BY <1>6, <1>7, <1>9 DEF HeaderTypes
  <2> QED BY <2>1, <2>2, <1>5, <1>8
<1>11. ASSUME NEW i \in 1 .. 3 + 2 * n PROVE ty[i] = HeaderFields(texts)[i].type
  <2>1. CASE i <= 3
    <3>1. i \in 1..3
      BY <2>1
    <3>2. HeaderFields(texts)[i].type = "int32"
      BY <3>1, HeaderFieldsAre
    <3> QED BY <3>1, <3>2, <2>1, <1>8, <1>10
  <2>2. ASSUME NEW j \in 1..n, i = 2 * j + 2 PROVE ty[i] = HeaderFields(texts)[i].type
    <3>1. ~ (i <= 3) /\ i - 3 = 2 * j - 1
      BY <2>2
    <3>2. ty[i] = "int32"
      BY <3>1, <1>1, <1>5, <1>10
    <3>3. HeaderFields(texts)[i] = Field("int32", j - 1)
      BY <2>2, HeaderFieldsAre
    <3> QED BY <3>2, <3>3, MeantField
  <2>3. ASSUME NEW j \in 1..n, i = 2 * j + 3 PROVE ty[i] = HeaderFields(texts)[i].type
    <3>1. ~ (i <= 3) /\ i - 3 = 2 * j
      BY <2>3
    <3>2. ty[i] = "string"
      BY <3>1, <1>2, <1>5, <1>10
    <3>3. HeaderFields(texts)[i] = Field("string", texts[j])
      BY <2>3, HeaderFieldsAre
    <3> QED BY <3>2, <3>3, MeantField
  <2>4. i <= 3 \/ (\E j \in 1..n : i = 2 * j + 2) \/ (\E j \in 1..n : i = 2 * j + 3)
    <3>1. SUFFICES ASSUME ~ (i <= 3)
          PROVE  (\E j \in 1..n : i = 2 * j + 2) \/ (\E j \in 1..n : i = 2 * j + 3)
      OBVIOUS
    <3>2. PICK h \in Nat : i = 2 * h \/ i = 2 * h + 1
      <4>1. i \div 2 \in Nat /\ (i = 2 * (i \div 2) \/ i = 2 * (i \div 2) + 1)
        OBVIOUS
      <4> QED BY <4>1
    <3>3. h - 1 \in 1..n /\ (i = 2 * (h - 1) + 2 \/ i = 2 * (h - 1) + 3)
      BY <3>1, <3>2
    <3> QED BY <3>3
  <2> QED BY <2>1, <2>2, <2>3, <2>4
<1> QED BY <1>9, <1>10, <1>11

\* What writeHeader packs is what readHeader reads.
LEMMA HeaderReadsBack ==
  ASSUME NEW texts \in Seq(Seq(Byte)), Packed(HeaderFields(texts)),
         NEW bytes \in Seq(Byte), Begins(bytes, Bytes(HeaderFields(texts)))
  PROVE  ReadHeader(bytes) = texts
<1>1. PICK n \in Nat : n = Len(texts)
  OBVIOUS
<1>2. PICK f : f = HeaderFields(texts)
  OBVIOUS
<1>3. /\ f \in Seq(Fields) /\ Len(f) = 3 + 2 * n
      /\ (\A i \in 1..3 : f[i].type = "int32") /\ f[3] = Field("int32", n)
      /\ \A i \in 1..n : f[2 * i + 2] = Field("int32", i - 1) /\ f[2 * i + 3] = Field("string", texts[i])
  BY <1>1, <1>2, HeaderFieldsAre
<1>4. PICK V : Packable(V) /\ f \in Seq(V)
  BY <1>2, <1>3, PackedFields
<1>5. Begins(bytes, Bytes(f))
  BY <1>2
<1>6. PICK first : first = <<"int32", "int32", "int32">>
  OBVIOUS
<1>7. Chain(first, bytes)[3] = n
  <2>1. PICK m \in 0..Len(f) : m = 3
    BY <1>3
  <2>2. Len(first) = m /\ \A i \in 1..m : first[i] = f[i].type
    BY <2>1, <1>3, <1>6
  <2>3. Chain(first, bytes) = [i \in 1..m |-> Meant(f[i]).v]
    BY <2>2, <1>4, <1>5, ChainReads
  <2>4. Meant(f[3]).v = n
    BY <1>3, MeantField
  <2> QED BY <2>1, <2>3, <2>4
<1>8. PICK v : v = Chain(HeaderTypes(n), bytes)
  OBVIOUS
<1>9. v = [i \in 1 .. 3 + 2 * n |-> Meant(f[i]).v]
  <2>1. PICK m \in 0..Len(f) : m = 3 + 2 * n
    BY <1>3
  <2>2. Len(HeaderTypes(n)) = m /\ \A i \in 1..m : HeaderTypes(n)[i] = f[i].type
    BY <2>1, <1>1, <1>2, HeaderTypesAre
  <2>3. PICK ty : ty = HeaderTypes(n)
    OBVIOUS
  <2>4. Len(ty) = m /\ \A i \in 1..m : ty[i] = f[i].type
    BY <2>2, <2>3
  <2>5. Chain(ty, bytes) = [i \in 1..m |-> Meant(f[i]).v]
    BY <2>4, <1>4, <1>5, ChainReads
  <2> QED BY <2>1, <2>3, <2>5, <1>8
<1>10. ASSUME NEW i \in 1..n PROVE v[2 * i + 2] = i - 1 /\ v[2 * i + 3] = texts[i]
  <2>1. 2 * i + 2 \in 1 .. 3 + 2 * n /\ 2 * i + 3 \in 1 .. 3 + 2 * n
    OBVIOUS
  <2>2. Meant(Field("int32", i - 1)).v = i - 1 /\ Meant(Field("string", texts[i])).v = texts[i]
    BY MeantField
  <2> QED BY <2>1, <2>2, <1>3, <1>9
<1>11. ReadHeader(bytes) = IF \A i \in 1..n : v[2 * i + 2] = i - 1 THEN [i \in 1..n |-> v[2 * i + 3]] ELSE <<>>
  <2>1. Chain(<<"int32", "int32", "int32">>, bytes)[3] = n
    BY <1>6, <1>7
  <2>2. Chain(<<"int32", "int32", "int32">> \o FlattenSeq([i \in 1..n |-> <<"int32", "string">>]), bytes) = v
    BY <1>8 DEF HeaderTypes
  <2> QED BY <2>1, <2>2 DEF ReadHeader
<1>12. [i \in 1..n |-> v[2 * i + 3]] = [i \in 1..n |-> texts[i]]
  BY <1>10
<1>13. texts = [i \in 1..n |-> texts[i]]
  BY <1>1
<1> QED BY <1>10, <1>11, <1>12, <1>13

\* The invariant of a block: it begins with what was last written into it.
BlockInv ==
  /\ block \in Seq(Byte)
  /\ "node" \in DOMAIN content =>
       content.node \in Nodes /\ Begins(block, serialize_node(content.node))
  /\ "texts" \in DOMAIN content =>
       content.texts \in UserHeaders /\ Begins(block, Bytes(HeaderFields(content.texts)))

\* Written bytes are there.
LEMMA WriteBegins ==
  ASSUME block \in Seq(Byte), NEW bytes \in Seq(Byte), NEW what, WriteBlock(bytes, what)
  PROVE  block' \in Seq(Byte) /\ Begins(block', bytes) /\ content' = what
<1>1. PICK n, m \in Nat : n = Len(block) /\ m = Len(bytes)
  OBVIOUS
<1>2. /\ m <= n /\ content' = what
      /\ block' = [i \in 1..n |-> IF i <= m THEN bytes[i] ELSE NUL]
  BY <1>1 DEF WriteBlock
<1>3. PICK b : b = block'
  OBVIOUS
<1>4. \A i \in 1..n : b[i] \in Byte
  <2>1. \A i \in 1..n : i <= m => bytes[i] \in Byte
    BY <1>1
  <2>2. NUL \in Byte
    BY ByteNat
  <2> QED BY <2>1, <2>2, <1>2, <1>3
<1>5. b \in [1..n -> Byte]
  BY <1>2, <1>3, <1>4
<1>6. b \in Seq(Byte) /\ Len(b) = n
  BY <1>5
<1>7. \A i \in 1..m : b[i] = bytes[i]
  BY <1>2, <1>3
<1>8. Begins(b, bytes)
  BY <1>1, <1>2, <1>6, <1>7 DEF Begins
<1> QED BY <1>2, <1>3, <1>6, <1>8

\* Blocks are written with what can be packed.
LEMMA WrittenBytes ==
  /\ \A node \in Nodes : IsNode(node) /\ serialize_node(node) \in Seq(Byte)
  /\ \A texts \in UserHeaders : /\ texts \in Seq(Seq(Byte)) /\ Packed(HeaderFields(texts))
                                /\ Bytes(HeaderFields(texts)) \in Seq(Byte)
<1>1. ASSUME NEW node \in Nodes PROVE IsNode(node) /\ serialize_node(node) \in Seq(Byte)
  <2>1. IsNode(node)
    BY ContentsAssumption DEF ContentsAssumption
  <2>2. NodeFields(node) \in Seq(Fields) /\ Packed(NodeFields(node))
    BY <2>1, NodeFieldsAre DEF NodeShape, IsNode
  <2>3. PICK V : Packable(V) /\ NodeFields(node) \in Seq(V)
    BY <2>2, PackedFields
  <2> QED BY <2>1, <2>3, Places DEF serialize_node
<1>2. ASSUME NEW texts \in UserHeaders
      PROVE  /\ texts \in Seq(Seq(Byte)) /\ Packed(HeaderFields(texts))
             /\ Bytes(HeaderFields(texts)) \in Seq(Byte)
  <2>1. texts \in Seq(Seq(Byte)) /\ Packed(HeaderFields(texts))
    BY ContentsAssumption DEF ContentsAssumption
  <2>2. PICK n \in Nat : n = Len(texts)
    BY <2>1
  <2>3. HeaderFields(texts) \in Seq(Fields)
    BY <2>1, <2>2, HeaderFieldsAre
  <2>4. PICK V : Packable(V) /\ HeaderFields(texts) \in Seq(V)
    BY <2>1, <2>3, PackedFields
  <2> QED BY <2>1, <2>4, Places
<1> QED BY <1>1, <1>2

\* Every step keeps it.
LEMMA BlockInvariant == FormatSpec => []BlockInv
<1>1. FormatInit => BlockInv
  <2>1. SUFFICES ASSUME FormatInit PROVE BlockInv
    OBVIOUS
  <2>2. block = <<>> /\ content = [nothing |-> TRUE]
    BY <2>1 DEF FormatInit, NoBlock, NoContent
  <2>3. block \in Seq(Byte)
    BY <2>2
  <2>4. "node" \notin DOMAIN content /\ "texts" \notin DOMAIN content
    BY <2>2
  <2> QED BY <2>3, <2>4 DEF BlockInv
<1>2. BlockInv /\ [FormatNext]_<<vars, block, content>> => BlockInv'
  <2> SUFFICES ASSUME BlockInv, [FormatNext]_<<vars, block, content>> PROVE BlockInv'
    OBVIOUS
  <2>1. CASE block' = block /\ content' = content
    BY <2>1 DEF BlockInv
  <2>2. CASE NewBlock
    <3>1. block = <<>> /\ content' = content
      BY <2>2 DEF NewBlock, NoBlock
    <3>2. PICK bs \in BlockSize : block' = [i \in 1..bs |-> NUL]
      BY <2>2 DEF NewBlock, Zeros
    <3>3. bs \in Nat
      BY FormatAssumption DEF FormatAssumption
    <3>4. PICK b : b = block'
      OBVIOUS
    <3>5. b \in [1..bs -> Byte]
      BY <3>2, <3>4, ByteNat
    <3>6. b \in Seq(Byte) /\ Len(b) = bs
      BY <3>3, <3>5
    <3>7. \A s \in Seq(Byte) : Begins(block, s) => Begins(b, s)
      <4>1. SUFFICES ASSUME NEW s \in Seq(Byte), Begins(block, s) PROVE Begins(b, s)
        OBVIOUS
      <4>2. Len(s) = 0
        BY <4>1, <3>1 DEF Begins
      <4> QED BY <4>2, <3>3, <3>6 DEF Begins
    <3>8. "node" \in DOMAIN content => serialize_node(content.node) \in Seq(Byte)
      BY WrittenBytes DEF BlockInv
    <3>9. "texts" \in DOMAIN content => Bytes(HeaderFields(content.texts)) \in Seq(Byte)
      BY WrittenBytes DEF BlockInv
    <3> QED BY <3>1, <3>4, <3>6, <3>7, <3>8, <3>9 DEF BlockInv
  <2>3. ASSUME NEW node \in Nodes, WriteBlock(serialize_node(node), [node |-> node]) PROVE BlockInv'
    <3>1. serialize_node(node) \in Seq(Byte)
      BY WrittenBytes
    <3>2. block' \in Seq(Byte) /\ Begins(block', serialize_node(node)) /\ content' = [node |-> node]
      BY <2>3, <3>1, WriteBegins DEF BlockInv
    <3>3. content'.node = node /\ "texts" \notin DOMAIN content'
      BY <3>2
    <3> QED BY <3>2, <3>3 DEF BlockInv
  <2>4. ASSUME NEW texts \in UserHeaders, WriteBlock(Bytes(HeaderFields(texts)), [texts |-> texts]) PROVE BlockInv'
    <3>1. Bytes(HeaderFields(texts)) \in Seq(Byte)
      BY WrittenBytes
    <3>2. block' \in Seq(Byte) /\ Begins(block', Bytes(HeaderFields(texts))) /\ content' = [texts |-> texts]
      BY <2>4, <3>1, WriteBegins DEF BlockInv
    <3>3. content'.texts = texts /\ "node" \notin DOMAIN content'
      BY <3>2
    <3> QED BY <3>2, <3>3 DEF BlockInv
  <2> QED BY <2>1, <2>2, <2>3, <2>4 DEF FormatNext, BlockNext
<1> QED BY <1>1, <1>2, PTL DEF FormatSpec

\* A node and a header block come back as they were written, and a node takes
\* no more bytes than Compute_Max_B counts on.
THEOREM BlocksComeBack == FormatSpec => []BlocksReadBack
<1>1. ASSUME BlockInv PROVE BlocksReadBack
  <2>1. ASSUME "node" \in DOMAIN content, NEW node, node = content.node
        PROVE  /\ deserialize_node(block)
                    = [node EXCEPT !.values = [i \in DOMAIN @ |-> Normalized(@[i])]]
               /\ \A k \in KeySize :
                    Longest(node.keys, k) =>
                      Len(serialize_node(node)) <= IF node.leaf THEN LeafBytes(Len(node.keys), k, 6)
                                                   ELSE InnerBytes(Len(node.keys), k)
    <3>1. node \in Nodes /\ Begins(block, serialize_node(node)) /\ block \in Seq(Byte)
      BY <1>1, <2>1 DEF BlockInv
    <3>2. IsNode(node)
      BY <3>1, WrittenBytes
    <3>3. \A k \in KeySize : k \in Nat
      BY FormatAssumption DEF FormatAssumption
    <3> QED BY <3>1, <3>2, <3>3, NodeReadsBack, NodeSize
  <2>2. ASSUME "texts" \in DOMAIN content PROVE ReadHeader(block) = content.texts
    <3>1. PICK texts : texts = content.texts
      OBVIOUS
    <3>2. texts \in UserHeaders /\ Begins(block, Bytes(HeaderFields(texts))) /\ block \in Seq(Byte)
      BY <1>1, <2>2, <3>1 DEF BlockInv
    <3> QED BY <3>1, <3>2, WrittenBytes, HeaderReadsBack
  <2> QED BY <2>1, <2>2 DEF BlocksReadBack
<1> QED BY <1>1, BlockInvariant, PTL

\* The packers that blocks are written with are packers.
THEOREM BlocksThroughPackers == FormatSpec => Spec
<1>1. FormatInit => Init
  BY DEF FormatInit
<1>2. [FormatNext]_<<vars, block, content>> => [Next]_vars
  BY DEF FormatNext
<1> QED BY <1>1, <1>2, PTL DEF FormatSpec, Spec
=============================================================================
