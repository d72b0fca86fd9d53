-------------------------- MODULE WireFormatProofs --------------------------
(***************************************************************************)
(* Proof that the bytes of a connection mean the same however they arrive,  *)
(* for all requests, frames and sizes of reads, that the address and the    *)
(* descriptor to kill are those that the request names, and that the list   *)
(* of peers can be read back.                                               *)
(***************************************************************************)
EXTENDS ListReader, SequenceTheorems, WellFoundedInduction, TLAPS

-----------------------------------------------------------------------------
(* The operator ^: masking twice with the same key changes nothing.         *)

Bit(x, k) == (x \div k) % 2

LEMMA ByteBits ==
    ASSUME NEW a \in Byte
    PROVE  /\ a = Bit(a, 1) + 2 * Bit(a, 2) + 4 * Bit(a, 4) + 8 * Bit(a, 8) + 16 * Bit(a, 16)
                  + 32 * Bit(a, 32) + 64 * Bit(a, 64) + 128 * Bit(a, 128)
           /\ Bit(a, 1) \in {0, 1} /\ Bit(a, 2) \in {0, 1} /\ Bit(a, 4) \in {0, 1}
           /\ Bit(a, 8) \in {0, 1} /\ Bit(a, 16) \in {0, 1} /\ Bit(a, 32) \in {0, 1}
           /\ Bit(a, 64) \in {0, 1} /\ Bit(a, 128) \in {0, 1}
BY DEF Bit, Byte

LEMMA BitsByte ==
    ASSUME NEW x0 \in {0, 1}, NEW x1 \in {0, 1}, NEW x2 \in {0, 1}, NEW x3 \in {0, 1},
           NEW x4 \in {0, 1}, NEW x5 \in {0, 1}, NEW x6 \in {0, 1}, NEW x7 \in {0, 1},
           NEW r, r = x0 + 2 * x1 + 4 * x2 + 8 * x3 + 16 * x4 + 32 * x5 + 64 * x6 + 128 * x7
    PROVE  /\ r \in Byte
           /\ Bit(r, 1) = x0 /\ Bit(r, 2) = x1 /\ Bit(r, 4) = x2 /\ Bit(r, 8) = x3
           /\ Bit(r, 16) = x4 /\ Bit(r, 32) = x5 /\ Bit(r, 64) = x6 /\ Bit(r, 128) = x7
BY DEF Bit, Byte

LEMMA XorBits ==
    ASSUME NEW a \in Byte, NEW b \in Byte
    PROVE  /\ Xor(a, b) \in Byte
           /\ \A k \in {1, 2, 4, 8, 16, 32, 64, 128} :
                Bit(Xor(a, b), k) = IF Bit(a, k) = Bit(b, k) THEN 0 ELSE 1
<1> DEFINE x(k) == IF Bit(a, k) = Bit(b, k) THEN 0 ELSE 1
<1>1. Xor(a, b) = x(1) + 2 * x(2) + 4 * x(4) + 8 * x(8) + 16 * x(16) + 32 * x(32)
                  + 64 * x(64) + 128 * x(128)
  BY DEF Xor, Bit
<1>2. /\ x(1) \in {0, 1} /\ x(2) \in {0, 1} /\ x(4) \in {0, 1} /\ x(8) \in {0, 1}
      /\ x(16) \in {0, 1} /\ x(32) \in {0, 1} /\ x(64) \in {0, 1} /\ x(128) \in {0, 1}
  OBVIOUS
<1> HIDE DEF x
<1> DEFINE r == Xor(a, b)
<1>3. /\ r \in Byte
      /\ Bit(r, 1) = x(1) /\ Bit(r, 2) = x(2) /\ Bit(r, 4) = x(4) /\ Bit(r, 8) = x(8)
      /\ Bit(r, 16) = x(16) /\ Bit(r, 32) = x(32) /\ Bit(r, 64) = x(64) /\ Bit(r, 128) = x(128)
  <2>1. r = x(1) + 2 * x(2) + 4 * x(4) + 8 * x(8) + 16 * x(16) + 32 * x(32)
            + 64 * x(64) + 128 * x(128)
    BY <1>1
  <2> HIDE DEF r
  <2>2. QED
    BY <1>2, <2>1, BitsByte
<1>4. QED
  BY <1>3 DEF x

LEMMA XorTwice ==
    ASSUME NEW a \in Byte, NEW b \in Byte
    PROVE  Xor(a, b) \in Byte /\ Xor(Xor(a, b), b) = a
<1> DEFINE r == Xor(a, b)
           s == Xor(r, b)
<1>1. /\ r \in Byte
      /\ \A k \in {1, 2, 4, 8, 16, 32, 64, 128} :
            Bit(r, k) = IF Bit(a, k) = Bit(b, k) THEN 0 ELSE 1
  BY XorBits
<1> HIDE DEF r
<1>2. /\ s \in Byte
      /\ \A k \in {1, 2, 4, 8, 16, 32, 64, 128} :
            Bit(s, k) = IF Bit(r, k) = Bit(b, k) THEN 0 ELSE 1
  BY <1>1, XorBits
<1> HIDE DEF s
<1>3. \A k \in {1, 2, 4, 8, 16, 32, 64, 128} : Bit(a, k) \in {0, 1} /\ Bit(b, k) \in {0, 1}
  BY ByteBits
<1>4. \A k \in {1, 2, 4, 8, 16, 32, 64, 128} : Bit(s, k) = Bit(a, k)
  BY <1>1, <1>2, <1>3
<1>5. s = a
  BY <1>2, <1>4, ByteBits
<1>6. QED
  BY <1>1, <1>5 DEF r, s

-----------------------------------------------------------------------------
(* Chain is defined by recursion; least counterexamples take the place of   *)
(* induction.                                                               *)

Below == {p \in Nat \X Nat : p[1] < p[2]}

LEMMA Least == ASSUME NEW T \in SUBSET Nat, T # {} PROVE \E m \in T : \A k \in T : m <= k
<1>1. IsWellFoundedOn(Below, Nat)
  BY NatLessThanWellFounded DEF OpToRel, Below
<1>2. PICK m \in T : \A k \in T : ~(<<k, m>> \in Below)
  BY <1>1, WFMin
<1>3. ASSUME NEW k \in T PROVE m <= k
  <2>1. m \in Nat /\ k \in Nat
    OBVIOUS
  <2>2. <<k, m>> \in Nat \X Nat
    BY <2>1
  <2>3. ~(k < m)
    BY <1>2, <2>2 DEF Below
  <2>4. QED
    BY <2>1, <2>3
<1>4. QED
  BY <1>3

\* What a chain from i on is, when f has those further on.
Onward(next, f, i) == <<i>> \o (IF next[i] = i THEN <<>> ELSE f[next[i]])

Chains(f, next, k, hi) == f = [i \in k .. hi |-> Onward(next, f, i)]

\* A loop that goes forward.
Forwards(next, lo, hi) ==
    /\ lo \in Int /\ hi \in Int /\ next \in [lo .. hi -> lo .. hi]
    /\ \A i \in lo .. hi : next[i] >= i

LEMMA ChainsExist ==
    ASSUME NEW lo, NEW hi, NEW next, Forwards(next, lo, hi), lo <= hi
    PROVE  \E f : Chains(f, next, lo, hi)
<1> DEFINE T == {n \in Nat : n <= hi + 1 - lo /\ ~\E f : Chains(f, next, hi + 1 - n, hi)}
<1>1. lo \in Int /\ hi \in Int /\ hi + 1 - lo \in Nat /\ hi + 1 - (hi + 1 - lo) = lo
  BY DEF Forwards
<1>2. SUFFICES ASSUME T # {} PROVE FALSE
  <2>1. hi + 1 - lo \notin T
    BY <1>2
  <2>2. QED
    BY <1>1, <2>1
<1>3. T \in SUBSET Nat
  OBVIOUS
<1>4. PICK n \in T : \A m \in T : n <= m
  BY <1>2, <1>3, Least
<1> DEFINE k == hi + 1 - n
<1>5. n \in Nat /\ n <= hi + 1 - lo /\ ~\E f : Chains(f, next, k, hi)
  OBVIOUS
<1>6. n # 0
  <2>1. SUFFICES ASSUME n = 0 PROVE FALSE
    OBVIOUS
  <2>2. k .. hi = {}
    BY <1>1, <2>1
  <2> DEFINE f == [i \in {} |-> <<>>]
  <2>3. f = [i \in k .. hi |-> Onward(next, f, i)]
    BY <2>2
  <2>4. QED
    BY <1>5, <2>3 DEF Chains
<1>7. n - 1 \in Nat /\ n - 1 \notin T /\ n - 1 <= hi + 1 - lo /\ hi + 1 - (n - 1) = k + 1
  BY <1>1, <1>4, <1>5, <1>6
<1>8. PICK f : Chains(f, next, k + 1, hi)
  BY <1>7
<1>9. k \in lo .. hi
  BY <1>1, <1>5, <1>6
<1> HIDE DEF k, T
<1> DEFINE g == [i \in k .. hi |-> IF i = k THEN Onward(next, f, k) ELSE f[i]]
<1>10. ASSUME NEW i \in k .. hi PROVE g[i] = Onward(next, g, i)
  <2>1. i \in lo .. hi /\ next[i] \in lo .. hi /\ next[i] >= i
    BY <1>1, <1>9 DEF Forwards
  <2>2. next[i] # i => next[i] \in k + 1 .. hi
    BY <2>1, <1>1, <1>9
  <2>3. next[i] # i => g[next[i]] = f[next[i]]
    BY <2>2, <1>1, <1>9
  <2>4. Onward(next, g, i) = Onward(next, f, i)
    BY <2>3 DEF Onward
  <2>5. i # k => f[i] = Onward(next, f, i)
    <3>1. i # k => i \in k + 1 .. hi
      BY <1>1, <1>9
    <3>2. QED
      BY <3>1, <1>8 DEF Chains
  <2>6. QED
    BY <2>4, <2>5
<1> HIDE DEF g
<1>11. g = [i \in k .. hi |-> g[i]]
  BY DEF g
<1>12. g = [i \in k .. hi |-> Onward(next, g, i)]
  BY <1>10, <1>11
<1>13. QED
  BY <1>5, <1>12 DEF Chains, k

LEMMA ChainOnward ==
    ASSUME NEW lo, NEW hi, NEW next, Forwards(next, lo, hi), NEW i \in lo .. hi
    PROVE  Chain(next, i) = <<i>> \o (IF next[i] = i THEN <<>> ELSE Chain(next, next[i]))
<1> DEFINE f == CHOOSE g : Chains(g, next, lo, hi)
<1>1. lo \in Int /\ hi \in Int /\ lo <= hi /\ DOMAIN next = lo .. hi /\ next[i] \in lo .. hi
  BY DEF Forwards
<1>2. Chains(f, next, lo, hi)
  BY <1>1, ChainsExist
<1>3. \A j \in lo .. hi : Chain(next, j) = f[j]
  BY <1>1 DEF Chain, Chains, Onward
<1> HIDE DEF f
<1>4. f[i] = Onward(next, f, i)
  BY <1>2 DEF Chains
<1>5. QED
  BY <1>1, <1>3, <1>4 DEF Onward

\* The way such a loop takes from i on.
Path(q, next, i) ==
    /\ q \in Seq(DOMAIN next) /\ Len(q) >= 1 /\ q[1] = i
    /\ \A k \in 1 .. Len(q) - 1 : q[k + 1] = next[q[k]] /\ next[q[k]] # q[k]
    /\ next[q[Len(q)]] = q[Len(q)]

LEMMA OneStepLonger ==
    ASSUME NEW next, NEW i \in DOMAIN next, next[i] # i, NEW q, Path(q, next, next[i])
    PROVE  Path(<<i>> \o q, next, i)
<1> DEFINE D == DOMAIN next
           r == <<i>> \o q
<1>1. q \in Seq(D) /\ <<i>> \in Seq(D) /\ Len(<<i>>) = 1 /\ Len(q) \in Nat /\ Len(q) >= 1
  BY LenProperties DEF Path
<1>2. /\ r \in Seq(D) /\ Len(r) = Len(q) + 1 /\ r[1] = i
      /\ \A k \in 1 .. Len(q) : r[k + 1] = q[k]
  <2> HIDE DEF D
  <2>1. /\ r \in Seq(D) /\ Len(r) = 1 + Len(q)
        /\ \A k \in 1 .. Len(r) : r[k] = IF k <= 1 THEN <<i>>[k] ELSE q[k - 1]
    BY <1>1, ConcatProperties
  <2> HIDE DEF r
  <2>2. QED
    BY <1>1, <2>1
<1> HIDE DEF r
<1>3. ASSUME NEW k \in 1 .. Len(r) - 1 PROVE r[k + 1] = next[r[k]] /\ next[r[k]] # r[k]
  <2>1. CASE k = 1
    BY <1>1, <1>2, <2>1 DEF Path
  <2>2. CASE k # 1
    <3>1. k - 1 \in 1 .. Len(q) - 1 /\ k - 1 \in 1 .. Len(q) /\ k \in 1 .. Len(q) /\ (k - 1) + 1 = k
      BY <1>1, <1>2, <2>2
    <3>2. r[k] = q[k - 1] /\ r[k + 1] = q[k]
      BY <1>2, <3>1
    <3>3. q[k] = next[q[k - 1]] /\ next[q[k - 1]] # q[k - 1]
      BY <3>1 DEF Path
    <3>4. QED
      BY <3>2, <3>3
  <2>3. QED
    BY <2>1, <2>2
<1>4. next[r[Len(r)]] = r[Len(r)]
  BY <1>1, <1>2 DEF Path
<1>5. QED
  BY <1>1, <1>2, <1>3, <1>4 DEF Path, r

LEMMA ChainPath ==
    ASSUME NEW lo, NEW hi, NEW next, Forwards(next, lo, hi), NEW i \in lo .. hi
    PROVE  Path(Chain(next, i), next, i)
<1> DEFINE T == {n \in Nat : \E j \in lo .. hi : n = hi - j /\ ~Path(Chain(next, j), next, j)}
<1>1. lo \in Int /\ hi \in Int /\ DOMAIN next = lo .. hi
  BY DEF Forwards
<1>2. SUFFICES ASSUME T # {} PROVE FALSE
  <2>1. hi - i \in Nat
    BY <1>1
  <2>2. ~Path(Chain(next, i), next, i) => hi - i \in T
    BY <2>1
  <2>3. QED
    BY <1>2, <2>2
<1>3. T \in SUBSET Nat
  OBVIOUS
<1>4. PICK n \in T : \A m \in T : n <= m
  BY <1>2, <1>3, Least
<1>5. PICK j \in lo .. hi : n = hi - j /\ ~Path(Chain(next, j), next, j)
  OBVIOUS
<1>6. Chain(next, j) = <<j>> \o (IF next[j] = j THEN <<>> ELSE Chain(next, next[j]))
  BY ChainOnward
<1>7. CASE next[j] = j
  <2>1. <<j>> \o <<>> = <<j>>
    OBVIOUS
  <2>2. Chain(next, j) = <<j>>
    BY <1>6, <1>7, <2>1
  <2>3. <<j>> \in Seq(DOMAIN next) /\ Len(<<j>>) = 1 /\ <<j>>[1] = j
    BY <1>1
  <2>4. Path(<<j>>, next, j)
    BY <1>7, <2>3 DEF Path
  <2>5. QED
    BY <1>5, <2>2, <2>4
<1>8. CASE next[j] # j
  <2>1. next[j] \in lo .. hi /\ next[j] > j
    BY <1>1, <1>8 DEF Forwards
  <2>2. hi - next[j] \in Nat /\ hi - next[j] < n
    BY <1>1, <1>5, <2>1
  <2>3. hi - next[j] \notin T
    BY <1>4, <2>2
  <2>4. Path(Chain(next, next[j]), next, next[j])
    BY <2>1, <2>2, <2>3
  <2>5. Path(<<j>> \o Chain(next, next[j]), next, j)
    BY <1>1, <1>8, <2>4, OneStepLonger
  <2>6. QED
    BY <1>5, <1>6, <1>8, <2>5
<1>9. QED
  BY <1>7, <1>8

\* There is only one way.
LEMMA PathsAgree ==
    ASSUME NEW next, NEW i, NEW q, Path(q, next, i), NEW r, Path(r, next, i)
    PROVE  \A k \in 1 .. Len(q) : k <= Len(r) => q[k] = r[k]
<1> DEFINE T == {k \in 1 .. Len(q) : k <= Len(r) /\ q[k] # r[k]}
<1>1. Len(q) \in Nat /\ Len(r) \in Nat
  BY LenProperties DEF Path
<1>2. SUFFICES ASSUME T # {} PROVE FALSE
  OBVIOUS
<1>3. T \in SUBSET Nat
  OBVIOUS
<1>4. PICK k \in T : \A m \in T : k <= m
  BY <1>2, <1>3, Least
<1>5. k \in 1 .. Len(q) /\ k \in 1 .. Len(r) /\ q[k] # r[k]
  BY <1>1
<1>6. k # 1
  BY <1>5 DEF Path
<1>7. k - 1 \in 1 .. Len(q) - 1 /\ k - 1 \in 1 .. Len(r) - 1 /\ k - 1 \notin T /\ (k - 1) + 1 = k
  BY <1>1, <1>4, <1>5, <1>6
<1>8. q[k - 1] = r[k - 1]
  BY <1>1, <1>7
<1>9. q[k] = next[q[k - 1]] /\ r[k] = next[r[k - 1]]
  BY <1>7 DEF Path
<1>10. QED
  BY <1>5, <1>8, <1>9

LEMMA PathNotShorter ==
    ASSUME NEW next, NEW i, NEW q, Path(q, next, i), NEW r, Path(r, next, i)
    PROVE  Len(q) >= Len(r)
<1>1. Len(q) \in Nat /\ Len(r) \in Nat /\ Len(q) >= 1
  BY LenProperties DEF Path
<1>2. SUFFICES ASSUME Len(q) < Len(r) PROVE FALSE
  BY <1>1
<1>3. q[Len(q)] = r[Len(q)] /\ Len(q) \in 1 .. Len(r) - 1
  BY <1>1, <1>2, PathsAgree
<1>4. next[q[Len(q)]] = q[Len(q)] /\ next[r[Len(q)]] # r[Len(q)]
  BY <1>3 DEF Path
<1>5. QED
  BY <1>3, <1>4

LEMMA PathUnique ==
    ASSUME NEW next, NEW i, NEW q, Path(q, next, i), NEW r, Path(r, next, i)
    PROVE  q = r
<1>1. Len(q) = Len(r) /\ Len(q) \in Nat
  <2>1. Len(q) \in Nat /\ Len(r) \in Nat
    BY LenProperties DEF Path
  <2>2. QED
    BY <2>1, PathNotShorter
<1>2. \A k \in 1 .. Len(q) : q[k] = r[k]
  BY <1>1, PathsAgree
<1>3. q \in Seq(DOMAIN next) /\ r \in Seq(DOMAIN next)
  BY DEF Path
<1>4. QED
  BY <1>1, <1>2, <1>3, SeqEqual

-----------------------------------------------------------------------------
(* Sums and lists are built step by step *)

\* f has the first value and goes on from each to the next by s.
Follows(f, V, n, first, s) ==
    /\ f \in [0 .. n -> V] /\ f[0] = first
    /\ \A k \in 1 .. n : f[k] = s[<<k, f[k - 1]>>]

LEMMA StepsExist ==
    ASSUME NEW V, NEW n \in Nat, NEW first \in V, NEW s \in [(1 .. n) \X V -> V]
    PROVE  \E f : Follows(f, V, n, first, s)
<1> DEFINE Grows(f, m) == Follows(f, V, m, first, s)
           T == {m \in 0 .. n : ~\E f : Grows(f, m)}
<1> HIDE DEF Grows
<1>1. SUFFICES ASSUME T # {} PROVE FALSE
  <2>1. n \in 0 .. n /\ n \notin T
    BY <1>1
  <2>2. PICK f : Grows(f, n)
    BY <2>1
  <2>3. QED
    BY <2>2 DEF Grows
<1>2. T \in SUBSET Nat
  OBVIOUS
<1>3. PICK m \in T : \A k \in T : m <= k
  BY <1>1, <1>2, Least
<1>4. m \in 0 .. n /\ ~\E f : Grows(f, m)
  OBVIOUS
<1>5. CASE m = 0
  <2> DEFINE f == [k \in 0 .. 0 |-> first]
  <2>1. f \in [0 .. 0 -> V] /\ f[0] = first /\ 1 .. 0 = {}
    OBVIOUS
  <2> HIDE DEF f
  <2>2. Grows(f, 0)
    BY <2>1 DEF Grows, Follows
  <2>3. QED
    BY <1>4, <1>5, <2>2
<1>6. CASE m # 0
  <2>1. m - 1 \in 0 .. n /\ ~(m <= m - 1) /\ m \in 1 .. n
    BY <1>4, <1>6
  <2>2. m - 1 \notin T
    BY <1>3, <2>1
  <2>3. PICK f : Grows(f, m - 1)
    BY <2>1, <2>2
  <2>4. /\ f \in [0 .. m - 1 -> V] /\ f[0] = first
        /\ \A k \in 1 .. m - 1 : f[k] = s[<<k, f[k - 1]>>]
    BY <2>3 DEF Grows, Follows
  <2> DEFINE last == s[<<m, f[m - 1]>>]
             g == [k \in 0 .. m |-> IF k = m THEN last ELSE f[k]]
  <2>5. f[m - 1] \in V
    <3>1. m - 1 \in 0 .. m - 1
      BY <2>1
    <3>2. QED
      BY <2>4, <3>1
  <2>6. last \in V
    <3>1. <<m, f[m - 1]>> \in (1 .. n) \X V
      BY <2>1, <2>5
    <3>2. QED
      BY <3>1
  <2> HIDE DEF last
  <2>7. g[m] = last /\ \A k \in 0 .. m - 1 : k \in 0 .. m /\ k # m /\ g[k] = f[k]
    BY <2>1
  <2>8. g \in [0 .. m -> V]
    <3>1. ASSUME NEW k \in 0 .. m, k # m PROVE f[k] \in V
      <4>1. k \in 0 .. m - 1
        BY <2>1, <3>1
      <4>2. QED
        BY <2>4, <4>1
    <3>2. QED
      BY <2>6, <3>1
  <2> HIDE DEF g
  <2>9. g[0] = first
    BY <2>1, <2>4, <2>7
  <2>10. ASSUME NEW k \in 1 .. m PROVE g[k] = s[<<k, g[k - 1]>>]
    <3>1. k - 1 \in 0 .. m - 1
      BY <2>1
    <3>2. g[k - 1] = f[k - 1]
      BY <2>7, <3>1
    <3>3. CASE k = m
      BY <2>7, <3>2, <3>3 DEF last
    <3>4. CASE k # m
      <4>1. k \in 1 .. m - 1 /\ k \in 0 .. m - 1
        BY <2>1, <3>4
      <4>2. g[k] = f[k] /\ f[k] = s[<<k, f[k - 1]>>]
        BY <2>4, <2>7, <4>1
      <4>3. QED
        BY <3>2, <4>2
    <3>5. QED
      BY <3>3, <3>4
  <2>11. Grows(g, m)
    BY <2>8, <2>9, <2>10 DEF Grows, Follows
  <2>12. QED
    BY <1>4, <2>11
<1>7. QED
  BY <1>5, <1>6

\* The numbers of n bytes from the i-th of q on.
Sums(f, q, i, n) ==
    /\ f \in [0 .. n -> Nat] /\ f[0] = 0
    /\ \A k \in 1 .. n : f[k] = 256 * f[k - 1] + q[i + k - 1]

LEMMA SumsExist ==
    ASSUME NEW q, NEW i \in Nat, NEW n \in Nat, \A k \in 1 .. n : q[i + k - 1] \in Nat
    PROVE  \E f : Sums(f, q, i, n) /\ Be(q, i, n) = f[n]
<1> DEFINE Step(f, k) == IF k = 0 THEN 0 ELSE 256 * f[k - 1] + q[i + k - 1]
           Adds(f) == f = [k \in 0 .. n |-> Step(f, k)]
           s == [x \in (1 .. n) \X Nat |-> 256 * x[2] + q[i + x[1] - 1]]
           g == CHOOSE f : Adds(f)
<1>1. s \in [(1 .. n) \X Nat -> Nat]
  <2>1. ASSUME NEW x \in (1 .. n) \X Nat PROVE 256 * x[2] + q[i + x[1] - 1] \in Nat
    <3>1. x[1] \in 1 .. n /\ x[2] \in Nat
      OBVIOUS
    <3>2. q[i + x[1] - 1] \in Nat
      BY <3>1
    <3>3. QED
      BY <3>1, <3>2
  <2>2. QED
    BY <2>1
<1>2. \A k \in 1 .. n : \A x \in Nat : s[<<k, x>>] = 256 * x + q[i + k - 1]
  OBVIOUS
<1> HIDE DEF s
<1>3. PICK f \in [0 .. n -> Nat] : f[0] = 0 /\ \A k \in 1 .. n : f[k] = s[<<k, f[k - 1]>>]
  <2> DEFINE V == Nat
             zero == 0
  <2>1. zero \in V /\ s \in [(1 .. n) \X V -> V]
    BY <1>1
  <2> HIDE DEF V, zero
  <2>2. \E f : Follows(f, V, n, zero, s)
    BY <2>1, StepsExist
  <2>3. QED
    BY <2>2 DEF V, zero, Follows
<1>4. ASSUME NEW k \in 1 .. n PROVE f[k] = 256 * f[k - 1] + q[i + k - 1]
  <2>1. k - 1 \in 0 .. n
    OBVIOUS
  <2>2. f[k - 1] \in Nat
    BY <2>1
  <2>3. QED
    BY <1>2, <1>3, <2>2
<1>5. Adds(f)
  <2>1. ASSUME NEW k \in 0 .. n PROVE f[k] = Step(f, k)
    <3>1. CASE k = 0
      BY <1>3, <3>1
    <3>2. CASE k # 0
      <4>1. k \in 1 .. n
        BY <3>2
      <4>2. Step(f, k) = 256 * f[k - 1] + q[i + k - 1]
        BY <3>2
      <4>3. QED
        BY <1>4, <4>1, <4>2
    <3>3. QED
      BY <3>1, <3>2
  <2> HIDE DEF Step
  <2>2. f = [k \in 0 .. n |-> f[k]]
    OBVIOUS
  <2>3. QED
    BY <2>1, <2>2
<1>6. Adds(g)
  <2> HIDE DEF Adds
  <2>1. QED
    BY <1>5
<1>7. Be(q, i, n) = g[n]
  BY DEF Be
<1> HIDE DEF g
<1>8. \A k \in 0 .. n : g[k] = Step(g, k)
  <2> HIDE DEF Step
  <2>1. QED
    BY <1>6
<1>9. DOMAIN g = 0 .. n /\ g = [k \in 0 .. n |-> g[k]]
  <2> HIDE DEF Step
  <2>1. QED
    BY <1>6
<1>10. \A k \in 0 .. n : g[k] = f[k]
  <2> DEFINE T == {k \in 0 .. n : g[k] # f[k]}
  <2>1. SUFFICES ASSUME T # {} PROVE FALSE
    OBVIOUS
  <2>2. T \in SUBSET Nat
    OBVIOUS
  <2>3. PICK k \in T : \A m \in T : k <= m
    BY <2>1, <2>2, Least
  <2>4. k \in 0 .. n /\ g[k] # f[k]
    OBVIOUS
  <2>5. k # 0
    <3>1. 0 \in 0 .. n /\ Step(g, 0) = 0
      OBVIOUS
    <3> HIDE DEF Step
    <3>2. g[0] = 0
      BY <1>8, <3>1
    <3>3. QED
      BY <1>3, <2>4, <3>2
  <2>6. k \in 1 .. n /\ k - 1 \in 0 .. n /\ ~(k <= k - 1)
    BY <2>4, <2>5
  <2>7. k - 1 \notin T
    BY <2>3, <2>6
  <2>8. g[k - 1] = f[k - 1]
    BY <2>6, <2>7
  <2>9. Step(g, k) = 256 * g[k - 1] + q[i + k - 1]
    BY <2>5
  <2> HIDE DEF Step
  <2>10. g[k] = 256 * g[k - 1] + q[i + k - 1]
    BY <1>8, <2>4, <2>9
  <2>11. QED
    BY <1>4, <2>4, <2>6, <2>8, <2>10
<1>11. Sums(f, q, i, n)
  BY <1>3, <1>4 DEF Sums
<1>12. n \in 0 .. n
  OBVIOUS
<1>13. QED
  BY <1>7, <1>10, <1>11, <1>12

LEMMA BeNat ==
    ASSUME NEW q, NEW i \in Nat, NEW n \in Nat, \A k \in 1 .. n : q[i + k - 1] \in Nat
    PROVE  Be(q, i, n) \in Nat
<1>1. PICK f : Sums(f, q, i, n) /\ Be(q, i, n) = f[n]
  BY SumsExist
<1>2. n \in 0 .. n
  OBVIOUS
<1>3. QED
  BY <1>1, <1>2 DEF Sums

LEMMA BeAgrees ==
    ASSUME NEW q, NEW r, NEW i \in Nat, NEW n \in Nat,
           \A k \in 1 .. n : q[i + k - 1] \in Nat /\ r[i + k - 1] = q[i + k - 1]
    PROVE  Be(r, i, n) = Be(q, i, n)
<1>1. PICK f : Sums(f, q, i, n) /\ Be(q, i, n) = f[n]
  BY SumsExist
<1>2. PICK g : Sums(g, r, i, n) /\ Be(r, i, n) = g[n]
  <2>1. \A k \in 1 .. n : r[i + k - 1] \in Nat
    OBVIOUS
  <2>2. QED
    BY <2>1, SumsExist
<1> DEFINE T == {k \in 0 .. n : g[k] # f[k]}
<1>3. T = {}
  <2>1. SUFFICES ASSUME T # {} PROVE FALSE
    OBVIOUS
  <2>2. T \in SUBSET Nat
    OBVIOUS
  <2>3. PICK k \in T : \A m \in T : k <= m
    BY <2>1, <2>2, Least
  <2>4. k \in 0 .. n /\ g[k] # f[k] /\ k # 0
    BY <1>1, <1>2 DEF Sums
  <2>5. k \in 1 .. n /\ k - 1 \in 0 .. n /\ ~(k <= k - 1)
    BY <2>4
  <2>6. g[k - 1] = f[k - 1]
    BY <2>3, <2>5
  <2>7. g[k] = 256 * g[k - 1] + r[i + k - 1] /\ f[k] = 256 * f[k - 1] + q[i + k - 1]
    BY <1>1, <1>2, <2>5 DEF Sums
  <2>8. QED
    BY <2>4, <2>5, <2>6, <2>7
<1>4. n \in 0 .. n
  OBVIOUS
<1>5. QED
  BY <1>1, <1>2, <1>3, <1>4

-----------------------------------------------------------------------------
(* Buffers *)

LEMMA FromFacts ==
    ASSUME NEW S, NEW q \in Seq(S), NEW n \in 0 .. Len(q)
    PROVE  /\ From(q, n + 1) \in Seq(S) /\ Len(From(q, n + 1)) = Len(q) - n
           /\ \A i \in 1 .. Len(q) - n : From(q, n + 1)[i] = q[n + i]
<1>1. Len(q) \in Nat /\ \A i \in 1 .. Len(q) : q[i] \in S
  BY LenProperties, ElementOfSeq
<1>2. \A i \in n + 1 .. Len(q) : q[i] \in S
  BY <1>1
<1>3. /\ SubSeq(q, n + 1, Len(q)) \in Seq(S)
      /\ Len(SubSeq(q, n + 1, Len(q))) = IF n + 1 <= Len(q) THEN Len(q) - (n + 1) + 1 ELSE 0
      /\ \A i \in 1 .. Len(q) - (n + 1) + 1 : SubSeq(q, n + 1, Len(q))[i] = q[n + 1 + i - 1]
  BY <1>1, <1>2, SubSeqProperties
<1>4. \A i \in 1 .. Len(q) - n : i \in 1 .. Len(q) - (n + 1) + 1 /\ n + 1 + i - 1 = n + i
  BY <1>1
<1>5. Len(q) - n = IF n + 1 <= Len(q) THEN Len(q) - (n + 1) + 1 ELSE 0
  BY <1>1
<1>6. QED
  BY <1>3, <1>4, <1>5 DEF From

\* What leaves the front of a buffer leaves the front of all that is on its way.
LEMMA FromConcat ==
    ASSUME NEW S, NEW c \in Seq(S), NEW s \in Seq(S), NEW n \in 0 .. Len(c)
    PROVE  From(c, n + 1) \o s = From(c \o s, n + 1)
<1> DEFINE w == c \o s
           d == From(c, n + 1)
           e == From(w, n + 1)
<1>1. /\ Len(c) \in Nat /\ Len(s) \in Nat
      /\ w \in Seq(S) /\ Len(w) = Len(c) + Len(s)
      /\ \A i \in 1 .. Len(c) + Len(s) : w[i] = IF i <= Len(c) THEN c[i] ELSE s[i - Len(c)]
  BY ConcatProperties, LenProperties
<1>2. /\ d \in Seq(S) /\ Len(d) = Len(c) - n
      /\ \A i \in 1 .. Len(c) - n : d[i] = c[n + i]
  BY FromFacts
<1> HIDE DEF w
<1>3. n \in 0 .. Len(w)
  BY <1>1
<1>4. /\ e \in Seq(S) /\ Len(e) = Len(w) - n
      /\ \A i \in 1 .. Len(w) - n : e[i] = w[n + i]
  BY <1>1, <1>3, FromFacts
<1> HIDE DEF d, e
<1>5. /\ d \o s \in Seq(S) /\ Len(d \o s) = Len(d) + Len(s)
      /\ \A i \in 1 .. Len(d) + Len(s) : (d \o s)[i] = IF i <= Len(d) THEN d[i] ELSE s[i - Len(d)]
  BY <1>2, ConcatProperties
<1>6. Len(d \o s) = Len(e)
  BY <1>1, <1>2, <1>4, <1>5
<1>7. ASSUME NEW i \in 1 .. Len(d \o s) PROVE (d \o s)[i] = e[i]
  <2>1. i \in 1 .. Len(d) + Len(s) /\ i \in 1 .. Len(w) - n /\ n + i \in 1 .. Len(c) + Len(s)
    BY <1>1, <1>2, <1>5
  <2>2. e[i] = IF n + i <= Len(c) THEN c[n + i] ELSE s[n + i - Len(c)]
    BY <1>1, <1>4, <2>1
  <2>3. (d \o s)[i] = IF i <= Len(c) - n THEN d[i] ELSE s[i - (Len(c) - n)]
    BY <1>2, <1>5, <2>1
  <2>4. CASE i <= Len(c) - n
    <3>1. i \in 1 .. Len(c) - n /\ n + i <= Len(c)
      BY <1>1, <2>1, <2>4
    <3>2. QED
      BY <1>2, <2>2, <2>3, <2>4, <3>1
  <2>5. CASE ~(i <= Len(c) - n)
    <3>1. ~(n + i <= Len(c)) /\ n + i - Len(c) = i - (Len(c) - n)
      BY <1>1, <2>1, <2>5
    <3>2. QED
      BY <2>2, <2>3, <2>5, <3>1
  <2>6. QED
    BY <2>4, <2>5
<1>8. d \o s = e
  BY <1>4, <1>5, <1>6, <1>7, SeqEqual
<1>9. QED
  BY <1>8 DEF d, e, w

\* A part of a string.
LEMMA CutFacts ==
    ASSUME NEW q \in Seq(Byte), NEW a \in Nat, NEW e \in Nat, a >= 1, e <= Len(q)
    PROVE  /\ SubSeq(q, a, e) \in Seq(Byte) /\ Len(SubSeq(q, a, e)) = IF a <= e THEN e - a + 1 ELSE 0
           /\ \A i \in 1 .. e - a + 1 : SubSeq(q, a, e)[i] = q[a + i - 1]
<1>1. Len(q) \in Nat /\ \A i \in 1 .. Len(q) : q[i] \in Byte
  BY LenProperties, ElementOfSeq
<1>2. \A i \in a .. e : i \in 1 .. Len(q)
  BY <1>1
<1>3. \A i \in a .. e : q[i] \in Byte
  BY <1>1, <1>2
<1>4. a \in Int /\ e \in Int
  OBVIOUS
<1> HIDE DEF Byte
<1>5. QED
  BY <1>3, <1>4, SubSeqProperties

-----------------------------------------------------------------------------
(* What is on its way to the server: message behind message *)

\* The bytes that are sent for an entry of queue.
SentAs(p) ==
    {ClientFrame(p, ext) : ext \in LengthForms(Len(p))}
    \cup (IF p = <<>> THEN {ClientPing, CloseMessage} ELSE {})

\* x lies behind the first o bytes of b; a NUL may have hit its first byte.
LiesAt(b, o, x) ==
    /\ o + Len(x) <= Len(b)
    /\ \A j \in 1 .. Len(x) : b[o + j] = x[j] \/ (j = 1 /\ b[o + j] = 0)

\* cut[k] is where the k-th message of q ends in b, and the next one starts.
CutsAt(cut, b, base, q) ==
    /\ cut \in [0 .. Len(q) -> Nat]
    /\ cut[0] = base /\ cut[Len(q)] = Len(b)
    /\ \A k, l \in 0 .. Len(q) : k <= l => cut[k] <= cut[l]
    /\ \A k \in 1 .. Len(q) :
        \E x \in SentAs(q[k]) : cut[k] = cut[k - 1] + Len(x) /\ LiesAt(b, cut[k - 1], x)

\* Behind the first base bytes of b lie the messages of q, and nothing else.
Splits(b, base, q) == \E cut : CutsAt(cut, b, base, q)

Frame == {p \in Seq(Byte) : Len(p) < 65536}

LEMMA MaskedBytes ==
    ASSUME NEW p \in Seq(Byte)
    PROVE  /\ Masked(p) \in Seq(Byte) /\ Len(Masked(p)) = Len(p)
           /\ \A i \in 1 .. Len(p) : /\ ((i - 1) % 4) + 1 \in 1 .. 4
                                     /\ Masked(p)[i] = Xor(p[i], Mask[((i - 1) % 4) + 1])
<1>1. Len(p) \in Nat /\ DOMAIN p = 1 .. Len(p) /\ \A i \in 1 .. Len(p) : p[i] \in Byte
  BY LenProperties, ElementOfSeq
<1>2. \A i \in 1 .. Len(p) : ((i - 1) % 4) + 1 \in 1 .. 4
  BY <1>1
<1>3. Masked(p) = [i \in 1 .. Len(p) |-> Xor(p[i], Mask[((i - 1) % 4) + 1])]
  BY <1>1 DEF Masked
<1>4. \A i \in 1 .. Len(p) : Xor(p[i], Mask[((i - 1) % 4) + 1]) \in Byte
  BY <1>1, <1>2, XorTwice, WireConstants
<1>5. Masked(p) \in [1 .. Len(p) -> Byte]
  BY <1>3, <1>4
<1>6. QED
  BY <1>1, <1>2, <1>3, <1>5

LEMMA FunctionSeq ==
    ASSUME NEW S, NEW n \in Nat, NEW f \in [1 .. n -> S]
    PROVE  f \in Seq(S) /\ Len(f) = n
OBVIOUS

LEMMA MaskSeq == Mask \in Seq(Byte) /\ Len(Mask) = 4
<1>1. Mask \in [1 .. 4 -> Byte] /\ 4 \in Nat
  BY WireConstants
<1>2. QED
  BY <1>1, FunctionSeq

LEMMA LengthSplit ==
    ASSUME NEW n \in Nat, n < 65536
    PROVE  /\ n \div 256 \in 0 .. 255 /\ n % 256 \in 0 .. 255
           /\ (n \div 256) % 256 = n \div 256
           /\ n = 256 * (n \div 256) + (n % 256)
<1>1. n \div 256 \in 0 .. 255 /\ n % 256 \in 0 .. 255 /\ n = 256 * (n \div 256) + (n % 256)
  OBVIOUS
<1>2. \A hi \in 0 .. 255 : hi % 256 = hi
  OBVIOUS
<1>3. (n \div 256) % 256 = n \div 256
  BY <1>1, <1>2
<1>4. QED
  BY <1>1, <1>3

\* The second byte of a message without a mask, and the start of one whatever its
\* first byte is.
Code(n, ext) == CASE ext = 0 -> n [] ext = 2 -> 126 [] OTHER -> 127

HeadWith(first, mask, n, ext) == <<first, mask + Code(n, ext)>> \o BeBytes(n, ext)

LEMMA FormFacts ==
    ASSUME NEW n \in Nat, n < 65536, NEW ext \in LengthForms(n)
    PROVE  /\ ext \in {0, 2, 8} /\ (ext = 0 => n < 126)
           /\ Code(n, ext) \in 0 .. 127
           /\ (ext = 0 <=> Code(n, ext) < 126)
           /\ (ext = 2 <=> Code(n, ext) = 126)
           /\ (ext = 8 <=> Code(n, ext) = 127)
           /\ (ext = 0 => Code(n, ext) = n)
<1>1. ext \in {0, 2, 8} /\ (ext = 0 => n < 126)
  BY DEF LengthForms, Shortest
<1>2. CASE ext = 0
  BY <1>1, <1>2 DEF Code
<1>3. CASE ext = 2
  BY <1>1, <1>3 DEF Code
<1>4. CASE ext = 8
  BY <1>1, <1>4 DEF Code
<1>5. QED
  BY <1>1, <1>2, <1>3, <1>4

LEMMA BeBytesFacts ==
    ASSUME NEW n \in Nat, n < 65536, NEW ext \in Nat
    PROVE  /\ BeBytes(n, ext) \in Seq(Byte) /\ Len(BeBytes(n, ext)) = ext
           /\ \A k \in 1 .. ext : BeBytes(n, ext)[k] =
                IF k = ext THEN n % 256 ELSE IF k = ext - 1 THEN n \div 256 ELSE 0
<1> DEFINE byte(k) == IF k = ext THEN n % 256 ELSE IF k = ext - 1 THEN n \div 256 ELSE 0
           f == [k \in 1 .. ext |-> byte(k)]
<1>1. n % 256 \in Byte /\ n \div 256 \in Byte /\ 0 \in Byte
  BY LengthSplit DEF Byte
<1>2. \A k \in 1 .. ext :
        (CASE k = ext -> n % 256 [] k = ext - 1 -> n \div 256 [] OTHER -> 0) = byte(k)
  OBVIOUS
<1>3. BeBytes(n, ext) = f
  BY <1>2 DEF BeBytes
<1>4. \A k \in 1 .. ext : byte(k) \in Byte
  BY <1>1
<1> HIDE DEF byte
<1>5. f \in [1 .. ext -> Byte] /\ ext \in Nat
  BY <1>4
<1>6. f \in Seq(Byte) /\ Len(f) = ext
  BY <1>5, FunctionSeq
<1>7. \A k \in 1 .. ext : f[k] = byte(k)
  OBVIOUS
<1>8. QED
  BY <1>3, <1>6, <1>7 DEF byte

LEMMA HeadBytes ==
    ASSUME NEW first \in Byte, NEW mask \in {0, 128}, NEW n \in Nat, n < 65536,
           NEW ext \in LengthForms(n)
    PROVE  LET hd == HeadWith(first, mask, n, ext)
           IN /\ hd \in Seq(Byte) /\ Len(hd) = 2 + ext
              /\ hd[1] = first /\ hd[2] = mask + Code(n, ext)
              /\ \A k \in 1 .. ext : hd[2 + k] = BeBytes(n, ext)[k]
<1> DEFINE s == mask + Code(n, ext)
           t == <<first, s>>
           e == BeBytes(n, ext)
           hd == HeadWith(first, mask, n, ext)
<1>1. ext \in {0, 2, 8} /\ s \in Byte
  <2>1. Code(n, ext) \in 0 .. 127 /\ ext \in {0, 2, 8}
    BY FormFacts
  <2>2. QED
    BY <2>1 DEF Byte
<1>2. e \in Seq(Byte) /\ Len(e) = ext
  <2> HIDE DEF s, t, hd
  <2>1. ext \in Nat
    BY <1>1
  <2>2. BeBytes(n, ext) \in Seq(Byte) /\ Len(BeBytes(n, ext)) = ext
    BY <2>1, BeBytesFacts
  <2>3. QED
    BY <2>2
<1>3. hd = t \o e
  BY DEF HeadWith
<1> HIDE DEF s, e, hd
<1>4. t \in Seq(Byte) /\ Len(t) = 2 /\ t[1] = first /\ t[2] = s
  BY <1>1
<1> HIDE DEF t
<1>5. /\ hd \in Seq(Byte) /\ Len(hd) = 2 + ext
      /\ \A i \in 1 .. 2 + ext : hd[i] = IF i <= 2 THEN t[i] ELSE e[i - 2]
  <2>1. t \in Seq(Byte) /\ e \in Seq(Byte)
    BY <1>2, <1>4
  <2>2. /\ t \o e \in Seq(Byte) /\ Len(t \o e) = Len(t) + Len(e)
        /\ \A i \in 1 .. Len(t) + Len(e) : (t \o e)[i] = IF i <= Len(t) THEN t[i] ELSE e[i - Len(t)]
    BY <2>1, ConcatProperties
  <2>3. QED
    BY <1>2, <1>3, <1>4, <2>2
<1>6. ASSUME NEW k \in 1 .. ext PROVE hd[2 + k] = e[k]
  <2>1. 2 + k \in 1 .. 2 + ext /\ ~(2 + k <= 2) /\ 2 + k - 2 = k
    BY <1>1
  <2>2. QED
    BY <1>5, <2>1
<1>7. hd[1] = first /\ hd[2] = s
  <2>1. 1 \in 1 .. 2 + ext /\ 2 \in 1 .. 2 + ext
    BY <1>1
  <2>2. QED
    BY <1>4, <1>5, <2>1
<1>8. QED
  BY <1>5, <1>6, <1>7 DEF s, e, hd

\* x is the frame p behind a header of h bytes.
FrameBytes(x, p, ext, h) ==
    /\ x \in Seq(Byte) /\ Len(x) = h + Len(p) /\ x[1] = 130
    /\ x[2] = 128 + Code(Len(p), ext)
    /\ \A k \in 1 .. ext : x[2 + k] = BeBytes(Len(p), ext)[k]
    /\ \A i \in 1 .. 4 : x[h - 4 + i] = Mask[i]
    /\ \A i \in 1 .. Len(p) : x[h + i] = Masked(p)[i]

LEMMA ClientFrameBytes ==
    ASSUME NEW p \in Frame, NEW ext \in LengthForms(Len(p))
    PROVE  FrameBytes(ClientFrame(p, ext), p, ext, 6 + ext)
<1> DEFINE hd == HeadWith(130, 128, Len(p), ext)
           l == Len(p)
           m == Masked(p)
           x == ClientFrame(p, ext)
           front == hd \o Mask
           e == BeBytes(l, ext)
<1>1. p \in Seq(Byte) /\ l \in Nat /\ l < 65536
  BY LenProperties DEF Frame
<1>2. /\ hd \in Seq(Byte) /\ Len(hd) = 2 + ext
      /\ hd[1] = 130 /\ hd[2] = 128 + Code(l, ext)
      /\ \A k \in 1 .. ext : hd[2 + k] = e[k]
  <2>1. 130 \in Byte /\ 128 \in {0, 128}
    BY DEF Byte
  <2>2. QED
    BY <1>1, <2>1, HeadBytes
<1>3. m \in Seq(Byte) /\ Len(m) = l
  BY <1>1, MaskedBytes
<1>4. x = front \o m
  BY DEF ClientFrame, FrameHead, HeadWith, Code
<1>5. ext \in {0, 2, 8}
  BY <1>1, FormFacts
<1> HIDE DEF m, hd, x, e
<1>6. /\ front \in Seq(Byte) /\ Len(front) = 6 + ext
      /\ \A i \in 1 .. 2 + ext : front[i] = hd[i]
      /\ \A i \in 1 .. 4 : front[2 + ext + i] = Mask[i]
  <2>0. hd \in Seq(Byte) /\ Mask \in Seq(Byte)
    BY <1>2, MaskSeq
  <2>1. /\ front \in Seq(Byte) /\ Len(front) = Len(hd) + Len(Mask)
        /\ \A i \in 1 .. Len(hd) + Len(Mask) :
             front[i] = IF i <= Len(hd) THEN hd[i] ELSE Mask[i - Len(hd)]
    BY <2>0, ConcatProperties
  <2> HIDE DEF front
  <2>2. Len(hd) = 2 + ext /\ Len(Mask) = 4
    BY <1>2, MaskSeq
  <2>3. ASSUME NEW i \in 1 .. 4 PROVE front[2 + ext + i] = Mask[i]
    <3>1. 2 + ext + i \in 1 .. 2 + ext + 4 /\ ~(2 + ext + i <= 2 + ext) /\ 2 + ext + i - (2 + ext) = i
      BY <1>5
    <3>2. QED
      BY <2>1, <2>2, <3>1
  <2>4. \A i \in 1 .. 2 + ext : front[i] = hd[i]
    <3>1. \A i \in 1 .. 2 + ext : i \in 1 .. 2 + ext + 4 /\ i <= 2 + ext
      BY <1>5
    <3>2. QED
      BY <2>1, <2>2, <3>1
  <2>5. QED
    BY <1>5, <2>1, <2>2, <2>3, <2>4
<1> HIDE DEF front
<1>7. /\ x \in Seq(Byte) /\ Len(x) = 6 + ext + l
      /\ \A i \in 1 .. 6 + ext : x[i] = front[i]
      /\ \A i \in 1 .. l : x[6 + ext + i] = m[i]
  <2> DEFINE h == 6 + ext
  <2>1. /\ x \in Seq(Byte) /\ Len(x) = h + l
        /\ \A i \in 1 .. h + l : x[i] = IF i <= h THEN front[i] ELSE m[i - h]
    BY <1>3, <1>4, <1>6, ConcatProperties
  <2>2. h \in {6, 8, 14}
    BY <1>5
  <2> HIDE DEF h, l
  <2>3. \A i \in 1 .. l : h + i \in 1 .. h + l /\ ~(h + i <= h) /\ h + i - h = i
    BY <1>1, <2>2
  <2>4. ASSUME NEW i \in 1 .. l PROVE x[h + i] = m[i]
    <3>1. h + i \in 1 .. h + l /\ ~(h + i <= h) /\ h + i - h = i
      BY <2>3
    <3> DEFINE j == h + i
    <3>2. j \in 1 .. h + l
      BY <3>1
    <3> HIDE DEF j
    <3>3. x[j] = IF j <= h THEN front[j] ELSE m[j - h]
      BY <2>1, <3>2
    <3>4. ~(j <= h) /\ j - h = i
      BY <2>2, <3>1 DEF j
    <3>5. x[j] = m[i]
      BY <3>3, <3>4
    <3>6. QED
      BY <3>5 DEF j
  <2>5. \A i \in 1 .. h : x[i] = front[i]
    BY <1>1, <2>1, <2>2
  <2>6. QED
    BY <2>1, <2>4, <2>5 DEF h, l
<1>8. ASSUME NEW i \in 1 .. 4 PROVE x[6 + ext - 4 + i] = Mask[i]
  <2>1. 6 + ext - 4 + i = 2 + ext + i /\ 2 + ext + i \in 1 .. 6 + ext
    BY <1>5
  <2>2. QED
    BY <1>6, <1>7, <2>1
<1>9. \A i \in 1 .. 2 + ext : x[i] = hd[i]
  <2>1. \A i \in 1 .. 2 + ext : i \in 1 .. 6 + ext
    BY <1>5
  <2>2. QED
    BY <1>6, <1>7, <2>1
<1>10. x[1] = 130 /\ x[2] = 128 + Code(l, ext)
  <2>1. 1 \in 1 .. 2 + ext /\ 2 \in 1 .. 2 + ext
    BY <1>5
  <2>2. QED
    BY <1>2, <1>9, <2>1
<1>11. ASSUME NEW k \in 1 .. ext PROVE x[2 + k] = e[k]
  <2>1. 2 + k \in 1 .. 2 + ext
    BY <1>5
  <2>2. QED
    BY <1>2, <1>9, <2>1
<1>12. /\ x \in Seq(Byte) /\ Len(x) = 6 + ext + Len(p)
       /\ \A i \in 1 .. Len(p) : x[6 + ext + i] = m[i]
  BY <1>7
<1>13. \A i \in 1 .. Len(p) : x[6 + ext + i] = Masked(p)[i]
  BY <1>12 DEF m
<1>14. \A k \in 1 .. ext : x[2 + k] = BeBytes(Len(p), ext)[k]
  BY <1>11 DEF e
<1>15. \A i \in 1 .. 4 : x[6 + ext - 4 + i] = Mask[i]
  BY <1>8
<1>16. QED
  BY <1>5, <1>10, <1>12, <1>13, <1>14, <1>15, SMTT(30) DEF x, FrameBytes

LEMMA ControlBytes ==
    /\ ClientPing \in Seq(Byte) /\ Len(ClientPing) = 2
    /\ ClientPing[1] = 137 /\ ClientPing[2] = 0
    /\ CloseMessage \in Seq(Byte) /\ Len(CloseMessage) = 6
    /\ CloseMessage[1] = 136 /\ CloseMessage[2] = 128
<1>1. 136 \in Byte /\ 128 \in Byte /\ 137 \in Byte /\ 0 \in Byte
  BY DEF Byte
<1> DEFINE hd == <<136, 128>>
<1>2. hd \in Seq(Byte) /\ Len(hd) = 2 /\ hd[1] = 136 /\ hd[2] = 128
  BY <1>1
<1> HIDE DEF hd
<1>3. /\ hd \o Mask \in Seq(Byte) /\ Len(hd \o Mask) = Len(hd) + Len(Mask)
      /\ \A i \in 1 .. Len(hd) + Len(Mask) :
           (hd \o Mask)[i] = IF i <= Len(hd) THEN hd[i] ELSE Mask[i - Len(hd)]
  <2>1. hd \in Seq(Byte) /\ Mask \in Seq(Byte)
    BY <1>2, MaskSeq
  <2>2. QED
    BY <2>1, ConcatProperties
<1>4. CloseMessage = hd \o Mask
  BY DEF CloseMessage, hd
<1>5. ClientPing \in Seq(Byte) /\ Len(ClientPing) = 2 /\ ClientPing[1] = 137 /\ ClientPing[2] = 0
  BY <1>1 DEF ClientPing
<1>6. QED
  BY <1>2, <1>3, <1>4, <1>5, MaskSeq

LEMMA SentBytes ==
    ASSUME NEW p \in Frame, NEW x \in SentAs(p)
    PROVE  x \in Seq(Byte) /\ Len(x) \in Nat /\ Len(x) >= 2
<1>1. ASSUME NEW ext \in LengthForms(Len(p)), x = ClientFrame(p, ext)
      PROVE  x \in Seq(Byte) /\ Len(x) \in Nat /\ Len(x) >= 2
  <2>1. Len(p) \in Nat /\ Len(p) < 65536
    BY LenProperties DEF Frame
  <2>2. x \in Seq(Byte) /\ Len(x) = 6 + ext + Len(p)
    BY <1>1, ClientFrameBytes DEF FrameBytes
  <2>3. ext \in {0, 2, 8}
    BY <2>1, FormFacts
  <2>4. QED
    BY <2>1, <2>2, <2>3
<1>2. CASE x = ClientPing
  BY <1>2, ControlBytes
<1>3. CASE x = CloseMessage
  BY <1>3, ControlBytes
<1>4. QED
  BY <1>1, <1>2, <1>3 DEF SentAs

\* The first message is there, and the others follow it.
LEMMA SplitsFirst ==
    ASSUME NEW S, NEW b, NEW base, NEW q \in Seq(S), q # <<>>, Splits(b, base, q)
    PROVE  \E x \in SentAs(q[1]) : LiesAt(b, base, x) /\ Splits(b, base + Len(x), From(q, 2))
<1> DEFINE n == Len(q)
           r == From(q, 1 + 1)
<1>1. n \in Nat /\ n >= 1 /\ 1 \in 0 .. n
  BY LenProperties, EmptySeq
<1>2. PICK cut : CutsAt(cut, b, base, q)
  BY DEF Splits
<1>3. PICK x \in SentAs(q[1]) : cut[1] = cut[0] + Len(x) /\ LiesAt(b, cut[0], x)
  <2>1. \A k \in 1 .. n : \A o : o = k - 1 =>
          \E x \in SentAs(q[k]) : cut[k] = cut[o] + Len(x) /\ LiesAt(b, cut[o], x)
    BY <1>2 DEF CutsAt
  <2>2. 1 \in 1 .. n /\ 0 = 1 - 1
    BY <1>1
  <2> HIDE DEF n
  <2>3. QED
    BY <2>1, <2>2
<1>4. cut[0] = base /\ cut[1] = base + Len(x) /\ LiesAt(b, base, x)
  BY <1>2, <1>3 DEF CutsAt
<1>5. /\ Len(r) = n - 1
      /\ \A k \in 1 .. n - 1 : r[k] = q[k + 1]
  <2>1. /\ Len(r) = n - 1
        /\ \A k \in 1 .. n - 1 : r[k] = q[1 + k]
    BY <1>1, FromFacts
  <2>2. QED
    BY <1>1, <2>1
<1> DEFINE later == [k \in 0 .. n - 1 |-> cut[k + 1]]
<1> HIDE DEF r
<1>6. \A k \in 0 .. n - 1 : k + 1 \in 0 .. n /\ later[k] = cut[k + 1] /\ cut[k + 1] \in Nat
  BY <1>1, <1>2 DEF CutsAt
<1>7. later \in [0 .. n - 1 -> Nat]
  BY <1>6
<1> HIDE DEF later
<1>8. later[0] = base + Len(x) /\ later[n - 1] = Len(b)
  <2>1. 0 \in 0 .. n - 1 /\ n - 1 \in 0 .. n - 1 /\ 0 + 1 = 1 /\ (n - 1) + 1 = n
    BY <1>1
  <2>2. later[0] = cut[1] /\ later[n - 1] = cut[n]
    BY <1>6, <2>1
  <2>3. QED
    BY <1>2, <1>4, <2>2 DEF CutsAt
<1>9. ASSUME NEW k \in 0 .. n - 1, NEW l \in 0 .. n - 1, k <= l PROVE later[k] <= later[l]
  <2>1. k + 1 \in 0 .. n /\ l + 1 \in 0 .. n /\ k + 1 <= l + 1
    BY <1>1, <1>9
  <2>2. cut[k + 1] <= cut[l + 1]
    BY <1>2, <2>1 DEF CutsAt
  <2>3. QED
    BY <1>6, <2>2
<1>10. ASSUME NEW k \in 1 .. n - 1
       PROVE  \E y \in SentAs(r[k]) :
                later[k] = later[k - 1] + Len(y) /\ LiesAt(b, later[k - 1], y)
  <2>1. k + 1 \in 1 .. n /\ k \in 0 .. n - 1 /\ k - 1 \in 0 .. n - 1 /\ (k - 1) + 1 = k /\ (k + 1) - 1 = k
    BY <1>1
  <2>2. PICK y \in SentAs(q[k + 1]) : cut[k + 1] = cut[k] + Len(y) /\ LiesAt(b, cut[k], y)
    <3>1. \E y \in SentAs(q[k + 1]) :
            cut[k + 1] = cut[(k + 1) - 1] + Len(y) /\ LiesAt(b, cut[(k + 1) - 1], y)
      BY <1>2, <2>1 DEF CutsAt
    <3>2. QED
      BY <2>1, <3>1
  <2>3. later[k] = cut[k + 1] /\ later[k - 1] = cut[k]
    <3>1. later[k - 1] = cut[(k - 1) + 1]
      BY <1>6, <2>1
    <3>2. QED
      BY <1>6, <2>1, <3>1
  <2>4. QED
    BY <1>5, <2>2, <2>3
<1>11. CutsAt(later, b, base + Len(x), r)
  BY <1>5, <1>7, <1>8, <1>9, <1>10 DEF CutsAt
<1>12. r = From(q, 2)
  <2>1. 1 + 1 = 2
    OBVIOUS
  <2>2. QED
    BY <2>1 DEF r
<1>13. QED
  BY <1>4, <1>11, <1>12 DEF Splits

\* What is in front of the messages can be taken away.
LEMMA SplitsBehind ==
    ASSUME NEW b \in Seq(Byte), NEW base \in Nat, NEW q \in Seq(Frame), Splits(b, base, q)
    PROVE  base <= Len(b) /\ Splits(From(b, base + 1), 0, q)
<1> DEFINE n == Len(q)
           c == From(b, base + 1)
<1>1. PICK cut : CutsAt(cut, b, base, q)
  BY DEF Splits
<1>2. n \in Nat /\ 0 \in 0 .. n /\ n \in 0 .. n /\ Len(b) \in Nat
  BY LenProperties
<1>3. \A k \in 0 .. n : cut[k] \in Nat /\ base <= cut[k] /\ cut[k] <= Len(b)
  <2>1. ASSUME NEW k \in 0 .. n
        PROVE  cut[k] \in Nat /\ cut[0] <= cut[k] /\ cut[k] <= cut[n]
    <3>1. 0 <= k /\ k <= n
      BY <1>2
    <3>2. QED
      BY <1>1, <1>2, <3>1 DEF CutsAt
  <2>2. QED
    BY <1>1, <2>1 DEF CutsAt
<1>4. base \in 0 .. Len(b)
  BY <1>2, <1>3
<1>5. Len(c) = Len(b) - base /\ \A i \in 1 .. Len(b) - base : c[i] = b[base + i]
  BY <1>4, FromFacts
<1> HIDE DEF c
<1> DEFINE moved == [k \in 0 .. n |-> cut[k] - base]
<1>6. \A k \in 0 .. n : moved[k] = cut[k] - base /\ moved[k] \in Nat
  BY <1>3
<1>7. moved \in [0 .. n -> Nat]
  BY <1>6
<1> HIDE DEF moved
<1>8. moved[0] = 0 /\ moved[n] = Len(c)
  BY <1>1, <1>2, <1>3, <1>5, <1>6 DEF CutsAt
<1>9. ASSUME NEW k \in 0 .. n, NEW l \in 0 .. n, k <= l PROVE moved[k] <= moved[l]
  <2>1. cut[k] <= cut[l]
    BY <1>1, <1>9 DEF CutsAt
  <2>2. QED
    BY <1>3, <1>6, <2>1
<1>10. ASSUME NEW k \in 1 .. n
       PROVE  \E x \in SentAs(q[k]) :
                moved[k] = moved[k - 1] + Len(x) /\ LiesAt(c, moved[k - 1], x)
  <2>1. k \in 0 .. n /\ k - 1 \in 0 .. n
    OBVIOUS
  <2>2. PICK x \in SentAs(q[k]) : cut[k] = cut[k - 1] + Len(x) /\ LiesAt(b, cut[k - 1], x)
    BY <1>1 DEF CutsAt
  <2>3. /\ cut[k - 1] + Len(x) <= Len(b)
        /\ \A j \in 1 .. Len(x) : b[cut[k - 1] + j] = x[j] \/ (j = 1 /\ b[cut[k - 1] + j] = 0)
    BY <2>2 DEF LiesAt
  <2> DEFINE o == cut[k - 1]
             e == cut[k]
             l == Len(x)
  <2>4. o \in Nat /\ e \in Nat /\ base <= o /\ e <= Len(b) /\ e = o + l
    BY <1>3, <2>1, <2>2
  <2>5. moved[k - 1] = o - base /\ moved[k] = e - base
    BY <1>6, <2>1
  <2> HIDE DEF o, e
  <2>6. \A j \in 1 .. l : /\ (o - base) + j \in 1 .. Len(b) - base
                          /\ base + ((o - base) + j) = o + j
    <3> SUFFICES ASSUME NEW j \in 1 .. l
                 PROVE  (o - base) + j \in 1 .. Len(b) - base /\ base + ((o - base) + j) = o + j
      OBVIOUS
    <3>1. l \in Nat
      <4>1. q[k] \in Frame
        BY ElementOfSeq
      <4>2. QED
        BY <4>1, SentBytes
    <3>2. QED
      BY <1>2, <2>4, <3>1
  <2>7. \A j \in 1 .. l : c[(o - base) + j] = b[o + j]
    BY <1>5, <2>6
  <2>8. LiesAt(c, o - base, x)
    <3>1. (o - base) + l <= Len(c)
      BY <1>2, <1>5, <2>4
    <3>2. \A j \in 1 .. l : c[(o - base) + j] = x[j] \/ (j = 1 /\ c[(o - base) + j] = 0)
      BY <2>3, <2>7 DEF o
    <3>3. QED
      BY <3>1, <3>2 DEF LiesAt
  <2>9. QED
    BY <2>4, <2>5, <2>8
<1>11. CutsAt(moved, c, 0, q)
  BY <1>7, <1>8, <1>9, <1>10 DEF CutsAt
<1>12. QED
  BY <1>2, <1>3, <1>11 DEF Splits, c

LEMMA SplitsNone ==
    ASSUME NEW b \in Seq(Byte), NEW base \in Nat
    PROVE  Splits(b, base, <<>>) <=> base = Len(b)
<1> DEFINE n == Len(<<>>)
<1>1. n = 0 /\ Len(b) \in Nat
  BY LenProperties
<1>2. ASSUME Splits(b, base, <<>>) PROVE base = Len(b)
  BY <1>1, <1>2 DEF Splits, CutsAt
<1>3. ASSUME base = Len(b) PROVE Splits(b, base, <<>>)
  <2> DEFINE cut == [k \in 0 .. 0 |-> base]
  <2>1. cut \in [0 .. 0 -> Nat] /\ cut[0] = base
    OBVIOUS
  <2>2. \A k, l \in 0 .. 0 : cut[k] <= cut[l]
    OBVIOUS
  <2>3. 1 .. 0 = {}
    OBVIOUS
  <2> HIDE DEF cut
  <2>4. CutsAt(cut, b, base, <<>>)
    BY <1>1, <1>3, <2>1, <2>2, <2>3 DEF CutsAt
  <2>5. QED
    BY <2>4 DEF Splits
<1>4. QED
  BY <1>2, <1>3

\* A message is added behind the others.
LEMMA SplitsMore ==
    ASSUME NEW b \in Seq(Byte), NEW base \in Nat, NEW q \in Seq(Frame), Splits(b, base, q),
           NEW p \in Frame, NEW x \in SentAs(p)
    PROVE  Splits(b \o x, base, Append(q, p))
<1> DEFINE n == Len(q)
           c == b \o x
           r == Append(q, p)
<1>1. PICK cut : CutsAt(cut, b, base, q)
  BY DEF Splits
<1>2. x \in Seq(Byte) /\ Len(x) \in Nat /\ Len(b) \in Nat /\ n \in Nat
  BY SentBytes, LenProperties
<1>3. /\ Len(c) = Len(b) + Len(x)
      /\ \A i \in 1 .. Len(b) + Len(x) : c[i] = IF i <= Len(b) THEN b[i] ELSE x[i - Len(b)]
  BY <1>2, ConcatProperties
<1>4. Len(r) = n + 1 /\ r[n + 1] = p /\ \A k \in 1 .. n : r[k] = q[k]
  BY AppendProperties
<1>5. \A k \in 0 .. n : cut[k] \in Nat /\ cut[k] <= Len(b)
  <2>1. n \in 0 .. n /\ \A k \in 0 .. n : k <= n
    BY <1>2
  <2>2. QED
    BY <1>1, <2>1 DEF CutsAt
<1> HIDE DEF c, r
<1> DEFINE more == [k \in 0 .. n + 1 |-> IF k = n + 1 THEN Len(b) + Len(x) ELSE cut[k]]
<1>6. /\ more[n + 1] = Len(b) + Len(x)
      /\ \A k \in 0 .. n : more[k] = cut[k]
  BY <1>2
<1>7. more \in [0 .. n + 1 -> Nat]
  <2>1. ASSUME NEW k \in 0 .. n + 1, k # n + 1 PROVE cut[k] \in Nat
    <3>1. k \in 0 .. n
      BY <1>2, <2>1
    <3>2. QED
      BY <1>5, <3>1
  <2>2. QED
    BY <1>2, <2>1
<1> HIDE DEF more
<1>8. more[0] = base /\ more[n + 1] = Len(c)
  BY <1>1, <1>2, <1>3, <1>6 DEF CutsAt
<1>9. ASSUME NEW k \in 0 .. n + 1, NEW l \in 0 .. n + 1, k <= l PROVE more[k] <= more[l]
  <2>1. CASE l = n + 1
    <3>1. k = n + 1 \/ k \in 0 .. n
      BY <1>2
    <3>2. k \in 0 .. n => more[k] \in Nat /\ more[k] <= Len(b)
      BY <1>5, <1>6
    <3>3. QED
      BY <1>2, <1>6, <2>1, <3>1, <3>2
  <2>2. CASE l # n + 1
    <3>1. k \in 0 .. n /\ l \in 0 .. n
      BY <1>2, <1>9, <2>2
    <3>2. cut[k] <= cut[l]
      BY <1>1, <1>9, <3>1 DEF CutsAt
    <3>3. QED
      BY <1>6, <3>1, <3>2
  <2>3. QED
    BY <2>1, <2>2
<1>10. ASSUME NEW k \in 1 .. n + 1
       PROVE  \E y \in SentAs(r[k]) :
                more[k] = more[k - 1] + Len(y) /\ LiesAt(c, more[k - 1], y)
  <2>1. CASE k = n + 1
    <3>1. k - 1 = n /\ n \in 0 .. n
      BY <1>2, <2>1
    <3>2. more[k - 1] = Len(b) /\ more[k] = Len(b) + Len(x)
      BY <1>1, <1>6, <2>1, <3>1 DEF CutsAt
    <3>3. ASSUME NEW j \in 1 .. Len(x) PROVE c[Len(b) + j] = x[j]
      <4>1. Len(b) + j \in 1 .. Len(b) + Len(x) /\ ~(Len(b) + j <= Len(b)) /\ Len(b) + j - Len(b) = j
        BY <1>2
      <4>2. c[Len(b) + j] = IF Len(b) + j <= Len(b) THEN b[Len(b) + j] ELSE x[Len(b) + j - Len(b)]
        BY <1>3, <4>1
      <4>3. QED
        BY <4>1, <4>2
    <3>4. LiesAt(c, Len(b), x)
      BY <1>2, <1>3, <3>3 DEF LiesAt
    <3>5. x \in SentAs(r[k])
      BY <1>4, <2>1
    <3>6. QED
      BY <3>2, <3>4, <3>5
  <2>2. CASE k # n + 1
    <3>1. k \in 1 .. n /\ k \in 0 .. n /\ k - 1 \in 0 .. n
      BY <1>2, <2>2
    <3>2. PICK y \in SentAs(q[k]) : cut[k] = cut[k - 1] + Len(y) /\ LiesAt(b, cut[k - 1], y)
      BY <1>1, <3>1 DEF CutsAt
    <3> DEFINE o == cut[k - 1]
    <3>3. o \in Nat
      BY <1>5, <3>1
    <3>4. Len(y) \in Nat
      <4>1. q[k] \in Frame
        BY <3>1, ElementOfSeq
      <4>2. QED
        BY <4>1, SentBytes
    <3>5. more[k] = cut[k] /\ more[k - 1] = o
      BY <1>6, <3>1
    <3>6. /\ o + Len(y) <= Len(b)
          /\ \A j \in 1 .. Len(y) : b[o + j] = y[j] \/ (j = 1 /\ b[o + j] = 0)
      BY <3>2 DEF LiesAt
    <3> HIDE DEF o
    <3>7. ASSUME NEW j \in 1 .. Len(y) PROVE c[o + j] = b[o + j]
      <4>1. o + j \in 1 .. Len(b) + Len(x) /\ o + j <= Len(b)
        BY <1>2, <3>3, <3>4, <3>6
      <4>2. QED
        BY <1>3, <4>1
    <3>8. LiesAt(c, o, y)
      <4>1. o + Len(y) <= Len(c)
        BY <1>2, <1>3, <3>3, <3>4, <3>6
      <4>2. \A j \in 1 .. Len(y) : c[o + j] = y[j] \/ (j = 1 /\ c[o + j] = 0)
        BY <3>6, <3>7
      <4>3. QED
        BY <4>1, <4>2 DEF LiesAt
    <3>9. cut[k] = o + Len(y) /\ y \in SentAs(r[k])
      BY <1>4, <3>1, <3>2 DEF o
    <3>10. QED
      BY <3>5, <3>8, <3>9
  <2>3. QED
    BY <2>1, <2>2
<1>11. CutsAt(more, c, base, r)
  BY <1>4, <1>7, <1>8, <1>9, <1>10 DEF CutsAt
<1>12. QED
  BY <1>11 DEF Splits, c, r

\* A NUL may fall on the first byte behind what is in front of the messages.
LEMMA SplitsNul ==
    ASSUME NEW b \in Seq(Byte), NEW base \in Nat, NEW q \in Seq(Frame), Splits(b, base, q),
           NEW c \in Seq(Byte), Len(c) = Len(b),
           \A j \in base + 1 .. Len(b) : c[j] = b[j] \/ (j = base + 1 /\ c[j] = 0)
    PROVE  Splits(c, base, q)
<1> DEFINE n == Len(q)
<1>1. PICK cut : CutsAt(cut, b, base, q)
  BY DEF Splits
<1>2. n \in Nat /\ Len(b) \in Nat
  BY LenProperties
<1>3. ASSUME NEW k \in 0 .. n PROVE cut[k] \in Nat /\ base <= cut[k]
  <2>1. 0 \in 0 .. n /\ 0 <= k
    BY <1>2
  <2>2. QED
    BY <1>1, <2>1 DEF CutsAt
<1>4. ASSUME NEW k \in 1 .. n
      PROVE  \E x \in SentAs(q[k]) : cut[k] = cut[k - 1] + Len(x) /\ LiesAt(c, cut[k - 1], x)
  <2>1. k - 1 \in 0 .. n
    BY <1>2
  <2>2. PICK x \in SentAs(q[k]) : cut[k] = cut[k - 1] + Len(x) /\ LiesAt(b, cut[k - 1], x)
    BY <1>1 DEF CutsAt
  <2>3. Len(x) \in Nat
    <3>1. q[k] \in Frame
      BY ElementOfSeq
    <3>2. QED
      BY <3>1, SentBytes
  <2> DEFINE o == cut[k - 1]
  <2>4. o \in Nat /\ base <= o
    BY <1>3, <2>1
  <2>5. /\ o + Len(x) <= Len(b)
        /\ \A j \in 1 .. Len(x) : b[o + j] = x[j] \/ (j = 1 /\ b[o + j] = 0)
    BY <2>2 DEF LiesAt
  <2> HIDE DEF o
  <2>6. ASSUME NEW j \in 1 .. Len(x) PROVE c[o + j] = x[j] \/ (j = 1 /\ c[o + j] = 0)
    <3>1. o + j \in base + 1 .. Len(b) /\ (o + j = base + 1 => j = 1)
      BY <1>2, <2>3, <2>4, <2>5
    <3>2. c[o + j] = b[o + j] \/ (o + j = base + 1 /\ c[o + j] = 0)
      BY <3>1
    <3>3. QED
      BY <2>5, <3>1, <3>2
  <2>7. LiesAt(c, o, x)
    BY <2>5, <2>6 DEF LiesAt
  <2>8. QED
    BY <2>2, <2>7 DEF o
<1>5. CutsAt(cut, c, base, q)
  BY <1>1, <1>4 DEF CutsAt
<1>6. QED
  BY <1>5 DEF Splits

-----------------------------------------------------------------------------
(* What the parser makes of a message *)

LEMMA HeaderSums ==
    ASSUME NEW b, NEW n \in Nat, \A k \in 1 .. n : b[3 + k - 1] \in Nat
    PROVE  \E f : Sums(f, b, 3, n) /\ Be(b, 3, n) = f[n]
<1> DEFINE i == 3
<1>1. i \in Nat /\ n \in Nat /\ \A k \in 1 .. n : b[i + k - 1] \in Nat
  OBVIOUS
<1> HIDE DEF i
<1>2. \E f : Sums(f, b, i, n) /\ Be(b, i, n) = f[n]
  BY <1>1, SumsExist
<1>3. QED
  BY <1>2 DEF i

\* What starts at zero and stays there is zero.
LEMMA ZeroAlong ==
    ASSUME NEW n \in Nat, NEW f, f[0] = 0, \A k \in 1 .. n : f[k - 1] = 0 => f[k] = 0
    PROVE  f[n] = 0
<1> DEFINE T == {k \in 0 .. n : f[k] # 0}
<1> SUFFICES ASSUME f[n] # 0 PROVE FALSE
  OBVIOUS
<1>1. n \in T
  OBVIOUS
<1>2. T \in SUBSET Nat
  OBVIOUS
<1>3. PICK m \in T : \A k \in T : m <= k
  <2> HIDE DEF T
  <2>1. T # {}
    BY <1>1
  <2>2. QED
    BY <1>2, <2>1, Least
<1>4. m \in 0 .. n /\ f[m] # 0
  BY <1>3
<1>5. m # 0
  BY <1>4
<1>6. m \in 1 .. n /\ m - 1 \in 0 .. n /\ ~(m <= m - 1)
  BY <1>4, <1>5
<1>7. f[m - 1] = 0
  BY <1>3, <1>6
<1>8. QED
  BY <1>4, <1>6, <1>7

\* These are the values of the bytes so far when all but the last two of them are zero.
TwoBytes(f, ext, hi, lo) ==
    /\ f \in [0 .. ext -> Nat] /\ f[0] = 0
    /\ \A k \in 1 .. ext : f[k] = 256 * f[k - 1] +
         IF k = ext THEN lo ELSE IF k = ext - 1 THEN hi ELSE 0

LEMMA SumsTo ==
    ASSUME NEW ext \in Nat, ext >= 2, NEW hi \in Nat, NEW lo \in Nat, NEW f,
           TwoBytes(f, ext, hi, lo)
    PROVE  f[ext] = 256 * hi + lo
<1> USE DEF TwoBytes
<1>1. f[ext - 2] = 0
  <2>1. ASSUME NEW k \in 1 .. ext - 2, f[k - 1] = 0 PROVE f[k] = 0
    <3>1. k \in 1 .. ext /\ k # ext /\ k # ext - 1
      OBVIOUS
    <3>2. f[k] = 256 * f[k - 1] + 0
      BY <3>1
    <3>3. QED
      BY <2>1, <3>2
  <2>2. ext - 2 \in Nat /\ \A k \in 1 .. ext - 2 : f[k - 1] = 0 => f[k] = 0
    BY <2>1
  <2>3. QED
    BY <2>2, ZeroAlong
<1>2. f[ext - 1] = hi
  <2>1. ext - 1 \in 1 .. ext /\ (ext - 1) - 1 = ext - 2 /\ ext - 1 # ext
    OBVIOUS
  <2>2. f[ext - 1] = 256 * f[(ext - 1) - 1] + hi
    BY <2>1
  <2>3. QED
    BY <1>1, <2>1, <2>2
<1>3. f[ext] = 256 * f[ext - 1] + lo
  <2>1. ext \in 1 .. ext
    OBVIOUS
  <2>2. QED
    BY <2>1
<1>4. QED
  BY <1>2, <1>3

\* The bytes of a length say what it is.
LEMMA BeHead ==
    ASSUME NEW b, NEW n \in Nat, n < 65536, NEW ext \in Nat, ext >= 2,
           \A k \in 1 .. ext : b[2 + k] = BeBytes(n, ext)[k]
    PROVE  Be(b, 3, ext) = n
<1> DEFINE e == BeBytes(n, ext)
           hi == n \div 256
           lo == n % 256
<1>1. hi \in 0 .. 255 /\ lo \in 0 .. 255 /\ n = 256 * hi + lo
  BY LengthSplit
<1>2. \A k \in 1 .. ext : e[k] = IF k = ext THEN lo ELSE IF k = ext - 1 THEN hi ELSE 0
  <2>1. \A k \in 1 .. ext : BeBytes(n, ext)[k] =
          IF k = ext THEN n % 256 ELSE IF k = ext - 1 THEN n \div 256 ELSE 0
    BY BeBytesFacts
  <2>2. QED
    BY <2>1
<1> HIDE DEF e, hi, lo
<1>3. \A k \in 1 .. ext : 3 + k - 1 = 2 + k /\ e[k] \in Nat
  BY <1>1, <1>2
<1>4. \A k \in 1 .. ext : b[3 + k - 1] = e[k]
  BY <1>3 DEF e
<1>5. PICK f : Sums(f, b, 3, ext) /\ Be(b, 3, ext) = f[ext]
  <2>1. \A k \in 1 .. ext : b[3 + k - 1] \in Nat
    BY <1>3, <1>4
  <2>2. QED
    BY <2>1, HeaderSums
<1>6. /\ f \in [0 .. ext -> Nat] /\ f[0] = 0
      /\ \A k \in 1 .. ext : f[k] = 256 * f[k - 1] + e[k]
  BY <1>4, <1>5 DEF Sums
<1>7. f[ext] = 256 * hi + lo
  <2>1. hi \in Nat /\ lo \in Nat
    BY <1>1
  <2>2. TwoBytes(f, ext, hi, lo)
    BY <1>2, <1>6 DEF TwoBytes
  <2>3. QED
    BY <2>1, <2>2, SumsTo
<1>8. QED
  BY <1>1, <1>5, <1>7

Verdict(byte) ==
    CASE byte % 16 \in 0 .. 2 -> "frame" [] byte % 16 \in {9, 10} -> "ignore" [] OTHER -> "close"

\* The message at the start of c has these sizes, if all of it is there.
ParsedAs(c, h, l) ==
    WebsocketParse(c) =
      IF Len(c) < l THEN Incomplete ELSE [header |-> h, len |-> l, verdict |-> Verdict(c[1])]

\* As far as they are there, the bytes behind the first are the header of a message of
\* n bytes.
HeaderIs(c, mask, n, ext) ==
    /\ Len(c) >= 2 => c[2] = mask + Code(n, ext)
    /\ \A k \in 1 .. ext : 2 + k <= Len(c) => c[2 + k] = BeBytes(n, ext)[k]

KeySize(mask) == IF mask = 128 THEN 4 ELSE 0

LEMMA ParseForm ==
    ASSUME NEW c \in Seq(Byte), NEW mask \in {0, 128}, NEW n \in Nat, n < 65536,
           NEW ext \in LengthForms(n), HeaderIs(c, mask, n, ext)
    PROVE  LET h == 2 + ext + KeySize(mask) IN ParsedAs(c, h, h + n)
<1> DEFINE h == 2 + ext + KeySize(mask)
<1>1. Len(c) \in Nat
  BY LenProperties
<1>2. /\ ext \in {0, 2, 8} /\ Code(n, ext) \in 0 .. 127
      /\ (ext = 0 <=> Code(n, ext) < 126)
      /\ (ext = 2 <=> Code(n, ext) = 126)
      /\ (ext = 8 <=> Code(n, ext) = 127)
      /\ (ext = 0 => Code(n, ext) = n)
  BY FormFacts
<1>3. KeySize(mask) \in {0, 4} /\ h \in Nat /\ h >= 2 + ext
  BY <1>2 DEF KeySize
<1>4. CASE Len(c) < 2
  <2>1. WebsocketParse(c) = Incomplete
    BY <1>4 DEF WebsocketParse
  <2>2. Len(c) < h + n
    BY <1>1, <1>2, <1>3, <1>4
  <2>3. QED
    BY <2>1, <2>2 DEF ParsedAs
<1>5. CASE Len(c) >= 2
  <2> DEFINE code == c[2] % 128
             cext == CASE code = 126 -> 2 [] code = 127 -> 8 [] OTHER -> 0
  <2>1. code = Code(n, ext) /\ (c[2] >= 128 <=> mask = 128)
    <3> DEFINE d == Code(n, ext)
    <3>1. c[2] = mask + d /\ d \in 0 .. 127
      BY <1>2, <1>5 DEF HeaderIs
    <3> HIDE DEF d
    <3>2. code = d
      BY <3>1
    <3>3. c[2] >= 128 <=> mask = 128
      BY <3>1
    <3>4. QED
      BY <3>2, <3>3 DEF d
  <2>2. cext = ext
    <3> HIDE DEF code
    <3>1. CASE ext = 0
      BY <1>2, <2>1, <3>1
    <3>2. CASE ext = 2
      BY <1>2, <2>1, <3>2
    <3>3. CASE ext = 8
      <4>1. code = 127 /\ code # 126
        BY <1>2, <2>1, <3>3
      <4>2. QED
        BY <3>3, <4>1
    <3>4. QED
      BY <1>2, <3>1, <3>2, <3>3
  <2>3. WebsocketParse(c) =
          LET header == 2 + cext + (IF c[2] >= 128 THEN 4 ELSE 0)
              len == header + (IF cext = 0 THEN code ELSE Be(c, 3, cext))
          IN IF Len(c) < 2 THEN Incomplete
             ELSE IF Len(c) < header THEN Incomplete
             ELSE IF Len(c) < len THEN Incomplete
             ELSE [header |-> header, len |-> len, verdict |-> Verdict(c[1])]
    BY DEF WebsocketParse, Verdict
  <2> HIDE DEF cext, code, h
  <2>4. 2 + cext + (IF c[2] >= 128 THEN 4 ELSE 0) = h
    BY <2>1, <2>2 DEF h, KeySize
  <2> DEFINE size == IF ext = 0 THEN code ELSE Be(c, 3, ext)
  <2>5. WebsocketParse(c) =
          IF Len(c) < h THEN Incomplete
          ELSE IF Len(c) < h + size THEN Incomplete
          ELSE [header |-> h, len |-> h + size, verdict |-> Verdict(c[1])]
    BY <1>1, <1>5, <2>2, <2>3, <2>4
  <2>6. Len(c) >= h => size = n
    <3>1. SUFFICES ASSUME Len(c) >= h PROVE size = n
      OBVIOUS
    <3>2. CASE ext = 0
      BY <1>2, <2>1, <3>2
    <3>3. CASE ext # 0
      <4>1. \A k \in 1 .. ext : 2 + k <= Len(c)
        BY <1>1, <1>2, <1>3, <3>1
      <4>2. \A k \in 1 .. ext : c[2 + k] = BeBytes(n, ext)[k]
        BY <4>1 DEF HeaderIs
      <4>3. ext \in Nat /\ ext >= 2
        BY <1>2, <3>3
      <4>4. Be(c, 3, ext) = n
        <5> HIDE DEF size
        <5>1. QED
          BY <4>2, <4>3, BeHead
      <4>5. QED
        BY <3>3, <4>4
    <3>4. QED
      BY <3>2, <3>3
  <2> HIDE DEF size
  <2>7. CASE Len(c) < h
    <3>1. Len(c) < h + n
      BY <1>1, <1>3, <2>7 DEF h
    <3>2. QED
      BY <2>5, <2>7, <3>1 DEF ParsedAs, h
  <2>8. CASE Len(c) >= h
    <3>1. size = n /\ ~(Len(c) < h)
      BY <1>1, <1>3, <2>6, <2>8 DEF h
    <3>2. QED
      BY <2>5, <3>1 DEF ParsedAs, h
  <2>9. QED
    BY <1>1, <1>3, <2>7, <2>8 DEF h
<1>6. QED
  BY <1>1, <1>4, <1>5

LEMMA NoLength == Code(0, 0) = 0 /\ 0 \in LengthForms(0)
  BY DEF Code, LengthForms, Shortest

LEMMA ParseControl ==
    ASSUME NEW c \in Seq(Byte)
    PROVE  /\ HeaderIs(c, 0, 0, 0) => ParsedAs(c, 2, 0 + 2)
           /\ HeaderIs(c, 128, 0, 0) => ParsedAs(c, 6, 0 + 6)
<1> DEFINE n == 0
           ext == 0
<1>1. n \in Nat /\ n < 65536 /\ ext \in LengthForms(n)
  BY NoLength
<1>2. ASSUME NEW mask \in {0, 128}, HeaderIs(c, mask, n, ext)
      PROVE  ParsedAs(c, 2 + ext + KeySize(mask), 2 + ext + KeySize(mask) + n)
  <2> HIDE DEF n, ext
  <2>1. QED
    BY <1>1, <1>2, ParseForm
<1>3. KeySize(0) = 0 /\ KeySize(128) = 4
  BY DEF KeySize
<1>4. QED
  BY <1>2, <1>3

\* What is unmasked is what was masked.
LEMMA PayloadUnmasked ==
    ASSUME NEW c \in Seq(Byte), NEW p \in Frame, NEW m, NEW h \in Nat, h >= 6,
           m.header = h, m.len = h + Len(p), h + Len(p) <= Len(c), c[2] >= 128,
           \A i \in 1 .. 4 : c[h - 4 + i] = Mask[i],
           \A i \in 1 .. Len(p) : c[h + i] = Masked(p)[i]
    PROVE  Payload(c, m) = p
<1> DEFINE body == SubSeq(c, h + 1, h + Len(p))
           key == SubSeq(c, h - 3, h)
           l == Len(p)
<1>1. p \in Seq(Byte) /\ l \in Nat /\ Len(c) \in Nat /\ \A i \in 1 .. Len(c) : c[i] \in Byte
  BY LenProperties, ElementOfSeq DEF Frame
<1>2. /\ body \in Seq(Byte) /\ Len(body) = l
      /\ \A i \in 1 .. l : body[i] = Masked(p)[i]
  <2>1. \A i \in h + 1 .. h + l : c[i] \in Byte
    BY <1>1
  <2>2. /\ body \in Seq(Byte)
        /\ Len(body) = IF h + 1 <= h + l THEN (h + l) - (h + 1) + 1 ELSE 0
        /\ \A i \in 1 .. (h + l) - (h + 1) + 1 : body[i] = c[h + 1 + i - 1]
    BY <1>1, <2>1, SubSeqProperties
  <2> HIDE DEF body, l
  <2>3. Len(body) = l
    BY <1>1, <2>2
  <2>4. ASSUME NEW i \in 1 .. l PROVE body[i] = Masked(p)[i]
    <3>1. i \in 1 .. (h + l) - (h + 1) + 1 /\ h + 1 + i - 1 = h + i
      BY <1>1
    <3>2. body[i] = c[h + i]
      BY <2>2, <3>1
    <3>3. QED
      BY <3>2 DEF l
  <2>5. QED
    BY <2>2, <2>3, <2>4
<1>3. \A i \in 1 .. 4 : key[i] = Mask[i]
  <2>1. \A i \in h - 3 .. h : c[i] \in Byte
    BY <1>1
  <2>2. \A i \in 1 .. h - (h - 3) + 1 : key[i] = c[h - 3 + i - 1]
    BY <1>1, <2>1, SubSeqProperties
  <2> HIDE DEF key
  <2>3. ASSUME NEW i \in 1 .. 4 PROVE key[i] = Mask[i]
    <3>1. i \in 1 .. h - (h - 3) + 1 /\ h - 3 + i - 1 = h - 4 + i
      OBVIOUS
    <3>2. QED
      BY <2>2, <3>1
  <2>4. QED
    BY <2>3
<1>4. Payload(c, m) = Unmasked(body, key)
  BY DEF Payload, HasMask
<1> HIDE DEF body, key
<1>5. DOMAIN body = 1 .. l /\ DOMAIN p = 1 .. l
  BY <1>1, <1>2, LenProperties
<1>6. ASSUME NEW i \in 1 .. l
      PROVE  Xor(body[i], key[((i - 1) % 4) + 1]) = p[i]
  <2> DEFINE k == ((i - 1) % 4) + 1
  <2>1. k \in 1 .. 4 /\ body[i] = Xor(p[i], Mask[k])
    BY <1>1, <1>2, MaskedBytes
  <2> HIDE DEF k
  <2>2. key[k] = Mask[k] /\ Mask[k] \in Byte /\ p[i] \in Byte
    <3>1. Mask[k] \in Byte
      BY <2>1, WireConstants
    <3>2. p[i] \in Byte
      BY <1>1, ElementOfSeq
    <3>3. QED
      BY <1>3, <2>1, <3>1, <3>2
  <2>3. Xor(body[i], key[k]) = p[i]
    BY <2>1, <2>2, XorTwice
  <2>4. QED
    BY <2>3 DEF k
<1>7. Unmasked(body, key) = [i \in 1 .. l |-> p[i]]
  BY <1>5, <1>6 DEF Unmasked
<1>8. p = [i \in 1 .. l |-> p[i]]
  BY <1>1, LenProperties
<1>9. QED
  BY <1>4, <1>7, <1>8

\* c has arrived of what is on its way.
Begins(c, b) == Len(c) <= Len(b) /\ \A j \in 1 .. Len(c) : c[j] = b[j]

LEMMA Verdicts ==
    /\ Verdict(0) = "frame" /\ Verdict(130) = "frame"
    /\ Verdict(137) = "ignore" /\ Verdict(136) = "close"
<1>1. 0 % 16 = 0 /\ 130 % 16 = 2 /\ 137 % 16 = 9 /\ 136 % 16 = 8
  OBVIOUS
<1>2. 9 \notin 0 .. 2 /\ 8 \notin 0 .. 2 /\ 8 \notin {9, 10} /\ 0 \in 0 .. 2 /\ 2 \in 0 .. 2
  OBVIOUS
<1>3. Verdict(0) = "frame" /\ Verdict(130) = "frame"
  BY <1>1, <1>2 DEF Verdict
<1>4. Verdict(137) = "ignore"
  BY <1>1, <1>2 DEF Verdict
<1>5. Verdict(136) = "close"
  BY <1>1, <1>2 DEF Verdict
<1>6. QED
  BY <1>3, <1>4, <1>5

\* x is the frame p, and m has the size of its header.
CarriesFrame(x, p, m) ==
    \E ext \in LengthForms(Len(p)) : x = ClientFrame(p, ext) /\ m.header = 6 + ext

\* The message sent is parsed when all of it is there, and nothing before.
LEMMA ParseSent ==
    ASSUME NEW b \in Seq(Byte), NEW c \in Seq(Byte), Begins(c, b),
           NEW p \in Frame, NEW x \in SentAs(p), LiesAt(b, 0, x)
    PROVE  LET m == WebsocketParse(c)
           IN /\ Len(c) < Len(x) => m = Incomplete
              /\ Len(c) >= Len(x) => m.len = Len(x) /\ m.verdict \in {"frame", "ignore", "close"}
              /\ m.verdict = "frame" /\ HasEthernet(c, m) =>
                   /\ CarriesFrame(x, p, m)
                   /\ c[2] >= 128 /\ Payload(c, m) = p
<1> DEFINE m == WebsocketParse(c)
<1>1. Len(c) \in Nat /\ Len(x) \in Nat /\ Len(x) >= 2
  BY LenProperties, SentBytes
<1>2. ASSUME NEW j \in 1 .. Len(x), j <= Len(c) PROVE c[j] = x[j] \/ (j = 1 /\ c[j] = 0)
  <2>1. 0 + j = j /\ j \in 1 .. Len(c)
    BY <1>1, <1>2
  <2>2. \A o : o = 0 + j => b[o] = x[j] \/ (j = 1 /\ b[o] = 0)
    BY DEF LiesAt
  <2>3. b[j] = x[j] \/ (j = 1 /\ b[j] = 0)
    BY <2>1, <2>2
  <2>4. QED
    BY <2>1, <2>3 DEF Begins
<1>3. Len(c) >= 2 => c[2] = x[2]
  <2>1. 2 \in 1 .. Len(x) /\ 2 # 1
    BY <1>1
  <2>2. QED
    BY <1>2, <2>1
<1>4. Len(c) >= Len(x) => c[1] = x[1] \/ c[1] = 0
  <2>1. 1 \in 1 .. Len(x)
    BY <1>1
  <2>2. QED
    BY <1>1, <1>2, <2>1
<1>5. ASSUME NEW ext \in LengthForms(Len(p)), x = ClientFrame(p, ext)
      PROVE  /\ Len(c) < Len(x) => m = Incomplete
             /\ Len(c) >= Len(x) => m.len = Len(x) /\ m.verdict \in {"frame", "ignore", "close"}
             /\ m.verdict = "frame" /\ HasEthernet(c, m) =>
                  CarriesFrame(x, p, m) /\ c[2] >= 128 /\ Payload(c, m) = p
  <2> DEFINE h == 6 + ext
             l == Len(p)
             e == BeBytes(l, ext)
             code == Code(l, ext)
  <2>1. p \in Seq(Byte) /\ l \in Nat /\ l < 65536
    BY LenProperties DEF Frame
  <2>2. /\ Len(x) = h + l /\ x[1] = 130
        /\ x[2] = 128 + code
        /\ \A k \in 1 .. ext : x[2 + k] = e[k]
        /\ \A i \in 1 .. 4 : x[h - 4 + i] = Mask[i]
        /\ \A i \in 1 .. l : x[h + i] = Masked(p)[i]
    <3>1. FrameBytes(x, p, ext, h)
      BY <1>5, ClientFrameBytes
    <3> HIDE DEF h
    <3>2. QED
      BY <3>1 DEF FrameBytes
  <2>3. /\ ext \in {0, 2, 8} /\ h \in {6, 8, 14} /\ h = 6 + ext
        /\ code \in 0 .. 127
    <3>1. ext \in {0, 2, 8} /\ code \in 0 .. 127
      BY <2>1, FormFacts
    <3>2. QED
      BY <3>1
  <2> HIDE DEF h, e, code
  <2>4. ParsedAs(c, h, h + l)
    <3>1. Len(c) >= 2 => c[2] = 128 + Code(l, ext)
      BY <1>3, <2>2 DEF code
    <3>2. ASSUME NEW k \in 1 .. ext, 2 + k <= Len(c) PROVE c[2 + k] = BeBytes(l, ext)[k]
      <4>1. 2 + k \in 1 .. Len(x) /\ 2 + k # 1
        BY <2>1, <2>2, <2>3
      <4>2. c[2 + k] = x[2 + k]
        BY <1>2, <3>2, <4>1
      <4>3. QED
        BY <2>2, <4>2 DEF e
    <3>3. HeaderIs(c, 128, l, ext)
      BY <3>1, <3>2 DEF HeaderIs
    <3> DEFINE mask == 128
    <3>4. mask \in {0, 128} /\ HeaderIs(c, mask, l, ext) /\ KeySize(mask) = 4
      BY <3>3 DEF KeySize
    <3> HIDE DEF mask
    <3>5. ParsedAs(c, 2 + ext + KeySize(mask), 2 + ext + KeySize(mask) + l)
      BY <2>1, <3>4, ParseForm
    <3>6. 2 + ext + KeySize(mask) = h
      BY <2>3, <3>4
    <3>7. QED
      BY <3>5, <3>6
  <2> HIDE DEF l
  <2>5. CASE Len(c) < Len(x)
    <3>1. m = Incomplete
      BY <2>2, <2>4, <2>5 DEF ParsedAs
    <3>2. QED
      BY <1>1, <2>5, <3>1 DEF Incomplete
  <2>6. CASE Len(c) >= Len(x)
    <3>0. Len(x) = h + l
      BY <2>2
    <3>1. ~(Len(c) < h + l)
      BY <1>1, <2>2, <2>6
    <3>2. m = [header |-> h, len |-> h + l, verdict |-> Verdict(c[1])]
      BY <2>4, <3>1 DEF ParsedAs
    <3>3. Verdict(c[1]) = "frame"
      BY <1>4, <2>2, <2>6, Verdicts
    <3>4. c[2] >= 128
      BY <1>1, <1>3, <2>2, <2>3, <2>6
    <3>5. \A i \in 1 .. 4 : c[h - 4 + i] = Mask[i]
      <4>1. ASSUME NEW i \in 1 .. 4 PROVE c[h - 4 + i] = Mask[i]
        <5>1. h - 4 + i \in 1 .. Len(x) /\ h - 4 + i # 1 /\ h - 4 + i <= Len(c)
          BY <1>1, <2>1, <2>3, <2>6, <3>0
        <5>2. c[h - 4 + i] = x[h - 4 + i]
          BY <1>2, <5>1
        <5>3. QED
          BY <2>2, <5>2
      <4>2. QED
        BY <4>1
    <3>6. \A i \in 1 .. l : c[h + i] = Masked(p)[i]
      <4>1. ASSUME NEW i \in 1 .. l PROVE c[h + i] = Masked(p)[i]
        <5>1. h + i \in 1 .. Len(x) /\ h + i # 1 /\ h + i <= Len(c)
          BY <1>1, <2>1, <2>3, <2>6, <3>0
        <5>2. c[h + i] = x[h + i]
          BY <1>2, <5>1
        <5>3. QED
          BY <2>2, <5>2
      <4>2. QED
        BY <4>1
    <3>7. Payload(c, m) = p
      <4>1. h \in Nat /\ h >= 6 /\ m.header = h /\ m.len = h + l /\ h + l <= Len(c)
        BY <1>1, <2>1, <2>3, <3>1, <3>2
      <4> HIDE DEF m
      <4>2. QED
        BY <3>4, <3>5, <3>6, <4>1, PayloadUnmasked DEF l
    <3>8. m.header = h /\ m.len = Len(x) /\ m.verdict = "frame"
      BY <2>2, <3>2, <3>3
    <3>9. QED
      BY <1>1, <1>5, <2>6, <3>4, <3>7, <3>8 DEF h, CarriesFrame
  <2>7. QED
    BY <1>1, <2>5, <2>6
<1>6. CASE x = ClientPing
  <2>1. Len(x) = 2 /\ x[1] = 137 /\ x[2] = 0
    BY <1>6, ControlBytes
  <2>2. ParsedAs(c, 2, 0 + 2)
    <3>1. Len(c) >= 2 => c[2] = 0
      BY <1>3, <2>1
    <3>2. HeaderIs(c, 0, 0, 0)
      BY <3>1, NoLength DEF HeaderIs
    <3>3. QED
      BY <3>2, ParseControl
  <2>3. ParsedAs(c, 2, 2)
    BY <2>2
  <2>4. CASE Len(c) < 2
    <3>1. m = Incomplete
      BY <2>3, <2>4 DEF ParsedAs
    <3>2. QED
      BY <1>1, <2>1, <2>4, <3>1 DEF Incomplete
  <2>5. CASE Len(c) >= 2
    <3>1. m = [header |-> 2, len |-> 2, verdict |-> Verdict(c[1])]
      BY <1>1, <2>3, <2>5 DEF ParsedAs
    <3>2. Verdict(c[1]) \in {"frame", "ignore"}
      BY <1>4, <2>1, <2>5, Verdicts
    <3>3. ~HasEthernet(c, m)
      BY <1>3, <2>1, <2>5, <3>1 DEF HasEthernet, HasMask
    <3>4. m.len = 2 /\ m.verdict \in {"frame", "ignore"}
      BY <3>1, <3>2
    <3>5. QED
      BY <1>1, <2>1, <2>5, <3>3, <3>4
  <2>6. QED
    BY <1>1, <2>4, <2>5
<1>7. CASE x = CloseMessage
  <2>1. Len(x) = 6 /\ x[1] = 136 /\ x[2] = 128
    BY <1>7, ControlBytes
  <2>2. ParsedAs(c, 6, 0 + 6)
    <3>1. Len(c) >= 2 => c[2] = 0 + 128
      BY <1>3, <2>1
    <3>2. HeaderIs(c, 128, 0, 0)
      BY <3>1, NoLength DEF HeaderIs
    <3>3. QED
      BY <3>2, ParseControl
  <2>3. ParsedAs(c, 6, 6)
    BY <2>2
  <2>4. CASE Len(c) < 6
    <3>1. m = Incomplete
      BY <2>3, <2>4 DEF ParsedAs
    <3>2. QED
      BY <1>1, <2>1, <2>4, <3>1 DEF Incomplete
  <2>5. CASE Len(c) >= 6
    <3>1. m = [header |-> 6, len |-> 6, verdict |-> Verdict(c[1])]
      BY <1>1, <2>3, <2>5 DEF ParsedAs
    <3>2. Verdict(c[1]) \in {"frame", "close"}
      BY <1>4, <2>1, <2>5, Verdicts
    <3>3. ~HasEthernet(c, m)
      BY <1>1, <1>3, <2>1, <2>5, <3>1 DEF HasEthernet, HasMask
    <3>4. m.len = 6 /\ m.verdict \in {"frame", "close"}
      BY <3>1, <3>2
    <3>5. QED
      BY <1>1, <2>1, <2>5, <3>3, <3>4
  <2>6. QED
    BY <1>1, <2>4, <2>5
<1>8. QED
  BY <1>5, <1>6, <1>7 DEF SentAs

-----------------------------------------------------------------------------
(* The request *)

LEMMA LoopForwards ==
    ASSUME NEW b \in Seq(Byte), UwsgiArrived(b)
    PROVE  /\ UwsgiSize(b) \in Nat /\ 4 <= UwsgiSize(b) /\ UwsgiSize(b) <= Len(b)
           /\ Forwards(UwsgiNext(b), 4, UwsgiSize(b))
           /\ \A i \in 4 .. UwsgiSize(b) : UwsgiNext(b)[i] # i =>
                LET keylen == Le16(b, i + 1)
                    j == i + 2 + keylen
                IN /\ keylen \in Nat /\ keylen # 0 /\ Le16(b, j + 1) \in Nat
                   /\ UwsgiNext(b)[i] = j + 2 + Le16(b, j + 1)
                   /\ UwsgiNext(b)[i] <= UwsgiSize(b)
<1> DEFINE n == UwsgiSize(b)
           next == UwsgiNext(b)
<1>1. Len(b) \in Nat /\ \A i \in 1 .. Len(b) : b[i] \in Nat
  <2>1. Len(b) \in Nat /\ \A i \in 1 .. Len(b) : b[i] \in Byte
    BY LenProperties, ElementOfSeq
  <2>2. \A x \in Byte : x \in Nat
    BY DEF Byte
  <2>3. QED
    BY <2>1, <2>2
<1>2. Len(b) >= 4 /\ Len(b) >= n
  BY DEF UwsgiArrived
<1>3. n \in Nat /\ n >= 4
  <2>1. 2 \in 1 .. Len(b) /\ 3 \in 1 .. Len(b) /\ 2 + 1 = 3
    BY <1>1, <1>2
  <2>2. b[2] \in Nat /\ b[3] \in Nat
    BY <1>1, <2>1
  <2>3. QED
    BY <2>1, <2>2 DEF UwsgiSize, Le16
<1>4. \A i : i \in Nat /\ i + 2 <= n => Le16(b, i + 1) \in Nat
  <2>1. ASSUME NEW i, i \in Nat, i + 2 <= n PROVE Le16(b, i + 1) \in Nat
    <3>1. i + 1 \in 1 .. Len(b) /\ i + 1 + 1 \in 1 .. Len(b)
      BY <1>1, <1>2, <1>3, <2>1
    <3>2. b[i + 1] \in Nat /\ b[i + 1 + 1] \in Nat
      BY <1>1, <3>1
    <3>3. QED
      BY <3>2 DEF Le16
  <2>2. QED
    BY <2>1
<1>5. ASSUME NEW i \in 4 .. n
      PROVE  /\ next[i] \in 4 .. n /\ next[i] >= i
             /\ next[i] # i =>
                  /\ Le16(b, i + 1) \in Nat /\ Le16(b, i + 1) # 0
                  /\ Le16(b, i + 2 + Le16(b, i + 1) + 1) \in Nat
                  /\ next[i] = i + 2 + Le16(b, i + 1) + 2 + Le16(b, i + 2 + Le16(b, i + 1) + 1)
                  /\ next[i] <= n
  <2> DEFINE keylen == Le16(b, i + 1)
             j == i + 2 + keylen
             vallen == Le16(b, j + 1)
             after == j + 2 + vallen
  <2>1. next[i] = IF i + 2 <= n /\ keylen # 0 /\ j + 2 <= n /\ after <= n THEN after ELSE i
    BY DEF UwsgiNext
  <2> HIDE DEF next, n
  <2>2. CASE next[i] = i
    BY <1>3, <2>2
  <2>3. CASE next[i] # i
    <3>1. i + 2 <= n /\ keylen # 0 /\ j + 2 <= n /\ after <= n /\ next[i] = after
      BY <2>1, <2>3
    <3>2. i \in Nat
      BY <1>3
    <3>3. keylen \in Nat
      BY <1>4, <3>1, <3>2
    <3>4. j \in Nat
      BY <3>2, <3>3
    <3>5. vallen \in Nat
      BY <1>4, <3>1, <3>4
    <3> HIDE DEF keylen, vallen
    <3>6. after \in 4 .. n /\ after >= i
      BY <1>3, <3>1, <3>3, <3>5
    <3>7. QED
      BY <3>1, <3>3, <3>5, <3>6 DEF keylen, vallen
  <2>4. QED
    BY <2>2, <2>3
<1>6. next = [i \in 4 .. n |-> next[i]]
  BY DEF UwsgiNext
<1>7. Forwards(next, 4, n)
  <2> HIDE DEF next, n
  <2>1. next \in [4 .. n -> 4 .. n]
    BY <1>5, <1>6
  <2>2. QED
    BY <1>3, <1>5, <2>1 DEF Forwards
<1>8. QED
  <2> HIDE DEF next, n
  <2>1. /\ n \in Nat /\ 4 <= n /\ n <= Len(b) /\ Forwards(next, 4, n)
        /\ \A i \in 4 .. n : next[i] # i =>
             /\ Le16(b, i + 1) \in Nat /\ Le16(b, i + 1) # 0
             /\ Le16(b, i + 2 + Le16(b, i + 1) + 1) \in Nat
             /\ next[i] = i + 2 + Le16(b, i + 1) + 2 + Le16(b, i + 2 + Le16(b, i + 1) + 1)
             /\ next[i] <= n
    BY <1>1, <1>2, <1>3, <1>5, <1>7
  <2>2. QED
    BY <2>1 DEF next, n

\* Where the loop ends, and that the value of each variable lies in the request.
LEMMA RequestParsed ==
    ASSUME NEW b \in Seq(Byte), UwsgiArrived(b)
    PROVE  LET starts == Chain(UwsgiNext(b), 4)
               v == UwsgiParse(b).vars
           IN /\ Path(starts, UwsgiNext(b), 4) /\ Len(starts) \in Nat
              /\ DOMAIN v = 1 .. Len(starts) - 1
              /\ \A k \in DOMAIN v : /\ v[k].at \in Nat /\ v[k].at >= 10 /\ v[k].len \in Nat
                                     /\ v[k].at + v[k].len <= UwsgiSize(b) + 1
<1> DEFINE n == UwsgiSize(b)
           next == UwsgiNext(b)
           q == Chain(next, 4)
           v == UwsgiParse(b).vars
<1>1. /\ n \in Nat /\ 4 <= n /\ Forwards(next, 4, n)
      /\ \A i \in 4 .. n : next[i] # i =>
           /\ Le16(b, i + 1) \in Nat /\ Le16(b, i + 1) # 0
           /\ Le16(b, i + 2 + Le16(b, i + 1) + 1) \in Nat
           /\ next[i] = i + 2 + Le16(b, i + 1) + 2 + Le16(b, i + 2 + Le16(b, i + 1) + 1)
           /\ next[i] <= n
  BY LoopForwards
<1>2. v = [k \in 1 .. Len(q) - 1 |->
             [key |-> SubSeq(b, q[k] + 3, q[k] + 2 + Le16(b, q[k] + 1)),
              at |-> q[k] + 2 + Le16(b, q[k] + 1) + 3,
              len |-> Le16(b, q[k] + 2 + Le16(b, q[k] + 1) + 1)]]
  BY DEF UwsgiParse
<1> HIDE DEF n, next, v
<1>3. Path(q, next, 4) /\ DOMAIN next = 4 .. n
  <2>1. 4 \in 4 .. n
    BY <1>1
  <2>2. QED
    BY <1>1, <2>1, ChainPath DEF Forwards
<1> HIDE DEF q
<1>4. Len(q) \in Nat /\ \A k \in 1 .. Len(q) : q[k] \in 4 .. n
  BY <1>3, LenProperties, ElementOfSeq DEF Path
<1>5. ASSUME NEW k \in 1 .. Len(q) - 1
      PROVE  /\ v[k].at \in Nat /\ v[k].at >= 10 /\ v[k].len \in Nat
             /\ v[k].at + v[k].len <= n + 1
  <2> DEFINE i == q[k]
             keylen == Le16(b, i + 1)
             vallen == Le16(b, i + 2 + keylen + 1)
  <2>1. i \in 4 .. n /\ next[i] # i
    <3>1. k \in 1 .. Len(q)
      BY <1>4
    <3>2. QED
      BY <1>3, <1>4, <3>1 DEF Path
  <2>2. /\ keylen \in Nat /\ keylen # 0 /\ vallen \in Nat
        /\ i + 2 + keylen + 2 + vallen <= n
    <3> HIDE DEF i
    <3>1. /\ Le16(b, i + 1) \in Nat /\ Le16(b, i + 1) # 0
          /\ Le16(b, i + 2 + Le16(b, i + 1) + 1) \in Nat
          /\ next[i] = i + 2 + Le16(b, i + 1) + 2 + Le16(b, i + 2 + Le16(b, i + 1) + 1)
          /\ next[i] <= n
      BY <1>1, <2>1
    <3>2. QED
      BY <3>1
  <2>3. v[k].at = i + 2 + keylen + 3 /\ v[k].len = vallen
    BY <1>2
  <2> HIDE DEF keylen, vallen, i
  <2>4. QED
    BY <1>1, <2>1, <2>2, <2>3
<1>6. DOMAIN v = 1 .. Len(q) - 1
  BY <1>2
<1>7. QED
  BY <1>3, <1>4, <1>5, <1>6 DEF n, next, q, v

\* The NULs fall behind the start of the request, and at most one behind its end.
LEMMA TerminatedFacts ==
    ASSUME NEW b \in Seq(Byte), NEW at \in Nat, at >= 10
    PROVE  LET c == Terminated(b, at)
           IN /\ c \in Seq(Byte) /\ Len(c) = Len(b)
              /\ \A j \in 1 .. Len(b) : \/ c[j] = b[j]
                                        \/ c[j] = 0 /\ at + 2 <= j /\ j <= at + 17
<1> DEFINE c == Terminated(b, at)
<1>1. Len(b) \in Nat /\ DOMAIN b = 1 .. Len(b) /\ \A j \in 1 .. Len(b) : b[j] \in Byte
  BY LenProperties, ElementOfSeq
<1>2. c = [j \in 1 .. Len(b) |-> IF \E i \in 1 .. 6 : j = at + 3 * i - 1 THEN 0 ELSE b[j]]
  BY <1>1 DEF Terminated
<1>3. 0 \in Byte
  BY DEF Byte
<1>4. c \in [1 .. Len(b) -> Byte]
  BY <1>1, <1>2, <1>3
<1>5. c \in Seq(Byte) /\ Len(c) = Len(b)
  <2> HIDE DEF c
  <2>1. QED
    BY <1>1, <1>4, FunctionSeq
<1>6. ASSUME NEW j \in 1 .. Len(b), c[j] # b[j]
      PROVE  c[j] = 0 /\ at + 2 <= j /\ j <= at + 17
  <2>1. \E i \in 1 .. 6 : j = at + 3 * i - 1
    BY <1>2, <1>6
  <2>2. c[j] = 0
    BY <1>2, <2>1
  <2> HIDE DEF c
  <2>3. QED
    BY <2>1, <2>2
<1>7. QED
  BY <1>5, <1>6

LEMMA ConcatBytes ==
    ASSUME NEW a \in Seq(Byte), NEW b \in Seq(Byte)
    PROVE  /\ a \o b \in Seq(Byte) /\ Len(a \o b) = Len(a) + Len(b)
           /\ \A i \in 1 .. Len(a) : (a \o b)[i] = a[i]
           /\ \A i \in 1 .. Len(b) : (a \o b)[Len(a) + i] = b[i]
<1>1. Len(a) \in Nat /\ Len(b) \in Nat
  BY LenProperties
<1>2. /\ a \o b \in Seq(Byte) /\ Len(a \o b) = Len(a) + Len(b)
      /\ \A i \in 1 .. Len(a) + Len(b) : (a \o b)[i] = IF i <= Len(a) THEN a[i] ELSE b[i - Len(a)]
  BY ConcatProperties
<1> DEFINE m == Len(a)
           n == Len(b)
           c == a \o b
<1> HIDE DEF m, n, c
<1>3. /\ m \in Nat /\ n \in Nat
      /\ \A i \in 1 .. m + n : c[i] = IF i <= m THEN a[i] ELSE b[i - m]
  BY <1>1, <1>2 DEF m, n, c
<1>4. \A i \in 1 .. m : c[i] = a[i]
  BY <1>3
<1>5. ASSUME NEW i \in 1 .. n PROVE c[m + i] = b[i]
  <2>1. m + i \in 1 .. m + n /\ ~(m + i <= m) /\ (m + i) - m = i
    BY <1>3
  <2>2. c[m + i] = IF m + i <= m THEN a[m + i] ELSE b[(m + i) - m]
    BY <1>3, <2>1
  <2>3. QED
    BY <2>1, <2>2
<1>6. QED
  BY <1>2, <1>4, <1>5 DEF m, n, c

LEMMA VarBytes ==
    ASSUME NEW var \in Variable
    PROVE  LET x == UwsgiVar(var)
           IN x \in Seq(Byte) /\ Len(x) = 4 + Len(var.key) + Len(var.value)
<1> DEFINE k == LeBytes(Len(var.key))
           l == LeBytes(Len(var.value))
<1>1. /\ var.key \in Seq(Byte) /\ var.value \in Seq(Byte)
      /\ Len(var.key) \in Nat /\ Len(var.key) < 65536
      /\ Len(var.value) \in Nat /\ Len(var.value) < 65536
  BY LenProperties DEF Variable
<1>2. /\ k \in Seq(Byte) /\ Len(k) = 2 /\ l \in Seq(Byte) /\ Len(l) = 2
  <2>1. ASSUME NEW n \in Nat, n < 65536 PROVE LeBytes(n) \in Seq(Byte) /\ Len(LeBytes(n)) = 2
    <3>1. n \div 256 \in Byte /\ n % 256 \in Byte
      BY <2>1, LengthSplit DEF Byte
    <3>2. QED
      BY <3>1 DEF LeBytes
  <2>2. QED
    BY <1>1, <2>1
<1> DEFINE a == k \o var.key
           b == a \o l
<1>3. UwsgiVar(var) = b \o var.value
  BY DEF UwsgiVar
<1> HIDE DEF k, l
<1>4. a \in Seq(Byte) /\ Len(a) = 2 + Len(var.key)
  <2>1. k \in Seq(Byte) /\ var.key \in Seq(Byte)
    BY <1>1, <1>2
  <2>2. a \in Seq(Byte) /\ Len(a) = Len(k) + Len(var.key)
    BY <2>1, ConcatBytes
  <2>3. QED
    BY <1>2, <2>2
<1> HIDE DEF a
<1>5. b \in Seq(Byte) /\ Len(b) = 4 + Len(var.key)
  <2>1. b \in Seq(Byte) /\ Len(b) = Len(a) + Len(l)
    BY <1>2, <1>4, ConcatBytes
  <2>2. QED
    BY <1>1, <1>2, <1>4, <2>1
<1> HIDE DEF b
<1>6. b \o var.value \in Seq(Byte) /\ Len(b \o var.value) = 4 + Len(var.key) + Len(var.value)
  <2>1. b \in Seq(Byte) /\ var.value \in Seq(Byte)
    BY <1>1, <1>5
  <2>2. b \o var.value \in Seq(Byte) /\ Len(b \o var.value) = Len(b) + Len(var.value)
    BY <2>1, ConcatBytes
  <2>3. QED
    BY <1>5, <2>2
<1>7. QED
  BY <1>3, <1>6

\* A loop of n turns over values of S.
Turns(step, n, S) == step \in [S \X (1 .. n) -> S]

Runs(f, base, step, n, S) ==
    /\ f \in [0 .. n -> S] /\ f[0] = base
    /\ \A i \in 1 .. n : f[i] = step[<<f[i - 1], i>>]

\* One that starts with base has a result.
LEMMA Iterates ==
    ASSUME NEW n \in Nat, NEW S, NEW base \in S, NEW step, Turns(step, n, S)
    PROVE  \E f : Runs(f, base, step, n, S)
<1> USE DEF Turns
<1> DEFINE Ran(f, m) == Runs(f, base, step, m, S)
           T == {m \in 0 .. n : ~\E f : Ran(f, m)}
<1>1. T = {}
  <2> HIDE DEF Ran
  <2>1. SUFFICES ASSUME T # {} PROVE FALSE
    OBVIOUS
  <2>2. T \in SUBSET Nat
    OBVIOUS
  <2>3. PICK m \in T : \A k \in T : m <= k
    BY <2>1, <2>2, Least
  <2>4. m \in 0 .. n /\ m \in Nat /\ ~\E f : Ran(f, m)
    OBVIOUS
  <2>5. CASE m = 0
    <3> DEFINE f == [i \in 0 .. 0 |-> base]
    <3>1. Ran(f, 0)
      BY DEF Ran, Runs
    <3>2. QED
      BY <2>4, <2>5, <3>1
  <2>6. CASE m # 0
    <3>1. m - 1 \in 0 .. n /\ ~(m <= m - 1) /\ m \in 1 .. n
      BY <2>4, <2>6
    <3>2. m - 1 \notin T
      BY <2>3, <3>1
    <3>3. PICK f : Ran(f, m - 1)
      BY <3>1, <3>2
    <3>4. /\ f \in [0 .. m - 1 -> S] /\ f[0] = base
          /\ \A i \in 1 .. m - 1 : f[i] = step[<<f[i - 1], i>>]
      BY <3>3 DEF Ran, Runs
    <3>5. m - 1 \in 0 .. m - 1 /\ 0 \in 0 .. m - 1 /\ 0 \in 0 .. m /\ 0 # m
      BY <3>1
    <3>6. f[m - 1] \in S /\ step[<<f[m - 1], m>>] \in S
      BY <3>1, <3>4, <3>5
    <3> DEFINE g == [i \in 0 .. m |-> IF i = m THEN step[<<f[m - 1], m>>] ELSE f[i]]
    <3>7. \A i \in 0 .. m : i # m => i \in 0 .. m - 1
      BY <3>1
    <3>8. g \in [0 .. m -> S] /\ g[0] = base
      BY <3>4, <3>5, <3>6, <3>7
    <3>9. ASSUME NEW i \in 1 .. m PROVE g[i] = step[<<g[i - 1], i>>]
      <4>1. i \in 0 .. m /\ i - 1 \in 0 .. m /\ i - 1 # m /\ (i # m => i \in 1 .. m - 1)
        BY <3>1
      <4>2. g[i - 1] = f[i - 1]
        BY <4>1
      <4>3. g[i] = IF i = m THEN step[<<f[m - 1], m>>] ELSE f[i]
        BY <4>1
      <4> HIDE DEF g
      <4>4. CASE i = m
        BY <4>2, <4>3, <4>4
      <4>5. CASE i # m
        <5>1. f[i] = step[<<f[i - 1], i>>]
          BY <3>4, <4>1, <4>5
        <5>2. QED
          BY <4>2, <4>3, <4>5, <5>1
      <4>6. QED
        BY <4>4, <4>5
    <3>10. Ran(g, m)
      <4> HIDE DEF g
      <4>1. QED
        BY <3>8, <3>9 DEF Ran, Runs
    <3>11. QED
      BY <2>4, <3>10
  <2>7. QED
    BY <2>5, <2>6
<1>2. \E f : Ran(f, n)
  <2> HIDE DEF Ran
  <2>1. n \in 0 .. n /\ n \notin T
    BY <1>1
  <2>2. QED
    BY <2>1
<1>3. QED
  BY <1>2

\* What FlattenSeq has put together after each of the pieces.
Joins(f, pieces, S) ==
    /\ f \in [0 .. Len(pieces) -> Seq(S)] /\ f[0] = <<>>
    /\ \A i \in 1 .. Len(pieces) : f[i] = f[i - 1] \o pieces[i]

JoinTurn(g, pieces, i) == IF i = 1 THEN pieces[i] ELSE g[i - 1] \o pieces[i]

Joining(g, pieces) == g = [i \in 1 .. Len(pieces) |-> JoinTurn(g, pieces, i)]

LEMMA Flattened ==
    ASSUME NEW S, NEW pieces \in Seq(Seq(S))
    PROVE  \E f : Joins(f, pieces, S) /\ FlattenSeq(pieces) = f[Len(pieces)]
<1> DEFINE n == Len(pieces)
<1>1. n \in Nat /\ \A i \in 1 .. n : pieces[i] \in Seq(S)
  BY LenProperties, ElementOfSeq
<1> DEFINE step == [p \in Seq(S) \X (1 .. n) |-> p[1] \o pieces[p[2]]]
<1>2. Turns(step, n, Seq(S))
  <2>1. \A p \in Seq(S) \X (1 .. n) : p[1] \in Seq(S) /\ pieces[p[2]] \in Seq(S)
    BY <1>1
  <2>2. \A p \in Seq(S) \X (1 .. n) : p[1] \o pieces[p[2]] \in Seq(S)
    BY <2>1, ConcatProperties
  <2>3. QED
    BY <2>2 DEF Turns
<1>3. <<>> \in Seq(S)
  OBVIOUS
<1>4. PICK f : Runs(f, <<>>, step, n, Seq(S))
  <2> HIDE DEF n, step
  <2>1. QED
    BY <1>1, <1>2, <1>3, Iterates
<1>5. Joins(f, pieces, S)
  <2>1. /\ f \in [0 .. n -> Seq(S)] /\ f[0] = <<>>
        /\ \A i \in 1 .. n : f[i] = step[<<f[i - 1], i>>]
    BY <1>4 DEF Runs
  <2>2. ASSUME NEW i \in 1 .. n PROVE f[i] = f[i - 1] \o pieces[i]
    <3>1. i - 1 \in 0 .. n
      BY <1>1
    <3>2. <<f[i - 1], i>> \in Seq(S) \X (1 .. n)
      BY <2>1, <3>1
    <3>3. step[<<f[i - 1], i>>] = f[i - 1] \o pieces[i]
      BY <3>2
    <3>4. QED
      BY <2>1, <3>3
  <2>3. QED
    BY <2>1, <2>2 DEF Joins
<1>6. CASE n = 0
  <2>1. pieces = <<>>
    BY <1>6
  <2>2. FlattenSeq(pieces) = <<>>
    BY <2>1 DEF FlattenSeq
  <2>3. QED
    BY <1>5, <1>6, <2>2 DEF Joins
<1>7. CASE n # 0
  <2> DEFINE g == [i \in 1 .. n |-> f[i]]
             flat == CHOOSE h : Joining(h, pieces)
  <2>1. FlattenSeq(pieces) = flat[n]
    BY <1>7 DEF FlattenSeq, Joining, JoinTurn
  <2>2. ASSUME NEW i \in 1 .. n PROVE g[i] = JoinTurn(g, pieces, i)
    <3>1. g[i] = f[i - 1] \o pieces[i] /\ pieces[i] \in Seq(S)
      BY <1>1, <1>5 DEF Joins
    <3>2. CASE i = 1
      <4>1. i - 1 = 0
        BY <3>2
      <4>2. f[i - 1] = <<>>
        BY <1>5, <4>1 DEF Joins
      <4>3. g[i] = pieces[i]
        BY <3>1, <4>2, ConcatEmptySeq
      <4>4. QED
        BY <3>2, <4>3 DEF JoinTurn
    <3>3. CASE i # 1
      <4>1. i - 1 \in 1 .. n
        BY <1>1, <3>3
      <4>2. g[i - 1] = f[i - 1]
        BY <4>1
      <4>3. QED
        BY <3>1, <3>3, <4>2 DEF JoinTurn
    <3>4. QED
      BY <3>2, <3>3
  <2>3. Joining(g, pieces)
    <3> DEFINE t == [i \in 1 .. n |-> JoinTurn(g, pieces, i)]
    <3>1. DOMAIN g = 1 .. n /\ DOMAIN t = 1 .. n /\ \A i \in 1 .. n : g[i] = t[i]
      BY <2>2
    <3>2. g = [i \in DOMAIN g |-> g[i]] /\ t = [i \in DOMAIN t |-> t[i]]
      OBVIOUS
    <3>3. g = t
      <4> HIDE DEF g, t
      <4>1. QED
        BY <3>1, <3>2
    <3>4. QED
      BY <3>3 DEF Joining
  <2>4. Joining(flat, pieces)
    BY <2>3
  <2> DEFINE T == {i \in 1 .. n : flat[i] # g[i]}
  <2>5. \A i \in 1 .. n : flat[i] = JoinTurn(flat, pieces, i)
    <3> HIDE DEF flat
    <3>1. flat = [i \in 1 .. n |-> JoinTurn(flat, pieces, i)]
      BY <2>4 DEF Joining
    <3>2. QED
      BY <3>1
  <2>6. T = {}
    <3> HIDE DEF flat, g
    <3>1. SUFFICES ASSUME T # {} PROVE FALSE
      OBVIOUS
    <3>2. T \in SUBSET Nat
      OBVIOUS
    <3>3. PICK m \in T : \A k \in T : m <= k
      BY <3>1, <3>2, Least
    <3>4. m \in 1 .. n /\ flat[m] # g[m]
      OBVIOUS
    <3>5. m # 1 => m - 1 \in 1 .. n /\ ~(m <= m - 1)
      BY <1>1, <3>4
    <3>6. m # 1 => flat[m - 1] = g[m - 1]
      BY <3>3, <3>5
    <3>7. JoinTurn(flat, pieces, m) = JoinTurn(g, pieces, m)
      BY <3>6 DEF JoinTurn
    <3>8. QED
      BY <2>2, <2>5, <3>4, <3>7
  <2>7. n \in 1 .. n
    BY <1>1, <1>7
  <2>8. flat[n] = g[n] /\ g[n] = f[n]
    BY <2>6, <2>7
  <2>9. QED
    BY <1>5, <2>1, <2>8
<1>8. QED
  BY <1>6, <1>7

\* The bytes of the first variables of v, one variable more in each step.
Builds(f, v) ==
    /\ f[0] = <<>>
    /\ \A i \in 1 .. Len(v) : f[i] = f[i - 1] \o UwsgiVar(v[i])
    /\ \A i \in 0 .. Len(v) : f[i] \in Seq(Byte)

LEMMA VarsBuilt ==
    ASSUME NEW v \in Seq(Variable)
    PROVE  \E f : Builds(f, v) /\ UwsgiVars(v) = f[Len(v)]
<1> DEFINE n == Len(v)
           pieces == [i \in 1 .. n |-> UwsgiVar(v[i])]
<1>1. n \in Nat /\ DOMAIN v = 1 .. n /\ \A i \in 1 .. n : v[i] \in Variable
  BY LenProperties, ElementOfSeq
<1>2. UwsgiVars(v) = FlattenSeq(pieces)
  BY <1>1 DEF UwsgiVars
<1>3. \A i \in 1 .. n : UwsgiVar(v[i]) \in Seq(Byte)
  BY <1>1, VarBytes
<1> HIDE DEF n
<1>4. pieces \in Seq(Seq(Byte)) /\ Len(pieces) = n
  <2>1. pieces \in [1 .. n -> Seq(Byte)]
    BY <1>3
  <2> HIDE DEF pieces
  <2>2. QED
    BY <1>1, <2>1, FunctionSeq
<1>5. \A i \in 1 .. n : pieces[i] = UwsgiVar(v[i])
  OBVIOUS
<1> HIDE DEF pieces
<1>6. PICK f : Joins(f, pieces, Byte) /\ FlattenSeq(pieces) = f[Len(pieces)]
  BY <1>4, Flattened
<1>7. Builds(f, v)
  BY <1>4, <1>5, <1>6 DEF Builds, Joins, n
<1>8. QED
  BY <1>2, <1>4, <1>6, <1>7 DEF n

LEMMA PacketBytes ==
    ASSUME NEW v \in AllRequests, NEW modifier1 \in Byte
    PROVE  LET b == UwsgiPacket(modifier1, v)
           IN /\ b \in Seq(Byte) /\ Len(b) >= 4 /\ UwsgiSize(b) = Len(b)
              /\ Len(b) = 4 + Len(UwsgiVars(v)) /\ b[1] = modifier1
              /\ \A i \in 1 .. Len(UwsgiVars(v)) : b[4 + i] = UwsgiVars(v)[i]
<1> DEFINE w == UwsgiVars(v)
           n == Len(w)
           b == UwsgiPacket(modifier1, v)
<1>1. w \in Seq(Byte) /\ n \in Nat /\ n < 65536
  <2>1. v \in Seq(Variable) /\ n < 65536
    BY RequestSizes
  <2>2. PICK f : Builds(f, v) /\ UwsgiVars(v) = f[Len(v)]
    BY <2>1, VarsBuilt
  <2>3. Len(v) \in 0 .. Len(v)
    BY <2>1, LenProperties
  <2>4. w \in Seq(Byte)
    BY <2>2, <2>3 DEF Builds
  <2>5. QED
    BY <2>1, <2>4, LenProperties
<1>2. b = <<modifier1>> \o LeBytes(n) \o <<0>> \o w
  BY DEF UwsgiPacket
<1> HIDE DEF w, b
<1> DEFINE lo == n % 256
           hi == n \div 256
           head == <<modifier1>> \o LeBytes(n) \o <<0>>
<1>3. lo \in Byte /\ hi \in Byte /\ n = lo + 256 * hi /\ 0 \in Byte
  <2> HIDE DEF n
  <2>1. hi \in 0 .. 255 /\ lo \in 0 .. 255 /\ n = 256 * hi + lo
    BY <1>1, LengthSplit
  <2> HIDE DEF hi, lo
  <2>2. n = lo + 256 * hi
    BY <2>1
  <2>3. QED
    BY <2>1, <2>2 DEF Byte
<1>4. LeBytes(n) = <<lo, hi>>
  BY DEF LeBytes
<1> HIDE DEF lo, hi
<1>5. /\ head \in Seq(Byte) /\ Len(head) = 4
      /\ head[1] = modifier1 /\ head[2] = lo /\ head[3] = hi /\ head[4] = 0
  <2> DEFINE front == <<modifier1>> \o <<lo, hi>>
  <2>1. /\ <<modifier1>> \in Seq(Byte) /\ Len(<<modifier1>>) = 1 /\ <<modifier1>>[1] = modifier1
        /\ <<lo, hi>> \in Seq(Byte) /\ Len(<<lo, hi>>) = 2
        /\ <<lo, hi>>[1] = lo /\ <<lo, hi>>[2] = hi
        /\ <<0>> \in Seq(Byte) /\ Len(<<0>>) = 1 /\ <<0>>[1] = 0
    BY <1>3
  <2>2. /\ front \in Seq(Byte) /\ Len(front) = Len(<<modifier1>>) + Len(<<lo, hi>>)
        /\ \A i \in 1 .. Len(<<modifier1>>) : front[i] = <<modifier1>>[i]
        /\ \A i \in 1 .. Len(<<lo, hi>>) : front[Len(<<modifier1>>) + i] = <<lo, hi>>[i]
    BY <2>1, ConcatBytes
  <2>3. /\ Len(front) = 3 /\ front[1] = modifier1 /\ front[2] = lo /\ front[3] = hi
    <3> HIDE DEF front
    <3>1. Len(front) = 3 /\ front[1] = modifier1
      BY <2>1, <2>2
    <3>2. 1 \in 1 .. 2 /\ 2 \in 1 .. 2 /\ 1 + 1 = 2 /\ 1 + 2 = 3
      OBVIOUS
    <3>3. front[1 + 1] = <<lo, hi>>[1] /\ front[1 + 2] = <<lo, hi>>[2]
      BY <2>1, <2>2, <3>2
    <3>4. QED
      BY <2>1, <3>1, <3>2, <3>3
  <2>4. head = front \o <<0>>
    BY <1>4
  <2> HIDE DEF front, head
  <2>5. /\ head \in Seq(Byte) /\ Len(head) = Len(front) + Len(<<0>>)
        /\ \A i \in 1 .. Len(front) : head[i] = front[i]
        /\ \A i \in 1 .. Len(<<0>>) : head[Len(front) + i] = <<0>>[i]
    BY <2>1, <2>2, <2>4, ConcatBytes
  <2>6. head[3 + 1] = 0
    BY <2>1, <2>3, <2>5
  <2>7. QED
    BY <2>1, <2>3, <2>5, <2>6
<1>6. b = head \o w
  BY <1>2
<1> HIDE DEF head
<1>7. /\ b \in Seq(Byte) /\ Len(b) = 4 + n
      /\ \A i \in 1 .. 4 : b[i] = head[i]
      /\ \A i \in 1 .. n : b[4 + i] = w[i]
  <2>1. head \in Seq(Byte) /\ w \in Seq(Byte)
    BY <1>1, <1>5
  <2>2. /\ head \o w \in Seq(Byte) /\ Len(head \o w) = Len(head) + n
        /\ \A i \in 1 .. Len(head) : (head \o w)[i] = head[i]
        /\ \A i \in 1 .. n : (head \o w)[Len(head) + i] = w[i]
    BY <2>1, ConcatBytes
  <2>3. QED
    BY <1>5, <1>6, <2>2
<1>8. b[2] = lo /\ b[3] = hi /\ b[1] = modifier1
  BY <1>5, <1>7
<1>10. UwsgiSize(b) = Len(b)
  <2>1. 2 + 1 = 3
    OBVIOUS
  <2>2. UwsgiSize(b) = 4 + (b[2] + 256 * b[3])
    BY <2>1 DEF UwsgiSize, Le16
  <2>3. QED
    BY <1>3, <1>7, <1>8, <2>2
<1>11. QED
  BY <1>1, <1>7, <1>8, <1>10 DEF b, w

-----------------------------------------------------------------------------
(* The connection *)

\* All that is on its way to the server or there, and where the messages start.
Whole == buf \o stream

Base == IF state = "open" THEN 0 ELSE UwsgiSize(Whole)

Types == stream \in Seq(Byte) /\ buf \in Seq(Byte) /\ queue \in Seq(Frame)

\* What the client sent and the server has not handled lies there, in order.
InOrder ==
    state # "closed" =>
        /\ state # "open" => Len(Whole) >= 4
        /\ Splits(Whole, Base, queue)

WInv == Types /\ InOrder /\ toTap = handled

LEMMA SizeInWhole ==
    ASSUME NEW c \in Seq(Byte), NEW s \in Seq(Byte), Len(c) >= 4
    PROVE  /\ c \o s \in Seq(Byte) /\ Len(c \o s) >= 4
           /\ UwsgiSize(c \o s) = UwsgiSize(c)
<1>1. Len(c) \in Nat /\ Len(s) \in Nat
  BY LenProperties
<1>2. /\ c \o s \in Seq(Byte) /\ Len(c \o s) = Len(c) + Len(s)
      /\ \A i \in 1 .. Len(c) : (c \o s)[i] = c[i]
  BY ConcatBytes
<1>3. 2 \in 1 .. Len(c) /\ 3 \in 1 .. Len(c) /\ 2 + 1 = 3
  BY <1>1
<1>4. (c \o s)[2] = c[2] /\ (c \o s)[3] = c[3]
  BY <1>2, <1>3
<1>5. Le16(c \o s, 2) = Le16(c, 2)
  BY <1>3, <1>4 DEF Le16
<1>6. QED
  BY <1>1, <1>2, <1>5 DEF UwsgiSize

LEMMA WholeFacts ==
    ASSUME Types
    PROVE  /\ Whole \in Seq(Byte) /\ Len(Whole) = Len(buf) + Len(stream)
           /\ Len(buf) \in Nat /\ Len(stream) \in Nat /\ Begins(buf, Whole)
<1>1. buf \in Seq(Byte) /\ stream \in Seq(Byte)
  BY DEF Types
<1>2. Len(buf) \in Nat /\ Len(stream) \in Nat
  BY <1>1, LenProperties
<1>3. /\ Whole \in Seq(Byte) /\ Len(Whole) = Len(buf) + Len(stream)
      /\ \A i \in 1 .. Len(buf) : Whole[i] = buf[i]
  BY <1>1, ConcatBytes DEF Whole
<1>4. QED
  BY <1>2, <1>3 DEF Begins

\* As soon as the request has arrived the parser sees the size it has in all.
LEMMA SizeOfRequest ==
    ASSUME Types, Len(buf) >= 4
    PROVE  UwsgiSize(Whole) = UwsgiSize(buf)
<1>1. buf \in Seq(Byte) /\ stream \in Seq(Byte)
  BY DEF Types
<1>2. UwsgiSize(buf \o stream) = UwsgiSize(buf)
  BY <1>1, SizeInWhole
<1>3. QED
  BY <1>2 DEF Whole

\* What the parser finds at the start of the buffer is the first of queue.
LEMMA FirstMessage ==
    ASSUME WInv, state = "open"
    PROVE  LET m == WebsocketParse(buf)
           IN /\ queue = <<>> => Whole = <<>> /\ m = Incomplete
              /\ queue # <<>> => \E x \in SentAs(queue[1]) :
                   /\ queue[1] \in Frame
                   /\ LiesAt(Whole, 0, x) /\ Splits(Whole, Len(x), From(queue, 2))
                   /\ Len(buf) < Len(x) => m = Incomplete
                   /\ Len(buf) >= Len(x) => m.len = Len(x) /\ m.verdict \in {"frame", "ignore", "close"}
                   /\ m.verdict = "frame" /\ HasEthernet(buf, m) =>
                        /\ CarriesFrame(x, queue[1], m)
                        /\ buf[2] >= 128 /\ Payload(buf, m) = queue[1]
<1>1. /\ Whole \in Seq(Byte) /\ Len(Whole) = Len(buf) + Len(stream)
      /\ Len(buf) \in Nat /\ Len(stream) \in Nat /\ Begins(buf, Whole)
      /\ buf \in Seq(Byte) /\ queue \in Seq(Frame)
  BY WholeFacts DEF WInv, Types
<1>2. Splits(Whole, 0, queue)
  BY DEF WInv, InOrder, Base
<1>3. ASSUME queue = <<>> PROVE Whole = <<>> /\ WebsocketParse(buf) = Incomplete
  <2>1. 0 = Len(Whole)
    BY <1>1, <1>2, <1>3, SplitsNone
  <2>2. Len(buf) < 2
    BY <1>1, <2>1
  <2>3. Whole = <<>>
    BY <1>1, <2>1, EmptySeq
  <2>4. QED
    BY <2>2, <2>3 DEF WebsocketParse
<1>4. ASSUME queue # <<>>
      PROVE  \E x \in SentAs(queue[1]) :
               /\ queue[1] \in Frame
               /\ LiesAt(Whole, 0, x) /\ Splits(Whole, Len(x), From(queue, 2))
  <2>1. PICK x \in SentAs(queue[1]) : LiesAt(Whole, 0, x) /\ Splits(Whole, 0 + Len(x), From(queue, 2))
    BY <1>1, <1>2, <1>4, SplitsFirst
  <2>2. queue[1] \in Frame
    <3>1. Len(queue) \in Nat \ {0}
      BY <1>1, <1>4, EmptySeq
    <3>2. 1 \in 1 .. Len(queue)
      BY <3>1
    <3>3. QED
      BY <1>1, <3>2, ElementOfSeq
  <2>3. 0 + Len(x) = Len(x)
    BY <2>2, SentBytes
  <2>4. QED
    BY <2>1, <2>2, <2>3
<1>5. ASSUME NEW p \in Frame, NEW x \in SentAs(p), LiesAt(Whole, 0, x)
      PROVE  LET m == WebsocketParse(buf)
             IN /\ Len(buf) < Len(x) => m = Incomplete
                /\ Len(buf) >= Len(x) => m.len = Len(x) /\ m.verdict \in {"frame", "ignore", "close"}
                /\ m.verdict = "frame" /\ HasEthernet(buf, m) =>
                     /\ CarriesFrame(x, p, m)
                     /\ buf[2] >= 128 /\ Payload(buf, m) = p
  BY <1>1, <1>5, ParseSent
<1>6. QED
  BY <1>3, <1>4, <1>5

\* Taking it away leaves the rest.
LEMMA MessageTaken ==
    ASSUME WInv, state = "open", WebsocketParse(buf) # Incomplete
    PROVE  LET c == Taken(buf, WebsocketParse(buf))
           IN /\ queue # <<>> /\ c \in Seq(Byte) /\ From(queue, 2) \in Seq(Frame)
              /\ Splits(c \o stream, 0, From(queue, 2))
<1> DEFINE m == WebsocketParse(buf)
           r == From(queue, 2)
           c == Taken(buf, m)
<1>1. queue # <<>>
  BY FirstMessage
<1>2. PICK x \in SentAs(queue[1]) :
        /\ queue[1] \in Frame /\ Splits(Whole, Len(x), r)
        /\ Len(buf) >= Len(x) /\ m.len = Len(x)
  <2>1. PICK x \in SentAs(queue[1]) :
          /\ queue[1] \in Frame /\ Splits(Whole, Len(x), r)
          /\ Len(buf) < Len(x) => m = Incomplete
          /\ Len(buf) >= Len(x) => m.len = Len(x)
    BY <1>1, FirstMessage
  <2>2. Len(buf) \in Nat /\ Len(x) \in Nat
    BY <2>1, SentBytes, WholeFacts DEF WInv
  <2>3. QED
    BY <2>1, <2>2
<1>3. /\ buf \in Seq(Byte) /\ stream \in Seq(Byte) /\ queue \in Seq(Frame)
      /\ Whole \in Seq(Byte) /\ Len(buf) \in Nat
  BY WholeFacts DEF WInv, Types
<1>4. Len(x) \in Nat /\ Len(x) \in 0 .. Len(buf)
  BY <1>2, <1>3, SentBytes
<1>5. r \in Seq(Frame)
  <2>1. Len(queue) \in Nat \ {0}
    BY <1>1, <1>3, EmptySeq
  <2>2. 1 \in 0 .. Len(queue) /\ 1 + 1 = 2
    BY <2>1
  <2>3. From(queue, 1 + 1) \in Seq(Frame)
    BY <1>3, <2>2, FromFacts
  <2>4. QED
    BY <2>2, <2>3
<1>6. c = From(buf, Len(x) + 1)
  BY <1>2 DEF Taken
<1>7. c \in Seq(Byte)
  BY <1>3, <1>4, <1>6, FromFacts
<1>8. c \o stream = From(Whole, Len(x) + 1)
  BY <1>3, <1>4, <1>6, FromConcat DEF Whole
<1>9. Splits(From(Whole, Len(x) + 1), 0, r)
  BY <1>2, <1>3, <1>4, <1>5, SplitsBehind
<1>10. QED
  BY <1>1, <1>5, <1>7, <1>8, <1>9

LEMMA WInvInit == Init => WInv
<1> SUFFICES ASSUME Init PROVE WInv
  OBVIOUS
<1>1. stream \in Seq(Byte) /\ Len(stream) >= 4 /\ UwsgiSize(stream) = Len(stream)
  <2>1. CASE stream \in {UwsgiPacket(0, v) : v \in Vars}
    <3>1. PICK v \in Vars : stream = UwsgiPacket(0, v)
      BY <2>1
    <3>2. v \in AllRequests /\ 0 \in Byte
      BY DEF AllRequests, Byte
    <3>3. QED
      BY <3>1, <3>2, PacketBytes
  <2>2. CASE asked \in Queries /\ stream = UwsgiPacket(1, <<[key |-> QueryVar, value |-> asked]>>)
    <3> DEFINE v == <<[key |-> QueryVar, value |-> asked]>>
    <3>1. v \in AllRequests /\ 1 \in Byte
      BY <2>2 DEF AllRequests, Byte
    <3>2. stream = UwsgiPacket(1, v)
      BY <2>2
    <3> HIDE DEF v
    <3>3. QED
      BY <3>1, <3>2, PacketBytes
  <2>3. QED
    BY <2>1, <2>2 DEF Init
<1>2. buf = <<>> /\ queue = <<>> /\ state = "shaking" /\ toTap = handled
  BY DEF Init
<1>3. Types
  <2>1. <<>> \in Seq(Byte) /\ <<>> \in Seq(Frame)
    OBVIOUS
  <2>2. QED
    BY <1>1, <1>2, <2>1 DEF Types
<1>4. Whole = stream
  BY <1>1, <1>2, ConcatEmptySeq DEF Whole
<1>5. Base = Len(stream) /\ Base \in Nat
  BY <1>1, <1>2, <1>4, LenProperties DEF Base
<1>6. Splits(stream, Base, <<>>)
  BY <1>1, <1>5, SplitsNone
<1>7. QED
  BY <1>1, <1>2, <1>3, <1>4, <1>6 DEF WInv, InOrder

\* A read moves bytes, and changes nothing about what is there in all.
LEMMA ArriveKeeps ==
    ASSUME WInv, NEW n \in ChunkSizes, Arrive(n)
    PROVE  WInv' /\ Whole' = Whole
<1>1. /\ buf \in Seq(Byte) /\ stream \in Seq(Byte) /\ queue \in Seq(Frame)
      /\ n \in Nat \ {0} /\ Len(stream) \in Nat
  BY LenProperties, WireConstants DEF WInv, Types
<1> DEFINE k == IF n <= Len(stream) THEN n ELSE Len(stream)
           s == SubSeq(stream, 1, k)
           t == From(stream, k + 1)
<1>2. buf' = buf \o s /\ stream' = t
  BY DEF Arrive
<1>3. k \in 0 .. Len(stream)
  BY <1>1
<1> HIDE DEF k
<1>4. t \in Seq(Byte)
  BY <1>1, <1>3, FromFacts
<1>5. s \in Seq(Byte)
  <2>1. \A i \in 1 .. k : stream[i] \in Byte
    BY <1>1, <1>3, ElementOfSeq
  <2>2. QED
    BY <1>1, <1>3, <2>1, SubSeqProperties
<1>6. s \o t = stream
  <2>1. 1 \in 1 .. Len(stream) + 1 /\ k \in 1 - 1 .. Len(stream) /\ Len(stream) \in k .. Len(stream)
    BY <1>1, <1>3
  <2>2. s \o SubSeq(stream, k + 1, Len(stream)) = SubSeq(stream, 1, Len(stream))
    BY <1>1, <2>1, ConcatAdjacentSubSeq
  <2>3. SubSeq(stream, 1, Len(stream)) = stream
    BY <1>1, SubSeqFull
  <2>4. QED
    BY <2>2, <2>3 DEF From
<1> HIDE DEF s, t
<1>7. buf \o s \in Seq(Byte)
  BY <1>1, <1>5, ConcatProperties
<1>8. Whole' = Whole
  <2>1. (buf \o s) \o t = buf \o (s \o t)
    BY <1>1, <1>4, <1>5, ConcatAssociative
  <2>2. QED
    BY <1>2, <1>6, <2>1 DEF Whole
<1>9. /\ state # "closed" /\ queue' = queue /\ toTap' = toTap /\ handled' = handled
      /\ (state' = "open" <=> state = "open")
  BY DEF Arrive, Serving, history
<1>10. Base' = Base
  BY <1>8, <1>9 DEF Base
<1>11. Types'
  BY <1>1, <1>2, <1>4, <1>7, <1>9 DEF Types
<1>12. InOrder'
  BY <1>8, <1>9, <1>10 DEF WInv, InOrder
<1>13. QED
  BY <1>8, <1>9, <1>11, <1>12 DEF WInv

\* What the client sends lies behind all the rest.
LEMMA SendKeeps ==
    ASSUME WInv, NEW p \in Frame, NEW x \in SentAs(p), ClientSends(x), queue' = Append(queue, p)
    PROVE  WInv'
<1>1. /\ buf \in Seq(Byte) /\ stream \in Seq(Byte) /\ queue \in Seq(Frame) /\ x \in Seq(Byte)
  BY SentBytes DEF WInv, Types
<1>2. /\ stream' = stream \o x /\ buf' = buf /\ state' = state /\ state # "closed"
      /\ toTap' = toTap /\ handled' = handled
  BY DEF ClientSends
<1>3. Types'
  BY <1>1, <1>2, ConcatProperties, AppendProperties DEF Types
<1>4. Whole' = Whole \o x
  BY <1>1, <1>2, ConcatAssociative DEF Whole
<1>5. Whole \in Seq(Byte) /\ Splits(Whole, Base, queue) /\ (state # "open" => Len(Whole) >= 4)
  BY <1>2, WholeFacts DEF WInv, InOrder
<1>6. state # "open" => Len(Whole') >= 4 /\ UwsgiSize(Whole') = UwsgiSize(Whole)
  <2>1. ASSUME state # "open" PROVE Len(Whole \o x) >= 4 /\ UwsgiSize(Whole \o x) = UwsgiSize(Whole)
    BY <1>1, <1>5, <2>1, SizeInWhole
  <2>2. QED
    BY <1>4, <2>1
<1>7. Base' = Base
  BY <1>2, <1>6 DEF Base
<1>8. Base \in Nat
  <2>1. ASSUME state # "open" PROVE UwsgiSize(Whole) \in Nat
    <3>1. 2 \in 1 .. Len(Whole) /\ 3 \in 1 .. Len(Whole) /\ 2 + 1 = 3
      BY <1>5, <2>1, LenProperties
    <3>2. Whole[2] \in Nat /\ Whole[3] \in Nat
      <4>1. Whole[2] \in Byte /\ Whole[3] \in Byte
        BY <1>5, <3>1, ElementOfSeq
      <4>2. \A y \in Byte : y \in Nat
        BY DEF Byte
      <4>3. QED
        BY <4>1, <4>2
    <3>3. QED
      BY <3>1, <3>2 DEF UwsgiSize, Le16
  <2>2. QED
    BY <2>1 DEF Base
<1>9. Splits(Whole \o x, Base, Append(queue, p))
  BY <1>1, <1>5, <1>8, SplitsMore
<1>10. InOrder'
  BY <1>2, <1>4, <1>6, <1>7, <1>9 DEF InOrder
<1>11. QED
  BY <1>2, <1>3, <1>10 DEF WInv

LEMMA FramesGiven == \A p \in Payloads \cup TapPayloads : p \in Frame
BY FrameSizes DEF Frame

\* The server takes one message, and the tap device gets what it gets.
LEMMA TakeKeeps ==
    ASSUME WInv, state = "open", WebsocketParse(buf) # Incomplete,
           state' = state, stream' = stream, buf' = Taken(buf, WebsocketParse(buf)),
           queue' = From(queue, 2), toTap' = handled'
    PROVE  WInv'
<1> DEFINE c == Taken(buf, WebsocketParse(buf))
<1>1. /\ c \in Seq(Byte) /\ From(queue, 2) \in Seq(Frame)
      /\ Splits(c \o stream, 0, From(queue, 2))
  BY MessageTaken
<1> HIDE DEF c
<1>2. buf' = c
  BY DEF c
<1>3. Types'
  BY <1>1, <1>2 DEF WInv, Types
<1>4. Whole' = c \o stream /\ Base' = 0
  BY <1>2 DEF Whole, Base
<1>5. InOrder'
  BY <1>1, <1>4 DEF InOrder
<1>6. QED
  BY <1>3, <1>5 DEF WInv

LEMMA HandleFrameKeeps == ASSUME WInv, HandleFrame PROVE WInv'
<1> DEFINE m == WebsocketParse(buf)
<1>1. /\ state = "open" /\ m.verdict = "frame" /\ m # Incomplete
      /\ state' = state /\ stream' = stream /\ buf' = Taken(buf, m) /\ queue' = From(queue, 2)
  BY DEF HandleFrame, Incomplete
<1>2. toTap' = handled'
  <2>1. ASSUME HasEthernet(buf, m), toTap' = Append(toTap, Payload(buf, m)),
               handled' = Append(handled, Head(queue))
        PROVE  toTap' = handled'
    <3>2. queue # <<>>
      BY <1>1, MessageTaken
    <3>3. Payload(buf, m) = queue[1]
      BY <1>1, <2>1, <3>2, FirstMessage
    <3>4. Head(queue) = queue[1]
      BY DEF WInv, Types
    <3>5. QED
      BY <2>1, <3>3, <3>4 DEF WInv
  <2>2. CASE UNCHANGED <<toTap, handled>>
    BY <2>2 DEF WInv
  <2>3. QED
    BY <2>1, <2>2 DEF HandleFrame
<1>3. QED
  BY <1>1, <1>2, TakeKeeps

\* The request is taken away, or NULs are written into it.
LEMMA HandshakeKeeps == ASSUME WInv, Handshake PROVE WInv'
<1> DEFINE parsed == UwsgiParse(buf)
           macs == Found(parsed.vars, MacVar)
           at == parsed.vars[CHOOSE i \in macs : TRUE].at
           b == IF macs = {} THEN buf ELSE Terminated(buf, at)
           n == UwsgiSize(buf)
<1>1. /\ state = "shaking" /\ UwsgiArrived(buf) /\ stream' = stream
      /\ queue' = queue /\ toTap' = toTap /\ handled' = handled
  BY DEF Handshake, history
<1>2. /\ buf \in Seq(Byte) /\ stream \in Seq(Byte) /\ queue \in Seq(Frame)
      /\ Whole \in Seq(Byte) /\ Len(Whole) = Len(buf) + Len(stream)
      /\ Len(buf) \in Nat /\ Len(stream) \in Nat /\ Begins(buf, Whole)
  BY WholeFacts DEF WInv, Types
<1>3. n \in Nat /\ 4 <= n /\ n <= Len(buf)
  BY <1>1, <1>2, LoopForwards
<1>4. Splits(Whole, n, queue)
  BY <1>1, <1>2, <1>3, SizeOfRequest DEF WInv, InOrder, Base
<1>5. ASSUME Acceptable(parsed)
      PROVE  /\ b \in Seq(Byte) /\ Len(b) = Len(buf)
             /\ \A j \in 1 .. Len(buf) : b[j] = buf[j] \/ (b[j] = 0 /\ 12 <= j /\ j <= n + 1)
  <2>1. CASE macs = {}
    BY <1>2, <2>1
  <2>2. CASE macs # {}
    <3> DEFINE i == CHOOSE i \in macs : TRUE
    <3>1. i \in macs
      BY <2>2
    <3> HIDE DEF i
    <3>2. i \in DOMAIN parsed.vars /\ parsed.vars[i].len = 17
      BY <1>5, <3>1 DEF Found, Acceptable, MacVarLength
    <3>3. parsed.vars[i].at \in Nat /\ parsed.vars[i].at >= 10 /\ parsed.vars[i].at + 17 <= n + 1
      BY <1>1, <1>2, <3>2, RequestParsed
    <3>4. at = parsed.vars[i].at /\ b = Terminated(buf, at)
      BY <2>2 DEF i
    <3> HIDE DEF at, b, n, parsed
    <3>5. at \in Nat /\ at >= 10 /\ at + 17 <= n + 1
      BY <3>3, <3>4
    <3>6. /\ b \in Seq(Byte) /\ Len(b) = Len(buf)
          /\ \A j \in 1 .. Len(buf) : \/ b[j] = buf[j]
                                      \/ b[j] = 0 /\ at + 2 <= j /\ j <= at + 17
      BY <1>2, <3>4, <3>5, TerminatedFacts
    <3>7. ASSUME NEW j \in 1 .. Len(buf), at + 2 <= j, j <= at + 17 PROVE 12 <= j /\ j <= n + 1
      BY <1>2, <1>3, <3>5, <3>7
    <3>8. QED
      BY <3>6, <3>7
  <2>3. QED
    BY <2>1, <2>2
<1>6. CASE ~Acceptable(parsed)
  <2>1. state' = "closed" /\ buf' = buf
    BY <1>6 DEF Handshake
  <2>2. QED
    BY <1>1, <2>1 DEF WInv, Types, InOrder
<1>7. CASE Acceptable(parsed)
  <2> DEFINE w == b \o stream
  <2>0. /\ b \in Seq(Byte) /\ Len(b) = Len(buf)
        /\ \A j \in 1 .. Len(buf) : b[j] = buf[j] \/ (b[j] = 0 /\ 12 <= j /\ j <= n + 1)
    BY <1>5, <1>7
  <2>1. \/ state' = "open" /\ buf' = From(b, n + 1)
        \/ state' = "blocked" /\ buf' = b
    BY <1>7 DEF Handshake
  <2> HIDE DEF b, n, macs, parsed, at
  <2>2. /\ w \in Seq(Byte) /\ Len(w) = Len(Whole)
        /\ \A i \in 1 .. Len(b) : w[i] = b[i]
        /\ \A i \in 1 .. Len(stream) : w[Len(b) + i] = stream[i]
    BY <1>2, <2>0, ConcatBytes
  <2> HIDE DEF w
  <2>3. \A i \in 1 .. Len(stream) : Whole[Len(buf) + i] = stream[i]
    BY <1>2, ConcatBytes DEF Whole
  <2>4. ASSUME NEW j \in n + 1 .. Len(Whole)
        PROVE  w[j] = Whole[j] \/ (j = n + 1 /\ w[j] = 0)
    <3>1. CASE j <= Len(buf)
      <4>1. j \in 1 .. Len(buf) /\ (j <= n + 1 => j = n + 1)
        BY <1>2, <1>3, <3>1
      <4>2. w[j] = b[j] /\ Whole[j] = buf[j]
        BY <1>2, <2>0, <2>2, <4>1 DEF Begins
      <4>3. b[j] = buf[j] \/ (b[j] = 0 /\ j = n + 1)
        BY <2>0, <4>1
      <4>4. QED
        BY <4>2, <4>3
    <3>2. CASE ~(j <= Len(buf))
      <4>1. j - Len(buf) \in 1 .. Len(stream) /\ Len(buf) + (j - Len(buf)) = j
        BY <1>2, <1>3, <3>2
      <4>2. w[j] = stream[j - Len(buf)]
        BY <2>0, <2>2, <4>1
      <4>3. Whole[j] = stream[j - Len(buf)]
        BY <2>3, <4>1
      <4>4. QED
        BY <4>2, <4>3
    <3>3. QED
      BY <3>1, <3>2
  <2>5. Splits(w, n, queue)
    BY <1>2, <1>3, <1>4, <2>2, <2>4, SplitsNul
  <2>6. Len(w) >= 4 /\ UwsgiSize(w) = n
    <3>1. Len(b) >= 4 /\ 2 \in 1 .. Len(buf) /\ 3 \in 1 .. Len(buf) /\ ~(12 <= 2) /\ ~(12 <= 3)
      BY <1>2, <1>3, <2>0
    <3>2. b[2] = buf[2] /\ b[3] = buf[3]
      BY <2>0, <3>1
    <3>3. 2 + 1 = 3
      OBVIOUS
    <3>4. UwsgiSize(b) = n
      BY <3>2, <3>3 DEF UwsgiSize, Le16, n
    <3>5. Len(w) >= 4 /\ UwsgiSize(w) = UwsgiSize(b)
      BY <1>2, <2>0, <3>1, SizeInWhole DEF w
    <3>6. QED
      BY <3>4, <3>5
  <2>7. CASE state' = "blocked" /\ buf' = b
    <3>1. Whole' = w /\ Base' = UwsgiSize(w)
      BY <1>1, <2>7 DEF Whole, Base, w
    <3>2. Types'
      BY <1>1, <1>2, <2>0, <2>7 DEF Types
    <3>3. InOrder'
      BY <1>1, <2>5, <2>6, <2>7, <3>1 DEF InOrder
    <3>4. QED
      BY <1>1, <3>2, <3>3 DEF WInv
  <2>8. CASE state' = "open" /\ buf' = From(b, n + 1)
    <3>1. n \in 0 .. Len(b)
      BY <1>2, <1>3, <2>0
    <3>2. From(b, n + 1) \in Seq(Byte)
      BY <2>0, <3>1, FromFacts
    <3>3. From(b, n + 1) \o stream = From(w, n + 1)
      BY <1>2, <2>0, <3>1, FromConcat DEF w
    <3>4. Splits(From(w, n + 1), 0, queue)
      BY <1>2, <1>3, <2>2, <2>5, SplitsBehind
    <3>5. Whole' = From(w, n + 1) /\ Base' = 0
      BY <1>1, <2>8, <3>3 DEF Whole, Base
    <3>6. Types'
      BY <1>1, <1>2, <2>8, <3>2 DEF Types
    <3>7. InOrder'
      BY <1>1, <2>8, <3>4, <3>5 DEF InOrder
    <3>8. QED
      BY <1>1, <3>6, <3>7 DEF WInv
  <2>9. QED
    BY <2>1, <2>7, <2>8
<1>8. QED
  BY <1>6, <1>7

LEMMA WInvNext == WInv /\ [Next]_vars => WInv'
<1> SUFFICES ASSUME WInv, [Next]_vars PROVE WInv'
  OBVIOUS
<1>1. CASE UNCHANGED vars
  BY <1>1 DEF vars, WInv, Types, InOrder, Whole, Base
<1>2. CASE Control
  <2>1. /\ state' = "closed" /\ stream' = stream /\ buf' = buf
        /\ queue' = queue /\ toTap' = toTap /\ handled' = handled
    BY <1>2 DEF Control, history
  <2>2. QED
    BY <2>1 DEF WInv, Types, InOrder
<1>3. CASE \E n \in ChunkSizes : Arrive(n)
  BY <1>3, ArriveKeeps
<1>4. CASE Handshake
  BY <1>4, HandshakeKeeps
<1>5. CASE ReplyWritten
  <2>1. /\ state = "blocked" /\ state' = "reread" /\ stream' = stream /\ buf' = buf
        /\ queue' = queue /\ toTap' = toTap /\ handled' = handled
    BY <1>5 DEF ReplyWritten, history
  <2>2. Whole' = Whole
    BY <2>1 DEF Whole
  <2>3. Base' = Base
    BY <2>1, <2>2 DEF Base
  <2>4. QED
    BY <2>1, <2>2, <2>3 DEF WInv, Types, InOrder
<1>6. CASE HandleFrame
  BY <1>6, HandleFrameKeeps
<1>7. CASE HandlePing
  <2>1. WebsocketParse(buf) # Incomplete
    BY <1>7 DEF HandlePing, Incomplete
  <2>2. toTap' = handled'
    BY <1>7 DEF HandlePing, WInv
  <2>3. QED
    BY <1>7, <2>1, <2>2, TakeKeeps DEF HandlePing
<1>8. CASE HandleClose
  <2>1. /\ state' = "closed" /\ stream' = stream /\ buf' = buf
        /\ queue' = queue /\ toTap' = toTap /\ handled' = handled
    BY <1>8 DEF HandleClose, history
  <2>2. QED
    BY <2>1 DEF WInv, Types, InOrder
<1>9. CASE \E p \in TapPayloads : TapFrame(p)
  <2>1. /\ state' = state /\ stream' = stream /\ buf' = buf
        /\ queue' = queue /\ toTap' = toTap /\ handled' = handled
    BY <1>9 DEF TapFrame
  <2>2. Whole' = Whole
    BY <2>1 DEF Whole
  <2>3. Base' = Base
    BY <2>1, <2>2 DEF Base
  <2>4. QED
    BY <2>1, <2>2, <2>3 DEF WInv, Types, InOrder
<1>10. CASE \E p \in Payloads : \E ext \in LengthForms(Len(p)) : SendFrame(p, ext)
  <2>1. PICK p \in Payloads : \E ext \in LengthForms(Len(p)) : SendFrame(p, ext)
    BY <1>10
  <2>11. PICK ext \in LengthForms(Len(p)) : SendFrame(p, ext)
    BY <2>1
  <2>2. p \in Frame /\ ClientFrame(p, ext) \in SentAs(p)
    BY FramesGiven DEF SentAs
  <2>3. ClientSends(ClientFrame(p, ext)) /\ queue' = Append(queue, p)
    BY <2>11 DEF SendFrame
  <2>4. QED
    BY <2>2, <2>3, SendKeeps
<1>11. CASE \E bytes \in {ClientPing, CloseMessage} : SendControl(bytes)
  <2>1. PICK bytes \in {ClientPing, CloseMessage} : SendControl(bytes)
    BY <1>11
  <2>2. <<>> \in Frame
    <3>1. <<>> \in Seq(Byte) /\ Len(<<>>) = 0
      OBVIOUS
    <3>2. QED
      BY <3>1 DEF Frame
  <2>3. bytes \in SentAs(<<>>)
    BY DEF SentAs
  <2>4. ClientSends(bytes) /\ queue' = Append(queue, <<>>)
    BY <2>1 DEF SendControl
  <2>5. QED
    BY <2>2, <2>3, <2>4, SendKeeps
<1>12. QED
  BY <1>1, <1>2, <1>3, <1>4, <1>5, <1>6, <1>7, <1>8, <1>9, <1>10, <1>11 DEF Next, Tunnelling

\* In every reachable state the bytes that have not been handled, read or not, are
\* the rest of the request and then exactly the messages the client has sent.
THEOREM WireInvariant == Spec => []WInv
<1>1. Init => WInv
  BY WInvInit
<1>2. WInv /\ [Next]_vars => WInv'
  BY WInvNext
<1>3. QED
  BY <1>1, <1>2, PTL DEF Spec

\* However the bytes of a connection are cut into reads, and however often the
\* handshake is done, the tap device gets the payload of each frame once, in
\* order and unmasked.
THEOREM TapGetsFramesAlways == Spec => []TapGetsFrames
<1>1. WInv => TapGetsFrames
  BY DEF WInv, TapGetsFrames
<1>2. QED
  BY <1>1, WireInvariant, PTL

\* No bytes are left over between messages: what cannot be parsed is the start
\* of a message the rest of which is on its way.
THEOREM NothingLeftAlways == Spec => []NothingLeft
<1>1. WInv => NothingLeft
  <2> SUFFICES ASSUME WInv, state = "open", stream = <<>>, WebsocketParse(buf) = Incomplete
               PROVE  buf = <<>> /\ queue = <<>>
    BY DEF NothingLeft
  <2>1. buf \in Seq(Byte) /\ Whole = buf
    BY ConcatEmptySeq DEF WInv, Types, Whole
  <2>2. ASSUME queue # <<>> PROVE FALSE
    <3>1. PICK x \in SentAs(queue[1]) :
            /\ queue[1] \in Frame /\ LiesAt(Whole, 0, x)
            /\ Len(buf) >= Len(x) => WebsocketParse(buf).len = Len(x)
      BY <2>2, FirstMessage
    <3>2. Len(x) \in Nat /\ Len(x) >= 2
      BY <3>1, SentBytes
    <3>3. Len(buf) >= Len(x)
      BY <2>1, <3>1, <3>2 DEF LiesAt
    <3>4. WebsocketParse(buf).len = 0
      BY DEF Incomplete
    <3>5. QED
      BY <3>1, <3>2, <3>3, <3>4
  <2>3. queue = <<>> => buf = <<>>
    BY <2>1, FirstMessage
  <2>4. QED
    BY <2>2, <2>3
<1>2. QED
  BY <1>1, WireInvariant, PTL

-----------------------------------------------------------------------------
(* Another client: what it makes of a message does not depend on what follows *)

Ext(b) == CASE b[2] % 128 = 126 -> 2 [] b[2] % 128 = 127 -> 8 [] OTHER -> 0

Header(b) == 2 + Ext(b) + (IF b[2] >= 128 THEN 4 ELSE 0)

Total(b) == Header(b) + (IF Ext(b) = 0 THEN b[2] % 128 ELSE Be(b, 3, Ext(b)))

LEMMA ParseSizes ==
    ASSUME NEW b
    PROVE  WebsocketParse(b) =
             IF Len(b) < 2 THEN Incomplete
             ELSE IF Len(b) < Header(b) THEN Incomplete
             ELSE IF Len(b) < Total(b) THEN Incomplete
             ELSE [header |-> Header(b), len |-> Total(b), verdict |-> Verdict(b[1])]
BY DEF WebsocketParse, Ext, Header, Total, Verdict

LEMMA HeaderSizes ==
    ASSUME NEW c \in Seq(Byte), Len(c) >= 2
    PROVE  /\ Ext(c) \in {0, 2, 8} /\ Header(c) \in Nat /\ Header(c) >= 2 + Ext(c)
           /\ c[2] >= 128 => Header(c) >= 6
           /\ Len(c) >= Header(c) =>
                /\ \A k \in 1 .. Ext(c) : 3 + k - 1 \in 1 .. Len(c) /\ c[3 + k - 1] \in Nat
                /\ Total(c) \in Nat /\ Total(c) >= Header(c)
<1>1. Len(c) \in Nat /\ \A i \in 1 .. Len(c) : c[i] \in Nat
  <2>1. Len(c) \in Nat /\ \A i \in 1 .. Len(c) : c[i] \in Byte
    BY LenProperties, ElementOfSeq
  <2>2. \A x \in Byte : x \in Nat
    BY DEF Byte
  <2>3. QED
    BY <2>1, <2>2
<1>2. c[2] \in Nat
  BY <1>1
<1>3. Ext(c) \in {0, 2, 8}
  BY DEF Ext
<1>4. Header(c) \in Nat /\ Header(c) >= 2 + Ext(c) /\ (c[2] >= 128 => Header(c) >= 6)
  BY <1>2, <1>3 DEF Header
<1>5. ASSUME Len(c) >= Header(c)
      PROVE  /\ \A k \in 1 .. Ext(c) : 3 + k - 1 \in 1 .. Len(c) /\ c[3 + k - 1] \in Nat
             /\ Total(c) \in Nat /\ Total(c) >= Header(c)
  <2>1. ASSUME NEW k \in 1 .. Ext(c) PROVE 3 + k - 1 \in 1 .. Len(c) /\ c[3 + k - 1] \in Nat
    <3>1. 3 + k - 1 \in 1 .. Len(c)
      BY <1>1, <1>3, <1>4, <1>5
    <3>2. QED
      BY <1>1, <3>1
  <2>2. Be(c, 3, Ext(c)) \in Nat
    <3> DEFINE i == 3
               n == Ext(c)
    <3>1. i \in Nat /\ n \in Nat /\ \A k \in 1 .. n : c[i + k - 1] \in Nat
      BY <1>3, <2>1
    <3> HIDE DEF i, n
    <3>2. Be(c, i, n) \in Nat
      BY <3>1, BeNat
    <3>3. QED
      BY <3>2 DEF i, n
  <2>3. c[2] % 128 \in Nat
    BY <1>2
  <2> DEFINE more == IF Ext(c) = 0 THEN c[2] % 128 ELSE Be(c, 3, Ext(c))
  <2>4. more \in Nat
    BY <2>2, <2>3
  <2>5. Total(c) = Header(c) + more
    BY DEF Total
  <2> HIDE DEF more
  <2>6. QED
    BY <1>4, <2>1, <2>4, <2>5
<1>6. QED
  BY <1>3, <1>4, <1>5

LEMMA ParseBounds ==
    ASSUME NEW c \in Seq(Byte), WebsocketParse(c) # Incomplete
    PROVE  LET m == WebsocketParse(c)
           IN /\ Len(c) >= 2 /\ Len(c) \in Nat /\ Len(c) >= Header(c)
              /\ m = [header |-> Header(c), len |-> Total(c), verdict |-> Verdict(c[1])]
              /\ m.header \in Nat /\ m.header >= 2 /\ (c[2] >= 128 => m.header >= 6)
              /\ m.len \in Nat /\ m.header <= m.len /\ m.len <= Len(c)
<1> DEFINE m == WebsocketParse(c)
<1>1. Len(c) \in Nat
  BY LenProperties
<1>2. /\ ~(Len(c) < 2) /\ ~(Len(c) < Header(c)) /\ ~(Len(c) < Total(c))
      /\ m = [header |-> Header(c), len |-> Total(c), verdict |-> Verdict(c[1])]
  BY ParseSizes
<1> HIDE DEF m
<1>3. Len(c) >= 2
  BY <1>1, <1>2
<1>4. Header(c) \in Nat /\ Ext(c) \in {0, 2, 8} /\ Header(c) >= 2 + Ext(c) /\ (c[2] >= 128 => Header(c) >= 6)
  BY <1>3, HeaderSizes
<1>5. Len(c) >= Header(c)
  BY <1>1, <1>2, <1>4
<1>6. Total(c) \in Nat /\ Total(c) >= Header(c)
  BY <1>3, <1>5, HeaderSizes
<1>7. Total(c) <= Len(c) /\ Header(c) >= 2
  BY <1>1, <1>2, <1>4, <1>6
<1>8. QED
  BY <1>1, <1>2, <1>3, <1>4, <1>5, <1>6, <1>7 DEF m

LEMMA ParseStable ==
    ASSUME NEW c \in Seq(Byte), NEW s \in Seq(Byte), WebsocketParse(c) # Incomplete
    PROVE  /\ WebsocketParse(c \o s) = WebsocketParse(c)
           /\ Payload(c \o s, WebsocketParse(c)) = Payload(c, WebsocketParse(c))
<1> DEFINE w == c \o s
           m == WebsocketParse(c)
<1>1. /\ Len(c) >= 2 /\ Len(c) \in Nat /\ Len(c) >= Header(c)
      /\ m = [header |-> Header(c), len |-> Total(c), verdict |-> Verdict(c[1])]
      /\ m.header \in Nat /\ m.header >= 2 /\ (c[2] >= 128 => m.header >= 6)
      /\ m.len \in Nat /\ m.header <= m.len /\ m.len <= Len(c)
  BY ParseBounds
<1>2. /\ w \in Seq(Byte) /\ Len(w) = Len(c) + Len(s) /\ Len(s) \in Nat
      /\ \A i \in 1 .. Len(c) : w[i] = c[i]
  BY ConcatBytes, LenProperties
<1> HIDE DEF w, m
<1>3. w[1] = c[1] /\ w[2] = c[2]
  <2>1. 1 \in 1 .. Len(c) /\ 2 \in 1 .. Len(c)
    BY <1>1
  <2>2. QED
    BY <1>2, <2>1
<1>4. Ext(w) = Ext(c) /\ Header(w) = Header(c)
  BY <1>3 DEF Ext, Header
<1>5. Be(w, 3, Ext(c)) = Be(c, 3, Ext(c))
  <2> DEFINE i == 3
             n == Ext(c)
  <2>1. i \in Nat /\ n \in Nat
    BY <1>1, HeaderSizes
  <2>2. \A k \in 1 .. n : c[i + k - 1] \in Nat /\ w[i + k - 1] = c[i + k - 1]
    <3>1. \A k \in 1 .. n : i + k - 1 \in 1 .. Len(c) /\ c[i + k - 1] \in Nat
      BY <1>1, HeaderSizes
    <3> HIDE DEF i, n
    <3>2. QED
      BY <1>2, <3>1
  <2> HIDE DEF i, n
  <2>3. Be(w, i, n) = Be(c, i, n)
    BY <2>1, <2>2, BeAgrees
  <2>4. QED
    BY <2>3 DEF i, n
<1>6. Total(w) = Total(c)
  BY <1>3, <1>4, <1>5 DEF Total
<1>7. WebsocketParse(w) = m
  <2>1. Total(c) = m.len /\ Header(c) = m.header
    BY <1>1
  <2>2. ~(Len(w) < 2) /\ ~(Len(w) < Header(w)) /\ ~(Len(w) < Total(w))
    BY <1>1, <1>2, <1>4, <1>6, <2>1
  <2>3. WebsocketParse(w) = [header |-> Header(w), len |-> Total(w), verdict |-> Verdict(w[1])]
    BY <2>2, ParseSizes
  <2>4. QED
    BY <1>1, <1>3, <1>4, <1>6, <2>3
<1>8. Payload(w, m) = Payload(c, m)
  <2>1. ASSUME NEW i \in Nat, NEW j \in Nat, i >= 1, j <= Len(c) PROVE SubSeq(w, i, j) = SubSeq(c, i, j)
    <3>1. CASE j < i
      BY <2>1, <3>1, SubSeqEmpty
    <3>2. CASE i <= j
      <4>1. i \in 1 .. Len(c) /\ j \in 1 .. Len(c)
        BY <1>1, <2>1, <3>2
      <4>2. QED
        BY <4>1, SubSeqOfConcat1 DEF w
    <3>3. QED
      BY <3>1, <3>2
  <2> DEFINE h == m.header
             l == m.len
  <2>2. h \in Nat /\ l \in Nat /\ h + 1 \in Nat /\ h + 1 >= 1 /\ l <= Len(c) /\ h <= Len(c)
    BY <1>1
  <2> HIDE DEF h, l
  <2>3. SubSeq(w, h + 1, l) = SubSeq(c, h + 1, l)
    BY <2>1, <2>2
  <2>4. c[2] >= 128 => SubSeq(w, h - 3, h) = SubSeq(c, h - 3, h)
    <3>1. ASSUME c[2] >= 128 PROVE h - 3 \in Nat /\ h - 3 >= 1
      BY <1>1, <3>1 DEF h
    <3>2. QED
      BY <2>1, <2>2, <3>1
  <2>5. QED
    BY <1>3, <2>3, <2>4 DEF Payload, HasMask, h, l
<1>9. QED
  BY <1>7, <1>8 DEF w, m

LEMMA FramesForwards ==
    ASSUME NEW b \in Seq(Byte)
    PROVE  /\ Forwards(FrameNext(b), 0, Len(b)) /\ DOMAIN FrameNext(b) = 0 .. Len(b)
           /\ \A i \in 0 .. Len(b) :
                LET m == WebsocketParse(From(b, i + 1))
                IN FrameNext(b)[i] = IF m.verdict = "frame" THEN i + m.len ELSE i
<1> DEFINE next == FrameNext(b)
           c(i) == From(b, i + 1)
           m(i) == WebsocketParse(c(i))
<1>1. Len(b) \in Nat
  BY LenProperties
<1>2. next = [i \in 0 .. Len(b) |-> IF m(i).verdict = "frame" THEN i + m(i).len ELSE i]
  BY DEF FrameNext
<1>3. ASSUME NEW i \in 0 .. Len(b), m(i).verdict = "frame"
      PROVE  m(i).len \in Nat /\ i + m(i).len \in 0 .. Len(b)
  <2>1. c(i) \in Seq(Byte) /\ Len(c(i)) = Len(b) - i
    BY FromFacts
  <2> HIDE DEF c
  <2>2. m(i) # Incomplete
    BY <1>3 DEF Incomplete
  <2>3. m(i).len \in Nat /\ m(i).len <= Len(c(i))
    BY <2>1, <2>2, ParseBounds
  <2> HIDE DEF m
  <2>4. QED
    BY <1>1, <2>1, <2>3
<1> HIDE DEF m, next
<1>4. ASSUME NEW i \in 0 .. Len(b) PROVE next[i] \in 0 .. Len(b) /\ next[i] >= i
  BY <1>1, <1>2, <1>3
<1>5. next \in [0 .. Len(b) -> 0 .. Len(b)]
  BY <1>2, <1>4
<1>6. Forwards(next, 0, Len(b))
  BY <1>1, <1>4, <1>5 DEF Forwards
<1>7. QED
  BY <1>2, <1>6 DEF next, m

LEMMA FramePath ==
    ASSUME NEW b \in Seq(Byte)
    PROVE  Path(Chain(FrameNext(b), 0), FrameNext(b), 0)
<1>1. 0 \in 0 .. Len(b) /\ Forwards(FrameNext(b), 0, Len(b))
  BY FramesForwards, LenProperties
<1>2. QED
  BY <1>1, ChainPath

\* One frame more behind the others is one frame more found.
LEMMA FrameAdded ==
    ASSUME NEW b \in Seq(Byte), NEW g \in Seq(Frame),
           FramesFound(b) = [all |-> TRUE, payloads |-> g],
           NEW x \in Seq(Byte), NEW p \in Frame,
           WebsocketParse(x).verdict = "frame", WebsocketParse(x).len = Len(x),
           Payload(x, WebsocketParse(x)) = p
    PROVE  FramesFound(b \o x) = [all |-> TRUE, payloads |-> Append(g, p)]
<1> DEFINE w == b \o x
           next == FrameNext(b)
           next2 == FrameNext(w)
           q == Chain(next, 0)
           n == Len(q)
           r == Append(q, Len(w))
           found(y, i) == Payload(From(y, i + 1), WebsocketParse(From(y, i + 1)))
<1>1. /\ Len(b) \in Nat /\ Len(x) \in Nat /\ Len(x) >= 2
      /\ w \in Seq(Byte) /\ Len(w) = Len(b) + Len(x)
  <2>1. WebsocketParse(x) # Incomplete
    BY DEF Incomplete
  <2>2. QED
    BY <2>1, ConcatBytes, LenProperties, ParseBounds
<1>2. /\ Path(q, next, 0) /\ q \in Seq(0 .. Len(b)) /\ n \in Nat /\ n >= 1 /\ q[1] = 0
      /\ \A k \in 1 .. n : q[k] \in 0 .. Len(b)
  <2>1. Path(q, next, 0) /\ DOMAIN next = 0 .. Len(b)
    BY FramePath, FramesForwards
  <2> HIDE DEF q, next
  <2>2. q \in Seq(0 .. Len(b)) /\ n >= 1 /\ q[1] = 0
    BY <2>1 DEF Path
  <2>3. QED
    BY <2>1, <2>2, LenProperties, ElementOfSeq
<1>3. q[n] = Len(b) /\ g = [k \in 1 .. n - 1 |-> found(b, q[k])]
  <2>1. FramesFound(b) = [all |-> q[n] = Len(b), payloads |-> [k \in 1 .. n - 1 |-> found(b, q[k])]]
    BY DEF FramesFound, Last
  <2> DEFINE ends == q[n] = Len(b)
             lists == [k \in 1 .. n - 1 |-> found(b, q[k])]
  <2>2. FramesFound(b) = [all |-> ends, payloads |-> lists]
    BY <2>1
  <2>3. ends \in BOOLEAN
    OBVIOUS
  <2> HIDE DEF ends, lists
  <2>4. [all |-> ends, payloads |-> lists] = [all |-> TRUE, payloads |-> g]
    BY <2>2
  <2>5. ends /\ lists = g
    BY <2>3, <2>4
  <2>6. QED
    BY <2>5 DEF ends, lists
<1>4. DOMAIN next2 = 0 .. Len(w) /\ Forwards(next2, 0, Len(w))
  BY <1>1, FramesForwards
<1> HIDE DEF q, n, found
\* The frames in b are found in w, too.
<1>5. ASSUME NEW i \in 0 .. Len(b), next[i] # i
      PROVE  i \in 0 .. Len(w) /\ next2[i] = next[i] /\ found(w, i) = found(b, i)
  <2> DEFINE c == From(b, i + 1)
             d == From(w, i + 1)
             m == WebsocketParse(c)
  <2>1. c \in Seq(Byte) /\ d = c \o x
    <3>1. From(b, i + 1) \in Seq(Byte)
      BY FromFacts
    <3>2. From(b, i + 1) \o x = From(b \o x, i + 1)
      BY FromConcat
    <3>3. QED
      BY <3>1, <3>2
  <2>2. i \in 0 .. Len(w)
    BY <1>1
  <2>3. next[i] = IF m.verdict = "frame" THEN i + m.len ELSE i
    BY FramesForwards
  <2>4. next2[i] = IF WebsocketParse(d).verdict = "frame" THEN i + WebsocketParse(d).len ELSE i
    BY <1>1, <2>2, FramesForwards
  <2> HIDE DEF c, d, next, next2, w
  <2>5. m # Incomplete
    BY <1>5, <2>3 DEF Incomplete
  <2>6. WebsocketParse(d) = m /\ Payload(d, m) = Payload(c, m)
    BY <2>1, <2>5, ParseStable
  <2>7. found(w, i) = Payload(d, WebsocketParse(d)) /\ found(b, i) = Payload(c, m)
    BY DEF found, c, d
  <2>8. QED
    BY <2>2, <2>3, <2>4, <2>6, <2>7
\* The new one lies where they end.
<1>6. next2[Len(b)] = Len(w) /\ found(w, Len(b)) = p /\ Len(b) \in 0 .. Len(w)
  <2>1. Len(b) \in 0 .. Len(w)
    BY <1>1
  <2>2. From(w, Len(b) + 1) = x
    <3>1. From(b, Len(b) + 1) \o x = From(b \o x, Len(b) + 1)
      <4>1. Len(b) \in 0 .. Len(b)
        BY <1>1
      <4>2. QED
        BY <4>1, FromConcat
    <3>2. From(b, Len(b) + 1) = <<>>
      BY <1>1, SubSeqEmpty DEF From
    <3>3. QED
      BY <3>1, <3>2, ConcatEmptySeq
  <2>3. next2[Len(b)] = IF WebsocketParse(x).verdict = "frame" THEN Len(b) + WebsocketParse(x).len ELSE Len(b)
    BY <1>1, <2>1, <2>2, FramesForwards
  <2>4. QED
    BY <1>1, <2>1, <2>2, <2>3 DEF found
<1>7. next2[Len(w)] = Len(w)
  <2>1. Len(w) \in 0 .. Len(w)
    BY <1>1
  <2>2. next2 \in [0 .. Len(w) -> 0 .. Len(w)] /\ next2[Len(w)] >= Len(w)
    BY <1>4, <2>1 DEF Forwards
  <2> HIDE DEF next2, w
  <2>3. next2[Len(w)] \in 0 .. Len(w)
    BY <2>1, <2>2
  <2>4. Len(w) \in Nat
    BY <1>1
  <2>5. QED
    BY <2>2, <2>3, <2>4
<1> HIDE DEF w, next, next2
<1>8. /\ r \in Seq(0 .. Len(w)) /\ Len(r) = n + 1 /\ r[n + 1] = Len(w)
      /\ \A k \in 1 .. n : r[k] = q[k]
  <2>1. q \in Seq(0 .. Len(w))
    <3>1. \A k \in 1 .. Len(q) : q[k] \in 0 .. Len(w)
      BY <1>1, <1>2 DEF n
    <3>2. q \in [1 .. Len(q) -> 0 .. Len(w)] /\ Len(q) \in Nat
      <4>1. q = [k \in 1 .. Len(q) |-> q[k]] /\ Len(q) \in Nat
        BY <1>2, LenProperties
      <4>2. QED
        BY <3>1, <4>1
    <3>3. QED
      BY <3>2, FunctionSeq
  <2>2. Len(w) \in 0 .. Len(w)
    BY <1>1
  <2>3. QED
    BY <2>1, <2>2, AppendProperties DEF n
<1> HIDE DEF r
<1>9. ASSUME NEW k \in 1 .. n PROVE r[k + 1] = next2[r[k]] /\ next2[r[k]] # r[k]
  <2>1. CASE k = n
    BY <1>1, <1>3, <1>6, <1>8, <2>1
  <2>2. CASE k # n
    <3>1. k \in 1 .. n - 1 /\ k + 1 \in 1 .. n
      BY <1>2, <2>2
    <3>2. q[k + 1] = next[q[k]] /\ next[q[k]] # q[k]
      BY <1>2, <3>1 DEF Path, n
    <3>3. next2[q[k]] = next[q[k]]
      BY <1>2, <1>5, <3>2
    <3>4. QED
      BY <1>8, <3>1, <3>2, <3>3
  <2>3. QED
    BY <2>1, <2>2
<1>10. Path(r, next2, 0)
  <2>1. Len(r) - 1 = n /\ Len(r) >= 1 /\ r[1] = 0 /\ r[Len(r)] = Len(w)
    BY <1>2, <1>8
  <2>2. QED
    BY <1>4, <1>7, <1>8, <1>9, <2>1 DEF Path
<1>11. r = Chain(next2, 0)
  BY <1>1, <1>10, FramePath, PathUnique DEF next2
<1>12. FramesFound(w) = [all |-> r[n + 1] = Len(w), payloads |-> [k \in 1 .. n |-> found(w, r[k])]]
  <2>1. Len(r) - 1 = n /\ Len(r) = n + 1
    BY <1>2, <1>8
  <2>2. QED
    BY <1>11, <2>1 DEF FramesFound, Last, next2, found
<1>13. [k \in 1 .. n |-> found(w, r[k])] = Append(g, p)
  <2> DEFINE f == [k \in 1 .. n |-> found(w, r[k])]
             a == Append(g, p)
  <2>1. Len(g) = n - 1
    BY <1>2, <1>3
  <2>2. /\ a \in Seq(Frame) /\ Len(a) = n /\ a[n] = p
        /\ \A k \in 1 .. n - 1 : a[k] = g[k]
    <3>1. Len(g) + 1 = n
      BY <1>2, <2>1
    <3>2. QED
      BY <2>1, <3>1, AppendProperties
  <2>3. ASSUME NEW k \in 1 .. n PROVE found(w, r[k]) = a[k]
    <3>1. CASE k = n
      BY <1>3, <1>6, <1>8, <2>2, <3>1
    <3>2. CASE k # n
      <4>1. k \in 1 .. n - 1
        BY <1>2, <3>2
      <4>2. next[q[k]] # q[k] /\ q[k] \in 0 .. Len(b)
        BY <1>2, <4>1 DEF Path, n
      <4>3. found(w, q[k]) = found(b, q[k])
        BY <1>5, <4>2
      <4>4. g[k] = found(b, q[k])
        BY <1>3, <4>1
      <4>5. QED
        BY <1>8, <2>2, <4>1, <4>3, <4>4
    <3>3. QED
      BY <3>1, <3>2
  <2>4. a = [k \in 1 .. n |-> a[k]]
    BY <2>2, LenProperties
  <2> HIDE DEF a
  <2>5. QED
    BY <2>3, <2>4 DEF a
<1>14. QED
  BY <1>8, <1>12, <1>13 DEF w

\* A message without a masking key.
PlainFrame(first, p, ext) == HeadWith(first, 0, Len(p), ext) \o p

LEMMA PlainBytes ==
    ASSUME NEW p \in Frame, NEW first \in {0, 130}, NEW ext \in LengthForms(Len(p)),
           NEW x, x = PlainFrame(first, p, ext), NEW h, h = 2 + ext
    PROVE  /\ x \in Seq(Byte) /\ Len(x) = h + Len(p) /\ x[1] = first /\ x[2] = Code(Len(p), ext)
           /\ \A k \in 1 .. ext : x[2 + k] = BeBytes(Len(p), ext)[k]
           /\ \A i \in 1 .. Len(p) : x[h + i] = p[i]
<1> DEFINE hd == HeadWith(first, 0, Len(p), ext)
           l == Len(p)
           e == BeBytes(l, ext)
           code == Code(l, ext)
<1>1. p \in Seq(Byte) /\ l \in Nat /\ l < 65536 /\ first \in Byte
  BY LenProperties DEF Frame, Byte
<1>2. ext \in {0, 2, 8} /\ code \in 0 .. 127
  BY <1>1, FormFacts
<1>3. /\ hd \in Seq(Byte) /\ Len(hd) = 2 + ext
      /\ hd[1] = first /\ hd[2] = 0 + code
      /\ \A k \in 1 .. ext : hd[2 + k] = e[k]
  <2> DEFINE mask == 0
             y == HeadWith(first, mask, l, ext)
  <2>1. mask \in {0, 128}
    OBVIOUS
  <2> HIDE DEF mask
  <2>2. /\ y \in Seq(Byte) /\ Len(y) = 2 + ext
        /\ y[1] = first /\ y[2] = mask + Code(l, ext)
        /\ \A k \in 1 .. ext : y[2 + k] = BeBytes(l, ext)[k]
    BY <1>1, <2>1, HeadBytes
  <2>3. QED
    BY <2>2 DEF mask
<1>4. x = hd \o p
  BY DEF PlainFrame
<1> HIDE DEF hd, e, code
<1>5. /\ x \in Seq(Byte) /\ Len(x) = Len(hd) + Len(p)
      /\ \A i \in 1 .. Len(hd) : x[i] = hd[i]
      /\ \A i \in 1 .. Len(p) : x[Len(hd) + i] = p[i]
  <2>1. hd \in Seq(Byte) /\ p \in Seq(Byte)
    BY <1>1, <1>3
  <2>2. QED
    BY <1>4, <2>1, ConcatBytes
<1>6. x[1] = first /\ x[2] = code
  <2>1. 1 \in 1 .. Len(hd) /\ 2 \in 1 .. Len(hd)
    BY <1>2, <1>3
  <2>2. x[1] = hd[1] /\ x[2] = hd[2]
    BY <1>5, <2>1
  <2>3. QED
    BY <1>2, <1>3, <2>2
<1>7. ASSUME NEW k \in 1 .. ext PROVE x[2 + k] = e[k]
  <2>1. 2 + k \in 1 .. Len(hd)
    BY <1>2, <1>3
  <2>2. QED
    BY <1>3, <1>5, <2>1
<1>8. Len(hd) = h
  BY <1>3
<1>9. Len(x) = h + Len(p) /\ \A i \in 1 .. Len(p) : x[h + i] = p[i]
  BY <1>5, <1>8
<1>10. QED
  BY <1>5, <1>6, <1>7, <1>9 DEF e, code

LEMMA PlainParsed ==
    ASSUME NEW p \in Frame, NEW first \in {0, 130}, NEW ext \in LengthForms(Len(p))
    PROVE  LET x == PlainFrame(first, p, ext)
               m == WebsocketParse(x)
           IN /\ x \in Seq(Byte) /\ m.verdict = "frame" /\ m.len = Len(x)
              /\ Payload(x, m) = p
<1> DEFINE x == PlainFrame(first, p, ext)
           m == WebsocketParse(x)
           h == 2 + ext
           l == Len(p)
           code == Code(l, ext)
           e == BeBytes(l, ext)
<1>1. p \in Seq(Byte) /\ l \in Nat /\ l < 65536
  BY LenProperties DEF Frame
<1>2. /\ x \in Seq(Byte) /\ Len(x) = h + l /\ x[1] = first /\ x[2] = code
      /\ \A k \in 1 .. ext : x[2 + k] = e[k]
      /\ \A i \in 1 .. l : x[h + i] = p[i]
  <2> HIDE DEF x, h
  <2>1. x = PlainFrame(first, p, ext) /\ h = 2 + ext
    BY DEF x, h
  <2>2. QED
    BY <2>1, PlainBytes
<1>3. /\ ext \in {0, 2, 8} /\ h \in Nat /\ h >= 2 /\ h = 2 + ext
      /\ code \in 0 .. 127
  <2>1. ext \in {0, 2, 8} /\ code \in 0 .. 127
    BY <1>1, FormFacts
  <2>2. QED
    BY <2>1
<1> HIDE DEF x, h, code, e
<1>4. ParsedAs(x, h, h + l)
  <2> DEFINE mask == 0
  <2>1. x[2] = 0 + Code(l, ext)
    <3>1. x[2] = code /\ code \in Nat
      BY <1>2, <1>3
    <3>2. x[2] = 0 + code
      BY <3>1
    <3>3. QED
      BY <3>2 DEF code
  <2>2. HeaderIs(x, mask, l, ext)
    BY <1>2, <2>1 DEF HeaderIs, e
  <2>3. mask \in {0, 128} /\ KeySize(mask) = 0 /\ x \in Seq(Byte)
    BY <1>2 DEF KeySize
  <2> HIDE DEF mask
  <2>4. ParsedAs(x, 2 + ext + KeySize(mask), 2 + ext + KeySize(mask) + l)
    BY <1>1, <2>2, <2>3, ParseForm
  <2>5. 2 + ext + KeySize(mask) = h
    BY <1>3, <2>3
  <2>6. QED
    BY <2>4, <2>5
<1> HIDE DEF l
<1>5. m = [header |-> h, len |-> h + l, verdict |-> "frame"]
  <2>1. ~(Len(x) < h + l)
    BY <1>1, <1>2, <1>3
  <2>2. Verdict(x[1]) = "frame"
    BY <1>2, Verdicts
  <2>3. QED
    BY <1>4, <2>1, <2>2 DEF ParsedAs
<1>6. ~(x[2] >= 128)
  BY <1>2, <1>3
<1>7. m.header = h /\ m.len = h + l /\ m.verdict = "frame"
  BY <1>5
<1> HIDE DEF m
<1>8. Payload(x, m) = SubSeq(x, h + 1, h + l)
  BY <1>6, <1>7 DEF Payload, HasMask
<1>9. SubSeq(x, h + 1, h + l) = p
  <2> DEFINE body == SubSeq(x, h + 1, h + l)
             a == h + 1
             z == h + l
  <2>1. a \in Nat /\ z \in Nat /\ a >= 1 /\ z <= Len(x) /\ z - a + 1 = l /\ (~(a <= z) => l = 0)
    BY <1>1, <1>2, <1>3
  <2>2. body = SubSeq(x, a, z)
    OBVIOUS
  <2> HIDE DEF body, z
  <2>3. /\ body \in Seq(Byte) /\ Len(body) = IF a <= z THEN z - a + 1 ELSE 0
        /\ \A i \in 1 .. z - a + 1 : body[i] = x[a + i - 1]
    <3> HIDE DEF a
    <3>1. QED
      BY <1>2, <2>1, <2>2, CutFacts
  <2>4. Len(body) = l
    BY <1>1, <2>1, <2>3
  <2>5. ASSUME NEW i \in 1 .. l PROVE body[i] = p[i]
    <3>1. a + i - 1 = h + i
      BY <1>3
    <3>2. body[i] = x[h + i]
      BY <2>1, <2>3, <3>1
    <3>3. QED
      BY <1>2, <3>2
  <2>6. body = p
    BY <1>1, <2>3, <2>4, <2>5, SeqEqual DEF l
  <2>7. QED
    BY <2>6 DEF body
<1>10. m.len = Len(x)
  BY <1>2, <1>7
<1>11. QED
  <2>1. x \in Seq(Byte) /\ m.verdict = "frame" /\ m.len = Len(x) /\ Payload(x, m) = p
    BY <1>2, <1>7, <1>8, <1>9, <1>10
  <2>2. QED
    BY <2>1 DEF m, x

\* What the server passes on is the message without its mask.
LEMMA ForwardedPlain ==
    ASSUME NEW c \in Seq(Byte), NEW b \in Seq(Byte), Begins(c, b),
           NEW p \in Frame, NEW ext \in LengthForms(Len(p)),
           LiesAt(b, 0, ClientFrame(p, ext)), Len(ClientFrame(p, ext)) <= Len(c),
           NEW m, m.header = 6 + ext, c[2] >= 128, Payload(c, m) = p
    PROVE  c[1] \in {0, 130} /\ Forwarded(c, m) = PlainFrame(c[1], p, ext)
<1> DEFINE x == ClientFrame(p, ext)
           h == 6 + ext
           l == Len(p)
           e == BeBytes(l, ext)
           code == Code(l, ext)
<1>1. p \in Seq(Byte) /\ l \in Nat /\ l < 65536 /\ Len(c) \in Nat
  BY LenProperties DEF Frame
<1>2. /\ Len(x) = h + l /\ x[1] = 130 /\ x[2] = 128 + code
      /\ \A k \in 1 .. ext : x[2 + k] = e[k]
  <2>1. FrameBytes(x, p, ext, h)
    BY ClientFrameBytes
  <2> HIDE DEF x, h
  <2>2. QED
    BY <2>1 DEF FrameBytes
<1>3. ext \in {0, 2, 8} /\ code \in 0 .. 127 /\ e \in Seq(Byte) /\ Len(e) = ext
  <2>1. ext \in {0, 2, 8} /\ code \in 0 .. 127
    BY <1>1, FormFacts
  <2>2. ext \in Nat
    BY <2>1
  <2>3. e \in Seq(Byte) /\ Len(e) = ext
    BY <1>1, <2>2, BeBytesFacts
  <2>4. QED
    BY <2>1, <2>3
<1>4. h = 6 + ext /\ h - 4 = 2 + ext
  BY <1>3
<1>5. Len(x) <= Len(c) /\ LiesAt(b, 0, x)
  OBVIOUS
<1> DEFINE k == SubSeq(c, 3, h - 4)
<1>6. Forwarded(c, m) = <<c[1], c[2] % 128>> \o k \o p
  BY DEF Forwarded, HasMask
<1> HIDE DEF x, h, l, e, code, k
<1>7. ASSUME NEW j \in 1 .. Len(x) PROVE c[j] = x[j] \/ (j = 1 /\ c[j] = 0)
  <2>1. 0 + j = j /\ j \in 1 .. Len(c)
    BY <1>1, <1>2, <1>3, <1>4, <1>5
  <2>2. \A o : o = 0 + j => b[o] = x[j] \/ (j = 1 /\ b[o] = 0)
    BY <1>5 DEF LiesAt
  <2>3. b[j] = x[j] \/ (j = 1 /\ b[j] = 0)
    BY <2>1, <2>2
  <2>4. QED
    BY <2>1, <2>3 DEF Begins
<1>8. c[1] \in {0, 130} /\ c[2] = 128 + code
  <2>1. 1 \in 1 .. Len(x) /\ 2 \in 1 .. Len(x)
    BY <1>1, <1>2, <1>3, <1>4
  <2>2. QED
    BY <1>2, <1>7, <2>1
<1>9. c[2] % 128 = 0 + code
  <2>1. \A n \in 0 .. 127 : (128 + n) % 128 = 0 + n
    OBVIOUS
  <2>2. QED
    BY <1>3, <1>8, <2>1
<1>10. ASSUME NEW i \in 1 .. ext PROVE c[2 + i] = e[i]
  <2>1. 2 + i \in 1 .. Len(x) /\ 2 + i # 1
    BY <1>1, <1>2, <1>3, <1>4
  <2>2. c[2 + i] = x[2 + i]
    BY <1>7, <2>1
  <2>3. QED
    BY <1>2, <2>2
<1>11. k = e
  <2> DEFINE a == 3
             z == 2 + ext
  <2>1. a \in Nat /\ z \in Nat /\ a >= 1 /\ z <= Len(c) /\ z - a + 1 = ext /\ (~(a <= z) => ext = 0)
    BY <1>1, <1>2, <1>3, <1>4, <1>5
  <2>2. k = SubSeq(c, a, z)
    BY <1>4 DEF k
  <2>3. /\ k \in Seq(Byte) /\ Len(k) = IF a <= z THEN z - a + 1 ELSE 0
        /\ \A i \in 1 .. z - a + 1 : k[i] = c[a + i - 1]
    <3> HIDE DEF a, z
    <3>1. QED
      BY <2>1, <2>2, CutFacts
  <2> HIDE DEF z
  <2>4. Len(k) = ext
    BY <1>3, <2>1, <2>3
  <2>5. ASSUME NEW i \in 1 .. ext PROVE k[i] = e[i]
    <3>1. a + i - 1 = 2 + i
      BY <1>3
    <3>2. k[i] = c[2 + i]
      BY <2>1, <2>3, <3>1
    <3>3. QED
      BY <1>10, <3>2
  <2>6. QED
    BY <1>3, <2>3, <2>4, <2>5, SeqEqual
<1>12. PlainFrame(c[1], p, ext) = <<c[1], 0 + code>> \o e \o p
  BY DEF PlainFrame, HeadWith, l, e, code
<1>13. QED
  BY <1>6, <1>8, <1>9, <1>11, <1>12

\* Every client in the switch finds all it was given in the bytes it got.
PeerInv == toPeer \in Seq(Byte) /\ given \in Seq(Frame) /\ PeerGetsFrames

LEMMA PeerInvInit == Init => PeerInv
<1> SUFFICES ASSUME Init PROVE PeerInv
  OBVIOUS
<1>1. toPeer = <<>> /\ given = <<>>
  BY DEF Init
<1>2. <<>> \in Seq(Byte) /\ <<>> \in Seq(Frame) /\ Len(<<>>) = 0
  OBVIOUS
<1> DEFINE b == <<>>
           q == <<0>>
<1>3. b \in Seq(Byte) /\ Len(b) = 0
  BY <1>2
<1> HIDE DEF b
<1>4. FrameNext(b)[0] = 0 /\ 0 \in DOMAIN FrameNext(b)
  <2>1. 0 \in 0 .. Len(b)
    BY <1>3
  <2>2. FrameNext(b)[0] \in 0 .. 0 /\ 0 \in DOMAIN FrameNext(b)
    BY <1>3, <2>1, FramesForwards DEF Forwards
  <2>3. QED
    BY <2>2
<1>5. q \in Seq(DOMAIN FrameNext(b)) /\ Len(q) = 1 /\ q[1] = 0
  BY <1>4
<1> HIDE DEF q
<1>6. Path(q, FrameNext(b), 0)
  BY <1>4, <1>5 DEF Path
<1>7. q = Chain(FrameNext(b), 0)
  BY <1>3, <1>6, FramePath, PathUnique
<1>8. FramesFound(b) =
        [all |-> q[Len(q)] = Len(b),
         payloads |-> [k \in 1 .. Len(q) - 1 |->
                         Payload(From(b, q[k] + 1), WebsocketParse(From(b, q[k] + 1)))]]
  BY <1>7 DEF FramesFound, Last
<1>9. [k \in 1 .. Len(q) - 1 |->
         Payload(From(b, q[k] + 1), WebsocketParse(From(b, q[k] + 1)))] = <<>>
  BY <1>5
<1>10. q[Len(q)] = Len(b)
  BY <1>3, <1>5
<1>11. FramesFound(b) = [all |-> TRUE, payloads |-> <<>>]
  BY <1>8, <1>9, <1>10
<1>12. QED
  BY <1>1, <1>2, <1>11 DEF PeerInv, PeerGetsFrames, b

LEMMA PeerInvAdds ==
    ASSUME PeerInv, NEW p \in Frame, NEW first \in {0, 130}, NEW ext \in LengthForms(Len(p)),
           toPeer' = toPeer \o PlainFrame(first, p, ext), given' = Append(given, p)
    PROVE  PeerInv'
<1> DEFINE x == PlainFrame(first, p, ext)
<1>1. /\ x \in Seq(Byte) /\ WebsocketParse(x).verdict = "frame"
      /\ WebsocketParse(x).len = Len(x) /\ Payload(x, WebsocketParse(x)) = p
  BY PlainParsed
<1> HIDE DEF x
<1>2. /\ toPeer \in Seq(Byte) /\ given \in Seq(Frame)
      /\ FramesFound(toPeer) = [all |-> TRUE, payloads |-> given]
  BY DEF PeerInv, PeerGetsFrames
<1>3. FramesFound(toPeer \o x) = [all |-> TRUE, payloads |-> Append(given, p)]
  BY <1>1, <1>2, FrameAdded
<1>4. toPeer \o x \in Seq(Byte) /\ Append(given, p) \in Seq(Frame)
  BY <1>1, <1>2, ConcatBytes, AppendProperties
<1>5. toPeer' = toPeer \o x
  BY DEF x
<1>6. QED
  BY <1>3, <1>4, <1>5 DEF PeerInv, PeerGetsFrames

LEMMA PeerInvNext == WInv /\ PeerInv /\ [Next]_vars => PeerInv'
<1> SUFFICES ASSUME WInv, PeerInv, [Next]_vars PROVE PeerInv'
  OBVIOUS
<1>1. CASE toPeer' = toPeer /\ given' = given
  BY <1>1 DEF PeerInv, PeerGetsFrames
<1>2. CASE HandleFrame
  <2> DEFINE m == WebsocketParse(buf)
  <2>1. CASE UNCHANGED <<toPeer, given>>
    BY <1>1, <2>1
  <2>2. ASSUME HasEthernet(buf, m), toPeer' = toPeer \o Forwarded(buf, m),
               given' = Append(given, Head(queue))
        PROVE  PeerInv'
    <3>1. /\ state = "open" /\ m.verdict = "frame" /\ m # Incomplete
          /\ toPeer' = toPeer \o Forwarded(buf, m) /\ given' = Append(given, Head(queue))
      BY <1>2, <2>2 DEF HandleFrame, Incomplete
    <3>2. queue # <<>>
      BY <3>1, MessageTaken
    <3> DEFINE p == queue[1]
    <3>3. PICK x \in SentAs(p) :
            /\ p \in Frame /\ LiesAt(Whole, 0, x)
            /\ Len(buf) < Len(x) => m = Incomplete
            /\ CarriesFrame(x, p, m)
            /\ buf[2] >= 128 /\ Payload(buf, m) = p
      BY <2>2, <3>1, <3>2, FirstMessage
    <3>4. /\ Whole \in Seq(Byte) /\ Len(buf) \in Nat /\ Begins(buf, Whole) /\ buf \in Seq(Byte)
      BY WholeFacts DEF WInv, Types
    <3>5. Head(queue) = p
      BY DEF WInv, Types
    <3> HIDE DEF p, m
    <3>6. PICK ext \in LengthForms(Len(p)) : x = ClientFrame(p, ext) /\ m.header = 6 + ext
      BY <3>3 DEF CarriesFrame
    <3>7. LiesAt(Whole, 0, ClientFrame(p, ext)) /\ Len(ClientFrame(p, ext)) <= Len(buf)
      <4>1. Len(x) \in Nat
        BY <3>3, SentBytes
      <4>2. QED
        BY <3>1, <3>3, <3>4, <3>6, <4>1
    <3>8. buf[1] \in {0, 130} /\ Forwarded(buf, m) = PlainFrame(buf[1], p, ext)
      BY <3>3, <3>4, <3>6, <3>7, ForwardedPlain
    <3>9. QED
      BY <3>1, <3>3, <3>5, <3>8, PeerInvAdds
  <2>3. QED
    BY <1>2, <2>1, <2>2 DEF HandleFrame
<1>3. CASE \E p \in TapPayloads : TapFrame(p)
  <2>1. PICK p \in TapPayloads : TapFrame(p)
    BY <1>3
  <2> DEFINE ext == Shortest(Len(p))
  <2>2. /\ ServerFrame(p) = PlainFrame(130, p, ext) /\ p \in Frame /\ 130 \in {0, 130}
        /\ ext \in LengthForms(Len(p))
    BY FramesGiven DEF ServerFrame, FrameHead, PlainFrame, HeadWith, Code, LengthForms
  <2>3. toPeer' = toPeer \o PlainFrame(130, p, ext) /\ given' = Append(given, p)
    BY <2>1, <2>2 DEF TapFrame
  <2>4. QED
    BY <2>2, <2>3, PeerInvAdds
<1>4. CASE Control
  BY <1>1, <1>4 DEF Control, history
<1>5. CASE \E n \in ChunkSizes : Arrive(n)
  BY <1>1, <1>5 DEF Arrive, history
<1>6. CASE Handshake
  BY <1>1, <1>6 DEF Handshake, history
<1>7. CASE ReplyWritten \/ HandlePing \/ HandleClose
  BY <1>1, <1>7 DEF ReplyWritten, HandlePing, HandleClose, history
<1>8. CASE \E p \in Payloads : \E ext \in LengthForms(Len(p)) : SendFrame(p, ext)
  BY <1>1, <1>8 DEF SendFrame, ClientSends
<1>9. CASE \E bytes \in {ClientPing, CloseMessage} : SendControl(bytes)
  BY <1>1, <1>9 DEF SendControl, ClientSends
<1>10. CASE UNCHANGED vars
  BY <1>1, <1>10 DEF vars
<1>11. QED
  BY <1>2, <1>3, <1>4, <1>5, <1>6, <1>7, <1>8, <1>9, <1>10 DEF Next, Tunnelling

\* Another client, which goes from message to message in the bytes it is sent,
\* finds exactly the frames it was to get and uses every byte, the ones with the
\* header that the server made shorter and the ones with one of its own.
THEOREM PeerGetsFramesAlways == Spec => []PeerGetsFrames
<1>1. Init => PeerInv
  BY PeerInvInit
<1>2. WInv /\ PeerInv /\ [Next]_vars => PeerInv'
  BY PeerInvNext
<1>3. PeerInv => PeerGetsFrames
  BY DEF PeerInv
<1>4. QED
  BY <1>1, <1>2, <1>3, WireInvariant, PTL DEF Spec

-----------------------------------------------------------------------------
(* What is parsed of a request is what was packed *)

LEMMA VarLayout ==
    ASSUME NEW var \in Variable
    PROVE  LET x == UwsgiVar(var)
               l == Len(var.key)
               m == Len(var.value)
           IN /\ x[1] = l % 256 /\ x[2] = l \div 256
              /\ \A i \in 1 .. l : x[2 + i] = var.key[i]
              /\ x[2 + l + 1] = m % 256 /\ x[2 + l + 2] = m \div 256
              /\ \A i \in 1 .. m : x[4 + l + i] = var.value[i]
<1> DEFINE key == var.key
           value == var.value
           l == Len(key)
           m == Len(value)
           p == LeBytes(l)
           q == LeBytes(m)
           a == p \o key
           b == a \o q
           x == UwsgiVar(var)
<1>1. /\ key \in Seq(Byte) /\ value \in Seq(Byte)
      /\ l \in Nat /\ l < 65536 /\ m \in Nat /\ m < 65536
  BY LenProperties DEF Variable
<1>2. ASSUME NEW n \in Nat, n < 65536
      PROVE  /\ LeBytes(n) \in Seq(Byte) /\ Len(LeBytes(n)) = 2
             /\ LeBytes(n)[1] = n % 256 /\ LeBytes(n)[2] = n \div 256
  <2>1. n \div 256 \in Byte /\ n % 256 \in Byte
    BY <1>2, LengthSplit DEF Byte
  <2>2. QED
    BY <2>1 DEF LeBytes
<1>3. /\ p \in Seq(Byte) /\ Len(p) = 2 /\ p[1] = l % 256 /\ p[2] = l \div 256
      /\ q \in Seq(Byte) /\ Len(q) = 2 /\ q[1] = m % 256 /\ q[2] = m \div 256
  <2> HIDE DEF l, m
  <2>1. p \in Seq(Byte) /\ Len(p) = 2 /\ p[1] = l % 256 /\ p[2] = l \div 256
    <3>1. l \in Nat /\ l < 65536
      BY <1>1
    <3>2. QED
      BY <1>2, <3>1
  <2>2. q \in Seq(Byte) /\ Len(q) = 2 /\ q[1] = m % 256 /\ q[2] = m \div 256
    <3>1. m \in Nat /\ m < 65536
      BY <1>1
    <3>2. QED
      BY <1>2, <3>1
  <2>3. QED
    BY <2>1, <2>2
<1>4. x = b \o value
  BY DEF UwsgiVar
<1> HIDE DEF x, p, q
<1>5. /\ a \in Seq(Byte) /\ Len(a) = 2 + l
      /\ \A i \in 1 .. 2 : a[i] = p[i]
      /\ \A i \in 1 .. l : a[2 + i] = key[i]
  <2>1. p \in Seq(Byte) /\ key \in Seq(Byte)
    BY <1>1, <1>3
  <2>2. /\ a \in Seq(Byte) /\ Len(a) = Len(p) + l
        /\ \A i \in 1 .. Len(p) : a[i] = p[i]
        /\ \A i \in 1 .. l : a[Len(p) + i] = key[i]
    BY <2>1, ConcatBytes
  <2>3. QED
    BY <1>3, <2>2
<1> HIDE DEF a
<1>6. /\ b \in Seq(Byte) /\ Len(b) = 4 + l
      /\ \A i \in 1 .. 2 + l : b[i] = a[i]
      /\ \A i \in 1 .. 2 : b[2 + l + i] = q[i]
  <2>1. a \in Seq(Byte) /\ q \in Seq(Byte)
    BY <1>3, <1>5
  <2>2. /\ b \in Seq(Byte) /\ Len(b) = Len(a) + Len(q)
        /\ \A i \in 1 .. Len(a) : b[i] = a[i]
        /\ \A i \in 1 .. Len(q) : b[Len(a) + i] = q[i]
    BY <2>1, ConcatBytes
  <2> HIDE DEF b, l
  <2>3. Len(b) = 4 + l
    BY <1>1, <1>3, <1>5, <2>2
  <2>4. QED
    BY <1>3, <1>5, <2>2, <2>3
<1> HIDE DEF b
<1>7. /\ \A i \in 1 .. 4 + l : x[i] = b[i]
      /\ \A i \in 1 .. m : x[4 + l + i] = value[i]
  <2>1. b \in Seq(Byte) /\ value \in Seq(Byte)
    BY <1>1, <1>6
  <2>2. /\ \A i \in 1 .. Len(b) : x[i] = b[i]
        /\ \A i \in 1 .. Len(value) : x[Len(b) + i] = value[i]
    BY <1>4, <2>1, ConcatBytes
  <2>3. QED
    BY <1>6, <2>2
<1> HIDE DEF l, m
<1>8. x[1] = l % 256 /\ x[2] = l \div 256
  <2>1. 1 \in 1 .. 2 /\ 2 \in 1 .. 2 /\ \A i \in 1 .. 2 : i \in 1 .. 2 + l /\ i \in 1 .. 4 + l
    BY <1>1
  <2>2. x[1] = a[1] /\ x[2] = a[2] /\ a[1] = p[1] /\ a[2] = p[2]
    BY <1>5, <1>6, <1>7, <2>1
  <2>3. QED
    BY <1>3, <2>2
<1>9. ASSUME NEW i \in 1 .. l PROVE x[2 + i] = key[i]
  <2>1. 2 + i \in 1 .. 2 + l /\ 2 + i \in 1 .. 4 + l
    BY <1>1
  <2>2. QED
    BY <1>5, <1>6, <1>7, <2>1
<1>10. x[2 + l + 1] = m % 256 /\ x[2 + l + 2] = m \div 256
  <2>1. 1 \in 1 .. 2 /\ 2 \in 1 .. 2 /\ \A i \in 1 .. 2 : 2 + l + i \in 1 .. 4 + l
    BY <1>1
  <2>2. \A i \in 1 .. 2 : x[2 + l + i] = q[i]
    BY <1>6, <1>7, <2>1
  <2>3. x[2 + l + 1] = q[1] /\ x[2 + l + 2] = q[2]
    BY <2>1, <2>2
  <2>4. QED
    BY <1>3, <2>3
<1>11. QED
  BY <1>7, <1>8, <1>9, <1>10 DEF x, l, m

\* In the bytes of the first n variables, each is where it was appended.
LEMMA BuiltLayout ==
    ASSUME NEW v \in Seq(Variable), NEW f, Builds(f, v)
    PROVE  \A n \in 0 .. Len(v) : \A k \in 1 .. n :
             /\ Len(f[k]) <= Len(f[n])
             /\ \A i \in 1 .. Len(UwsgiVar(v[k])) : f[n][Len(f[k - 1]) + i] = UwsgiVar(v[k])[i]
<1> DEFINE x(k) == UwsgiVar(v[k])
           Good(n, k) == /\ Len(f[k]) <= Len(f[n])
                         /\ \A i \in 1 .. Len(x(k)) : f[n][Len(f[k - 1]) + i] = x(k)[i]
           T == {n \in 0 .. Len(v) : ~\A k \in 1 .. n : Good(n, k)}
<1>1. Len(v) \in Nat
  BY LenProperties
<1>2. ASSUME NEW n \in 1 .. Len(v)
      PROVE  /\ x(n) \in Seq(Byte) /\ Len(x(n)) \in Nat /\ f[n - 1] \in Seq(Byte) /\ f[n] \in Seq(Byte)
             /\ Len(f[n - 1]) \in Nat /\ Len(f[n]) = Len(f[n - 1]) + Len(x(n))
             /\ \A i \in 1 .. Len(f[n - 1]) : f[n][i] = f[n - 1][i]
             /\ \A i \in 1 .. Len(x(n)) : f[n][Len(f[n - 1]) + i] = x(n)[i]
  <2>1. v[n] \in Variable
    BY ElementOfSeq
  <2>2. n \in 0 .. Len(v) /\ n - 1 \in 0 .. Len(v)
    BY <1>1
  <2>3. f[n] = f[n - 1] \o x(n) /\ f[n - 1] \in Seq(Byte) /\ f[n] \in Seq(Byte)
    BY <2>2 DEF Builds
  <2>4. x(n) \in Seq(Byte)
    BY <2>1, VarBytes
  <2> HIDE DEF x
  <2>5. f[n - 1] \in Seq(Byte)
    BY <2>3
  <2>6. /\ Len(f[n]) = Len(f[n - 1]) + Len(x(n))
        /\ \A i \in 1 .. Len(f[n - 1]) : f[n][i] = f[n - 1][i]
        /\ \A i \in 1 .. Len(x(n)) : f[n][Len(f[n - 1]) + i] = x(n)[i]
    BY <2>3, <2>4, <2>5, ConcatBytes
  <2>7. QED
    BY <2>3, <2>4, <2>6, LenProperties
<1> HIDE DEF x, Good
<1>3. SUFFICES ASSUME T # {} PROVE FALSE
  BY DEF Good, x
<1>4. T \in SUBSET Nat
  BY <1>1
<1>5. PICK n \in T : \A m \in T : n <= m
  BY <1>3, <1>4, Least
<1>6. PICK k \in 1 .. n : ~Good(n, k)
  BY <1>5
<1>7. n \in 1 .. Len(v) /\ n - 1 \in 0 .. Len(v) /\ ~(n <= n - 1) /\ k \in 1 .. Len(v)
  BY <1>1, <1>6
<1>8. CASE k = n
  <2>1. Len(f[n]) <= Len(f[n])
    BY <1>2, <1>7
  <2>2. QED
    BY <1>2, <1>6, <1>7, <1>8, <2>1 DEF Good
<1>9. CASE k # n
  <2>1. k \in 1 .. n - 1
    BY <1>6, <1>7, <1>9
  <2>2. n - 1 \notin T
    BY <1>5, <1>7
  <2>3. Good(n - 1, k)
    BY <1>7, <2>1, <2>2
  <2>4. Len(f[k]) <= Len(f[n - 1])
    BY <2>3 DEF Good
  <2>5. /\ Len(f[k]) = Len(f[k - 1]) + Len(x(k)) /\ Len(f[k - 1]) \in Nat /\ Len(x(k)) \in Nat
    BY <1>2, <1>7
  <2>6. Len(f[n]) = Len(f[n - 1]) + Len(x(n)) /\ Len(f[n - 1]) \in Nat /\ Len(x(n)) \in Nat
    BY <1>2, <1>7
  <2>7. ASSUME NEW i \in 1 .. Len(x(k)) PROVE f[n][Len(f[k - 1]) + i] = x(k)[i]
    <3>1. Len(f[k - 1]) + i \in 1 .. Len(f[n - 1])
      BY <2>4, <2>5, <2>6
    <3>2. f[n][Len(f[k - 1]) + i] = f[n - 1][Len(f[k - 1]) + i]
      BY <1>2, <1>7, <3>1
    <3>3. f[n - 1][Len(f[k - 1]) + i] = x(k)[i]
      BY <2>3 DEF Good
    <3>4. QED
      BY <3>2, <3>3
  <2>8. Len(f[k]) <= Len(f[n])
    BY <2>4, <2>5, <2>6
  <2>9. QED
    BY <1>6, <2>7, <2>8 DEF Good
<1>10. QED
  BY <1>8, <1>9

\* The variables of v lie in the request at the start of b, each behind its place in
\* s, but for the NULs that the handshake puts behind the pairs of an address: one
\* of them may take the place of the lower byte of a length.
VarHeader(b, o, var) ==
    /\ b[o + 1] = Len(var.key) % 256 \/ (b[o + 1] = 0 /\ Len(var.key) < 256)
    /\ b[o + 2] = Len(var.key) \div 256
    /\ \A i \in 1 .. Len(var.key) : b[o + 2 + i] = var.key[i]
    /\ b[o + 2 + Len(var.key) + 1] = Len(var.value) % 256
    /\ b[o + 2 + Len(var.key) + 2] = Len(var.value) \div 256

ValueAt(b, o, var) ==
    \A i \in 1 .. Len(var.value) :
        \/ b[o + 4 + Len(var.key) + i] = var.value[i]
        \/ var.key = MacVar /\ Len(var.value) = MacVarLength /\ i \in {3, 6, 9, 12, 15}

Places(s, v) ==
    /\ s \in [1 .. Len(v) + 1 -> Nat] /\ s[1] = 4
    /\ \A k \in 1 .. Len(v) : s[k + 1] = s[k] + 4 + Len(v[k].key) + Len(v[k].value)
    /\ \A k \in 1 .. Len(v) + 1 : \A j \in 1 .. k : s[j] <= s[k]

Holds(b, s, v) ==
    /\ Places(s, v) /\ UwsgiSize(b) = s[Len(v) + 1] /\ s[Len(v) + 1] <= Len(b)
    /\ \A k \in 1 .. Len(v) : VarHeader(b, s[k], v[k]) /\ ValueAt(b, s[k], v[k])

\* One turn of the loop: it gets to the next variable, unless it stops for good.
LEMMA OneTurn ==
    ASSUME NEW b \in Seq(Byte), UwsgiArrived(b), NEW v \in Seq(Variable), NEW s, Holds(b, s, v),
           NEW k \in 1 .. Len(v), s[k] \in 4 .. UwsgiSize(b), UwsgiNext(b)[s[k]] # s[k]
    PROVE  LET o == s[k]
               l == Len(v[k].key)
           IN /\ Le16(b, o + 1) = l /\ Le16(b, o + 2 + l + 1) = Len(v[k].value)
              /\ UwsgiNext(b)[o] = s[k + 1]
<1> DEFINE o == s[k]
           var == v[k]
           l == Len(var.key)
           m == Len(var.value)
           next == UwsgiNext(b)
<1>1. /\ l \in Nat /\ l < 65536 /\ m \in Nat /\ m < 65536 /\ var \in Variable
  <2>1. var \in Variable
    BY ElementOfSeq
  <2>2. QED
    BY <2>1, LenProperties DEF Variable
<1>2. /\ next[o] # o => /\ Le16(b, o + 1) \in Nat /\ Le16(b, o + 1) # 0
                        /\ next[o] = o + 2 + Le16(b, o + 1) + 2 + Le16(b, o + 2 + Le16(b, o + 1) + 1)
  <2> HIDE DEF o
  <2>1. o \in 4 .. UwsgiSize(b)
    BY DEF o
  <2>2. QED
    BY <2>1, LoopForwards
<1>3. VarHeader(b, o, var) /\ s[k + 1] = o + 4 + l + m /\ o \in Nat
  <2>1. UwsgiSize(b) \in Nat
    BY LoopForwards
  <2>2. QED
    BY <2>1 DEF Holds, Places
<1>4. /\ (l % 256) + 256 * (l \div 256) = l /\ (l < 256 => l \div 256 = 0)
      /\ (m % 256) + 256 * (m \div 256) = m
  <2> HIDE DEF l, m
  <2>1. QED
    BY <1>1
<1>5. Le16(b, o + 1) = b[o + 1] + 256 * b[o + 2]
  <2>1. o + 1 + 1 = o + 2
    BY <1>3
  <2>2. QED
    BY <2>1 DEF Le16
<1>6. next[o] # o
  OBVIOUS
<1>7. Le16(b, o + 1) = l
  <2>1. CASE b[o + 1] = l % 256
    <3>1. b[o + 2] = l \div 256
      BY <1>3 DEF VarHeader
    <3>2. QED
      BY <1>4, <1>5, <2>1, <3>1
  <2>2. CASE b[o + 1] = 0 /\ l < 256
    <3>1. b[o + 2] = 0
      <4>1. b[o + 2] = l \div 256
        BY <1>3 DEF VarHeader
      <4>2. l \div 256 = 0
        BY <1>4, <2>2
      <4>3. QED
        BY <4>1, <4>2
    <3>2. Le16(b, o + 1) = 0
      BY <1>5, <2>2, <3>1
    <3>3. QED
      BY <1>2, <1>6, <3>2
  <2>3. QED
    BY <1>3, <2>1, <2>2 DEF VarHeader
<1>8. Le16(b, o + 2 + l + 1) = m
  <2>1. b[o + 2 + l + 1] = m % 256 /\ b[o + 2 + l + 2] = m \div 256
    BY <1>3 DEF VarHeader
  <2>2. o + 2 + l + 1 + 1 = o + 2 + l + 2
    BY <1>1, <1>3
  <2>3. Le16(b, o + 2 + l + 1) = b[o + 2 + l + 1] + 256 * b[o + 2 + l + 2]
    BY <2>2 DEF Le16
  <2>4. QED
    BY <1>4, <2>1, <2>3
<1> HIDE DEF o, l, m, var, next
<1>9. next[o] = o + 2 + l + 2 + m
  BY <1>2, <1>6, <1>7, <1>8
<1>10. next[o] = s[k + 1]
  BY <1>1, <1>3, <1>9
<1>11. QED
  BY <1>7, <1>8, <1>10 DEF o, l, m, var, next

\* The variables that are found are the first ones of the request, in their places.
LEMMA FoundThere ==
    ASSUME NEW b \in Seq(Byte), UwsgiArrived(b), NEW v \in Seq(Variable), NEW s, Holds(b, s, v)
    PROVE  LET q == Chain(UwsgiNext(b), 4)
               w == UwsgiParse(b).vars
           IN /\ Len(q) \in Nat /\ Len(q) >= 1 /\ \A k \in 1 .. Len(q) : k <= Len(v) + 1 /\ q[k] = s[k]
              /\ DOMAIN w = 1 .. Len(q) - 1
              /\ \A k \in 1 .. Len(q) - 1 :
                   /\ k \in 1 .. Len(v) /\ w[k].key = v[k].key
                   /\ w[k].at = s[k] + 4 + Len(v[k].key) + 1 /\ w[k].len = Len(v[k].value)
<1> DEFINE n == UwsgiSize(b)
           next == UwsgiNext(b)
           q == Chain(next, 4)
           w == UwsgiParse(b).vars
           T == {k \in 1 .. Len(q) : ~(k <= Len(v) + 1 /\ q[k] = s[k])}
<1>1. Path(q, next, 4) /\ Len(q) \in Nat /\ DOMAIN w = 1 .. Len(q) - 1
  BY RequestParsed
<1>2. Len(v) \in Nat /\ n \in Nat /\ n >= 4 /\ n <= Len(b) /\ Forwards(next, 4, n)
  BY LoopForwards, LenProperties
<1>3. w = [k \in 1 .. Len(q) - 1 |->
             [key |-> SubSeq(b, q[k] + 3, q[k] + 2 + Le16(b, q[k] + 1)),
              at |-> q[k] + 2 + Le16(b, q[k] + 1) + 3,
              len |-> Le16(b, q[k] + 2 + Le16(b, q[k] + 1) + 1)]]
  BY DEF UwsgiParse
<1>4. next[n] = n
  <2>1. n \in 4 .. n /\ ~(n + 2 <= n)
    BY <1>2
  <2>2. QED
    BY <2>1 DEF UwsgiNext
<1> HIDE DEF w
<1>5. Len(q) >= 1 /\ q[1] = 4 /\ \A k \in 1 .. Len(q) : q[k] \in 4 .. n
  <2>1. DOMAIN next = 4 .. n
    BY <1>2 DEF Forwards
  <2>2. QED
    BY <1>1, <2>1, ElementOfSeq DEF Path
<1>6. s[1] = 4 /\ s[Len(v) + 1] = n /\ 1 <= Len(v) + 1
  BY <1>2 DEF Holds, Places
<1> HIDE DEF q, n, next
<1>7. T = {}
  <2>1. SUFFICES ASSUME T # {} PROVE FALSE
    OBVIOUS
  <2>2. T \in SUBSET Nat
    BY <1>1
  <2>3. PICK k \in T : \A j \in T : k <= j
    BY <2>1, <2>2, Least
  <2>4. k \in 1 .. Len(q) /\ ~(k <= Len(v) + 1 /\ q[k] = s[k])
    OBVIOUS
  <2>5. k # 1
    BY <1>5, <1>6, <2>4
  <2>6. k - 1 \in 1 .. Len(q) /\ k - 1 \in 1 .. Len(q) - 1 /\ ~(k <= k - 1) /\ (k - 1) + 1 = k
    BY <1>1, <2>4, <2>5
  <2>7. k - 1 <= Len(v) + 1 /\ q[k - 1] = s[k - 1]
    BY <2>3, <2>6
  <2>8. q[k] = next[q[k - 1]] /\ next[q[k - 1]] # q[k - 1]
    BY <1>1, <2>6 DEF Path
  <2>9. k - 1 # Len(v) + 1
    BY <1>4, <1>6, <2>7, <2>8
  <2>10. k - 1 \in 1 .. Len(v) /\ k <= Len(v) + 1
    BY <1>2, <2>4, <2>5, <2>7, <2>9
  <2> DEFINE j == k - 1
  <2>11. j \in 1 .. Len(v) /\ s[j] \in 4 .. n /\ next[s[j]] # s[j] /\ j + 1 = k
    BY <1>5, <2>6, <2>7, <2>8, <2>10
  <2> HIDE DEF j
  <2>12. next[s[j]] = s[j + 1]
    BY <2>11, OneTurn DEF n, next
  <2>13. q[k] = s[k]
    BY <2>7, <2>8, <2>11, <2>12 DEF j
  <2>14. QED
    BY <2>4, <2>10, <2>13
<1>8. \A k \in 1 .. Len(q) : k <= Len(v) + 1 /\ q[k] = s[k]
  BY <1>7
<1>9. ASSUME NEW k \in 1 .. Len(q) - 1
      PROVE  /\ k \in 1 .. Len(v) /\ w[k].key = v[k].key
             /\ w[k].at = s[k] + 4 + Len(v[k].key) + 1 /\ w[k].len = Len(v[k].value)
  <2> DEFINE o == s[k]
             l == Len(v[k].key)
             key == SubSeq(b, o + 3, o + 2 + l)
  <2>1. k \in 1 .. Len(q) /\ k + 1 \in 1 .. Len(q)
    BY <1>1
  <2>2. k \in 1 .. Len(v)
    BY <1>2, <1>8, <2>1
  <2>3. s[k] \in 4 .. n /\ next[s[k]] # s[k] /\ q[k] = s[k]
    BY <1>1, <1>5, <1>8, <2>1 DEF Path
  <2>4. Le16(b, o + 1) = l /\ Le16(b, o + 2 + l + 1) = Len(v[k].value) /\ next[o] = s[k + 1]
    BY <2>2, <2>3, OneTurn DEF n, next
  <2>5. /\ w[k].key = key
        /\ w[k].at = o + 2 + l + 3 /\ w[k].len = Len(v[k].value)
    BY <1>3, <2>3, <2>4
  <2>6. v[k].key \in Seq(Byte) /\ l \in Nat /\ Len(v[k].value) \in Nat
    <3>1. v[k] \in Variable
      BY <2>2, ElementOfSeq
    <3>2. v[k].key \in Seq(Byte) /\ v[k].value \in Seq(Byte)
      BY <3>1 DEF Variable
    <3>3. QED
      BY <3>2, LenProperties
  <2>7. s[k + 1] <= n /\ s[k + 1] = o + 4 + l + Len(v[k].value)
    <3>1. Len(v) + 1 \in 1 .. Len(v) + 1 /\ k + 1 \in 1 .. Len(v) + 1
      BY <1>2, <2>2
    <3>2. QED
      BY <1>6, <2>2, <3>1 DEF Holds, Places
  <2>8. \A i \in 1 .. l : b[o + 2 + i] = v[k].key[i]
    BY <2>2 DEF Holds, VarHeader
  <2>9. key = v[k].key
    <3> DEFINE i0 == o + 3
               j0 == o + 2 + l
    <3>13. o \in Nat /\ Len(b) \in Nat
      BY <1>2, <2>3, LenProperties
    <3> DEFINE m == Len(v[k].value)
               e == s[k + 1]
    <3>15. l \in Nat /\ m \in Nat /\ e = o + 4 + l + m /\ e <= n /\ n <= Len(b) /\ n \in Nat
      BY <1>2, <2>6, <2>7
    <3> HIDE DEF o, l, m, e
    <3>14. l \in Nat /\ o + 4 + l + m <= Len(b)
      BY <3>13, <3>15
    <3>1. i0 \in Int /\ j0 \in Int /\ o \in Nat /\ i0 >= 1 /\ j0 <= Len(b) /\ Len(b) \in Nat
      BY <3>13, <3>14, <3>15
    <3>2. \A i \in i0 .. j0 : i \in 1 .. Len(b)
      BY <3>1
    <3>3. \A i \in i0 .. j0 : b[i] \in Byte
      BY <3>2, ElementOfSeq
    <3>4. key = SubSeq(b, i0, j0)
      OBVIOUS
    <3>5. i0 <= j0 + 1 /\ j0 - i0 + 1 = l /\ (i0 <= j0 => l > 0) /\ (~(i0 <= j0) => l = 0)
      BY <3>13, <3>14
    <3>6. \A i \in 1 .. l : i0 + i - 1 = o + 2 + i
      BY <3>1
    <3> HIDE DEF key, i0, j0
    <3>7. /\ key \in Seq(Byte) /\ Len(key) = (IF i0 <= j0 THEN j0 - i0 + 1 ELSE 0)
          /\ \A i \in 1 .. j0 - i0 + 1 : key[i] = b[i0 + i - 1]
      BY <3>1, <3>3, <3>4, SubSeqProperties
    <3>8. Len(key) = l
      BY <3>5, <3>7
    <3>9. ASSUME NEW i \in 1 .. l PROVE key[i] = v[k].key[i]
      <4>1. key[i] = b[i0 + i - 1] /\ i0 + i - 1 = o + 2 + i
        BY <3>5, <3>6, <3>7
      <4>2. b[o + 2 + i] = v[k].key[i]
        BY <2>8 DEF o, l
      <4>3. QED
        BY <4>1, <4>2
    <3>10. key \in Seq(Byte) /\ v[k].key \in Seq(Byte) /\ Len(key) = Len(v[k].key)
      BY <2>6, <3>7, <3>8 DEF l
    <3>11. \A i \in 1 .. Len(key) : key[i] = v[k].key[i]
      BY <3>8, <3>9
    <3>12. QED
      BY <3>10, <3>11, SeqEqual
  <2>10. w[k].at = o + 4 + l + 1
    <3>1. o \in Nat
      BY <1>2, <2>3
    <3>4. l \in Nat
      BY <2>6
    <3> HIDE DEF o, l
    <3>2. o + 2 + l + 3 = o + 4 + l + 1
      BY <3>1, <3>4
    <3>3. QED
      BY <2>5, <3>2
  <2>11. QED
    BY <2>2, <2>5, <2>9, <2>10
<1>10. QED
  BY <1>1, <1>5, <1>8, <1>9 DEF n, next, q, w

\* What the web server sends holds its variables.
LEMMA PackedHolds ==
    ASSUME NEW v \in AllRequests, NEW modifier1 \in Byte
    PROVE  \E s : Holds(UwsgiPacket(modifier1, v), s, v)
<1> DEFINE b == UwsgiPacket(modifier1, v)
           w == UwsgiVars(v)
           N == Len(v)
<1>1. v \in Seq(Variable)
  BY RequestSizes
<1>2. PICK f : Builds(f, v) /\ w = f[N]
  BY <1>1, VarsBuilt
<1>3. /\ b \in Seq(Byte) /\ UwsgiSize(b) = Len(b) /\ Len(b) = 4 + Len(w)
      /\ \A i \in 1 .. Len(w) : b[4 + i] = w[i]
  BY PacketBytes
<1> HIDE DEF b, w
<1>4. N \in Nat /\ \A k \in 1 .. N : v[k] \in Variable
  BY <1>1, LenProperties, ElementOfSeq
<1>5. \A k \in 0 .. N : f[k] \in Seq(Byte) /\ Len(f[k]) \in Nat
  BY <1>2, LenProperties DEF Builds
<1>6. f[0] = <<>> /\ Len(f[0]) = 0
  BY <1>2 DEF Builds
<1> DEFINE K(k) == Len(v[k].key)
           M(k) == Len(v[k].value)
           x(k) == UwsgiVar(v[k])
           s == [k \in 1 .. N + 1 |-> 4 + Len(f[k - 1])]
<1>7. ASSUME NEW k \in 1 .. N
      PROVE  /\ K(k) \in Nat /\ M(k) \in Nat /\ Len(x(k)) = 4 + K(k) + M(k)
             /\ Len(f[k]) = Len(f[k - 1]) + Len(x(k))
  <2>1. v[k] \in Variable
    BY <1>4
  <2>2. v[k].key \in Seq(Byte) /\ v[k].value \in Seq(Byte)
    BY <2>1 DEF Variable
  <2>3. K(k) \in Nat /\ M(k) \in Nat
    BY <2>2, LenProperties
  <2>4. x(k) \in Seq(Byte) /\ Len(x(k)) = 4 + K(k) + M(k)
    BY <2>1, VarBytes
  <2>5. k - 1 \in 0 .. N
    BY <1>4
  <2>6. f[k - 1] \in Seq(Byte) /\ f[k] = f[k - 1] \o x(k)
    BY <1>2, <1>5, <2>5 DEF Builds
  <2> HIDE DEF x
  <2>7. Len(f[k]) = Len(f[k - 1]) + Len(x(k))
    <3>1. x(k) \in Seq(Byte)
      BY <2>4
    <3>2. QED
      BY <2>6, <3>1, ConcatBytes
  <2>8. QED
    BY <2>3, <2>4, <2>7
<1> HIDE DEF K, M, x
<1>8. \A k \in 1 .. N + 1 : s[k] = 4 + Len(f[k - 1])
  OBVIOUS
<1>9. \A k \in 1 .. N + 1 : s[k] \in Nat
  <2> HIDE DEF s
  <2>1. \A k \in 1 .. N + 1 : k - 1 \in 0 .. N
    BY <1>4
  <2>2. QED
    BY <1>5, <1>8, <2>1
<1>10. s \in [1 .. N + 1 -> Nat]
  BY <1>9
<1> HIDE DEF s
<1>11. s[1] = 4 /\ s[N + 1] = 4 + Len(w) /\ N + 1 \in 1 .. N + 1
  <2>1. 1 \in 1 .. N + 1 /\ N + 1 \in 1 .. N + 1 /\ 1 - 1 = 0 /\ (N + 1) - 1 = N
    BY <1>4
  <2>2. QED
    BY <1>2, <1>6, <1>8, <2>1
<1>12. ASSUME NEW k \in 1 .. N PROVE s[k + 1] = s[k] + 4 + K(k) + M(k)
  <2>1. k \in 1 .. N + 1 /\ k + 1 \in 1 .. N + 1 /\ (k + 1) - 1 = k /\ k - 1 \in 0 .. N
    BY <1>4
  <2>2. s[k + 1] = 4 + Len(f[k]) /\ s[k] = 4 + Len(f[k - 1]) /\ Len(f[k - 1]) \in Nat
    BY <1>5, <1>8, <2>1
  <2>3. K(k) \in Nat /\ M(k) \in Nat /\ Len(f[k]) = Len(f[k - 1]) + (4 + K(k) + M(k))
    BY <1>7
  <2> DEFINE a == Len(f[k - 1])
             i == K(k)
             j == M(k)
  <2> HIDE DEF a, i, j
  <2>4. a \in Nat /\ i \in Nat /\ j \in Nat /\ s[k] = 4 + a /\ s[k + 1] = 4 + (a + (4 + i + j))
    BY <2>2, <2>3 DEF a, i, j
  <2>5. s[k + 1] = s[k] + 4 + i + j
    BY <2>4
  <2>6. QED
    BY <2>5 DEF i, j
<1>13. ASSUME NEW k \in 1 .. N + 1, NEW j \in 1 .. k PROVE s[j] <= s[k]
  <2>1. /\ k - 1 \in 0 .. N /\ j - 1 \in 0 .. N /\ j \in 1 .. N + 1
        /\ j - 1 = 0 \/ j - 1 \in 1 .. k - 1
    BY <1>4
  <2>2. Len(f[j - 1]) <= Len(f[k - 1])
    <3>1. CASE j - 1 = 0
      BY <1>5, <1>6, <2>1, <3>1
    <3>2. CASE j - 1 \in 1 .. k - 1
      BY <1>1, <1>2, <2>1, <3>2, BuiltLayout
    <3>3. QED
      BY <2>1, <3>1, <3>2
  <2>3. QED
    BY <1>5, <1>8, <2>1, <2>2
<1>14. Places(s, v)
  BY <1>10, <1>11, <1>12, <1>13 DEF Places, K, M
<1>15. ASSUME NEW k \in 1 .. N PROVE VarHeader(b, s[k], v[k]) /\ ValueAt(b, s[k], v[k])
  <2>1. \A i \in 1 .. Len(x(k)) : w[Len(f[k - 1]) + i] = x(k)[i]
    <3>1. N \in 0 .. N
      BY <1>4
    <3>2. QED
      BY <1>1, <1>2, <3>1, BuiltLayout DEF x
  <2>2. /\ k - 1 \in 0 .. N /\ k \in 1 .. N + 1 /\ k \in 0 .. N
        /\ s[k] = 4 + Len(f[k - 1]) /\ Len(f[k - 1]) \in Nat
    BY <1>4, <1>5, <1>8
  <2>3. Len(f[k - 1]) + Len(x(k)) <= Len(w) /\ Len(w) \in Nat
    <3>1. N \in 0 .. N /\ k \in 1 .. N
      BY <1>4
    <3>2. Len(f[k]) <= Len(f[N])
      BY <1>1, <1>2, <3>1, BuiltLayout
    <3>3. QED
      BY <1>2, <1>5, <1>7, <3>1, <3>2
  <2>4. K(k) \in Nat /\ M(k) \in Nat /\ Len(x(k)) = 4 + K(k) + M(k)
    BY <1>7
  <2>5. ASSUME NEW i \in 1 .. Len(x(k)) PROVE b[s[k] + i] = x(k)[i]
    <3>1. Len(f[k - 1]) + i \in 1 .. Len(w) /\ 4 + (Len(f[k - 1]) + i) = s[k] + i
      BY <2>2, <2>3, <2>4
    <3>2. QED
      BY <1>3, <2>1, <3>1
  <2> DEFINE o == s[k]
             l == K(k)
             m == M(k)
             key == v[k].key
             value == v[k].value
  <2>6. /\ x(k)[1] = l % 256 /\ x(k)[2] = l \div 256
        /\ \A i \in 1 .. l : x(k)[2 + i] = key[i]
        /\ x(k)[2 + l + 1] = m % 256 /\ x(k)[2 + l + 2] = m \div 256
        /\ \A i \in 1 .. m : x(k)[4 + l + i] = value[i]
    BY <1>4, VarLayout DEF x, K, M
  <2>7. o \in Nat
    BY <2>2
  <2>16. l \in Nat /\ m \in Nat /\ Len(x(k)) = 4 + l + m
    BY <2>4
  <2> HIDE DEF o, key, value, l, m
  <2>8. /\ 1 \in 1 .. Len(x(k)) /\ 2 \in 1 .. Len(x(k))
        /\ \A i \in 1 .. l : 2 + i \in 1 .. Len(x(k)) /\ o + (2 + i) = o + 2 + i
        /\ 2 + l + 1 \in 1 .. Len(x(k)) /\ o + (2 + l + 1) = o + 2 + l + 1
        /\ 2 + l + 2 \in 1 .. Len(x(k)) /\ o + (2 + l + 2) = o + 2 + l + 2
        /\ \A i \in 1 .. m : 4 + l + i \in 1 .. Len(x(k)) /\ o + (4 + l + i) = o + 4 + l + i
    BY <2>7, <2>16
  <2>9. \A i \in 1 .. Len(x(k)) : b[o + i] = x(k)[i]
    BY <2>5 DEF o
  <2>10. /\ b[o + 1] = l % 256 /\ b[o + 2] = l \div 256
         /\ b[o + 2 + l + 1] = m % 256 /\ b[o + 2 + l + 2] = m \div 256
    BY <2>6, <2>8, <2>9
  <2>11. \A i \in 1 .. l : b[o + 2 + i] = key[i]
    BY <2>6, <2>8, <2>9
  <2>12. \A i \in 1 .. m : b[o + 4 + l + i] = value[i]
    BY <2>6, <2>8, <2>9
  <2>13. VarHeader(b, o, v[k])
    BY <2>10, <2>11 DEF VarHeader, l, m, key, K, M
  <2>14. ValueAt(b, o, v[k])
    BY <2>12 DEF ValueAt, l, m, value, K, M
  <2>15. QED
    BY <2>13, <2>14 DEF o
<1>16. UwsgiSize(b) = s[N + 1] /\ s[N + 1] <= Len(b)
  <2>1. Len(b) \in Nat /\ s[N + 1] = Len(b)
    BY <1>3, <1>11, LenProperties
  <2>2. QED
    BY <1>3, <2>1
<1>17. Holds(b, s, v)
  BY <1>14, <1>15, <1>16 DEF Holds
<1>18. QED
  BY <1>17 DEF b

\* Only the bytes of the request matter.
LEMMA HoldsSame ==
    ASSUME NEW b, NEW c, NEW v \in Seq(Variable), NEW s, Holds(b, s, v),
           s[Len(v) + 1] <= Len(c), \A j \in 1 .. s[Len(v) + 1] : c[j] = b[j]
    PROVE  Holds(c, s, v)
<1> DEFINE n == s[Len(v) + 1]
<1>1. Len(v) \in Nat /\ \A k \in 1 .. Len(v) : v[k] \in Variable
  BY LenProperties, ElementOfSeq
<1>2. Places(s, v) /\ UwsgiSize(b) = n /\ n \in Nat /\ n >= 4
  <2>1. /\ 1 \in 1 .. Len(v) + 1 /\ Len(v) + 1 \in 1 .. Len(v) + 1
        /\ 1 \in 1 .. (Len(v) + 1)
    BY <1>1
  <2>2. s[1] <= s[Len(v) + 1] /\ s[1] = 4 /\ n \in Nat
    BY <2>1 DEF Holds, Places
  <2>3. QED
    BY <2>2 DEF Holds
<1>3. UwsgiSize(c) = n
  <2>1. 2 \in 1 .. n /\ 3 \in 1 .. n /\ 2 + 1 = 3
    BY <1>2
  <2>2. c[2] = b[2] /\ c[3] = b[3]
    BY <2>1
  <2>3. QED
    BY <1>2, <2>1, <2>2 DEF UwsgiSize, Le16
<1>4. ASSUME NEW k \in 1 .. Len(v) PROVE VarHeader(c, s[k], v[k]) /\ ValueAt(c, s[k], v[k])
  <2> DEFINE o == s[k]
             l == Len(v[k].key)
             m == Len(v[k].value)
  <2>1. l \in Nat /\ m \in Nat
    <3>1. v[k].key \in Seq(Byte) /\ v[k].value \in Seq(Byte)
      BY <1>1 DEF Variable
    <3>2. QED
      BY <3>1, LenProperties
  <2>2. o \in Nat /\ o + 4 + l + m <= n
    <3>1. k \in 1 .. Len(v) + 1 /\ k + 1 \in 1 .. Len(v) + 1 /\ Len(v) + 1 \in 1 .. Len(v) + 1
      BY <1>1
    <3>2. s[k + 1] <= n /\ s[k + 1] = o + 4 + l + m /\ o \in Nat
      BY <1>2, <3>1 DEF Places
    <3>3. QED
      BY <3>2
  <2>3. VarHeader(b, o, v[k]) /\ ValueAt(b, o, v[k])
    BY DEF Holds
  <2>4. \A j : j \in 1 .. n => c[j] = b[j]
    OBVIOUS
  <2> HIDE DEF o, n
  <2>5. VarHeader(c, o, v[k])
    <3> HIDE DEF l, m
    <3>1. /\ o + 1 \in 1 .. n /\ o + 2 \in 1 .. n
          /\ o + 2 + l + 1 \in 1 .. n /\ o + 2 + l + 2 \in 1 .. n
          /\ \A i \in 1 .. l : o + 2 + i \in 1 .. n
      BY <1>2, <2>1, <2>2
    <3>2. /\ c[o + 1] = b[o + 1] /\ c[o + 2] = b[o + 2]
          /\ c[o + 2 + l + 1] = b[o + 2 + l + 1] /\ c[o + 2 + l + 2] = b[o + 2 + l + 2]
          /\ \A i \in 1 .. l : c[o + 2 + i] = b[o + 2 + i]
      BY <2>4, <3>1
    <3>3. QED
      BY <2>3, <3>2 DEF VarHeader, l
  <2>6. ValueAt(c, o, v[k])
    <3> HIDE DEF l, m
    <3>1. \A i \in 1 .. m : o + 4 + l + i \in 1 .. n
      BY <1>2, <2>1, <2>2
    <3>2. \A i \in 1 .. m : c[o + 4 + l + i] = b[o + 4 + l + i]
      BY <2>4, <3>1
    <3>3. QED
      BY <2>3, <3>2 DEF ValueAt, l, m
  <2>7. QED
    BY <2>5, <2>6 DEF o
<1>5. QED
  BY <1>2, <1>3, <1>4 DEF Holds

\* Numbers alone: a variable of a name of p and a value of m bytes from a on, and an
\* address in one from e on.
LEMMA NulArith ==
    ASSUME NEW a \in Nat, NEW e \in Nat, NEW l \in Nat, NEW p \in Nat, NEW m \in Nat,
           NEW i \in 1 .. 6, NEW x \in 1 .. 4 + p + m, a + x = e + 4 + l + 3 * i
    PROVE  /\ ~(a + 4 + p + m <= e) /\ ~(e + 4 + l + 17 + 4 <= a)
           /\ a = e /\ p = l /\ m = 17 => x = 4 + l + 3 * i /\ i < 6
           /\ a = e + 4 + l + 17 => x = 1
OBVIOUS

\* Byte x of variable j is where the i-th NUL of the address in variable k falls.
Hit(s, v, j, x, k, i) ==
    /\ x \in 1 .. 4 + Len(v[j].key) + Len(v[j].value)
    /\ s[j] + x = s[k] + 4 + Len(v[k].key) + 3 * i

\* The NULs of an address fall between the pairs and, the last one, on the first byte
\* of the next variable.
LEMMA NulPlaces ==
    ASSUME NEW v \in Seq(Variable), NEW s, Places(s, v), NEW k \in 1 .. Len(v), NEW j \in 1 .. Len(v),
           Len(v[k].value) = MacVarLength, NEW i \in 1 .. 6, NEW x, Hit(s, v, j, x, k, i)
    PROVE  \/ j = k /\ x = 4 + Len(v[k].key) + 3 * i /\ i < 6
           \/ j = k + 1 /\ x = 1
<1> DEFINE K(a) == Len(v[a].key)
           M(a) == Len(v[a].value)
<1>1. Len(v) \in Nat
  BY LenProperties
<1>2. ASSUME NEW a \in 1 .. Len(v)
      PROVE  K(a) \in Nat /\ M(a) \in Nat /\ s[a] \in Nat /\ s[a + 1] = s[a] + 4 + K(a) + M(a)
  <2>1. v[a] \in Variable
    BY ElementOfSeq
  <2>2. v[a].key \in Seq(Byte) /\ v[a].value \in Seq(Byte)
    BY <2>1 DEF Variable
  <2>3. K(a) \in Nat /\ M(a) \in Nat
    BY <2>2, LenProperties
  <2>4. a \in 1 .. Len(v) + 1
    BY <1>1
  <2>5. QED
    BY <2>3, <2>4 DEF Places
<1>3. \A a \in 1 .. Len(v) + 1 : \A c \in 1 .. a : s[c] <= s[a]
  BY DEF Places
<1> DEFINE a == s[j]
           e == s[k]
           l == K(k)
           p == K(j)
           m == M(j)
<1>4. M(k) = 17
  BY DEF MacVarLength
<1>5. x \in 1 .. 4 + p + m /\ a + x = e + 4 + l + 3 * i
  BY DEF Hit
<1>6. /\ l \in Nat /\ e \in Nat /\ s[k + 1] = e + 4 + l + 17
      /\ p \in Nat /\ m \in Nat /\ a \in Nat /\ s[j + 1] = a + 4 + p + m
  <2> HIDE DEF K, M
  <2>1. QED
    BY <1>2, <1>4
<1>7. /\ ~(a + 4 + p + m <= e) /\ ~(e + 4 + l + 17 + 4 <= a)
      /\ a = e /\ p = l /\ m = 17 => x = 4 + l + 3 * i /\ i < 6
      /\ a = e + 4 + l + 17 => x = 1
  <2> HIDE DEF a, e, l, p, m
  <2>1. a \in Nat /\ e \in Nat /\ l \in Nat /\ p \in Nat /\ m \in Nat
    BY <1>6
  <2>2. QED
    BY <1>5, <2>1, NulArith
<1>8. CASE j < k
  <2>1. j + 1 \in 1 .. k /\ k \in 1 .. Len(v) + 1
    BY <1>1, <1>8
  <2>2. s[j + 1] <= e
    BY <1>3, <2>1
  <2>3. QED
    BY <1>6, <1>7, <2>2
<1>9. CASE j = k
  <2>1. a = e /\ p = l /\ m = 17
    BY <1>4, <1>9
  <2>2. x = 4 + l + 3 * i /\ i < 6
    BY <1>7, <2>1
  <2>3. QED
    BY <1>9, <2>2
<1>10. CASE j = k + 1
  <2>1. a = e + 4 + l + 17
    BY <1>6, <1>10
  <2>2. QED
    BY <1>7, <1>10, <2>1
<1>11. CASE j > k + 1
  <2>1. k + 1 \in 1 .. Len(v) /\ k + 2 \in 1 .. j /\ j \in 1 .. Len(v) + 1 /\ (k + 1) + 1 = k + 2
    BY <1>1, <1>11
  <2>2. s[k + 2] <= a
    BY <1>3, <2>1
  <2> DEFINE y == K(k + 1)
             z == M(k + 1)
  <2>3. y \in Nat /\ z \in Nat /\ s[k + 2] = s[k + 1] + 4 + y + z
    <3> HIDE DEF K, M
    <3>1. QED
      BY <1>2, <2>1
  <2> HIDE DEF a, e, l, y, z
  <2>4. e + 4 + l + 17 + 4 <= a
    BY <1>6, <2>2, <2>3
  <2>5. QED
    BY <1>7, <2>4
<1>12. j < k \/ j = k \/ j = k + 1 \/ j > k + 1
  OBVIOUS
<1>13. QED
  BY <1>8, <1>9, <1>10, <1>11, <1>12

\* c is b with some of the NULs of the address at at.
NulsOnly(b, c, at) ==
    /\ Len(c) = Len(b)
    /\ \A j \in 1 .. Len(b) : \/ c[j] = b[j]
                              \/ c[j] = 0 /\ \E i \in 1 .. 6 : j = at + 3 * i - 1

\* With them it holds the same variables.
LEMMA HoldsNul ==
    ASSUME NEW b \in Seq(Byte), NEW v \in Seq(Variable), v \in Vars, NEW s, Holds(b, s, v),
           NEW k \in 1 .. Len(v), v[k].key = MacVar, Len(v[k].value) = MacVarLength,
           NEW at, at = s[k] + 4 + Len(v[k].key) + 1,
           NEW c, NulsOnly(b, c, at)
    PROVE  Holds(c, s, v)
<1> USE DEF NulsOnly
<1> DEFINE n == s[Len(v) + 1]
           K(a) == Len(v[a].key)
           M(a) == Len(v[a].value)
<1>1. Len(v) \in Nat /\ Len(b) \in Nat /\ \A a \in 1 .. Len(v) : v[a] \in Variable
  BY LenProperties, ElementOfSeq
<1>2. Places(s, v) /\ UwsgiSize(b) = n /\ n \in Nat /\ n <= Len(b) /\ s[1] = 4 /\ n >= 4
  <2>1. /\ 1 \in 1 .. Len(v) + 1 /\ Len(v) + 1 \in 1 .. Len(v) + 1 /\ 1 \in 1 .. (Len(v) + 1)
    BY <1>1
  <2>2. s[1] <= s[Len(v) + 1] /\ s[1] = 4 /\ n \in Nat
    BY <2>1 DEF Holds, Places
  <2>3. QED
    BY <2>2 DEF Holds
<1>3. ASSUME NEW a \in 1 .. Len(v)
      PROVE  K(a) \in Nat /\ M(a) \in Nat /\ s[a] \in Nat /\ s[a] >= 4 /\ s[a] + 4 + K(a) + M(a) <= n
  <2>1. v[a].key \in Seq(Byte) /\ v[a].value \in Seq(Byte)
    BY <1>1 DEF Variable
  <2>2. K(a) \in Nat /\ M(a) \in Nat
    BY <2>1, LenProperties
  <2>3. /\ 1 \in 1 .. a /\ a \in 1 .. Len(v) + 1 /\ a + 1 \in 1 .. Len(v) + 1
        /\ Len(v) + 1 \in 1 .. Len(v) + 1 /\ a + 1 \in 1 .. (Len(v) + 1)
    BY <1>1
  <2>4. /\ s[a] \in Nat /\ s[1] <= s[a] /\ s[a + 1] <= n
        /\ s[a + 1] = s[a] + 4 + K(a) + M(a)
    BY <1>2, <2>3 DEF Places
  <2>5. QED
    BY <1>2, <2>2, <2>4
<1>4. /\ k < Len(v) => K(k + 1) < 256
  BY RequestAddresses
<1>5. ASSUME NEW a \in 1 .. Len(v), NEW x \in 1 .. 4 + K(a) + M(a), c[s[a] + x] # b[s[a] + x]
      PROVE  /\ c[s[a] + x] = 0
             /\ \/ a = k /\ \E i \in 1 .. 5 : x = 4 + K(k) + 3 * i
                \/ a = k + 1 /\ x = 1
  <2>1. s[a] + x \in 1 .. Len(b)
    <3> DEFINE o == s[a]
               l == K(a)
               m == M(a)
               e == Len(b)
    <3>1. /\ l \in Nat /\ m \in Nat /\ o \in Nat /\ o + 4 + l + m <= n /\ n <= e
          /\ n \in Nat /\ e \in Nat
      BY <1>1, <1>2, <1>3
    <3>2. x \in 1 .. 4 + l + m
      OBVIOUS
    <3> HIDE DEF o, l, m, n, e
    <3>3. o + x \in 1 .. e
      BY <3>1, <3>2
    <3>4. QED
      BY <3>3 DEF o, e
  <2>2. PICK i \in 1 .. 6 : c[s[a] + x] = 0 /\ s[a] + x = at + 3 * i - 1
    BY <1>5, <2>1
  <2>3. s[a] + x = s[k] + 4 + Len(v[k].key) + 3 * i
    <3>1. K(k) \in Nat /\ s[k] \in Nat /\ at = s[k] + 4 + K(k) + 1
      BY <1>3
    <3> HIDE DEF K
    <3>2. s[a] + x = s[k] + 4 + K(k) + 3 * i
      BY <2>2, <3>1
    <3>3. QED
      BY <3>2 DEF K
  <2>4. \/ a = k /\ x = 4 + Len(v[k].key) + 3 * i /\ i < 6
        \/ a = k + 1 /\ x = 1
    <3>1. Hit(s, v, a, x, k, i) /\ Places(s, v)
      BY <1>2, <2>3 DEF Hit
    <3>2. QED
      BY <3>1, NulPlaces
  <2>5. i < 6 => i \in 1 .. 5
    OBVIOUS
  <2>6. QED
    BY <2>2, <2>4, <2>5
<1>6. UwsgiSize(c) = n
  <2>1. 2 \in 1 .. Len(b) /\ 3 \in 1 .. Len(b) /\ 2 + 1 = 3
    BY <1>1, <1>2
  <2>2. \A i \in 1 .. 6 : 2 # at + 3 * i - 1 /\ 3 # at + 3 * i - 1
    <3> DEFINE o == s[k]
               l == K(k)
    <3>1. l \in Nat /\ o \in Nat /\ at = o + 4 + l + 1
      BY <1>3
    <3> HIDE DEF l, o
    <3>2. QED
      BY <3>1
  <2>3. c[2] = b[2] /\ c[3] = b[3]
    BY <2>1, <2>2
  <2>4. QED
    BY <1>2, <2>1, <2>3 DEF UwsgiSize, Le16
<1>7. ASSUME NEW a \in 1 .. Len(v) PROVE VarHeader(c, s[a], v[a]) /\ ValueAt(c, s[a], v[a])
  <2> DEFINE o == s[a]
             l == K(a)
             m == M(a)
  <2>1. VarHeader(b, o, v[a]) /\ ValueAt(b, o, v[a])
    BY DEF Holds
  <2>2. l \in Nat /\ m \in Nat /\ o \in Nat /\ (a = k + 1 => l < 256) /\ (a = k => l = K(k))
    BY <1>3, <1>4
  <2>3. ASSUME NEW x \in 1 .. 4 + l + m
        PROVE  \/ c[o + x] = b[o + x]
               \/ a = k /\ \E i \in 1 .. 5 : x = 4 + l + 3 * i
               \/ a = k + 1 /\ x = 1 /\ c[o + x] = 0
    BY <1>5
  <2> HIDE DEF o, l, m
  <2>4. ASSUME NEW x \in 1 .. 4 + l, x # 1 \/ a # k + 1 PROVE c[o + x] = b[o + x]
    <3>1. x \in 1 .. 4 + l + m /\ \A i \in 1 .. 5 : x # 4 + l + 3 * i
      BY <2>2
    <3>2. QED
      BY <2>3, <2>4, <3>1
  <2>5. VarHeader(c, o, v[a])
    <3>1. c[o + 1] = b[o + 1] \/ (c[o + 1] = 0 /\ l < 256)
      <4>1. 1 \in 1 .. 4 + l /\ 1 \in 1 .. 4 + l + m
        BY <2>2
      <4>2. CASE a = k + 1
        <5>1. a # k
          BY <4>2
        <5>2. QED
          BY <2>2, <2>3, <4>1, <4>2, <5>1
      <4>3. CASE a # k + 1
        BY <2>4, <4>1, <4>3
      <4>4. QED
        BY <4>2, <4>3
    <3>2. /\ 2 \in 1 .. 4 + l /\ 2 # 1
          /\ 2 + l + 1 \in 1 .. 4 + l /\ 2 + l + 1 # 1 /\ o + (2 + l + 1) = o + 2 + l + 1
          /\ 2 + l + 2 \in 1 .. 4 + l /\ 2 + l + 2 # 1 /\ o + (2 + l + 2) = o + 2 + l + 2
          /\ \A i \in 1 .. l : 2 + i \in 1 .. 4 + l /\ 2 + i # 1 /\ o + (2 + i) = o + 2 + i
      BY <2>2
    <3>3. /\ c[o + 2] = b[o + 2]
          /\ c[o + 2 + l + 1] = b[o + 2 + l + 1] /\ c[o + 2 + l + 2] = b[o + 2 + l + 2]
          /\ \A i \in 1 .. l : c[o + 2 + i] = b[o + 2 + i]
      BY <2>4, <3>2
    <3>4. QED
      BY <2>1, <3>1, <3>3 DEF VarHeader, l, K
  <2>6. ValueAt(c, o, v[a])
    <3>1. ASSUME NEW i \in 1 .. m
          PROVE  \/ c[o + 4 + l + i] = v[a].value[i]
                 \/ v[a].key = MacVar /\ Len(v[a].value) = MacVarLength /\ i \in {3, 6, 9, 12, 15}
      <4>1. /\ 4 + l + i \in 1 .. 4 + l + m /\ o + (4 + l + i) = o + 4 + l + i /\ 4 + l + i # 1
            /\ \A x \in 1 .. 5 : 4 + l + i = 4 + l + 3 * x => i \in {3, 6, 9, 12, 15}
        BY <2>2
      <4>2. c[o + 4 + l + i] = b[o + 4 + l + i] \/ (a = k /\ i \in {3, 6, 9, 12, 15})
        BY <2>3, <4>1
      <4>3. \/ b[o + 4 + l + i] = v[a].value[i]
            \/ v[a].key = MacVar /\ Len(v[a].value) = MacVarLength /\ i \in {3, 6, 9, 12, 15}
        BY <2>1 DEF ValueAt, l, m, K, M
      <4>4. QED
        BY <4>2, <4>3
    <3>2. QED
      BY <3>1 DEF ValueAt, l, m, K, M
  <2>7. QED
    BY <2>5, <2>6 DEF o
<1>8. QED
  BY <1>1, <1>2, <1>6, <1>7 DEF Holds

\* The pairs of digits are read as they were sent, with and without NULs.
LEMMA AddressRead ==
    ASSUME NEW b, NEW v \in Seq(Variable), v \in Vars, NEW s, Holds(b, s, v),
           NEW k \in 1 .. Len(v), v[k].key = MacVar, Len(v[k].value) = MacVarLength
    PROVE  AddressAt(b, s[k] + 4 + Len(v[k].key) + 1) = Address
<1> DEFINE at == s[k] + 4 + Len(v[k].key) + 1
           value == v[k].value
           l == Len(v[k].key)
           o == s[k]
<1>1. /\ Address \in [1 .. 6 -> Byte]
      /\ \A i \in 1 .. 6 : Address[i] = 16 * value[3 * i - 2] + value[3 * i - 1]
  BY RequestAddresses, WireConstants
<1>2. \A i \in 1 .. 17 : b[o + 4 + l + i] = value[i] \/ i \in {3, 6, 9, 12, 15}
  BY DEF Holds, ValueAt, MacVarLength
<1>3. o \in Nat /\ l \in Nat
  <2>1. v[k] \in Variable
    BY ElementOfSeq
  <2>2. v[k].key \in Seq(Byte)
    BY <2>1 DEF Variable
  <2>3. k \in 1 .. Len(v) + 1
    BY LenProperties
  <2>4. QED
    BY <2>2, <2>3, LenProperties DEF Holds, Places
<1> HIDE DEF o, l, value
<1>4. at = o + 4 + l + 1
  BY DEF o, l
<1> HIDE DEF at
<1>5. ASSUME NEW i \in 1 .. 6
      PROVE  /\ b[at + 3 * (i - 1)] = value[1 + 3 * (i - 1)]
             /\ b[at + 3 * (i - 1) + 1] = value[1 + 3 * (i - 1) + 1]
  <2> DEFINE x == 1 + 3 * (i - 1)
  <2>1. /\ x \in 1 .. 17 /\ x \notin {3, 6, 9, 12, 15} /\ x + 1 \in 1 .. 17 /\ x + 1 \notin {3, 6, 9, 12, 15}
        /\ at + 3 * (i - 1) = o + 4 + l + x /\ at + 3 * (i - 1) + 1 = o + 4 + l + (x + 1)
    BY <1>3, <1>4
  <2>2. b[o + 4 + l + x] = value[x]
    <3> HIDE DEF x
    <3>1. QED
      BY <1>2, <2>1
  <2>3. b[o + 4 + l + (x + 1)] = value[x + 1]
    <3> HIDE DEF x
    <3>1. QED
      BY <1>2, <2>1
  <2>4. QED
    BY <2>1, <2>2, <2>3
<1>6. ASSUME NEW i \in 1 .. 6
      PROVE  Address[i] = 16 * b[at + 3 * (i - 1)] + b[at + 3 * (i - 1) + 1]
  <2>1. 1 + 3 * (i - 1) = 3 * i - 2 /\ 1 + 3 * (i - 1) + 1 = 3 * i - 1
    OBVIOUS
  <2>2. Address[i] = 16 * value[3 * i - 2] + value[3 * i - 1]
    BY <1>1
  <2>3. /\ b[at + 3 * (i - 1)] = value[3 * i - 2]
        /\ b[at + 3 * (i - 1) + 1] = value[3 * i - 1]
    BY <1>5, <2>1
  <2>4. QED
    BY <2>2, <2>3
<1>7. Address = [i \in 1 .. 6 |-> 16 * b[at + 3 * (i - 1)] + b[at + 3 * (i - 1) + 1]]
  BY <1>1, <1>6
<1>8. QED
  BY <1>7 DEF AddressAt, at

-----------------------------------------------------------------------------
(* The address and the query string of a request *)

\* What a control request sends.
Question == <<[key |-> QueryVar, value |-> asked]>>

Requested(v) ==
    \/ v \in Vars /\ Whole[1] = 0
    \/ v = Question /\ asked \in Queries /\ Whole[1] = 1

\* Until the request is consumed it is there as it was sent, but for the NULs.
RequestThere ==
    state \in {"shaking", "blocked", "reread"} => \E v, s : Requested(v) /\ Holds(Whole, s, v)

ReqInv == RequestThere /\ mac \in {<<>>, Address}

LEMMA RequestedTyped ==
    ASSUME NEW v, Requested(v)
    PROVE  v \in Seq(Variable) /\ v \in AllRequests
<1>1. v \in AllRequests
  <2>1. CASE v \in Vars
    BY <2>1 DEF AllRequests
  <2>2. CASE v = Question /\ asked \in Queries
    BY <2>2 DEF AllRequests, Question
  <2>3. QED
    BY <2>1, <2>2 DEF Requested
<1>2. QED
  BY <1>1, RequestSizes

LEMMA ReqInvInit == Init => ReqInv
<1> SUFFICES ASSUME Init PROVE ReqInv
  OBVIOUS
<1>1. mac = <<>> /\ buf = <<>>
  BY DEF Init
<1>2. stream \in Seq(Byte) /\ Whole = stream
  <2>1. stream \in Seq(Byte)
    BY WInvInit DEF WInv, Types
  <2>2. QED
    BY <1>1, <2>1, ConcatEmptySeq DEF Whole
<1>3. \E v, s : Requested(v) /\ Holds(Whole, s, v)
  <2>1. CASE stream \in {UwsgiPacket(0, v) : v \in Vars}
    <3>1. PICK v \in Vars : stream = UwsgiPacket(0, v)
      BY <2>1
    <3>2. v \in AllRequests /\ 0 \in Byte
      BY DEF AllRequests, Byte
    <3>3. stream[1] = 0
      BY <3>1, <3>2, PacketBytes
    <3>4. \E s : Holds(stream, s, v)
      BY <3>1, <3>2, PackedHolds
    <3>5. QED
      BY <1>2, <3>3, <3>4 DEF Requested
  <2>2. CASE asked \in Queries /\ stream = UwsgiPacket(1, Question)
    <3>1. Question \in AllRequests /\ 1 \in Byte
      BY <2>2 DEF AllRequests, Byte, Question
    <3> DEFINE v == Question
    <3>2. v \in AllRequests /\ stream = UwsgiPacket(1, v)
      BY <2>2, <3>1
    <3> HIDE DEF v
    <3>3. stream[1] = 1
      BY <3>1, <3>2, PacketBytes
    <3>4. \E s : Holds(stream, s, v)
      BY <3>1, <3>2, PackedHolds
    <3>5. Requested(v)
      BY <1>2, <2>2, <3>3 DEF Requested, v
    <3>6. QED
      BY <1>2, <3>4, <3>5
  <2>3. QED
    BY <2>1, <2>2 DEF Init, Question
<1>4. QED
  BY <1>1, <1>3 DEF ReqInv, RequestThere

\* When all of the request has been read the parser sees it.
LEMMA RequestInBuf ==
    ASSUME Types, UwsgiArrived(buf), NEW v, Requested(v), NEW s, Holds(Whole, s, v)
    PROVE  Holds(buf, s, v) /\ buf[1] = Whole[1] /\ Len(buf) \in Nat /\ Len(buf) >= 4
<1>1. /\ Whole \in Seq(Byte) /\ buf \in Seq(Byte) /\ Len(buf) \in Nat /\ Begins(buf, Whole)
      /\ Len(buf) >= 4 /\ UwsgiSize(buf) <= Len(buf)
  BY WholeFacts DEF Types, UwsgiArrived
<1>2. s[Len(v) + 1] = UwsgiSize(buf) /\ UwsgiSize(buf) \in Nat
  BY <1>1, SizeOfRequest, LoopForwards DEF Holds
<1>3. \A j \in 1 .. Len(buf) : buf[j] = Whole[j]
  BY <1>1 DEF Begins
<1>4. 1 \in 1 .. Len(buf) /\ \A j \in 1 .. s[Len(v) + 1] : j \in 1 .. Len(buf)
  BY <1>1, <1>2
<1>5. s[Len(v) + 1] <= Len(buf) /\ \A j \in 1 .. s[Len(v) + 1] : buf[j] = Whole[j]
  BY <1>1, <1>2, <1>3, <1>4
<1>6. v \in Seq(Variable)
  BY RequestedTyped
<1>7. Holds(buf, s, v)
  BY <1>5, <1>6, HoldsSame
<1>8. QED
  BY <1>1, <1>3, <1>4, <1>7

\* The handshake reads the address, and what it leaves behind when it blocks still
\* holds the request.
LEMMA HandshakeReads ==
    ASSUME WInv, ReqInv, Handshake, asked' = asked
    PROVE  ReqInv'
<1> DEFINE parsed == UwsgiParse(buf)
           macs == Found(parsed.vars, MacVar)
           i == CHOOSE j \in macs : TRUE
           at == parsed.vars[i].at
           b == IF macs = {} THEN buf ELSE Terminated(buf, at)
           q == Chain(UwsgiNext(buf), 4)
<1>1. /\ state = "shaking" /\ UwsgiArrived(buf) /\ stream' = stream /\ buf[1] # 1
  BY DEF Handshake
<1>2. Types /\ buf \in Seq(Byte) /\ stream \in Seq(Byte)
  BY DEF WInv, Types
<1>3. PICK v, s : Requested(v) /\ Holds(Whole, s, v)
  BY <1>1 DEF ReqInv, RequestThere
<1>4. Holds(buf, s, v) /\ buf[1] = Whole[1] /\ Len(buf) \in Nat /\ Len(buf) >= 4
  BY <1>1, <1>2, <1>3, RequestInBuf
<1>5. v \in Vars /\ Whole[1] = 0 /\ v \in Seq(Variable)
  BY <1>1, <1>3, <1>4, RequestedTyped DEF Requested
<1>7. CASE ~Acceptable(parsed)
  <2>1. state' = "closed" /\ mac' = mac
    BY <1>7 DEF Handshake
  <2>2. QED
    BY <2>1 DEF ReqInv, RequestThere
<1>8. ASSUME Acceptable(parsed), macs # {}
      PROVE  /\ i \in 1 .. Len(v) /\ v[i].key = MacVar /\ Len(v[i].value) = MacVarLength
             /\ at = s[i] + 4 + Len(v[i].key) + 1
             /\ at \in Nat /\ at >= 10
  <2>1. i \in macs
    BY <1>8
  <2> DEFINE w == parsed.vars
  <2>2. i \in DOMAIN w /\ w[i].key = MacVar /\ w[i].len = MacVarLength
    <3> HIDE DEF i
    <3>1. QED
      BY <1>8, <2>1 DEF Found, Acceptable
  <2>3. /\ DOMAIN w = 1 .. Len(q) - 1
        /\ \A k \in 1 .. Len(q) - 1 :
             /\ k \in 1 .. Len(v) /\ w[k].key = v[k].key
             /\ w[k].at = s[k] + 4 + Len(v[k].key) + 1 /\ w[k].len = Len(v[k].value)
    BY <1>1, <1>2, <1>4, <1>5, FoundThere
  <2>4. \A k \in DOMAIN w : w[k].at \in Nat /\ w[k].at >= 10
    BY <1>1, <1>2, RequestParsed
  <2> HIDE DEF w, q, i
  <2>5. at = w[i].at
    BY DEF w
  <2>6. QED
    BY <2>2, <2>3, <2>4, <2>5
<1>9. CASE Acceptable(parsed)
  <2>1. mac' = IF macs = {} THEN mac ELSE AddressAt(buf, at)
    BY <1>9 DEF Handshake
  <2>2. (state' = "blocked" /\ buf' = b) \/ state' = "open"
    BY <1>9 DEF Handshake
  <2> HIDE DEF parsed, macs, i, at
  <2>3. mac' \in {<<>>, Address}
    <3>1. CASE macs = {}
      BY <2>1, <3>1 DEF ReqInv
    <3>2. CASE macs # {}
      <4>1. AddressAt(buf, at) = Address
        BY <1>4, <1>5, <1>8, <1>9, <3>2, AddressRead
      <4>2. QED
        BY <2>1, <3>2, <4>1
    <3>3. QED
      BY <3>1, <3>2
  <2>4. CASE state' = "open"
    BY <2>3, <2>4 DEF ReqInv, RequestThere
  <2>5. CASE state' = "blocked" /\ buf' = b
    <3>1. CASE macs = {}
      <4>1. Whole' = Whole
        BY <1>1, <2>5, <3>1 DEF Whole
      <4>2. Requested(v)'
        BY <1>3, <4>1 DEF Requested, Question
      <4>3. RequestThere'
        BY <1>3, <4>1, <4>2 DEF RequestThere
      <4>4. QED
        BY <2>3, <4>3 DEF ReqInv
    <3>2. CASE macs # {}
      <4> DEFINE c == Terminated(buf, at)
                 w == c \o stream
      <4>1. /\ at \in Nat /\ at >= 10 /\ at = s[i] + 4 + Len(v[i].key) + 1
            /\ i \in 1 .. Len(v) /\ v[i].key = MacVar /\ Len(v[i].value) = MacVarLength
        BY <1>8, <1>9, <3>2
      <4>2. /\ c \in Seq(Byte) /\ Len(c) = Len(buf)
            /\ \A j \in 1 .. Len(buf) : c[j] = buf[j] \/ (c[j] = 0 /\ at + 2 <= j)
        BY <1>2, <4>1, TerminatedFacts
      <4>3. \A j \in 1 .. Len(buf) : \/ c[j] = buf[j]
                                     \/ c[j] = 0 /\ \E k \in 1 .. 6 : j = at + 3 * k - 1
        <5>1. DOMAIN buf = 1 .. Len(buf)
          BY <1>2, LenProperties
        <5>2. QED
          BY <5>1 DEF Terminated
      <4> HIDE DEF c
      <4>4. /\ w \in Seq(Byte) /\ Len(w) = Len(c) + Len(stream)
            /\ \A j \in 1 .. Len(c) : w[j] = c[j]
            /\ \A j \in 1 .. Len(stream) : w[Len(c) + j] = stream[j]
        <5>1. c \in Seq(Byte) /\ stream \in Seq(Byte)
          BY <1>2, <4>2
        <5>2. QED
          BY <5>1, ConcatBytes
      <4> HIDE DEF w
      <4>5. /\ Whole \in Seq(Byte) /\ Len(Whole) = Len(buf) + Len(stream)
            /\ Len(buf) \in Nat /\ Len(stream) \in Nat
            /\ \A j \in 1 .. Len(buf) : Whole[j] = buf[j]
            /\ \A j \in 1 .. Len(stream) : Whole[Len(buf) + j] = stream[j]
        <5>1. Whole \in Seq(Byte) /\ Len(Whole) = Len(buf) + Len(stream)
          BY <1>2, WholeFacts
        <5>2. QED
          BY <1>2, <5>1, ConcatBytes, LenProperties DEF Whole
      <4>6. Len(w) = Len(Whole)
        BY <4>2, <4>4, <4>5
      <4>7. ASSUME NEW j \in 1 .. Len(Whole)
            PROVE  \/ w[j] = Whole[j]
                   \/ w[j] = 0 /\ \E k \in 1 .. 6 : j = at + 3 * k - 1
        <5>1. CASE j <= Len(buf)
          <6>1. j \in 1 .. Len(buf) /\ j \in 1 .. Len(c)
            BY <4>2, <4>5, <5>1
          <6>2. w[j] = c[j] /\ Whole[j] = buf[j]
            BY <4>4, <4>5, <6>1
          <6>3. QED
            BY <4>3, <6>1, <6>2
        <5>2. CASE ~(j <= Len(buf))
          <6>1. j - Len(buf) \in 1 .. Len(stream) /\ Len(buf) + (j - Len(buf)) = j
            BY <4>5, <5>2
          <6>2. w[j] = stream[j - Len(buf)] /\ Whole[j] = stream[j - Len(buf)]
            BY <4>2, <4>4, <4>5, <6>1
          <6>3. QED
            BY <6>2
        <5>3. QED
          BY <5>1, <5>2
      <4>8. Holds(w, s, v)
        <5>1. NulsOnly(Whole, w, at)
          BY <4>6, <4>7 DEF NulsOnly
        <5>2. /\ Whole \in Seq(Byte) /\ v \in Seq(Variable) /\ v \in Vars
              /\ Holds(Whole, s, v) /\ i \in 1 .. Len(v)
              /\ v[i].key = MacVar /\ Len(v[i].value) = MacVarLength
              /\ at = s[i] + 4 + Len(v[i].key) + 1
          BY <1>3, <1>5, <4>1, <4>5
        <5>3. QED
          BY <5>1, <5>2, HoldsNul
      <4>9. w[1] = Whole[1]
        <5>1. 1 \in 1 .. Len(buf) /\ 1 \in 1 .. Len(c) /\ ~(at + 2 <= 1)
          BY <1>4, <4>1, <4>2
        <5>2. w[1] = c[1] /\ Whole[1] = buf[1] /\ c[1] = buf[1]
          BY <4>2, <4>4, <4>5, <5>1
        <5>3. QED
          BY <5>2
      <4>10. Whole' = w
        BY <1>1, <2>5, <3>2 DEF Whole, w, c
      <4>11. Requested(v)'
        BY <1>5, <4>9, <4>10 DEF Requested
      <4>12. RequestThere'
        BY <4>8, <4>10, <4>11 DEF RequestThere
      <4>13. QED
        BY <2>3, <4>12 DEF ReqInv
    <3>3. QED
      BY <3>1, <3>2
  <2>6. QED
    BY <2>2, <2>4, <2>5
<1>10. QED
  BY <1>7, <1>9

\* A step that leaves the bytes, the address and the request alone.
LEMMA ReqInvSame ==
    ASSUME ReqInv, Whole' = Whole, mac' = mac, asked' = asked,
           state' \in {"shaking", "blocked", "reread"} => state \in {"shaking", "blocked", "reread"}
    PROVE  ReqInv'
<1>1. ASSUME NEW v, Requested(v) PROVE Requested(v)'
  BY <1>1 DEF Requested, Question
<1>2. RequestThere'
  BY <1>1 DEF ReqInv, RequestThere
<1>3. QED
  BY <1>2 DEF ReqInv

\* What the client sends is behind the request.
LEMMA ReqInvSends ==
    ASSUME WInv, ReqInv, NEW bytes \in Seq(Byte), ClientSends(bytes), asked' = asked
    PROVE  ReqInv'
<1>1. stream' = stream \o bytes /\ buf' = buf /\ mac' = mac /\ state' = state
  BY DEF ClientSends
<1>2. Types /\ buf \in Seq(Byte) /\ stream \in Seq(Byte) /\ bytes \in Seq(Byte)
  BY DEF WInv, Types
<1>3. Whole' = Whole \o bytes
  BY <1>1, <1>2, ConcatAssociative DEF Whole
<1>4. Whole \in Seq(Byte) /\ Len(Whole) \in Nat
  <2>1. Whole \in Seq(Byte)
    BY <1>2, WholeFacts
  <2>2. QED
    BY <2>1, LenProperties
<1> DEFINE w == Whole \o bytes
<1>5. Len(w) = Len(Whole) + Len(bytes) /\ Len(bytes) \in Nat /\ \A j \in 1 .. Len(Whole) : w[j] = Whole[j]
  BY <1>2, <1>4, ConcatBytes, LenProperties
<1> HIDE DEF w
<1>6. ASSUME NEW v, NEW s, Requested(v), Holds(Whole, s, v)
      PROVE  Requested(v)' /\ Holds(w, s, v)
  <2>1. v \in Seq(Variable)
    BY <1>6, RequestedTyped
  <2>2. s[Len(v) + 1] <= Len(Whole) /\ s[Len(v) + 1] \in Nat /\ s[Len(v) + 1] >= 4
    <3>1. Len(v) \in Nat
      BY <2>1, LenProperties
    <3>2. 1 \in 1 .. Len(v) + 1 /\ Len(v) + 1 \in 1 .. Len(v) + 1
      BY <3>1
    <3>3. QED
      BY <1>6, <3>2 DEF Holds, Places
  <2>3. s[Len(v) + 1] <= Len(w) /\ \A j \in 1 .. s[Len(v) + 1] : w[j] = Whole[j]
    BY <1>4, <1>5, <2>2
  <2>4. Holds(w, s, v)
    BY <1>6, <2>1, <2>3, HoldsSame
  <2>5. w[1] = Whole[1]
    BY <1>4, <1>5, <2>2
  <2>6. QED
    BY <1>1, <1>3, <1>6, <2>4, <2>5 DEF Requested, Question, w
<1>7. RequestThere'
  BY <1>1, <1>3, <1>6 DEF ReqInv, RequestThere, w
<1>8. QED
  BY <1>1, <1>7 DEF ReqInv

LEMMA ReqInvNext == WInv /\ ReqInv /\ [Next]_vars => ReqInv'
<1> SUFFICES ASSUME WInv, ReqInv, [Next]_vars PROVE ReqInv'
  OBVIOUS
<1>1. CASE UNCHANGED vars
  BY <1>1, ReqInvSame DEF vars, Whole
<1>2. CASE Control
  BY <1>2 DEF Control, ReqInv, RequestThere
<1>3. CASE Tunnelling /\ UNCHANGED <<asked, reply>>
  <2>1. asked' = asked
    BY <1>3
  <2>2. CASE \E n \in ChunkSizes : Arrive(n)
    <3>1. PICK n \in ChunkSizes : Arrive(n)
      BY <2>2
    <3>2. Whole' = Whole
      BY <3>1, ArriveKeeps
    <3>3. QED
      BY <2>1, <3>1, <3>2, ReqInvSame DEF Arrive
  <2>3. CASE Handshake
    BY <2>1, <2>3, HandshakeReads
  <2>4. CASE ReplyWritten
    BY <2>1, <2>4, ReqInvSame DEF ReplyWritten, Whole
  <2>5. CASE HandleFrame
    BY <2>5 DEF HandleFrame, ReqInv, RequestThere
  <2>6. CASE HandlePing
    BY <2>6 DEF HandlePing, ReqInv, RequestThere
  <2>7. CASE HandleClose
    BY <2>7 DEF HandleClose, ReqInv, RequestThere
  <2>8. CASE \E p \in TapPayloads : TapFrame(p)
    BY <2>1, <2>8, ReqInvSame DEF TapFrame, Whole
  <2>9. CASE \E p \in Payloads : \E ext \in LengthForms(Len(p)) : SendFrame(p, ext)
    <3>0. PICK p \in Payloads : \E ext \in LengthForms(Len(p)) : SendFrame(p, ext)
      BY <2>9
    <3>1. PICK ext \in LengthForms(Len(p)) : SendFrame(p, ext)
      BY <3>0
    <3>2. ClientFrame(p, ext) \in Seq(Byte)
      <4>1. p \in Frame /\ ClientFrame(p, ext) \in SentAs(p)
        BY FramesGiven DEF SentAs
      <4>2. QED
        BY <4>1, SentBytes
    <3>3. QED
      BY <2>1, <3>1, <3>2, ReqInvSends DEF SendFrame
  <2>10. CASE \E bytes \in {ClientPing, CloseMessage} : SendControl(bytes)
    <3>1. PICK bytes \in {ClientPing, CloseMessage} : SendControl(bytes)
      BY <2>10
    <3>2. bytes \in Seq(Byte)
      <4>1. <<>> \in Seq(Byte) /\ Len(<<>>) = 0
        OBVIOUS
      <4>2. <<>> \in Frame /\ bytes \in SentAs(<<>>)
        BY <4>1 DEF Frame, SentAs
      <4>3. QED
        BY <4>2, SentBytes
    <3>3. QED
      BY <2>1, <3>1, <3>2, ReqInvSends DEF SendControl
  <2>11. QED
    BY <1>3, <2>2, <2>3, <2>4, <2>5, <2>6, <2>7, <2>8, <2>9, <2>10 DEF Tunnelling
<1>4. QED
  BY <1>1, <1>2, <1>3 DEF Next

\* The address the server keeps is the one the request announces, however the
\* bytes arrive and also when vpn_ws_handshake parses the request again with the
\* NULs of the first time in it.
THEOREM AddressAnnouncedAlways == Spec => []AddressAnnounced
<1>1. Init => WInv /\ ReqInv
  BY WInvInit, ReqInvInit
<1>2. WInv /\ ReqInv /\ [Next]_vars => WInv' /\ ReqInv'
  BY WInvNext, ReqInvNext
<1>3. ReqInv => AddressAnnounced
  BY DEF ReqInv, AddressAnnounced
<1>4. QED
  BY <1>1, <1>2, <1>3, PTL DEF Spec

-----------------------------------------------------------------------------
(* What a control request asks for *)

\* vpn_ws_str_to_uint, byte by byte.
OneMore(y, b) == Wrapped(10 * y + Char(b) - Zero)

Reads(f, s) ==
    /\ f \in [0 .. Len(s) -> Int] /\ f[0] = 0
    /\ \A i \in 1 .. Len(s) : f[i] = OneMore(f[i - 1], s[i])

LEMMA WrappedType == ASSUME NEW n \in Int PROVE Wrapped(n) \in Int
<1>1. IntHalf \in Nat /\ IntHalf > 0
  BY IntSize
<1> DEFINE w == 2 * IntHalf
<1>2. w \in Nat /\ w > 0 /\ n + IntHalf \in Int
  BY <1>1
<1> HIDE DEF w
<1>3. (n + IntHalf) % w \in 0 .. w - 1
  BY <1>2
<1>4. QED
  BY <1>1, <1>2, <1>3 DEF Wrapped, w

\* A number that an int holds stays what it is.
LEMMA WrappedSame == ASSUME NEW n \in Nat, n < IntHalf PROVE Wrapped(n) = n
<1>1. IntHalf \in Nat /\ IntHalf > 0
  BY IntSize
<1> DEFINE w == 2 * IntHalf
           x == n + IntHalf
<1>2. w \in Nat /\ w > 0 /\ x \in 0 .. w - 1
  BY <1>1
<1> HIDE DEF w, x
<1>3. x % w = x
  BY <1>2
<1>4. x - IntHalf = n
  BY <1>1 DEF x
<1>5. QED
  BY <1>3, <1>4 DEF Wrapped, w, x

LEMMA OneMoreType ==
    ASSUME NEW y \in Int, NEW b \in Int
    PROVE  OneMore(y, b) \in Int
<1>1. Char(b) \in Int
  BY DEF Char
<1>2. 10 * y + Char(b) - Zero \in Int
  BY <1>1 DEF Zero
<1>3. QED
  BY <1>2, WrappedType DEF OneMore

LEMMA NumberRead ==
    ASSUME NEW s \in Seq(Byte)
    PROVE  \E f : Reads(f, s) /\ StrToUint(s) = f[Len(s)]
<1>1. Len(s) \in Nat /\ \A i \in 1 .. Len(s) : s[i] \in Int
  <2>1. Len(s) \in Nat /\ \A i \in 1 .. Len(s) : s[i] \in Byte
    BY LenProperties, ElementOfSeq
  <2>2. \A x \in Byte : x \in Int
    BY DEF Byte
  <2>3. QED
    BY <2>1, <2>2
<1> DEFINE n == Len(s)
           Turn(f, i) == IF i = 0 THEN 0 ELSE OneMore(f[i - 1], s[i])
           step == [x \in Int \X (1 .. n) |-> OneMore(x[1], s[x[2]])]
<1>2. step \in [Int \X (1 .. n) -> Int]
  <2>1. ASSUME NEW x \in Int \X (1 .. n) PROVE OneMore(x[1], s[x[2]]) \in Int
    <3>1. x[1] \in Int /\ s[x[2]] \in Int
      BY <1>1
    <3>2. QED
      BY <3>1, OneMoreType
  <2>2. QED
    BY <2>1
<1>3. \A y \in Int, i \in 1 .. n : step[<<y, i>>] = OneMore(y, s[i])
  OBVIOUS
<1> HIDE DEF step, n
<1>4. n \in Nat /\ 0 \in Int
  BY <1>1 DEF n
<1>5. PICK f \in [0 .. n -> Int] : f[0] = 0 /\ \A i \in 1 .. n : f[i] = step[<<f[i - 1], i>>]
  <2>1. Turns(step, n, Int)
    BY <1>2 DEF Turns
  <2>2. PICK f : Runs(f, 0, step, n, Int)
    BY <1>4, <2>1, Iterates
  <2>3. QED
    BY <2>2 DEF Runs
<1>6. ASSUME NEW i \in 1 .. n PROVE f[i] = OneMore(f[i - 1], s[i])
  <2>1. i - 1 \in 0 .. n
    BY <1>4
  <2>2. f[i - 1] \in Int
    BY <1>5, <2>1
  <2>3. QED
    BY <1>3, <1>5, <2>2
<1>7. f = [i \in 0 .. n |-> Turn(f, i)]
  <2>1. ASSUME NEW i \in 0 .. n PROVE f[i] = Turn(f, i)
    <3>1. i = 0 \/ i \in 1 .. n
      BY <1>4
    <3>2. i \in 1 .. n => i # 0
      OBVIOUS
    <3>3. QED
      BY <1>5, <1>6, <3>1, <3>2
  <2> HIDE DEF Turn
  <2>2. QED
    BY <1>5, <2>1
<1> DEFINE h == CHOOSE g : g = [i \in 0 .. n |-> Turn(g, i)]
<1>8. h = [i \in 0 .. n |-> Turn(h, i)]
  <2> HIDE DEF Turn
  <2>1. QED
    BY <1>7
<1>9. StrToUint(s) = h[n]
  BY DEF StrToUint, OneMore, n
<1> HIDE DEF h
<1>10. \A i \in 0 .. n : h[i] = Turn(h, i)
  <2> HIDE DEF Turn
  <2>1. QED
    BY <1>8
<1>11. h[0] = 0 /\ \A i \in 1 .. n : h[i] = OneMore(h[i - 1], s[i])
  BY <1>4, <1>10
<1>12. \A i \in 0 .. n : h[i] \in Int
  <2> DEFINE U == {i \in 0 .. n : h[i] \notin Int}
  <2>1. SUFFICES ASSUME U # {} PROVE FALSE
    OBVIOUS
  <2>2. U \in SUBSET Nat
    BY <1>4
  <2>3. PICK m \in U : \A k \in U : m <= k
    BY <2>1, <2>2, Least
  <2>4. m \in 0 .. n /\ h[m] \notin Int
    OBVIOUS
  <2>5. m \in 1 .. n /\ m - 1 \in 0 .. n /\ ~(m <= m - 1)
    BY <1>4, <1>11, <2>4
  <2>6. h[m - 1] \in Int /\ s[m] \in Int
    BY <1>1, <2>3, <2>5 DEF n
  <2>7. h[m] = OneMore(h[m - 1], s[m])
    BY <1>11, <2>5
  <2>8. QED
    BY <2>4, <2>6, <2>7, OneMoreType
<1>13. h \in [0 .. n -> Int]
  <2>1. h = [i \in 0 .. n |-> h[i]]
    <3> HIDE DEF Turn
    <3>1. QED
      BY <1>8, <1>10
  <2>2. QED
    BY <1>12, <2>1
<1>14. QED
  BY <1>9, <1>11, <1>13 DEF Reads, n

\* The key, an equal sign and something.
Match(s) == Len(s) > Len(KillKey) + 1 /\ SubSeq(s, 1, Len(KillKey) + 1) = KillKey \o <<Equal>>

LEMMA MatchBytes ==
    ASSUME NEW s \in Seq(Byte)
    PROVE  Match(s) <=> /\ Len(s) > Len(KillKey) + 1 /\ s[Len(KillKey) + 1] = Equal
                        /\ \A i \in 1 .. Len(KillKey) : s[i] = KillKey[i]
<1> DEFINE L == Len(KillKey)
           k == KillKey \o <<Equal>>
           c == SubSeq(s, 1, L + 1)
<1>1. KillKey \in Seq(Byte) /\ L \in Nat /\ Len(s) \in Nat
  BY WireConstants, LenProperties
<1>2. <<Equal>> \in Seq(Byte) /\ Len(<<Equal>>) = 1 /\ <<Equal>>[1] = Equal
  BY DEF Byte, Equal
<1>3. /\ k \in Seq(Byte) /\ Len(k) = L + 1 /\ (\A i \in 1 .. L : k[i] = KillKey[i]) /\ k[L + 1] = Equal
  <2> DEFINE t == <<Equal>>
  <2>1. t \in Seq(Byte) /\ Len(t) = 1 /\ t[1] = Equal
    BY <1>2
  <2> HIDE DEF t
  <2>2. /\ KillKey \o t \in Seq(Byte) /\ Len(KillKey \o t) = L + Len(t)
        /\ \A i \in 1 .. L : (KillKey \o t)[i] = KillKey[i]
        /\ \A i \in 1 .. Len(t) : (KillKey \o t)[L + i] = t[i]
    BY <1>1, <2>1, ConcatBytes
  <2>3. 1 \in 1 .. Len(t)
    BY <2>1
  <2>4. QED
    BY <2>1, <2>2, <2>3 DEF t
<1>4. ASSUME Len(s) > L + 1
      PROVE  c \in Seq(Byte) /\ Len(c) = L + 1 /\ \A i \in 1 .. L + 1 : c[i] = s[i]
  <2>1. 1 \in Nat /\ L + 1 \in Nat /\ 1 >= 1 /\ L + 1 <= Len(s)
    BY <1>1, <1>4
  <2> DEFINE a == 1
             e == L + 1
  <2> HIDE DEF a, e
  <2>2. /\ SubSeq(s, a, e) \in Seq(Byte) /\ Len(SubSeq(s, a, e)) = IF a <= e THEN e - a + 1 ELSE 0
        /\ \A i \in 1 .. e - a + 1 : SubSeq(s, a, e)[i] = s[a + i - 1]
    <3>1. a \in Nat /\ e \in Nat /\ a >= 1 /\ e <= Len(s)
      BY <2>1 DEF a, e
    <3>2. QED
      BY <3>1, CutFacts
  <2>3. \A i \in 1 .. L + 1 : i \in 1 .. e - a + 1 /\ a + i - 1 = i
    BY <1>1 DEF a, e
  <2>4. SubSeq(s, a, e) = c
    BY DEF a, e
  <2>5. (IF a <= e THEN e - a + 1 ELSE 0) = L + 1
    BY <1>1 DEF a, e
  <2> HIDE DEF c
  <2>6. QED
    BY <2>2, <2>3, <2>4, <2>5
<1> HIDE DEF c, k, L
<1>5. ASSUME Len(s) > L + 1, c = k PROVE s[L + 1] = Equal /\ \A i \in 1 .. L : s[i] = KillKey[i]
  <2>1. L + 1 \in 1 .. L + 1 /\ \A i \in 1 .. L : i \in 1 .. L + 1
    BY <1>1
  <2>2. QED
    BY <1>3, <1>4, <1>5, <2>1
<1>6. ASSUME Len(s) > L + 1, s[L + 1] = Equal, \A i \in 1 .. L : s[i] = KillKey[i] PROVE c = k
  <2>1. c \in Seq(Byte) /\ k \in Seq(Byte) /\ Len(c) = Len(k)
    BY <1>3, <1>4, <1>6
  <2>2. ASSUME NEW i \in 1 .. Len(c) PROVE c[i] = k[i]
    <3>1. i \in 1 .. L + 1 /\ (i = L + 1 \/ i \in 1 .. L)
      BY <1>1, <1>4, <1>6
    <3>2. QED
      BY <1>3, <1>4, <1>6, <3>1
  <2>3. QED
    BY <2>1, <2>2, SeqEqual
<1>7. Match(s) <=> Len(s) > L + 1 /\ c = k
  BY DEF Match, c, k, L
<1>8. QED
  BY <1>5, <1>6, <1>7 DEF L

\* qs_check returns something exactly for such a string, and then what is behind.
LEMMA CheckMatches ==
    ASSUME NEW s \in Seq(Byte)
    PROVE  /\ Match(s) => /\ QsCheck(s, KillKey) = SubSeq(s, Len(KillKey) + 2, Len(s))
                          /\ QsCheck(s, KillKey) # <<>>
           /\ ~Match(s) => QsCheck(s, KillKey) = <<>>
           /\ QsCheck(s, KillKey) \in Seq(Byte)
<1> DEFINE L == Len(KillKey)
           equals == {i \in DOMAIN s : s[i] = Equal /\ \A j \in 1 .. i - 1 : s[j] # Equal}
           value == QsCheck(s, KillKey)
           rest == SubSeq(s, L + 2, Len(s))
<1>1. /\ KillKey \in Seq(Byte) /\ L \in Nat /\ DOMAIN KillKey = 1 .. L
      /\ Len(s) \in Nat /\ DOMAIN s = 1 .. Len(s)
  BY WireConstants, LenProperties
<1>2. \A i \in 1 .. L : KillKey[i] # Equal
  BY <1>1, WireConstants
<1>3. value = IF equals # {L + 1} \/ SubSeq(s, 1, L) # KillKey THEN <<>> ELSE rest
  BY DEF QsCheck
<1>4. rest \in Seq(Byte) /\ Len(rest) = IF L + 2 <= Len(s) THEN Len(s) - L - 1 ELSE 0
  <2>1. L + 2 \in Nat /\ L + 2 >= 1 /\ Len(s) \in Nat /\ Len(s) <= Len(s)
    BY <1>1
  <2>2. rest \in Seq(Byte) /\ Len(rest) = IF L + 2 <= Len(s) THEN Len(s) - (L + 2) + 1 ELSE 0
    BY <2>1, CutFacts
  <2> HIDE DEF rest, L
  <2>3. Len(s) - (L + 2) + 1 = Len(s) - L - 1
    BY <1>1
  <2>4. QED
    BY <2>2, <2>3
<1>5. ASSUME L + 1 <= Len(s)
      PROVE  SubSeq(s, 1, L) = KillKey <=> \A i \in 1 .. L : s[i] = KillKey[i]
  <2> DEFINE a == 1
             c == SubSeq(s, a, L)
  <2>1. a \in Nat /\ L \in Nat /\ a >= 1 /\ L <= Len(s)
    BY <1>1, <1>5
  <2> HIDE DEF a, L
  <2>2. /\ c \in Seq(Byte) /\ Len(c) = IF a <= L THEN L - a + 1 ELSE 0
        /\ \A i \in 1 .. L - a + 1 : c[i] = s[a + i - 1]
    BY <2>1, CutFacts
  <2> HIDE DEF c
  <2>3. Len(c) = L /\ \A i \in 1 .. L : c[i] = s[i]
    <3>1. \A i \in 1 .. L : i \in 1 .. L - a + 1 /\ a + i - 1 = i
      BY <2>1 DEF a
    <3>2. (IF a <= L THEN L - a + 1 ELSE 0) = L
      BY <2>1 DEF a
    <3>3. QED
      BY <2>2, <3>1, <3>2
  <2>4. (\A i \in 1 .. L : s[i] = KillKey[i]) => c = KillKey
    <3>1. SUFFICES ASSUME \A i \in 1 .. L : s[i] = KillKey[i] PROVE c = KillKey
      OBVIOUS
    <3>2. /\ c \in Seq(Byte) /\ KillKey \in Seq(Byte) /\ Len(c) = Len(KillKey)
          /\ \A i \in 1 .. Len(c) : c[i] = KillKey[i]
      BY <1>1, <2>2, <2>3, <3>1 DEF L
    <3>3. QED
      BY <3>2, SeqEqual
  <2>5. c = KillKey => \A i \in 1 .. L : s[i] = KillKey[i]
    BY <2>3
  <2>6. QED
    BY <2>4, <2>5 DEF c, a
<1>6. ASSUME L + 1 <= Len(s), s[L + 1] = Equal, \A i \in 1 .. L : s[i] = KillKey[i]
      PROVE  equals = {L + 1}
  <2>1. L + 1 \in equals
    <3>1. L + 1 \in 1 .. Len(s) /\ \A j \in 1 .. L + 1 - 1 : j \in 1 .. L
      BY <1>1, <1>6
    <3>2. \A j \in 1 .. L + 1 - 1 : s[j] # Equal
      BY <1>2, <1>6, <3>1
    <3>3. QED
      BY <1>1, <1>6, <3>1, <3>2
  <2>2. ASSUME NEW i \in equals PROVE i = L + 1
    <3>1. i \in 1 .. Len(s) /\ s[i] = Equal /\ \A j \in 1 .. i - 1 : s[j] # Equal
      BY <1>1
    <3> HIDE DEF equals, L
    <3>2. i \notin 1 .. L
      BY <1>2, <1>6, <3>1
    <3>3. L + 1 \notin 1 .. i - 1
      BY <1>6, <3>1
    <3>4. QED
      BY <1>1, <3>1, <3>2, <3>3
  <2>3. QED
    BY <2>1, <2>2
<1>7. equals = {L + 1} => L + 1 <= Len(s) /\ s[L + 1] = Equal
  <2>1. ASSUME equals = {L + 1} PROVE L + 1 \in equals
    BY <2>1
  <2>2. ASSUME L + 1 \in equals PROVE L + 1 \in 1 .. Len(s) /\ s[L + 1] = Equal
    BY <1>1, <2>2
  <2> HIDE DEF equals, L
  <2>3. QED
    BY <1>1, <2>1, <2>2
<1>8. Match(s) <=> /\ Len(s) > L + 1 /\ s[L + 1] = Equal
                   /\ \A i \in 1 .. L : s[i] = KillKey[i]
  BY MatchBytes
<1> HIDE DEF equals, L, value, rest
<1>9. ASSUME Match(s) PROVE value = rest /\ Len(rest) > 0
  <2>1. L + 1 <= Len(s) /\ L + 2 <= Len(s)
    BY <1>1, <1>8, <1>9
  <2>2. equals = {L + 1} /\ SubSeq(s, 1, L) = KillKey
    BY <1>5, <1>6, <1>8, <1>9, <2>1
  <2>3. QED
    BY <1>1, <1>3, <1>4, <2>1, <2>2
<1>10. ASSUME ~Match(s) PROVE value = <<>>
  <2>1. SUFFICES ASSUME equals = {L + 1}, SubSeq(s, 1, L) = KillKey PROVE rest = <<>>
    BY <1>3
  <2>2. L + 1 <= Len(s) /\ s[L + 1] = Equal /\ \A i \in 1 .. L : s[i] = KillKey[i]
    BY <1>5, <1>7, <2>1
  <2>3. ~(L + 2 <= Len(s))
    BY <1>1, <1>8, <1>10, <2>2
  <2>4. Len(rest) = 0
    BY <1>4, <2>3
  <2>5. QED
    BY <1>4, <2>4, EmptySeq
<1>11. value \in Seq(Byte)
  <2>1. <<>> \in Seq(Byte)
    OBVIOUS
  <2>2. QED
    BY <1>3, <1>4, <2>1
<1>12. Len(rest) > 0 => rest # <<>>
  OBVIOUS
<1>13. QED
  BY <1>9, <1>10, <1>11, <1>12 DEF value, rest, L

\* No part that names somebody to kill starts in the first n bytes.
NoneBefore(qs, n) == \A other \in Kills(qs) : n < other[1]

\* A part of a query string lies between a start and an end that are borders.
LEMMA KillsAre ==
    ASSUME NEW qs \in Seq(Byte), NEW part
    PROVE  part \in Kills(qs) <=>
             /\ part \in (1 .. Len(qs)) \X (1 .. Len(qs)) /\ part[1] <= part[2]
             /\ \A i \in part[1] .. part[2] : qs[i] # Amp
             /\ part[1] > 1 => qs[part[1] - 1] = Amp
             /\ part[2] < Len(qs) => qs[part[2] + 1] = Amp
             /\ Match(SubSeq(qs, part[1], part[2]))
<1>1. DOMAIN qs = 1 .. Len(qs)
  BY LenProperties
<1>2. QED
  BY <1>1 DEF Kills, Parts, Match

\* The check of a part that is complete, when no earlier one named somebody.
LEMMA PartChecked ==
    ASSUME NEW qs \in Seq(Byte), NEW a \in Nat, NEW e \in Nat, a >= 1, a <= e + 1, e <= Len(qs),
           \A j \in a .. e : qs[j] # Amp, a = 1 \/ qs[a - 1] = Amp,
           e = Len(qs) \/ qs[e + 1] = Amp, NoneBefore(qs, a - 1),
           NEW value, value = QsCheck(SubSeq(qs, a, e), KillKey)
    PROVE  /\ value \in Seq(Byte)
           /\ value # <<>> => /\ <<a, e>> \in Kills(qs)
                              /\ value = SubSeq(qs, a + Len(KillKey) + 1, e)
           /\ value = <<>> => NoneBefore(qs, e + 1)
<1> DEFINE text == SubSeq(qs, a, e)
           L == Len(KillKey)
<1>1. Len(qs) \in Nat /\ L \in Nat
  BY WireConstants, LenProperties
<1>2. /\ text \in Seq(Byte) /\ Len(text) = IF a <= e THEN e - a + 1 ELSE 0
      /\ \A i \in 1 .. e - a + 1 : text[i] = qs[a + i - 1]
  BY CutFacts
<1> HIDE DEF text
<1>3. /\ Match(text) => value = SubSeq(text, L + 2, Len(text)) /\ value # <<>>
      /\ ~Match(text) => value = <<>>
      /\ value \in Seq(Byte)
  BY <1>2, CheckMatches DEF text
<1>4. ASSUME Match(text)
      PROVE  <<a, e>> \in Kills(qs) /\ SubSeq(text, L + 2, Len(text)) = SubSeq(qs, a + L + 1, e)
  <2>1. Len(text) > L + 1
    BY <1>4 DEF Match
  <2> HIDE DEF L
  <2>2. a <= e /\ Len(text) = e - a + 1
    BY <1>1, <1>2, <2>1
  <2>3. a \in 1 .. Len(qs) /\ e \in 1 .. Len(qs)
    BY <1>1, <2>2
  <2>4. <<a, e>> \in Kills(qs)
    <3> DEFINE part == <<a, e>>
    <3>1. part[1] = a /\ part[2] = e /\ part \in (1 .. Len(qs)) \X (1 .. Len(qs))
      BY <2>3
    <3> HIDE DEF part
    <3>2. part[1] > 1 => qs[part[1] - 1] = Amp
      BY <3>1
    <3>3. part[2] < Len(qs) => qs[part[2] + 1] = Amp
      BY <1>1, <3>1
    <3>4. Match(SubSeq(qs, part[1], part[2]))
      BY <1>4, <3>1 DEF text
    <3>5. part \in Kills(qs)
      BY <2>2, <3>1, <3>2, <3>3, <3>4, KillsAre
    <3>6. QED
      BY <3>5 DEF part
  <2>5. SubSeq(text, L + 2, Len(text)) = SubSeq(qs, a + L + 1, e)
    <3> DEFINE u == L + 2
               n == Len(text)
               b == a + L + 1
               x == SubSeq(text, u, n)
               y == SubSeq(qs, b, e)
    <3>1. /\ u \in Nat /\ n \in Nat /\ u >= 1 /\ n <= Len(text)
          /\ b \in Nat /\ b >= 1 /\ n - u + 1 = e - b + 1 /\ u <= n /\ b <= e
      BY <1>1, <2>1, <2>2
    <3>2. \A i \in 1 .. n - u + 1 : u + i - 1 \in 1 .. e - a + 1 /\ a + (u + i - 1) - 1 = b + i - 1
      BY <1>1, <2>1, <2>2
    <3> HIDE DEF u, n, b
    <3>3. /\ x \in Seq(Byte) /\ Len(x) = IF u <= n THEN n - u + 1 ELSE 0
          /\ \A i \in 1 .. n - u + 1 : x[i] = text[u + i - 1]
      BY <1>2, <3>1, CutFacts
    <3>4. /\ y \in Seq(Byte) /\ Len(y) = IF b <= e THEN e - b + 1 ELSE 0
          /\ \A i \in 1 .. e - b + 1 : y[i] = qs[b + i - 1]
      BY <3>1, CutFacts
    <3> HIDE DEF x, y
    <3>5. Len(x) = Len(y) /\ Len(x) = n - u + 1 /\ Len(x) = e - b + 1
      BY <3>1, <3>3, <3>4
    <3>6. ASSUME NEW i \in 1 .. Len(x) PROVE x[i] = y[i]
      <4>1. i \in 1 .. n - u + 1 /\ i \in 1 .. e - b + 1
        BY <3>5
      <4>2. x[i] = text[u + i - 1] /\ y[i] = qs[b + i - 1]
        BY <3>3, <3>4, <4>1
      <4>3. text[u + i - 1] = qs[a + (u + i - 1) - 1] /\ a + (u + i - 1) - 1 = b + i - 1
        BY <1>2, <3>2, <4>1
      <4>4. QED
        BY <4>2, <4>3
    <3>7. x = y
      BY <3>3, <3>4, <3>5, <3>6, SeqEqual
    <3>8. QED
      BY <3>7 DEF x, y, u, n, b
  <2>6. QED
    BY <2>4, <2>5
<1>5. ASSUME ~Match(text) PROVE NoneBefore(qs, e + 1)
  <2> SUFFICES ASSUME NEW part \in Kills(qs) PROVE e + 1 < part[1]
    BY DEF NoneBefore
  <2> DEFINE p == part[1]
             q == part[2]
  <2>1. /\ part \in (1 .. Len(qs)) \X (1 .. Len(qs)) /\ p <= q
        /\ \A i \in p .. q : qs[i] # Amp
        /\ p > 1 => qs[p - 1] = Amp
        /\ q < Len(qs) => qs[q + 1] = Amp
        /\ Match(SubSeq(qs, p, q))
    BY KillsAre
  <2>2. p \in 1 .. Len(qs) /\ q \in 1 .. Len(qs) /\ a - 1 < p
    BY <2>1 DEF NoneBefore
  <2> HIDE DEF p, q
  <2>3. p # e + 1
    <3>1. ASSUME p = e + 1 PROVE FALSE
      <4>1. qs[e + 1] # Amp
        BY <2>1, <2>2, <3>1
      <4>2. e # Len(qs)
        BY <1>1, <2>2, <3>1
      <4>3. QED
        BY <4>1, <4>2
    <3>2. QED
      BY <3>1
  <2>4. ASSUME p <= e PROVE FALSE
    <3>1. p = a
      <4>1. ASSUME p # a PROVE FALSE
        <5>1. p > 1 /\ p - 1 \in a .. e
          BY <2>2, <2>4, <4>1
        <5>2. QED
          BY <2>1, <5>1
      <4>2. QED
        BY <4>1
    <3>2. q <= e
      <4>1. ASSUME e < q PROVE FALSE
        <5>1. e + 1 \in p .. q /\ e # Len(qs)
          BY <1>1, <2>2, <2>4, <4>1
        <5>2. QED
          BY <2>1, <5>1
      <4>2. QED
        BY <2>2, <4>1
    <3>3. q = e
      <4>1. ASSUME q # e PROVE FALSE
        <5>1. q < Len(qs) /\ q + 1 \in a .. e
          BY <1>1, <2>1, <2>2, <3>1, <3>2, <4>1
        <5>2. QED
          BY <2>1, <5>1
      <4>2. QED
        BY <4>1
    <3>4. QED
      BY <1>5, <2>1, <3>1, <3>3 DEF text
  <2>5. QED
    BY <1>1, <2>2, <2>3, <2>4 DEF p
<1>6. QED
  BY <1>3, <1>4, <1>5 DEF L

\* One turn of qs_get's loop, and what is known after i of them: somebody has been
\* found in the first part that names somebody, or there is none before the current
\* part.
ScanTurn(qs, r, i) ==
    LET start == IF r.found = 0 THEN i ELSE r.found
    IN IF r.value # <<>> THEN r
       ELSE IF qs[i] = Amp
       THEN [found |-> 0, len |-> 0,
             value |-> QsCheck(SubSeq(qs, start, start + r.len - 1), KillKey)]
       ELSE [found |-> start, len |-> r.len + 1, value |-> <<>>]

ScanStates == [found : Nat, len : Nat, value : Seq(Byte)]

First(qs, value) ==
    \E part \in Kills(qs) : /\ value = SubSeq(qs, part[1] + Len(KillKey) + 1, part[2])
                            /\ \A other \in Kills(qs) : part[1] <= other[1]

Scanned(qs, r, i) ==
    /\ r \in ScanStates
    /\ r.value # <<>> => First(qs, r.value)
    /\ r.value = <<>> =>
         LET start == IF r.found = 0 THEN i + 1 ELSE r.found
         IN /\ start >= 1 /\ start <= i + 1 /\ r.len = i + 1 - start
            /\ start = 1 \/ qs[start - 1] = Amp
            /\ \A j \in start .. i : qs[j] # Amp
            /\ NoneBefore(qs, start - 1)

\* The first part that names somebody is one that none comes before.
LEMMA FirstFound ==
    ASSUME NEW qs \in Seq(Byte), NEW a \in Nat, NEW e, <<a, e>> \in Kills(qs), NoneBefore(qs, a - 1),
           NEW value, value = SubSeq(qs, a + Len(KillKey) + 1, e)
    PROVE  First(qs, value)
<1> DEFINE part == <<a, e>>
<1>1. part \in Kills(qs) /\ part[1] = a /\ part[2] = e
  OBVIOUS
<1> HIDE DEF part
<1>2. ASSUME NEW other \in Kills(qs) PROVE part[1] <= other[1]
  <2>1. other[1] \in 1 .. Len(qs) /\ a - 1 < other[1]
    BY KillsAre DEF NoneBefore
  <2>2. QED
    BY <1>1, <2>1
<1>3. QED
  BY <1>1, <1>2 DEF First

LEMMA TurnScans ==
    ASSUME NEW qs \in Seq(Byte), NEW i \in 1 .. Len(qs), NEW r, Scanned(qs, r, i - 1)
    PROVE  Scanned(qs, ScanTurn(qs, r, i), i)
<1> DEFINE t == ScanTurn(qs, r, i)
           start == IF r.found = 0 THEN i ELSE r.found
           value == QsCheck(SubSeq(qs, start, start + r.len - 1), KillKey)
<1>1. Len(qs) \in Nat /\ i \in Nat /\ i >= 1 /\ i <= Len(qs)
  BY LenProperties
<1>2. r \in ScanStates /\ r.found \in Nat /\ r.len \in Nat /\ r.value \in Seq(Byte)
  BY DEF Scanned, ScanStates
<1>3. CASE r.value # <<>>
  <2>1. t = r
    BY <1>3 DEF ScanTurn
  <2>2. QED
    BY <1>2, <1>3, <2>1 DEF Scanned
<1>4. CASE r.value = <<>>
  <2>1. /\ start \in Nat /\ start >= 1 /\ start <= i /\ r.len = i - start
        /\ start = 1 \/ qs[start - 1] = Amp
        /\ \A j \in start .. i - 1 : qs[j] # Amp
        /\ NoneBefore(qs, start - 1)
    <3> DEFINE s == IF r.found = 0 THEN i - 1 + 1 ELSE r.found
    <3>1. s = start
      BY <1>1
    <3>2. /\ s >= 1 /\ s <= i - 1 + 1 /\ r.len = i - 1 + 1 - s
          /\ s = 1 \/ qs[s - 1] = Amp
          /\ \A j \in s .. i - 1 : qs[j] # Amp
          /\ NoneBefore(qs, s - 1)
      BY <1>4 DEF Scanned
    <3>3. start \in Nat
      BY <1>1, <1>2
    <3> HIDE DEF s, start
    <3>4. QED
      BY <1>1, <3>1, <3>2, <3>3
  <2>2. CASE qs[i] = Amp
    <3>1. t = [found |-> 0, len |-> 0, value |-> value]
      BY <1>4, <2>2 DEF ScanTurn
    <3> HIDE DEF start
    <3>2. start + r.len - 1 = i - 1 /\ i - 1 \in Nat /\ i - 1 <= Len(qs) /\ i - 1 + 1 = i
      BY <1>1, <2>1
    <3> DEFINE e == i - 1
    <3>3. value = QsCheck(SubSeq(qs, start, e), KillKey)
      BY <3>2
    <3>4. /\ e \in Nat /\ start <= e + 1 /\ e <= Len(qs) /\ e + 1 = i
          /\ \A j \in start .. e : qs[j] # Amp
          /\ e = Len(qs) \/ qs[e + 1] = Amp
      BY <2>1, <2>2, <3>2
    <3> HIDE DEF value, t, e
    <3>5. /\ value \in Seq(Byte)
          /\ value # <<>> => /\ <<start, e>> \in Kills(qs)
                             /\ value = SubSeq(qs, start + Len(KillKey) + 1, e)
          /\ value = <<>> => NoneBefore(qs, e + 1)
      BY <2>1, <3>3, <3>4, PartChecked
    <3>6. t \in ScanStates /\ t.found = 0 /\ t.len = 0 /\ t.value = value
      BY <3>1, <3>5 DEF ScanStates
    <3>7. value # <<>> => First(qs, value)
      BY <2>1, <3>5, FirstFound
    <3>8. i + 1 >= 1 /\ i + 1 <= i + 1 /\ 0 = i + 1 - (i + 1) /\ i + 1 - 1 = i
      BY <1>1
    <3>9. \A j \in i + 1 .. i : qs[j] # Amp
      BY <1>1
    <3>10. qs[i + 1 - 1] = Amp /\ (value = <<>> => NoneBefore(qs, i + 1 - 1))
      BY <2>2, <3>4, <3>5, <3>8
    <3>11. QED
      BY <3>6, <3>7, <3>8, <3>9, <3>10 DEF Scanned, t
  <2>3. CASE qs[i] # Amp
    <3>1. t = [found |-> start, len |-> r.len + 1, value |-> <<>>]
      BY <1>4, <2>3 DEF ScanTurn
    <3> HIDE DEF start, t
    <3>2. <<>> \in Seq(Byte)
      OBVIOUS
    <3>3. t \in ScanStates /\ t.found = start /\ t.len = r.len + 1 /\ t.value = <<>>
      BY <1>2, <2>1, <3>1, <3>2 DEF ScanStates
    <3>4. start # 0 /\ start <= i + 1 /\ r.len + 1 = i + 1 - start
      BY <1>1, <2>1
    <3>5. \A j \in start .. i : qs[j] # Amp
      <4> SUFFICES ASSUME NEW j \in start .. i PROVE qs[j] # Amp
        OBVIOUS
      <4>1. j = i \/ j \in start .. i - 1
        BY <1>1, <2>1
      <4>2. QED
        BY <2>1, <2>3, <4>1
    <3>6. QED
      BY <2>1, <3>3, <3>4, <3>5 DEF Scanned, t
  <2>4. QED
    BY <2>2, <2>3
<1>5. QED
  BY <1>3, <1>4

ScanStart == [found |-> 1, len |-> 0, value |-> <<>>]

ScanStep(qs, f, i) == Scanned(qs, f[i - 1], i - 1) => f[i] = ScanTurn(qs, f[i - 1], i)

LEMMA AllScanned ==
    ASSUME NEW qs \in Seq(Byte), NEW f, f[0] = ScanStart, \A i \in 1 .. Len(qs) : ScanStep(qs, f, i)
    PROVE  \A i \in 0 .. Len(qs) : Scanned(qs, f[i], i)
<1> DEFINE U == {i \in 0 .. Len(qs) : ~Scanned(qs, f[i], i)}
<1>1. SUFFICES ASSUME U # {} PROVE FALSE
  OBVIOUS
<1>2. Len(qs) \in Nat
  BY LenProperties
<1>3. U \in SUBSET Nat
  BY <1>2
<1>4. PICK m \in U : \A k \in U : m <= k
  BY <1>1, <1>3, Least
<1>5. m \in 0 .. Len(qs) /\ ~Scanned(qs, f[m], m)
  OBVIOUS
<1>6. CASE m = 0
  <2> DEFINE r == ScanStart
  <2>1. r.found = 1 /\ r.len = 0 /\ r.value = <<>> /\ <<>> \in Seq(Byte)
    BY DEF ScanStart
  <2>2. r \in ScanStates
    BY <2>1 DEF ScanStates, ScanStart
  <2> HIDE DEF r
  <2>3. \A other \in Kills(qs) : 1 - 1 < other[1]
    <3>1. \A other \in Kills(qs) : other[1] \in 1 .. Len(qs)
      BY KillsAre
    <3>2. QED
      BY <1>2, <3>1
  <2>4. Scanned(qs, r, 0)
    BY <2>1, <2>2, <2>3 DEF Scanned, NoneBefore
  <2>5. QED
    BY <1>5, <1>6, <2>4 DEF r
<1>7. CASE m # 0
  <2>1. m \in 1 .. Len(qs) /\ m - 1 \in 0 .. Len(qs) /\ ~(m <= m - 1)
    BY <1>2, <1>5, <1>7
  <2>2. Scanned(qs, f[m - 1], m - 1)
    BY <1>4, <2>1
  <2>3. f[m] = ScanTurn(qs, f[m - 1], m)
    BY <2>1, <2>2 DEF ScanStep
  <2>4. Scanned(qs, ScanTurn(qs, f[m - 1], m), m)
    BY <2>1, <2>2, TurnScans
  <2>5. QED
    BY <1>5, <2>3, <2>4
<1>8. QED
  BY <1>6, <1>7

\* The loop of qs_get.
LEMMA ScanRuns ==
    ASSUME NEW qs \in Seq(Byte)
    PROVE  \E r : /\ Scanned(qs, r, Len(qs))
                  /\ QsGet(qs, KillKey) =
                       IF r.value = <<>> /\ r.len > 0
                       THEN QsCheck(SubSeq(qs, r.found, r.found + r.len - 1), KillKey)
                       ELSE r.value
<1> DEFINE n == Len(qs)
           Turn(f, i) == IF i = 0 THEN ScanStart ELSE ScanTurn(qs, f[i - 1], i)
           step == [x \in ScanStates \X (1 .. n) |->
                      IF Scanned(qs, x[1], x[2] - 1) THEN ScanTurn(qs, x[1], x[2]) ELSE x[1]]
<1>1. n \in Nat
  BY LenProperties
<1>2. \A y \in ScanStates, i \in 1 .. n :
        step[<<y, i>>] = IF Scanned(qs, y, i - 1) THEN ScanTurn(qs, y, i) ELSE y
  OBVIOUS
<1>3. \A y \in ScanStates, i \in 1 .. n :
        Scanned(qs, y, i - 1) => ScanTurn(qs, y, i) \in ScanStates
  BY TurnScans DEF Scanned
<1>4. Turns(step, n, ScanStates)
  <2>1. ASSUME NEW x \in ScanStates \X (1 .. n) PROVE step[x] \in ScanStates
    <3>1. x[1] \in ScanStates /\ x[2] \in 1 .. n
      OBVIOUS
    <3>2. QED
      BY <1>3, <3>1
  <2>2. step = [x \in ScanStates \X (1 .. n) |-> step[x]]
    OBVIOUS
  <2> HIDE DEF step
  <2>3. QED
    BY <2>1, <2>2 DEF Turns
<1> HIDE DEF step
<1>5. ScanStart \in ScanStates
  BY DEF ScanStart, ScanStates
<1>6. PICK f : Runs(f, ScanStart, step, n, ScanStates)
  BY <1>1, <1>4, <1>5, Iterates
<1>7. /\ f \in [0 .. n -> ScanStates] /\ f[0] = ScanStart
      /\ \A i \in 1 .. n : f[i] = step[<<f[i - 1], i>>]
  BY <1>6 DEF Runs
<1>8. ASSUME NEW i \in 1 .. n PROVE ScanStep(qs, f, i)
  <2>1. i - 1 \in 0 .. n
    BY <1>1
  <2>2. f[i - 1] \in ScanStates
    BY <1>7, <2>1
  <2>3. QED
    BY <1>2, <1>7, <2>2 DEF ScanStep
<1>9. \A i \in 0 .. n : Scanned(qs, f[i], i)
  BY <1>7, <1>8, AllScanned
<1>10. ASSUME NEW i \in 0 .. n PROVE f[i] = Turn(f, i)
  <2>1. i = 0 \/ (i # 0 /\ i \in 1 .. n /\ i - 1 \in 0 .. n)
    BY <1>1
  <2>2. i # 0 => f[i] = ScanTurn(qs, f[i - 1], i)
    BY <1>8, <1>9, <2>1 DEF ScanStep
  <2>3. QED
    BY <1>7, <2>1, <2>2
<1>11. f = [i \in 0 .. n |-> Turn(f, i)]
  <2> HIDE DEF Turn
  <2>1. QED
    BY <1>7, <1>10
<1> DEFINE h == CHOOSE g : g = [i \in 0 .. n |-> Turn(g, i)]
<1>12. h = [i \in 0 .. n |-> Turn(h, i)]
  <2> HIDE DEF Turn
  <2>1. QED
    BY <1>11
<1>13. QsGet(qs, KillKey) =
         IF h[n].value = <<>> /\ h[n].len > 0
         THEN QsCheck(SubSeq(qs, h[n].found, h[n].found + h[n].len - 1), KillKey)
         ELSE h[n].value
  BY DEF QsGet, ScanTurn, ScanStart
<1> HIDE DEF h
<1>14. \A i \in 0 .. n : h[i] = Turn(h, i)
  <2> HIDE DEF Turn
  <2>1. QED
    BY <1>12
<1>15. h[0] = ScanStart /\ \A i \in 1 .. n : ScanStep(qs, h, i)
  <2>1. 0 \in 0 .. n /\ \A i \in 1 .. n : i \in 0 .. n /\ i # 0
    BY <1>1
  <2>2. QED
    BY <1>14, <2>1 DEF ScanStep
<1>16. Scanned(qs, h[n], n)
  <2>1. \A i \in 0 .. n : Scanned(qs, h[i], i)
    BY <1>15, AllScanned
  <2>2. n \in 0 .. n
    BY <1>1
  <2>3. QED
    BY <2>1, <2>2
<1>17. QED
  BY <1>13, <1>16

\* qs_get finds the first part that names somebody, and nothing when none does.
LEMMA QsGetFinds ==
    ASSUME NEW qs \in Seq(Byte), NEW value, value = QsGet(qs, KillKey)
    PROVE  /\ value # <<>> => value \in Seq(Byte) /\ First(qs, value)
           /\ value = <<>> => Kills(qs) = {}
<1> DEFINE n == Len(qs)
<1>1. n \in Nat
  BY LenProperties
<1>2. PICK r : /\ Scanned(qs, r, n)
               /\ value = IF r.value = <<>> /\ r.len > 0
                          THEN QsCheck(SubSeq(qs, r.found, r.found + r.len - 1), KillKey)
                          ELSE r.value
  BY ScanRuns
<1>3. r.found \in Nat /\ r.len \in Nat /\ r.value \in Seq(Byte)
  BY <1>2 DEF Scanned, ScanStates
<1>4. NoneBefore(qs, n) \/ NoneBefore(qs, n + 1) => Kills(qs) = {}
  <2>1. \A part \in Kills(qs) : part[1] \in 1 .. n
    BY KillsAre
  <2>2. \A part \in Kills(qs) : ~(n < part[1]) /\ ~(n + 1 < part[1])
    BY <1>1, <2>1
  <2>3. QED
    BY <2>2 DEF NoneBefore
<1>5. CASE r.value # <<>>
  BY <1>2, <1>3, <1>5 DEF Scanned
<1>6. CASE r.value = <<>>
  <2> DEFINE start == IF r.found = 0 THEN n + 1 ELSE r.found
  <2>1. /\ start >= 1 /\ start <= n + 1 /\ r.len = n + 1 - start
        /\ start = 1 \/ qs[start - 1] = Amp
        /\ \A j \in start .. n : qs[j] # Amp
        /\ NoneBefore(qs, start - 1)
    BY <1>2, <1>6 DEF Scanned
  <2>2. start \in Nat /\ (r.len > 0 => start = r.found)
    BY <1>1, <1>3, <2>1
  <2> HIDE DEF start
  <2>3. CASE r.len > 0
    <3>1. start + r.len - 1 = n
      BY <1>1, <2>1, <2>2
    <3>2. value = QsCheck(SubSeq(qs, start, n), KillKey)
      BY <1>2, <1>6, <2>2, <2>3, <3>1
    <3> DEFINE e == n
    <3>3. /\ e \in Nat /\ start <= e + 1 /\ e <= Len(qs) /\ e = Len(qs)
          /\ \A j \in start .. e : qs[j] # Amp
          /\ value = QsCheck(SubSeq(qs, start, e), KillKey)
      BY <1>1, <2>1, <3>2
    <3> HIDE DEF e, n
    <3>4. /\ value \in Seq(Byte)
          /\ value # <<>> => /\ <<start, e>> \in Kills(qs)
                             /\ value = SubSeq(qs, start + Len(KillKey) + 1, e)
          /\ value = <<>> => NoneBefore(qs, e + 1)
      <4>1. /\ start \in Nat /\ start >= 1
            /\ start = 1 \/ qs[start - 1] = Amp
            /\ NoneBefore(qs, start - 1)
        BY <2>1, <2>2
      <4>2. /\ e \in Nat /\ start <= e + 1 /\ e <= Len(qs)
            /\ e = Len(qs) \/ qs[e + 1] = Amp
        BY <3>3
      <4>3. QED
        BY <3>3, <4>1, <4>2, PartChecked
    <3>5. value # <<>> => First(qs, value)
      BY <2>1, <2>2, <3>4, FirstFound
    <3>6. QED
      BY <1>4, <3>4, <3>5 DEF e
  <2>4. CASE ~(r.len > 0)
    <3>1. value = <<>>
      BY <1>2, <1>6, <2>4
    <3>2. start - 1 = n
      BY <1>1, <1>3, <2>1, <2>2, <2>4
    <3>3. QED
      BY <1>4, <2>1, <3>1, <3>2
  <2>5. QED
    BY <2>3, <2>4
<1>7. QED
  BY <1>5, <1>6

\* Taking the last digit off a number makes it no larger.
LEMMA DigitOff ==
    ASSUME NEW y \in Nat
    PROVE  /\ y \div 10 \in Nat /\ y \div 10 <= y /\ y % 10 \in 0 .. 9
           /\ y = 10 * (y \div 10) + (y % 10)
OBVIOUS

\* What the digits of a number leave when the last ones are taken off, one by one.
Leaves(h, v, n) ==
    /\ h \in [0 .. n -> Nat] /\ h[0] = v
    /\ \A k \in 1 .. n : h[k] = h[k - 1] \div 10

LEMMA StandsLeaves ==
    ASSUME NEW s, Len(s) \in Nat, NEW v \in Nat, Stands(s, v)
    PROVE  \E h : /\ Leaves(h, v, Len(s)) /\ h[Len(s)] = 0
                  /\ \A k \in DOMAIN s : s[k] = Zero + (h[Len(s) - k] % 10)
<1> DEFINE n == Len(s)
           Turn(g, k) == IF k = 0 THEN v ELSE g[k - 1] \div 10
           h == CHOOSE g : g = [k \in 0 .. n |-> Turn(g, k)]
<1>1. h[n] = 0 /\ \A k \in DOMAIN s : s[k] = Zero + (h[n - k] % 10)
  BY DEF Stands
<1> DEFINE step == [x \in Nat \X (1 .. n) |-> x[1] \div 10]
<1>2. step \in [Nat \X (1 .. n) -> Nat]
  <2>1. \A x \in Nat \X (1 .. n) : x[1] \in Nat
    OBVIOUS
  <2>2. \A y \in Nat : y \div 10 \in Nat
    OBVIOUS
  <2>3. QED
    BY <2>1, <2>2
<1>3. \A y \in Nat, k \in 1 .. n : step[<<y, k>>] = y \div 10
  OBVIOUS
<1> HIDE DEF step, n
<1>4. n \in Nat
  BY DEF n
<1>5. PICK f \in [0 .. n -> Nat] : f[0] = v /\ \A k \in 1 .. n : f[k] = step[<<f[k - 1], k>>]
  <2>1. Turns(step, n, Nat)
    BY <1>2 DEF Turns
  <2>2. PICK f : Runs(f, v, step, n, Nat)
    BY <1>4, <2>1, Iterates
  <2>3. QED
    BY <2>2 DEF Runs
<1>6. ASSUME NEW k \in 1 .. n PROVE f[k] = f[k - 1] \div 10
  <2>1. k - 1 \in 0 .. n
    BY <1>4
  <2>2. f[k - 1] \in Nat
    BY <1>5, <2>1
  <2>3. QED
    BY <1>3, <1>5, <2>2
<1>7. f = [k \in 0 .. n |-> Turn(f, k)]
  <2>1. ASSUME NEW k \in 0 .. n PROVE f[k] = Turn(f, k)
    <3>1. k = 0 \/ (k \in 1 .. n /\ k # 0)
      BY <1>4
    <3>2. QED
      BY <1>5, <1>6, <3>1
  <2> HIDE DEF Turn
  <2>2. QED
    BY <1>5, <2>1
<1>8. h = [k \in 0 .. n |-> Turn(h, k)]
  <2> HIDE DEF Turn
  <2>1. QED
    BY <1>7
<1> HIDE DEF h
<1>9. \A k \in 0 .. n : h[k] = Turn(h, k)
  <2> HIDE DEF Turn
  <2>1. QED
    BY <1>8
<1>10. h[0] = v /\ \A k \in 1 .. n : h[k] = h[k - 1] \div 10
  <2>1. 0 \in 0 .. n /\ \A k \in 1 .. n : k \in 0 .. n /\ k # 0
    BY <1>4
  <2>2. QED
    BY <1>9, <2>1
<1>11. \A k \in 0 .. n : h[k] \in Nat
  <2> DEFINE U == {k \in 0 .. n : h[k] \notin Nat}
  <2>1. SUFFICES ASSUME U # {} PROVE FALSE
    OBVIOUS
  <2>2. U \in SUBSET Nat
    BY <1>4
  <2>3. PICK m \in U : \A k \in U : m <= k
    BY <2>1, <2>2, Least
  <2>4. m \in 0 .. n /\ h[m] \notin Nat
    OBVIOUS
  <2>5. m \in 1 .. n /\ m - 1 \in 0 .. n /\ ~(m <= m - 1)
    BY <1>4, <1>10, <2>4
  <2>6. h[m - 1] \in Nat
    BY <2>3, <2>5
  <2>7. h[m] \in Nat
    BY <1>10, <2>5, <2>6, DigitOff
  <2>8. QED
    BY <2>4, <2>7
<1>12. h \in [0 .. n -> Nat]
  <2>1. h = [k \in 0 .. n |-> h[k]]
    <3> HIDE DEF Turn
    <3>1. QED
      BY <1>8, <1>9
  <2>2. QED
    BY <1>11, <2>1
<1>13. Leaves(h, v, n)
  BY <1>10, <1>12 DEF Leaves
<1>14. QED
  BY <1>1, <1>13 DEF n

LEMMA LeavesLess ==
    ASSUME NEW n \in Nat, NEW v \in Nat, NEW h, Leaves(h, v, n)
    PROVE  \A k \in 0 .. n : h[k] <= v
<1> DEFINE U == {k \in 0 .. n : ~(h[k] <= v)}
<1>1. SUFFICES ASSUME U # {} PROVE FALSE
  OBVIOUS
<1>2. U \in SUBSET Nat
  OBVIOUS
<1>3. PICK m \in U : \A k \in U : m <= k
  BY <1>1, <1>2, Least
<1>4. m \in 0 .. n /\ ~(h[m] <= v)
  OBVIOUS
<1>5. m \in 1 .. n /\ m - 1 \in 0 .. n /\ ~(m <= m - 1)
  BY <1>4 DEF Leaves
<1>6. h[m - 1] <= v /\ h[m - 1] \in Nat /\ h[m] = h[m - 1] \div 10
  BY <1>3, <1>5 DEF Leaves
<1> DEFINE y == h[m - 1]
<1>7. y \in Nat /\ y <= v /\ y \div 10 \in Nat /\ y \div 10 <= y
  BY <1>6, DigitOff
<1>8. QED
  BY <1>4, <1>6, <1>7

LEMMA DigitsNamed ==
    ASSUME NEW part, NEW s, s = SubSeq(asked, part[1] + Len(KillKey) + 1, part[2]), s \in Seq(Byte)
    PROVE  Named(part, StrToUint(s))
<1>1. Len(s) \in Nat /\ DOMAIN s = 1 .. Len(s)
  BY LenProperties
<1>2. SUFFICES ASSUME NEW v \in 0 .. IntHalf - 1, Stands(s, v) PROVE StrToUint(s) = v
  BY DEF Named
<1> DEFINE L == Len(s)
<1>3. v \in Nat /\ v < IntHalf
  BY IntSize
<1>4. PICK h : /\ Leaves(h, v, L) /\ h[L] = 0
               /\ \A k \in DOMAIN s : s[k] = Zero + (h[L - k] % 10)
  <2>1. Len(s) \in Nat /\ v \in Nat /\ Stands(s, v)
    BY <1>1, <1>2, <1>3
  <2> HIDE DEF L
  <2>2. \E h : /\ Leaves(h, v, Len(s)) /\ h[Len(s)] = 0
               /\ \A k \in DOMAIN s : s[k] = Zero + (h[Len(s) - k] % 10)
    BY <2>1, StandsLeaves, Zenon
  <2>3. QED
    BY <2>2 DEF L
<1>5. PICK f : Reads(f, s) /\ StrToUint(s) = f[L]
  BY NumberRead
<1>6. f[0] = 0 /\ \A i \in 1 .. L : f[i] = OneMore(f[i - 1], s[i])
  BY <1>5 DEF Reads
<1>7. h[0] = v /\ \A k \in 1 .. L : h[k] = h[k - 1] \div 10
  BY <1>4 DEF Leaves
<1>8. \A k \in 0 .. L : h[k] \in Nat /\ h[k] < IntHalf
  <2>1. \A k \in 0 .. L : h[k] \in Nat
    BY <1>4 DEF Leaves
  <2>2. \A k \in 0 .. L : h[k] <= v
    BY <1>1, <1>3, <1>4, LeavesLess
  <2>3. IntHalf \in Nat
    BY IntSize
  <2>4. QED
    BY <1>3, <2>1, <2>2, <2>3
<1> HIDE DEF L
<1>9. ASSUME NEW i \in 1 .. L, f[i - 1] = h[L - (i - 1)] PROVE f[i] = h[L - i]
  <2>1. L - i \in 0 .. L /\ L - (i - 1) \in 1 .. L /\ L - (i - 1) - 1 = L - i
    BY <1>1 DEF L
  <2> DEFINE y == h[L - i]
             d == y % 10
  <2>2. f[i - 1] = y \div 10 /\ s[i] = Zero + d
    BY <1>1, <1>4, <1>7, <1>9, <2>1 DEF L
  <2>3. y \in Nat /\ y < IntHalf
    BY <1>8, <2>1
  <2>4. d \in 0 .. 9 /\ y = 10 * (y \div 10) + d /\ y \div 10 \in Nat
    BY <2>3, DigitOff
  <2> HIDE DEF y, d
  <2>5. Char(Zero + d) = Zero + d
    BY <2>4 DEF Char, Zero
  <2>6. 10 * (y \div 10) + Char(Zero + d) - Zero = y
    BY <2>3, <2>4, <2>5 DEF Zero
  <2>7. OneMore(y \div 10, Zero + d) = y
    BY <2>3, <2>6, WrappedSame DEF OneMore
  <2>8. QED
    BY <1>6, <2>2, <2>7 DEF y
<1>10. \A i \in 0 .. L : f[i] = h[L - i]
  <2> DEFINE U == {i \in 0 .. L : f[i] # h[L - i]}
  <2>1. SUFFICES ASSUME U # {} PROVE FALSE
    OBVIOUS
  <2>2. U \in SUBSET Nat
    BY <1>1 DEF L
  <2>3. PICK m \in U : \A k \in U : m <= k
    BY <2>1, <2>2, Least
  <2>4. m \in 0 .. L /\ f[m] # h[L - m]
    OBVIOUS
  <2>5. m # 0
    <3>1. L - 0 = L
      BY <1>1 DEF L
    <3>2. QED
      BY <1>4, <1>6, <2>4, <3>1
  <2>6. m \in 1 .. L /\ m - 1 \in 0 .. L /\ ~(m <= m - 1)
    BY <1>1, <2>4, <2>5 DEF L
  <2>7. f[m - 1] = h[L - (m - 1)]
    BY <2>3, <2>6
  <2>8. QED
    BY <1>9, <2>4, <2>6, <2>7
<1>11. L \in 0 .. L /\ L - L = 0
  BY <1>1 DEF L
<1>12. QED
  BY <1>5, <1>7, <1>10, <1>11

\* A control request is answered as its query string says, or not at all.
AnswerInv == reply = NoReply \/ (asked \in Queries /\ reply \in ControlReplies(asked))

LEMMA ControlReads ==
    ASSUME WInv, ReqInv, AnswerInv, Control
    PROVE  AnswerInv'
<1> DEFINE parsed == UwsgiParse(buf)
           query == Found(parsed.vars, QueryVar)
           value(i) == SubSeq(buf, parsed.vars[i].at, parsed.vars[i].at + parsed.vars[i].len - 1)
           q == Chain(UwsgiNext(buf), 4)
           w == parsed.vars
           c == CHOOSE i \in query : TRUE
<1>1. state = "shaking" /\ UwsgiArrived(buf) /\ buf[1] = 1 /\ asked' = asked
  BY DEF Control
<1>2. Types /\ buf \in Seq(Byte)
  BY DEF WInv, Types
<1>3. PICK v, s : Requested(v) /\ Holds(Whole, s, v)
  BY <1>1 DEF ReqInv, RequestThere
<1>4. Holds(buf, s, v) /\ buf[1] = Whole[1] /\ Len(buf) \in Nat
  BY <1>1, <1>2, <1>3, RequestInBuf
<1>5. v = Question /\ asked \in Queries /\ v \in Seq(Variable)
  BY <1>1, <1>3, <1>4, RequestedTyped DEF Requested
<1>6. /\ Len(v) = 1 /\ v[1].key = QueryVar /\ v[1].value = asked
      /\ asked \in Seq(Byte) /\ QueryVar \in Seq(Byte)
  <2>1. Len(v) = 1 /\ v[1].key = QueryVar /\ v[1].value = asked
    BY <1>5 DEF Question
  <2>2. v[1] \in Variable
    BY <1>5, <2>1, ElementOfSeq
  <2>3. QED
    BY <2>1, <2>2 DEF Variable
<1> DEFINE l == Len(QueryVar)
           m == Len(asked)
<1>7. l \in Nat /\ m \in Nat
  BY <1>6, LenProperties
<1>8. /\ s[1] = 4 /\ s[2] = 8 + l + m /\ UwsgiSize(buf) = s[2] /\ s[2] <= Len(buf)
      /\ \A i \in 1 .. m : buf[8 + l + i] = asked[i]
  <2>1. Places(s, v) /\ UwsgiSize(buf) = s[Len(v) + 1] /\ s[Len(v) + 1] <= Len(buf)
    BY <1>4 DEF Holds
  <2>2. 1 \in 1 .. Len(v) /\ 1 + 1 = 2
    BY <1>6
  <2>3. s[1] = 4 /\ s[1 + 1] = s[1] + 4 + Len(v[1].key) + Len(v[1].value)
    BY <2>1, <2>2 DEF Places
  <2>4. ValueAt(buf, s[1], v[1])
    BY <1>4, <2>2 DEF Holds
  <2>5. QueryVar # MacVar
    BY RequestAddresses
  <2>6. \A i \in 1 .. m : buf[4 + 4 + l + i] = asked[i]
    BY <1>6, <2>3, <2>4, <2>5 DEF ValueAt
  <2> HIDE DEF l, m
  <2>7. \A i \in 1 .. m : buf[8 + l + i] = asked[i]
    BY <1>7, <2>6
  <2>8. s[2] = 4 + 4 + l + m
    BY <1>6, <2>2, <2>3 DEF l, m
  <2>9. QED
    BY <1>6, <1>7, <2>1, <2>2, <2>3, <2>7, <2>8
<1>9. /\ Len(q) \in Nat /\ Len(q) >= 1 /\ \A k \in 1 .. Len(q) : k <= Len(v) + 1 /\ q[k] = s[k]
      /\ DOMAIN w = 1 .. Len(q) - 1
      /\ \A k \in 1 .. Len(q) - 1 :
           /\ k \in 1 .. Len(v) /\ w[k].key = v[k].key
           /\ w[k].at = s[k] + 4 + Len(v[k].key) + 1 /\ w[k].len = Len(v[k].value)
  BY <1>1, <1>2, <1>4, <1>5, FoundThere
<1>10. CASE ~parsed.ok
  <2>1. reply' = reply
    BY <1>10 DEF Control
  <2>2. QED
    BY <1>1, <2>1 DEF AnswerInv, ControlReplies, ListReplies, ListReply, NotAList, NoReply
<1>11. CASE parsed.ok
  <2>1. q[Len(q)] = s[2]
    <3>1. Last(q) = UwsgiSize(buf)
      BY <1>11 DEF UwsgiParse
    <3>2. QED
      BY <1>8, <3>1 DEF Last
  <2> HIDE DEF l, m, q, w
  <2>2. Len(q) = 2
    <3>1. Len(q) \in 1 .. Len(q)
      BY <1>9
    <3>2. Len(q) <= 2 /\ q[Len(q)] = s[Len(q)]
      BY <1>6, <1>9, <3>1
    <3>3. s[1] # s[2]
      BY <1>7, <1>8
    <3>4. Len(q) # 1
      BY <2>1, <3>2, <3>3
    <3> DEFINE n == Len(q)
    <3>5. n \in Nat /\ n >= 1 /\ n <= 2 /\ n # 1
      BY <1>9, <3>2, <3>4
    <3> HIDE DEF n
    <3>6. n = 2
      BY <3>5
    <3>7. QED
      BY <3>6 DEF n
  <2>3. /\ DOMAIN w = {1} /\ w[1].key = QueryVar /\ w[1].at = 9 + l /\ w[1].len = m
    <3>1. 1 \in 1 .. Len(q) - 1 /\ 1 .. Len(q) - 1 = {1}
      BY <2>2
    <3>2. w[1].at = s[1] + 4 + Len(v[1].key) + 1 /\ w[1].len = Len(v[1].value) /\ w[1].key = v[1].key
      BY <1>9, <3>1
    <3>3. w[1].at = 4 + 4 + l + 1
      BY <1>6, <1>8, <3>2 DEF l
    <3>4. w[1].at = 9 + l
      BY <1>7, <3>3
    <3>5. DOMAIN w = {1}
      BY <1>9, <3>1
    <3>6. QED
      BY <1>6, <3>2, <3>4, <3>5 DEF m
  <2>4. Len(w) = 1
    <3> DEFINE S == {w[1]}
    <3>1. w = [k \in 1 .. Len(q) - 1 |-> w[k]]
      BY <1>9 DEF w, q, UwsgiParse
    <3> DEFINE n == 1
    <3>2. n \in Nat /\ w \in [1 .. n -> S]
      BY <2>2, <3>1
    <3> HIDE DEF n, S
    <3>3. Len(w) = n
      BY <3>2, FunctionSeq
    <3>4. QED
      BY <3>3 DEF n
  <2>5. query = {1}
    <3>1. \A i \in DOMAIN w : i + 1 .. Len(w) = {}
      BY <2>3, <2>4
    <3>2. query = {i \in DOMAIN w : w[i].key = QueryVar /\ \A j \in i + 1 .. Len(w) : w[j].key # QueryVar}
      BY DEF Found, w
    <3> HIDE DEF query
    <3>3. QED
      BY <2>3, <3>1, <3>2
  <2>6. value(1) = asked
    <3> DEFINE a == 9 + l
               e == 8 + l + m
               x == SubSeq(buf, a, e)
    <3>1. a \in Nat /\ e \in Nat /\ a >= 1 /\ e <= Len(buf) /\ e - a + 1 = m /\ (a <= e \/ m = 0)
      BY <1>7, <1>8
    <3>2. \A i \in 1 .. m : a + i - 1 = 8 + l + i
      BY <1>7
    <3>3. value(1) = x
      <4>1. w[1].at + w[1].len - 1 = e
        BY <1>7, <2>3
      <4>2. QED
        BY <2>3, <4>1 DEF w
    <3> HIDE DEF a, e
    <3>4. /\ x \in Seq(Byte) /\ Len(x) = IF a <= e THEN e - a + 1 ELSE 0
          /\ \A i \in 1 .. e - a + 1 : x[i] = buf[a + i - 1]
      BY <1>2, <3>1, CutFacts
    <3> HIDE DEF x
    <3>5. Len(x) = m
      BY <1>7, <3>1, <3>4
    <3>6. ASSUME NEW i \in 1 .. Len(x) PROVE x[i] = asked[i]
      <4>1. i \in 1 .. m /\ i \in 1 .. e - a + 1
        BY <3>1, <3>5
      <4>2. x[i] = buf[a + i - 1] /\ a + i - 1 = 8 + l + i
        BY <3>2, <3>4, <4>1
      <4>3. QED
        BY <1>8, <4>1, <4>2
    <3>7. Len(x) = Len(asked) /\ x \in Seq(Byte) /\ asked \in Seq(Byte)
      BY <1>6, <3>4, <3>5 DEF m
    <3>8. x = asked
      BY <3>6, <3>7, SeqEqual
    <3>9. QED
      BY <3>3, <3>8
  <2>7. reply' \in ControlReplies(IF query = {} THEN <<>> ELSE value(c))
    BY <1>11 DEF Control
  <2>8. c = 1
    <3> HIDE DEF query
    <3>1. QED
      BY <2>5
  <2>9. reply' \in ControlReplies(asked)
    <3> HIDE DEF query, value, c
    <3>1. QED
      BY <2>5, <2>6, <2>7, <2>8
  <2>10. QED
    BY <1>1, <1>5, <2>9 DEF AnswerInv, ControlReplies, ListReplies, ListReply, NotAList, NoReply
<1>12. QED
  BY <1>10, <1>11

LEMMA AnswerInvNext == WInv /\ ReqInv /\ AnswerInv /\ [Next]_vars => AnswerInv'
<1> SUFFICES ASSUME WInv, ReqInv, AnswerInv, [Next]_vars PROVE AnswerInv'
  OBVIOUS
<1>1. CASE Control
  BY <1>1, ControlReads
<1>2. CASE UNCHANGED <<asked, reply>>
  BY <1>2 DEF AnswerInv, ControlReplies, ListReplies, ListReply, NotAList, NoReply
<1>3. QED
  BY <1>1, <1>2 DEF Next, vars

LEMMA AnswerNamed == AnswerInv => KillNamed
<1> SUFFICES ASSUME AnswerInv PROVE KillNamed
  OBVIOUS
<1>1. CASE reply = NoReply
  BY <1>1 DEF KillNamed, NoReply
<1>2. CASE asked \in Queries /\ reply \in ControlReplies(asked)
  <2> DEFINE kill == QsGet(asked, KillKey)
  <2>1. asked \in Seq(Byte)
    <3> DEFINE v == Question
    <3>1. v \in AllRequests /\ v \in Seq(Variable)
      <4>1. v \in AllRequests
        BY <1>2 DEF AllRequests, Question
      <4> HIDE DEF v
      <4>2. QED
        BY <4>1, RequestSizes
    <3>2. Len(v) = 1 /\ v[1].value = asked
      BY DEF Question
    <3> HIDE DEF v
    <3>3. v[1] \in Variable
      BY <3>1, <3>2, ElementOfSeq
    <3>4. QED
      BY <3>2, <3>3 DEF Variable
  <2>2. /\ kill # <<>> => kill \in Seq(Byte) /\ First(asked, kill)
        /\ kill = <<>> => Kills(asked) = {}
    BY <2>1, QsGetFinds
  <2>3. /\ kill # <<>> => reply = [NoReply EXCEPT !.to = "kill", !.fd = StrToUint(kill)]
        /\ kill = <<>> => reply = NotAList \/ \E table \in PeerTables : reply = ListReply(table)
    BY <1>2 DEF ControlReplies, ListReplies
  <2> HIDE DEF kill
  <2>4. CASE kill # <<>>
    <3>1. reply.to = "kill" /\ reply.fd = StrToUint(kill)
      BY <2>3, <2>4 DEF NoReply
    <3>2. PICK part \in Kills(asked) :
            /\ kill = SubSeq(asked, part[1] + Len(KillKey) + 1, part[2])
            /\ \A other \in Kills(asked) : part[1] <= other[1]
      BY <2>2, <2>4 DEF First
    <3>3. Named(part, reply.fd)
      BY <2>2, <2>4, <3>1, <3>2, DigitsNamed
    <3>4. QED
      BY <3>1, <3>2, <3>3 DEF KillNamed
  <2>5. CASE kill = <<>>
    BY <2>2, <2>3, <2>5 DEF KillNamed, ListReply, NotAList, NoReply
  <2>6. QED
    BY <2>4, <2>5
<1>3. QED
  BY <1>1, <1>2 DEF AnswerInv

\* A control request kills the descriptor that the first part with the key and a
\* value names, and nobody when its query string has none: the scan of qs_get, qs_check
\* and vpn_ws_str_to_uint, behind the parser of the request.  A descriptor is named when
\* the value is written in digits and an int holds it, whatever an int's size; a larger
\* one is cut to an int and names another descriptor.
THEOREM KillNamedAlways == Spec => []KillNamed
<1>1. Init => WInv /\ ReqInv /\ AnswerInv
  BY WInvInit, ReqInvInit DEF Init, AnswerInv
<1>2. WInv /\ ReqInv /\ AnswerInv /\ [Next]_vars => WInv' /\ ReqInv' /\ AnswerInv'
  BY WInvNext, ReqInvNext, AnswerInvNext
<1>3. QED
  BY <1>1, <1>2, AnswerNamed, PTL DEF Spec

-----------------------------------------------------------------------------
(* The list of peers read back *)

\* A reader that is r before the bytes of x is s behind them.
Going(g, r, x, s) ==
    /\ g[0] = r /\ g[Len(x)] = s
    /\ \A i \in 1 .. Len(x) : g[i] = ReadByte(g[i - 1], x[i])

Goes(r, x, s) == \E g : Going(g, r, x, s)

LEMMA GoesNothing == ASSUME NEW r PROVE Goes(r, <<>>, r)
<1> DEFINE g == [i \in 0 .. 0 |-> r]
<1>1. g[0] = r /\ Len(<<>>) = 0
  OBVIOUS
<1> HIDE DEF g
<1>2. Going(g, r, <<>>, r)
  BY <1>1 DEF Going
<1>3. QED
  BY <1>2 DEF Goes

LEMMA GoesByte == ASSUME NEW r, NEW b, NEW s, ReadByte(r, b) = s PROVE Goes(r, <<b>>, s)
<1> DEFINE g == [i \in 0 .. 1 |-> IF i = 0 THEN r ELSE s]
           x == <<b>>
<1>1. g[0] = r /\ g[1] = s /\ Len(x) = 1 /\ x[1] = b
  OBVIOUS
<1> HIDE DEF g, x
<1>2. ASSUME NEW i \in 1 .. Len(x) PROVE g[i] = ReadByte(g[i - 1], x[i])
  <2>1. i = 1 /\ i - 1 = 0
    BY <1>1
  <2>2. QED
    BY <1>1, <2>1
<1>3. Going(g, r, x, s)
  BY <1>1, <1>2 DEF Going
<1>4. QED
  BY <1>3 DEF Goes, x

LEMMA GoesOn ==
    ASSUME NEW r, NEW x \in Seq(Byte), NEW s, NEW y \in Seq(Byte), NEW t,
           Goes(r, x, s), Goes(s, y, t)
    PROVE  x \o y \in Seq(Byte) /\ Goes(r, x \o y, t)
<1> DEFINE m == Len(x)
           n == Len(y)
           z == x \o y
<1>1. PICK g : Going(g, r, x, s)
  BY DEF Goes
<1>2. PICK h : Going(h, s, y, t)
  BY DEF Goes
<1>3. /\ z \in Seq(Byte) /\ Len(z) = m + n
      /\ \A i \in 1 .. m : z[i] = x[i]
      /\ \A i \in 1 .. n : z[m + i] = y[i]
  BY ConcatBytes
<1>4. m \in Nat /\ n \in Nat
  BY LenProperties
<1> DEFINE k == [i \in 0 .. m + n |-> IF i <= m THEN g[i] ELSE h[i - m]]
<1>5. /\ g[0] = r /\ g[m] = s /\ \A i \in 1 .. m : g[i] = ReadByte(g[i - 1], x[i])
      /\ h[0] = s /\ h[n] = t /\ \A i \in 1 .. n : h[i] = ReadByte(h[i - 1], y[i])
  BY <1>1, <1>2 DEF Going
<1> HIDE DEF m, n, z
<1>6. \A i \in 0 .. m : k[i] = g[i]
  <2>1. \A i \in 0 .. m : i \in 0 .. m + n /\ i <= m
    BY <1>4
  <2>2. QED
    BY <2>1
<1>7. \A i \in 0 .. n : k[m + i] = h[i]
  <2> TAKE i \in 0 .. n
  <2>1. m + i \in 0 .. m + n /\ (m + i <= m => i = 0) /\ (m + i) - m = i /\ m + 0 = m
    BY <1>4
  <2>2. k[m + i] = IF m + i <= m THEN g[m + i] ELSE h[(m + i) - m]
    BY <2>1
  <2> HIDE DEF k
  <2>3. CASE i = 0
    BY <1>5, <1>4, <2>1, <2>2, <2>3
  <2>4. CASE i # 0
    BY <2>1, <2>2, <2>4
  <2>5. QED
    BY <2>3, <2>4
<1> HIDE DEF k
<1>8. ASSUME NEW i \in 1 .. m + n PROVE k[i] = ReadByte(k[i - 1], z[i])
  <2>1. CASE i <= m
    <3>1. i \in 1 .. m /\ i \in 0 .. m /\ i - 1 \in 0 .. m
      BY <1>4, <2>1
    <3>2. k[i] = g[i] /\ k[i - 1] = g[i - 1] /\ z[i] = x[i]
      BY <1>3, <1>6, <3>1
    <3>3. QED
      BY <1>5, <3>1, <3>2
  <2>2. CASE ~(i <= m)
    <3> DEFINE j == i - m
    <3>1. j \in 1 .. n /\ j \in 0 .. n /\ j - 1 \in 0 .. n /\ m + j = i /\ m + (j - 1) = i - 1
      BY <1>4, <2>2
    <3> HIDE DEF j
    <3>2. k[i] = h[j] /\ k[i - 1] = h[j - 1] /\ z[i] = y[j]
      BY <1>3, <1>7, <3>1
    <3>3. QED
      BY <1>5, <3>1, <3>2
  <2>3. QED
    BY <2>1, <2>2
<1>9. k[0] = r /\ k[m + n] = t
  <2>1. 0 \in 0 .. m /\ n \in 0 .. n
    BY <1>4
  <2>2. QED
    BY <1>5, <1>6, <1>7, <2>1
<1>10. Going(k, r, z, t)
  BY <1>3, <1>8, <1>9 DEF Going
<1>11. QED
  BY <1>3, <1>10 DEF Goes, z

\* The reader that goes over all bytes is the one that Read finds.
LEMMA ReadGoes ==
    ASSUME NEW b \in Seq(Byte), NEW r, Goes(Start, b, r)
    PROVE  Read(b) = r
<1> DEFINE n == Len(b)
           Turn(f, i) == IF i = 0 THEN Start ELSE ReadByte(f[i - 1], b[i])
           Reading(f) == f = [i \in 0 .. n |-> Turn(f, i)]
           read == CHOOSE f : Reading(f)
<1>1. Read(b) = read[n]
  BY DEF Read
<1>2. n \in Nat
  BY LenProperties
<1>3. PICK g : Going(g, Start, b, r)
  BY DEF Goes
<1> HIDE DEF n
<1>4. g[0] = Start /\ g[n] = r /\ \A i \in 1 .. n : g[i] = ReadByte(g[i - 1], b[i])
  BY <1>3 DEF Going, n
<1> DEFINE h == [i \in 0 .. n |-> g[i]]
<1>5. \A i \in 0 .. n : h[i] = Turn(h, i)
  <2> TAKE i \in 0 .. n
  <2>1. h[i] = g[i] /\ (i # 0 => i \in 1 .. n /\ i - 1 \in 0 .. n)
    BY <1>2
  <2>2. i # 0 => h[i - 1] = g[i - 1]
    BY <2>1
  <2> HIDE DEF h
  <2>3. QED
    BY <1>4, <2>1, <2>2
<1>6. Reading(h)
  <2> DEFINE t == [i \in 0 .. n |-> Turn(h, i)]
  <2>1. DOMAIN h = 0 .. n /\ DOMAIN t = 0 .. n /\ \A i \in 0 .. n : h[i] = t[i]
    BY <1>5
  <2>2. h = [i \in DOMAIN h |-> h[i]] /\ t = [i \in DOMAIN t |-> t[i]]
    OBVIOUS
  <2>3. h = t
    <3> HIDE DEF h, t
    <3>1. QED
      BY <2>1, <2>2
  <2>4. QED
    BY <2>3
<1>7. Reading(read)
  <2> HIDE DEF Reading, h
  <2>1. QED
    BY <1>6
<1>8. \A i \in 0 .. n : read[i] = Turn(read, i)
  <2> HIDE DEF read
  <2>1. read = [i \in 0 .. n |-> Turn(read, i)]
    BY <1>7
  <2>2. QED
    BY <2>1
<1> DEFINE T == {i \in 0 .. n : read[i] # h[i]}
<1>9. T = {}
  <2> HIDE DEF read, h
  <2>1. SUFFICES ASSUME T # {} PROVE FALSE
    OBVIOUS
  <2>2. T \in SUBSET Nat
    OBVIOUS
  <2>3. PICK m \in T : \A k \in T : m <= k
    BY <2>1, <2>2, Least
  <2>4. m \in 0 .. n /\ read[m] # h[m]
    OBVIOUS
  <2>5. m # 0 => m - 1 \in 0 .. n /\ ~(m <= m - 1)
    BY <1>2, <2>4
  <2>6. m # 0 => read[m - 1] = h[m - 1]
    BY <2>3, <2>5
  <2>7. Turn(read, m) = Turn(h, m)
    BY <2>6
  <2> HIDE DEF Turn
  <2>8. QED
    BY <1>5, <1>8, <2>4, <2>7
<1>10. n \in 0 .. n /\ h[n] = g[n]
  BY <1>2
<1>11. QED
  BY <1>1, <1>4, <1>9, <1>10

LEMMA GoesJoined ==
    ASSUME NEW pieces \in Seq(Seq(Byte)), NEW at,
           \A i \in 1 .. Len(pieces) : Goes(at[i - 1], pieces[i], at[i])
    PROVE  /\ FlattenSeq(pieces) \in Seq(Byte)
           /\ Goes(at[0], FlattenSeq(pieces), at[Len(pieces)])
<1> DEFINE n == Len(pieces)
<1>1. n \in Nat /\ \A i \in 1 .. n : pieces[i] \in Seq(Byte)
  BY LenProperties, ElementOfSeq
<1>2. PICK f : Joins(f, pieces, Byte) /\ FlattenSeq(pieces) = f[n]
  BY Flattened
<1>3. /\ f \in [0 .. n -> Seq(Byte)] /\ f[0] = <<>>
      /\ \A i \in 1 .. n : f[i] = f[i - 1] \o pieces[i]
  BY <1>2 DEF Joins
<1> DEFINE T == {i \in 0 .. n : ~Goes(at[0], f[i], at[i])}
<1> HIDE DEF n
<1>4. T = {}
  <2>1. SUFFICES ASSUME T # {} PROVE FALSE
    OBVIOUS
  <2>2. T \in SUBSET Nat
    OBVIOUS
  <2>3. PICK m \in T : \A k \in T : m <= k
    BY <2>1, <2>2, Least
  <2>4. m \in 0 .. n /\ ~Goes(at[0], f[m], at[m])
    OBVIOUS
  <2>5. m # 0
    BY <1>3, <2>4, GoesNothing
  <2>6. m - 1 \in 0 .. n /\ ~(m <= m - 1) /\ m \in 1 .. n
    BY <1>1, <2>4, <2>5
  <2>7. Goes(at[0], f[m - 1], at[m - 1])
    BY <2>3, <2>6
  <2>8. Goes(at[m - 1], pieces[m], at[m])
    BY <2>6 DEF n
  <2>9. f[m - 1] \in Seq(Byte) /\ pieces[m] \in Seq(Byte) /\ f[m] = f[m - 1] \o pieces[m]
    BY <1>1, <1>3, <2>6
  <2>10. QED
    BY <2>4, <2>7, <2>8, <2>9, GoesOn
<1>5. n \in 0 .. n
  BY <1>1
<1>6. f[n] \in Seq(Byte) /\ Goes(at[0], f[n], at[n])
  BY <1>3, <1>4, <1>5
<1>7. QED
  BY <1>2, <1>6 DEF n

\* The first i of the values of a function on 1 .. n.
Firsts(v, i) == [k \in 1 .. i |-> v[k]]

LEMMA FirstsFacts ==
    ASSUME NEW v, NEW i \in Nat
    PROVE  /\ Firsts(v, 0) = <<>>
           /\ Append(Firsts(v, i), v[i + 1]) = Firsts(v, i + 1)
<1> DEFINE S == {v[k] : k \in 1 .. i + 1}
           p == Firsts(v, i)
           q == Firsts(v, i + 1)
           a == Append(p, v[i + 1])
<1>1. p \in [1 .. i -> S] /\ q \in [1 .. i + 1 -> S] /\ v[i + 1] \in S
  BY DEF Firsts
<1>2. p \in Seq(S) /\ Len(p) = i /\ q \in Seq(S) /\ Len(q) = i + 1
  <2> HIDE DEF S, p, q
  <2>1. i + 1 \in Nat
    OBVIOUS
  <2>2. QED
    BY <1>1, <2>1, FunctionSeq
<1>3. \A k \in 1 .. i : p[k] = v[k]
  BY DEF Firsts
<1>4. \A k \in 1 .. i + 1 : q[k] = v[k]
  BY DEF Firsts
<1>5. Firsts(v, 0) = <<>>
  BY DEF Firsts
<1> HIDE DEF S, p, q
<1>6. /\ a \in Seq(S) /\ Len(a) = Len(p) + 1 /\ a[Len(p) + 1] = v[i + 1]
      /\ \A k \in 1 .. Len(p) : a[k] = p[k]
  BY <1>1, <1>2, AppendProperties
<1> HIDE DEF a
<1>7. ASSUME NEW k \in 1 .. Len(a) PROVE a[k] = q[k]
  <2>1. k \in 1 .. i \/ k = i + 1
    BY <1>2, <1>6
  <2>2. QED
    BY <1>2, <1>3, <1>4, <1>6, <2>1
<1>8. a = q
  BY <1>2, <1>6, <1>7, SeqEqual
<1>9. QED
  BY <1>5, <1>8 DEF a, p, q

LEMMA FirstsAll == ASSUME NEW S, NEW s \in Seq(S) PROVE Firsts(s, Len(s)) = s
BY DEF Firsts

\* What needs no escapes, as an address.
AddressText == Plain \ {Quote, Backslash}

\* Inside a string
LEMMA TextRead ==
    ASSUME NEW text, NEW items, NEW outer
    PROVE  /\ \A b \in AddressText : ReadByte(Reader("text", text, items, outer), b)
                                        = Reader("text", Append(text, b), items, outer)
           /\ ReadByte(Reader("text", text, items, outer), Quote)
                = Reader("after", <<>>, Append(items, String(text)), outer)
           /\ ReadByte(Reader("text", text, items, outer), Backslash)
                = Reader("escape", text, items, outer)
BY DEF ReadByte, Reader, After, AddressText, Plain, Quote, Backslash, Byte

LEMMA EscapeRead ==
    ASSUME NEW text, NEW items, NEW outer, NEW e \in DOMAIN Escapes
    PROVE  ReadByte(Reader("escape", text, items, outer), Escapes[e])
             = Reader("text", Append(text, e), items, outer)
<1> DEFINE known == {d \in DOMAIN Escapes : Escapes[d] = Escapes[e]}
<1>1. known = {e}
  BY DEF Escapes, Quote, Backslash
<1> HIDE DEF known
<1>2. known # {} /\ (CHOOSE d \in known : TRUE) = e
  BY <1>1
<1>3. QED
  BY <1>2 DEF ReadByte, Reader, known

\* Where a value may be
LEMMA QuoteRead ==
    ASSUME NEW mode \in {"first", "value"}, NEW items, NEW outer
    PROVE  ReadByte(Reader(mode, <<>>, items, outer), Quote) = Reader("text", <<>>, items, outer)
BY DEF ReadByte, Reader, Quote, Backslash, Open, Close, Zero

LEMMA OpenRead ==
    ASSUME NEW mode \in {"first", "value"}, NEW items, NEW outer
    PROVE  ReadByte(Reader(mode, <<>>, items, outer), Open)
             = Reader("first", <<>>, <<>>, <<Reader(mode, <<>>, items, outer)>>)
BY DEF ReadByte, Reader, Quote, Backslash, Open, Close, Zero

LEMMA DigitRead ==
    ASSUME NEW mode \in {"first", "value"}, NEW items, NEW outer, NEW n \in 0 .. 9
    PROVE  ReadByte(Reader(mode, <<>>, items, outer), Zero + n)
             = Reader("number", <<n>>, items, outer)
<1> DEFINE r == Reader(mode, <<>>, items, outer)
           b == Zero + n
<1>1. r.mode = mode /\ r.text = <<>> /\ r.items = items /\ r.outer = outer
  BY DEF Reader
<1>2. b \in Zero .. Zero + 9 /\ b \notin {Quote, Open, Close} /\ b - Zero = n
  BY DEF Zero, Quote, Open, Close
<1> HIDE DEF r, b
<1>3. ReadByte(r, b) = Reader("number", <<b - Zero>>, r.items, r.outer)
  BY <1>1, <1>2 DEF ReadByte
<1>4. QED
  BY <1>1, <1>2, <1>3 DEF r, b

\* Inside a number
LEMMA DigitMore ==
    ASSUME NEW k \in Nat, k # 0, NEW items, NEW outer, NEW n \in 0 .. 9
    PROVE  ReadByte(Reader("number", <<k>>, items, outer), Zero + n)
             = Reader("number", <<10 * k + n>>, items, outer)
<1> DEFINE text == <<k>>
           r == Reader("number", text, items, outer)
           b == Zero + n
<1>1. r.mode = "number" /\ r.text = text /\ r.items = items /\ r.outer = outer
  BY DEF Reader
<1>2. b \in Zero .. Zero + 9 /\ 10 * k + b - Zero = 10 * k + n
  BY DEF Zero
<1>3. text # <<0>> /\ text[1] = k
  OBVIOUS
<1> HIDE DEF r, b, text
<1>4. ReadByte(r, b) = Reader("number", <<10 * r.text[1] + b - Zero>>, r.items, r.outer)
  BY <1>1, <1>2, <1>3 DEF ReadByte
<1>5. QED
  BY <1>1, <1>2, <1>3, <1>4 DEF r, b, text

\* Behind a value, in a list
LEMMA BehindRead ==
    ASSUME NEW mode \in {"first", "after"}, NEW items, NEW out
    PROVE  LET r == Reader(mode, <<>>, items, <<out>>)
           IN /\ mode = "after" => ReadByte(r, Comma) = Reader("value", <<>>, items, <<out>>)
              /\ ReadByte(r, Close) = After(out, List(items))
<1> DEFINE outer == <<out>>
           r == Reader(mode, <<>>, items, outer)
<1>1. outer # <<>> /\ outer[1] = out
  OBVIOUS
<1> HIDE DEF outer
<1>2. r.mode = mode /\ r.items = items /\ r.outer = outer
  BY DEF Reader
<1> HIDE DEF r
<1>3. mode = "after" => ReadByte(r, Comma) = Behind(r, Comma)
  BY <1>2 DEF ReadByte
<1>4. ReadByte(r, Close) = Behind(r, Close)
  BY <1>2 DEF ReadByte, Quote, Open, Close, Zero
<1>5. mode = "after" => Behind(r, Comma) = Reader("value", <<>>, items, outer)
  BY <1>1, <1>2 DEF Behind, Comma, Close
<1>6. Behind(r, Close) = After(out, List(items))
  BY <1>1, <1>2 DEF Behind, Comma, Close
<1>7. QED
  BY <1>3, <1>4, <1>5, <1>6 DEF r, outer

LEMMA NumberEnds ==
    ASSUME NEW n, NEW items, NEW out
    PROVE  ReadByte(Reader("number", <<n>>, items, <<out>>), Comma)
             = Reader("value", <<>>, Append(items, Number(n)), <<out>>)
<1> DEFINE outer == <<out>>
           text == <<n>>
           r == Reader("number", text, items, outer)
           s == After(r, Number(n))
<1>1. outer # <<>> /\ text[1] = n
  OBVIOUS
<1> HIDE DEF outer, text
<1>2. /\ r.mode = "number" /\ r.text = text
      /\ s.mode = "after" /\ s.items = Append(items, Number(n)) /\ s.outer = outer
  BY DEF Reader, After
<1>3. Behind(s, Comma) = Reader("value", <<>>, s.items, s.outer)
  <2> HIDE DEF s
  <2>1. QED
    BY <1>1, <1>2 DEF Behind, Comma, Close
<1>4. ReadByte(r, Comma) = Behind(After(r, Number(r.text[1])), Comma)
  <2> HIDE DEF r
  <2>1. QED
    BY <1>2 DEF ReadByte, Comma, Zero
<1>5. QED
  BY <1>1, <1>2, <1>3, <1>4 DEF outer, text

LEMMA OneByte == ASSUME NEW b \in Byte PROVE <<b>> \in Seq(Byte)
OBVIOUS

LEMMA SpecialBytes == {Quote, Backslash, Comma, Open, Close} \subseteq Byte /\ \A n \in 0 .. 9 : Zero + n \in Byte
BY DEF Byte, Quote, Backslash, Comma, Open, Close, Zero

\* One byte more, of one reader.
LEMMA GoesMore ==
    ASSUME NEW r, NEW x \in Seq(Byte), NEW s, NEW b \in Byte, NEW t,
           Goes(r, x, s), ReadByte(s, b) = t
    PROVE  x \o <<b>> \in Seq(Byte) /\ Goes(r, x \o <<b>>, t)
<1>1. <<b>> \in Seq(Byte) /\ Goes(s, <<b>>, t)
  BY OneByte, GoesByte
<1>2. QED
  BY <1>1, GoesOn

LEMMA PlainReads ==
    ASSUME NEW s \in Seq(AddressText), NEW items, NEW outer
    PROVE  /\ s \in Seq(Byte)
           /\ Goes(Reader("text", <<>>, items, outer), s, Reader("text", s, items, outer))
<1> DEFINE n == Len(s)
           g == [i \in 0 .. n |-> Reader("text", Firsts(s, i), items, outer)]
<1>1. n \in Nat /\ \A i \in 1 .. n : s[i] \in AddressText
  BY LenProperties, ElementOfSeq
<1>2. s \in Seq(Byte)
  BY DEF AddressText, Plain
<1>3. g[0] = Reader("text", <<>>, items, outer) /\ g[n] = Reader("text", s, items, outer)
  <2>1. 0 \in 0 .. n /\ n \in 0 .. n
    BY <1>1
  <2>2. Firsts(s, 0) = <<>> /\ Firsts(s, n) = s
    BY FirstsFacts, FirstsAll
  <2>3. QED
    BY <2>1, <2>2
<1>4. ASSUME NEW i \in 1 .. n PROVE g[i] = ReadByte(g[i - 1], s[i])
  <2>1. i \in 0 .. n /\ i - 1 \in 0 .. n /\ i - 1 \in Nat /\ (i - 1) + 1 = i
    BY <1>1
  <2>2. Append(Firsts(s, i - 1), s[i]) = Firsts(s, i)
    BY <2>1, FirstsFacts
  <2>3. s[i] \in AddressText
    BY <1>1
  <2>4. ReadByte(Reader("text", Firsts(s, i - 1), items, outer), s[i])
          = Reader("text", Append(Firsts(s, i - 1), s[i]), items, outer)
    BY <2>3, TextRead
  <2>5. QED
    BY <2>1, <2>2, <2>4
<1> HIDE DEF g
<1>5. Going(g, Reader("text", <<>>, items, outer), s, Reader("text", s, items, outer))
  BY <1>3, <1>4 DEF Going
<1>6. QED
  BY <1>2, <1>5 DEF Goes

EscapedPiece(s, i) == IF s[i] \in DOMAIN Escapes THEN <<Backslash, Escapes[s[i]]>> ELSE <<s[i]>>

LEMMA EscapedReads ==
    ASSUME NEW s \in Seq(Plain \cup DOMAIN Escapes), NEW items, NEW outer
    PROVE  /\ Escaped(s) \in Seq(Byte)
           /\ Goes(Reader("text", <<>>, items, outer), Escaped(s), Reader("text", s, items, outer))
<1> DEFINE n == Len(s)
           pieces == [i \in 1 .. n |-> EscapedPiece(s, i)]
           at == [i \in 0 .. n |-> Reader("text", Firsts(s, i), items, outer)]
<1>1. n \in Nat /\ DOMAIN s = 1 .. n /\ \A i \in 1 .. n : s[i] \in Plain \cup DOMAIN Escapes
  BY LenProperties, ElementOfSeq
<1>2. Escaped(s) = FlattenSeq(pieces)
  BY <1>1 DEF Escaped, EscapedPiece
<1>3. at[0] = Reader("text", <<>>, items, outer) /\ at[n] = Reader("text", s, items, outer)
  <2>1. 0 \in 0 .. n /\ n \in 0 .. n
    BY <1>1
  <2>2. Firsts(s, 0) = <<>> /\ Firsts(s, n) = s
    BY FirstsFacts, FirstsAll
  <2>3. QED
    BY <2>1, <2>2
<1>4. ASSUME NEW i \in 1 .. n
      PROVE  EscapedPiece(s, i) \in Seq(Byte) /\ Goes(at[i - 1], EscapedPiece(s, i), at[i])
  <2> DEFINE p == Firsts(s, i - 1)
             q == Firsts(s, i)
  <2>1. i \in 0 .. n /\ i - 1 \in 0 .. n /\ i - 1 \in Nat /\ (i - 1) + 1 = i
    BY <1>1
  <2>2. Append(p, s[i]) = q
    BY <2>1, FirstsFacts
  <2>3. at[i - 1] = Reader("text", p, items, outer) /\ at[i] = Reader("text", q, items, outer)
    BY <2>1
  <2> HIDE DEF at, p, q
  <2>4. CASE s[i] \in DOMAIN Escapes
    <3> DEFINE e == Escapes[s[i]]
               r == Reader("escape", p, items, outer)
    <3>1. e \in Byte
      BY <2>4 DEF Escapes, Byte, Quote, Backslash
    <3>2. <<Backslash>> \in Seq(Byte) /\ Goes(at[i - 1], <<Backslash>>, r)
      BY <2>3, TextRead, GoesByte, OneByte, SpecialBytes
    <3>3. ReadByte(r, e) = at[i]
      BY <2>2, <2>3, <2>4, EscapeRead
    <3>4. EscapedPiece(s, i) = <<Backslash>> \o <<e>>
      BY <2>4 DEF EscapedPiece
    <3> HIDE DEF e, r
    <3>5. QED
      BY <3>1, <3>2, <3>3, <3>4, GoesMore
  <2>5. CASE s[i] \notin DOMAIN Escapes
    <3>1. s[i] \in AddressText
      BY <1>1, <2>5 DEF AddressText, Escapes
    <3>2. s[i] \in Byte
      BY <3>1 DEF AddressText, Plain
    <3>3. ReadByte(Reader("text", p, items, outer), s[i])
            = Reader("text", Append(p, s[i]), items, outer)
      BY <3>1, TextRead
    <3>4. EscapedPiece(s, i) = <<s[i]>>
      BY <2>5 DEF EscapedPiece
    <3>5. ReadByte(at[i - 1], s[i]) = at[i]
      BY <2>2, <2>3, <3>3
    <3>6. QED
      BY <3>2, <3>4, <3>5, GoesByte, OneByte
  <2>6. QED
    BY <2>4, <2>5
<1> HIDE DEF at
<1>5. pieces \in Seq(Seq(Byte)) /\ Len(pieces) = n
  <2>1. pieces \in [1 .. n -> Seq(Byte)]
    BY <1>4
  <2> HIDE DEF pieces
  <2>2. QED
    BY <1>1, <2>1, FunctionSeq
<1>6. \A i \in 1 .. Len(pieces) : Goes(at[i - 1], pieces[i], at[i])
  BY <1>4, <1>5
<1> HIDE DEF pieces, n
<1>7. FlattenSeq(pieces) \in Seq(Byte) /\ Goes(at[0], FlattenSeq(pieces), at[n])
  BY <1>5, <1>6, GoesJoined
<1>8. QED
  BY <1>2, <1>3, <1>7

LEMMA QuotedReads ==
    ASSUME NEW x \in Seq(Byte), NEW s, NEW mode \in {"first", "value"}, NEW items, NEW outer,
           Goes(Reader("text", <<>>, items, outer), x, Reader("text", s, items, outer))
    PROVE  /\ Quoted(x) \in Seq(Byte)
           /\ Goes(Reader(mode, <<>>, items, outer), Quoted(x),
                   Reader("after", <<>>, Append(items, String(s)), outer))
<1> DEFINE r == Reader(mode, <<>>, items, outer)
           a == Reader("text", <<>>, items, outer)
           b == Reader("text", s, items, outer)
           c == Reader("after", <<>>, Append(items, String(s)), outer)
           q == <<Quote>>
<1>1. q \in Seq(Byte) /\ Quote \in Byte
  BY OneByte, SpecialBytes
<1>2. ReadByte(r, Quote) = a
  BY QuoteRead
<1>3. ReadByte(b, Quote) = c
  BY TextRead
<1>4. Quoted(x) = (q \o x) \o <<Quote>>
  BY DEF Quoted
<1>5. Goes(a, x, b)
  OBVIOUS
<1> HIDE DEF r, a, b, c
<1>6. Goes(r, q, a)
  BY <1>2, GoesByte
<1> HIDE DEF q
<1>7. q \o x \in Seq(Byte) /\ Goes(r, q \o x, b)
  BY <1>1, <1>5, <1>6, GoesOn
<1>8. (q \o x) \o <<Quote>> \in Seq(Byte) /\ Goes(r, (q \o x) \o <<Quote>>, c)
  BY <1>1, <1>3, <1>7, GoesMore
<1>9. QED
  BY <1>4, <1>8 DEF r, c

\* The readers around the addresses of a list: behind i of n, in the list that r reads.
InMacs(v, n, r, i) ==
    Reader(IF i = 0 THEN "first" ELSE IF i = n THEN "after" ELSE "value", <<>>, Firsts(v, i), <<r>>)

MacPiece(macs, i) == Quoted(macs[i]) \o (IF i < Len(macs) THEN <<Comma>> ELSE <<>>)

LEMMA MacPieceReads ==
    ASSUME NEW macs \in Seq(Seq(AddressText)), NEW r, NEW i \in 1 .. Len(macs),
           NEW v, v = [k \in DOMAIN macs |-> String(macs[k])]
    PROVE  /\ MacPiece(macs, i) \in Seq(Byte)
           /\ Goes(InMacs(v, Len(macs), r, i - 1), MacPiece(macs, i), InMacs(v, Len(macs), r, i))
<1> DEFINE n == Len(macs)
           p == Firsts(v, i - 1)
           q == Firsts(v, i)
           mode == IF i - 1 = 0 THEN "first" ELSE "value"
           s == macs[i]
           o == <<r>>
           a == Reader("after", <<>>, q, o)
<1>1. n \in Nat /\ i \in 1 .. n /\ DOMAIN macs = 1 .. n /\ s \in Seq(AddressText)
  BY LenProperties, ElementOfSeq
<1>2. v[i] = String(s)
  BY <1>1
<1> HIDE DEF s, n
<1>3. i - 1 \in Nat /\ (i - 1) + 1 = i /\ i - 1 # n /\ i # 0
  BY <1>1
<1>4. Append(p, String(s)) = q
  BY <1>2, <1>3, FirstsFacts
<1>5. InMacs(v, n, r, i - 1) = Reader(mode, <<>>, p, o)
  BY <1>3 DEF InMacs
<1>6. InMacs(v, n, r, i) = Reader(IF i = n THEN "after" ELSE "value", <<>>, q, o)
  BY <1>3 DEF InMacs
<1>7. mode \in {"first", "value"}
  OBVIOUS
<1> HIDE DEF mode, p, q, o
<1>8. /\ s \in Seq(Byte)
      /\ Goes(Reader("text", <<>>, p, o), s, Reader("text", s, p, o))
  BY <1>1, PlainReads
<1>9. /\ Quoted(s) \in Seq(Byte)
      /\ Goes(Reader(mode, <<>>, p, o), Quoted(s), Reader("after", <<>>, Append(p, String(s)), o))
  BY <1>7, <1>8, QuotedReads
<1>10. Goes(InMacs(v, n, r, i - 1), Quoted(s), a)
  BY <1>4, <1>5, <1>9
<1>11. CASE i < n
  <2>1. MacPiece(macs, i) = Quoted(s) \o <<Comma>>
    BY <1>11 DEF MacPiece, s, n
  <2>2. ReadByte(a, Comma) = Reader("value", <<>>, q, o)
    BY BehindRead DEF o
  <2>3. InMacs(v, n, r, i) = Reader("value", <<>>, q, o)
    BY <1>1, <1>6, <1>11
  <2> HIDE DEF a
  <2>4. QED
    BY <1>9, <1>10, <2>1, <2>2, <2>3, GoesMore, SpecialBytes DEF n
<1>12. CASE ~(i < n)
  <2>1. i = n
    BY <1>1, <1>12
  <2>2. MacPiece(macs, i) = Quoted(s) \o <<>>
    BY <1>12 DEF MacPiece, s, n
  <2>3. MacPiece(macs, i) = Quoted(s)
    BY <1>9, <2>2, ConcatEmptySeq
  <2>4. InMacs(v, n, r, i) = a
    BY <1>6, <2>1
  <2>5. QED
    BY <1>9, <1>10, <2>3, <2>4 DEF n
<1>13. QED
  BY <1>11, <1>12

LEMMA MacListReads ==
    ASSUME NEW macs \in Seq(Seq(AddressText)), NEW mode \in {"first", "value"}, NEW items, NEW outer
    PROVE  /\ MacList(macs) \in Seq(Byte)
           /\ Goes(Reader(mode, <<>>, items, outer), MacList(macs),
                   Reader("after", <<>>,
                          Append(items, List([k \in DOMAIN macs |-> String(macs[k])])), outer))
<1> DEFINE n == Len(macs)
           v == [k \in DOMAIN macs |-> String(macs[k])]
           r == Reader(mode, <<>>, items, outer)
           t == Reader("after", <<>>, Append(items, List(v)), outer)
           pieces == [i \in 1 .. n |-> MacPiece(macs, i)]
           at == [i \in 0 .. n |-> InMacs(v, n, r, i)]
<1>1. n \in Nat /\ DOMAIN macs = 1 .. n
  BY LenProperties
<1>2. ReadByte(r, Open) = Reader("first", <<>>, <<>>, <<r>>)
  BY OpenRead
<1>3. After(r, List(v)) = t
  BY DEF After, Reader
<1>4. MacList(macs) = (<<Open>> \o FlattenSeq(pieces)) \o <<Close>>
  BY <1>1 DEF MacList, MacPiece
<1> HIDE DEF r, t
<1>5. \A i \in 1 .. n : MacPiece(macs, i) \in Seq(Byte) /\ Goes(at[i - 1], MacPiece(macs, i), at[i])
  <2> TAKE i \in 1 .. n
  <2>1. i \in 0 .. n /\ i - 1 \in 0 .. n
    BY <1>1
  <2>2. at[i] = InMacs(v, n, r, i) /\ at[i - 1] = InMacs(v, n, r, i - 1)
    BY <2>1
  <2> HIDE DEF at
  <2>3. QED
    BY <2>2, MacPieceReads
<1>6. Firsts(v, 0) = <<>> /\ Firsts(v, n) = v
  BY <1>1, FirstsFacts DEF Firsts
<1>7. at[0] = Reader("first", <<>>, <<>>, <<r>>)
  BY <1>1, <1>6 DEF InMacs
<1>8. at[n] = Reader(IF n = 0 THEN "first" ELSE "after", <<>>, v, <<r>>)
  <2>1. at[n] = InMacs(v, n, r, n)
    BY <1>1
  <2>2. QED
    BY <1>6, <2>1 DEF InMacs
<1>9. ReadByte(at[n], Close) = t
  <2>1. ReadByte(Reader("first", <<>>, v, <<r>>), Close) = After(r, List(v))
    BY BehindRead
  <2>2. ReadByte(Reader("after", <<>>, v, <<r>>), Close) = After(r, List(v))
    BY BehindRead
  <2> HIDE DEF at, v
  <2>3. QED
    BY <1>3, <1>8, <2>1, <2>2
<1> HIDE DEF at, v, n
<1>10. pieces \in Seq(Seq(Byte)) /\ Len(pieces) = n
  <2>1. pieces \in [1 .. n -> Seq(Byte)]
    BY <1>5
  <2> HIDE DEF pieces
  <2>2. QED
    BY <1>1, <2>1, FunctionSeq
<1>11. \A i \in 1 .. Len(pieces) : Goes(at[i - 1], pieces[i], at[i])
  BY <1>5, <1>10
<1> HIDE DEF pieces
<1>12. FlattenSeq(pieces) \in Seq(Byte) /\ Goes(at[0], FlattenSeq(pieces), at[n])
  BY <1>10, <1>11, GoesJoined
<1>13. <<Open>> \in Seq(Byte) /\ Goes(r, <<Open>>, at[0])
  BY <1>2, <1>7, GoesByte, OneByte, SpecialBytes
<1> DEFINE o == <<Open>>
           x == o \o FlattenSeq(pieces)
<1>14. x \in Seq(Byte) /\ Goes(r, x, at[n])
  <2>1. o \in Seq(Byte) /\ Goes(r, o, at[0])
    BY <1>13
  <2> HIDE DEF o
  <2>2. QED
    BY <1>12, <2>1, GoesOn
<1> HIDE DEF x
<1>15. x \o <<Close>> \in Seq(Byte) /\ Goes(r, x \o <<Close>>, t)
  BY <1>9, <1>14, GoesMore, SpecialBytes
<1>16. QED
  BY <1>4, <1>15 DEF r, t, v, x

LEMMA ThreeAppended ==
    ASSUME NEW a, NEW b, NEW c
    PROVE  Append(Append(Append(<<>>, a), b), c) = <<a, b, c>>
<1> DEFINE S == {a, b, c}
           one == <<a>>
           two == <<a, b>>
           three == <<a, b, c>>
<1>1. a \in S /\ b \in S /\ c \in S /\ one \in Seq(S) /\ two \in Seq(S) /\ three \in Seq(S)
  OBVIOUS
<1>2. /\ Len(one) = 1 /\ one[1] = a /\ Len(two) = 2 /\ two[1] = a /\ two[2] = b
      /\ Len(three) = 3 /\ three[1] = a /\ three[2] = b /\ three[3] = c
  OBVIOUS
<1>3. Append(<<>>, a) = one
  OBVIOUS
<1> HIDE DEF S, one, two, three
<1>4. Append(one, b) = two
  <2> DEFINE p == Append(one, b)
  <2>1. /\ p \in Seq(S) /\ Len(p) = Len(one) + 1
        /\ \A i \in 1 .. Len(one) : p[i] = one[i]
        /\ p[Len(one) + 1] = b
    BY <1>1, AppendProperties
  <2> HIDE DEF p
  <2>2. p \in Seq(S) /\ Len(p) = 2 /\ p[1] = a /\ p[2] = b
    BY <1>2, <2>1
  <2>3. \A i \in 1 .. Len(p) : p[i] = two[i]
    BY <1>2, <2>2
  <2>4. p = two
    BY <1>1, <1>2, <2>2, <2>3, SeqEqual
  <2>5. QED
    BY <2>4 DEF p
<1>5. Append(two, c) = three
  <2> DEFINE p == Append(two, c)
  <2>1. /\ p \in Seq(S) /\ Len(p) = Len(two) + 1
        /\ \A i \in 1 .. Len(two) : p[i] = two[i]
        /\ p[Len(two) + 1] = c
    BY <1>1, AppendProperties
  <2> HIDE DEF p
  <2>2. p \in Seq(S) /\ Len(p) = 3 /\ p[1] = a /\ p[2] = b /\ p[3] = c
    BY <1>2, <2>1
  <2>3. \A i \in 1 .. Len(p) : p[i] = three[i]
    BY <1>2, <2>2
  <2>4. p = three
    BY <1>1, <1>2, <2>2, <2>3, SeqEqual
  <2>5. QED
    BY <2>4 DEF p
<1>6. QED
  BY <1>3, <1>4, <1>5 DEF one, three

\* The digits of a number, from those of its tenth.
DecimalTurn(f, i) ==
    IF i < 10 THEN <<Zero + i>> ELSE f[i \div 10] \o <<Zero + (i % 10)>>

Decimals(f, n) == f = [i \in 0 .. n |-> DecimalTurn(f, i)]

LEMMA TenthFacts ==
    ASSUME NEW i \in Nat, ~(i < 10)
    PROVE  /\ i \div 10 \in Nat /\ i \div 10 # 0 /\ i \div 10 < i
           /\ i % 10 \in 0 .. 9 /\ 10 * (i \div 10) + (i % 10) = i
OBVIOUS

LEMMA DecimalDigits ==
    ASSUME NEW n \in Nat
    PROVE  \E f : Decimals(f, n) /\ Decimal(n) = f[n]
<1> DEFINE T == {m \in 0 .. n : ~\E f : Decimals(f, m)}
<1>1. T = {}
  <2>1. SUFFICES ASSUME T # {} PROVE FALSE
    OBVIOUS
  <2>2. T \in SUBSET Nat
    OBVIOUS
  <2>3. PICK m \in T : \A k \in T : m <= k
    BY <2>1, <2>2, Least
  <2>4. m \in 0 .. n /\ m \in Nat /\ ~\E f : Decimals(f, m)
    OBVIOUS
  <2>5. PICK f : m # 0 => Decimals(f, m - 1)
    <3>1. m # 0 => m - 1 \in 0 .. n /\ ~(m <= m - 1)
      BY <2>4
    <3>2. QED
      BY <2>3, <3>1
  <2> DEFINE g == [i \in 0 .. m |-> IF i = m THEN DecimalTurn(f, m) ELSE f[i]]
             t == [i \in 0 .. m |-> DecimalTurn(g, i)]
  <2>6. ASSUME NEW i \in 0 .. m PROVE g[i] = DecimalTurn(g, i)
    <3>1. ~(i < 10) => g[i \div 10] = f[i \div 10]
      <4>1. ~(i < 10) => i \div 10 \in 0 .. m /\ i \div 10 # m
        BY <2>4, TenthFacts
      <4>2. QED
        BY <4>1
    <3>2. i # m => f[i] = DecimalTurn(f, i)
      <4>1. i # m => m # 0 /\ i \in 0 .. m - 1
        BY <2>4
      <4>2. QED
        BY <2>5, <4>1 DEF Decimals
    <3>3. g[i] = DecimalTurn(f, i)
      BY <3>2
    <3> HIDE DEF g
    <3>4. QED
      BY <3>1, <3>3 DEF DecimalTurn
  <2>7. DOMAIN g = 0 .. m /\ DOMAIN t = 0 .. m /\ \A i \in 0 .. m : g[i] = t[i]
    BY <2>6
  <2>8. g = [i \in DOMAIN g |-> g[i]] /\ t = [i \in DOMAIN t |-> t[i]]
    OBVIOUS
  <2>9. g = t
    <3> HIDE DEF g, t
    <3>1. QED
      BY <2>7, <2>8
  <2>10. Decimals(g, m)
    BY <2>9 DEF Decimals
  <2>11. QED
    BY <2>4, <2>10
<1> DEFINE f == CHOOSE f : Decimals(f, n)
<1>2. n \in 0 .. n /\ n \notin T
  BY <1>1
<1>3. Decimals(f, n)
  BY <1>2
<1>4. Decimal(n) = f[n]
  BY DEF Decimal, Decimals, DecimalTurn
<1>5. QED
  BY <1>3, <1>4

LEMMA DecimalReads ==
    ASSUME NEW n \in Nat, NEW mode \in {"first", "value"}, NEW items, NEW outer
    PROVE  /\ Decimal(n) \in Seq(Byte)
           /\ Goes(Reader(mode, <<>>, items, outer), Decimal(n), Reader("number", <<n>>, items, outer))
<1> DEFINE r == Reader(mode, <<>>, items, outer)
           at(i) == Reader("number", <<i>>, items, outer)
           digit(i) == Zero + i
<1>1. PICK f : Decimals(f, n) /\ Decimal(n) = f[n]
  BY DecimalDigits
<1>2. \A i \in 0 .. n : f[i] = DecimalTurn(f, i)
  BY <1>1 DEF Decimals
<1>3. \A d \in 0 .. 9 : ReadByte(r, digit(d)) = at(d) /\ digit(d) \in Byte
  BY DigitRead, SpecialBytes
<1>4. \A k \in Nat, d \in 0 .. 9 : k # 0 => ReadByte(at(k), digit(d)) = at(10 * k + d)
  BY DigitMore
<1>5. \A i \in 0 .. n : f[i] = IF i < 10 THEN <<digit(i)>> ELSE f[i \div 10] \o <<digit(i % 10)>>
  BY <1>2 DEF DecimalTurn
<1> HIDE DEF r, at, digit
<1> DEFINE Right(i) == f[i] \in Seq(Byte) /\ Goes(r, f[i], at(i))
           T == {i \in 0 .. n : ~Right(i)}
<1>6. T = {}
  <2> HIDE DEF Right
  <2>1. SUFFICES ASSUME T # {} PROVE FALSE
    OBVIOUS
  <2>2. T \in SUBSET Nat
    OBVIOUS
  <2>3. PICK m \in T : \A k \in T : m <= k
    BY <2>1, <2>2, Least
  <2>4. m \in 0 .. n /\ m \in Nat /\ ~Right(m)
    OBVIOUS
  <2>5. CASE m < 10
    <3>1. m \in 0 .. 9
      BY <2>4, <2>5
    <3>2. f[m] = <<digit(m)>>
      BY <1>5, <2>4, <2>5
    <3>3. ReadByte(r, digit(m)) = at(m) /\ digit(m) \in Byte
      BY <1>3, <3>1
    <3>4. Right(m)
      BY <3>2, <3>3, OneByte, GoesByte DEF Right
    <3>5. QED
      BY <2>4, <3>4
  <2>6. CASE ~(m < 10)
    <3> DEFINE k == m \div 10
               d == m % 10
    <3>1. k \in Nat /\ k # 0 /\ k < m /\ d \in 0 .. 9 /\ 10 * k + d = m
      BY <2>4, <2>6, TenthFacts
    <3>2. f[m] = f[k] \o <<digit(d)>>
      BY <1>5, <2>4, <2>6
    <3> HIDE DEF k, d
    <3>3. k \in 0 .. n /\ ~(m <= k)
      BY <2>4, <3>1
    <3>4. Right(k)
      BY <2>3, <3>3
    <3>5. ReadByte(at(k), digit(d)) = at(m) /\ digit(d) \in Byte
      BY <1>3, <1>4, <3>1
    <3>6. Right(m)
      BY <3>2, <3>4, <3>5, GoesMore DEF Right
    <3>7. QED
      BY <2>4, <3>6
  <2>7. QED
    BY <2>5, <2>6
<1>7. n \in 0 .. n
  OBVIOUS
<1>8. Right(n)
  BY <1>6, <1>7
<1>9. QED
  BY <1>1, <1>8 DEF r, at

\* The peers whose string from outside has no byte that is neither escaped nor allowed.
CleanPeers == {peer \in Peers : peer.user \in Seq(Plain \cup DOMAIN Escapes)}

LEMMA PeerObjectReads ==
    ASSUME NEW peer \in CleanPeers, NEW mode \in {"first", "value"}, NEW items, NEW outer
    PROVE  /\ PeerObject(peer) \in Seq(Byte)
           /\ Goes(Reader(mode, <<>>, items, outer), PeerObject(peer),
                   Reader("after", <<>>, Append(items, PeerValue(peer)), outer))
<1> DEFINE r == Reader(mode, <<>>, items, outer)
           t == Reader("after", <<>>, Append(items, PeerValue(peer)), outer)
           up == <<r>>
           id == Number(peer.id)
           user == String(peer.user)
           macs == List([k \in DOMAIN peer.macs |-> String(peer.macs[k])])
           one == Append(<<>>, id)
           two == Append(one, user)
           three == Append(two, macs)
           in == Reader("first", <<>>, <<>>, up)
           a == Reader("number", <<peer.id>>, <<>>, up)
           b == Reader("value", <<>>, one, up)
           c == Reader("after", <<>>, two, up)
           d == Reader("value", <<>>, two, up)
           e == Reader("after", <<>>, three, up)
           name == Quoted(Escaped(peer.user))
           list == MacList(peer.macs)
           number == Decimal(peer.id)
           x0 == <<Open>>
           x1 == x0 \o number
           x2 == x1 \o <<Comma>>
           x3 == x2 \o name
           x4 == x3 \o <<Comma>>
           x5 == x4 \o list
           x6 == x5 \o <<Close>>
<1>1. /\ peer.id \in Nat /\ peer.user \in Seq(Plain \cup DOMAIN Escapes)
      /\ peer.macs \in Seq(Seq(AddressText))
  BY DEF CleanPeers, Peers, AddressText
<1>2. PeerObject(peer) = x6
  BY DEF PeerObject
<1>3. three = <<id, user, macs>>
  <2> HIDE DEF id, user, macs
  <2>1. QED
    BY ThreeAppended
<1>4. After(r, List(three)) = t
  BY <1>3 DEF After, Reader, PeerValue
<1>5. ReadByte(r, Open) = in
  BY OpenRead
<1>6. number \in Seq(Byte) /\ Goes(in, number, a)
  BY <1>1, DecimalReads
<1>7. ReadByte(a, Comma) = b /\ ReadByte(c, Comma) = d
  <2> HIDE DEF two, r
  <2>1. ReadByte(a, Comma) = b
    BY NumberEnds
  <2> HIDE DEF one
  <2>2. ReadByte(c, Comma) = d
    BY BehindRead
  <2>3. QED
    BY <2>1, <2>2
<1>8. Escaped(peer.user) \in Seq(Byte)
      /\ Goes(Reader("text", <<>>, one, up), Escaped(peer.user), Reader("text", peer.user, one, up))
  BY <1>1, EscapedReads
<1>9. name \in Seq(Byte) /\ Goes(b, name, c)
  BY <1>8, QuotedReads
<1>10. list \in Seq(Byte) /\ Goes(d, list, e)
  BY <1>1, MacListReads
<1>11. ReadByte(e, Close) = t
  <2>1. ReadByte(e, Close) = After(r, List(three))
    BY BehindRead
  <2>2. QED
    BY <1>4, <2>1
<1>12. Open \in Byte /\ Comma \in Byte /\ Close \in Byte
  BY SpecialBytes
<1> HIDE DEF r, t, up, id, user, macs, one, two, three, in, a, b, c, d, e, name, list, number
<1>13. x0 \in Seq(Byte) /\ Goes(r, x0, in)
  BY <1>5, <1>12, GoesByte, OneByte
<1> HIDE DEF x0
<1>14. x1 \in Seq(Byte) /\ Goes(r, x1, a)
  BY <1>6, <1>13, GoesOn
<1> HIDE DEF x1
<1>15. x2 \in Seq(Byte) /\ Goes(r, x2, b)
  BY <1>7, <1>12, <1>14, GoesMore
<1> HIDE DEF x2
<1>16. x3 \in Seq(Byte) /\ Goes(r, x3, c)
  BY <1>9, <1>15, GoesOn
<1> HIDE DEF x3
<1>17. x4 \in Seq(Byte) /\ Goes(r, x4, d)
  BY <1>7, <1>12, <1>16, GoesMore
<1> HIDE DEF x4
<1>18. x5 \in Seq(Byte) /\ Goes(r, x5, e)
  BY <1>10, <1>17, GoesOn
<1> HIDE DEF x5
<1>19. x6 \in Seq(Byte) /\ Goes(r, x6, t)
  BY <1>11, <1>12, <1>18, GoesMore
<1>20. QED
  BY <1>2, <1>19 DEF r, t

\* The reader inside the list of peers.
InList(mode, items) == Reader(mode, <<>>, items, <<Start>>)

\* The text of some peers, with a comma behind it, and their values.
Listed(text, items) ==
    \E x \in Seq(Byte) :
        text = x \o <<Comma>> /\ Goes(InList("first", <<>>), x, InList("after", items))

Values == {PeerValue(peer) : peer \in CleanPeers}

LEMMA ClientAdded ==
    ASSUME NEW text \in Seq(Byte), NEW items \in Seq(Values), NEW peer \in CleanPeers,
           (text = <<>> /\ items = <<>>) \/ Listed(text, items)
    PROVE  Listed(text \o (PeerObject(peer) \o <<Comma>>), items \o <<PeerValue(peer)>>)
<1> DEFINE object == PeerObject(peer)
           first == InList("first", <<>>)
           end == InList("after", items \o <<PeerValue(peer)>>)
           c == <<Comma>>
           x == text \o object
<1>1. Append(items, PeerValue(peer)) = items \o <<PeerValue(peer)>>
  BY AppendIsConcat DEF Values
<1>2. /\ object \in Seq(Byte)
      /\ \A mode \in {"first", "value"} : Goes(InList(mode, items), object, end)
  <2>1. /\ object \in Seq(Byte)
        /\ \A mode \in {"first", "value"} :
             Goes(Reader(mode, <<>>, items, <<Start>>), object,
                  Reader("after", <<>>, Append(items, PeerValue(peer)), <<Start>>))
    BY PeerObjectReads
  <2>2. QED
    BY <1>1, <2>1 DEF InList
<1>3. c \in Seq(Byte)
  BY OneByte, SpecialBytes
<1> HIDE DEF object, end
<1>4. Goes(first, text, InList("first", items)) \/ Goes(first, text, InList("value", items))
  <2>1. CASE text = <<>> /\ items = <<>>
    BY <2>1, GoesNothing
  <2>2. CASE Listed(text, items)
    <3>1. PICK y \in Seq(Byte) : text = y \o <<Comma>> /\ Goes(first, y, InList("after", items))
      BY <2>2 DEF Listed
    <3>2. ReadByte(InList("after", items), Comma) = InList("value", items)
      BY BehindRead DEF InList
    <3>3. QED
      BY <3>1, <3>2, GoesMore, SpecialBytes
  <2>3. QED
    BY <2>1, <2>2
<1> HIDE DEF first
<1>5. x \in Seq(Byte) /\ Goes(first, x, end)
  BY <1>2, <1>4, GoesOn
<1>6. text \o (object \o c) = x \o c
  <2> HIDE DEF c
  <2>1. QED
    BY <1>2, <1>3, ConcatAssociative
<1> HIDE DEF x
<1>7. Listed(x \o c, items \o <<PeerValue(peer)>>)
  BY <1>5 DEF Listed, end, first, c
<1>8. QED
  BY <1>6, <1>7 DEF object, c

LEMMA ClientsListed ==
    ASSUME NEW table \in Seq(CleanPeers)
    PROVE  /\ ClientObjects(table) \in Seq(Byte) /\ Clients(table) \in Seq(Values)
           /\ IF \E i \in DOMAIN table : ~table[i].ctrl
              THEN Listed(ClientObjects(table), Clients(table))
              ELSE ClientObjects(table) = <<>> /\ Clients(table) = <<>>
<1> DEFINE n == Len(table)
           text(i) == IF table[i].ctrl THEN <<>> ELSE PeerObject(table[i]) \o <<Comma>>
           item(i) == IF table[i].ctrl THEN <<>> ELSE <<PeerValue(table[i])>>
           texts == [i \in 1 .. n |-> text(i)]
           items == [i \in 1 .. n |-> item(i)]
           Some(i) == \E k \in 1 .. i : ~table[k].ctrl
<1>1. n \in Nat /\ DOMAIN table = 1 .. n /\ \A i \in 1 .. n : table[i] \in CleanPeers
  BY LenProperties, ElementOfSeq
<1>2. ClientObjects(table) = FlattenSeq(texts) /\ Clients(table) = FlattenSeq(items)
  BY <1>1 DEF ClientObjects, Clients
<1>3. \A i \in 1 .. n : text(i) \in Seq(Byte) /\ item(i) \in Seq(Values)
  <2> TAKE i \in 1 .. n
  <2>1. table[i] \in CleanPeers
    BY <1>1
  <2>2. PeerObject(table[i]) \in Seq(Byte) /\ <<Comma>> \in Seq(Byte)
    BY <2>1, PeerObjectReads, OneByte, SpecialBytes
  <2>3. PeerObject(table[i]) \o <<Comma>> \in Seq(Byte)
    BY <2>2, ConcatProperties
  <2>4. PeerValue(table[i]) \in Values
    BY <2>1 DEF Values
  <2> HIDE DEF Values
  <2>5. <<PeerValue(table[i])>> \in Seq(Values)
    BY <2>4
  <2>6. QED
    BY <2>3, <2>5
<1> HIDE DEF n, text, item
<1>4. texts \in Seq(Seq(Byte)) /\ Len(texts) = n /\ items \in Seq(Seq(Values)) /\ Len(items) = n
  <2>1. texts \in [1 .. n -> Seq(Byte)] /\ items \in [1 .. n -> Seq(Values)]
    BY <1>3
  <2> HIDE DEF texts, items
  <2>2. QED
    BY <1>1, <2>1, FunctionSeq
<1>5. PICK f : Joins(f, texts, Byte) /\ FlattenSeq(texts) = f[Len(texts)]
  BY <1>4, Flattened
<1>6. PICK h : Joins(h, items, Values) /\ FlattenSeq(items) = h[Len(items)]
  BY <1>4, Flattened
<1>7. /\ f \in [0 .. n -> Seq(Byte)] /\ f[0] = <<>>
      /\ \A i \in 1 .. n : f[i] = f[i - 1] \o text(i)
  BY <1>4, <1>5 DEF Joins
<1>8. /\ h \in [0 .. n -> Seq(Values)] /\ h[0] = <<>>
      /\ \A i \in 1 .. n : h[i] = h[i - 1] \o item(i)
  BY <1>4, <1>6 DEF Joins
<1> DEFINE Right(i) == IF Some(i) THEN Listed(f[i], h[i]) ELSE f[i] = <<>> /\ h[i] = <<>>
           T == {i \in 0 .. n : ~Right(i)}
<1>9. T = {}
  <2> HIDE DEF Right
  <2>1. SUFFICES ASSUME T # {} PROVE FALSE
    OBVIOUS
  <2>2. T \in SUBSET Nat
    OBVIOUS
  <2>3. PICK m \in T : \A k \in T : m <= k
    BY <2>1, <2>2, Least
  <2>4. m \in 0 .. n /\ ~Right(m)
    OBVIOUS
  <2>5. m # 0
    BY <1>7, <1>8, <2>4 DEF Right
  <2>6. m - 1 \in 0 .. n /\ ~(m <= m - 1) /\ m \in 1 .. n
    BY <1>1, <2>4, <2>5
  <2>7. Right(m - 1)
    BY <2>3, <2>6
  <2>8. Some(m) <=> Some(m - 1) \/ ~table[m].ctrl
    <3>1. \A k \in 1 .. m : k \in 1 .. m - 1 \/ k = m
      BY <2>6
    <3>2. m \in 1 .. m /\ \A k \in 1 .. m - 1 : k \in 1 .. m
      BY <2>6
    <3>3. QED
      BY <3>1, <3>2
  <2>9. /\ f[m - 1] \in Seq(Byte) /\ f[m] = f[m - 1] \o text(m)
        /\ h[m - 1] \in Seq(Values) /\ h[m] = h[m - 1] \o item(m)
    BY <1>7, <1>8, <2>6
  <2> HIDE DEF Some
  <2>10. CASE table[m].ctrl
    <3>1. text(m) = <<>> /\ item(m) = <<>>
      BY <2>10 DEF text, item
    <3>2. f[m] = f[m - 1] /\ h[m] = h[m - 1]
      BY <2>9, <3>1, ConcatEmptySeq
    <3>3. QED
      BY <2>4, <2>7, <2>8, <2>10, <3>2 DEF Right
  <2>11. CASE ~table[m].ctrl
    <3>1. text(m) = PeerObject(table[m]) \o <<Comma>> /\ item(m) = <<PeerValue(table[m])>>
      BY <2>11 DEF text, item
    <3>2. table[m] \in CleanPeers
      BY <1>1, <2>6 DEF n
    <3>3. (f[m - 1] = <<>> /\ h[m - 1] = <<>>) \/ Listed(f[m - 1], h[m - 1])
      BY <2>7 DEF Right
    <3>4. Listed(f[m - 1] \o (PeerObject(table[m]) \o <<Comma>>),
                 h[m - 1] \o <<PeerValue(table[m])>>)
      BY <2>9, <3>2, <3>3, ClientAdded
    <3>5. QED
      BY <2>4, <2>8, <2>9, <2>11, <3>1, <3>4 DEF Right
  <2>12. QED
    BY <2>10, <2>11
<1>10. n \in 0 .. n
  BY <1>1 DEF n
<1>11. f[n] \in Seq(Byte) /\ h[n] \in Seq(Values) /\ Right(n)
  BY <1>7, <1>8, <1>9, <1>10
<1>12. QED
  BY <1>1, <1>2, <1>4, <1>5, <1>6, <1>11 DEF n

LEMMA LastCut ==
    ASSUME NEW x \in Seq(Byte), NEW b \in Byte, x # <<>>
    PROVE  SubSeq(x \o <<b>>, 1, Len(x \o <<b>>) - 1) = x
<1> DEFINE c == <<b>>
<1>1. c \in Seq(Byte) /\ Len(c) = 1
  BY OneByte
<1> HIDE DEF c
<1>2. Len(x \o c) = Len(x) + 1 /\ Len(x) \in Nat /\ Len(x) # 0
  <2>1. Len(x \o c) = Len(x) + Len(c)
    BY <1>1, ConcatProperties
  <2>2. Len(x) \in Nat /\ Len(x) # 0
    OBVIOUS
  <2>3. QED
    BY <1>1, <2>1, <2>2
<1>3. Len(x \o c) - 1 = Len(x) /\ 1 \in 1 .. Len(x) /\ Len(x) \in 1 .. Len(x)
  BY <1>2
<1>4. SubSeq(x \o c, 1, Len(x)) = SubSeq(x, 1, Len(x))
  BY <1>1, <1>3, SubSeqOfConcat1
<1>5. SubSeq(x, 1, Len(x)) = x
  BY SubSeqFull
<1>6. QED
  BY <1>3, <1>4, <1>5 DEF c

\* The list read back is one list of the peers that are no control connections.
LEMMA PeerListReads ==
    ASSUME NEW table \in Seq(CleanPeers)
    PROVE  Read(PeerList(table)) = After(Start, List(Clients(table)))
<1> DEFINE objects == ClientObjects(table)
           items == Clients(table)
           found == \E i \in DOMAIN table : ~table[i].ctrl
           o == <<Open>>
           all == o \o objects
           cut == IF found THEN SubSeq(all, 1, Len(all) - 1) ELSE all
           first == InList("first", <<>>)
           t == After(Start, List(items))
<1>1. PeerList(table) = cut \o <<Close>>
  BY DEF PeerList
<1>2. /\ objects \in Seq(Byte) /\ items \in Seq(Values)
      /\ IF found THEN Listed(objects, items) ELSE objects = <<>> /\ items = <<>>
  BY ClientsListed
<1>3. o \in Seq(Byte) /\ Goes(Start, o, first)
  <2>1. ReadByte(Reader("value", <<>>, <<>>, <<>>), Open)
          = Reader("first", <<>>, <<>>, <<Reader("value", <<>>, <<>>, <<>>)>>)
    BY OpenRead
  <2>2. ReadByte(Start, Open) = first
    BY <2>1 DEF Start, InList
  <2>3. QED
    BY <2>2, OneByte, GoesByte, SpecialBytes
<1>4. o # <<>>
  OBVIOUS
<1>5. ReadByte(InList("first", items), Close) = t /\ ReadByte(InList("after", items), Close) = t
  BY BehindRead DEF InList
<1> HIDE DEF o, t, first, objects, items, found
<1>6. cut \in Seq(Byte) /\ \E mode \in {"first", "after"} : Goes(Start, cut, InList(mode, items))
  <2>1. CASE found
    <3>1. PICK x \in Seq(Byte) :
            objects = x \o <<Comma>> /\ Goes(first, x, InList("after", items))
      BY <1>2, <2>1 DEF Listed, first
    <3> DEFINE y == o \o x
    <3>2. y \in Seq(Byte) /\ Goes(Start, y, InList("after", items))
      BY <1>3, <3>1, GoesOn
    <3>3. y # <<>>
      <4>1. Len(y) = Len(o) + Len(x) /\ Len(o) \in Nat /\ Len(x) \in Nat /\ Len(o) # 0
        BY <1>3, <1>4, ConcatProperties, LenProperties
      <4> HIDE DEF y
      <4>2. Len(y) # 0
        BY <4>1
      <4>3. QED
        BY <4>2
    <3>4. all = y \o <<Comma>>
      <4> DEFINE c == <<Comma>>
      <4>1. c \in Seq(Byte)
        BY OneByte, SpecialBytes
      <4> HIDE DEF c
      <4>2. o \o (x \o c) = (o \o x) \o c
        BY <1>3, <3>1, <4>1, ConcatAssociative
      <4>3. QED
        BY <3>1, <4>2 DEF c
    <3> HIDE DEF all, y
    <3>5. cut = y
      BY <2>1, <3>2, <3>3, <3>4, LastCut, SpecialBytes
    <3>6. QED
      BY <3>2, <3>5
  <2>2. CASE ~found
    <3>1. objects = <<>> /\ items = <<>>
      BY <1>2, <2>2
    <3>2. cut = o
      BY <1>3, <2>2, <3>1, ConcatEmptySeq
    <3>3. QED
      BY <1>3, <3>1, <3>2 DEF first
  <2>3. QED
    BY <2>1, <2>2
<1> HIDE DEF cut
<1>7. cut \o <<Close>> \in Seq(Byte) /\ Goes(Start, cut \o <<Close>>, t)
  BY <1>5, <1>6, GoesMore, SpecialBytes
<1>8. Read(cut \o <<Close>>) = t
  BY <1>7, ReadGoes
<1>9. QED
  BY <1>1, <1>8 DEF t, items

LEMMA AnswerListed == AnswerInv => ListDecodes
<1> SUFFICES ASSUME AnswerInv, reply.to = "list",
                    \A i \in DOMAIN reply.table :
                       reply.table[i].user \in Seq(Plain \cup DOMAIN Escapes)
             PROVE  Read(reply.text) = After(Start, List(Clients(reply.table)))
  BY DEF ListDecodes, Writable
<1>1. reply # NoReply /\ reply # NotAList
  BY DEF NoReply, NotAList
<1>2. reply \in ControlReplies(asked)
  BY <1>1 DEF AnswerInv
<1>3. PICK table \in PeerTables : reply = ListReply(table)
  BY <1>1, <1>2 DEF ControlReplies, ListReplies, NoReply
<1>4. reply.text = PeerList(table) /\ reply.table = table
  BY <1>3 DEF ListReply
<1>5. table \in Seq(Peers)
  BY PeerTexts
<1>6. table \in Seq(CleanPeers)
  <2>1. Len(table) \in Nat /\ DOMAIN table = 1 .. Len(table)
    BY <1>5, LenProperties
  <2>2. \A i \in DOMAIN table : table[i] \in Peers
    BY <1>5, <2>1, ElementOfSeq
  <2>3. \A i \in DOMAIN table : table[i] \in CleanPeers
    BY <1>4, <2>2 DEF CleanPeers
  <2>4. table = [i \in 1 .. Len(table) |-> table[i]]
    BY <1>5, <2>1
  <2>5. table \in [1 .. Len(table) -> CleanPeers]
    BY <2>1, <2>3, <2>4
  <2>6. QED
    BY <2>1, <2>5, FunctionSeq
<1>7. QED
  BY <1>4, <1>6, PeerListReads

\* In a list of peers that had room in the first buffer and whose strings hold no control
\* character but tab, newline and return, a reader of JSON finds the peers that are no
\* control connections in their order: json_append_json escapes what would end or break a
\* string, and each comma separates two values.
THEOREM ListDecodesAlways == Spec => []ListDecodes
<1>1. Init => WInv /\ ReqInv /\ AnswerInv
  BY WInvInit, ReqInvInit DEF Init, AnswerInv
<1>2. WInv /\ ReqInv /\ AnswerInv /\ [Next]_vars => WInv' /\ ReqInv' /\ AnswerInv'
  BY WInvNext, ReqInvNext, AnswerInvNext
<1>3. QED
  BY <1>1, <1>2, AnswerListed, PTL DEF Spec

=============================================================================
