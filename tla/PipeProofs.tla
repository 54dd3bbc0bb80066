----------------------------- MODULE PipeProofs -----------------------------
(***************************************************************************)
(* Proofs about Pipe, for any number of processes, any PIPESIZE and any    *)
(* WRAP that PIPESIZE divides: first the arithmetic of the ring (counters  *)
(* modulo WRAP, indices modulo PIPESIZE), then the inductive invariant,    *)
(* then that the pipe implements Stream.                                   *)
(***************************************************************************)
EXTENDS Pipe, Integers, TLAPS

\* Quotient and remainder.
LEMMA DivMod ==
  ASSUME NEW W \in Nat \ {0}, NEW a \in Nat
  PROVE  \E q \in Nat, r \in 0 .. W - 1 : a % W = r /\ a = q * W + r
<1>1. ASSUME NEW q \in Int, q = a \div W, NEW r \in Int, r = a % W
      PROVE  q \in Nat /\ r \in 0 .. W - 1 /\ a = q * W + r
  <2>1. r \in 0 .. W - 1
    BY <1>1
  <2>2. a = q * W + r
    BY <1>1
  <2>3. ASSUME q <= -1 PROVE FALSE
    <3>1. q * W <= (-1) * W
      BY <2>3
    <3>2. q * W \in Int
      OBVIOUS
    <3> QED BY <2>1, <2>2, <3>1, <3>2
  <2> QED BY <2>1, <2>2, <2>3
<1>2. a \div W \in Int /\ a % W \in Int
  OBVIOUS
<1> DEFINE q == a \div W
           r == a % W
<1>3. q \in Nat /\ r \in 0 .. W - 1 /\ a = q * W + r /\ a % W = r
  BY <1>1, <1>2, Zenon
<1> HIDE DEF q, r
<1> QED BY <1>3, Zenon

\* The remainder is the only number below W at a multiple of W from a.
LEMMA ModIs ==
  ASSUME NEW W \in Nat \ {0}, NEW a \in Nat, NEW q \in Nat, NEW r \in 0 .. W - 1, a = q * W + r
  PROVE  a % W = r
OBVIOUS

\* Adding a multiple of W changes nothing.
LEMMA ModPlus ==
  ASSUME NEW W \in Nat \ {0}, NEW V \in Nat, V % W = 0, NEW a \in Nat
  PROVE  (a + V) % W = a % W
<1>1. PICK q \in Nat, r \in 0 .. W - 1 : a % W = r /\ a = q * W + r
  BY DivMod
<1>2. PICK v \in Nat, z \in 0 .. W - 1 : V % W = z /\ V = v * W + z
  BY DivMod
<1>3. z = 0 /\ q * W \in Nat /\ v * W \in Nat /\ (q + v) * W = q * W + v * W
  BY <1>2
<1>4. a + V = (q + v) * W + r
  BY <1>1, <1>2, <1>3
<1>5. q + v \in Nat /\ a + V \in Nat
  OBVIOUS
<1>6. (a + V) % W = r
  BY <1>4, <1>5, ModIs, Zenon
<1> QED BY <1>1, <1>6, Zenon

\* Numbers less than W apart have different remainders.
LEMMA ModDiffers ==
  ASSUME NEW W \in Nat \ {0}, NEW a \in Nat, NEW b \in Nat, a < b, b < a + W
  PROVE  a % W # b % W
<1> SUFFICES ASSUME a % W = b % W PROVE FALSE
  BY Zenon
<1>1. PICK q \in Nat, r \in 0 .. W - 1 : a % W = r /\ a = q * W + r
  BY DivMod, Zenon
<1>2. PICK v \in Nat, z \in 0 .. W - 1 : b % W = z /\ b = v * W + z
  BY DivMod, Zenon
<1>3. (v - q) * W = b - a
  <2>1. (v - q) * W = v * W - q * W /\ v * W \in Int /\ q * W \in Int
    OBVIOUS
  <2>2. r = z
    BY <1>1, <1>2, Zenon
  <2> QED BY <1>1, <1>2, <2>1, <2>2
<1>4. CASE v - q <= 0
  <2>1. (v - q) * W <= 0
    BY <1>4
  <2> QED BY <1>3, <2>1
<1>5. CASE v - q >= 1
  <2>1. (v - q) * W >= W
    BY <1>5
  <2> QED BY <1>3, <2>1
<1> QED BY <1>4, <1>5

-----------------------------------------------------------------------------
(* The counters *)

USE PipeAssumption

\* One subtraction undoes one wrap.
LEMMA Wraps ==
  ASSUME NEW a \in 0 .. 2 * WRAP - 1
  PROVE  (a < WRAP => a % WRAP = a) /\ (~(a < WRAP) => a % WRAP = a - WRAP)
<1>1. CASE a < WRAP
  BY <1>1
<1>2. CASE a >= WRAP
  BY <1>2
<1> QED BY <1>1, <1>2

\* What Plus computes, without remainders.
LEMMA PlusIs ==
  ASSUME NEW r \in 0 .. WRAP - 1, NEW k \in 0 .. WRAP
  PROVE  /\ r + k < WRAP => Plus(r, k) = r + k
         /\ ~(r + k < WRAP) => Plus(r, k) = r + k - WRAP
<1> DEFINE a == r + k
<1>1. a \in 0 .. 2 * WRAP - 1
  OBVIOUS
<1>2. (a < WRAP => a % WRAP = a) /\ (~(a < WRAP) => a % WRAP = a - WRAP)
  <2> HIDE DEF a
  <2> QED BY <1>1, Wraps, Zenon
<1> QED BY <1>2 DEF Plus

\* The bytes between the counters r and w
Dist(r, w) == IF r <= w THEN w - r ELSE w + WRAP - r

\* Used is that distance.
LEMMA UsedIs ==
  ASSUME NEW r \in 0 .. WRAP - 1, NEW w \in 0 .. WRAP - 1
  PROVE  (w + WRAP - r) % WRAP = Dist(r, w) /\ Dist(r, w) \in 0 .. WRAP - 1
<1>1. w + WRAP - r \in 0 .. 2 * WRAP - 1
  OBVIOUS
<1>2. /\ w + WRAP - r < WRAP => (w + WRAP - r) % WRAP = w + WRAP - r
      /\ ~(w + WRAP - r < WRAP) => (w + WRAP - r) % WRAP = w + WRAP - r - WRAP
  <2> DEFINE a == w + WRAP - r
  <2>1. (a < WRAP => a % WRAP = a) /\ (~(a < WRAP) => a % WRAP = a - WRAP)
    <3> HIDE DEF a
    <3> QED BY <1>1, Wraps, Zenon DEF a
  <2> QED BY <2>1
<1> QED BY <1>2 DEF Dist

\* Room is what the distance leaves of PIPESIZE, and the pipe is full when that
\* is nothing.
LEMMA RoomIs ==
  ASSUME NEW r \in 0 .. WRAP - 1, NEW w \in 0 .. WRAP - 1, Dist(r, w) <= PIPESIZE
  PROVE  /\ (r + PIPESIZE + WRAP - w) % WRAP = PIPESIZE - Dist(r, w)
         /\ w = Plus(r, PIPESIZE) <=> Dist(r, w) = PIPESIZE
<1> DEFINE x == r + PIPESIZE + WRAP - w
           d == PIPESIZE - Dist(r, w)
<1>1. d \in 0 .. WRAP - 1 /\ x \in Nat
  BY DEF Dist
<1>2. x = 1 * WRAP + d \/ x = 2 * WRAP + d
  BY DEF Dist
<1>3. x % WRAP = d
  BY <1>1, <1>2, ModIs
<1>4. r + PIPESIZE \in 0 .. 2 * WRAP - 1
  OBVIOUS
<1>5. /\ r + PIPESIZE < WRAP => Plus(r, PIPESIZE) = r + PIPESIZE
      /\ ~(r + PIPESIZE < WRAP) => Plus(r, PIPESIZE) = r + PIPESIZE - WRAP
  BY <1>1, PlusIs
<1>6. w = Plus(r, PIPESIZE) <=> Dist(r, w) = PIPESIZE
  BY <1>5 DEF Dist
<1> QED BY <1>3, <1>6, Zenon

\* Storing k bytes moves w by k.
LEMMA Grows ==
  ASSUME NEW r \in 0 .. WRAP - 1, NEW w \in 0 .. WRAP - 1,
         NEW k \in Nat, Dist(r, w) + k <= PIPESIZE
  PROVE  Plus(w, k) \in 0 .. WRAP - 1 /\ Dist(r, Plus(w, k)) = Dist(r, w) + k
<1>1. Dist(r, w) \in Nat
  BY DEF Dist
<1>2. w + k \in 0 .. 2 * WRAP - 1
  BY <1>1
<1>3. /\ w + k < WRAP => Plus(w, k) = w + k
      /\ ~(w + k < WRAP) => Plus(w, k) = w + k - WRAP
  BY <1>1, PlusIs
<1> QED BY <1>2, <1>3 DEF Dist

\* Taking k bytes moves r by k.
LEMMA Shrinks ==
  ASSUME NEW r \in 0 .. WRAP - 1, NEW w \in 0 .. WRAP - 1, NEW k \in 0 .. Dist(r, w)
  PROVE  Plus(r, k) \in 0 .. WRAP - 1 /\ Dist(Plus(r, k), w) = Dist(r, w) - k
<1>1. Dist(r, w) \in 0 .. WRAP - 1
  BY DEF Dist
<1>2. r + k \in 0 .. 2 * WRAP - 1
  BY <1>1
<1>3. /\ r + k < WRAP => Plus(r, k) = r + k
      /\ ~(r + k < WRAP) => Plus(r, k) = r + k - WRAP
  BY <1>1, PlusIs
<1> QED BY <1>2, <1>3 DEF Dist

\* A wrap of a counter does not move its index.
LEMMA IndexWraps ==
  ASSUME NEW r \in 0 .. WRAP - 1, NEW k \in 0 .. PIPESIZE, NEW i \in Nat
  PROVE  (Plus(r, k) + i) % PIPESIZE = (r + k + i) % PIPESIZE
<1>1. r + k \in 0 .. 2 * WRAP - 1
  OBVIOUS
<1>0. /\ r + k < WRAP => Plus(r, k) = r + k
      /\ ~(r + k < WRAP) => Plus(r, k) = r + k - WRAP
  BY <1>1, PlusIs
<1>2. CASE r + k < WRAP
  BY <1>0, <1>2, Zenon
<1>3. CASE r + k >= WRAP
  <2>1. Plus(r, k) = r + k - WRAP
    BY <1>0, <1>3
  <2> DEFINE a == r + k - WRAP + i
  <2>2. a \in Nat /\ a = Plus(r, k) + i /\ a + WRAP = r + k + i
    BY <1>3, <2>1
  <2>3. (a + WRAP) % PIPESIZE = a % PIPESIZE
    <3> HIDE DEF a
    <3> QED BY <2>2, ModPlus, Zenon
  <2> QED BY <2>2, <2>3, Zenon
<1> QED BY <1>2, <1>3

\* The index of the next byte to store is the one after the last stored.
LEMMA IndexOfWrite ==
  ASSUME NEW r \in 0 .. WRAP - 1, NEW w \in 0 .. WRAP - 1, NEW i \in Nat
  PROVE  (w + i) % PIPESIZE = (r + Dist(r, w) + i) % PIPESIZE
<1>1. CASE r <= w
  BY <1>1 DEF Dist
<1>2. CASE w < r
  <2> DEFINE a == w + i
  <2>1. a \in Nat /\ r + Dist(r, w) + i = a + WRAP
    BY <1>2 DEF Dist
  <2>2. (a + WRAP) % PIPESIZE = a % PIPESIZE
    <3> HIDE DEF a
    <3> QED BY <2>1, ModPlus, Zenon
  <2> QED BY <2>1, <2>2, Zenon
<1> QED BY <1>1, <1>2

-----------------------------------------------------------------------------
(* The bytes *)

Ring == nread \in 0 .. WRAP - 1 /\ nwrite \in 0 .. WRAP - 1 /\ data \in [0 .. PIPESIZE - 1 -> Values]

\* n bytes of the ring d from the counter r on
Bytes(d, r, n) == [i \in 1 .. n |-> d[(r + i - 1) % PIPESIZE]]

\* Two places less than PIPESIZE apart are different.
LEMMA PlacesDiffer ==
  ASSUME NEW a \in Nat, NEW i \in Nat \ {0}, NEW j \in Nat \ {0}, i < j, j < i + PIPESIZE
  PROVE  (a + i - 1) % PIPESIZE # (a + j - 1) % PIPESIZE
<1> DEFINE x == a + i - 1
           y == a + j - 1
<1>1. x \in Nat /\ y \in Nat /\ x < y /\ y < x + PIPESIZE
  OBVIOUS
<1>2. x % PIPESIZE # y % PIPESIZE
  <2> HIDE DEF x, y
  <2> QED BY <1>1, ModDiffers, Zenon
<1> QED BY <1>2, Zenon

\* Every place is in the ring.
LEMMA InRing ==
  ASSUME NEW a \in Nat, NEW i \in Nat \ {0}
  PROVE  (a + i - 1) % PIPESIZE \in 0 .. PIPESIZE - 1
<1> DEFINE x == a + i - 1
<1>1. x \in Nat
  OBVIOUS
<1>2. x % PIPESIZE \in 0 .. PIPESIZE - 1
  <2> HIDE DEF x
  <2> QED BY <1>1
<1> QED BY <1>2, Zenon

\* pipewrite's byte j goes where the byte Used + j is looked for.
LEMMA WritePlace ==
  ASSUME Ring, NEW j \in Nat \ {0}
  PROVE  (nwrite + j - 1) % PIPESIZE = (nread + (Used + j) - 1) % PIPESIZE
<1>1. Used = Dist(nread, nwrite) /\ Used \in Nat
  <2>1. Used = Dist(nread, nwrite)
    BY UsedIs, Zenon DEF Used, Ring
  <2>2. Dist(nread, nwrite) \in Nat
    BY DEF Ring, Dist
  <2> QED BY <2>1, <2>2, Zenon
<1>2. j - 1 \in Nat
  OBVIOUS
<1>3. (nwrite + (j - 1)) % PIPESIZE = (nread + Dist(nread, nwrite) + (j - 1)) % PIPESIZE
  BY <1>2, IndexOfWrite DEF Ring
<1>4. nwrite + (j - 1) = nwrite + j - 1 /\ nread + Used + (j - 1) = nread + (Used + j) - 1
  BY <1>1 DEF Ring
<1> HIDE DEF Used
<1> QED BY <1>1, <1>3, <1>4, Zenon

\* What comes behind x in x \o y is y.
Behind(x, y) ==
  \A j \in 1 .. Len(x) + Len(y) : j > Len(x) => (x \o y)[j] = y[j - Len(x)]

\* It is, for two sequences of values.
LEMMA BehindFirst ==
  ASSUME NEW x \in Seq(Values), NEW y \in Seq(Values) PROVE Behind(x, y)
  BY DEF Behind

\* Storing appends.
LEMMA StoreAppends ==
  ASSUME Ring, NEW s \in Seq(Values), NEW k \in 0 .. Len(s), Used + k <= PIPESIZE
  PROVE  /\ Stored(s, k) \in [0 .. PIPESIZE - 1 -> Values]
         /\ Bytes(Stored(s, k), nread, Used + k) = Bytes(data, nread, Used) \o SubSeq(s, 1, k)
<1>0. Used \in Nat /\ nread \in Nat /\ nwrite \in Nat
  BY UsedIs DEF Used, Ring
<1> DEFINE d == Stored(s, k)
<1>1. \A j \in 0 .. PIPESIZE - 1 : d[j] \in Values
  <2> TAKE j \in 0 .. PIPESIZE - 1
  <2>1. CASE \E i \in 1 .. k : (nwrite + i - 1) % PIPESIZE = j
    <3> DEFINE c == CHOOSE i \in 1 .. k : (nwrite + i - 1) % PIPESIZE = j
    <3>1. c \in 1 .. k
      BY <2>1, Zenon
    <3>2. d[j] = s[c]
      BY <2>1, Zenon DEF Stored
    <3> HIDE DEF c
    <3> QED BY <3>1, <3>2
  <2>2. CASE ~ \E i \in 1 .. k : (nwrite + i - 1) % PIPESIZE = j
    BY <2>2, Zenon DEF Stored, Ring
  <2> QED BY <2>1, <2>2, Zenon
<1>2. ASSUME NEW i \in 1 .. Used
      PROVE  d[(nread + i - 1) % PIPESIZE] = data[(nread + i - 1) % PIPESIZE]
  <2>1. (nread + i - 1) % PIPESIZE \in 0 .. PIPESIZE - 1
    BY <1>0, InRing
  <2>2. ASSUME NEW m \in 1 .. k PROVE (nwrite + m - 1) % PIPESIZE # (nread + i - 1) % PIPESIZE
    <3>1. (nwrite + m - 1) % PIPESIZE = (nread + (Used + m) - 1) % PIPESIZE
      BY WritePlace
    <3>2. Used + m \in Nat \ {0} /\ i \in Nat \ {0} /\ i < Used + m /\ Used + m < i + PIPESIZE
      BY <1>0
    <3>3. (nread + i - 1) % PIPESIZE # (nread + (Used + m) - 1) % PIPESIZE
      BY <1>0, <3>2, PlacesDiffer, Zenon
    <3> QED BY <3>1, <3>3, Zenon
  <2> QED BY <2>1, <2>2, Zenon DEF Stored
<1>3. ASSUME NEW m \in 1 .. k
      PROVE  d[(nread + (Used + m) - 1) % PIPESIZE] = s[m]
  <2>1. (nwrite + m - 1) % PIPESIZE = (nread + (Used + m) - 1) % PIPESIZE
    BY WritePlace
  <2>2. (nwrite + m - 1) % PIPESIZE \in 0 .. PIPESIZE - 1
    BY <1>0, InRing
  <2>3. ASSUME NEW l \in 1 .. k, l # m
        PROVE  (nwrite + l - 1) % PIPESIZE # (nwrite + m - 1) % PIPESIZE
    <3>1. CASE l < m
      <4>1. l \in Nat \ {0} /\ m \in Nat \ {0} /\ m < l + PIPESIZE
        BY <1>0
      <4> QED BY <1>0, <3>1, <4>1, PlacesDiffer, Zenon
    <3>2. CASE m < l
      <4>1. l \in Nat \ {0} /\ m \in Nat \ {0} /\ l < m + PIPESIZE
        BY <1>0
      <4> QED BY <1>0, <3>2, <4>1, PlacesDiffer, Zenon
    <3> QED BY <2>3, <3>1, <3>2
  <2>4. (CHOOSE l \in 1 .. k : (nwrite + l - 1) % PIPESIZE = (nwrite + m - 1) % PIPESIZE) = m
    BY <2>3, Zenon
  <2>5. d[(nwrite + m - 1) % PIPESIZE] = s[m]
    BY <2>2, <2>4, Zenon DEF Stored
  <2> QED BY <2>1, <2>5, Zenon
<1> DEFINE A == Bytes(data, nread, Used)
           B == SubSeq(s, 1, k)
<1>4. A \in Seq(Values) /\ Len(A) = Used /\ \A i \in 1 .. Used : A[i] = data[(nread + i - 1) % PIPESIZE]
  <2>1. \A i \in 1 .. Used : data[(nread + i - 1) % PIPESIZE] \in Values
    BY <1>0, InRing DEF Ring
  <2> QED BY <1>0, <2>1 DEF Bytes
<1>5. B \in Seq(Values) /\ Len(B) = k /\ \A m \in 1 .. k : B[m] = s[m]
  OBVIOUS
<1>6. ASSUME NEW i \in 1 .. Used + k PROVE Bytes(d, nread, Used + k)[i] = (A \o B)[i]
  <2>1. Bytes(d, nread, Used + k)[i] = d[(nread + i - 1) % PIPESIZE]
    BY Zenon DEF Bytes
  <2> HIDE DEF A, B, d
  <2>2. CASE i <= Used
    <3>1. i \in 1 .. Used
      BY <1>0, <2>2
    <3>2. (A \o B)[i] = A[i]
      BY <1>0, <1>4, <1>5, <3>1
    <3> QED BY <1>2, <1>4, <2>1, <3>1, <3>2, Zenon
  <2>3. CASE i > Used
    <3>1. i - Used \in 1 .. k /\ Used + (i - Used) = i
      BY <1>0, <2>3
    <3>2. d[(nread + (Used + (i - Used)) - 1) % PIPESIZE] = s[i - Used]
      BY <1>3, <3>1, Zenon
    <3>3. (A \o B)[i] = B[i - Used]
      <4>1. A \in Seq(Values) /\ B \in Seq(Values) /\ Len(A) = Used /\ Len(B) = k
        BY <1>4, <1>5, Zenon
      <4>2. i \in 1 .. Len(A) + Len(B) /\ i > Len(A)
        BY <2>3, <4>1, Zenon
      <4>3. Behind(A, B)
        BY <4>1, BehindFirst, Zenon
      <4>4. (A \o B)[i] = B[i - Len(A)]
        BY <4>2, <4>3, Zenon DEF Behind
      <4> QED BY <4>1, <4>4, Zenon
    <3> QED BY <1>5, <2>1, <3>1, <3>2, <3>3, Zenon
  <2>4. i <= Used \/ i > Used
    BY <1>0
  <2> QED BY <2>2, <2>3, <2>4, Zenon
<1>7. Bytes(d, nread, Used + k) = A \o B
  <2>1. Bytes(d, nread, Used + k) = [i \in 1 .. Used + k |-> Bytes(d, nread, Used + k)[i]]
    BY Zenon DEF Bytes
  <2>2. A \o B = [i \in 1 .. Used + k |-> (A \o B)[i]]
    <3> HIDE DEF A, B
    <3>1. ASSUME NEW u \in Seq(Values), NEW v \in Seq(Values)
          PROVE  u \o v = [i \in 1 .. Len(u) + Len(v) |-> (u \o v)[i]]
      <4>1. u \o v \in Seq(Values)
        OBVIOUS
      <4>2. Len(u \o v) = Len(u) + Len(v)
        OBVIOUS
      <4>3. ASSUME NEW w \in Seq(Values) PROVE w = [i \in 1 .. Len(w) |-> w[i]]
        OBVIOUS
      <4> QED BY <4>1, <4>2, <4>3, Zenon
    <3> QED BY <1>4, <1>5, <3>1, Zenon
  <2> HIDE DEF A, B, d
  <2> QED BY <1>6, <2>1, <2>2, Zenon
<1> QED BY <1>1, <1>7, Zenon DEF Stored

\* Taking returns the front and leaves the rest.
LEMMA TakeRemoves ==
  ASSUME Ring, NEW k \in 0 .. Used, k <= PIPESIZE
  PROVE  /\ Taken(k) = SubSeq(Bytes(data, nread, Used), 1, k)
         /\ Bytes(data, Plus(nread, k), Used - k) = SubSeq(Bytes(data, nread, Used), k + 1, Used)
<1>0. Used \in Nat /\ nread \in Nat
  BY UsedIs DEF Used, Ring
<1> DEFINE A == Bytes(data, nread, Used)
<1>1. A \in Seq(Values) /\ Len(A) = Used /\ \A i \in 1 .. Used : A[i] = data[(nread + i - 1) % PIPESIZE]
  <2>1. \A i \in 1 .. Used : data[(nread + i - 1) % PIPESIZE] \in Values
    BY <1>0, InRing DEF Ring
  <2> QED BY <1>0, <2>1 DEF Bytes
<1>2. Taken(k) = SubSeq(A, 1, k)
  <2> HIDE DEF A
  <2>1. SubSeq(A, 1, k) = [i \in 1 .. k |-> A[i]]
    BY <1>0, <1>1
  <2>2. \A i \in 1 .. k : i \in 1 .. Used
    BY <1>0
  <2>3. Taken(k) = [i \in 1 .. k |-> A[i]]
    BY <1>1, <2>2, Zenon DEF Taken
  <2> QED BY <2>1, <2>3, Zenon
<1>3. ASSUME NEW i \in 1 .. Used - k
      PROVE  data[(Plus(nread, k) + i - 1) % PIPESIZE] = A[k + i]
  <2>1. (Plus(nread, k) + (i - 1)) % PIPESIZE = (nread + k + (i - 1)) % PIPESIZE
    <3>1. i - 1 \in Nat /\ k \in 0 .. PIPESIZE
      BY <1>0
    <3> QED BY <3>1, IndexWraps DEF Ring
  <2>2. Plus(nread, k) \in Int
    BY <1>0 DEF Plus
  <2>3. Plus(nread, k) + (i - 1) = Plus(nread, k) + i - 1 /\ nread + k + (i - 1) = nread + (k + i) - 1
    BY <1>0, <2>2
  <2>4. k + i \in 1 .. Used
    BY <1>0
  <2> HIDE DEF A
  <2> QED BY <1>1, <2>1, <2>3, <2>4
<1>4. Bytes(data, Plus(nread, k), Used - k) = SubSeq(A, k + 1, Used)
  <2> HIDE DEF A
  <2>1. SubSeq(A, k + 1, Used) = [i \in 1 .. Used - k |-> A[k + i]]
    BY <1>0, <1>1
  <2>2. Bytes(data, Plus(nread, k), Used - k) = [i \in 1 .. Used - k |-> A[k + i]]
    BY <1>3, Zenon DEF Bytes
  <2> QED BY <2>1, <2>2, Zenon
<1> QED BY <1>2, <1>4, Zenon

-----------------------------------------------------------------------------
(* The inductive invariant *)

\* What the counters say does not change while they do not.
LEMMA QuietRing ==
  ASSUME UNCHANGED <<nread, nwrite>>
  PROVE  Used' = Used /\ (Empty' <=> Empty) /\ (Full' <=> Full)
BY Zenon DEF Used, Empty, Full

\* Used, Room, Empty and Full agree.
LEMMA RingFacts ==
  ASSUME IInv
  PROVE  /\ Ring /\ Used \in 0 .. PIPESIZE /\ Used = Dist(nread, nwrite)
         /\ Room = PIPESIZE - Used
         /\ Full <=> Used = PIPESIZE
         /\ Empty <=> Used = 0
<1>1. Ring /\ Used <= PIPESIZE
  BY Zenon DEF IInv, TypeOK, Ring
<1>2. Used = Dist(nread, nwrite)
  BY <1>1, UsedIs, Zenon DEF Ring, Used
<1>3. Dist(nread, nwrite) \in Nat
  BY <1>1 DEF Ring, Dist
<1>4. Room = PIPESIZE - Dist(nread, nwrite) /\ (Full <=> Dist(nread, nwrite) = PIPESIZE)
  BY <1>1, <1>2, RoomIs DEF Ring, Room, Full
<1>5. Empty <=> Dist(nread, nwrite) = 0
  BY <1>1 DEF Empty, Dist, Ring
<1> HIDE DEF Used
<1> QED BY <1>1, <1>2, <1>3, <1>4, <1>5

\* RefInv speaks of ref and ends only.
LEMMA SameRefs ==
  ASSUME RefInv, UNCHANGED <<ref, ends>> PROVE RefInv'
BY Zenon DEF RefInv, Holders

\* pipeclose closes an end that nobody holds.
LEMMA StepPipeclose ==
  ASSUME IInv, NEW p \in Procs, pipeclose(p) PROVE IInv'
<1>1. Used' = Used /\ (Empty' <=> Empty) /\ (Full' <=> Full)
  BY QuietRing, Zenon DEF pipeclose
<1>2. RefInv'
  BY SameRefs, Zenon DEF IInv, pipeclose
<1>3. CASE pc[p] = "close_w"
  <2>1. /\ writeopen' = FALSE /\ readopen' = readopen /\ pc' = [WakeReaders EXCEPT ![p] = "user"]
        /\ UNCHANGED <<data, nread, nwrite, lock, ref, ends, killed, rest, want, ret>>
        /\ allocated' = (readopen' \/ writeopen') /\ lock \in {NoProc, p}
    BY <1>3, Zenon DEF pipeclose, argVars, Free
  <2>2. TypeOK'
    BY <2>1, Zenon DEF IInv, TypeOK, WakeReaders, Places
  <2>3. EndInv'
    BY <1>3, <2>1, Zenon DEF IInv, TypeOK, EndInv, WakeReaders, InRead, InWrite
  <2>4. LockInv'
    BY <1>1, <1>3, <2>1, Zenon DEF IInv, TypeOK, LockInv, WakeReaders, NoProc
  <2>5. WritersWait'
    BY <1>1, <2>1, Zenon DEF IInv, TypeOK, WritersWait, WakeReaders
  <2> QED BY <1>1, <1>2, <2>2, <2>3, <2>4, <2>5, Zenon DEF IInv
<1>4. CASE pc[p] = "close_r"
  <2>1. /\ readopen' = FALSE /\ writeopen' = writeopen /\ pc' = [WakeWriters EXCEPT ![p] = "user"]
        /\ UNCHANGED <<data, nread, nwrite, lock, ref, ends, killed, rest, want, ret>>
        /\ allocated' = (readopen' \/ writeopen') /\ lock \in {NoProc, p}
    BY <1>4, Zenon DEF pipeclose, argVars, Free
  <2>2. TypeOK'
    BY <2>1, Zenon DEF IInv, TypeOK, WakeWriters, Places
  <2>3. EndInv'
    BY <1>4, <2>1, Zenon DEF IInv, TypeOK, EndInv, WakeWriters, InRead, InWrite
  <2>4. LockInv'
    BY <1>1, <1>4, <2>1, Zenon DEF IInv, TypeOK, LockInv, WakeWriters, NoProc
  <2>5. WritersWait'
    BY <2>1, Zenon DEF IInv, TypeOK, WritersWait, WakeWriters
  <2> QED BY <1>1, <1>2, <2>2, <2>3, <2>4, <2>5, Zenon DEF IInv
<1> QED BY <1>3, <1>4, Zenon DEF pipeclose

\* Starting a call, waiting, returning: only the place of p changes, and the lock.
LEMMA StepMoves ==
  ASSUME IInv, NEW p \in Procs,
         \/ \E n \in Counts : StartRead(p, n)
         \/ \E t \in Strings : StartWrite(p, t)
         \/ ReadKilled(p) \/ ReadWaits(p) \/ ReadReturns(p) \/ Doze(p)
  PROVE  IInv'
<1>0. UNCHANGED <<pipeVars, ref, ends, killed>>
  BY Zenon DEF StartRead, StartWrite, ReadKilled, ReadWaits, ReadReturns, Doze
<1>1. Used' = Used /\ (Empty' <=> Empty) /\ (Full' <=> Full)
  BY <1>0, QuietRing, Zenon DEF pipeVars
<1>2. RefInv'
  BY <1>0, SameRefs, Zenon DEF IInv
<1>3. ASSUME NEW n \in Counts, StartRead(p, n) PROVE IInv'
  <2>1. TypeOK'
    BY <1>3, Zenon DEF IInv, TypeOK, StartRead, pipeVars, Places
  <2>2. EndInv' /\ LockInv' /\ WritersWait'
    BY <1>1, <1>3 DEF IInv, TypeOK, StartRead, pipeVars, EndInv, LockInv, WritersWait, InRead, InWrite
  <2> QED BY <1>1, <1>2, <2>1, <2>2, Zenon DEF IInv
<1>4. ASSUME NEW t \in Strings, StartWrite(p, t) PROVE IInv'
  <2>0. t \in Seq(Values)
    BY DEF Strings
  <2>1. TypeOK'
    BY <1>4, <2>0, Zenon DEF IInv, TypeOK, StartWrite, pipeVars, Places
  <2>2. EndInv' /\ LockInv' /\ WritersWait'
    BY <1>1, <1>4 DEF IInv, TypeOK, StartWrite, pipeVars, EndInv, LockInv, WritersWait, InRead, InWrite
  <2> QED BY <1>1, <1>2, <2>1, <2>2, Zenon DEF IInv
<1>5. ASSUME ReadKilled(p) \/ ReadReturns(p) PROVE IInv'
  <2>0. pc' \in [Procs -> Places] /\ ret' \in [Procs -> Seq(Values) \cup {Failed}]
        /\ want' \in [Procs -> Counts \cup {0}] /\ UNCHANGED <<lock, rest>>
    <3>1. CASE ReadKilled(p)
      BY <3>1, Zenon DEF IInv, TypeOK, ReadKilled, Places
    <3>2. CASE ReadReturns(p)
      <4>1. <<>> \in Seq(Values)
        OBVIOUS
      <4> QED BY <3>2, <4>1, Zenon DEF IInv, TypeOK, ReadReturns, argVars, Places
    <3> QED BY <1>5, <3>1, <3>2, Zenon
  <2>1. TypeOK'
    BY <1>0, <2>0, Zenon DEF IInv, TypeOK, pipeVars
  <2>2. EndInv' /\ LockInv' /\ WritersWait'
    BY <1>1, <1>5, SMTT(30)
       DEF IInv, TypeOK, ReadKilled, ReadReturns, pipeVars, EndInv, LockInv, WritersWait, InRead, InWrite
  <2> QED BY <1>1, <1>2, <2>1, <2>2, Zenon DEF IInv
<1>6. ASSUME ReadWaits(p) PROVE IInv'
  <2>1. TypeOK'
    BY <1>6, Zenon DEF IInv, TypeOK, ReadWaits, pipeVars, argVars, Places
  <2>2. EndInv' /\ WritersWait'
    BY <1>1, <1>6 DEF IInv, TypeOK, ReadWaits, pipeVars, EndInv, WritersWait, InRead, InWrite
  <2>3. LockInv'
    BY <1>1, <1>6, Zenon DEF IInv, TypeOK, ReadWaits, pipeVars, LockInv, Free, NoProc
  <2> QED BY <1>1, <1>2, <2>1, <2>2, <2>3, Zenon DEF IInv
<1>7. ASSUME Doze(p) PROVE IInv'
  <2>1. TypeOK'
    BY <1>7, Zenon DEF IInv, TypeOK, Doze, pipeVars, argVars, Places
  <2>2. EndInv'
    BY <1>7 DEF IInv, TypeOK, Doze, pipeVars, EndInv, InRead, InWrite
  <2>3. LockInv' /\ WritersWait'
    BY <1>1, <1>7, ZenonT(20) DEF IInv, TypeOK, Doze, pipeVars, LockInv, WritersWait, NoProc
  <2> QED BY <1>1, <1>2, <2>1, <2>2, <2>3, Zenon DEF IInv
<1> QED BY <1>3, <1>4, <1>5, <1>6, <1>7, Zenon

\* kill
LEMMA StepKill ==
  ASSUME IInv, NEW p \in Procs, kill(p) PROVE IInv'
<1>1. Used' = Used /\ (Empty' <=> Empty) /\ (Full' <=> Full)
  BY QuietRing, Zenon DEF kill, pipeVars
<1>2. RefInv'
  BY SameRefs, Zenon DEF IInv, kill
<1>3. PICK x \in Places : /\ pc' = [pc EXCEPT ![p] = x]
                          /\ \/ pc[p] = "read_asleep" /\ x = "read"
                             \/ pc[p] = "write_asleep" /\ x = "write"
                             \/ pc[p] \notin {"read_asleep", "write_asleep"} /\ x = pc[p]
  <2>1. CASE pc[p] = "read_asleep"
    <3>1. pc' = [pc EXCEPT ![p] = "read"] /\ "read" \in Places
      BY <2>1, Zenon DEF kill, Places
    <3> QED BY <2>1, <3>1, Zenon
  <2>2. CASE pc[p] = "write_asleep"
    <3>1. pc' = [pc EXCEPT ![p] = "write"] /\ "write" \in Places
      BY <2>2, Zenon DEF kill, Places
    <3> QED BY <2>2, <3>1, Zenon
  <2>3. CASE pc[p] \notin {"read_asleep", "write_asleep"}
    <3>1. pc' = [pc EXCEPT ![p] = pc[p]] /\ pc[p] \in Places
      BY <2>3, Zenon DEF IInv, TypeOK, kill
    <3> QED BY <2>3, <3>1, Zenon
  <2> QED BY <2>1, <2>2, <2>3, Zenon
<1>4. TypeOK'
  BY <1>3 DEF IInv, TypeOK, kill, pipeVars, argVars
<1>5. EndInv'
  BY <1>3 DEF IInv, TypeOK, kill, pipeVars, EndInv, InRead, InWrite
<1>6. LockInv' /\ WritersWait'
  BY <1>1, <1>3 DEF IInv, TypeOK, kill, pipeVars, LockInv, WritersWait
<1> QED BY <1>1, <1>2, <1>4, <1>5, <1>6, Zenon DEF IInv

\* What Least returns.
LEMMA LeastIs ==
  ASSUME NEW a \in Nat, NEW b \in Nat
  PROVE  Least(a, b) \in Nat /\ Least(a, b) <= a /\ Least(a, b) <= b /\ Least(a, b) \in {a, b}
BY DEF Least

\* piperead takes no more than there is.
LEMMA ReadFacts ==
  ASSUME IInv, NEW p \in Procs, piperead(p)
  PROVE  \E k \in 0 .. Used :
           /\ k = Least(want[p], Used) /\ k <= PIPESIZE
           /\ ret' = [ret EXCEPT ![p] = Taken(k)]
           /\ nread' = Plus(nread, k) /\ nread' \in 0 .. WRAP - 1
           /\ Used' = Used - k
<1> DEFINE k == Least(want[p], Used)
<1>1. want[p] \in Nat
  <2>1. want[p] \in Counts \cup {0}
    BY Zenon DEF IInv, TypeOK
  <2>2. 0 \in Nat
    BY Zenon
  <2> QED BY <2>1, <2>2, Zenon
<1>2. Ring /\ Used \in 0 .. PIPESIZE /\ Used = Dist(nread, nwrite)
  BY RingFacts, Zenon
<1>3. k \in 0 .. Used /\ k <= PIPESIZE
  <2>1. Used \in Nat
    BY <1>2
  <2>2. k \in Nat /\ k <= Used
    BY <1>1, <2>1, LeastIs, Zenon
  <2> HIDE DEF k
  <2> QED BY <1>2, <2>2
<1>4. ret' = [ret EXCEPT ![p] = Taken(k)] /\ nread' = Plus(nread, k) /\ nwrite' = nwrite
  BY Zenon DEF piperead
<1> HIDE DEF k
<1>5. Plus(nread, k) \in 0 .. WRAP - 1 /\ Dist(Plus(nread, k), nwrite) = Dist(nread, nwrite) - k
  BY <1>2, <1>3, Shrinks DEF Ring
<1>6. Used' = Dist(nread', nwrite')
  BY <1>2, <1>4, <1>5, UsedIs, Zenon DEF Ring, Used
<1>7. Used' = Used - k
  BY <1>2, <1>4, <1>5, <1>6, Zenon
<1> QED BY <1>3, <1>4, <1>5, <1>7, Zenon DEF k

\* piperead wakes the writers and leaves at most what there was.
LEMMA StepRead ==
  ASSUME IInv, NEW p \in Procs, piperead(p) PROVE IInv'
<1>1. PICK k \in 0 .. Used :
           /\ k = Least(want[p], Used) /\ k <= PIPESIZE
           /\ ret' = [ret EXCEPT ![p] = Taken(k)]
           /\ nread' = Plus(nread, k) /\ nread' \in 0 .. WRAP - 1
           /\ Used' = Used - k
  BY ReadFacts, Zenon
<1>2. Ring /\ Used \in 0 .. PIPESIZE
  BY RingFacts, Zenon
<1>3. Taken(k) \in Seq(Values)
  <2>1. \A i \in 1 .. k : data[(nread + i - 1) % PIPESIZE] \in Values
    BY <1>2, InRing DEF Ring
  <2>2. k \in Nat
    BY <1>2
  <2> QED BY <2>1, <2>2 DEF Taken
<1>4. /\ pc' = [WakeWriters EXCEPT ![p] = "read_done"] /\ want' = [want EXCEPT ![p] = 0]
      /\ UNCHANGED <<data, nwrite, readopen, writeopen, allocated, lock, ref, ends, killed, rest>>
      /\ pc[p] = "read" /\ lock \in {NoProc, p}
  BY Zenon DEF piperead, Free
<1>5. TypeOK'
  <2>1. ret' \in [Procs -> Seq(Values) \cup {Failed}] /\ nread' \in 0 .. WRAP - 1
    BY <1>1, <1>3, Zenon DEF IInv, TypeOK
  <2> QED BY <1>4, <2>1, Zenon DEF IInv, TypeOK, WakeWriters, Places
<1>6. RefInv'
  BY <1>4, SameRefs, Zenon DEF IInv
<1>7. EndInv'
  BY <1>4 DEF IInv, TypeOK, EndInv, WakeWriters, InRead, InWrite
<1>8. \A q \in Procs : pc[q] \notin {"read_doze", "write_doze"}
  BY <1>4, Zenon DEF IInv, TypeOK, LockInv, NoProc
<1>9. LockInv' /\ WritersWait'
  BY <1>4, <1>8, Zenon DEF IInv, TypeOK, LockInv, WritersWait, WakeWriters
<1>10. Used' <= PIPESIZE
  BY <1>1, <1>2
<1> QED BY <1>5, <1>6, <1>7, <1>9, <1>10, Zenon DEF IInv

\* pipewrite stores no more than there is room for.
LEMMA WriteFacts ==
  ASSUME IInv, NEW p \in Procs, pipewrite(p)
  PROVE  \E k \in 0 .. Len(rest[p]) :
           /\ Used + k <= PIPESIZE
           /\ k = Len(rest[p]) \/ Used + k = PIPESIZE
           /\ data' = Stored(rest[p], k)
           /\ nwrite' = Plus(nwrite, k) /\ nwrite' \in 0 .. WRAP - 1
           /\ rest' = [rest EXCEPT ![p] = SubSeq(rest[p], k + 1, Len(rest[p]))]
           /\ Used' = Used + k
<1> DEFINE k == Least(Len(rest[p]), Room)
<1>1. rest[p] \in Seq(Values) /\ Len(rest[p]) \in Nat
  BY DEF IInv, TypeOK
<1>2. Ring /\ Used \in 0 .. PIPESIZE /\ Used = Dist(nread, nwrite) /\ Room = PIPESIZE - Used
  BY RingFacts, Zenon
<1>3. k \in 0 .. Len(rest[p]) /\ Used + k <= PIPESIZE /\ (k = Len(rest[p]) \/ Used + k = PIPESIZE)
  <2>1. Room \in Nat
    BY <1>2
  <2>2. k \in Nat /\ k <= Len(rest[p]) /\ k <= Room /\ k \in {Len(rest[p]), Room}
    BY <1>1, <2>1, LeastIs, Zenon
  <2> HIDE DEF k
  <2> QED BY <1>1, <1>2, <2>2
<1>4. /\ data' = Stored(rest[p], k) /\ nwrite' = Plus(nwrite, k) /\ nread' = nread
      /\ rest' = [rest EXCEPT ![p] = SubSeq(rest[p], k + 1, Len(rest[p]))]
  BY Zenon DEF pipewrite, Store, IInv, TypeOK
<1> HIDE DEF k
<1>5. Plus(nwrite, k) \in 0 .. WRAP - 1 /\ Dist(nread, Plus(nwrite, k)) = Dist(nread, nwrite) + k
  BY <1>2, <1>3, Grows DEF Ring
<1>6. Used' = Dist(nread', nwrite')
  BY <1>2, <1>4, <1>5, UsedIs, Zenon DEF Ring, Used
<1>7. Used' = Used + k
  BY <1>2, <1>4, <1>5, <1>6, Zenon
<1> QED BY <1>3, <1>4, <1>5, <1>7, Zenon

\* A place of a process that pipewrite may have woken.
LEMMA WokenReaders ==
  ASSUME IInv, NEW q \in Procs
  PROVE  /\ WakeReaders \in [Procs -> Places]
         /\ WakeReaders[q] = pc[q] \/ (pc[q] = "read_asleep" /\ WakeReaders[q] = "read")
BY Zenon DEF IInv, TypeOK, WakeReaders, Places

\* pipewrite leaves a full pipe if it does not write all, and sleeping writers
\* find the pipe as full as before.
LEMMA StepWrite ==
  ASSUME IInv, NEW p \in Procs, pipewrite(p) PROVE IInv'
<1>1. PICK k \in 0 .. Len(rest[p]) :
           /\ Used + k <= PIPESIZE
           /\ k = Len(rest[p]) \/ Used + k = PIPESIZE
           /\ data' = Stored(rest[p], k)
           /\ nwrite' = Plus(nwrite, k) /\ nwrite' \in 0 .. WRAP - 1
           /\ rest' = [rest EXCEPT ![p] = SubSeq(rest[p], k + 1, Len(rest[p]))]
           /\ Used' = Used + k
  BY WriteFacts, Zenon
<1>2. /\ Ring /\ Used \in 0 .. PIPESIZE
      /\ Full <=> Used = PIPESIZE
  BY RingFacts, Zenon
<1>3. rest[p] \in Seq(Values)
  BY Zenon DEF IInv, TypeOK
<1>4. data' \in [0 .. PIPESIZE - 1 -> Values]
  BY <1>1, <1>2, <1>3, StoreAppends, Zenon
<1>5. rest' \in [Procs -> Seq(Values)]
  <2>1. SubSeq(rest[p], k + 1, Len(rest[p])) \in Seq(Values)
    BY <1>3
  <2> QED BY <1>1, <2>1, Zenon DEF IInv, TypeOK
<1>6. /\ UNCHANGED <<nread, readopen, writeopen, allocated, ref, ends, killed, want, ret>>
      /\ pc[p] = "write" /\ lock \in {NoProc, p}
  BY Zenon DEF pipewrite, Free
<1>7. \/ pc' = [WakeReaders EXCEPT ![p] = "user"] /\ lock' = lock
      \/ pc' = [pc EXCEPT ![p] = "user"] /\ lock' = lock
      \/ /\ rest'[p] # <<>> /\ readopen
         /\ pc' = [WakeReaders EXCEPT ![p] = "write_doze"] /\ lock' = p
  BY Zenon DEF pipewrite
<1>8. TypeOK'
  <2>1. {"user", "write_doze"} \subseteq Places
    BY Zenon DEF Places
  <2>2. pc \in [Procs -> Places] /\ WakeReaders \in [Procs -> Places]
    BY WokenReaders, Zenon DEF IInv, TypeOK
  <2>3. pc' \in [Procs -> Places]
    BY <1>7, <2>1, <2>2
  <2>4. lock' \in Procs \cup {NoProc}
    BY <1>7, Zenon DEF IInv, TypeOK
  <2> QED BY <1>1, <1>4, <1>5, <1>6, <2>3, <2>4, Zenon DEF IInv, TypeOK
<1>9. RefInv'
  BY <1>6, SameRefs, Zenon DEF IInv
<1>10. Used' <= PIPESIZE
  BY <1>1, <1>2, Zenon
<1>11. \A q \in Procs : q # p => \/ pc'[q] = pc[q]
                                 \/ pc[q] = "read_asleep" /\ pc'[q] = "read"
  BY <1>7, WokenReaders, Zenon DEF IInv, TypeOK
<1>12. pc'[p] \in {"user", "write_doze"}
  BY <1>7, WokenReaders, Zenon DEF IInv, TypeOK
<1>13. EndInv'
  <2> SUFFICES ASSUME NEW q \in Procs
               PROVE  /\ InRead(q)' \/ pc'[q] = "read_done" => "r" \in ends[q]
                      /\ InWrite(q)' => "w" \in ends[q]
                      /\ pc'[q] = "close_r" => pc[q] = "close_r"
                      /\ pc'[q] = "close_w" => pc[q] = "close_w"
    BY <1>6, Zenon DEF IInv, EndInv
  <2>1. CASE q = p
    BY <1>6, <1>12, <2>1, Zenon DEF IInv, EndInv, InRead, InWrite
  <2>2. CASE q # p
    BY <1>11, <2>2, Zenon DEF IInv, EndInv, InRead, InWrite
  <2> QED BY <2>1, <2>2, Zenon
<1>14. Full' <=> Used' = PIPESIZE
  <2>1. nread' \in 0 .. WRAP - 1 /\ nwrite' \in 0 .. WRAP - 1
    BY <1>1, <1>2, <1>6, Zenon DEF Ring
  <2>2. Used' = Dist(nread', nwrite')
    BY <2>1, UsedIs, Zenon DEF Used
  <2>3. Dist(nread', nwrite') <= PIPESIZE
    BY <1>10, <2>2, Zenon
  <2>4. nwrite' = Plus(nread', PIPESIZE) <=> Dist(nread', nwrite') = PIPESIZE
    BY <2>1, <2>3, RoomIs
  <2> QED BY <2>2, <2>4, Zenon DEF Full
<1>15. \A q \in Procs : pc[q] \notin {"read_doze", "write_doze"}
  BY <1>6, Zenon DEF IInv, TypeOK, LockInv, NoProc
<1>16. rest'[p] # <<>> => Used' = PIPESIZE
  <2>1. rest'[p] = SubSeq(rest[p], k + 1, Len(rest[p]))
    BY <1>1, Zenon DEF IInv, TypeOK
  <2>2. k = Len(rest[p]) => SubSeq(rest[p], k + 1, Len(rest[p])) = <<>>
    BY <1>3
  <2> QED BY <1>1, <2>1, <2>2, Zenon
<1>17. LockInv'
  <2> SUFFICES ASSUME NEW q \in Procs
               PROVE  /\ lock' = q <=> pc'[q] \in {"read_doze", "write_doze"}
                      /\ pc'[q] = "read_doze" => FALSE
                      /\ pc'[q] = "write_doze" => Full' /\ readopen'
    BY Zenon DEF LockInv
  <2>1. pc'[q] = "write_doze" => q = p
    BY <1>11, <1>15, Zenon
  <2>2. pc'[q] # "read_doze"
    BY <1>11, <1>12, <1>15, Zenon
  <2>3. pc'[p] = "write_doze" => Full' /\ readopen'
    <3>1. pc'[p] = "write_doze" => rest'[p] # <<>> /\ readopen
      BY <1>7, WokenReaders, Zenon DEF IInv, TypeOK
    <3> QED BY <1>6, <1>14, <1>16, <3>1, Zenon
  <2>4. lock' = q <=> q = p /\ pc'[p] = "write_doze"
    <3>1. lock # q
      BY <1>15, Zenon DEF IInv, LockInv
    <3> QED BY <1>7, <3>1, WokenReaders, Zenon DEF IInv, TypeOK
  <2> QED BY <2>1, <2>2, <2>3, <2>4
<1>18. WritersWait'
  <2> SUFFICES ASSUME NEW q \in Procs, pc'[q] = "write_asleep" PROVE Full' /\ readopen'
    BY Zenon DEF WritersWait
  <2>1. pc[q] = "write_asleep"
    BY <1>11, <1>12, Zenon
  <2>2. Full /\ readopen
    BY <2>1, Zenon DEF IInv, WritersWait
  <2> QED BY <1>1, <1>2, <1>6, <1>14, <2>2
<1> QED BY <1>8, <1>9, <1>10, <1>13, <1>17, <1>18, Zenon DEF IInv

-----------------------------------------------------------------------------
\* The steps that change how many hold an end

INSTANCE FiniteSetTheorems

\* A new pipe has no users.
LEMMA InitIInv == Init => IInv
<1> SUFFICES ASSUME Init PROVE IInv
  BY Zenon
<1>0. PICK p \in Procs : ends = [q \in Procs |-> IF q = p THEN Ends ELSE {}]
  BY Zenon DEF Init
<1>1. Used = 0
  BY UsedIs DEF Init, Used, Dist
<1>2. TypeOK
  BY <1>0 DEF Init, TypeOK, Ends, Places, NoProc
<1>3. RefInv
  <2> SUFFICES ASSUME NEW e \in Ends PROVE IsFiniteSet(Holders(e)) /\ ref[e] = Cardinality(Holders(e))
    BY Zenon DEF RefInv
  <2>1. Holders(e) = {p}
    BY <1>0, Zenon DEF Holders
  <2>2. IsFiniteSet({p}) /\ Cardinality({p}) = 1
    BY FS_Singleton, Zenon
  <2> QED BY <2>1, <2>2, Zenon DEF Init
<1>4. EndInv /\ LockInv /\ WritersWait
  BY <1>0, Zenon DEF Init, EndInv, LockInv, WritersWait, InRead, InWrite, NoProc
<1> QED BY <1>1, <1>2, <1>3, <1>4 DEF IInv

\* pipealloc finds no user of an earlier pipe.
LEMMA StepAlloc ==
  ASSUME IInv, NEW p \in Procs, pipealloc(p) PROVE IInv'
<1>1. \A q \in Procs : ends[q] = {} /\ pc[q] = "user"
  <2>1. readopen = FALSE /\ writeopen = FALSE
    BY Zenon DEF IInv, EndInv, TypeOK, pipealloc
  <2>2. \A q \in Procs : ends[q] = {}
    <3> TAKE q \in Procs
    <3>1. "r" \notin ends[q] /\ "w" \notin ends[q]
      BY <2>1, Zenon DEF IInv, EndInv
    <3>2. ends[q] \subseteq {"r", "w"}
      BY Zenon DEF IInv, TypeOK, Ends
    <3> QED BY <3>1, <3>2, Zenon
  <2> QED BY <2>1, <2>2, Zenon DEF IInv, EndInv, TypeOK, InRead, InWrite, Places
<1>2. Used' = 0
  BY UsedIs DEF pipealloc, Used, Dist
<1>3. TypeOK'
  BY DEF IInv, TypeOK, pipealloc, argVars, Ends
<1>4. RefInv'
  <2> SUFFICES ASSUME NEW e \in Ends PROVE IsFiniteSet(Holders(e)') /\ ref'[e] = Cardinality(Holders(e)')
    BY Zenon DEF RefInv
  <2>1. Holders(e)' = {p}
    BY <1>1 DEF IInv, TypeOK, Holders, pipealloc
  <2>2. IsFiniteSet({p}) /\ Cardinality({p}) = 1
    BY FS_Singleton, Zenon
  <2> QED BY <2>1, <2>2, Zenon DEF pipealloc
<1>5. EndInv' /\ LockInv' /\ WritersWait'
  BY <1>1, Zenon DEF IInv, TypeOK, pipealloc, EndInv, LockInv, WritersWait, InRead, InWrite, Ends
<1> QED BY <1>2, <1>3, <1>4, <1>5, SMTT(30) DEF IInv

\* fork adds a holder to every end it copies.
LEMMA StepFork ==
  ASSUME IInv, NEW p \in Procs, NEW q \in Procs, fork(p, q) PROVE IInv'
<1>1. Used' = Used /\ (Empty' <=> Empty) /\ (Full' <=> Full)
  BY QuietRing, Zenon DEF fork, pipeVars
<1>2. TypeOK'
  BY DEF IInv, TypeOK, fork, pipeVars, argVars, Ends
<1>3. RefInv'
  <2> SUFFICES ASSUME NEW e \in Ends PROVE IsFiniteSet(Holders(e)') /\ ref'[e] = Cardinality(Holders(e)')
    BY Zenon DEF RefInv
  <2>1. IsFiniteSet(Holders(e)) /\ ref[e] = Cardinality(Holders(e))
    BY Zenon DEF IInv, RefInv
  <2>2. CASE e \in ends[p]
    <3>1. Holders(e)' = Holders(e) \cup {q} /\ q \notin Holders(e)
      BY <2>2 DEF IInv, TypeOK, Holders, fork
    <3>2. IsFiniteSet(Holders(e) \cup {q}) /\ Cardinality(Holders(e) \cup {q}) = Cardinality(Holders(e)) + 1
      BY <2>1, <3>1, FS_AddElement, Zenon
    <3> QED BY <2>1, <2>2, <3>1, <3>2, Zenon DEF fork
  <2>3. CASE e \notin ends[p]
    <3>1. Holders(e)' = Holders(e)
      BY <2>3, Zenon DEF IInv, TypeOK, Holders, fork
    <3> QED BY <2>1, <2>3, <3>1, Zenon DEF fork
  <2> QED BY <2>2, <2>3, Zenon
<1>4. EndInv'
  BY DEF IInv, TypeOK, fork, pipeVars, EndInv, InRead, InWrite
<1>5. LockInv' /\ WritersWait'
  BY <1>1, Zenon DEF IInv, fork, pipeVars, LockInv, WritersWait
<1> QED BY <1>1, <1>2, <1>3, <1>4, <1>5, Zenon DEF IInv

\* fileclose removes a holder; who removes the last one goes on to pipeclose.
LEMMA StepClose ==
  ASSUME IInv, NEW p \in Procs, NEW e \in Ends, fileclose(p, e) PROVE IInv'
<1>1. Used' = Used /\ (Empty' <=> Empty) /\ (Full' <=> Full)
  BY QuietRing, Zenon DEF fileclose, pipeVars
<1>2. /\ Holders(e)' = Holders(e) \ {p} /\ p \in Holders(e)
      /\ \A x \in Ends : x # e => Holders(x)' = Holders(x)
  BY Zenon DEF IInv, TypeOK, Holders, fileclose
<1>3. \A x \in Ends : IsFiniteSet(Holders(x)) /\ ref[x] = Cardinality(Holders(x))
  BY Zenon DEF IInv, RefInv
<1>4. /\ IsFiniteSet(Holders(e) \ {p}) /\ Cardinality(Holders(e) \ {p}) = Cardinality(Holders(e)) - 1
      /\ Cardinality(Holders(e) \ {p}) \in Nat
  BY <1>2, <1>3, FS_RemoveElement, FS_CardinalityType, Zenon
<1>5. ref[e] - 1 \in Nat /\ ref' = [ref EXCEPT ![e] = @ - 1]
  BY <1>3, <1>4, Zenon DEF fileclose
<1>6. TypeOK'
  <2>1. ref' \in [Ends -> Nat]
    BY <1>5, Zenon DEF IInv, TypeOK
  <2> QED BY <2>1, Zenon DEF IInv, TypeOK, fileclose, pipeVars, argVars, Places
<1>7. RefInv'
  <2> SUFFICES ASSUME NEW x \in Ends PROVE IsFiniteSet(Holders(x)') /\ ref'[x] = Cardinality(Holders(x)')
    BY Zenon DEF RefInv
  <2>1. CASE x = e
    BY <1>2, <1>3, <1>4, <1>5, <2>1, Zenon DEF IInv, TypeOK
  <2>2. CASE x # e
    BY <1>2, <1>3, <1>5, <2>2, Zenon DEF IInv, TypeOK
  <2> QED BY <2>1, <2>2, Zenon
<1>8. EndInv'
  <2>1. CASE ref[e] - 1 > 0
    BY <2>1 DEF IInv, TypeOK, fileclose, pipeVars, EndInv, InRead, InWrite
  <2>2. CASE ~(ref[e] - 1 > 0)
    <3>1. \A q \in Procs : e \notin ends'[q]
      <4>1. Cardinality(Holders(e) \ {p}) = 0
        <5>1. Cardinality(Holders(e) \ {p}) = ref[e] - 1
          BY <1>3, <1>4, Zenon
        <5>2. ~(Cardinality(Holders(e) \ {p}) > 0)
          BY <2>2, <5>1, Zenon
        <5>3. ASSUME NEW c \in Nat, ~(c > 0) PROVE c = 0
          BY <5>3
        <5> QED BY <1>4, <5>2, <5>3, Zenon
      <4>2. Holders(e)' = {}
        BY <1>2, <1>4, <4>1, FS_EmptySet, Zenon
      <4> QED BY <4>2, Zenon DEF Holders
    <3>2. \A q \in Procs : pc[q] # (IF e = "w" THEN "close_w" ELSE "close_r")
      BY DEF IInv, EndInv, fileclose, Ends
    <3>3. pc' = [pc EXCEPT ![p] = IF e = "w" THEN "close_w" ELSE "close_r"]
      BY <2>2, Zenon DEF fileclose
    <3>4. ends' = [ends EXCEPT ![p] = @ \ {e}] /\ pc[p] = "user" /\ e \in ends[p]
          /\ UNCHANGED <<readopen, writeopen, allocated, killed>>
      BY Zenon DEF fileclose, pipeVars
    <3>5. CASE e = "w"
      BY <3>1, <3>2, <3>3, <3>4, <3>5, SMTT(30) DEF IInv, TypeOK, EndInv, InRead, InWrite
    <3>6. CASE e = "r"
      BY <3>1, <3>2, <3>3, <3>4, <3>6, SMTT(30) DEF IInv, TypeOK, EndInv, InRead, InWrite
    <3> QED BY <3>5, <3>6, Zenon DEF Ends
  <2> QED BY <2>1, <2>2, Zenon
<1>9. LockInv' /\ WritersWait'
  BY <1>1, Zenon DEF IInv, TypeOK, fileclose, pipeVars, LockInv, WritersWait
<1> QED BY <1>1, <1>6, <1>7, <1>8, <1>9, Zenon DEF IInv

\* Every step keeps IInv.
LEMMA NextIInv == IInv /\ [Next]_vars => IInv'
<1> SUFFICES ASSUME IInv, [Next]_vars PROVE IInv'
  BY Zenon
<1>1. ASSUME NEW p \in Procs, Kernel(p) PROVE IInv'
  BY <1>1, StepPipeclose, StepMoves, StepRead, StepWrite, Zenon DEF Kernel
<1>2. ASSUME NEW p \in Procs, User(p) PROVE IInv'
  BY <1>2, StepAlloc, StepFork, StepClose, StepMoves, Zenon DEF User
<1>3. ASSUME NEW p \in Procs, kill(p) PROVE IInv'
  BY <1>3, StepKill, Zenon
<1>4. CASE UNCHANGED vars
  <2>1. Used' = Used /\ (Empty' <=> Empty) /\ (Full' <=> Full)
    BY <1>4, QuietRing, Zenon DEF vars, pipeVars
  <2>2. RefInv'
    BY <1>4, SameRefs, Zenon DEF IInv, vars
  <2>3. TypeOK' /\ EndInv'
    BY <1>4, Zenon DEF IInv, vars, pipeVars, argVars, TypeOK, EndInv, InRead, InWrite
  <2>4. LockInv' /\ WritersWait'
    BY <1>4, <2>1, Zenon DEF IInv, vars, pipeVars, LockInv, WritersWait
  <2> QED BY <2>1, <2>2, <2>3, <2>4, Zenon DEF IInv
<1> QED BY <1>1, <1>2, <1>3, <1>4, Zenon DEF Next

-----------------------------------------------------------------------------
\* IInv holds in every reachable state of the pipe.
THEOREM PipeInvariant == Spec => []IInv
<1> QED BY InitIInv, NextIInv, PTL DEF Spec

\* The pipe stays well typed: in particular the counters stay in range.
THEOREM PipeTyped == Spec => []TypeOK
<1>1. IInv => TypeOK
  BY Zenon DEF IInv
<1> QED BY <1>1, PipeInvariant, PTL

\* A writer sleeps only while the pipe is full and has a reader, whoever is
\* killed.
THEOREM WritersSleepOnFull == Spec => []WritersWait
<1>1. IInv => WritersWait
  BY Zenon DEF IInv
<1> QED BY <1>1, PipeInvariant, PTL

\* The page of a pipe is not freed while anybody can use it.
THEOREM PageOutlivesUsers == Spec => []NoUseAfterFree
<1>1. IInv => NoUseAfterFree
  <2> SUFFICES ASSUME IInv, NEW p \in Procs, ends[p] # {} \/ pc[p] # "user" PROVE allocated
    BY Zenon DEF NoUseAfterFree
  <2>1. ends[p] \subseteq {"r", "w"} /\ pc[p] \in Places
    BY Zenon DEF IInv, TypeOK, Ends
  <2>2. ends[p] # {} => readopen \/ writeopen
    BY <2>1, Zenon DEF IInv, EndInv
  <2>3. pc[p] # "user" => readopen \/ writeopen
    BY <2>1, Zenon DEF IInv, EndInv, InRead, InWrite, Places
  <2> QED BY <2>2, <2>3, Zenon DEF IInv, EndInv
<1> QED BY <1>1, PipeInvariant, PTL

\* As long as nobody is killed, a reader sleeps only while the pipe is empty
\* and has a writer.
THEOREM ReadersSleepOnEmpty == Spec => []ReadersWait
<1>1. Init => ReadersWait
  BY Zenon DEF Init, ReadersWait
<1>2. IInv /\ ReadersWait /\ [Next]_vars => ReadersWait'
  <2> SUFFICES ASSUME IInv, ReadersWait, [Next]_vars, killed' = {},
                      NEW q \in Procs, pc'[q] = "read_asleep"
               PROVE  Empty' /\ writeopen'
    BY Zenon DEF ReadersWait
  <2> killed = {}
    BY DEF Next, Kernel, User, vars, pipealloc, fork, fileclose, StartRead, StartWrite, pipeclose,
           ReadKilled, ReadWaits, piperead, ReadReturns, pipewrite, Doze, kill
  <2>1. ASSUME NEW p \in Procs, pipealloc(p) PROVE Empty' /\ writeopen'
    BY <2>1, Zenon DEF pipealloc, Empty
  <2>2. ASSUME NEW p \in Procs, pipeclose(p) PROVE Empty' /\ writeopen'
    <3>1. pc[q] = "read_asleep" /\ pc[p] = "close_r"
      BY <2>2, Zenon DEF IInv, TypeOK, pipeclose, WakeReaders, WakeWriters
    <3> QED BY <2>2, <3>1 DEF ReadersWait, pipeclose, Empty
  <2>3. ASSUME NEW p \in Procs, piperead(p) PROVE Empty' /\ writeopen'
    <3>1. pc[q] = "read_asleep"
      BY <2>3, Zenon DEF IInv, TypeOK, piperead, WakeWriters
    <3> QED BY <2>3, <3>1, Zenon DEF ReadersWait, piperead
  <2>4. ASSUME NEW p \in Procs, pipewrite(p) PROVE Empty' /\ writeopen'
    <3>1. pc' = [pc EXCEPT ![p] = "user"] /\ rest'[p] # <<>> /\ ~readopen
      BY <2>4, Zenon DEF IInv, TypeOK, pipewrite, WakeReaders
    <3>2. pc[q] = "read_asleep"
      BY <3>1, Zenon DEF IInv, TypeOK
    <3>3. readopen
      BY <3>2, Zenon DEF IInv, EndInv, InRead
    <3> QED BY <3>1, <3>3, Zenon
  <2>5. ASSUME NEW p \in Procs, Doze(p) PROVE Empty' /\ writeopen'
    BY <2>5, Zenon DEF IInv, TypeOK, LockInv, ReadersWait, Doze, Empty, pipeVars
  <2>6. ASSUME NEW p \in Procs, ReadKilled(p) \/ ReadWaits(p) \/ ReadReturns(p) \/ kill(p)
        PROVE  Empty' /\ writeopen'
    BY <2>6, Zenon DEF IInv, TypeOK, ReadersWait, ReadKilled, ReadWaits, ReadReturns, kill, Empty, pipeVars
  <2>7. ASSUME NEW p \in Procs, User(p), ~pipealloc(p) PROVE Empty' /\ writeopen'
    BY <2>7 DEF IInv, TypeOK, ReadersWait, User, fork, fileclose, StartRead, StartWrite, Empty, pipeVars
  <2>8. CASE UNCHANGED vars
    BY <2>8, Zenon DEF ReadersWait, vars, pipeVars, Empty
  <2> QED BY <2>1, <2>2, <2>3, <2>4, <2>5, <2>6, <2>7, <2>8, Zenon DEF Next, Kernel
<1> QED BY <1>1, <1>2, PipeInvariant, PTL DEF Spec

\* No wakeup is lost in piperead, pipewrite or pipeclose.
THEOREM PipeLosesNoWakeup == Spec => []SleepersWait
BY WritersSleepOnFull, ReadersSleepOnEmpty, PTL DEF SleepersWait

-----------------------------------------------------------------------------
(* The pipe implements Stream *)

Stutters == UNCHANGED <<Contents, writeopen, want, ret>>

\* Contents in terms of Bytes.
LEMMA ContentsIs == Contents = Bytes(data, nread, Used)
BY Zenon DEF Contents, Bytes

\* Steps that leave the ring, the write end and the read calls alone.
LEMMA QuietContents ==
  ASSUME UNCHANGED <<data, nread, nwrite>> PROVE Contents' = Contents
BY Zenon DEF Contents, Used

\* A sequence of bytes is a sequence.
LEMMA ContentsType ==
  ASSUME IInv PROVE Contents \in Seq(Values) /\ Len(Contents) = Used
<1>1. Ring /\ Used \in Nat
  BY RingFacts
<1>2. \A i \in 1 .. Used : data[(nread + i - 1) % PIPESIZE] \in Values
  BY <1>1, InRing DEF Ring
<1> HIDE DEF Used
<1> QED BY <1>1, <1>2 DEF Contents

\* piperead is Take.
LEMMA SimRead ==
  ASSUME IInv, NEW p \in Procs, piperead(p) PROVE Channel!Take(p)
<1>1. PICK k \in 0 .. Used :
           /\ k = Least(want[p], Used) /\ k <= PIPESIZE
           /\ ret' = [ret EXCEPT ![p] = Taken(k)]
           /\ nread' = Plus(nread, k) /\ nread' \in 0 .. WRAP - 1
           /\ Used' = Used - k
  BY ReadFacts, Zenon
<1>2. Ring /\ Used \in Nat /\ (Empty <=> Used = 0)
  BY RingFacts
<1>3. Contents \in Seq(Values) /\ Len(Contents) = Used
  BY ContentsType, Zenon
<1>4. Taken(k) = SubSeq(Contents, 1, k)
  BY <1>1, <1>2, TakeRemoves, ContentsIs, Zenon
<1>5. Contents' = SubSeq(Contents, k + 1, Used)
  <2>1. Contents' = Bytes(data', nread', Used')
    BY Zenon DEF Contents, Bytes
  <2>2. data' = data
    BY Zenon DEF piperead
  <2> QED BY <1>1, <1>2, <2>1, <2>2, TakeRemoves, ContentsIs, Zenon
<1>6. Contents # <<>> \/ ~writeopen
  <2>1. ~Empty => Contents # <<>>
    BY <1>2, <1>3, Zenon
  <2> QED BY <2>1, Zenon DEF piperead
<1>7. k = IF want[p] <= Len(Contents) THEN want[p] ELSE Len(Contents)
  BY <1>1, <1>3, Zenon DEF Least
<1>8. want' = [want EXCEPT ![p] = 0] /\ writeopen' = writeopen
  BY Zenon DEF piperead
<1> HIDE DEF Used, Contents
<1> QED BY <1>1, <1>3, <1>4, <1>5, <1>6, <1>7, <1>8, Zenon DEF Channel!Take

\* pipewrite is Put, if it stores anything.
LEMMA SimWrite ==
  ASSUME IInv, NEW p \in Procs, pipewrite(p) PROVE Channel!Put \/ Stutters
<1>1. PICK k \in 0 .. Len(rest[p]) :
           /\ Used + k <= PIPESIZE
           /\ k = Len(rest[p]) \/ Used + k = PIPESIZE
           /\ data' = Stored(rest[p], k)
           /\ nwrite' = Plus(nwrite, k) /\ nwrite' \in 0 .. WRAP - 1
           /\ rest' = [rest EXCEPT ![p] = SubSeq(rest[p], k + 1, Len(rest[p]))]
           /\ Used' = Used + k
  BY WriteFacts, Zenon
<1>2. Ring /\ Used \in Nat
  BY RingFacts
<1>3. Contents \in Seq(Values) /\ Len(Contents) = Used
  BY ContentsType, Zenon
<1>4. rest[p] \in Seq(Values) /\ Len(rest[p]) \in Nat
  BY DEF IInv, TypeOK
<1> DEFINE s == SubSeq(rest[p], 1, k)
<1>5. Contents' = Contents \o s
  <2>1. Contents' = Bytes(data', nread', Used')
    BY Zenon DEF Contents, Bytes
  <2>2. nread' = nread
    BY Zenon DEF pipewrite
  <2> QED BY <1>1, <1>2, <1>4, <2>1, <2>2, StoreAppends, ContentsIs, Zenon
<1>6. writeopen /\ UNCHANGED <<writeopen, want, ret>>
  BY Zenon DEF IInv, EndInv, InWrite, pipewrite
<1>7. s \in [1 .. k -> Values] /\ s \in Seq(Values) /\ Len(s) = k
  <2>1. s \in Seq(Values) /\ Len(s) = k
    BY <1>4
  <2>2. ASSUME NEW t \in Seq(Values) PROVE t \in [1 .. Len(t) -> Values]
    OBVIOUS
  <2> QED BY <2>1, <2>2, Zenon
<1> HIDE DEF Used, Contents, s
<1>8. CASE k = 0
  <2>1. Contents \o s = Contents
    BY <1>3, <1>7, <1>8
  <2> QED BY <1>5, <1>6, <2>1, Zenon DEF Stutters
<1>9. CASE k # 0
  <2>1. k \in 1 .. PIPESIZE - Len(Contents)
    BY <1>1, <1>2, <1>3, <1>4, <1>9, SMTT(30)
  <2> QED BY <1>5, <1>6, <1>7, <2>1, Zenon DEF Channel!Put
<1> QED BY <1>8, <1>9, Zenon

\* The other steps: opening, closing, asking, failing, returning, or nothing
\* that can be seen.
LEMMA SimOthers ==
  ASSUME IInv, NEW p \in Procs, Kernel(p) \/ User(p) \/ kill(p), ~piperead(p), ~pipewrite(p)
  PROVE  Channel!Next \/ Stutters
<1>1. CASE pipealloc(p)
  <2>1. writeopen = FALSE
    BY <1>1, Zenon DEF IInv, TypeOK, EndInv, pipealloc
  <2>2. Used' = 0
    BY <1>1, UsedIs DEF pipealloc, Used, Dist
  <2>3. Contents' = <<>>
    <3> HIDE DEF Used
    <3> QED BY <2>2 DEF Contents
  <2> QED BY <1>1, <2>1, <2>3, Zenon DEF pipealloc, argVars, Channel!Next, Channel!Open
<1>2. CASE pipeclose(p)
  <2>1. Contents' = Contents
    BY <1>2, QuietContents, Zenon DEF pipeclose
  <2> QED BY <1>2, <2>1, Zenon DEF pipeclose, argVars, Channel!Next, Channel!Close, Stutters
<1>3. ASSUME ~pipealloc(p), ~pipeclose(p) PROVE Contents' = Contents /\ writeopen' = writeopen
  <2>1. UNCHANGED pipeVars
    BY <1>3, Zenon DEF Kernel, User, ReadKilled, ReadWaits, ReadReturns, Doze, fork, fileclose, StartRead, StartWrite, kill
  <2> QED BY <2>1, QuietContents, Zenon DEF pipeVars
<1>4. ASSUME NEW n \in Counts, StartRead(p, n), ~pipealloc(p), ~pipeclose(p) PROVE Channel!Next
  BY <1>3, <1>4, Zenon DEF StartRead, Channel!Next, Channel!Ask
<1>5. ASSUME ReadKilled(p), ~pipealloc(p), ~pipeclose(p) PROVE Channel!Next
  BY <1>3, <1>5, Zenon DEF ReadKilled, Channel!Next, Channel!Fail
<1>6. ASSUME ReadReturns(p), ~pipealloc(p), ~pipeclose(p) PROVE Channel!Next
  BY <1>3, <1>6, Zenon DEF ReadReturns, argVars, Channel!Next, Channel!Return
<1>7. ASSUME \/ ReadWaits(p) \/ Doze(p) \/ kill(p)
             \/ \E q \in Procs : fork(p, q)
             \/ \E e \in Ends : fileclose(p, e)
             \/ \E t \in Strings : StartWrite(p, t),
             ~pipealloc(p), ~pipeclose(p)
      PROVE  Stutters
  BY <1>3, <1>7, Zenon DEF ReadWaits, Doze, kill, fork, fileclose, StartWrite, argVars, Stutters
<1> QED BY <1>1, <1>2, <1>4, <1>5, <1>6, <1>7, Zenon DEF Kernel, User

\* For every PIPESIZE and every WRAP it divides, the pipe is a first-in
\* first-out channel of PIPESIZE bytes.
THEOREM PipeImplementsStream == Spec => StreamSpec
<1>1. Init => Channel!Init
  <2> SUFFICES ASSUME Init PROVE Channel!Init
    BY Zenon
  <2>1. Used = 0
    BY UsedIs DEF Init, Used, Dist
  <2>2. Contents = <<>>
    <3> HIDE DEF Used
    <3> QED BY <2>1 DEF Contents
  <2> QED BY <2>2, Zenon DEF Init, Channel!Init
<1>2. IInv /\ [Next]_vars => [Channel!Next]_Channel!vars
  <2> SUFFICES ASSUME IInv, [Next]_vars PROVE Channel!Next \/ UNCHANGED Channel!vars
    BY Zenon
  <2>1. ASSUME NEW p \in Procs, piperead(p) PROVE Channel!Next
    BY <2>1, SimRead, Zenon DEF Channel!Next
  <2>2. ASSUME NEW p \in Procs, pipewrite(p) PROVE Channel!Next \/ UNCHANGED Channel!vars
    BY <2>2, SimWrite, Zenon DEF Channel!Next, Channel!vars, Stutters
  <2>3. ASSUME NEW p \in Procs, Kernel(p) \/ User(p) \/ kill(p), ~piperead(p), ~pipewrite(p)
        PROVE  Channel!Next \/ UNCHANGED Channel!vars
    BY <2>3, SimOthers, Zenon DEF Channel!vars, Stutters
  <2>4. CASE UNCHANGED vars
    BY <2>4, QuietContents, Zenon DEF vars, pipeVars, argVars, Channel!vars
  <2> QED BY <2>1, <2>2, <2>3, <2>4, Zenon DEF Next
<1> QED BY <1>1, <1>2, PipeInvariant, PTL DEF Spec, StreamSpec, Channel!Spec
=============================================================================
