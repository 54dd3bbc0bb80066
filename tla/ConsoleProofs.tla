--------------------------- MODULE ConsoleProofs ---------------------------
(***************************************************************************)
(* Proofs about Console, for any number of processes, any INPUT_BUF and    *)
(* any WRAP that INPUT_BUF divides: the arithmetic of the three indices,   *)
(* the inductive invariant, and that the ring implements LineInput.        *)
(***************************************************************************)
EXTENDS Console, Integers, TLAPS

(* Remainders *)

\* Quotient and remainder.
LEMMA DivMod ==
  ASSUME NEW W \in Nat \ {0}, NEW a \in Nat
  PROVE  \E q \in Nat, d \in 0 .. W - 1 : a % W = d /\ a = q * W + d
<1>1. ASSUME NEW q \in Int, q = a \div W, NEW d \in Int, d = a % W
      PROVE  q \in Nat /\ d \in 0 .. W - 1 /\ a = q * W + d
  <2>1. d \in 0 .. W - 1
    BY <1>1
  <2>2. a = q * W + d
    BY <1>1
  <2>3. ASSUME q <= -1 PROVE FALSE
    <3>1. q * W <= (-1) * W
      BY <2>3
    <3>2. q * W \in Int
      OBVIOUS
    <3> QED BY <2>1, <2>2, <3>1, <3>2
  <2> QED BY <2>1, <2>2, <2>3
<1>2. a \div W \in Int /\ a % W \in Int
  OBVIOUS
<1> DEFINE q == a \div W
           d == a % W
<1>3. q \in Nat /\ d \in 0 .. W - 1 /\ a = q * W + d /\ a % W = d
  BY <1>1, <1>2, Zenon
<1> HIDE DEF q, d
<1> QED BY <1>3, Zenon

\* The remainder is the only number below W at a multiple of W from a.
LEMMA ModIs ==
  ASSUME NEW W \in Nat \ {0}, NEW a \in Nat, NEW q \in Nat, NEW d \in 0 .. W - 1, a = q * W + d
  PROVE  a % W = d
<1>1. PICK v \in Nat, z \in 0 .. W - 1 : a % W = z /\ a = v * W + z
  BY DivMod, Zenon
<1>2. (v - q) * W = d - z
  <2>1. (v - q) * W = v * W - q * W /\ v * W \in Int /\ q * W \in Int
    OBVIOUS
  <2> QED BY <1>1, <2>1
<1>3. CASE v - q <= -1
  <2>1. (v - q) * W <= -W
    BY <1>3
  <2> QED BY <1>2, <2>1
<1>4. CASE v - q = 0
  <2>1. (v - q) * W = 0
    BY <1>4
  <2> QED BY <1>1, <1>2, <2>1
<1>5. CASE v - q >= 1
  <2>1. (v - q) * W >= W
    BY <1>5
  <2> QED BY <1>2, <2>1
<1> QED BY <1>3, <1>4, <1>5

\* Adding a multiple of W changes nothing.
LEMMA ModPlus ==
  ASSUME NEW W \in Nat \ {0}, NEW V \in Nat, V % W = 0, NEW a \in Nat
  PROVE  (a + V) % W = a % W
<1>1. PICK q \in Nat, d \in 0 .. W - 1 : a % W = d /\ a = q * W + d
  BY DivMod
<1>2. PICK v \in Nat, z \in 0 .. W - 1 : V % W = z /\ V = v * W + z
  BY DivMod
<1>3. z = 0 /\ q * W \in Int /\ v * W \in Int /\ (q + v) * W = q * W + v * W
  <2>1. z = 0
    BY <1>2, Zenon
  <2>2. q * W \in Int /\ v * W \in Int /\ (q + v) * W = q * W + v * W
    OBVIOUS
  <2> QED BY <2>1, <2>2, Zenon
<1>4. a + V = (q + v) * W + d
  BY <1>1, <1>2, <1>3
<1>5. q + v \in Nat /\ a + V \in Nat
  OBVIOUS
<1>6. (a + V) % W = d
  BY <1>4, <1>5, ModIs, Zenon
<1> QED BY <1>1, <1>6, Zenon

\* Numbers less than W apart have different remainders.
LEMMA ModDiffers ==
  ASSUME NEW W \in Nat \ {0}, NEW a \in Nat, NEW b \in Nat, a < b, b < a + W
  PROVE  a % W # b % W
<1> SUFFICES ASSUME a % W = b % W PROVE FALSE
  BY Zenon
<1>1. PICK q \in Nat, d \in 0 .. W - 1 : a % W = d /\ a = q * W + d
  BY DivMod, Zenon
<1>2. PICK v \in Nat, z \in 0 .. W - 1 : b % W = z /\ b = v * W + z
  BY DivMod, Zenon
<1>3. (v - q) * W = b - a
  <2>1. (v - q) * W = v * W - q * W /\ v * W \in Int /\ q * W \in Int
    OBVIOUS
  <2>2. d = z
    BY <1>1, <1>2, Zenon
  <2> QED BY <1>1, <1>2, <2>1, <2>2
<1>4. CASE v - q <= 0
  <2>1. (v - q) * W <= 0
    BY <1>4
  <2> QED BY <1>3, <2>1
<1>5. CASE v - q >= 1
  <2>1. (v - q) * W >= W
    BY <1>5
  <2> QED BY <1>3, <2>1
<1> QED BY <1>4, <1>5

-----------------------------------------------------------------------------
(* The invariant *)

Index == 0 .. WRAP - 1
Slots == 0 .. INPUT_BUF - 1
Places == {"user", "locked", "read", "asleep", "relock", "unlock", "write"}

\* The place of the character at distance k from index i
Place(i, k) == Slot(Plus(i, k))

TypeOK ==
  /\ buf \in [Slots -> Chars] /\ r \in Index /\ w \in Index /\ e \in Index
  /\ owner \in Procs \cup {NoProc} /\ killed \subseteq Procs
  /\ pc \in [Procs -> Places] /\ n \in [Procs -> Nat] /\ got \in [Procs -> Seq(Chars)]

\* m characters can be read and l can still be taken back; those are no newlines
\* and no ends of file, and there are none when the buffer is full.
Holds(b, i, j, k, m, l) ==
  /\ m + l <= INPUT_BUF /\ (m + l = INPUT_BUF => l = 0)
  /\ j = Plus(i, m) /\ k = Plus(i, m + l)
  /\ \A c \in 1 .. l : b[Place(i, m + c - 1)] = "x"

Ring == \E m, l \in 0 .. INPUT_BUF : Holds(buf, r, w, e, m, l)

\* What a process has read while it goes on reading has no newline, and no end of
\* file; it sleeps only while there is nothing to read.
Reading ==
  \A p \in Procs :
    /\ pc[p] \in {"user", "locked"} => got[p] = <<>>
    /\ pc[p] \in {"read", "asleep"} => n[p] > 0 /\ \A i \in 1 .. Len(got[p]) : got[p][i] = "x"
    /\ pc[p] = "asleep" => r = w

IInv == TypeOK /\ Ring /\ Reading

-----------------------------------------------------------------------------
(* The indices *)

\* What the arithmetic needs of the constants
LEMMA Sizes == INPUT_BUF \in Nat /\ WRAP \in Nat /\ 0 < INPUT_BUF /\ INPUT_BUF < WRAP
BY ConsoleAssumption

\* What Plus computes, without remainders.
LEMMA PlusIs ==
  ASSUME NEW i \in Index, NEW k \in 0 .. WRAP
  PROVE  /\ Plus(i, k) \in Index
         /\ i + k < WRAP => Plus(i, k) = i + k
         /\ ~(i + k < WRAP) => Plus(i, k) = i + k - WRAP
<1>0. WRAP \in Nat \ {0} /\ i \in Nat /\ k \in Nat
  BY Sizes DEF Index
<1>1. CASE i + k < WRAP
  BY <1>0, <1>1 DEF Plus, Index
<1>2. CASE ~(i + k < WRAP)
  <2>1. i + k - WRAP \in 0 .. WRAP - 1 /\ i + k = 1 * WRAP + (i + k - WRAP) /\ i + k \in Nat
    BY <1>0, <1>2 DEF Index
  <2>2. (i + k) % WRAP = i + k - WRAP
    BY <1>0, <2>1, ModIs
  <2> QED BY <1>2, <2>1, <2>2 DEF Plus, Index
<1> QED BY <1>1, <1>2, Zenon

\* Minus gives back what Plus added.
LEMMA MinusIs ==
  ASSUME NEW i \in Index, NEW k \in 0 .. WRAP - 1
  PROVE  Minus(Plus(i, k), i) = k
<1>0. WRAP \in Nat \ {0} /\ i \in Nat /\ k \in Nat /\ k \in 0 .. WRAP
  BY Sizes DEF Index
<1>1. CASE i + k < WRAP
  <2>1. Plus(i, k) + WRAP - i = 1 * WRAP + k /\ 1 * WRAP + k \in Nat
    BY <1>0, <1>1, PlusIs
  <2> QED BY <1>0, <2>1, ModIs DEF Minus
<1>2. CASE ~(i + k < WRAP)
  <2>1. Plus(i, k) + WRAP - i = 0 * WRAP + k /\ 0 * WRAP + k \in Nat
    BY <1>0, <1>2, PlusIs
  <2> QED BY <1>0, <2>1, ModIs DEF Minus
<1> QED BY <1>1, <1>2, Zenon

\* Two moves make one.
LEMMA PlusPlus ==
  ASSUME NEW i \in Index, NEW k \in Nat, NEW m \in Nat, k + m <= WRAP
  PROVE  Plus(Plus(i, k), m) = Plus(i, k + m)
<1>0. WRAP \in Nat \ {0} /\ i \in Nat
  BY Sizes DEF Index
<1>1. k \in 0 .. WRAP /\ m \in 0 .. WRAP /\ k + m \in 0 .. WRAP
  BY <1>0
<1>2. /\ Plus(i, k) \in Index
      /\ i + k < WRAP => Plus(i, k) = i + k
      /\ ~(i + k < WRAP) => Plus(i, k) = i + k - WRAP
  BY <1>1, PlusIs, Zenon
<1>3. /\ Plus(i, k + m) \in Index
      /\ i + (k + m) < WRAP => Plus(i, k + m) = i + (k + m)
      /\ ~(i + (k + m) < WRAP) => Plus(i, k + m) = i + (k + m) - WRAP
  BY <1>1, PlusIs, Zenon
<1> DEFINE j == Plus(i, k)
<1>4. /\ j + m < WRAP => Plus(j, m) = j + m
      /\ ~(j + m < WRAP) => Plus(j, m) = j + m - WRAP
  BY <1>1, <1>2, PlusIs, Zenon
<1>5. /\ j \in Index
      /\ i + k < WRAP => j = i + k
      /\ ~(i + k < WRAP) => j = i + k - WRAP
  BY <1>2, Zenon
<1>6. Plus(j, m) = Plus(i, k + m)
  <2> HIDE DEF j
  <2> DEFINE x == Plus(j, m)
             y == Plus(i, k + m)
  <2>1. /\ j + m < WRAP => x = j + m
        /\ ~(j + m < WRAP) => x = j + m - WRAP
    BY <1>4, Zenon
  <2>2. /\ y \in Index
        /\ i + (k + m) < WRAP => y = i + (k + m)
        /\ ~(i + (k + m) < WRAP) => y = i + (k + m) - WRAP
    BY <1>3, Zenon
  <2> HIDE DEF x, y
  <2> QED BY <1>0, <1>5, <2>1, <2>2 DEF Index, x, y
<1> QED BY <1>6, Zenon

\* Going back from the end of m characters.
LEMMA MinusBack ==
  ASSUME NEW i \in Index, NEW m \in Nat, NEW k \in 0 .. m, m < WRAP
  PROVE  Minus(Plus(i, m), k) = Plus(i, m - k)
<1>0. WRAP \in Nat \ {0} /\ i \in Nat /\ k \in Nat /\ m - k \in Nat
  BY Sizes DEF Index
<1>1. m - k \in 0 .. WRAP /\ m \in 0 .. WRAP
  BY <1>0
<1> DEFINE j == Plus(i, m)
           x == Plus(i, m - k)
<1>2. /\ j \in Index
      /\ i + m < WRAP => j = i + m
      /\ ~(i + m < WRAP) => j = i + m - WRAP
  BY <1>1, PlusIs, Zenon
<1>3. /\ x \in Index
      /\ i + (m - k) < WRAP => x = i + (m - k)
      /\ ~(i + (m - k) < WRAP) => x = i + (m - k) - WRAP
  BY <1>1, PlusIs, Zenon
<1> HIDE DEF j, x
<1>4. x \in 0 .. WRAP - 1 /\ j + WRAP - k \in Nat
      /\ (j + WRAP - k = 1 * WRAP + x \/ j + WRAP - k = 0 * WRAP + x)
  BY <1>0, <1>1, <1>2, <1>3 DEF Index
<1>5. (j + WRAP - k) % WRAP = x
  BY <1>0, <1>4, ModIs
<1> QED BY <1>5, Zenon DEF Minus, j, x

\* Where k leads is at the remainder by INPUT_BUF: a wrap of the index does not move it.
LEMMA PlaceIs ==
  ASSUME NEW i \in Index, NEW k \in 0 .. WRAP
  PROVE  Place(i, k) = (i + k) % INPUT_BUF /\ Place(i, k) \in Slots
<1>0. WRAP \in Nat /\ INPUT_BUF \in Nat \ {0} /\ i \in Nat /\ k \in Nat
  BY Sizes DEF Index
<1>1. ASSUME i + k < WRAP PROVE Place(i, k) = (i + k) % INPUT_BUF
  <2>1. Plus(i, k) = i + k
    BY <1>1, PlusIs, Zenon
  <2> QED BY <2>1, Zenon DEF Place, Slot
<1>2. ASSUME ~(i + k < WRAP) PROVE Place(i, k) = (i + k) % INPUT_BUF
  <2> DEFINE a == i + k - WRAP
  <2>1. a \in Nat /\ a + WRAP = i + k
    BY <1>0, <1>2
  <2>2. Plus(i, k) = a
    BY <1>2, PlusIs, Zenon
  <2>3. (a + WRAP) % INPUT_BUF = a % INPUT_BUF
    <3> HIDE DEF a
    <3>1. WRAP % INPUT_BUF = 0
      BY ConsoleAssumption, Zenon
    <3> QED BY <1>0, <2>1, <3>1, ModPlus, Zenon
  <2> QED BY <2>1, <2>2, <2>3, Zenon DEF Place, Slot
<1>3. Place(i, k) = (i + k) % INPUT_BUF
  BY <1>1, <1>2, Zenon
<1>4. i + k \in Nat
  BY <1>0
<1>5. (i + k) % INPUT_BUF \in Slots
  <2> DEFINE a == i + k
  <2>1. a \in Nat
    BY <1>4, Zenon
  <2> HIDE DEF a
  <2>2. a % INPUT_BUF \in Slots
    BY <1>0, <2>1 DEF Slots
  <2> QED BY <2>2, Zenon DEF a
<1> QED BY <1>3, <1>5, Zenon

\* The characters in the buffer have places of their own.
LEMMA PlacesDiffer ==
  ASSUME NEW i \in Index, NEW k \in 0 .. INPUT_BUF - 1, NEW m \in 0 .. INPUT_BUF - 1, k # m
  PROVE  Place(i, k) # Place(i, m)
<1>0. WRAP \in Nat /\ INPUT_BUF \in Nat \ {0} /\ i \in Nat /\ k \in 0 .. WRAP /\ m \in 0 .. WRAP
  BY Sizes DEF Index
<1>1. ASSUME NEW x \in 0 .. INPUT_BUF - 1, NEW y \in 0 .. INPUT_BUF - 1, x < y
      PROVE  (i + x) % INPUT_BUF # (i + y) % INPUT_BUF
  <2> DEFINE a == i + x
             b == i + y
  <2>1. a \in Nat /\ b \in Nat /\ a < b /\ b < a + INPUT_BUF
    BY <1>0, <1>1
  <2>2. a % INPUT_BUF # b % INPUT_BUF
    <3> HIDE DEF a, b
    <3> QED BY <1>0, <2>1, ModDiffers, Zenon
  <2> QED BY <2>2, Zenon
<1>2. k < m \/ m < k
  BY <1>0
<1>3. (i + k) % INPUT_BUF # (i + m) % INPUT_BUF
  BY <1>1, <1>2, Zenon
<1> QED BY <1>0, <1>3, PlaceIs, Zenon

-----------------------------------------------------------------------------
(* The characters *)

\* From of the buffer b, and the l characters in it from distance m to index i on
TextOf(b, i, j) == [k \in 1 .. Minus(j, i) |-> b[Slot(Plus(i, k - 1))]]
Chunk(b, i, m, l) == [k \in 1 .. l |-> b[Place(i, m + k - 1)]]

\* s is those characters.
IsText(s, b, i, m, l) ==
  s \in Seq(Chars) /\ Len(s) = l /\ \A k \in 1 .. l : s[k] = b[Place(i, m + k - 1)]

\* A chunk is a sequence of characters.
LEMMA ChunkType ==
  ASSUME NEW b \in [Slots -> Chars], NEW i \in Index, NEW m \in Nat, NEW l \in Nat, m + l <= INPUT_BUF
  PROVE  IsText(Chunk(b, i, m, l), b, i, m, l)
<1>1. ASSUME NEW k \in 1 .. l PROVE b[Place(i, m + k - 1)] \in Chars
  <2>1. m + k - 1 \in 0 .. WRAP
    BY Sizes
  <2>2. Place(i, m + k - 1) \in Slots
    BY <2>1, PlaceIs, Zenon
  <2> QED BY <2>2, Zenon
<1>2. Chunk(b, i, m, l) \in [1 .. l -> Chars]
  BY <1>1, Zenon DEF Chunk
<1>3. \A k \in 1 .. l : Chunk(b, i, m, l)[k] = b[Place(i, m + k - 1)]
  BY Zenon DEF Chunk
<1> DEFINE c == Chunk(b, i, m, l)
<1>4. c \in Seq(Chars) /\ Len(c) = l
  <2>1. c \in [1 .. l -> Chars]
    BY <1>2, Zenon
  <2> HIDE DEF c
  <2> QED BY <2>1
<1> QED BY <1>3, <1>4, Zenon DEF IsText

\* Sequences are equal when their characters are.
LEMMA SameText ==
  ASSUME NEW s \in Seq(Chars), NEW t \in Seq(Chars), Len(s) = Len(t), \A k \in 1 .. Len(s) : s[k] = t[k]
  PROVE  s = t
OBVIOUS

\* The lengths of what can be read and of what can be taken back
LEMMA Lengths ==
  ASSUME NEW i \in Index, NEW m \in Nat, NEW l \in Nat, m + l <= INPUT_BUF
  PROVE  /\ Minus(Plus(i, m), i) = m /\ Minus(Plus(i, m + l), i) = m + l
         /\ Minus(Plus(i, m + l), Plus(i, m)) = l
         /\ Plus(i, m) \in Index /\ Plus(i, m + l) \in Index /\ Plus(Plus(i, m), l) = Plus(i, m + l)
         /\ i = Plus(i, m) <=> m = 0
         /\ Plus(i, m + l) = Plus(i, m) <=> l = 0
<1>1. m \in 0 .. WRAP - 1 /\ l \in 0 .. WRAP - 1 /\ m + l \in 0 .. WRAP - 1
  BY Sizes
<1>2. m \in 0 .. WRAP /\ m + l \in 0 .. WRAP /\ m + l <= WRAP /\ 0 \in 0 .. WRAP - 1 /\ 0 \in 0 .. WRAP
  BY Sizes
<1>3. Plus(i, m) \in Index /\ Plus(i, m + l) \in Index
  BY <1>2, PlusIs, Zenon
<1>4. Plus(Plus(i, m), l) = Plus(i, m + l)
  BY <1>2, PlusPlus, Zenon
<1>5. Minus(Plus(i, m), i) = m /\ Minus(Plus(i, m + l), i) = m + l
  BY <1>1, MinusIs, Zenon
<1>6. Minus(Plus(i, m + l), Plus(i, m)) = l
  <2>1. Minus(Plus(Plus(i, m), l), Plus(i, m)) = l
    BY <1>1, <1>3, MinusIs, Zenon
  <2> QED BY <1>4, <2>1, Zenon
<1>7. ASSUME NEW j \in Index PROVE Plus(j, 0) = j /\ Minus(j, j) = 0
  <2>1. j + 0 = j /\ j < WRAP
    BY Sizes DEF Index
  <2>2. Plus(j, 0) = j
    BY <1>2, <2>1, PlusIs
  <2>3. Minus(Plus(j, 0), j) = 0
    BY <1>2, MinusIs, Zenon
  <2> QED BY <2>2, <2>3, Zenon
<1>8. i = Plus(i, m) <=> m = 0
  <2>1. CASE m = 0
    BY <1>7, <2>1, Zenon
  <2>2. CASE i = Plus(i, m)
    <3>1. Minus(i, i) = m
      BY <1>5, <2>2, Zenon
    <3> QED BY <1>7, <2>2, <3>1, Zenon
  <2> QED BY <2>1, <2>2, Zenon
<1>9. Plus(i, m + l) = Plus(i, m) <=> l = 0
  <2>1. CASE l = 0
    <3>1. m + l = m
      BY <2>1
    <3> QED BY <2>1, <3>1, Zenon
  <2>2. CASE Plus(i, m + l) = Plus(i, m)
    <3>1. Minus(Plus(i, m), Plus(i, m)) = 0
      BY <1>3, <1>7, Zenon
    <3> QED BY <1>6, <2>2, <3>1, Zenon
  <2> QED BY <2>1, <2>2, Zenon
<1> QED BY <1>3, <1>4, <1>5, <1>6, <1>8, <1>9, Zenon

\* What From finds between the indices
LEMMA Texts ==
  ASSUME NEW b, NEW i \in Index, NEW m \in Nat, NEW l \in Nat, m + l <= INPUT_BUF
  PROVE  /\ TextOf(b, i, Plus(i, m)) = Chunk(b, i, 0, m)
         /\ TextOf(b, Plus(i, m), Plus(i, m + l)) = Chunk(b, i, m, l)
<1>1. Minus(Plus(i, m), i) = m /\ Minus(Plus(i, m + l), Plus(i, m)) = l
  BY Lengths
<1>2. ASSUME NEW k \in 1 .. m PROVE Slot(Plus(i, k - 1)) = Place(i, 0 + k - 1)
  <2>1. k - 1 = 0 + k - 1
    BY Sizes
  <2> QED BY <2>1, Zenon DEF Place
<1>3. ASSUME NEW k \in 1 .. l PROVE Slot(Plus(Plus(i, m), k - 1)) = Place(i, m + k - 1)
  <2>1. k - 1 \in Nat /\ m + (k - 1) <= WRAP /\ m + (k - 1) = m + k - 1
    BY Sizes
  <2>2. Plus(Plus(i, m), k - 1) = Plus(i, m + (k - 1))
    BY <2>1, PlusPlus, Zenon
  <2> QED BY <2>1, <2>2, Zenon DEF Place
<1>4. TextOf(b, i, Plus(i, m)) = Chunk(b, i, 0, m)
  BY <1>1, <1>2, Zenon DEF TextOf, Chunk
<1>5. TextOf(b, Plus(i, m), Plus(i, m + l)) = Chunk(b, i, m, l)
  BY <1>1, <1>3, Zenon DEF TextOf, Chunk
<1> QED BY <1>4, <1>5, Zenon

\* b2 has the character c at distance t from i, and before it what b has.
Stored(b, b2, i, t, c) ==
  /\ b2 \in [Slots -> Chars] /\ b2[Place(i, t)] = c
  /\ \A k \in 0 .. t - 1 : b2[Place(i, k)] = b[Place(i, k)]

\* A character stored at the end changes no other.
LEMMA StoreAtEnd ==
  ASSUME NEW b \in [Slots -> Chars], NEW i \in Index, NEW t \in Nat, t < INPUT_BUF, NEW c \in Chars
  PROVE  Stored(b, [b EXCEPT ![Place(i, t)] = c], i, t, c)
<1> DEFINE b2 == [b EXCEPT ![Place(i, t)] = c]
<1>1. t \in 0 .. WRAP /\ t \in 0 .. INPUT_BUF - 1
  BY Sizes
<1>2. Place(i, t) \in Slots
  BY <1>1, PlaceIs, Zenon
<1>3. ASSUME NEW k \in 0 .. t - 1 PROVE b2[Place(i, k)] = b[Place(i, k)]
  <2>1. k \in 0 .. WRAP /\ k \in 0 .. INPUT_BUF - 1 /\ k # t
    BY Sizes
  <2>2. Place(i, k) \in Slots /\ Place(i, k) # Place(i, t)
    BY <1>1, <2>1, PlaceIs, PlacesDiffer, Zenon
  <2> QED BY <1>2, <2>2, Zenon
<1>4. b2 \in [Slots -> Chars] /\ b2[Place(i, t)] = c
  BY <1>2, Zenon
<1> QED BY <1>3, <1>4, Zenon DEF Stored

-----------------------------------------------------------------------------
(* The steps *)

\* What Holds says of the three indices and of the text between them
LEMMA HoldsFacts ==
  ASSUME NEW b, NEW i \in Index, NEW j, NEW k,
         NEW m \in 0 .. INPUT_BUF, NEW l \in 0 .. INPUT_BUF, Holds(b, i, j, k, m, l)
  PROVE  /\ j \in Index /\ k \in Index
         /\ Minus(j, i) = m /\ Minus(k, j) = l /\ Minus(k, i) = m + l
         /\ i = j <=> m = 0
         /\ k = j <=> l = 0
         /\ TextOf(b, i, j) = Chunk(b, i, 0, m) /\ TextOf(b, j, k) = Chunk(b, i, m, l)
<1>1. m \in Nat /\ l \in Nat
  BY Sizes
<1>2. m + l <= INPUT_BUF /\ j = Plus(i, m) /\ k = Plus(i, m + l)
  BY Zenon DEF Holds
<1>3. TextOf(b, i, j) = Chunk(b, i, 0, m) /\ TextOf(b, j, k) = Chunk(b, i, m, l)
  BY <1>1, <1>2, Texts
<1>4. /\ j \in Index /\ k \in Index
      /\ Minus(j, i) = m /\ Minus(k, j) = l /\ Minus(k, i) = m + l
      /\ i = j <=> m = 0
      /\ k = j <=> l = 0
  BY <1>1, <1>2, Lengths
<1> QED BY <1>3, <1>4, Zenon

\* Positions less than a turn apart have different indices.
LEMMA PlusDiffers ==
  ASSUME NEW i \in Index, NEW s \in 0 .. WRAP - 1, NEW t \in 0 .. WRAP - 1, Plus(i, s) = Plus(i, t)
  PROVE  s = t
<1>1. Minus(Plus(i, s), i) = s /\ Minus(Plus(i, t), i) = t
  BY MinusIs, Zenon
<1> QED BY <1>1, Zenon

\* What a typed character makes of m and l: it is one more that can be taken back,
\* or all can be read.
Grows(c, m, l, m2, l2) ==
  /\ Holds(buf, r, w, e, m, l) /\ Holds(buf', r, w', e', m2, l2) /\ m + l < INPUT_BUF
  /\ \/ c = "x" /\ m + l + 1 < INPUT_BUF /\ m2 = m /\ l2 = l + 1 /\ w' = w /\ pc' = pc
     \/ ~(c = "x" /\ m + l + 1 < INPUT_BUF) /\ m2 = m + l + 1 /\ l2 = 0 /\ pc' = Wakeup
  /\ Stored(buf, buf', r, m + l, c)

\* Typing is that.
LEMMA TypedFacts ==
  ASSUME IInv, NEW c \in Chars, Typed(c)
  PROVE  \E m, l, m2, l2 \in 0 .. INPUT_BUF : Grows(c, m, l, m2, l2)
<1>1. PICK m, l \in 0 .. INPUT_BUF : Holds(buf, r, w, e, m, l)
  BY Zenon DEF IInv, Ring
<1>2. r \in Index /\ buf \in [Slots -> Chars]
  BY Zenon DEF IInv, TypeOK
<1>3. Minus(e, r) = m + l /\ Minus(e, r) < INPUT_BUF
  BY <1>1, <1>2, HoldsFacts DEF Typed, Room
<1>4. m \in Nat /\ l \in Nat /\ m + l \in Nat /\ m + l < INPUT_BUF /\ m + l + 1 \in 0 .. WRAP - 1
  BY <1>3, Sizes
<1>5. e = Plus(r, m + l) /\ w = Plus(r, m) /\ \A k \in 1 .. l : buf[Place(r, m + k - 1)] = "x"
  BY <1>1, Zenon DEF Holds
<1>6. Plus(e, 1) = Plus(r, m + l + 1) /\ e' = Plus(r, m + l + 1)
  <2>1. 1 \in Nat /\ m + l + 1 <= WRAP
    BY <1>4, Sizes
  <2>2. Plus(Plus(r, m + l), 1) = Plus(r, m + l + 1)
    BY <1>2, <1>4, <2>1, PlusPlus, Zenon
  <2>3. e' = Plus(e, 1)
    BY Zenon DEF Typed
  <2> QED BY <1>5, <2>2, <2>3, Zenon
<1>7. Stored(buf, buf', r, m + l, c)
  <2>1. buf' = [buf EXCEPT ![Place(r, m + l)] = c]
    BY <1>5, Zenon DEF Typed, Place
  <2> QED BY <1>2, <1>4, <2>1, StoreAtEnd, Zenon
<1>8. Commits(c) <=> ~(c = "x" /\ m + l + 1 < INPUT_BUF)
  <2>1. INPUT_BUF \in 0 .. WRAP - 1
    BY Sizes
  <2>2. Plus(e, 1) = Plus(r, INPUT_BUF) <=> m + l + 1 = INPUT_BUF
    BY <1>2, <1>4, <1>6, <2>1, PlusDiffers
  <2>3. m + l + 1 = INPUT_BUF <=> ~(m + l + 1 < INPUT_BUF)
    BY <1>4, Sizes
  <2>4. c \in {"newline", "eof"} <=> c # "x"
    BY DEF Chars
  <2> QED BY <2>2, <2>3, <2>4, Zenon DEF Commits
<1>9. CASE Commits(c)
  <2>1. w' = Plus(r, m + l + 1) /\ pc' = Wakeup
    BY <1>6, <1>9, Zenon DEF Typed
  <2>2. m + l + 1 + 0 = m + l + 1 /\ m + l + 1 + 0 <= INPUT_BUF /\ m + l + 1 \in 0 .. INPUT_BUF
        /\ 0 \in 0 .. INPUT_BUF /\ ~ \E k \in 1 .. 0 : TRUE
    BY <1>4, Sizes
  <2>3. Holds(buf', r, w', e', m + l + 1, 0)
    BY <1>6, <2>1, <2>2, Zenon DEF Holds
  <2>4. Grows(c, m, l, m + l + 1, 0)
    BY <1>1, <1>4, <1>7, <1>8, <1>9, <2>1, <2>3, Zenon DEF Grows
  <2> QED BY <2>2, <2>4, Zenon
<1>10. CASE ~Commits(c)
  <2>1. w' = w /\ pc' = pc
    BY <1>10, Zenon DEF Typed
  <2>2. m + (l + 1) = m + l + 1 /\ m + (l + 1) <= INPUT_BUF /\ l + 1 \in 0 .. INPUT_BUF
        /\ m + (l + 1) # INPUT_BUF
    BY <1>4, <1>8, <1>10, Sizes
  <2>3. ASSUME NEW k \in 1 .. l + 1 PROVE buf'[Place(r, m + k - 1)] = "x"
    <3>1. CASE k = l + 1
      <4>1. m + k - 1 = m + l
        BY <1>4, <3>1
      <4> QED BY <1>7, <1>8, <1>10, <4>1, Zenon DEF Stored
    <3>2. CASE k # l + 1
      <4>1. m + k - 1 \in 0 .. (m + l) - 1 /\ k \in 1 .. l
        BY <1>4, <3>2
      <4>2. buf[Place(r, m + k - 1)] = "x"
        BY <1>5, <4>1, Zenon
      <4>3. buf'[Place(r, m + k - 1)] = buf[Place(r, m + k - 1)]
        BY <1>7, <4>1, Zenon DEF Stored
      <4> QED BY <4>2, <4>3, Zenon
    <3> QED BY <3>1, <3>2, Zenon
  <2>4. Holds(buf', r, w', e', m, l + 1)
    BY <1>5, <1>6, <2>1, <2>2, <2>3, Zenon DEF Holds
  <2>5. Grows(c, m, l, m, l + 1)
    BY <1>1, <1>4, <1>7, <1>8, <1>10, <2>1, <2>4, Zenon DEF Grows
  <2> QED BY <2>2, <2>5, Zenon
<1> QED BY <1>9, <1>10, Zenon

\* Backspace and ^U shorten the line that is being typed: by one, or by all of it.
LEMMA EraseFacts ==
  ASSUME IInv, Backspace \/ KillLine
  PROVE  \E m, l, l2 \in 0 .. INPUT_BUF :
           /\ Holds(buf, r, w, e, m, l) /\ Holds(buf, r, w, e', m, l2)
           /\ l > 0 /\ (l2 = l - 1 \/ l2 = 0)
<1>1. PICK m, l \in 0 .. INPUT_BUF : Holds(buf, r, w, e, m, l)
  BY Zenon DEF IInv, Ring
<1>2. r \in Index /\ e # w
  BY Zenon DEF IInv, TypeOK, Backspace, KillLine
<1>3. Minus(e, w) = l /\ (e = w <=> l = 0)
  BY <1>1, <1>2, HoldsFacts
<1>4. m \in Nat /\ l \in Nat /\ l > 0 /\ m + l \in Nat
  BY <1>2, <1>3, Sizes
<1>5. /\ e = Plus(r, m + l) /\ w = Plus(r, m) /\ \A k \in 1 .. l : buf[Place(r, m + k - 1)] = "x"
      /\ m + l <= INPUT_BUF
  BY <1>1, Zenon DEF Holds
<1>6. ASSUME NEW k \in 1 .. l PROVE Minus(e, k) = Plus(r, m + (l - k)) /\ l - k \in 0 .. INPUT_BUF
  <2>1. k \in 0 .. m + l /\ m + l < WRAP /\ m + l - k = m + (l - k) /\ l - k \in 0 .. INPUT_BUF
    BY <1>4, <1>5, Sizes
  <2>2. Minus(Plus(r, m + l), k) = Plus(r, m + l - k)
    BY <1>2, <1>4, <2>1, MinusBack
  <2> QED BY <1>5, <2>1, <2>2, Zenon
<1>7. ASSUME NEW k \in 1 .. l PROVE Holds(buf, r, w, Minus(e, k), m, l - k)
  <2>1. m + (l - k) <= INPUT_BUF /\ m + (l - k) # INPUT_BUF /\ 1 .. l - k \subseteq 1 .. l
    BY <1>4, <1>5, Sizes
  <2> QED BY <1>5, <1>6, <2>1, Zenon DEF Holds
<1>8. CASE Backspace
  <2>1. e' = Minus(e, 1) /\ 1 \in 1 .. l
    BY <1>4, <1>8 DEF Backspace
  <2> QED BY <1>1, <1>4, <1>6, <1>7, <2>1, Zenon
<1>9. CASE KillLine
  <2>1. PICK k \in 1 .. l : /\ Minus(e, k) = w \/ buf[Slot(Minus(e, k + 1))] = "newline"
                            /\ e' = Minus(e, k)
    BY <1>3, <1>9, Zenon DEF KillLine
  <2>2. CASE k = l
    <3>1. l - k = 0
      BY <1>4, <2>2
    <3> QED BY <1>1, <1>4, <1>6, <1>7, <2>1, <3>1, Zenon
  <2>3. CASE k # l
    <3>1. k + 1 \in 1 .. l /\ l - k \in 1 .. l /\ m + (l - (k + 1)) = m + (l - k) - 1
          /\ m + (l - k) # m /\ m + (l - k) \in 0 .. WRAP - 1 /\ m \in 0 .. WRAP - 1
      BY <1>4, <1>5, <2>3, Sizes
    <3>2. Slot(Minus(e, k + 1)) = Place(r, m + (l - k) - 1)
      BY <1>6, <3>1, Zenon DEF Place
    <3>3. buf[Slot(Minus(e, k + 1))] = "x"
      BY <1>5, <3>1, <3>2, Zenon
    <3>4. Minus(e, k) = Plus(r, m + (l - k))
      BY <1>6, Zenon
    <3>5. Minus(e, k) # w
      BY <1>2, <1>5, <3>1, <3>4, PlusDiffers, Zenon
    <3>6. FALSE
      BY <2>1, <3>3, <3>5
    <3> QED BY <3>6, Zenon
  <2> QED BY <2>2, <2>3, Zenon
<1> QED BY <1>8, <1>9, Zenon

\* A set of numbers has a least one; proved below.
LeastExists == \A S \in SUBSET Nat : S # {} => \E x \in S : \A y \in S : x <= y

\* p takes t characters of q, and leaves the rest, or takes an end of file.
Taken(p, q, t, d) ==
  /\ d = t \/ (t = 0 /\ d = 1 /\ q[1] = "eof" /\ got[p] = <<>>)
  /\ \A i \in 1 .. t : q[i] # "eof" /\ (q[i] = "newline" => i = t)
  /\ t <= n[p]
  /\ r' = Plus(r, d)
  /\ got' = [got EXCEPT ![p] = got[p] \o SubSeq(q, 1, t)]
  /\ n' = [n EXCEPT ![p] = n[p] - t]
  /\ \/ pc' = [pc EXCEPT ![p] = "relock"]
     \/ pc' = [pc EXCEPT ![p] = "read"] /\ t < n[p] /\ \A i \in 1 .. t : q[i] = "x"

\* The character where consoleread stops is the first after which it may.
LEMMA StopsAt ==
  ASSUME LeastExists, NEW q \in Seq(Chars), NEW p \in Procs, q # <<>>, n \in [Procs -> Nat], n[p] > 0,
         NEW k, k = CHOOSE j \in 1 .. Len(q) : /\ \A i \in 1 .. j - 1 : ~Last(q, p, i)
                                               /\ Last(q, p, j) \/ j = Len(q)
  PROVE  /\ k \in 1 .. Len(q) /\ \A i \in 1 .. k - 1 : ~Last(q, p, i)
         /\ Last(q, p, k) \/ k = Len(q)
<1> DEFINE S == {j \in 1 .. Len(q) : Last(q, p, j) \/ j = Len(q)}
<1>1. Len(q) \in Nat /\ Len(q) # 0 /\ 1 .. Len(q) \subseteq Nat /\ Len(q) \in 1 .. Len(q)
  OBVIOUS
<1>2. S \in SUBSET Nat /\ S # {}
  BY <1>1, Zenon
<1>3. PICK x \in S : \A y \in S : x <= y
  BY <1>2, Zenon DEF LeastExists
<1>4. ASSUME NEW i \in 1 .. x - 1 PROVE ~Last(q, p, i)
  <2>1. x \in 1 .. Len(q)
    BY <1>3, Zenon
  <2>2. i \in 1 .. Len(q) /\ ~(x <= i)
    BY <1>1, <2>1
  <2> QED BY <1>3, <2>2, Zenon
<1>5. \E j \in 1 .. Len(q) : /\ \A i \in 1 .. j - 1 : ~Last(q, p, i)
                             /\ Last(q, p, j) \/ j = Len(q)
  BY <1>3, <1>4, Zenon
<1> QED BY <1>5, Zenon

\* What consoleread does with cons.lock held and something to read
LEMMA TakesFacts ==
  ASSUME IInv, LeastExists, NEW p \in Procs, Takes(p),
         NEW m \in 0 .. INPUT_BUF, NEW l \in 0 .. INPUT_BUF, Holds(buf, r, w, e, m, l)
  PROVE  m > 0 /\ \E t, d \in 0 .. m : Taken(p, Chunk(buf, r, 0, m), t, d)
<1> DEFINE q == From(r, w)
<1>1. m \in Nat /\ 0 + m <= INPUT_BUF /\ 0 \in Nat
  BY Sizes
<1>2. r \in Index /\ buf \in [Slots -> Chars] /\ n \in [Procs -> Nat] /\ got \in [Procs -> Seq(Chars)]
      /\ pc \in [Procs -> Places]
  BY Zenon DEF IInv, TypeOK
<1>3. q = Chunk(buf, r, 0, m) /\ m > 0
  <2>1. TextOf(buf, r, w) = Chunk(buf, r, 0, m) /\ (r = w <=> m = 0)
    BY <1>2, HoldsFacts
  <2>2. r # w
    BY Zenon DEF Takes
  <2>3. q = TextOf(buf, r, w)
    BY Zenon DEF From, TextOf
  <2>4. m > 0
    BY <1>1, <2>1, <2>2
  <2> QED BY <2>1, <2>3, <2>4, Zenon
<1>4. q \in Seq(Chars) /\ Len(q) = m
  <2>1. Chunk(buf, r, 0, m) \in Seq(Chars) /\ Len(Chunk(buf, r, 0, m)) = m
    BY <1>1, <1>2, ChunkType, Zenon DEF IsText
  <2> HIDE DEF q
  <2> QED BY <1>3, <2>1, Zenon
<1>5. pc[p] = "read" /\ n[p] > 0 /\ n[p] \in Nat /\ got[p] \in Seq(Chars)
  <2>1. pc[p] = "read"
    BY Zenon DEF Takes, Goes
  <2>2. n[p] > 0
    BY <2>1, Zenon DEF IInv, Reading
  <2> QED BY <1>2, <2>1, <2>2, Zenon
<1> DEFINE k == CHOOSE j \in 1 .. Len(q) : /\ \A i \in 1 .. j - 1 : ~Last(q, p, i)
                                           /\ Last(q, p, j) \/ j = Len(q)
           t == IF q[k] = "eof" THEN k - 1 ELSE k
           d == k - IF q[k] = "eof" THEN Saved(p, k) ELSE 0
<1>6. /\ pc' = [pc EXCEPT ![p] = IF Last(q, p, k) THEN "relock" ELSE "read"]
      /\ got' = [got EXCEPT ![p] = got[p] \o SubSeq(q, 1, t)]
      /\ n' = [n EXCEPT ![p] = n[p] - Len(SubSeq(q, 1, t))]
      /\ r' = Plus(r, d)
  BY Zenon DEF Takes, Goes
<1> HIDE DEF q
<1>7. k \in 1 .. m /\ (\A i \in 1 .. k - 1 : ~Last(q, p, i)) /\ (Last(q, p, k) \/ k = m)
  <2>1. q # <<>>
    BY <1>4, <1>3
  <2>2. /\ k \in 1 .. Len(q) /\ \A i \in 1 .. k - 1 : ~Last(q, p, i)
        /\ Last(q, p, k) \/ k = Len(q)
    <3>1. k = CHOOSE j \in 1 .. Len(q) : /\ \A i \in 1 .. j - 1 : ~Last(q, p, i)
                                         /\ Last(q, p, j) \/ j = Len(q)
      BY Zenon
    <3> HIDE DEF k
    <3> QED BY <1>2, <1>4, <1>5, <2>1, <3>1, StopsAt, Zenon
  <2> HIDE DEF k
  <2> QED BY <1>4, <2>2, Zenon
<1> HIDE DEF k
<1>8. \A i \in 1 .. k - 1 : q[i] = "x" /\ i # n[p]
  <2> TAKE i \in 1 .. k - 1
  <2>1. ~Last(q, p, i)
    BY <1>7, Zenon
  <2>2. q[i] \in Chars
    BY <1>4, <1>7, <1>1
  <2>3. i # n[p] /\ q[i] # "newline" /\ q[i] # "eof"
    BY <2>1 DEF Last
  <2> QED BY <2>2, <2>3 DEF Chars
<1>9. k \in Nat /\ k > 0 /\ k <= m /\ k <= n[p] /\ q[k] \in Chars
  <2>1. k \in Nat /\ k > 0 /\ k <= m /\ q[k] \in Chars
    BY <1>1, <1>4, <1>7
  <2>2. ASSUME ~(k <= n[p]) PROVE FALSE
    <3>1. n[p] \in 1 .. k - 1
      BY <1>5, <2>1, <2>2
    <3> QED BY <1>8, <3>1, Zenon
  <2> QED BY <2>1, <2>2, Zenon
<1>10. t \in 0 .. m /\ t <= n[p] /\ Len(SubSeq(q, 1, t)) = t
  <2>1. t \in 0 .. m /\ t <= n[p]
    BY <1>1, <1>5, <1>9
  <2> HIDE DEF t
  <2> QED BY <1>1, <1>4, <2>1
<1>11. n' = [n EXCEPT ![p] = n[p] - t]
  BY <1>6, <1>10, Zenon
<1>12. ASSUME q[k] = "eof" PROVE \E x, y \in 0 .. m : Taken(p, q, x, y)
  <2>1. t = k - 1 /\ Last(q, p, k) /\ d = k - Saved(p, k)
    BY <1>12, Zenon DEF Last
  <2>2. pc' = [pc EXCEPT ![p] = "relock"]
    BY <1>6, <2>1, Zenon
  <2>3. d \in 0 .. m /\ (d = t \/ (t = 0 /\ d = 1 /\ q[1] = "eof" /\ got[p] = <<>>))
    <3>1. CASE got[p] # <<>> \/ k > 1
      BY <1>1, <1>9, <2>1, <3>1 DEF Saved
    <3>2. CASE ~(got[p] # <<>> \/ k > 1)
      <4>1. Saved(p, k) = 0 /\ k = 1 /\ got[p] = <<>>
        BY <1>9, <3>2 DEF Saved
      <4> QED BY <1>1, <1>9, <1>12, <2>1, <4>1
    <3> QED BY <3>1, <3>2, Zenon
  <2>4. \A i \in 1 .. t : q[i] # "eof" /\ (q[i] = "newline" => i = t)
    <3>1. \A i \in 1 .. t : q[i] = "x"
      BY <1>8, <2>1, Zenon
    <3> QED BY <3>1
  <2> HIDE DEF t, d
  <2>5. Taken(p, q, t, d)
    BY <1>6, <1>10, <1>11, <2>2, <2>3, <2>4, Zenon DEF Taken
  <2> QED BY <1>10, <2>3, <2>5, Zenon
<1>13. ASSUME q[k] # "eof" PROVE \E x, y \in 0 .. m : Taken(p, q, x, y)
  <2>1. t = k /\ d = k
    BY <1>9, <1>13
  <2>2. \A i \in 1 .. t : q[i] # "eof" /\ (q[i] = "newline" => i = t)
    <3> HIDE DEF t
    <3> TAKE i \in 1 .. t
    <3>1. i = k \/ i \in 1 .. k - 1
      BY <1>9, <2>1
    <3>2. CASE i = k
      BY <1>13, <2>1, <3>2, Zenon
    <3>3. CASE i \in 1 .. k - 1
      BY <1>8, <3>3
    <3> QED BY <3>1, <3>2, <3>3, Zenon
  <2>3. ASSUME ~Last(q, p, k) PROVE t < n[p] /\ \A i \in 1 .. t : q[i] = "x"
    <3> HIDE DEF t
    <3>1. k # n[p] /\ q[k] # "newline" /\ q[k] # "eof"
      BY <2>3 DEF Last
    <3>2. q[k] = "x"
      BY <1>9, <3>1 DEF Chars
    <3>3. t < n[p]
      BY <1>5, <1>9, <2>1, <3>1
    <3>4. ASSUME NEW i \in 1 .. t PROVE q[i] = "x"
      <4>1. i = k \/ i \in 1 .. k - 1
        BY <1>9, <2>1
      <4> QED BY <1>8, <3>2, <4>1, Zenon
    <3> QED BY <3>3, <3>4, Zenon
  <2> HIDE DEF t, d
  <2>4. d \in 0 .. m /\ d = t
    BY <1>10, <2>1, Zenon
  <2>5. CASE Last(q, p, k)
    <3>1. pc' = [pc EXCEPT ![p] = "relock"]
      BY <1>6, <2>5, Zenon
    <3>2. Taken(p, q, t, d)
      BY <1>6, <1>10, <1>11, <2>2, <2>4, <3>1, Zenon DEF Taken
    <3> QED BY <1>10, <2>4, <3>2, Zenon
  <2>6. CASE ~Last(q, p, k)
    <3>1. pc' = [pc EXCEPT ![p] = "read"]
      BY <1>6, <2>6, Zenon
    <3>2. Taken(p, q, t, d)
      BY <1>6, <1>10, <1>11, <2>2, <2>3, <2>4, <2>6, <3>1, Zenon DEF Taken
    <3> QED BY <1>10, <2>4, <3>2, Zenon
  <2> QED BY <2>5, <2>6, Zenon
<1> QED BY <1>3, <1>12, <1>13, Zenon

\* Distances from an index that has moved
LEMMA AdvancePlace ==
  ASSUME NEW i \in Index, NEW d \in Nat, NEW x \in Nat \ {0}, d + x <= INPUT_BUF
  PROVE  Place(Plus(i, d), 0 + x - 1) = Place(i, 0 + (d + x) - 1)
<1>1. d + (0 + x - 1) = 0 + (d + x) - 1 /\ d + (0 + x - 1) <= WRAP /\ 0 + x - 1 \in Nat
  BY Sizes
<1>2. Plus(Plus(i, d), 0 + x - 1) = Plus(i, d + (0 + x - 1))
  BY <1>1, PlusPlus, Zenon
<1> QED BY <1>1, <1>2, Zenon DEF Place

\* Taking d characters moves r.
LEMMA Advance ==
  ASSUME NEW b, NEW i \in Index, NEW j, NEW k, NEW m \in 0 .. INPUT_BUF, NEW l \in 0 .. INPUT_BUF,
         Holds(b, i, j, k, m, l), NEW d \in 0 .. m
  PROVE  /\ Plus(i, d) \in Index /\ m - d \in 0 .. INPUT_BUF
         /\ Holds(b, Plus(i, d), j, k, m - d, l)
<1>1. m \in Nat /\ l \in Nat /\ d \in Nat /\ m - d \in Nat /\ d <= m /\ d \in 0 .. WRAP
      /\ m - d \in 0 .. INPUT_BUF
  BY Sizes
<1>2. /\ m + l <= INPUT_BUF /\ (m + l = INPUT_BUF => l = 0)
      /\ j = Plus(i, m) /\ k = Plus(i, m + l)
      /\ \A c \in 1 .. l : b[Place(i, m + c - 1)] = "x"
  BY Zenon DEF Holds
<1>3. ASSUME NEW x \in Nat, d + x <= WRAP PROVE Plus(Plus(i, d), x) = Plus(i, d + x)
  BY <1>1, <1>3, PlusPlus, Zenon
<1>4. j = Plus(Plus(i, d), m - d)
  <2>1. d + (m - d) = m /\ d + (m - d) <= WRAP
    BY <1>1, Sizes
  <2> QED BY <1>1, <1>2, <1>3, <2>1
<1>5. k = Plus(Plus(i, d), m - d + l)
  <2>1. d + (m - d + l) = m + l /\ d + (m - d + l) <= WRAP /\ m - d + l \in Nat
    BY <1>1, <1>2, Sizes
  <2>2. Plus(Plus(i, d), m - d + l) = Plus(i, d + (m - d + l))
    BY <1>3, <2>1, Zenon
  <2> QED BY <1>2, <2>1, <2>2, Zenon
<1>6. ASSUME NEW c \in 1 .. l PROVE b[Place(Plus(i, d), m - d + c - 1)] = "x"
  <2>1. d + (m - d + c - 1) = m + c - 1 /\ d + (m - d + c - 1) <= WRAP /\ m - d + c - 1 \in Nat
    BY <1>1, <1>2, Sizes
  <2>2. Plus(Plus(i, d), m - d + c - 1) = Plus(i, d + (m - d + c - 1))
    BY <1>3, <2>1, Zenon
  <2>3. Place(Plus(i, d), m - d + c - 1) = Place(i, m + c - 1)
    BY <2>1, <2>2, Zenon DEF Place
  <2> QED BY <1>2, <2>3, Zenon
<1>7. m - d + l <= INPUT_BUF /\ (m - d + l = INPUT_BUF => l = 0)
  BY <1>1, <1>2, Sizes
<1>8. Holds(b, Plus(i, d), j, k, m - d, l)
  BY <1>4, <1>5, <1>6, <1>7, Zenon DEF Holds
<1>9. Plus(i, d) \in Index
  BY <1>1, PlusIs, Zenon
<1> QED BY <1>1, <1>8, <1>9, Zenon

\* A typed character is at the end of the line, and commits it or not.
LEMMA StepTyped ==
  ASSUME IInv, NEW c \in Chars, Typed(c)
  PROVE  IInv'
<1>0. PICK m, l, m2, l2 \in 0 .. INPUT_BUF : Grows(c, m, l, m2, l2)
  BY TypedFacts, Zenon
<1>1. /\ Holds(buf', r, w', e', m2, l2) /\ buf' \in [Slots -> Chars]
      /\ (w' = w /\ pc' = pc) \/ pc' = Wakeup
  BY <1>0, Zenon DEF Grows, Stored
<1>2. /\ r' = r /\ owner' = owner /\ killed' = killed /\ n' = n /\ got' = got
  BY Zenon DEF Typed
<1>3. /\ r \in Index /\ owner \in Procs \cup {NoProc} /\ killed \subseteq Procs
      /\ pc \in [Procs -> Places] /\ n \in [Procs -> Nat] /\ got \in [Procs -> Seq(Chars)]
  BY Zenon DEF IInv, TypeOK
<1>4. w' \in Index /\ e' \in Index
  BY <1>1, <1>3, HoldsFacts
<1>5. Wakeup \in [Procs -> Places]
      /\ \A p \in Procs : Wakeup[p] = IF pc[p] = "asleep" THEN "read" ELSE pc[p]
  BY <1>3 DEF Wakeup, Places
<1>6. TypeOK'
  <2>1. pc' \in [Procs -> Places]
    BY <1>1, <1>3, <1>5, Zenon
  <2> QED BY <1>1, <1>2, <1>3, <1>4, <2>1, Zenon DEF TypeOK
<1>7. Ring'
  BY <1>1, <1>2, Zenon DEF Ring
<1>8. Reading'
  <2> SUFFICES ASSUME NEW p \in Procs
               PROVE  /\ pc'[p] \in {"user", "locked"} => got'[p] = <<>>
                      /\ pc'[p] \in {"read", "asleep"} =>
                           n'[p] > 0 /\ \A i \in 1 .. Len(got'[p]) : got'[p][i] = "x"
                      /\ pc'[p] = "asleep" => r' = w'
    BY Zenon DEF Reading
  <2>1. /\ pc[p] \in {"user", "locked"} => got[p] = <<>>
        /\ pc[p] \in {"read", "asleep"} => n[p] > 0 /\ \A i \in 1 .. Len(got[p]) : got[p][i] = "x"
        /\ pc[p] = "asleep" => r = w
    BY Zenon DEF IInv, Reading
  <2>2. CASE w' = w /\ pc' = pc
    BY <1>2, <2>1, <2>2, Zenon
  <2>3. CASE pc' = Wakeup
    <3>1. CASE pc[p] = "asleep"
      <4>1. pc'[p] = "read"
        BY <1>5, <2>3, <3>1, Zenon
      <4> QED BY <1>2, <2>1, <3>1, <4>1
    <3>2. CASE pc[p] # "asleep"
      <4>1. pc'[p] = pc[p]
        BY <1>5, <2>3, <3>2, Zenon
      <4> QED BY <1>2, <2>1, <3>2, <4>1, Zenon
    <3> QED BY <3>1, <3>2, Zenon
  <2> QED BY <1>1, <2>2, <2>3, Zenon
<1> QED BY <1>6, <1>7, <1>8, Zenon DEF IInv

\* Backspace and ^U keep the invariant.
LEMMA StepErase ==
  ASSUME IInv, Backspace \/ KillLine
  PROVE  IInv'
<1>1. PICK m, l2 \in 0 .. INPUT_BUF : Holds(buf, r, w, e', m, l2)
  BY EraseFacts, Zenon
<1>2. UNCHANGED <<buf, r, w, owner, killed, pc, n, got>>
  BY Zenon DEF Backspace, KillLine
<1>3. e' \in Index
  <2>1. r \in Index
    BY Zenon DEF IInv, TypeOK
  <2> QED BY <1>1, <2>1, HoldsFacts
<1>4. TypeOK'
  BY <1>2, <1>3, Zenon DEF IInv, TypeOK
<1>5. Ring'
  BY <1>1, <1>2, Zenon DEF Ring
<1>6. Reading'
  BY <1>2, Zenon DEF IInv, Reading
<1> QED BY <1>4, <1>5, <1>6, Zenon DEF IInv

\* consoleread's loop keeps the invariant.
LEMMA StepTakes ==
  ASSUME IInv, LeastExists, NEW p \in Procs, Takes(p)
  PROVE  IInv'
<1>1. PICK m, l \in 0 .. INPUT_BUF : Holds(buf, r, w, e, m, l)
  BY Zenon DEF IInv, Ring
<1> DEFINE q == Chunk(buf, r, 0, m)
<1>2. m > 0 /\ \E t, d \in 0 .. m : Taken(p, q, t, d)
  BY <1>1, TakesFacts, Zenon
<1>3. PICK t, d \in 0 .. m : Taken(p, q, t, d)
  BY <1>2, Zenon
<1>4. buf' = buf /\ w' = w /\ e' = e /\ owner' = owner /\ killed' = killed /\ pc[p] = "read"
  BY Zenon DEF Takes, Goes
<1>5. /\ r \in Index /\ w \in Index /\ e \in Index /\ buf \in [Slots -> Chars]
      /\ owner \in Procs \cup {NoProc} /\ killed \subseteq Procs
      /\ pc \in [Procs -> Places] /\ n \in [Procs -> Nat] /\ got \in [Procs -> Seq(Chars)]
  BY Zenon DEF IInv, TypeOK
<1>6. m \in Nat /\ 0 + m <= INPUT_BUF /\ 0 \in Nat /\ t \in Nat /\ t <= m
  BY Sizes
<1>7. q \in Seq(Chars) /\ Len(q) = m
  BY <1>5, <1>6, ChunkType, Zenon DEF IsText
<1> HIDE DEF q
<1>8. /\ t <= n[p] /\ r' = Plus(r, d) /\ n' = [n EXCEPT ![p] = n[p] - t]
      /\ got' = [got EXCEPT ![p] = got[p] \o SubSeq(q, 1, t)]
  BY <1>3, Zenon DEF Taken
<1>9. r' \in Index /\ Ring'
  <2>1. /\ Plus(r, d) \in Index /\ m - d \in 0 .. INPUT_BUF
        /\ Holds(buf, Plus(r, d), w, e, m - d, l)
    BY <1>1, <1>5, Advance, Zenon
  <2> QED BY <1>4, <1>8, <2>1, Zenon DEF Ring
<1>10. /\ SubSeq(q, 1, t) \in Seq(Chars) /\ Len(SubSeq(q, 1, t)) = t
       /\ \A i \in 1 .. t : SubSeq(q, 1, t)[i] = q[i]
  BY <1>6, <1>7
<1>11. TypeOK'
  <2>1. n' \in [Procs -> Nat]
    BY <1>5, <1>6, <1>8
  <2>2. got[p] \o SubSeq(q, 1, t) \in Seq(Chars)
    BY <1>5, <1>10
  <2>3. got' \in [Procs -> Seq(Chars)]
    BY <1>5, <1>8, <2>2, Zenon
  <2>4. pc' \in [Procs -> Places]
    <3>1. "relock" \in Places /\ "read" \in Places
      BY DEF Places
    <3>2. pc' = [pc EXCEPT ![p] = "relock"] \/ pc' = [pc EXCEPT ![p] = "read"]
      BY <1>3, Zenon DEF Taken
    <3> QED BY <1>5, <3>1, <3>2, Zenon
  <2> QED BY <1>4, <1>5, <1>9, <2>1, <2>3, <2>4, Zenon DEF TypeOK
<1>12. Reading'
  <2> SUFFICES ASSUME NEW o \in Procs
               PROVE  /\ pc'[o] \in {"user", "locked"} => got'[o] = <<>>
                      /\ pc'[o] \in {"read", "asleep"} =>
                           n'[o] > 0 /\ \A i \in 1 .. Len(got'[o]) : got'[o][i] = "x"
                      /\ pc'[o] = "asleep" => r' = w'
    BY Zenon DEF Reading
  <2>1. /\ pc[o] \in {"user", "locked"} => got[o] = <<>>
        /\ pc[o] \in {"read", "asleep"} => n[o] > 0 /\ \A i \in 1 .. Len(got[o]) : got[o][i] = "x"
        /\ pc[o] = "asleep" => r = w
    BY Zenon DEF IInv, Reading
  <2>2. CASE o # p
    <3>1. r # w
      BY Zenon DEF Takes
    <3>2. pc'[o] = pc[o]
      BY <1>3, <1>5, <2>2, Zenon DEF Taken
    <3>3. n'[o] = n[o] /\ got'[o] = got[o]
      BY <1>5, <1>8, <2>2, Zenon
    <3> QED BY <2>1, <3>1, <3>2, <3>3, Zenon
  <2>3. CASE o = p /\ pc' = [pc EXCEPT ![p] = "relock"]
    <3>1. pc'[o] = "relock"
      BY <1>5, <2>3, Zenon
    <3> QED BY <3>1
  <2>4. CASE o = p /\ pc' = [pc EXCEPT ![p] = "read"] /\ t < n[p] /\ \A i \in 1 .. t : q[i] = "x"
    <3>1. pc'[o] = "read" /\ n'[o] = n[o] - t /\ got'[o] = got[o] \o SubSeq(q, 1, t)
      BY <1>5, <1>8, <2>4, Zenon
    <3>2. \A i \in 1 .. Len(got[o]) : got[o][i] = "x"
      BY <1>4, <2>1, <2>4, Zenon
    <3>3. n[o] - t > 0
      BY <1>5, <1>6, <2>4
    <3> DEFINE s == SubSeq(q, 1, t)
               g == got[o]
    <3>4. s \in Seq(Chars) /\ g \in Seq(Chars) /\ Len(s) = t
      BY <1>5, <1>10, Zenon
    <3>5. (\A i \in 1 .. t : s[i] = "x") /\ \A i \in 1 .. Len(g) : g[i] = "x"
      BY <1>10, <2>4, <3>2, Zenon
    <3>6. \A i \in 1 .. Len(g \o s) : (g \o s)[i] = "x"
      <4> HIDE DEF s, g
      <4> QED BY <3>4, <3>5
    <3> HIDE DEF s
    <3>7. \A i \in 1 .. Len(got'[o]) : got'[o][i] = "x"
      BY <3>1, <3>6, Zenon DEF s
    <3>8. n'[o] > 0
      BY <3>1, <3>3, Zenon
    <3>9. pc'[o] \notin {"user", "locked"} /\ pc'[o] # "asleep"
      BY <3>1
    <3> QED BY <3>7, <3>8, <3>9, Zenon
  <2>5. \/ pc' = [pc EXCEPT ![p] = "relock"]
        \/ pc' = [pc EXCEPT ![p] = "read"] /\ t < n[p] /\ \A i \in 1 .. t : q[i] = "x"
    BY <1>3, Zenon DEF Taken
  <2> QED BY <2>2, <2>3, <2>4, <2>5, Zenon
<1> QED BY <1>9, <1>11, <1>12, Zenon DEF IInv

\* What Reading says of a process
Fits(place, x, g) ==
  /\ place \in {"user", "locked"} => g = <<>>
  /\ place \in {"read", "asleep"} => x > 0 /\ \A i \in 1 .. Len(g) : g[i] = "x"
  /\ place = "asleep" => r = w

\* A process moves on and the input stays as it is.
LEMMA StepMoves ==
  ASSUME IInv, UNCHANGED input, NEW p \in Procs, NEW to \in Places, NEW x \in Nat, NEW g \in Seq(Chars),
         pc' = [pc EXCEPT ![p] = to], n' = [n EXCEPT ![p] = x], got' = [got EXCEPT ![p] = g],
         owner' \in Procs \cup {NoProc}, killed' \subseteq Procs, Fits(to, x, g)
  PROVE  IInv'
<1>1. buf' = buf /\ r' = r /\ w' = w /\ e' = e
  BY DEF input
<1>2. pc \in [Procs -> Places] /\ n \in [Procs -> Nat] /\ got \in [Procs -> Seq(Chars)]
  BY Zenon DEF IInv, TypeOK
<1>3. pc' \in [Procs -> Places] /\ n' \in [Procs -> Nat] /\ got' \in [Procs -> Seq(Chars)]
  BY <1>2, Zenon
<1>4. TypeOK'
  BY <1>1, <1>3, Zenon DEF IInv, TypeOK
<1>5. Ring'
  BY <1>1, Zenon DEF IInv, Ring
<1>6. ASSUME NEW o \in Procs PROVE Fits(pc'[o], n'[o], got'[o])
  <2>1. CASE o = p
    BY <1>2, <2>1, Zenon
  <2>2. CASE o # p
    <3>1. pc'[o] = pc[o] /\ n'[o] = n[o] /\ got'[o] = got[o]
      BY <1>2, <2>2, Zenon
    <3>2. Fits(pc[o], n[o], got[o])
      BY Zenon DEF IInv, Reading, Fits
    <3> QED BY <3>1, <3>2, Zenon
  <2> QED BY <2>1, <2>2, Zenon
<1>7. Reading'
  BY <1>1, <1>6, Zenon DEF Reading, Fits
<1> QED BY <1>4, <1>5, <1>7, Zenon DEF IInv

\* The other steps of processes keep the invariant.
LEMMA StepReader ==
  ASSUME IInv, NEW p \in Procs,
         \/ Unlock(p) \/ Waits(p) \/ Relock(p) \/ Return(p) \/ Written(p) \/ Write(p) \/ kill(p)
         \/ \E k \in Counts : Enter(p, k)
  PROVE  IInv'
<1>1. /\ pc \in [Procs -> Places] /\ n \in [Procs -> Nat] /\ got \in [Procs -> Seq(Chars)]
      /\ owner \in Procs \cup {NoProc} /\ killed \subseteq Procs /\ pc[p] \in Places /\ n[p] \in Nat
      /\ got[p] \in Seq(Chars) /\ NoProc \in Procs \cup {NoProc} /\ p \in Procs \cup {NoProc}
  BY Zenon DEF IInv, TypeOK
<1>2. Fits(pc[p], n[p], got[p])
  BY Zenon DEF IInv, Reading, Fits
<1>3. n = [n EXCEPT ![p] = n[p]] /\ got = [got EXCEPT ![p] = got[p]]
  BY <1>1
<1>4. Places = {"user", "locked", "read", "asleep", "relock", "unlock", "write"}
      /\ 0 \in Nat /\ <<>> \in Seq(Chars)
  BY DEF Places
<1>5. CASE Unlock(p)
  <2> DEFINE to == IF n[p] = 0 THEN "relock" ELSE "read"
  <2>1. pc[p] = "locked" /\ pc' = [pc EXCEPT ![p] = to] /\ UNCHANGED input
        /\ n' = [n EXCEPT ![p] = n[p]] /\ got' = [got EXCEPT ![p] = got[p]]
        /\ owner' = NoProc /\ killed' = killed
    BY <1>3, <1>5, Zenon DEF Unlock, Goes
  <2>2. to \in Places
    BY <1>4
  <2>3. got[p] = <<>>
    BY <1>2, <2>1 DEF Fits
  <2>4. Fits(to, n[p], got[p])
    BY <1>1, <2>3 DEF Fits
  <2> HIDE DEF to
  <2> QED BY <1>1, <2>1, <2>2, <2>4, StepMoves, Zenon
<1>6. CASE Waits(p)
  <2> DEFINE to == IF p \in killed THEN "relock" ELSE "asleep"
  <2>1. pc[p] = "read" /\ pc' = [pc EXCEPT ![p] = to] /\ UNCHANGED input /\ r = w
        /\ n' = [n EXCEPT ![p] = n[p]] /\ got' = [got EXCEPT ![p] = got[p]]
        /\ owner' = owner /\ killed' = killed
    BY <1>3, <1>6, Zenon DEF Waits, Goes
  <2>2. to \in Places
    BY <1>4
  <2>4. Fits(to, n[p], got[p])
    BY <1>2, <2>1 DEF Fits
  <2> HIDE DEF to
  <2> QED BY <1>1, <2>1, <2>2, <2>4, StepMoves, Zenon
<1>7. CASE Relock(p)
  <2>1. pc' = [pc EXCEPT ![p] = "unlock"] /\ UNCHANGED input
        /\ n' = [n EXCEPT ![p] = n[p]] /\ got' = [got EXCEPT ![p] = got[p]]
        /\ owner' = p /\ killed' = killed
    BY <1>3, <1>7, Zenon DEF Relock, Goes
  <2>2. "unlock" \in Places /\ Fits("unlock", n[p], got[p])
    BY <1>4 DEF Fits
  <2> QED BY <1>1, <2>1, <2>2, StepMoves, Zenon
<1>8. CASE Return(p)
  <2>1. pc' = [pc EXCEPT ![p] = "user"] /\ UNCHANGED input
        /\ n' = [n EXCEPT ![p] = 0] /\ got' = [got EXCEPT ![p] = <<>>]
        /\ owner' = NoProc /\ killed' = killed
    BY <1>8, Zenon DEF Return, Goes
  <2>2. "user" \in Places /\ Fits("user", 0, <<>>)
    BY <1>4 DEF Fits
  <2> QED BY <1>1, <1>4, <2>1, <2>2, StepMoves, Zenon
<1>9. CASE Written(p)
  <2>1. pc' = [pc EXCEPT ![p] = "relock"] /\ UNCHANGED input
        /\ n' = [n EXCEPT ![p] = n[p]] /\ got' = [got EXCEPT ![p] = got[p]]
        /\ owner' = NoProc /\ killed' = killed
    BY <1>3, <1>9, Zenon DEF Written, Goes
  <2>2. "relock" \in Places /\ Fits("relock", n[p], got[p])
    BY <1>4 DEF Fits
  <2> QED BY <1>1, <2>1, <2>2, StepMoves, Zenon
<1>10. CASE Write(p)
  <2>1. pc' = [pc EXCEPT ![p] = "write"] /\ UNCHANGED input
        /\ n' = [n EXCEPT ![p] = n[p]] /\ got' = [got EXCEPT ![p] = got[p]]
        /\ owner' = p /\ killed' = killed
    BY <1>3, <1>10, Zenon DEF Write, Goes
  <2>2. "write" \in Places /\ Fits("write", n[p], got[p])
    BY <1>4 DEF Fits
  <2> QED BY <1>1, <2>1, <2>2, StepMoves, Zenon
<1>11. CASE kill(p)
  <2> DEFINE to == IF pc[p] = "asleep" THEN "read" ELSE pc[p]
  <2>1. pc' = [pc EXCEPT ![p] = to] /\ UNCHANGED input
        /\ n' = [n EXCEPT ![p] = n[p]] /\ got' = [got EXCEPT ![p] = got[p]]
        /\ owner' = owner /\ killed' = killed \cup {p}
    BY <1>3, <1>11, Zenon DEF kill
  <2>2. to \in Places
    BY <1>1, <1>4
  <2>3. Fits(to, n[p], got[p])
    BY <1>2 DEF Fits
  <2>4. killed' \subseteq Procs
    BY <1>1, <2>1, Zenon
  <2> HIDE DEF to
  <2> QED BY <1>1, <2>1, <2>2, <2>3, <2>4, StepMoves, Zenon
<1>12. ASSUME NEW k \in Counts, Enter(p, k) PROVE IInv'
  <2>1. pc[p] = "user" /\ pc' = [pc EXCEPT ![p] = "locked"] /\ UNCHANGED input
        /\ n' = [n EXCEPT ![p] = k] /\ got' = [got EXCEPT ![p] = got[p]]
        /\ owner' = p /\ killed' = killed
    BY <1>3, <1>12, Zenon DEF Enter, Goes
  <2>2. "locked" \in Places /\ k \in Nat
    BY <1>4, ConsoleAssumption
  <2>3. Fits("locked", k, got[p])
    BY <1>2, <2>1 DEF Fits
  <2> QED BY <1>1, <2>1, <2>2, <2>3, StepMoves, Zenon
<1> QED BY <1>5, <1>6, <1>7, <1>8, <1>9, <1>10, <1>11, <1>12, Zenon

\* The invariant is inductive.
LEMMA NextIInv ==
  ASSUME IInv, LeastExists, [Next]_vars
  PROVE  IInv'
<1>1. CASE UNCHANGED vars
  <2>1. UNCHANGED <<buf, r, w, e, owner, killed, pc, n, got>>
    BY <1>1 DEF vars, input
  <2>2. TypeOK'
    BY <2>1, Zenon DEF IInv, TypeOK
  <2>3. Ring'
    BY <2>1, Zenon DEF IInv, Ring
  <2>4. Reading'
    BY <2>1, Zenon DEF IInv, Reading
  <2> QED BY <2>2, <2>3, <2>4, Zenon DEF IInv
<1>2. CASE consoleintr
  BY <1>2, StepTyped, StepErase, Zenon DEF consoleintr
<1>3. ASSUME NEW p \in Procs, Reader(p) \/ Write(p) \/ kill(p) \/ \E k \in Counts : Enter(p, k)
      PROVE  IInv'
  BY <1>3, StepTakes, StepReader, Zenon DEF Reader
<1> QED BY <1>1, <1>2, <1>3, Zenon DEF Next

\* The invariant holds at first.
LEMMA InitIInv == Init => IInv
<1> SUFFICES ASSUME Init PROVE IInv
  BY Zenon
<1>1. /\ buf = [i \in 0 .. INPUT_BUF - 1 |-> "x"] /\ r = 0 /\ w = 0 /\ e = 0
      /\ owner = NoProc /\ killed = {}
      /\ pc = [p \in Procs |-> "user"] /\ n = [p \in Procs |-> 0] /\ got = [p \in Procs |-> <<>>]
  BY Zenon DEF Init
<1>2. 0 \in Index /\ 0 \in 0 .. INPUT_BUF /\ 0 + 0 = 0 /\ 0 <= INPUT_BUF /\ 0 \in 0 .. WRAP
      /\ 0 < WRAP /\ ~ \E c \in 1 .. 0 : TRUE
  BY Sizes DEF Index
<1>3. TypeOK
  <2>1. "x" \in Chars /\ "user" \in Places /\ 0 \in Nat /\ <<>> \in Seq(Chars)
    BY DEF Chars, Places
  <2> QED BY <1>1, <1>2, <2>1, Zenon DEF TypeOK, Slots
<1>4. Ring
  <2>1. Plus(0, 0) = 0
    BY <1>2, PlusIs, Zenon
  <2>2. Holds(buf, r, w, e, 0, 0)
    BY <1>1, <1>2, <2>1, Zenon DEF Holds
  <2> QED BY <1>2, <2>2, Zenon DEF Ring
<1>5. Reading
  BY <1>1 DEF Reading
<1> QED BY <1>3, <1>4, <1>5, Zenon DEF IInv

-----------------------------------------------------------------------------
(* The ring implements the line discipline *)

\* What is where in two texts put together
LEMMA JoinText ==
  ASSUME NEW s \in Seq(Chars), NEW t \in Seq(Chars)
  PROVE  /\ s \o t \in Seq(Chars) /\ Len(s \o t) = Len(s) + Len(t)
         /\ \A k \in 1 .. Len(s) : (s \o t)[k] = s[k]
         /\ \A k \in 1 .. Len(t) : (s \o t)[Len(s) + k] = t[k]
<1>1. s \o t \in Seq(Chars) /\ Len(s \o t) = Len(s) + Len(t) /\ \A k \in 1 .. Len(s) : (s \o t)[k] = s[k]
  OBVIOUS
<1>2. ASSUME NEW k \in 1 .. Len(t) PROVE (s \o t)[Len(s) + k] = t[k]
  OBVIOUS
<1> QED BY <1>1, <1>2, Zenon

\* b2 has the character c more than b.
Appended(b, b2, i, m, l, c) ==
  /\ Chunk(b2, i, 0, m) = Chunk(b, i, 0, m)
  /\ Chunk(b2, i, m, l + 1) = Append(Chunk(b, i, m, l), c)
  /\ Chunk(b2, i, 0, m + l + 1) = Chunk(b, i, 0, m) \o Append(Chunk(b, i, m, l), c)

\* Appending a character to the text in the ring
LEMMA StoredText ==
  ASSUME NEW b \in [Slots -> Chars], NEW b2 \in [Slots -> Chars], NEW i \in Index,
         NEW m \in Nat, NEW l \in Nat,
         m + l < INPUT_BUF, NEW c \in Chars, Stored(b, b2, i, m + l, c)
  PROVE  Appended(b, b2, i, m, l, c)
<1> DEFINE q == Chunk(b, i, 0, m)
           s == Chunk(b, i, m, l)
           q2 == Chunk(b2, i, 0, m)
           s2 == Chunk(b2, i, m, l + 1)
           all == Chunk(b2, i, 0, m + l + 1)
<1>1. 0 \in Nat /\ l + 1 \in Nat /\ m + l + 1 \in Nat /\ 0 + m <= INPUT_BUF /\ m + l <= INPUT_BUF
      /\ m + (l + 1) <= INPUT_BUF /\ 0 + (m + l + 1) <= INPUT_BUF
  BY Sizes
<1>2. q \in Seq(Chars) /\ Len(q) = m /\ \A k \in 1 .. m : q[k] = b[Place(i, 0 + k - 1)]
  <2>1. IsText(q, b, i, 0, m)
    BY <1>1, ChunkType, Zenon
  <2> QED BY <2>1, Zenon DEF IsText
<1>0. s \in Seq(Chars) /\ Len(s) = l /\ \A k \in 1 .. l : s[k] = b[Place(i, m + k - 1)]
  <2>1. IsText(s, b, i, m, l)
    BY <1>1, ChunkType, Zenon
  <2> QED BY <2>1, Zenon DEF IsText
<1>3. q2 \in Seq(Chars) /\ Len(q2) = m /\ \A k \in 1 .. m : q2[k] = b2[Place(i, 0 + k - 1)]
  <2>1. IsText(q2, b2, i, 0, m)
    BY <1>1, ChunkType, Zenon
  <2> QED BY <2>1, Zenon DEF IsText
<1>4. s2 \in Seq(Chars) /\ Len(s2) = l + 1 /\ \A k \in 1 .. l + 1 : s2[k] = b2[Place(i, m + k - 1)]
  <2>1. IsText(s2, b2, i, m, l + 1)
    BY <1>1, ChunkType, Zenon
  <2> QED BY <2>1, Zenon DEF IsText
<1>5. all \in Seq(Chars) /\ Len(all) = m + l + 1
      /\ \A k \in 1 .. m + l + 1 : all[k] = b2[Place(i, 0 + k - 1)]
  <2>1. IsText(all, b2, i, 0, m + l + 1)
    BY <1>1, ChunkType, Zenon
  <2> QED BY <2>1, Zenon DEF IsText
<1>6. ASSUME NEW k \in 1 .. m + l PROVE b2[Place(i, 0 + k - 1)] = b[Place(i, 0 + k - 1)]
  <2>1. 0 + k - 1 \in 0 .. (m + l) - 1
    OBVIOUS
  <2> QED BY <2>1, Zenon DEF Stored
<1>7. b2[Place(i, m + l)] = c
  BY Zenon DEF Stored
<1> HIDE DEF q, s, q2, s2, all
<1>8. ASSUME NEW k \in 1 .. m PROVE q2[k] = q[k] /\ all[k] = q[k]
  <2>1. k \in 1 .. m + l /\ k \in 1 .. m + l + 1
    OBVIOUS
  <2> QED BY <1>2, <1>3, <1>5, <1>6, <2>1, Zenon
<1>9. ASSUME NEW k \in 1 .. l PROVE s2[k] = s[k] /\ all[m + k] = s[k]
  <2>1. k \in 1 .. l + 1 /\ m + k \in 1 .. m + l /\ m + k \in 1 .. m + l + 1 /\ 0 + (m + k) - 1 = m + k - 1
    OBVIOUS
  <2>2. b2[Place(i, m + k - 1)] = b[Place(i, m + k - 1)]
    BY <1>6, <2>1, Zenon
  <2>3. s2[k] = b2[Place(i, m + k - 1)]
    BY <1>4, <2>1, Zenon
  <2>4. all[m + k] = b2[Place(i, m + k - 1)]
    BY <1>5, <2>1, Zenon
  <2> QED BY <1>0, <2>2, <2>3, <2>4, Zenon
<1>10. s2[l + 1] = c /\ all[m + l + 1] = c
  <2>1. l + 1 \in 1 .. l + 1 /\ m + (l + 1) - 1 = m + l /\ m + l + 1 \in 1 .. m + l + 1
        /\ 0 + (m + l + 1) - 1 = m + l
    OBVIOUS
  <2>2. s2[l + 1] = b2[Place(i, m + l)]
    BY <1>4, <2>1
  <2>3. all[m + l + 1] = b2[Place(i, m + l)]
    BY <1>5, <2>1
  <2> QED BY <1>7, <2>2, <2>3, Zenon
<1>11. q2 = q
  <2>1. Len(q2) = Len(q) /\ \A k \in 1 .. Len(q2) : q2[k] = q[k]
    BY <1>2, <1>3, <1>8, Zenon
  <2> QED BY <1>2, <1>3, <2>1, SameText, Zenon
<1> DEFINE a == Append(s, c)
<1>12. a \in Seq(Chars) /\ Len(a) = l + 1 /\ a[l + 1] = c /\ \A k \in 1 .. l : a[k] = s[k]
  BY <1>0
<1> HIDE DEF a
<1>13. s2 = a
  <2>1. ASSUME NEW k \in 1 .. l + 1 PROVE s2[k] = a[k]
    <3>1. k = l + 1 \/ k \in 1 .. l
      OBVIOUS
    <3> QED BY <1>9, <1>10, <1>12, <3>1, Zenon
  <2>2. Len(s2) = Len(a) /\ \A k \in 1 .. Len(s2) : s2[k] = a[k]
    BY <1>4, <1>12, <2>1, Zenon
  <2> QED BY <1>4, <1>12, <2>2, SameText, Zenon
<1>14. all = q \o a
  <2> DEFINE f == q \o a
  <2>1. f \in Seq(Chars) /\ Len(f) = m + l + 1 /\ (\A k \in 1 .. m : f[k] = q[k])
        /\ \A k \in 1 .. l + 1 : f[m + k] = a[k]
    <3>0. m + (l + 1) = m + l + 1
      OBVIOUS
    <3>1. Len(q \o a) = Len(q) + Len(a)
      BY <1>2, <1>12, JoinText, Zenon
    <3>2. \A k \in 1 .. Len(a) : (q \o a)[Len(q) + k] = a[k]
      BY <1>2, <1>12, JoinText, Zenon
    <3>3. q \o a \in Seq(Chars) /\ \A k \in 1 .. Len(q) : (q \o a)[k] = q[k]
      BY <1>2, <1>12, JoinText, Zenon
    <3> QED BY <1>2, <1>12, <3>0, <3>1, <3>2, <3>3, Zenon
  <2> HIDE DEF f
  <2>2. ASSUME NEW k \in 1 .. m + l + 1 PROVE all[k] = f[k]
    <3>1. CASE k \in 1 .. m
      BY <1>8, <2>1, <3>1, Zenon
    <3>2. CASE k = m + l + 1
      <4>1. l + 1 \in 1 .. l + 1 /\ m + (l + 1) = m + l + 1
        OBVIOUS
      <4> QED BY <1>10, <1>12, <2>1, <3>2, <4>1
    <3>3. CASE k \notin 1 .. m /\ k # m + l + 1
      <4>1. k - m \in 1 .. l /\ k - m \in 1 .. l + 1 /\ m + (k - m) = k
        BY <3>3
      <4>2. all[k] = s[k - m] /\ f[k] = a[k - m] /\ a[k - m] = s[k - m]
        BY <1>9, <1>12, <2>1, <4>1
      <4> QED BY <4>2, Zenon
    <3> QED BY <3>1, <3>2, <3>3, Zenon
  <2>3. Len(all) = Len(f) /\ \A k \in 1 .. Len(all) : all[k] = f[k]
    BY <1>5, <2>1, <2>2, Zenon
  <2>4. all = f
    BY <1>5, <2>1, <2>3, SameText, Zenon
  <2> QED BY <2>4, Zenon DEF f
<1> QED BY <1>11, <1>13, <1>14, Zenon DEF Appended, q, s, q2, s2, all, a

\* From before and after a step
LEMMA FromIs ==
  /\ From(r, w) = TextOf(buf, r, w) /\ From(w, e) = TextOf(buf, w, e)
  /\ From(r, w)' = TextOf(buf', r', w') /\ From(w, e)' = TextOf(buf', w', e')
BY Zenon DEF From, TextOf

\* No characters are the empty sequence.
LEMMA EmptyChunk ==
  ASSUME NEW b, NEW i, NEW m
  PROVE  Chunk(b, i, m, 0) = <<>>
BY DEF Chunk

\* consoleintr's default case is Type.
LEMMA SimTyped ==
  ASSUME IInv, NEW c \in Chars, Typed(c)
  PROVE  Lines!Type(c)
<1>0. PICK m, l, m2, l2 \in 0 .. INPUT_BUF : Grows(c, m, l, m2, l2)
  BY TypedFacts, Zenon
<1>1. /\ Holds(buf, r, w, e, m, l) /\ Holds(buf', r, w', e', m2, l2) /\ m + l < INPUT_BUF
      /\ Stored(buf, buf', r, m + l, c)
  BY <1>0, Zenon DEF Grows
<1>2. r' = r /\ got' = got /\ r \in Index /\ buf \in [Slots -> Chars] /\ buf' \in [Slots -> Chars]
  BY <1>1, Zenon DEF Typed, IInv, TypeOK, Stored
<1>3. m \in Nat /\ l \in Nat /\ 0 \in Nat /\ 0 + m <= INPUT_BUF /\ m + l <= INPUT_BUF
  BY <1>1, Sizes
<1> DEFINE q == Chunk(buf, r, 0, m)
           s == Chunk(buf, r, m, l)
<1>4. From(r, w) = q /\ From(w, e) = s
  BY <1>1, <1>2, HoldsFacts, FromIs
<1>5. From(r, w)' = Chunk(buf', r, 0, m2) /\ From(w, e)' = Chunk(buf', r, m2, l2)
  <2>1. From(r, w)' = TextOf(buf', r, w') /\ From(w, e)' = TextOf(buf', w', e')
    BY <1>2, FromIs, Zenon
  <2>2. TextOf(buf', r, w') = Chunk(buf', r, 0, m2) /\ TextOf(buf', w', e') = Chunk(buf', r, m2, l2)
    BY <1>1, <1>2, HoldsFacts
  <2> QED BY <2>1, <2>2, Zenon
<1>6. Len(q) = m /\ Len(s) = l
  <2>1. IsText(q, buf, r, 0, m)
    BY <1>2, <1>3, ChunkType, Zenon
  <2>2. IsText(s, buf, r, m, l)
    BY <1>2, <1>3, ChunkType, Zenon
  <2> QED BY <2>1, <2>2, Zenon DEF IsText
<1>7. /\ Chunk(buf', r, 0, m) = q /\ Chunk(buf', r, m, l + 1) = Append(s, c)
      /\ Chunk(buf', r, 0, m + l + 1) = q \o Append(s, c)
  <2>0. /\ buf \in [Slots -> Chars] /\ buf' \in [Slots -> Chars] /\ r \in Index /\ m \in Nat /\ l \in Nat
        /\ m + l < INPUT_BUF /\ Stored(buf, buf', r, m + l, c)
    BY <1>1, <1>2, <1>3, Zenon
  <2>1. Appended(buf, buf', r, m, l, c)
    BY <2>0, StoredText, Zenon
  <2> QED BY <2>1, Zenon DEF Appended
<1>8. Chunk(buf', r, m + l + 1, 0) = <<>>
  BY EmptyChunk, Zenon
<1> HIDE DEF q, s
<1>9. Len(From(r, w)) + Len(From(w, e)) = m + l
  BY <1>4, <1>6, Zenon
<1>10. CASE c = "x" /\ m + l + 1 < INPUT_BUF /\ m2 = m /\ l2 = l + 1
  <2>1. From(w, e)' = Append(From(w, e), c) /\ From(r, w)' = From(r, w)
    BY <1>4, <1>5, <1>7, <1>10, Zenon
  <2> QED BY <1>1, <1>2, <1>9, <1>10, <2>1, Zenon DEF Lines!Type
<1>11. CASE ~(c = "x" /\ m + l + 1 < INPUT_BUF) /\ m2 = m + l + 1 /\ l2 = 0
  <2>1. From(w, e)' = <<>> /\ From(r, w)' = From(r, w) \o Append(From(w, e), c)
    BY <1>4, <1>5, <1>7, <1>8, <1>11, Zenon
  <2> QED BY <1>1, <1>2, <1>9, <1>11, <2>1, Zenon DEF Lines!Type
<1> QED BY <1>0, <1>10, <1>11, Zenon DEF Grows

\* Backspace and ^U are Erase.
LEMMA SimErase ==
  ASSUME IInv, Backspace \/ KillLine
  PROVE  Lines!Erase
<1>1. PICK m, l, l2 \in 0 .. INPUT_BUF :
           /\ Holds(buf, r, w, e, m, l) /\ Holds(buf, r, w, e', m, l2)
           /\ l > 0 /\ (l2 = l - 1 \/ l2 = 0)
  BY EraseFacts, Zenon
<1>2. UNCHANGED <<buf, r, w, owner, killed, pc, n, got>>
  BY Zenon DEF Backspace, KillLine
<1>3. r \in Index /\ buf \in [Slots -> Chars]
  BY Zenon DEF IInv, TypeOK
<1>4. m \in Nat /\ l \in Nat /\ l2 \in Nat /\ m + l <= INPUT_BUF /\ m + l2 <= INPUT_BUF /\ l2 <= l
  <2>1. m + l <= INPUT_BUF
    BY <1>1, Zenon DEF Holds
  <2> QED BY <1>1, <2>1, Sizes
<1> DEFINE s == Chunk(buf, r, m, l)
           s2 == Chunk(buf, r, m, l2)
<1>5. From(w, e) = s
  BY <1>1, <1>3, HoldsFacts, FromIs
<1>6. From(w, e)' = s2 /\ From(r, w)' = From(r, w)
  <2>1. From(w, e)' = TextOf(buf, w, e') /\ From(r, w)' = From(r, w)
    BY <1>2, FromIs
  <2>2. TextOf(buf, w, e') = s2
    BY <1>1, <1>3, HoldsFacts
  <2> QED BY <2>1, <2>2, Zenon
<1>7. s \in Seq(Chars) /\ Len(s) = l /\ \A k \in 1 .. l : s[k] = buf[Place(r, m + k - 1)]
  <2>1. IsText(s, buf, r, m, l)
    BY <1>3, <1>4, ChunkType, Zenon
  <2> QED BY <2>1, Zenon DEF IsText
<1>8. s2 \in Seq(Chars) /\ Len(s2) = l2 /\ \A k \in 1 .. l2 : s2[k] = buf[Place(r, m + k - 1)]
  <2>1. IsText(s2, buf, r, m, l2)
    BY <1>3, <1>4, ChunkType, Zenon
  <2> QED BY <2>1, Zenon DEF IsText
<1> HIDE DEF s, s2
<1>9. s # <<>>
  BY <1>1, <1>4, <1>7
<1>10. CASE l2 = 0
  <2>1. s2 = <<>>
    BY <1>8, <1>10
  <2> QED BY <1>2, <1>5, <1>6, <1>9, <2>1, Zenon DEF Lines!Erase
<1>11. CASE l2 = l - 1
  <2> DEFINE f == SubSeq(s, 1, Len(s) - 1)
  <2>1. f \in Seq(Chars) /\ Len(f) = l2 /\ \A k \in 1 .. l2 : f[k] = s[k]
    BY <1>4, <1>7, <1>11
  <2>2. \A k \in 1 .. l2 : k \in 1 .. l
    BY <1>4
  <2> HIDE DEF f
  <2>3. s2 = f
    <3>1. \A k \in 1 .. Len(s2) : s2[k] = f[k]
      BY <1>7, <1>8, <2>1, <2>2, Zenon
    <3> QED BY <1>8, <2>1, <3>1, SameText
  <2>4. From(w, e)' = SubSeq(From(w, e), 1, Len(From(w, e)) - 1)
    BY <1>5, <1>6, <2>3, Zenon DEF f
  <2> QED BY <1>2, <1>5, <1>6, <1>9, <2>4, Zenon DEF Lines!Erase
<1> QED BY <1>1, <1>10, <1>11, Zenon

\* consoleread's loop is Take, EndOfFile, or nothing.
LEMMA SimTakes ==
  ASSUME IInv, LeastExists, NEW p \in Procs, Takes(p)
  PROVE  \/ \E k \in 1 .. Len(From(r, w)) : Lines!Take(p, k)
         \/ Lines!EndOfFile(p)
         \/ UNCHANGED <<From(r, w), From(w, e), got>>
<1>1. PICK m, l \in 0 .. INPUT_BUF : Holds(buf, r, w, e, m, l)
  BY Zenon DEF IInv, Ring
<1> DEFINE q == Chunk(buf, r, 0, m)
<1>2. m > 0 /\ \E t, d \in 0 .. m : Taken(p, q, t, d)
  BY <1>1, TakesFacts, Zenon
<1>3. PICK t, d \in 0 .. m : Taken(p, q, t, d)
  BY <1>2, Zenon
<1>4. buf' = buf /\ w' = w /\ e' = e /\ pc[p] = "read"
  BY Zenon DEF Takes, Goes
<1>5. r \in Index /\ buf \in [Slots -> Chars] /\ got \in [Procs -> Seq(Chars)] /\ got[p] \in Seq(Chars)
  BY Zenon DEF IInv, TypeOK
<1>6. m \in Nat /\ 0 + m <= INPUT_BUF /\ 0 \in Nat /\ t \in Nat /\ t <= m /\ d \in Nat /\ d <= m
      /\ m - d \in Nat /\ 0 + (m - d) <= INPUT_BUF /\ m - d \in 0 .. INPUT_BUF
  BY Sizes
<1>7. q \in Seq(Chars) /\ Len(q) = m /\ \A k \in 1 .. m : q[k] = buf[Place(r, 0 + k - 1)]
  <2>1. IsText(q, buf, r, 0, m)
    BY <1>5, <1>6, ChunkType, Zenon
  <2> QED BY <2>1, Zenon DEF IsText
<1>8. From(r, w) = q
  BY <1>1, <1>5, HoldsFacts, FromIs
<1>9. From(w, e)' = From(w, e)
  BY <1>4, FromIs, Zenon
<1>10. r' = Plus(r, d) /\ got' = [got EXCEPT ![p] = got[p] \o SubSeq(q, 1, t)]
  BY <1>3, Zenon DEF Taken
<1>11. From(r, w)' = SubSeq(q, d + 1, m)
  <2> DEFINE q2 == Chunk(buf, Plus(r, d), 0, m - d)
             f == SubSeq(q, d + 1, m)
  <2>1. Plus(r, d) \in Index /\ Holds(buf, Plus(r, d), w, e, m - d, l)
    BY <1>1, <1>5, Advance, Zenon
  <2>2. ASSUME NEW x \in 1 .. m - d PROVE Place(Plus(r, d), 0 + x - 1) = Place(r, 0 + (d + x) - 1)
    <3>1. x \in Nat \ {0} /\ d + x <= INPUT_BUF
      BY <1>6, Sizes
    <3> QED BY <1>5, <1>6, <3>1, AdvancePlace, Zenon
  <2>3. TextOf(buf, Plus(r, d), w) = q2
    BY <1>6, <2>1, HoldsFacts
  <2>4. From(r, w)' = q2
    BY <1>4, <1>10, <2>3, FromIs, Zenon
  <2>5. q2 \in Seq(Chars) /\ Len(q2) = m - d
        /\ \A x \in 1 .. m - d : q2[x] = buf[Place(Plus(r, d), 0 + x - 1)]
    <3>1. IsText(q2, buf, Plus(r, d), 0, m - d)
      BY <1>5, <1>6, <2>1, ChunkType, Zenon
    <3> QED BY <3>1, Zenon DEF IsText
  <2> HIDE DEF q, q2
  <2>6. f \in Seq(Chars) /\ Len(f) = m - d /\ \A x \in 1 .. m - d : f[x] = q[d + x]
    BY <1>6, <1>7
  <2> HIDE DEF f
  <2>7. ASSUME NEW x \in 1 .. m - d PROVE q2[x] = f[x]
    <3>1. d + x \in 1 .. m
      BY <1>6
    <3>2. q[d + x] = buf[Place(r, 0 + (d + x) - 1)]
      BY <1>7, <3>1, Zenon
    <3> QED BY <2>2, <2>5, <2>6, <3>2, Zenon
  <2>8. Len(q2) = Len(f) /\ \A x \in 1 .. Len(q2) : q2[x] = f[x]
    BY <2>5, <2>6, <2>7, Zenon
  <2>9. q2 = f
    BY <2>5, <2>6, <2>8, SameText, Zenon
  <2> QED BY <2>4, <2>9, Zenon DEF f
<1> HIDE DEF q
<1>12. ASSUME t > 0, d = t
       PROVE  \E k \in 1 .. Len(From(r, w)) : Lines!Take(p, k)
  <2> DEFINE s == SubSeq(q, 1, t)
             g == got[p]
  <2>1. t \in 1 .. Len(q)
    BY <1>6, <1>7, <1>12
  <2>2. s \in Seq(Chars) /\ g \in Seq(Chars) /\ Len(s) = t /\ \A i \in 1 .. t : s[i] = q[i]
    BY <1>5, <1>6, <1>7
  <2>3. \A i \in 1 .. Len(g) : g[i] = "x"
    <3>1. pc[p] \in {"read", "asleep"}
      BY <1>4
    <3> QED BY <3>1, Zenon DEF IInv, Reading
  <2>4. \A i \in 1 .. t : s[i] # "eof" /\ (s[i] = "newline" => i = t)
    BY <1>3, <2>2, Zenon DEF Taken
  <2>5. \A i \in 1 .. Len(g \o s) : (g \o s)[i] # "eof" /\ ((g \o s)[i] = "newline" => i = Len(g \o s))
    <3> HIDE DEF s, g
    <3> TAKE i \in 1 .. Len(g \o s)
    <3>1. Len(g \o s) = Len(g) + t /\ Len(g) \in Nat
      BY <2>2
    <3>2. CASE i \in 1 .. Len(g)
      <4>1. (g \o s)[i] = "x"
        BY <2>2, <2>3, <3>2, JoinText, Zenon
      <4> QED BY <4>1
    <3>3. CASE i \notin 1 .. Len(g)
      <4>1. i - Len(g) \in 1 .. t /\ Len(g) + (i - Len(g)) = i /\ (i - Len(g) = t => i = Len(g) + t)
        BY <1>6, <3>1, <3>3
      <4> DEFINE j == i - Len(g)
      <4>2. j \in 1 .. t /\ Len(g) + j = i /\ (j = t => i = Len(g) + t)
        BY <4>1, Zenon
      <4> HIDE DEF j
      <4>3. (g \o s)[Len(g) + j] = s[j]
        BY <2>2, <4>2, JoinText, Zenon
      <4> QED BY <2>4, <3>1, <4>2, <4>3, Zenon
    <3> QED BY <3>2, <3>3, Zenon
  <2>6. From(r, w)' = SubSeq(From(r, w), t + 1, Len(From(r, w)))
    BY <1>7, <1>8, <1>11, <1>12, Zenon
  <2>7. got[p] \o SubSeq(From(r, w), 1, t) = g \o s
    BY <1>8, Zenon
  <2>8. got' = [got EXCEPT ![p] = g \o s]
    BY <1>10, Zenon
  <2>9. t \in 1 .. Len(From(r, w))
    BY <1>8, <2>1, Zenon
  <2> HIDE DEF s, g
  <2>10. Lines!Take(p, t)
    BY <1>9, <2>5, <2>6, <2>7, <2>8, Zenon DEF Lines!Take
  <2> QED BY <2>9, <2>10, Zenon
<1>13. ASSUME t = 0 PROVE got' = got
  <2>1. got[p] \o SubSeq(q, 1, 0) = got[p]
    BY <1>5, <1>7
  <2> QED BY <1>5, <1>10, <1>13, <2>1
<1>14. ASSUME t = 0, d = 1, q[1] = "eof", got[p] = <<>> PROVE Lines!EndOfFile(p)
  <2>1. q # <<>> /\ Head(q) = q[1] /\ Tail(q) = SubSeq(q, 2, m)
    <3>1. q # <<>> /\ Head(q) = q[1]
      BY <1>2, <1>6, <1>7
    <3>2. Tail(q) = SubSeq(q, 2, m)
      <4> DEFINE f == SubSeq(q, 2, m)
                 h == Tail(q)
      <4>1. f \in Seq(Chars) /\ Len(f) = m - 1 /\ \A k \in 1 .. m - 1 : f[k] = q[k + 1]
        BY <1>2, <1>6, <1>7
      <4>2. h \in Seq(Chars) /\ Len(h) = m - 1 /\ \A k \in 1 .. m - 1 : h[k] = q[k + 1]
        BY <1>2, <1>6, <1>7, <3>1
      <4> HIDE DEF f, h
      <4>3. h = f
        BY <4>1, <4>2, SameText
      <4> QED BY <4>3, Zenon DEF f, h
    <3> QED BY <3>1, <3>2, Zenon
  <2>2. d + 1 = 2
    BY <1>14
  <2> QED BY <1>8, <1>9, <1>11, <1>13, <1>14, <2>1, <2>2, Zenon DEF Lines!EndOfFile
<1>15. ASSUME t = 0, d = 0 PROVE UNCHANGED <<From(r, w), From(w, e), got>>
  <2>1. Plus(r, 0) = r
    <3>1. r \in Nat /\ r < WRAP /\ 0 \in 0 .. WRAP /\ r + 0 = r
      BY <1>5, Sizes DEF Index
    <3> QED BY <1>5, <3>1, PlusIs
  <2>2. r' = r
    BY <1>10, <1>15, <2>1, Zenon
  <2>3. From(r, w)' = From(r, w)
    BY <1>4, <2>2, FromIs, Zenon
  <2> QED BY <1>9, <1>13, <1>15, <2>3, Zenon
<1>16. d = t \/ (t = 0 /\ d = 1 /\ q[1] = "eof" /\ got[p] = <<>>)
  BY <1>3, Zenon DEF Taken
<1>17. t > 0 \/ t = 0
  BY <1>6
<1> QED BY <1>12, <1>14, <1>15, <1>16, <1>17, Zenon

\* Every step of the console is one of LineInput, or none.
LEMMA SimNext ==
  ASSUME IInv, LeastExists, [Next]_vars
  PROVE  [Lines!Next]_<<From(r, w), From(w, e), got>>
<1>0. ASSUME UNCHANGED input PROVE From(r, w)' = From(r, w) /\ From(w, e)' = From(w, e)
  <2>1. buf' = buf /\ r' = r /\ w' = w /\ e' = e
    BY <1>0 DEF input
  <2> QED BY <2>1, FromIs, Zenon
<1>1. CASE UNCHANGED vars
  <2>1. UNCHANGED input /\ got' = got
    BY <1>1 DEF vars
  <2> QED BY <1>0, <2>1, Zenon
<1>2. CASE consoleintr
  <2>1. Lines!Chars = Chars
    BY DEF Lines!Chars, Chars
  <2>2. ASSUME NEW c \in Chars, Typed(c) PROVE Lines!Next
    BY <2>1, <2>2, SimTyped, Zenon DEF Lines!Next
  <2>3. ASSUME Backspace \/ KillLine PROVE Lines!Next
    BY <2>3, SimErase, Zenon DEF Lines!Next
  <2> QED BY <1>2, <2>2, <2>3, Zenon DEF consoleintr
<1>3. ASSUME NEW p \in Procs, Takes(p) PROVE [Lines!Next]_<<From(r, w), From(w, e), got>>
  BY <1>3, SimTakes, Zenon DEF Lines!Next
<1>4. ASSUME NEW p \in Procs, Return(p) PROVE Lines!Next
  <2>1. Lines!Return(p)
    BY <1>0, <1>4, Zenon DEF Return, Lines!Return
  <2> QED BY <2>1, Zenon DEF Lines!Next
<1>5. ASSUME NEW p \in Procs,
             \/ Unlock(p) \/ Waits(p) \/ Relock(p) \/ Written(p) \/ Write(p) \/ kill(p)
             \/ \E k \in Counts : Enter(p, k)
      PROVE  UNCHANGED <<From(r, w), From(w, e), got>>
  <2>1. UNCHANGED input /\ got' = got
    BY <1>5, Zenon DEF Unlock, Waits, Relock, Written, Write, kill, Enter
  <2> QED BY <1>0, <2>1, Zenon
<1> QED BY <1>1, <1>2, <1>3, <1>4, <1>5, Zenon DEF Next, Reader

\* The empty ring is the empty line.
LEMMA SimInit == Init => Lines!Init
<1> SUFFICES ASSUME Init PROVE Lines!Init
  BY Zenon
<1>1. r = 0 /\ w = 0 /\ e = 0 /\ got = [p \in Procs |-> <<>>]
  BY Zenon DEF Init
<1>2. 0 \in Index /\ 0 \in 0 .. WRAP - 1 /\ 0 \in 0 .. WRAP /\ 0 + 0 = 0 /\ 0 < WRAP
  BY Sizes DEF Index
<1>3. Plus(0, 0) = 0
  BY <1>2, PlusIs, Zenon
<1>4. Minus(0, 0) = 0
  BY <1>2, <1>3, MinusIs
<1>5. From(0, 0) = <<>>
  BY <1>4 DEF From
<1> QED BY <1>1, <1>5, Zenon DEF Lines!Init

-----------------------------------------------------------------------------
(* The theorems *)

INSTANCE WellFoundedInduction

\* From the library: < is well-founded.
LEMMA LeastFound == LeastExists
<1> SUFFICES ASSUME NEW S \in SUBSET Nat, S # {}
             PROVE  \E x \in S : \A y \in S : x <= y
  BY Zenon DEF LeastExists
<1>1. PICK x \in S : \A y \in S : ~ (<<y, x>> \in OpToRel(<, Nat))
  BY NatLessThanWellFounded, WFMin, Zenon
<1>2. ASSUME NEW y \in S PROVE x <= y
  <2>1. x \in Nat /\ y \in Nat
    BY Zenon
  <2>2. ~(y < x)
    BY <1>1, <2>1, Zenon DEF OpToRel
  <2> QED BY <2>1, <2>2
<1> QED BY <1>2, Zenon

\* The invariant, for any number of processes and any size of the ring.
THEOREM ConsoleInvariant == Spec => []IInv
<1>1. IInv /\ [Next]_vars => IInv'
  BY NextIInv, LeastFound, Zenon
<1> QED BY <1>1, InitIInv, PTL DEF Spec

\* The indices stay within their width, places and characters are what they may be.
THEOREM ConsoleTyped == Spec => []TypeOK
<1>1. IInv => TypeOK
  BY Zenon DEF IInv
<1> QED BY <1>1, ConsoleInvariant, PTL

\* A reader sleeps only while there is nothing to read, and a full buffer can be read:
\* consoleintr's wakeup is not lost, and typing never stops for good.
THEOREM SleepingReadersHaveNothing == Spec => []ReadersWait
<1>1. IInv => ReadersWait
  <2> SUFFICES ASSUME IInv PROVE ReadersWait
    BY Zenon
  <2>1. (\E p \in Procs : pc[p] = "asleep") => r = w
    BY Zenon DEF IInv, Reading
  <2>2. PICK m, l \in 0 .. INPUT_BUF : Holds(buf, r, w, e, m, l)
    BY Zenon DEF IInv, Ring
  <2>3. r \in Index
    BY Zenon DEF IInv, TypeOK
  <2>4. Minus(e, r) = m + l /\ (r = w <=> m = 0)
    BY <2>2, <2>3, HoldsFacts
  <2>5. m + l = INPUT_BUF => l = 0
    BY <2>2, Zenon DEF Holds
  <2>6. Minus(e, r) = INPUT_BUF => r # w
    BY <2>4, <2>5, Sizes
  <2> QED BY <2>1, <2>6, Zenon DEF ReadersWait
<1> QED BY <1>1, ConsoleInvariant, PTL

\* The ring with its three wrapping indices implements the line discipline: what is
\* typed is read in order, once, a line at a time, and an end of file by one read.
THEOREM ConsoleImplementsLines == Spec => LinesSpec
<1>1. IInv /\ [Next]_vars => [Lines!Next]_<<From(r, w), From(w, e), got>>
  BY SimNext, LeastFound, Zenon
<1> QED BY <1>1, SimInit, ConsoleInvariant, PTL DEF Spec, LinesSpec, Lines!Spec

=============================================================================
