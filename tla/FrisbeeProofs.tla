--------------------------- MODULE FrisbeeProofs ---------------------------
(***************************************************************************)
(* Proofs about the frisbee programs and their locks, for any number of    *)
(* threads and passes: the array lock excludes and is first come, first    *)
(* served; the MCS lock is granted to threads that wait and excludes; the  *)
(* programs play the game.                                                 *)
(***************************************************************************)
EXTENDS Frisbee, Integers, TLAPS

-----------------------------------------------------------------------------
\* What the proofs use of finite sets, shown below.

\* A thread that has not drawn a slot leaves at least one slot undrawn:
\* fewer than size threads cannot own all the slots.
SlotLeft ==
  \A t \in Threads : \A Some \in SUBSET (Threads \ {t}), q \in [Threads -> Slots] :
    ~ \A p \in Slots : \E u \in Some : q[u] = p

\* Threads are counted one by one, and n of the first n threads are all of them.
Counting ==
  /\ Cardinality({}) = 0
  /\ \A G \in SUBSET Threads : \A t \in Threads \ G : Cardinality(G \cup {t}) = Cardinality(G) + 1
  /\ \A n \in Nat : \A G \in SUBSET (0 .. n - 1) : Cardinality(G) = n => G = 0 .. n - 1

-----------------------------------------------------------------------------
\* The array lock

LEMMA AfterType == \A p \in Slots : After(p) \in Slots
  BY SizeAssumption DEF Slots, After

LEMMA InitIInv == LockInit => LockIInv
<1> SUFFICES ASSUME LockInit PROVE LockIInv
  BY Zenon
<1>1. 0 \in Slots /\ size - 1 \in Slots
  BY SizeAssumption DEF Slots
<1>2. FrontIs(0)
  BY <1>1 DEF LockInit, FrontIs, InLine, Inside
<1>3. LockTypeOK
  BY <1>1, Zenon DEF LockInit, LockTypeOK, Places
<1> QED
  BY <1>1, <1>2, <1>3, Zenon DEF LockInit, LockIInv, HoldsM, InLine

-----------------------------------------------------------------------------
\* Every step of every thread keeps the types.
LEMMA StepTypeOK == LockTypeOK /\ [LockNext]_lockVars => LockTypeOK'
<1> SUFFICES ASSUME LockTypeOK, [LockNext]_lockVars PROVE LockTypeOK'
  BY Zenon
<1>1. ASSUME NEW t \in Threads, Acquire(t) PROVE LockTypeOK'
  BY <1>1, AfterType
     DEF Acquire, LockM, ReadNext, Bump, UnlockM, SeeSlot, SetLockpos, LockTypeOK, Places, Goto
<1>2. ASSUME NEW t \in Threads, Release(t) PROVE LockTypeOK'
  BY <1>2 DEF Release, ReadLockpos, ClearOwn, SetNext, LockTypeOK, Places, Goto
<1>3. CASE UNCHANGED lockVars
  BY <1>3, Zenon DEF lockVars, LockTypeOK
<1> QED
  BY <1>1, <1>2, <1>3, Zenon DEF LockNext

LEMMA StepIInv == SlotLeft /\ LockIInv /\ [LockNext]_lockVars => LockIInv'
<1> SUFFICES ASSUME SlotLeft, LockIInv, [LockNext]_lockVars PROVE LockIInv'
  BY Zenon
<1>0. LockTypeOK /\ LockTypeOK'
  BY StepTypeOK, Zenon DEF LockIInv
<1>f. PICK f \in Slots : FrontIs(f)
  BY Zenon DEF LockIInv
<1>1. ASSUME NEW t \in Threads, LockM(t) PROVE LockIInv'
  <2>1. FrontIs(f)'
    BY <1>f, <1>1, <1>0 DEF LockM, FrontIs, Window, InLine, Inside, Goto
  <2> QED
    BY <1>f, <1>1, <2>1, <1>0 DEF LockM, LockIInv, HoldsM, InLine, Goto
<1>2. ASSUME NEW t \in Threads, ReadNext(t) PROVE LockIInv'
  <2>1. FrontIs(f)'
    BY <1>f, <1>2, <1>0 DEF ReadNext, FrontIs, Window, InLine, Inside, Goto
  <2> QED
    BY <1>f, <1>2, <2>1, <1>0 DEF ReadNext, LockTypeOK, LockIInv, HoldsM, InLine, Goto
<1>3. ASSUME NEW t \in Threads, Bump(t) PROVE LockIInv'
  <2>1. pos[t] = next /\ t \notin InLine /\ InLine' = InLine \cup {t} /\ Inside' = Inside
    BY <1>3, <1>0 DEF Bump, LockTypeOK, LockIInv, InLine, Inside, Goto
  <2>2. ~ \E u \in InLine : pos[u] = next
    <3> SUFFICES ASSUME \E u \in InLine : pos[u] = next PROVE FALSE
      BY Zenon
    <3>1. \A p \in Slots : p \in Window(f) <=> \E u \in InLine : pos[u] = p
      BY <1>f, Zenon DEF FrontIs
    <3>2. next \in Window(f)
      BY <3>1, <1>0, Zenon DEF LockTypeOK
    <3>3. Window(f) = Slots
      BY <3>2 DEF Window, Slots
    <3>4. InLine \in SUBSET (Threads \ {t})
      BY <2>1, <1>0, Zenon DEF InLine
    <3>5. \A p \in Slots : \E u \in InLine : pos[u] = p
      BY <3>1, <3>3, Zenon
    <3>6. pos \in [Threads -> Slots]
      BY <1>0, Zenon DEF LockTypeOK
    <3> QED
      BY <3>4, <3>5, <3>6 DEF SlotLeft
  <2>3. FrontIs(f)'
    <3>1. ASSUME NEW p \in Slots
          PROVE  (p \in Window(f)') <=> p = next \/ (InLine # {} /\ p \in Window(f))
      <4>1. next' = After(next)
        BY <2>1, <1>3, Zenon DEF Bump
      <4>2. InLine = {} => f = next
        <5> SUFFICES ASSUME InLine = {}, f # next PROVE FALSE
          BY Zenon
        <5>1. f \notin Window(f)
          BY <1>f, Zenon DEF FrontIs
        <5> QED
          BY <5>1 DEF Window, Slots
      <4>3. InLine # {} => f # next
        <5> SUFFICES ASSUME InLine # {}, f = next PROVE FALSE
          BY Zenon
        <5>1. next \in Window(f)
          BY DEF Window, Slots
        <5>2. \A s \in Slots : s \in Window(f) <=> \E u \in InLine : pos[u] = s
          BY <1>f, Zenon DEF FrontIs
        <5> QED
          BY <5>1, <5>2, <2>2, Zenon
      <4> QED
        BY <4>1, <4>2, <4>3, <1>0 DEF Window, Slots, After, LockTypeOK
    <3>2. \A p \in Slots : (p \in Window(f)') <=> \E u \in InLine' : pos'[u] = p
      BY <3>1, <2>1, <1>3, <1>f, Zenon DEF Bump, FrontIs
    <3> QED
      BY <3>2, <2>1, <1>3, <1>f, Zenon DEF Bump, FrontIs
  <2> QED
    BY <1>f, <1>3, <2>1, <2>2, <2>3, <1>0 DEF Bump, LockTypeOK, LockIInv, HoldsM, Goto
<1>4. ASSUME NEW t \in Threads, UnlockM(t) PROVE LockIInv'
  <2>1. FrontIs(f)'
    BY <1>f, <1>4, <1>0 DEF UnlockM, FrontIs, Window, InLine, Inside, Goto
  <2> QED
    BY <1>f, <1>4, <2>1, <1>0 DEF UnlockM, LockTypeOK, LockIInv, HoldsM, InLine, Goto
<1>5. ASSUME NEW t \in Threads, SeeSlot(t) PROVE LockIInv'
  <2>1. FrontIs(f)'
    BY <1>f, <1>5, <1>0 DEF SeeSlot, FrontIs, Window, LockTypeOK, InLine, Inside, Goto
  <2> QED
    BY <1>f, <1>5, <2>1, <1>0 DEF SeeSlot, LockIInv, HoldsM, InLine, Goto
<1>6. ASSUME NEW t \in Threads, SetLockpos(t) PROVE LockIInv'
  <2>1. FrontIs(f)'
    BY <1>f, <1>6, <1>0 DEF SetLockpos, FrontIs, Window, InLine, Inside, Goto
  <2>2. \A u \in Inside : u = t
    BY <1>f, <1>6, <1>0 DEF SetLockpos, FrontIs, LockIInv, InLine, Inside, Goto
  <2> QED
    BY <1>f, <1>6, <2>1, <2>2, <1>0 DEF SetLockpos, LockIInv, HoldsM, InLine, Inside, Goto
<1>7. ASSUME NEW t \in Threads, ReadLockpos(t) PROVE LockIInv'
  <2>1. FrontIs(f)'
    BY <1>f, <1>7, <1>0 DEF ReadLockpos, FrontIs, Window, InLine, Inside, Goto
  <2> QED
    BY <1>f, <1>7, <2>1, <1>0 DEF ReadLockpos, LockTypeOK, LockIInv, HoldsM, InLine, Goto
<1>8. ASSUME NEW t \in Threads, ClearOwn(t) PROVE LockIInv'
  <2>1. FrontIs(f)'
    BY <1>f, <1>8, <1>0 DEF ClearOwn, FrontIs, Window, InLine, Inside, Goto
  <2>2. \A p \in Slots : lock'[p] = 0
    BY <1>f, <1>8, <1>0 DEF ClearOwn, FrontIs, LockTypeOK, LockIInv, Inside, Goto
  <2> QED
    BY <1>f, <1>8, <2>1, <2>2, <1>0 DEF ClearOwn, LockIInv, HoldsM, InLine, Goto
<1>9. ASSUME NEW t \in Threads, SetNext(t) PROVE LockIInv'
  <2>1. t \in Inside /\ t \in InLine /\ pos[t] = f /\ rel[t] = f
    BY <1>f, <1>9, <1>0, Zenon DEF SetNext, FrontIs, LockIInv, InLine, Inside, Goto
  <2>2. InLine' = InLine \ {t} /\ Inside' = {}
    BY <1>f, <1>9, <2>1, <1>0 DEF SetNext, FrontIs, LockTypeOK, LockIInv, InLine, Inside, Goto
  <2>3. \A p \in Slots : p \in Window(f) <=> \E u \in InLine : pos[u] = p
    BY <1>f, <2>1, Zenon DEF FrontIs
  <2>4. \A p \in Slots : (p \in Window(f) /\ p # f) <=> \E u \in InLine' : pos'[u] = p
    BY <1>9, <2>1, <2>2, <2>3, <1>0 DEF SetNext, LockIInv
  <2>5. \/ After(f) = next' /\ InLine' = {}
        \/ \A p \in Slots : (p \in Window(After(f))') <=> p \in Window(f) /\ p # f
    <3>1. CASE After(f) = next
      <4>1. \A p \in Slots : p \in Window(f) => p = f
        BY <3>1 DEF Window, Slots, After
      <4> QED
        BY <3>1, <4>1, <2>4, <1>9, <1>0 DEF SetNext, LockTypeOK, InLine
    <3>2. CASE After(f) # next
      BY <3>2, <1>9, <1>0 DEF SetNext, Window, Slots, After, LockTypeOK
    <3> QED
      BY <3>1, <3>2, Zenon
  <2>6. FrontIs(After(f))'
    BY <1>9, <2>1, <2>2, <2>4, <2>5, <1>0 DEF SetNext, FrontIs, LockIInv, Goto
  <2> QED
    BY <1>f, <1>9, <2>1, <2>2, <2>6, <1>0 DEF SetNext, LockTypeOK, LockIInv, HoldsM, Inside, Goto
<1>10. CASE UNCHANGED lockVars
  <2>1. FrontIs(f)'
    BY <1>f, <1>10, <1>0, Zenon DEF lockVars, FrontIs, Window, InLine, Inside
  <2> QED
    BY <1>f, <1>10, <2>1, <1>0, Zenon DEF lockVars, LockIInv, HoldsM, InLine
<1> QED
  BY <1>1, <1>2, <1>3, <1>4, <1>5, <1>6, <1>7, <1>8, <1>9, <1>10, Zenon DEF LockNext, Acquire, Release

-----------------------------------------------------------------------------
\* The line of the threads that drew a slot

\* A slot that is drawn is as far behind next as its place in line says.
LEMMA BehindIs ==
  ASSUME LockTypeOK, NEW p \in Slots
  PROVE  /\ Behind(p) \in 1 .. size
         /\ \A r \in Slots : Behind(p) = Behind(r) => p = r
         /\ \A f \in Slots : p \in Window(f) <=> Behind(p) <= Behind(f)
         /\ \A k \in 1 .. size : \E r \in Slots : Behind(r) = k
<1>1. next \in Slots /\ size \in Nat \ {0}
  BY SizeAssumption, Zenon DEF LockTypeOK
<1>2. Behind(p) \in 1 .. size /\ \A r \in Slots : Behind(p) = Behind(r) => p = r
  BY <1>1 DEF Behind, Slots
<1>3. ASSUME NEW f \in Slots PROVE p \in Window(f) <=> Behind(p) <= Behind(f)
  BY <1>1 DEF Behind, Slots, Window
<1>4. ASSUME NEW k \in 1 .. size PROVE \E r \in Slots : Behind(r) = k
  <2>1. CASE k <= next
    <3>1. next - k \in Slots /\ Behind(next - k) = k
      BY <1>1, <2>1 DEF Behind, Slots
    <3> QED
      BY <3>1, Zenon
  <2>2. CASE ~(k <= next)
    <3>1. next + size - k \in Slots /\ Behind(next + size - k) = k
      BY <1>1, <2>2 DEF Behind, Slots
    <3> QED
      BY <3>1, Zenon
  <2> QED
    BY <2>1, <2>2, Zenon
<1> QED
  BY <1>2, <1>3, <1>4, Zenon

\* The values of d are the numbers from 1 to n, each once.
Filled(d, n) ==
  /\ n \in Nat
  /\ \A t \in DOMAIN d : d[t] \in 1 .. n
  /\ \A k \in 1 .. n : \E t \in DOMAIN d : d[t] = k
  /\ \A t, u \in DOMAIN d : d[t] = d[u] => t = u

LEMMA OrderedIs ==
  ASSUME NEW d, NEW n, Filled(d, n)
  PROVE  /\ DOMAIN Ordered(d) = 1 .. n
         /\ \A k \in 1 .. n : Ordered(d)[k] \in DOMAIN d /\ d[Ordered(d)[k]] = n + 1 - k
         /\ \A k \in 1 .. n, t \in DOMAIN d : d[t] = n + 1 - k => Ordered(d)[k] = t
         /\ Ordered(d) \in Seq(DOMAIN d) /\ Len(Ordered(d)) = n
<1>0. n \in Nat
  BY Zenon DEF Filled
<1>1. Longest(d) = n
  <2>1. PICK V : V = {d[t] : t \in DOMAIN d} \cup {0}
    BY Zenon
  <2>2. n \in V /\ \A y \in V : n >= y /\ y \in Nat
    BY <1>0, <2>1 DEF Filled
  <2>3. Longest(d) = Max(V)
    BY <2>1, Zenon DEF Longest
  <2>4. \E x \in V : \A y \in V : x >= y
    BY <2>2, Zenon
  <2>5. Max(V) \in V /\ \A y \in V : Max(V) >= y
    BY <2>4, Zenon DEF Max
  <2>6. PICK x \in V : x = Max(V) /\ x >= n
    BY <2>2, <2>5, Zenon
  <2> QED
    BY <1>0, <2>2, <2>3, <2>6
<1>2. Ordered(d) = [k \in 1 .. n |-> CHOOSE t \in DOMAIN d : d[t] = n + 1 - k]
  BY <1>1 DEF Ordered
<1>3. ASSUME NEW k \in 1 .. n PROVE Ordered(d)[k] \in DOMAIN d /\ d[Ordered(d)[k]] = n + 1 - k
  <2>1. n + 1 - k \in 1 .. n
    BY <1>0
  <2>2. \E t \in DOMAIN d : d[t] = n + 1 - k
    BY <2>1, Zenon DEF Filled
  <2>3. Ordered(d)[k] = CHOOSE t \in DOMAIN d : d[t] = n + 1 - k
    BY <1>2, Zenon
  <2> QED
    BY <2>2, <2>3, Zenon
<1>4. DOMAIN Ordered(d) = 1 .. n
  BY <1>2, Zenon
<1>5. ASSUME NEW k \in 1 .. n, NEW t \in DOMAIN d, d[t] = n + 1 - k PROVE Ordered(d)[k] = t
  BY <1>3, <1>5, Zenon DEF Filled
<1>6. Ordered(d) \in [1 .. n -> DOMAIN d]
  BY <1>2, <1>3, Zenon
<1>7. Ordered(d) \in Seq(DOMAIN d) /\ Len(Ordered(d)) = n
  BY <1>0, <1>6
<1> QED
  BY <1>3, <1>4, <1>5, <1>7, Zenon

\* Everyone moves up by one, and t comes last.
LEMMA OrderedAppend ==
  ASSUME NEW d, NEW n, Filled(d, n), NEW t, t \notin DOMAIN d, NEW e, DOMAIN e = DOMAIN d \cup {t},
         e[t] = 1, \A u \in DOMAIN d : e[u] = d[u] + 1
  PROVE  Ordered(e) = Append(Ordered(d), t)
<1>0. n \in Nat
  BY Zenon DEF Filled
<1>1. Filled(e, n + 1)
  <2>1. \A u \in DOMAIN d : e[u] \in 2 .. n + 1
    BY <1>0 DEF Filled
  <2>2. ASSUME NEW k \in 1 .. n + 1 PROVE \E u \in DOMAIN e : e[u] = k
    <3>1. CASE k = 1
      BY <3>1, Zenon
    <3>2. CASE k # 1
      <4>1. k - 1 \in 1 .. n
        BY <1>0, <3>2
      <4>2. PICK u \in DOMAIN d : d[u] = k - 1
        BY <4>1, Zenon DEF Filled
      <4>3. e[u] = k /\ u \in DOMAIN e
        BY <4>2
      <4> QED
        BY <4>3, Zenon
    <3> QED
      BY <3>1, <3>2, Zenon
  <2>3. ASSUME NEW u \in DOMAIN e, NEW v \in DOMAIN e, e[u] = e[v] PROVE u = v
    <3>1. CASE u \in DOMAIN d /\ v \in DOMAIN d
      BY <1>0, <2>3, <3>1 DEF Filled
    <3>2. CASE u = t \/ v = t
      BY <1>0, <2>1, <2>3, <3>2
    <3> QED
      BY <3>1, <3>2, Zenon
  <2>4. \A u \in DOMAIN e : e[u] \in 1 .. n + 1
    BY <1>0, <2>1
  <2> QED
    BY <1>0, <2>2, <2>3, <2>4 DEF Filled
<1>2. PICK q, r : q = Ordered(d) /\ r = Ordered(e)
  BY Zenon
<1>3. q \in Seq(DOMAIN d) /\ Len(q) = n /\ \A k \in 1 .. n : q[k] \in DOMAIN d /\ d[q[k]] = n + 1 - k
  BY <1>2, OrderedIs
<1>4. /\ r \in Seq(DOMAIN e) /\ Len(r) = n + 1
      /\ \A k \in 1 .. n + 1, u \in DOMAIN e : e[u] = (n + 1) + 1 - k => r[k] = u
  BY <1>1, <1>2, OrderedIs
<1>5. r[n + 1] = t
  BY <1>0, <1>4
<1>6. ASSUME NEW k \in 1 .. n PROVE r[k] = q[k]
  <2>1. q[k] \in DOMAIN e /\ e[q[k]] = (n + 1) + 1 - k /\ k \in 1 .. n + 1
    BY <1>0, <1>3
  <2> QED
    BY <1>4, <2>1, Zenon
<1>7. PICK a : a = Append(q, t)
  BY Zenon
<1>8. DOMAIN a = 1 .. n + 1 /\ a[n + 1] = t /\ \A k \in 1 .. n : a[k] = q[k]
  BY <1>3, <1>7, <1>0
<1>9. a \in Seq(DOMAIN e)
  <2>1. q \in Seq(DOMAIN e)
    BY <1>3
  <2> QED
    BY <1>7, <2>1
<1>10. \A k \in 1 .. n + 1 : k = n + 1 \/ k \in 1 .. n
  BY <1>0
<1>11. DOMAIN r = 1 .. n + 1 /\ \A k \in 1 .. n + 1 : r[k] = a[k]
  BY <1>4, <1>5, <1>6, <1>8, <1>10
<1>12. r = a
  BY <1>4, <1>8, <1>9, <1>11
<1> QED
  BY <1>2, <1>7, <1>12, Zenon

\* The first leaves, and the others stay where they are.
LEMMA OrderedTail ==
  ASSUME NEW d, NEW n, Filled(d, n), NEW t \in DOMAIN d, d[t] = n, NEW e, DOMAIN e = DOMAIN d \ {t},
         \A u \in DOMAIN e : e[u] = d[u]
  PROVE  Ordered(d) # <<>> /\ Head(Ordered(d)) = t /\ Ordered(e) = Tail(Ordered(d))
<1>0. n \in Nat \ {0} /\ n - 1 \in Nat
  BY DEF Filled
<1>1. Filled(e, n - 1)
  <2>1. \A u \in DOMAIN e : e[u] \in 1 .. n - 1
    BY <1>0 DEF Filled
  <2>2. ASSUME NEW k \in 1 .. n - 1 PROVE \E u \in DOMAIN e : e[u] = k
    <3>1. k \in 1 .. n /\ k # n
      BY <1>0
    <3>2. PICK u \in DOMAIN d : d[u] = k
      BY <3>1, Zenon DEF Filled
    <3> QED
      BY <3>1, <3>2, Zenon
  <2>3. \A u, v \in DOMAIN e : e[u] = e[v] => u = v
    BY Zenon DEF Filled
  <2> QED
    BY <1>0, <2>1, <2>2, <2>3, Zenon DEF Filled
<1>2. PICK q, r : q = Ordered(d) /\ r = Ordered(e)
  BY Zenon
<1>3. /\ q \in Seq(DOMAIN d) /\ Len(q) = n
      /\ \A k \in 1 .. n, u \in DOMAIN d : d[u] = n + 1 - k => q[k] = u
  BY <1>2, OrderedIs
<1>4. r \in Seq(DOMAIN e) /\ Len(r) = n - 1 /\ \A k \in 1 .. n - 1 : r[k] \in DOMAIN e /\ e[r[k]] = (n - 1) + 1 - k
  BY <1>1, <1>2, OrderedIs
<1>5. q # <<>> /\ q[1] = t /\ Head(q) = q[1]
  BY <1>0, <1>3
<1>6. ASSUME NEW k \in 1 .. n - 1 PROVE r[k] = q[k + 1]
  <2>1. r[k] \in DOMAIN d /\ d[r[k]] = n + 1 - (k + 1) /\ k + 1 \in 1 .. n
    BY <1>0, <1>4
  <2> QED
    BY <1>3, <2>1, Zenon
<1>7. PICK s : s = Tail(q)
  BY Zenon
<1>8. s \in Seq(DOMAIN d) /\ DOMAIN s = 1 .. n - 1 /\ \A k \in 1 .. n - 1 : s[k] = q[k + 1]
  <2>1. s \in Seq(DOMAIN d) /\ Len(s) = n - 1
    BY <1>3, <1>5, <1>7
  <2>2. DOMAIN s = 1 .. n - 1
    BY <1>0, <2>1
  <2>3. ASSUME NEW k \in 1 .. n - 1 PROVE s[k] = q[k + 1]
    BY <1>0, <1>3, <1>5, <1>7
  <2> QED
    BY <2>1, <2>2, <2>3, Zenon
<1>9. DOMAIN r = 1 .. n - 1 /\ \A k \in 1 .. n - 1 : r[k] = s[k]
  <2>1. DOMAIN r = 1 .. n - 1
    BY <1>0, <1>4
  <2>2. ASSUME NEW k \in 1 .. n - 1 PROVE r[k] = s[k]
    BY <1>6, <1>8, Zenon
  <2> QED
    BY <2>1, <2>2, Zenon
<1>10. r = s
  BY <1>4, <1>8, <1>9
<1> QED
  BY <1>2, <1>5, <1>7, <1>10, Zenon

\* The slots drawn are the ones from the front up to next.
LEMMA DistanceIs ==
  ASSUME LockIInv, NEW f \in Slots, FrontIs(f)
  PROVE  \E n \in Nat : Filled(Distance, n) /\ n = IF InLine = {} THEN 0 ELSE Behind(f)
<1>1. LockTypeOK /\ size \in Nat \ {0}
  BY SizeAssumption, Zenon DEF LockIInv
<1>2. DOMAIN Distance = InLine /\ \A t \in InLine : Distance[t] = Behind(pos[t]) /\ pos[t] \in Slots
  BY <1>1, Zenon DEF Distance, InLine, LockTypeOK
<1>3. CASE InLine = {}
  BY <1>2, <1>3 DEF Filled
<1>4. CASE InLine # {}
  <2>1. \A p \in Slots : p \in Window(f) <=> \E t \in InLine : pos[t] = p
    BY <1>4, Zenon DEF FrontIs
  <2>2. PICK n \in 1 .. size : n = Behind(f)
    BY <1>1, BehindIs, Zenon
  <2>3. ASSUME NEW t \in InLine PROVE Behind(pos[t]) \in 1 .. n
    <3>1. PICK p \in Slots : p = pos[t] /\ p \in Window(f)
      BY <1>2, <2>1, Zenon
    <3>2. Behind(p) \in 1 .. size /\ Behind(p) <= Behind(f)
      BY <1>1, <3>1, BehindIs, Zenon
    <3> QED
      BY <2>2, <3>1, <3>2
  <2>4. ASSUME NEW k \in 1 .. n PROVE \E t \in InLine : Behind(pos[t]) = k
    <3>1. k \in 1 .. size
      BY <1>1
    <3>2. PICK r \in Slots : Behind(r) = k
      BY <1>1, <3>1, BehindIs, Zenon
    <3>3. r \in Window(f)
      BY <1>1, <2>2, <3>2, BehindIs
    <3> QED
      BY <2>1, <3>2, <3>3, Zenon
  <2>5. \A t, u \in InLine : Behind(pos[t]) = Behind(pos[u]) => t = u
    BY <1>1, <1>2, BehindIs, Zenon DEF LockIInv
  <2>6. Filled(Distance, n)
    BY <1>2, <2>3, <2>4, <2>5 DEF Filled
  <2> QED
    BY <1>4, <2>2, <2>6
<1> QED
  BY <1>3, <1>4, Zenon

\* A step of the array lock is a step of a fair lock, or changes nothing there:
\* Bump joins, SeeSlot enters, SetNext leaves.
LEMMA FifoStep ==
  ASSUME SlotLeft, LockIInv, [LockNext]_lockVars
  PROVE  [Fifo!FifoNext]_(Fifo!fifoVars)
<1>0. LockTypeOK
  BY Zenon DEF LockIInv
<1>f. PICK f \in Slots : FrontIs(f)
  BY Zenon DEF LockIInv
<1>n. PICK n \in Nat : Filled(Distance, n) /\ n = IF InLine = {} THEN 0 ELSE Behind(f)
  BY <1>f, DistanceIs, Zenon
<1>d. DOMAIN Distance = InLine /\ \A t \in InLine : Distance[t] = Behind(pos[t]) /\ pos[t] \in Slots /\ t \in Threads
  BY <1>0, Zenon DEF Distance, InLine, LockTypeOK
<1>1. ASSUME InLine' = InLine, Inside' = Inside, UNCHANGED <<pos, next>> PROVE [Fifo!FifoNext]_(Fifo!fifoVars)
  BY <1>1, Zenon DEF Fifo!fifoVars, Line, Distance, Behind
<1>2. CASE UNCHANGED lockVars
  BY <1>1, <1>2, Zenon DEF lockVars, InLine, Inside
<1>3. ASSUME NEW t \in Threads, LockM(t) \/ UnlockM(t) \/ SetLockpos(t) \/ ReadLockpos(t) \/ ClearOwn(t)
      PROVE  [Fifo!FifoNext]_(Fifo!fifoVars)
  <2>1. InLine' = InLine /\ Inside' = Inside /\ UNCHANGED <<pos, next>>
    BY <1>0, <1>3 DEF LockTypeOK, LockM, UnlockM, SetLockpos, ReadLockpos, ClearOwn, Goto, InLine, Inside
  <2> QED
    BY <1>1, <2>1, Zenon
<1>4. ASSUME NEW t \in Threads, ReadNext(t) PROVE [Fifo!FifoNext]_(Fifo!fifoVars)
  <2>1. InLine' = InLine /\ Inside' = Inside /\ UNCHANGED next /\ \A u \in InLine : pos'[u] = pos[u]
    BY <1>0, <1>4, Zenon DEF LockTypeOK, ReadNext, Goto, InLine, Inside
  <2>2. Distance' = Distance
    BY <2>1, Zenon DEF Distance, Behind
  <2> QED
    BY <2>1, <2>2, Zenon DEF Fifo!fifoVars, Line
<1>5. ASSUME NEW t \in Threads, SeeSlot(t) PROVE [Fifo!FifoNext]_(Fifo!fifoVars)
  <2>1. InLine' = InLine /\ Inside' = Inside \cup {t} /\ UNCHANGED <<pos, next>> /\ t \in InLine /\ t \notin Inside
    BY <1>0, <1>5, Zenon DEF LockTypeOK, SeeSlot, Goto, InLine, Inside
  <2>2. pos[t] = f
    BY <1>0, <1>5, <1>f, <2>1, Zenon DEF LockTypeOK, SeeSlot, FrontIs
  <2>3. Inside = {}
    <3>1. ASSUME NEW u \in Inside PROVE FALSE
      <4>1. pos[u] = f /\ u \in InLine
        BY <1>f, Zenon DEF FrontIs, Inside, InLine
      <4> QED
        BY <2>1, <2>2, <4>1 DEF LockIInv
    <3> QED
      BY <3>1, Zenon
  <2>4. t \in DOMAIN Distance /\ Distance[t] = n
    BY <1>d, <1>n, <2>1, <2>2, Zenon
  <2>5. PICK e : e = [u \in DOMAIN Distance \ {t} |-> Distance[u]]
    BY Zenon
  <2>6. Line # <<>> /\ Head(Line) = t
    <3>1. DOMAIN e = DOMAIN Distance \ {t} /\ \A u \in DOMAIN e : e[u] = Distance[u]
      BY <2>5, Zenon
    <3> QED
      BY <1>n, <2>4, <3>1, OrderedTail, Zenon DEF Line
  <2>7. Line' = Line
    BY <2>1, Zenon DEF Line, Distance, Behind
  <2>8. Fifo!Enter(t)
    BY <2>1, <2>3, <2>6, <2>7, Zenon DEF Fifo!Enter
  <2> QED
    BY <2>8, Zenon DEF Fifo!FifoNext
<1>6. ASSUME NEW t \in Threads, SetNext(t) PROVE [Fifo!FifoNext]_(Fifo!fifoVars)
  <2>1. InLine' = InLine \ {t} /\ Inside' = Inside \ {t} /\ UNCHANGED <<pos, next>> /\ t \in InLine /\ t \in Inside
    BY <1>0, <1>6, Zenon DEF LockTypeOK, SetNext, Goto, InLine, Inside
  <2>2. pos[t] = f
    BY <1>f, <2>1, Zenon DEF FrontIs
  <2>3. Inside = {t}
    <3>1. ASSUME NEW u \in Inside PROVE u = t
      <4>1. pos[u] = f /\ u \in InLine
        BY <1>f, Zenon DEF FrontIs, Inside, InLine
      <4> QED
        BY <2>1, <2>2, <4>1 DEF LockIInv
    <3> QED
      BY <2>1, <3>1, Zenon
  <2>4. t \in DOMAIN Distance /\ Distance[t] = n
    BY <1>d, <1>n, <2>1, <2>2, Zenon
  <2>5. DOMAIN Distance' = DOMAIN Distance \ {t} /\ \A u \in DOMAIN Distance' : Distance'[u] = Distance[u]
    BY <2>1, Zenon DEF Distance, Behind
  <2>6. Ordered(Distance') = Tail(Ordered(Distance))
    BY <1>n, <2>4, <2>5, OrderedTail, Zenon
  <2>7. Line' = Tail(Line)
    BY <2>6, Zenon DEF Line, Ordered, Longest
  <2>8. Fifo!Leave(t)
    BY <2>1, <2>3, <2>7, Zenon DEF Fifo!Leave
  <2> QED
    BY <2>8, Zenon DEF Fifo!FifoNext
<1>7. ASSUME NEW t \in Threads, Bump(t) PROVE [Fifo!FifoNext]_(Fifo!fifoVars)
  <2>1. /\ InLine' = InLine \cup {t} /\ Inside' = Inside /\ UNCHANGED pos /\ t \notin InLine
        /\ pos[t] = next /\ next' = After(next)
    BY <1>0, <1>7 DEF LockTypeOK, LockIInv, Bump, Goto, InLine, Inside
  <2>2. size \in Nat \ {0} /\ next \in Slots /\ next' \in Slots
    BY <1>0, <2>1, AfterType, SizeAssumption, Zenon DEF LockTypeOK
  <2>3. ASSUME NEW u \in InLine PROVE pos[u] # next
    <3> SUFFICES ASSUME pos[u] = next PROVE FALSE
      BY Zenon
    <3>1. n = size
      <4>1. Behind(next) = size
        BY <2>2 DEF Behind, Slots
      <4>2. size \in 1 .. n /\ n = Behind(f)
        BY <1>d, <1>n, <4>1, Zenon DEF Filled
      <4>3. n \in 1 .. size
        BY <1>0, <4>2, BehindIs, Zenon
      <4> QED
        BY <2>2, <4>2, <4>3
    <3>2. ASSUME NEW p \in Slots PROVE \E v \in InLine : pos[v] = p
      <4>1. Behind(p) \in 1 .. n
        BY <1>0, <3>1, BehindIs, Zenon
      <4>2. PICK v \in InLine : Behind(pos[v]) = Behind(p)
        BY <1>d, <1>n, <4>1 DEF Filled
      <4>3. pos[v] \in Slots
        BY <1>d, Zenon
      <4> QED
        BY <1>0, <4>2, <4>3, BehindIs, Zenon
    <3>3. InLine \in SUBSET (Threads \ {t}) /\ pos \in [Threads -> Slots]
      BY <1>0, <2>1, Zenon DEF InLine, LockTypeOK
    <3> QED
      BY <3>2, <3>3, Zenon DEF SlotLeft
  <2>4. ASSUME NEW u \in InLine PROVE Behind(pos[u])' = Behind(pos[u]) + 1
    <3>1. pos[u] \in Slots /\ pos[u] # next /\ pos'[u] = pos[u]
      BY <1>d, <2>1, <2>3, Zenon
    <3> QED
      BY <2>1, <2>2, <3>1 DEF Behind, After, Slots
  <2>5. Behind(pos[t])' = 1
    BY <2>1, <2>2 DEF Behind, After, Slots
  <2>6. /\ DOMAIN Distance' = DOMAIN Distance \cup {t} /\ t \notin DOMAIN Distance
        /\ Distance'[t] = 1 /\ \A u \in DOMAIN Distance : Distance'[u] = Distance[u] + 1
    BY <1>d, <2>1, <2>4, <2>5, Zenon DEF Distance
  <2>7. Ordered(Distance') = Append(Ordered(Distance), t)
    BY <1>n, <2>6, OrderedAppend, Zenon
  <2>8. Line' = Append(Line, t)
    BY <2>7, Zenon DEF Line, Ordered, Longest
  <2>9. ASSUME NEW k \in DOMAIN Line PROVE Line[k] # t
    BY <1>d, <1>n, <2>1, OrderedIs DEF Line
  <2>10. Fifo!Join(t)
    BY <2>1, <2>8, <2>9, Zenon DEF Fifo!Join
  <2> QED
    BY <2>10, Zenon DEF Fifo!FifoNext
<1> QED
  BY <1>2, <1>3, <1>4, <1>5, <1>6, <1>7, Zenon DEF LockNext, Acquire, Release

LEMMA FifoInitially ==
  ASSUME LockInit
  PROVE  Fifo!FifoInit
<1>1. InLine = {} /\ Inside = {}
  BY Zenon DEF LockInit, InLine, Inside
<1>2. Filled(Distance, 0) /\ DOMAIN Distance = {}
  BY <1>1 DEF Distance, Filled
<1>3. Line = <<>>
  BY <1>2, OrderedIs DEF Line
<1> QED
  BY <1>1, <1>3, Zenon DEF Fifo!FifoInit

-----------------------------------------------------------------------------
\* The lock in the program

\* The threads of the frisbee programs use the array lock only through its
\* acquire and release: what the lock promises holds in the programs.
LEMMA ProgramUsesLock == Spec => LockSpec
<1>1. Init => LockInit
  BY Zenon DEF Init
<1>2. [Next]_vars => [LockNext]_lockVars
  <2> SUFFICES ASSUME [Next]_vars PROVE [LockNext]_lockVars
    BY Zenon
  <2>1. CASE UNCHANGED vars
    BY <2>1, Zenon DEF vars, locks
  <2>2. CASE Main
    BY <2>2, Zenon DEF Main, Create, AllCreated, Wait, Finish, locks
  <2>3. ASSUME NEW t \in Threads, Locking(t) PROVE [LockNext]_lockVars
    BY <2>3, Zenon DEF Locking, LockNext, lock_acquire, lock_release
  <2>4. ASSUME NEW t \in Threads, Peek(t) \/ Check(t) \/ Own(t) \/ PassToken(t) \/ CountPass(t)
        PROVE  [LockNext]_lockVars
    BY <2>4, Zenon DEF Peek, Check, Own, PassToken, CountPass, locks
  <2>5. ASSUME NEW t \in Threads, Unlocked(t) \/ ReadOwner(t) \/ ReadPasses(t) \/ WriteTurn(t) \/ ExitThread(t)
        PROVE  [LockNext]_lockVars
    BY <2>5, Zenon DEF Unlocked, ReadOwner, ReadPasses, WriteTurn, ExitThread, locks, others
  <2> QED
    BY <2>1, <2>2, <2>3, <2>4, <2>5, Zenon DEF Next, Play
<1> QED
  BY <1>1, <1>2, PTL DEF Spec, LockSpec

-----------------------------------------------------------------------------
\* The MCS lock

\* b waits for a, which has not granted it the lock.
Waits(b, a) == place[b] = "wait" /\ qspin[b] = 0 /\ prev[b] = a

\* Whoever a node points to waits for that node's thread; a releasing thread
\* has read such a pointer.
GrantIInv ==
  /\ qnext \in [Threads -> Threads \cup {NULL}] /\ succ \in [Threads -> Threads \cup {NULL}]
  /\ prev \in [Threads -> Threads \cup {NULL}] /\ tail \in Threads \cup {NULL}
  /\ qspin \in [Threads -> {0, 1}] /\ place \in [Threads -> M!Places]
  /\ \A t \in Threads :
       /\ place[t] \in {"swap", "link"} => qspin[t] = 0
       /\ place[t] = "link" => prev[t] \in Threads
       /\ place[t] # "out" /\ qnext[t] # NULL => Waits(qnext[t], t)
       /\ place[t] = "grant" => succ[t] \in Threads /\ Waits(succ[t], t)

LEMMA GrantInitially == Init => GrantIInv
  BY DEF Init, M!MCSInit, GrantIInv, M!Places

LEMMA GrantStep ==
  ASSUME GrantIInv, argv.prog = "mcs", [Next]_vars
  PROVE  GrantIInv' /\ argv' = argv
<1>0. NULL \notin Threads
  BY ProgramsAssumption, Zenon
<1>1. ASSUME UNCHANGED <<tail, qnext, qspin, prev, succ, place>> PROVE GrantIInv'
  BY <1>1, Zenon DEF GrantIInv, Waits
<1>2. ASSUME NEW t \in Threads, M!InitNode(t) PROVE GrantIInv'
  BY <1>0, <1>2 DEF M!InitNode, M!Goto, GrantIInv, Waits, M!Places
<1>3. ASSUME NEW t \in Threads, M!Swap(t) PROVE GrantIInv'
  BY <1>0, <1>3 DEF M!Swap, M!Goto, GrantIInv, Waits, M!Places
<1>4. ASSUME NEW t \in Threads, M!Link(t) PROVE GrantIInv'
  BY <1>0, <1>4 DEF M!Link, M!Goto, GrantIInv, Waits, M!Places
<1>5. ASSUME NEW t \in Threads, M!SeeSpin(t) PROVE GrantIInv'
  BY <1>0, <1>5 DEF M!SeeSpin, M!Goto, GrantIInv, Waits, M!Places
<1>6. ASSUME NEW t \in Threads, M!TestNext(t) \/ M!AwaitSuccessor(t) PROVE GrantIInv'
  BY <1>0, <1>6 DEF M!TestNext, M!AwaitSuccessor, M!Goto, GrantIInv, Waits, M!Places
<1>7. ASSUME NEW t \in Threads, M!LockSpin(t) \/ M!ReadTail(t) \/ M!EmptyTail(t) \/ M!UnlockSpin(t)
      PROVE  GrantIInv'
  BY <1>0, <1>7 DEF M!LockSpin, M!ReadTail, M!EmptyTail, M!UnlockSpin, M!Goto, GrantIInv, Waits, M!Places
<1>8. ASSUME NEW t \in Threads, M!Grant(t) PROVE GrantIInv'
  BY <1>0, <1>8 DEF M!Grant, M!Goto, GrantIInv, Waits, M!Places
<1>9. CASE UNCHANGED vars
  BY <1>1, <1>9, Zenon DEF vars, locks, mcs, mains
<1>10. CASE Main
  BY <1>1, <1>10, Zenon DEF Main, Create, AllCreated, Wait, Finish, locks, mcs
<1>11. ASSUME NEW t \in Threads, Locking(t) PROVE GrantIInv' /\ argv' = argv
  <2>1. argv' = argv
    BY <1>11, Zenon DEF Locking, mains
  <2>2. M!Acquire(t) \/ M!Release(t)
    BY <1>11, Zenon DEF Locking
  <2> QED
    BY <1>2, <1>3, <1>4, <1>5, <1>6, <1>7, <1>8, <2>1, <2>2, Zenon DEF M!Acquire, M!Release
<1>12. ASSUME NEW t \in Threads, Peek(t) \/ Check(t) \/ Own(t) \/ PassToken(t) \/ CountPass(t)
       PROVE  GrantIInv' /\ argv' = argv
  BY <1>1, <1>12, Zenon DEF Peek, Check, Own, PassToken, CountPass, locks, mcs, mains
<1>13. ASSUME NEW t \in Threads, Unlocked(t) \/ ExitThread(t) PROVE GrantIInv' /\ argv' = argv
  BY <1>1, <1>13, Zenon DEF Unlocked, ExitThread, locks, mcs, mains
<1>14. ASSUME NEW t \in Threads PROVE ~ReadOwner(t) /\ ~ReadPasses(t) /\ ~WriteTurn(t)
  BY Zenon DEF ReadOwner, ReadPasses, WriteTurn
<1> QED
  BY <1>9, <1>10, <1>11, <1>12, <1>13, <1>14, Zenon DEF Next, Play

-----------------------------------------------------------------------------
\* The game.  ProgramIInv is the invariant of the four programs.

\* The lock of frisbee.c: the word is set while a thread holds it.
SpinIInv ==
  /\ place \in [Threads -> {"out", "held"}]
  /\ \A t \in Threads : place[t] = "held" => word = 1
  /\ \A t, u \in Threads : place[t] = "held" /\ place[u] = "held" => t = u

\* The thread that has the MCS lock: from the end of acquire, or from the
\* store that grants it, up to the store that grants or frees it.
HasQueue(t) ==
  \/ place[t] \in {"held", "cas", "cas_read", "cas_write", "succ", "grant", "stuck"}
  \/ place[t] = "cas_done" /\ seen[t] # t
  \/ place[t] = "wait" /\ qspin[t] # 0

\* One thread has it, and nobody has if the queue is empty.
QueueIInv ==
  /\ GrantIInv /\ seen \in [Threads -> Threads \cup {NULL}]
  /\ \A t \in Threads : HasQueue(t) => tail # NULL
  /\ \A t, u \in Threads : HasQueue(t) /\ HasQueue(u) => t = u

\* The threads between the test of passes under the lock and its release.
Turn == {"own", "pass", "count"}

\* A turn in the programs that hold a lock for it.
TurnIInv ==
  /\ task \in [Threads -> {"none", "top", "lock", "leave", "unlock", "returning", "exited", "reaped"} \cup Turn]
  /\ \A t \in Threads :
       /\ task[t] \in Turn => Held(t) /\ passes <= maxpass
       /\ task[t] = "pass" => cur_owner = t
       /\ task[t] = "count" => cur_owner = NextOwner(t)

Writing == {"out", "wlock", "odd", "store"}
Written == {"even", "wunlock"}

\* A turn of frisbee_seq.c.  Only the player who has the token takes it away,
\* so that one who has read his own number still has it, and what he is about
\* to store is not out of date.
SeqIInv ==
  /\ task \in [Threads -> {"none", "top", "count", "pass", "returning", "exited", "reaped"}]
  /\ place \in [Threads -> S!Places] /\ ret \in [Threads -> Nat]
  /\ \A t \in Threads :
       /\ task[t] \notin {"top", "count", "pass"} => place[t] = "out"
       /\ task[t] \in {"count", "pass"} => place[t] \in Writing \cup Written
       /\ task[t] = "top" /\ place[t] # "out" /\ ret[t] = t => cur_owner = t
       /\ task[t] = "count" => cur_owner = t
       /\ task[t] = "count" /\ place[t] \in Writing => passes <= maxpass
       /\ task[t] = "pass" /\ place[t] \in Writing => cur_owner = t
       /\ task[t] = "count" /\ place[t] \in Writing \ {"out"} => ret[t] = passes + 1
       /\ task[t] = "pass" /\ place[t] \in Writing \ {"out"} => ret[t] = NextOwner(t)

Gone == {t \in Threads : task[t] = "reaped"}

\* main, and what is the same in all programs
GameIInv ==
  /\ argv \in Programs /\ passes \in 1 .. maxpass + 1 /\ cur_owner \in 0 .. numthreads - 1
  /\ i \in 0 .. numthreads /\ main \in {"create", "wait", "done"}
  /\ \A t \in Threads :
       /\ task[t] # "none" => t < numthreads
       /\ main = "create" /\ i <= t => task[t] = "none"
       /\ task[t] \in {"leave", "returning", "exited", "reaped"} => passes > maxpass
  /\ ~argv.cloneFails /\ (main = "create" => i > 0) => task[0] # "none"
  /\ main = "create" => Gone = {}
  /\ ~argv.cloneFails /\ main = "wait" /\ i > 0 => Gone # {}
  /\ main = "wait" => Children = {} \/ Cardinality(Gone) = i

ProgramIInv ==
  /\ GameIInv
  /\ argv.prog = "spin" => SpinIInv
  /\ argv.prog = "mcs" => QueueIInv
  /\ argv.prog # "seq" => TurnIInv
  /\ argv.prog = "seq" => SeqIInv

-----------------------------------------------------------------------------
\* What the steps of the programs leave alone

\* The program and its arguments stay.
LEMMA ArgvStays == [Next]_vars => argv' = argv
  BY Zenon
     DEF Next, Main, Create, AllCreated, Wait, Finish, Play, Locking, Peek, Check, Own, PassToken, CountPass,
         Unlocked, ReadOwner, ReadPasses, WriteTurn, ExitThread, vars, mains

\* Outside of the lock's own code a program with a lock leaves the lock alone.
LEMMA OnlyLocking ==
  ASSUME argv.prog # "seq", [Next]_vars
  PROVE  UNCHANGED locks \/ \E t \in Threads : Locking(t)
<1>1. CASE Main \/ UNCHANGED vars
  BY <1>1, Zenon DEF Main, Create, AllCreated, Wait, Finish, vars
<1>2. ASSUME NEW t \in Threads, Play(t) PROVE UNCHANGED locks \/ Locking(t)
  BY <1>2, Zenon
     DEF Play, Peek, Check, Own, PassToken, CountPass, Unlocked, ReadOwner, ReadPasses, WriteTurn, ExitThread
<1> QED
  BY <1>1, <1>2, Zenon DEF Next

\* A step of the lock moves one thread in the code of the lock.
LEMMA LockingMoves ==
  ASSUME NEW t \in Threads, Locking(t)
  PROVE  /\ task[t] \in {"lock", "unlock", "leave"} /\ UNCHANGED <<game, mains, task>>
         /\ \A u \in Threads \ {t} : Held(u)' <=> Held(u)
<1>1. task[t] \in {"lock", "unlock", "leave"} /\ UNCHANGED <<game, mains, task>>
  BY Zenon DEF Locking
<1>2. CASE argv.prog = "array"
  <2>1. Acquire(t) \/ Release(t)
    BY <1>2, Zenon DEF Locking
  <2>2. \E s \in {"out", "draw", "bump", "unlock_m", "wait", "setpos", "held", "clear", "pass"} : at' = [at EXCEPT ![t] = s]
    BY <2>1, Zenon
       DEF Acquire, Release, LockM, ReadNext, Bump, UnlockM, SeeSlot, SetLockpos, ReadLockpos, ClearOwn,
           SetNext, Goto
  <2> QED
    BY <1>1, <1>2, <2>2 DEF Held, mains
<1>3. CASE argv.prog # "array"
  <2>1. \E s : place' = [place EXCEPT ![t] = s]
    <3>1. CASE lock_acquire(t) \/ lock_release(t)
      BY <3>1, Zenon DEF lock_acquire, lock_release
    <3>2. CASE M!Acquire(t) \/ M!Release(t)
      BY <3>2, Zenon
         DEF M!Acquire, M!Release, M!InitNode, M!Swap, M!Link, M!SeeSpin, M!TestNext, M!LockSpin, M!ReadTail,
             M!EmptyTail, M!UnlockSpin, M!AwaitSuccessor, M!Grant, M!Goto
    <3> QED
      BY <1>3, <3>1, <3>2, Zenon DEF Locking
  <2> QED
    BY <1>1, <1>3, <2>1 DEF Held, mains
<1> QED
  BY <1>1, <1>2, <1>3, Zenon

-----------------------------------------------------------------------------
\* Exclusion

LEMMA SpinStep ==
  ASSUME SpinIInv, argv.prog = "spin", [Next]_vars
  PROVE  SpinIInv'
<1>1. CASE UNCHANGED locks
  BY <1>1, Zenon DEF SpinIInv, locks
<1>2. ASSUME NEW t \in Threads, Locking(t) PROVE SpinIInv'
  <2>1. lock_acquire(t) \/ lock_release(t)
    BY <1>2, Zenon DEF Locking
  <2>2. CASE lock_acquire(t)
    BY <2>2 DEF lock_acquire, SpinIInv
  <2>3. CASE lock_release(t)
    BY <2>3, Zenon DEF lock_release, SpinIInv
  <2> QED
    BY <2>1, <2>2, <2>3, Zenon
<1> QED
  BY <1>1, <1>2, OnlyLocking, Zenon

\* The queue is emptied only by the thread that has the lock, and granted by
\* it; so there is one, for any number of threads.
LEMMA QueueStep ==
  ASSUME QueueIInv, argv.prog = "mcs", [Next]_vars
  PROVE  QueueIInv'
<1>0. NULL \notin Threads /\ GrantIInv /\ GrantIInv'
  BY GrantStep, ProgramsAssumption, Zenon DEF QueueIInv
<1>1. CASE UNCHANGED locks
  BY <1>0, <1>1, SMTT(30) DEF QueueIInv, HasQueue, locks, mcs
<1>2. ASSUME NEW t \in Threads, M!InitNode(t) PROVE QueueIInv'
  BY <1>0, <1>2, SMTT(30) DEF M!InitNode, M!Goto, QueueIInv, HasQueue, GrantIInv
<1>3. ASSUME NEW t \in Threads, M!Swap(t) PROVE QueueIInv'
  BY <1>0, <1>3, SMTT(30) DEF M!Swap, M!Goto, QueueIInv, HasQueue, GrantIInv
<1>4. ASSUME NEW t \in Threads, M!Link(t) PROVE QueueIInv'
  BY <1>0, <1>4, SMTT(30) DEF M!Link, M!Goto, QueueIInv, HasQueue, GrantIInv
<1>5. ASSUME NEW t \in Threads, M!SeeSpin(t) PROVE QueueIInv'
  BY <1>0, <1>5, SMTT(30) DEF M!SeeSpin, M!Goto, QueueIInv, HasQueue, GrantIInv
<1>6. ASSUME NEW t \in Threads, M!TestNext(t) \/ M!AwaitSuccessor(t) PROVE QueueIInv'
  BY <1>0, <1>6, SMTT(30) DEF M!TestNext, M!AwaitSuccessor, M!Goto, QueueIInv, HasQueue, GrantIInv
<1>7. ASSUME NEW t \in Threads, M!LockSpin(t) \/ M!ReadTail(t) PROVE QueueIInv'
  BY <1>0, <1>7, SMTT(30) DEF M!LockSpin, M!ReadTail, M!Goto, QueueIInv, HasQueue, GrantIInv
<1>8. ASSUME NEW t \in Threads, M!EmptyTail(t) PROVE QueueIInv'
  BY <1>0, <1>8, SMTT(30) DEF M!EmptyTail, M!Goto, QueueIInv, HasQueue, GrantIInv
<1>9. ASSUME NEW t \in Threads, M!UnlockSpin(t) PROVE QueueIInv'
  BY <1>0, <1>9, SMTT(30) DEF M!UnlockSpin, M!Goto, QueueIInv, HasQueue, GrantIInv
<1>10. ASSUME NEW t \in Threads, M!Grant(t) PROVE QueueIInv'
  BY <1>0, <1>10 DEF M!Grant, M!Goto, QueueIInv, HasQueue, GrantIInv, Waits
<1>11. ASSUME NEW t \in Threads, Locking(t) PROVE QueueIInv'
  <2>1. M!Acquire(t) \/ M!Release(t)
    BY <1>11, Zenon DEF Locking
  <2> QED
    BY <1>2, <1>3, <1>4, <1>5, <1>6, <1>7, <1>8, <1>9, <1>10, <2>1, Zenon DEF M!Acquire, M!Release
<1> QED
  BY <1>1, <1>11, OnlyLocking, Zenon

\* In every program with a lock one thread at most has it.
LEMMA HeldByOne ==
  ASSUME LockIInv, ProgramIInv, argv.prog # "seq", NEW t \in Threads, NEW u \in Threads, Held(t), Held(u)
  PROVE  t = u
<1>1. CASE argv.prog = "array"
  BY <1>1 DEF LockIInv, FrontIs, Inside, InLine, Held
<1>2. CASE argv.prog = "spin"
  BY <1>2, Zenon DEF ProgramIInv, SpinIInv, Held
<1>3. CASE argv.prog = "mcs"
  BY <1>3, Zenon DEF ProgramIInv, QueueIInv, HasQueue, Held
<1> QED
  BY <1>1, <1>2, <1>3, ProgramsAssumption, Zenon DEF ProgramIInv, GameIInv

-----------------------------------------------------------------------------
\* Turns

\* main moves a thread only when it makes or collects it.
LEMMA MainMoves ==
  ASSUME GameIInv, DOMAIN task = Threads, Main
  PROVE  /\ UNCHANGED <<game, argv, locks>>
         /\ \A t \in Threads : task'[t] # task[t] => <<task[t], task'[t]>> \in {<<"none", "top">>, <<"exited", "reaped">>}
         /\ task' = task \/ \E t \in Threads, s \in {"top", "reaped"} : task' = [task EXCEPT ![t] = s]
<1>0. argv \in Programs /\ numthreads \in 1 .. size /\ size \in Nat
  BY ProgramsAssumption, SizeAssumption, Zenon DEF GameIInv, numthreads
<1>1. CASE Create
  <2>1. i \in Threads /\ task[i] = "none"
    BY <1>0, <1>1, ProgramsAssumption DEF Create, GameIInv
  <2> QED
    BY <1>1, <2>1, Zenon DEF Create
<1>2. CASE AllCreated \/ Finish
  BY <1>2, Zenon DEF AllCreated, Finish
<1>3. CASE Wait
  BY <1>3, Zenon DEF Wait, Children
<1> QED
  BY <1>1, <1>2, <1>3, Zenon DEF Main

\* A turn under a lock.
LEMMA TurnStep ==
  ASSUME LockIInv, ProgramIInv, argv.prog # "seq", [Next]_vars
  PROVE  TurnIInv'
<1>0. /\ TurnIInv /\ GameIInv /\ argv' = argv /\ passes \in Nat /\ maxpass \in Nat /\ cur_owner \in Nat
      /\ (\A t \in Threads : NextOwner(t)' = NextOwner(t)) /\ maxpass' = maxpass /\ DOMAIN task = Threads
  BY ArgvStays, ProgramsAssumption DEF ProgramIInv, GameIInv, TurnIInv, NextOwner, numthreads, maxpass
<1>1. CASE UNCHANGED vars
  BY <1>0, <1>1, Zenon DEF TurnIInv, Turn, vars, game, locks, Held, lockVars
<1>2. CASE Main
  <2>1. /\ UNCHANGED <<passes, cur_owner>> /\ \A t \in Threads : Held(t)' <=> Held(t)
    BY <1>0, <1>2, MainMoves, Zenon DEF game, locks, lockVars, Held
  <2>2. \A t \in Threads : task'[t] # task[t] => task'[t] \in {"top", "reaped"}
    BY <1>0, <1>2, MainMoves, Zenon
  <2>3. task' = task \/ \E t \in Threads, s \in {"top", "reaped"} : task' = [task EXCEPT ![t] = s]
    BY <1>0, <1>2, MainMoves, Zenon
  <2> QED
    BY <1>0, <2>1, <2>2, <2>3, Zenon DEF TurnIInv, Turn
<1>3. ASSUME NEW t \in Threads, Locking(t) PROVE TurnIInv'
  <2>1. task[t] \notin Turn /\ UNCHANGED <<passes, cur_owner, task>> /\ \A u \in Threads \ {t} : Held(u)' <=> Held(u)
    BY <1>3, LockingMoves, Zenon DEF game, Turn
  <2> QED
    BY <1>0, <2>1, Zenon DEF TurnIInv, Turn
<1>4. ASSUME NEW t \in Threads, Peek(t) \/ Own(t) \/ Unlocked(t) \/ ExitThread(t) PROVE TurnIInv'
  <2>1. /\ UNCHANGED <<passes, cur_owner>> /\ \A u \in Threads : Held(u)' <=> Held(u)
    BY <1>0, <1>4, Zenon DEF Peek, Own, Unlocked, ExitThread, game, locks, lockVars, Held
  <2>2. CASE Own(t)
    BY <1>0, <2>1, <2>2, Zenon DEF Own, Step, TurnIInv, Turn
  <2>3. CASE Peek(t) \/ Unlocked(t) \/ ExitThread(t)
    BY <1>0, <2>1, <2>3, Zenon DEF Peek, Unlocked, ExitThread, Step, TurnIInv, Turn
  <2> QED
    BY <1>4, <2>2, <2>3, Zenon
<1>5. ASSUME NEW t \in Threads, Check(t) PROVE TurnIInv'
  <2>1. /\ UNCHANGED <<passes, cur_owner>> /\ \A u \in Threads : Held(u)' <=> Held(u)
    BY <1>0, <1>5, Zenon DEF Check, game, locks, lockVars, Held
  <2> QED
    BY <1>0, <1>5, <2>1 DEF Check, Step, TurnIInv, Turn
<1>6. ASSUME NEW t \in Threads, PassToken(t) \/ CountPass(t) PROVE TurnIInv'
  <2>1. \A u \in Threads : Held(u)' <=> Held(u)
    BY <1>0, <1>6, Zenon DEF PassToken, CountPass, locks, lockVars, Held
  <2>2. task[t] \in Turn
    BY <1>6, Zenon DEF PassToken, CountPass, Step, Turn
  <2>3. \A u \in Threads : task[u] \in Turn => u = t
    BY <1>0, <2>2, HeldByOne, Zenon DEF TurnIInv
  <2>4. CASE PassToken(t)
    BY <1>0, <2>1, <2>3, <2>4, Zenon DEF PassToken, Step, TurnIInv, Turn
  <2>5. CASE CountPass(t)
    BY <1>0, <2>1, <2>3, <2>5, Zenon DEF CountPass, Step, TurnIInv, Turn
  <2> QED
    BY <1>6, <2>4, <2>5, Zenon
<1>7. ASSUME NEW t \in Threads PROVE ~ReadOwner(t) /\ ~ReadPasses(t) /\ ~WriteTurn(t)
  BY Zenon DEF ReadOwner, ReadPasses, WriteTurn
<1> QED
  BY <1>1, <1>2, <1>3, <1>4, <1>5, <1>6, <1>7, Zenon DEF Next, Play

\* A turn of frisbee_seq.c.
LEMMA SeqStep ==
  ASSUME ProgramIInv, argv.prog = "seq", [Next]_vars
  PROVE  SeqIInv'
<1>0. SeqIInv /\ GameIInv /\ argv' = argv /\ cur_owner \in Nat /\ passes \in Nat /\ maxpass \in Nat /\ maxpass' = maxpass
      /\ DOMAIN task = Threads /\ \A t \in Threads : NextOwner(t)' = NextOwner(t) /\ NextOwner(t) \in Nat
  <2>1. SeqIInv /\ GameIInv /\ argv \in Programs /\ argv' = argv
    BY ArgvStays, Zenon DEF ProgramIInv, GameIInv
  <2>2. numthreads \in Nat \ {0} /\ numthreads' = numthreads /\ maxpass \in Nat /\ maxpass' = maxpass
    BY <2>1, ProgramsAssumption, SizeAssumption DEF numthreads, maxpass
  <2>3. \A t \in Threads : NextOwner(t)' = NextOwner(t) /\ NextOwner(t) \in Nat
    BY <2>2, ProgramsAssumption, SizeAssumption DEF NextOwner
  <2>4. cur_owner \in Nat /\ passes \in Nat
    BY <2>1, <2>2 DEF GameIInv
  <2> QED
    BY <2>1, <2>2, <2>3, <2>4, Zenon DEF SeqIInv
<1>1. CASE UNCHANGED vars
  BY <1>0, <1>1, Zenon DEF SeqIInv, Writing, Written, vars, game, locks, seqs
<1>2. CASE Main
  <2>1. UNCHANGED <<passes, cur_owner, place, ret>>
    BY <1>0, <1>2, MainMoves, Zenon DEF game, locks, seqs
  <2>2. \A t \in Threads : task'[t] # task[t] => <<task[t], task'[t]>> \in {<<"none", "top">>, <<"exited", "reaped">>}
    BY <1>0, <1>2, MainMoves, Zenon
  <2>3. task' = task \/ \E t \in Threads, s \in {"top", "reaped"} : task' = [task EXCEPT ![t] = s]
    BY <1>0, <1>2, MainMoves, Zenon
  <2> QED
    BY <1>0, <2>1, <2>2, <2>3 DEF SeqIInv, Writing, Written
<1>3. ASSUME NEW t \in Threads, ReadOwner(t) PROVE SeqIInv'
  BY <1>0, <1>3
     DEF ReadOwner, S!ReadMem, S!ReadSeqi, S!ReadSeqf, S!RereadMem, S!Goto, S!Places, game, SeqIInv, Writing,
         Written
<1>4. ASSUME NEW t \in Threads, ReadPasses(t) PROVE SeqIInv'
  BY <1>0, <1>4 DEF ReadPasses, S!ReadReturns, S!Goto, S!Places, Step, game, SeqIInv, Writing, Written
<1>5. ASSUME NEW t \in Threads, WriteTurn(t) PROVE SeqIInv'
  <2>0. task[t] \in {"count", "pass"}
    BY <1>5, Zenon DEF WriteTurn
  <2>1. CASE S!WriteCalled(t, IF task[t] = "count" THEN passes + 1 ELSE NextOwner(t)) /\ UNCHANGED <<game, task>>
    BY <1>0, <2>0, <2>1, SMTT(30) DEF S!WriteCalled, S!Goto, S!Places, game, SeqIInv, Writing, Written
  <2>4. CASE (S!LockWriter(t) \/ S!MakeOdd(t) \/ S!MakeEven(t)) /\ UNCHANGED <<game, task>>
    BY <1>0, <2>0, <2>4, SMTT(30)
       DEF S!LockWriter, S!MakeOdd, S!MakeEven, S!Goto, S!Places, game, SeqIInv, Writing, Written
  <2>2. CASE /\ S!Store(t) /\ UNCHANGED task
             /\ passes' = IF task[t] = "count" THEN ret[t] ELSE passes
             /\ cur_owner' = IF task[t] = "pass" THEN ret[t] ELSE cur_owner
    <3>1. CASE task[t] = "count"
      BY <1>0, <2>2, <3>1, SMTT(30) DEF S!Store, S!Goto, S!Places, SeqIInv, Writing, Written
    <3>2. CASE task[t] = "pass"
      BY <1>0, <2>2, <3>2, SMTT(30) DEF S!Store, S!Goto, S!Places, SeqIInv, Writing, Written
    <3> QED
      BY <2>0, <3>1, <3>2, Zenon
  <2>3. CASE S!UnlockWriter(t) /\ (Step(t, "count", "pass") \/ Step(t, "pass", "top")) /\ UNCHANGED game
    BY <1>0, <2>3, SMTT(30) DEF S!UnlockWriter, S!Goto, S!Places, Step, game, SeqIInv, Writing, Written
  <2> QED
    BY <1>5, <2>1, <2>2, <2>3, <2>4, Zenon DEF WriteTurn
<1>6. ASSUME NEW t \in Threads, ExitThread(t) PROVE SeqIInv'
  BY <1>0, <1>6, ZenonT(30) DEF ExitThread, Step, game, locks, seqs, SeqIInv, Writing, Written
<1>7. ASSUME NEW t \in Threads
      PROVE  ~Locking(t) /\ ~Peek(t) /\ ~Check(t) /\ ~Own(t) /\ ~PassToken(t) /\ ~CountPass(t) /\ ~Unlocked(t)
  BY <1>0, Zenon DEF Locking, Peek, Check, Own, PassToken, CountPass, Unlocked, Step, SeqIInv
<1> QED
  BY <1>1, <1>2, <1>3, <1>4, <1>5, <1>6, <1>7, Zenon DEF Next, Play

\* A thread moves by itself only between its creation and its collection.
LEMMA PlayMoves ==
  ASSUME DOMAIN task = Threads, NEW t \in Threads, Play(t)
  PROVE  /\ UNCHANGED mains /\ task[t] \notin {"none", "reaped"}
         /\ \A u \in Threads \ {t} : task'[u] = task[u]
         /\ task'[t] \notin {"none", "reaped"}
<1>1. CASE Locking(t) \/ ReadOwner(t)
  BY <1>1, Zenon DEF Locking, ReadOwner
<1>2. CASE Peek(t) \/ Check(t) \/ Own(t) \/ PassToken(t) \/ CountPass(t)
  BY <1>2, Zenon DEF Peek, Check, Own, PassToken, CountPass, Step
<1>3. CASE Unlocked(t) \/ ReadPasses(t) \/ ExitThread(t)
  BY <1>3, Zenon DEF Unlocked, ReadPasses, ExitThread, Step
<1>4. CASE WriteTurn(t)
  BY <1>4, Zenon DEF WriteTurn, Step
<1> QED
  BY <1>1, <1>2, <1>3, <1>4, Zenon DEF Play

\* passes and cur_owner stay within their ranges, and whoever leaves the game
\* has seen it over.
LEMMA PlayCounts ==
  ASSUME ProgramIInv, DOMAIN task = Threads, NEW t \in Threads, Play(t)
  PROVE  /\ passes' \in 1 .. maxpass + 1 /\ passes' >= passes /\ cur_owner' \in 0 .. numthreads - 1
         /\ task'[t] \in {"leave", "returning", "exited"} => passes > maxpass
<1>0. /\ GameIInv /\ passes \in 1 .. maxpass + 1 /\ maxpass \in Nat /\ numthreads \in Nat \ {0}
      /\ cur_owner \in 0 .. numthreads - 1 /\ (task[t] \in {"leave", "returning", "exited"} => passes > maxpass)
      /\ t \in 0 .. numthreads - 1
  <2>1. argv \in Programs /\ GameIInv
    BY Zenon DEF ProgramIInv, GameIInv
  <2>2. maxpass \in Nat /\ numthreads \in Nat \ {0} /\ t \in Nat
    BY <2>1, ProgramsAssumption, SizeAssumption DEF numthreads, maxpass
  <2>3. task[t] # "none"
    BY PlayMoves, Zenon
  <2> QED
    BY <2>1, <2>2, <2>3 DEF GameIInv
<1>1. \A u \in 0 .. numthreads - 1 : NextOwner(u) \in 0 .. numthreads - 1
  BY <1>0 DEF NextOwner
<1>2. CASE Locking(t) \/ ReadOwner(t)
  BY <1>0, <1>2 DEF Locking, ReadOwner, game
<1>3. CASE Peek(t) \/ Check(t) \/ Own(t) \/ Unlocked(t) \/ ExitThread(t)
  BY <1>0, <1>3 DEF Peek, Check, Own, Unlocked, ExitThread, Step, game
<1>4. CASE PassToken(t)
  BY <1>0, <1>1, <1>4 DEF PassToken, Step
<1>5. CASE CountPass(t)
  <2>1. passes <= maxpass
    BY <1>5, Zenon DEF CountPass, Step, ProgramIInv, TurnIInv, Turn
  <2> QED
    BY <1>0, <1>5, <2>1 DEF CountPass, Step
<1>6. CASE ReadPasses(t)
  BY <1>0, <1>6 DEF ReadPasses, Step, game
<1>7. CASE WriteTurn(t)
  <2>1. argv.prog = "seq" /\ task[t] \in {"count", "pass"} /\ SeqIInv
    BY <1>7, Zenon DEF WriteTurn, ProgramIInv
  <2>2. CASE UNCHANGED game
    BY <1>0, <1>7, <2>1, <2>2 DEF WriteTurn, Step, game
  <2>3. CASE S!Store(t)
    <3>1. place[t] = "store"
      BY <2>3, Zenon DEF S!Store, S!Goto
    <3>2. task[t] = "count" => passes <= maxpass
      BY <2>1, <3>1, Zenon DEF SeqIInv, Writing
    <3>3. task'[t] = task[t] /\ passes' = (IF task[t] = "count" THEN passes + 1 ELSE passes)
          /\ cur_owner' = (IF task[t] = "pass" THEN NextOwner(t) ELSE cur_owner)
      BY <1>7, <2>1, <2>3, <3>1, Zenon
         DEF SeqIInv, Writing, WriteTurn, S!WriteCalled, S!LockWriter, S!MakeOdd, S!MakeEven, S!UnlockWriter, S!Goto
    <3> QED
      BY <1>0, <1>1, <2>1, <3>2, <3>3
  <2> QED
    BY <1>7, <2>2, <2>3, Zenon DEF WriteTurn
<1> QED
  BY <1>2, <1>3, <1>4, <1>5, <1>6, <1>7, Zenon DEF Play

\* main counts the threads it has collected.
LEMMA MainCounts ==
  ASSUME Counting, GameIInv, DOMAIN task = Threads, Main
  PROVE  GameIInv'
<1>0. /\ argv \in Programs /\ argv' = argv /\ numthreads \in 1 .. size /\ size \in Nat
      /\ numthreads' = numthreads /\ maxpass' = maxpass /\ UNCHANGED <<passes, cur_owner>>
      /\ Threads = 0 .. size - 1 /\ i \in 0 .. numthreads
  BY MainMoves, ProgramsAssumption, SizeAssumption, Zenon DEF GameIInv, numthreads, maxpass, game
<1>1. \A t \in Threads : task'[t] # task[t] => <<task[t], task'[t]>> \in {<<"none", "top">>, <<"exited", "reaped">>}
  BY MainMoves, Zenon
<1>2. CASE Create
  <2>1. i < numthreads /\ i' = i + 1 /\ main = "create" /\ main' = "create" /\ i \in Threads /\ task[i] = "none"
    BY <1>0, <1>2 DEF Create, GameIInv
  <2>2. task' = [task EXCEPT ![i] = "top"] \/ (argv.cloneFails /\ task' = task)
    BY <1>2, Zenon DEF Create
  <2>3. Gone' = {}
    <3>1. \A t \in Threads : task[t] # "reaped"
      BY <2>1, Zenon DEF Gone, GameIInv
    <3>2. \A t \in Threads : task'[t] # "reaped"
      BY <2>2, <3>1, Zenon
    <3> QED
      BY <3>2, Zenon DEF Gone
  <2> QED
    BY <1>0, <2>1, <2>2, <2>3 DEF GameIInv
<1>3. CASE AllCreated
  <2>1. main = "create" /\ main' = "wait" /\ i = numthreads /\ i' = 0 /\ task' = task
    BY <1>3, Zenon DEF AllCreated
  <2>2. Gone' = {} /\ Cardinality(Gone') = 0
    BY <2>1, Zenon DEF Counting, Gone, GameIInv
  <2> QED
    BY <1>0, <2>1, <2>2 DEF GameIInv
<1>4. CASE Wait
  <2>1. main = "wait" /\ main' = "wait" /\ i < numthreads /\ i' = i + 1
    BY <1>4, Zenon DEF Wait
  <2>2. ASSUME NEW t \in Children, task[t] = "exited", task' = [task EXCEPT ![t] = "reaped"] PROVE GameIInv'
    <3>1. t \in Threads /\ t \notin Gone /\ Gone' = Gone \cup {t}
      BY <2>2, Zenon DEF Children, Gone
    <3>2. Gone \in SUBSET Threads /\ Cardinality(Gone) = i
      BY <2>1, <2>2, Zenon DEF Gone, GameIInv
    <3>3. Cardinality(Gone') = i + 1
      BY <3>1, <3>2, Zenon DEF Counting
    <3>4. \A u \in Threads : task'[u] = IF u = t THEN "reaped" ELSE task[u]
      BY <2>2, Zenon
    <3> QED
      BY <1>0, <2>1, <2>2, <3>1, <3>3, <3>4 DEF GameIInv
  <2>3. CASE Children = {} /\ task' = task
    <3>1. Children' = {} /\ Gone' = Gone
      BY <2>3, Zenon DEF Children, Gone
    <3>2. ~argv.cloneFails => Gone # {}
      <4>1. 0 \in Threads
        BY <1>0
      <4> QED
        BY <2>1, <2>3, <4>1, Zenon DEF GameIInv, Children, Gone
    <3> QED
      BY <1>0, <2>1, <2>3, <3>1, <3>2 DEF GameIInv
  <2> QED
    BY <1>4, <2>2, <2>3, Zenon DEF Wait
<1>5. CASE Finish
  <2>1. main = "wait" /\ main' = "done" /\ i' = i /\ task' = task
    BY <1>5, Zenon DEF Finish
  <2>2. Gone' = Gone
    BY <2>1, Zenon DEF Gone
  <2> QED
    BY <1>0, <2>1, <2>2, Zenon DEF GameIInv
<1> QED
  BY <1>2, <1>3, <1>4, <1>5, Zenon DEF Main

LEMMA GameStep ==
  ASSUME Counting, ProgramIInv, DOMAIN task = Threads, [Next]_vars
  PROVE  GameIInv'
<1>0. GameIInv /\ maxpass' = maxpass /\ numthreads' = numthreads /\ argv' = argv
  BY ArgvStays, Zenon DEF ProgramIInv, maxpass, numthreads
<1>1. CASE UNCHANGED vars
  <2>1. UNCHANGED <<argv, passes, cur_owner, i, main, task>>
    BY <1>1, Zenon DEF vars, game, mains
  <2>2. Gone' = Gone /\ Children' = Children
    BY <2>1, Zenon DEF Gone, Children
  <2> QED
    BY <1>0, <2>1, <2>2, Zenon DEF GameIInv
<1>2. CASE Main
  BY <1>0, <1>2, MainCounts, Zenon
<1>3. ASSUME NEW t \in Threads, Play(t) PROVE GameIInv'
  <2>1. /\ UNCHANGED <<argv, main, i>> /\ task[t] \notin {"none", "reaped"} /\ task'[t] \notin {"none", "reaped"}
        /\ \A u \in Threads \ {t} : task'[u] = task[u]
    BY <1>3, PlayMoves, Zenon DEF mains
  <2>2. Gone' = Gone /\ Children' = Children
    BY <2>1, Zenon DEF Gone, Children
  <2>3. /\ passes' \in 1 .. maxpass + 1 /\ passes' >= passes /\ cur_owner' \in 0 .. numthreads - 1
        /\ task'[t] \in {"leave", "returning", "exited"} => passes > maxpass
    BY <1>3, PlayCounts, Zenon
  <2>4. maxpass \in Nat /\ passes \in Nat /\ passes' \in Nat
    BY <1>0, <2>3, ProgramsAssumption DEF GameIInv, maxpass
  <2>5. ASSUME NEW u \in Threads, task'[u] \in {"leave", "returning", "exited", "reaped"} PROVE passes' > maxpass'
    <3>1. passes > maxpass
      BY <1>0, <2>1, <2>3, <2>5, Zenon DEF GameIInv
    <3> QED
      BY <1>0, <2>3, <2>4, <3>1
  <2>6. \A u \in Threads : task'[u] = "none" <=> task[u] = "none"
    BY <2>1, Zenon
  <2>7. ~argv.cloneFails /\ (main = "create" => i > 0) => task'[0] # "none"
    <3>1. 0 \in Threads
      BY ProgramsAssumption, SizeAssumption
    <3> QED
      BY <1>0, <2>6, <3>1, Zenon DEF GameIInv
  <2> QED
    BY <1>0, <2>1, <2>2, <2>3, <2>5, <2>6, <2>7, Zenon DEF GameIInv
<1> QED
  BY <1>1, <1>2, <1>3, Zenon DEF Next

LEMMA ProgramInitially == Init => ProgramIInv
<1> SUFFICES ASSUME Init PROVE ProgramIInv
  BY Zenon
<1>0. argv \in Programs /\ maxpass \in Nat /\ numthreads \in 1 .. size /\ size \in Nat /\ Threads = 0 .. size - 1
  BY ProgramsAssumption, SizeAssumption, Zenon DEF Init, maxpass, numthreads
<1>1. task = [t \in Threads |-> "none"] /\ passes = 1 /\ cur_owner = 0 /\ main = "create" /\ i = 0
  BY Zenon DEF Init
<1>2. Gone = {}
  BY <1>1, Zenon DEF Gone
<1>3. GameIInv
  BY <1>0, <1>1, <1>2 DEF GameIInv
<1>4. SpinIInv
  BY Zenon DEF Init, M!MCSInit, SpinIInv
<1>5. QueueIInv
  BY GrantInitially, Zenon DEF Init, M!MCSInit, QueueIInv, HasQueue
<1>6. TurnIInv
  BY <1>1, Zenon DEF TurnIInv, Turn
<1>7. SeqIInv
  BY <1>1, Zenon DEF Init, S!SeqInit, S!Places, SeqIInv
<1> QED
  BY <1>3, <1>4, <1>5, <1>6, <1>7, Zenon DEF ProgramIInv

LEMMA ProgramStep ==
  ASSUME Counting, LockIInv, ProgramIInv, [Next]_vars
  PROVE  ProgramIInv'
<1>1. argv' = argv
  BY ArgvStays, Zenon
<1>2. DOMAIN task = Threads
  BY Zenon DEF ProgramIInv, TurnIInv, SeqIInv
<1>3. GameIInv'
  BY <1>2, GameStep, Zenon
<1>4. argv.prog = "spin" => SpinIInv'
  BY SpinStep, Zenon DEF ProgramIInv
<1>5. argv.prog = "mcs" => QueueIInv'
  BY QueueStep, Zenon DEF ProgramIInv
<1>6. argv.prog # "seq" => TurnIInv'
  BY TurnStep, Zenon
<1>7. argv.prog = "seq" => SeqIInv'
  BY SeqStep, Zenon
<1> QED
  BY <1>1, <1>3, <1>4, <1>5, <1>6, <1>7, Zenon DEF ProgramIInv

-----------------------------------------------------------------------------
\* The programs play the game

\* The refinement mapping
Owner ==
  IF argv.prog # "seq" /\ \E t \in Threads : task[t] = "count"
    THEN CHOOSE t \in Threads : task[t] = "count" ELSE cur_owner
Made == IF argv.prog = "seq" /\ HalfMade THEN passes - 1 ELSE passes
Over == main = "done" /\ ~argv.cloneFails

\* With a lock, the token has gone on when the pass is counted.
LEMMA OwnerIs ==
  ASSUME LockIInv, ProgramIInv, argv.prog # "seq"
  PROVE  /\ \A t \in Threads : task[t] = "count" => Owner = t
         /\ (\A t \in Threads : task[t] # "count") => Owner = cur_owner
         /\ Made = passes
<1>1. \A t, u \in Threads : task[t] = "count" /\ task[u] = "count" => t = u
  BY HeldByOne, Zenon DEF ProgramIInv, TurnIInv, Turn
<1> QED
  BY <1>1, Zenon DEF Owner, Made

LEMMA OwnerStays ==
  ASSUME LockIInv, ProgramIInv, argv.prog # "seq", argv' = argv, cur_owner' = cur_owner,
         \A t \in Threads : task'[t] = "count" <=> task[t] = "count"
  PROVE  Owner' = Owner
<1>1. CASE \E t \in Threads : task[t] = "count"
  <2>1. PICK t \in Threads : task[t] = "count"
    BY <1>1, Zenon
  <2>2. Owner = t /\ \A u \in Threads : task'[u] = "count" <=> u = t
    BY <2>1, HeldByOne, OwnerIs, Zenon DEF ProgramIInv, TurnIInv, Turn
  <2>3. Owner' = t
    BY <2>2, Zenon DEF Owner
  <2> QED
    BY <2>2, <2>3, Zenon
<1>2. CASE \A t \in Threads : task[t] # "count"
  BY <1>2, Zenon DEF Owner
<1> QED
  BY <1>1, <1>2, Zenon

\* The next player is the next number, modulo the number of players.
LEMMA NextOwnerIs ==
  ASSUME NEW n \in Nat \ {0}, NEW k \in 0 .. n - 1
  PROVE  (IF k + 1 >= n THEN 0 ELSE k + 1) = (k + 1) % n
<1>1. CASE k + 1 = n
  BY <1>1
<1>2. CASE k + 1 < n
  BY <1>2
<1> QED
  BY <1>1, <1>2

\* A turn under a lock is a pass of the game when it is counted.
LEMMA TurnRefines ==
  ASSUME LockIInv, ProgramIInv, argv.prog # "seq", NEW t \in Threads, Play(t)
  PROVE  \/ Owner' = Owner /\ Made' = Made
         \/ Made <= maxpass /\ Owner' = NextOwner(Owner) /\ Made' = Made + 1 /\ Owner \in 0 .. numthreads - 1
<1>0. argv' = argv /\ TurnIInv /\ DOMAIN task = Threads /\ Made = passes /\ Made' = passes'
  BY PlayMoves, Zenon DEF ProgramIInv, TurnIInv, mains, Made
<1>1. CASE PassToken(t)
  <2>1. task[t] = "pass" /\ task' = [task EXCEPT ![t] = "count"] /\ passes' = passes /\ cur_owner = t
    BY <1>0, <1>1, Zenon DEF PassToken, Step, TurnIInv
  <2>2. \A u \in Threads : task[u] \in Turn => u = t
    BY <1>0, <2>1, HeldByOne, Zenon DEF TurnIInv, Turn
  <2>3. Owner = t
    BY <2>1, <2>2, Zenon DEF Owner, Turn
  <2>4. \A u \in Threads : task'[u] = "count" <=> u = t
    BY <1>0, <2>1, <2>2, Zenon DEF Turn
  <2>5. Owner' = t
    BY <1>0, <2>4, Zenon DEF Owner
  <2> QED
    BY <1>0, <2>1, <2>3, <2>5, Zenon
<1>2. CASE CountPass(t)
  <2>1. /\ task[t] = "count" /\ task' = [task EXCEPT ![t] = "unlock"] /\ passes' = passes + 1
        /\ cur_owner' = cur_owner /\ cur_owner = NextOwner(t) /\ passes <= maxpass
    BY <1>0, <1>2, Zenon DEF CountPass, Step, TurnIInv, Turn
  <2>2. \A u \in Threads : task[u] = "count" <=> u = t
    BY <1>0, <2>1, HeldByOne, Zenon DEF TurnIInv, Turn
  <2>3. Owner = t
    BY <2>1, OwnerIs, Zenon
  <2>4. \A u \in Threads : task'[u] # "count"
    BY <1>0, <2>1, <2>2, Zenon
  <2>5. Owner' = cur_owner
    BY <2>1, <2>4, Zenon DEF Owner
  <2>6. t \in 0 .. numthreads - 1
    BY <2>1, ProgramsAssumption, SizeAssumption DEF ProgramIInv, GameIInv, numthreads
  <2> QED
    BY <1>0, <2>1, <2>3, <2>5, <2>6, Zenon
<1>3. CASE ~PassToken(t) /\ ~CountPass(t)
  <2>1. Locking(t) \/ Peek(t) \/ Check(t) \/ Own(t) \/ Unlocked(t) \/ ExitThread(t)
    BY <1>3, Zenon DEF Play, ReadOwner, ReadPasses, WriteTurn
  <2>2. UNCHANGED <<passes, cur_owner>>
    BY <2>1, Zenon DEF Locking, Peek, Check, Own, Unlocked, ExitThread, game
  <2>3. \A u \in Threads : task'[u] = "count" <=> task[u] = "count"
    BY <1>0, <2>1, Zenon DEF Locking, Peek, Check, Own, Unlocked, ExitThread, Step
  <2> QED
    BY <1>0, <2>2, <2>3, OwnerStays, Zenon
<1> QED
  BY <1>1, <1>2, <1>3, Zenon

\* t has stored passes and not yet cur_owner.
Half(t) ==
  \/ task[t] = "count" /\ place[t] \in {"even", "wunlock"}
  \/ task[t] = "pass" /\ place[t] \in {"out", "wlock", "odd", "store"}

\* A turn of frisbee_seq.c is a pass of the game when cur_owner is stored.
LEMMA SeqRefines ==
  ASSUME ProgramIInv, argv.prog = "seq", NEW t \in Threads, Play(t)
  PROVE  \/ Owner' = Owner /\ Made' = Made
         \/ Made <= maxpass /\ Owner' = NextOwner(Owner) /\ Made' = Made + 1 /\ Owner \in 0 .. numthreads - 1
<1>0. /\ argv' = argv /\ SeqIInv /\ DOMAIN task = Threads /\ Owner = cur_owner /\ Owner' = cur_owner'
      /\ passes \in 1 .. maxpass + 1 /\ maxpass \in Nat /\ cur_owner \in 0 .. numthreads - 1
  BY PlayMoves, ProgramsAssumption, Zenon DEF ProgramIInv, SeqIInv, GameIInv, mains, Owner, maxpass
<1>1. /\ (HalfMade <=> \E u \in Threads : Half(u)) /\ (HalfMade' <=> \E u \in Threads : Half(u)')
      /\ \A u \in Threads : Half(u) => cur_owner = u
  BY <1>0, Zenon DEF HalfMade, Half, SeqIInv, Writing, Written
<1>2. CASE ReadOwner(t) \/ ReadPasses(t) \/ ExitThread(t)
  <2>1. UNCHANGED <<passes, cur_owner>>
    BY <1>2, Zenon DEF ReadOwner, ReadPasses, ExitThread, game
  <2>2. \A u \in Threads : Half(u)' <=> Half(u)
    BY <1>0, <1>2
       DEF ReadOwner, ReadPasses, ExitThread, Step, S!ReadMem, S!ReadSeqi, S!ReadSeqf, S!RereadMem,
           S!ReadReturns, S!Goto, S!Places, locks, seqs, Half, SeqIInv
  <2> QED
    BY <1>0, <1>1, <2>1, <2>2, Zenon DEF Made
<1>3. CASE WriteTurn(t) /\ ~S!Store(t)
  <2>1. UNCHANGED <<passes, cur_owner>>
    BY <1>3, Zenon DEF WriteTurn, game
  <2>2. \A u \in Threads : Half(u)' <=> Half(u)
    BY <1>0, <1>3
       DEF WriteTurn, Step, S!WriteCalled, S!LockWriter, S!MakeOdd, S!MakeEven, S!UnlockWriter, S!Goto,
           S!Places, Half, SeqIInv
  <2> QED
    BY <1>0, <1>1, <2>1, <2>2, Zenon DEF Made
<1>4. CASE WriteTurn(t) /\ S!Store(t)
  <2>1. /\ place[t] = "store" /\ place' = [place EXCEPT ![t] = "even"] /\ task' = task /\ task[t] \in {"count", "pass"}
        /\ passes' = IF task[t] = "count" THEN passes + 1 ELSE passes
        /\ cur_owner' = IF task[t] = "pass" THEN NextOwner(t) ELSE cur_owner
    BY <1>0, <1>4, Zenon
       DEF SeqIInv, Writing, WriteTurn, S!WriteCalled, S!LockWriter, S!MakeOdd, S!MakeEven, S!UnlockWriter,
           S!Store, S!Goto
  <2>2. cur_owner = t
    BY <1>0, <2>1, Zenon DEF SeqIInv, Writing
  <2>3. \A u \in Threads : u # t => ~Half(u) /\ ~Half(u)'
    BY <1>0, <1>1, <2>1, <2>2, Zenon DEF Half, SeqIInv
  <2>4. CASE task[t] = "count"
    <3>1. ~Half(t) /\ Half(t)'
      BY <1>0, <2>1, <2>4, Zenon DEF Half, SeqIInv
    <3>2. Made = passes /\ Made' = passes' - 1
      BY <1>0, <1>1, <2>3, <3>1, Zenon DEF Made
    <3> QED
      BY <1>0, <2>1, <2>4, <3>2
  <2>5. CASE task[t] = "pass"
    <3>1. Half(t) /\ ~Half(t)'
      BY <1>0, <2>1, <2>5, Zenon DEF Half, SeqIInv
    <3>2. Made = passes - 1 /\ Made' = passes'
      BY <1>0, <1>1, <2>3, <3>1, Zenon DEF Made
    <3> QED
      BY <1>0, <2>1, <2>2, <2>5, <3>2
  <2> QED
    BY <2>1, <2>4, <2>5, Zenon
<1>5. ASSUME Locking(t) \/ Peek(t) \/ Check(t) \/ Own(t) \/ PassToken(t) \/ CountPass(t) \/ Unlocked(t) PROVE FALSE
  BY <1>0, <1>5, Zenon DEF Locking, Peek, Check, Own, PassToken, CountPass, Unlocked, Step, SeqIInv
<1> QED
  BY <1>2, <1>3, <1>4, <1>5, Zenon DEF Play

\* main announces the end when every player has left the game.
LEMMA FinishRefines ==
  ASSUME Counting, ProgramIInv, Finish, ~argv.cloneFails
  PROVE  Made = maxpass + 1
<1>0. /\ GameIInv /\ main = "wait" /\ i = numthreads /\ numthreads \in Nat \ {0} /\ maxpass \in Nat
      /\ Threads = 0 .. size - 1 /\ size \in Nat
  BY ProgramsAssumption, SizeAssumption, SMTT(30) DEF ProgramIInv, GameIInv, Finish, numthreads, maxpass
<1>1. passes = maxpass + 1
  <2>1. PICK t \in Gone : TRUE
    BY <1>0 DEF GameIInv
  <2>2. passes > maxpass
    BY <1>0, <2>1, Zenon DEF GameIInv, Gone
  <2> QED
    BY <1>0, <2>2 DEF GameIInv
<1>2. ASSUME NEW t \in Threads PROVE task[t] \in {"none", "reaped"}
  <2>1. CASE Children = {}
    BY <2>1, Zenon DEF Children
  <2>2. CASE Cardinality(Gone) = numthreads
    <3>1. Gone \subseteq 0 .. numthreads - 1
      <4>1. ASSUME NEW u \in Gone PROVE u \in 0 .. numthreads - 1
        BY <1>0 DEF GameIInv, Gone
      <4> QED
        BY <4>1, Zenon
    <3>3. Gone = 0 .. numthreads - 1
      BY <1>0, <2>2, <3>1, Zenon DEF Counting
    <3>4. task[t] # "none" => t \in Gone
      BY <1>0, <3>3 DEF GameIInv
    <3> QED
      BY <3>4, Zenon DEF Gone
  <2> QED
    BY <1>0, <2>1, <2>2, Zenon DEF GameIInv
<1>3. ~HalfMade
  BY <1>2, Zenon DEF HalfMade
<1> QED
  BY <1>1, <1>3, Zenon DEF Made

\* Every step of a program is a step of the game or leaves it as it is.
LEMMA GameRefines ==
  ASSUME Counting, LockIInv, ProgramIInv, [Next]_vars
  PROVE  [TheGame!Pass \/ TheGame!Announce]_(TheGame!gameVars)
<1>0. argv' = argv /\ numthreads' = numthreads /\ maxpass' = maxpass /\ GameIInv /\ DOMAIN task = Threads
  BY ArgvStays, Zenon DEF ProgramIInv, TurnIInv, SeqIInv, numthreads, maxpass
<1>1. ASSUME Owner' = Owner, Made' = Made, Over' = Over PROVE UNCHANGED TheGame!gameVars
  BY <1>0, <1>1, Zenon DEF TheGame!gameVars, Owner, Made, Over
<1>2. CASE UNCHANGED vars
  BY <1>1, <1>2, Zenon DEF vars, game, mains, locks, Owner, Made, Over, HalfMade
<1>3. CASE Main
  <2>1. UNCHANGED <<passes, cur_owner, place>>
    BY <1>0, <1>3, MainMoves, Zenon DEF game, locks
  <2>2. \A t \in Threads : task'[t] # task[t] => task[t] \in {"none", "exited"} /\ task'[t] \in {"top", "reaped"}
    BY <1>0, <1>3, MainMoves, Zenon
  <2>3. Owner' = Owner
    BY <1>0, <2>1, <2>2, OwnerStays, Zenon DEF Owner
  <2>4. HalfMade' <=> HalfMade
    BY <2>1, <2>2, Zenon DEF HalfMade
  <2>5. Made' = Made
    BY <1>0, <2>1, <2>4, Zenon DEF Made
  <2>6. CASE Finish /\ ~argv.cloneFails
    <3>1. Made = maxpass + 1 /\ Over'
      BY <1>0, <2>6, FinishRefines, Zenon DEF Finish, Over
    <3> QED
      BY <1>0, <2>3, <2>5, <3>1, Zenon DEF TheGame!Announce, Owner, Made, Over
  <2>7. CASE ~Finish \/ argv.cloneFails
    <3>1. Over' = Over
      BY <1>0, <1>3, <2>7, Zenon DEF Main, Create, AllCreated, Wait, Over
    <3> QED
      BY <1>1, <2>3, <2>5, <3>1, Zenon
  <2> QED
    BY <2>6, <2>7, Zenon
<1>4. ASSUME NEW t \in Threads, Play(t) PROVE [TheGame!Pass \/ TheGame!Announce]_(TheGame!gameVars)
  <2>1. Over' = Over
    BY <1>0, <1>4, PlayMoves, Zenon DEF mains, Over
  <2>2. \/ Owner' = Owner /\ Made' = Made
        \/ Made <= maxpass /\ Owner' = NextOwner(Owner) /\ Made' = Made + 1 /\ Owner \in 0 .. numthreads - 1
    BY <1>4, TurnRefines, SeqRefines, Zenon
  <2>3. CASE Owner' = Owner /\ Made' = Made
    BY <1>1, <2>1, <2>3, Zenon
  <2>4. CASE Made <= maxpass /\ Owner' = NextOwner(Owner) /\ Made' = Made + 1 /\ Owner \in 0 .. numthreads - 1
    <3>1. numthreads \in Nat \ {0}
      BY ProgramsAssumption, SizeAssumption DEF ProgramIInv, GameIInv, numthreads
    <3>2. Owner' = (Owner + 1) % numthreads
      BY <2>4, <3>1, NextOwnerIs, Zenon DEF NextOwner
    <3>3. TheGame!Pass
      BY <1>0, <2>1, <2>4, <3>2, Zenon DEF TheGame!Pass, Owner, Made, Over
    <3> QED
      BY <3>3, Zenon
  <2> QED
    BY <2>2, <2>3, <2>4, Zenon
<1> QED
  BY <1>2, <1>3, <1>4, Zenon DEF Next

-----------------------------------------------------------------------------
\* Finite sets

INSTANCE FiniteSetTheorems

LEMMA SlotIsLeft == SlotLeft
<1> SUFFICES ASSUME NEW t \in Threads, NEW Some \in SUBSET (Threads \ {t}),
                    NEW q \in [Threads -> Slots],
                    \A p \in Slots : \E u \in Some : q[u] = p
             PROVE  FALSE
  BY Zenon DEF SlotLeft
<1> DEFINE own == [p \in Slots |-> CHOOSE u \in Some : q[u] = p]
<1>1. \A p \in Slots : own[p] \in Some /\ q[own[p]] = p
  BY Zenon
<1>2. IsFiniteSet(Slots) /\ Cardinality(Slots) = size
  BY FS_Interval, SizeAssumption DEF Slots
<1>3. IsFiniteSet(Some) /\ Cardinality(Some) < size
  <2>1. IsFiniteSet(Threads \ {t}) /\ Cardinality(Threads \ {t}) = Cardinality(Threads) - 1
    BY FS_RemoveElement, SizeAssumption, Zenon
  <2>2. Cardinality(Threads) \in Nat
    BY FS_CardinalityType, SizeAssumption, Zenon
  <2>3. IsFiniteSet(Some) /\ Cardinality(Some) <= Cardinality(Threads \ {t}) /\ Cardinality(Some) \in Nat
    BY <2>1, FS_Subset, FS_CardinalityType, Zenon
  <2> QED
    BY <2>1, <2>2, <2>3, SizeAssumption
<1>4. own \in [Slots -> Some]
  BY <1>1, Zenon
<1> HIDE DEF own
<1>5. \E x, y \in Slots : x # y /\ own[x] = own[y]
  BY <1>2, <1>3, <1>4, FS_PigeonHole
<1> QED
  BY <1>1, <1>5, Zenon

LEMMA ThreadsAreCounted == Counting
<1>1. Cardinality({}) = 0
  BY FS_EmptySet, Zenon
<1>2. ASSUME NEW G \in SUBSET Threads, NEW t \in Threads \ G PROVE Cardinality(G \cup {t}) = Cardinality(G) + 1
  BY FS_Subset, FS_AddElement, SizeAssumption, Zenon
<1>3. ASSUME NEW n \in Nat, NEW G \in SUBSET (0 .. n - 1), Cardinality(G) = n PROVE G = 0 .. n - 1
  <2>1. IsFiniteSet(0 .. n - 1) /\ Cardinality(0 .. n - 1) = n
    BY FS_Interval
  <2> QED
    BY <1>3, <2>1, FS_Subset, Zenon
<1> QED
  BY <1>1, <1>2, <1>3, Zenon DEF Counting

-----------------------------------------------------------------------------
\* The theorems

LEMMA SpecIInv == LockSpec => []LockIInv
  BY InitIInv, StepIInv, SlotIsLeft, PTL DEF LockSpec

LEMMA ProgramInvariant == Spec => [](LockIInv /\ ProgramIInv)
<1>1. LockIInv /\ ProgramIInv /\ [Next]_vars => ProgramIInv'
  BY ProgramStep, ThreadsAreCounted, Zenon
<1> QED
  BY <1>1, ProgramInitially, ProgramUsesLock, SpecIInv, PTL DEF Spec

\* The words and the threads' locals always have values of their types: in
\* particular lk->next and every drawn pos stay within the array.
THEOREM LockTyped == Spec => []LockTypeOK
  BY ProgramUsesLock, SpecIInv, PTL DEF LockIInv

\* No two threads are ever between the end of the spin loop of
\* arraylock_acquire and the end of arraylock_release, provided there are
\* at most size threads.
THEOREM LockExcludes == Spec => []MutualExclusion
<1>1. LockIInv => MutualExclusion
  BY DEF LockIInv, MutualExclusion, FrontIs, Inside, InLine
<1> QED
  BY <1>1, ProgramUsesLock, SpecIInv, PTL

\* Threads enter the array lock in the order in which they incremented lk->next:
\* the lock implements the first-come-first-served lock FifoMutex.
THEOREM LockIsFirstComeFirstServed == Spec => FirstComeFirstServed
<1>1. LockIInv /\ [LockNext]_lockVars => [Fifo!FifoNext]_(Fifo!fifoVars)
  BY FifoStep, SlotIsLeft, Zenon
<1>2. LockInit => Fifo!FifoInit
  BY FifoInitially, Zenon
<1> QED
  BY <1>1, <1>2, ProgramUsesLock, SpecIInv, PTL DEF FirstComeFirstServed, Fifo!FifoSpec, LockSpec

\* mcslock_release writes qnode->next->spin of a thread that is still in its
\* spin loop and has not been granted the lock, for any number of threads and
\* although the lock may lose a thread.
THEOREM GrantsGoToWaiters == Spec => []GrantGoesToWaiter
<1> DEFINE Inv == argv.prog = "mcs" => GrantIInv
<1>1. Init => Inv
  BY GrantInitially, Zenon
<1>2. Inv /\ [Next]_vars => Inv'
  <2> SUFFICES ASSUME Inv, [Next]_vars PROVE Inv'
    BY Zenon
  <2>1. argv' = argv
    BY Zenon
       DEF Next, Main, Create, AllCreated, Wait, Finish, Play, Locking, Peek, Check, Own, PassToken,
           CountPass, Unlocked, ReadOwner, ReadPasses, WriteTurn, ExitThread, vars, mains
  <2> QED
    BY <2>1, GrantStep, Zenon
<1>3. Inv => GrantGoesToWaiter
  BY Zenon DEF GrantIInv, Waits, GrantGoesToWaiter, M!Grants
<1> QED
  BY <1>1, <1>2, <1>3, PTL DEF Spec

\* In every program with a lock, with frisbee_mcs.c too, at most one thread is
\* between the end of acquire and the start of release.
OneHolder == argv.prog # "seq" => \A t, u \in Threads : Held(t) /\ Held(u) => t = u

\* The test-and-set, the array and the MCS lock exclude, for any number of threads:
\* mcslock_release can drop a thread from the queue, but never lets two in.
THEOREM LocksExclude == Spec => []OneHolder
<1>1. LockIInv /\ ProgramIInv => OneHolder
  BY HeldByOne, Zenon DEF OneHolder
<1> QED
  BY <1>1, ProgramInvariant, PTL

\* The four frisbee programs play the game of module Game, for any number of
\* players and passes: every pass is made by the player who has the token and
\* counted once, and the end is announced after the last one.
THEOREM ProgramsPlayTheGame == Spec => PlaysTheGame
<1>1. Init => TheGame!GameInit
  BY Zenon DEF Init, S!SeqInit, M!MCSInit, TheGame!GameInit, HalfMade
<1>2. LockIInv /\ ProgramIInv /\ [Next]_vars => [TheGame!Pass \/ TheGame!Announce]_(TheGame!gameVars)
  BY GameRefines, ThreadsAreCounted, Zenon
<1> QED
  BY <1>1, <1>2, ProgramInvariant, PTL DEF Spec, PlaysTheGame, TheGame!GameSpec
=============================================================================
