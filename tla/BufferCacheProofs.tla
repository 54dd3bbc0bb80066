------------------------- MODULE BufferCacheProofs -------------------------
(***************************************************************************)
(* Proofs about BufferCache, for any number of processes, buffers and      *)
(* blocks.                                                                 *)
(***************************************************************************)
EXTENDS BufferCache, Integers, TLAPS

-----------------------------------------------------------------------------
\* The inductive invariant

Holding == {"iderw", "rw_asleep", "rw_woken", "have"}
Users(b) == {p \in Procs : buf[p] = b}

\* Every buffer is on the list, once.
Listed ==
  /\ \A b \in Bufs : \E i \in Bufs : list[i] = b
  /\ \A i, j \in Bufs : list[i] = list[j] => i = j

\* The references are the processes between bget and brelse, and each of these
\* has a buffer, of the block it asked for.
Referred ==
  /\ \A b \in Bufs : refcnt[b] = Cardinality(Users(b))
  /\ \A p \in Procs :
       /\ pc[p] = "idle" <=> buf[p] = NoBuf
       /\ buf[p] # NoBuf => blk[p] \in Blocks /\ blockno[buf[p]] = blk[p]
       /\ buf[p] = NoBuf => blk[p] = NoBlock

\* A reference is counted: refcnt is not 0 while a process has the buffer.
Counted ==
  \A b \in Bufs : /\ IsFiniteSet(Users(b))
                  /\ refcnt[b] = 0 => Users(b) = {}
                  /\ Users(b) # {} => refcnt[b] \in Nat \ {0}

\* A lock is held by the process between acquiresleep and releasesleep.
Locks ==
  /\ \A b \in Bufs : IF locked[b] THEN pid[b] \in Procs /\ pc[pid[b]] \in Holding /\ buf[pid[b]] = b
                                  ELSE pid[b] = NoProc
  /\ \A p \in Procs :
       /\ pc[p] \in Holding => locked[buf[p]] /\ pid[buf[p]] = p
       /\ pc[p] = "lock_asleep" => locked[buf[p]]

\* The flags of a buffer, and what they say of the process that has it.
Flags ==
  /\ dirty \subseteq valid
  /\ \A b \in valid : blockno[b] \in Blocks
  /\ \A p \in Procs :
       /\ pc[p] = "have" => buf[p] \in valid
       /\ pc[p] = "iderw" => ~Synced(buf[p])
       /\ pc[p] = "rw_woken" => Synced(buf[p])
       /\ p \in changed => pc[p] = "have"

\* The requests are those of the processes asleep in iderw.
Queued ==
  /\ \A i \in DOMAIN idequeue :
       /\ ~Synced(idequeue[i])
       /\ \E p \in Procs : pc[p] = "rw_asleep" /\ buf[p] = idequeue[i]
  /\ \A i, j \in DOMAIN idequeue : idequeue[i] = idequeue[j] => i = j
  /\ \A p \in Procs : pc[p] = "rw_asleep" => \E i \in DOMAIN idequeue : idequeue[i] = buf[p]

\* No block is cached twice.
Distinct == \A b, c \in Bufs : blockno[b] = blockno[c] /\ blockno[b] \in Blocks => b = c

\* A disk that is not faulty has written what it was told when it interrupts.
Written == ~faulty /\ irq /\ device.kind = "write" => disk[device.n] = device.v

IInv ==
  /\ TypeOK /\ Listed /\ Referred /\ Locks /\ Flags /\ Queued /\ Distinct
  /\ DiskWorksOnHead /\ Written /\ CleanIsDisk

-----------------------------------------------------------------------------
\* The constants, and the names that stand for none.
LEMMA Basics ==
  /\ NBUF \in Nat /\ NoBuf \notin Bufs
  /\ IsFiniteSet(Procs) /\ NoProc \notin Procs /\ NoBlock \notin Blocks
  BY BufferAssumption DEF Bufs, NoBuf

LEMMA BufsNat == \A b \in Bufs : b \in Nat \ {0}
  BY DEF Bufs

\* Who is not idle has a buffer.
LEMMA HasBuf ==
  ASSUME TypeOK, Referred, NEW p \in Procs, pc[p] # "idle"
  PROVE  buf[p] \in Bufs
  BY Zenon DEF TypeOK, ProcTypes, Referred

\* The request that the disk works on
LEMMA AtHead ==
  ASSUME TypeOK, Referred, Queued, DiskWorksOnHead, idequeue # <<>>, NEW b, b = Head(idequeue)
  PROVE  /\ b \in Bufs /\ ~Synced(b) /\ device = Command(b)
         /\ \E p \in Procs : pc[p] = "rw_asleep" /\ buf[p] = b
         /\ blockno[b] \in Blocks
         /\ device.n = blockno[b]
         /\ device.kind = IF b \in dirty THEN "write" ELSE "read"
         /\ b \in dirty => device.v = data[b]
<1>1. 1 \in DOMAIN idequeue /\ b = idequeue[1] /\ b \in Bufs
  BY DEF TypeOK, QueueTypes
<1>2. ~Synced(b) /\ \E p \in Procs : pc[p] = "rw_asleep" /\ buf[p] = b
  BY <1>1 DEF Queued
<1>3. blockno[b] \in Blocks
  BY <1>1, <1>2, Zenon DEF Referred
<1>4. device = Command(b)
  BY Zenon DEF DiskWorksOnHead
<1> QED
  BY <1>1, <1>2, <1>3, <1>4, Zenon DEF Command

\* acquiresleep finds the lock taken, or takes it.
LEMMA AcquireCases ==
  ASSUME NEW p \in Procs, acquiresleep(p)
  PROVE  /\ pc[p] = "acquiresleep"
         /\ UNCHANGED <<list, blockno, refcnt, data, valid, dirty, idequeue, device, irq, disk, faulty, blk, buf, changed>>
         /\ \/ /\ locked[buf[p]] /\ pc' = [pc EXCEPT ![p] = "lock_asleep"]
               /\ UNCHANGED <<locked, pid>>
            \/ /\ ~locked[buf[p]] /\ pc' = [pc EXCEPT ![p] = IF buf[p] \in valid THEN "have" ELSE "iderw"]
               /\ locked' = [locked EXCEPT ![buf[p]] = TRUE] /\ pid' = [pid EXCEPT ![buf[p]] = p]
  BY Zenon DEF acquiresleep, Goes, listVars, lockVars, ideVars

LEMMA TypeInit == Init => TypeOK
<1> SUFFICES ASSUME Init PROVE TypeOK
  BY Zenon
<1>1. list \in [Bufs -> Bufs]
  BY Basics DEF Init, Bufs
<1>2. idequeue \in Seq(Bufs)
  BY DEF Init
<1>3. irq \in BOOLEAN /\ faulty \in BOOLEAN
  BY Zenon DEF Init
<1>4. data \in [Bufs -> Values] /\ pc \in [Procs -> Places]
  BY Zenon DEF Init, Places
<1> QED
  BY <1>1, <1>2, <1>3, <1>4, Zenon DEF Init, TypeOK, ListTypes, DataTypes, LockTypes, QueueTypes, ProcTypes

\* Every action keeps the variables in their types.
LEMMA TypeStep == TypeOK /\ Referred /\ Counted /\ Queued /\ DiskWorksOnHead /\ [Next]_vars => TypeOK'
<1> SUFFICES ASSUME TypeOK, Referred, Counted, Queued, DiskWorksOnHead, [Next]_vars PROVE TypeOK'
  BY Zenon
<1>0. CASE UNCHANGED vars
  BY <1>0, Zenon
     DEF vars, TypeOK, ListTypes, DataTypes, LockTypes, QueueTypes, ProcTypes, listVars, lockVars, ideVars
<1>1. ASSUME NEW p \in Procs, NEW n \in Blocks, Hit(p, n) PROVE TypeOK'
  BY <1>1
     DEF Hit, Goes, Cached, TypeOK, ListTypes, DataTypes, LockTypes, QueueTypes, ProcTypes, Places, lockVars,
         ideVars
<1>2. ASSUME NEW p \in Procs, NEW n \in Blocks, Recycle(p, n) PROVE TypeOK'
  BY <1>2
     DEF Recycle, Goes, TypeOK, ListTypes, DataTypes, LockTypes, QueueTypes, ProcTypes, Places, lockVars,
         ideVars
<1>3. ASSUME NEW p \in Procs, acquiresleep(p) PROVE TypeOK'
  <2>1. buf[p] \in Bufs
    BY <1>3, AcquireCases, HasBuf, Zenon
  <2>2. \E to \in {"lock_asleep", "have", "iderw"} : pc' = [pc EXCEPT ![p] = to]
    BY <1>3, AcquireCases, Zenon
  <2>3. pid' = pid \/ pid' = [pid EXCEPT ![buf[p]] = p]
    BY <1>3, AcquireCases, Zenon
  <2>4. locked' = locked \/ locked' = [locked EXCEPT ![buf[p]] = TRUE]
    BY <1>3, AcquireCases, Zenon
  <2>5. pc' \in [Procs -> Places]
    BY <2>2, Zenon DEF TypeOK, ProcTypes, Places
  <2>6. pid' \in [Bufs -> Procs \cup {NoProc}]
    BY <2>1, <2>3, Zenon DEF TypeOK, LockTypes
  <2>7. locked' \in [Bufs -> BOOLEAN]
    BY <2>1, <2>4, Zenon DEF TypeOK, LockTypes
  <2> QED
    BY <1>3, <2>5, <2>6, <2>7, AcquireCases, Zenon
       DEF TypeOK, ListTypes, DataTypes, LockTypes, QueueTypes, ProcTypes
<1>4. ASSUME NEW p \in Procs, NEW v \in Values, Modify(p, v) PROVE TypeOK'
  BY <1>4, HasBuf, Zenon
     DEF Modify, TypeOK, ListTypes, DataTypes, LockTypes, QueueTypes, ProcTypes, listVars, lockVars, ideVars
<1>5. ASSUME NEW p \in Procs, bwrite(p) \/ Pin(p) PROVE TypeOK'
  <2>1. /\ dirty' = dirty \cup {buf[p]} /\ changed' = changed \ {p} /\ pc[p] = "have"
        /\ UNCHANGED <<listVars, data, valid, lockVars, ideVars, blk, buf>>
        /\ pc' = pc \/ pc' = [pc EXCEPT ![p] = "iderw"]
    BY <1>5, Zenon DEF bwrite, Pin, Goes
  <2>2. buf[p] \in Bufs
    BY <2>1, HasBuf
  <2>3. ProcTypes'
    BY <2>1 DEF TypeOK, ProcTypes, Places
  <2>4. DataTypes'
    BY <2>1, <2>2, Zenon DEF TypeOK, DataTypes, ideVars
  <2> QED
    BY <2>1, <2>3, <2>4, Zenon DEF TypeOK, ListTypes, LockTypes, QueueTypes, listVars, lockVars, ideVars
<1>6. ASSUME NEW p \in Procs, releasesleep(p) PROVE TypeOK'
  BY <1>6, HasBuf, Zenon
     DEF releasesleep, WakeLock, TypeOK, ListTypes, DataTypes, LockTypes, QueueTypes, ProcTypes, Places,
         listVars, ideVars
<1>7. ASSUME NEW p \in Procs, brelse(p) PROVE TypeOK'
  <2>1. buf[p] \in Bufs /\ refcnt[buf[p]] \in Nat \ {0}
    BY <1>7, HasBuf, Zenon DEF Counted, brelse, Goes, Users
  <2>2. MoveToFront(buf[p]) \in [Bufs -> Bufs]
    <3>1. \A i \in Bufs : i # 1 => i - 1 \in Bufs
      BY Basics DEF Bufs
    <3> QED
      BY <2>1, <3>1, Zenon DEF MoveToFront, TypeOK, ListTypes
  <2>3. list' \in [Bufs -> Bufs]
    BY <1>7, <2>2, Zenon DEF brelse, TypeOK, ListTypes
  <2>4. refcnt' \in [Bufs -> Nat]
    BY <1>7, <2>1 DEF brelse, TypeOK, ListTypes
  <2> QED
    BY <1>7, <2>3, <2>4, Zenon
       DEF brelse, Goes, TypeOK, ListTypes, DataTypes, LockTypes, QueueTypes, ProcTypes, Places, lockVars,
           ideVars
<1>8. ASSUME NEW p \in Procs, iderw(p) PROVE TypeOK'
  BY <1>8, HasBuf
     DEF iderw, Goes, TypeOK, ListTypes, DataTypes, LockTypes, QueueTypes, ProcTypes, Places, listVars,
         lockVars
<1>9. ASSUME NEW p \in Procs, Woken(p) PROVE TypeOK'
  BY <1>9, Zenon
     DEF Woken, Goes, TypeOK, ListTypes, DataTypes, LockTypes, QueueTypes, ProcTypes, Places, listVars,
         lockVars, ideVars
<1>10. CASE DiskDone
  <2>1. device.kind = "write" => device.v \in Values
    BY <1>10, AtHead DEF DiskDone, DiskWorksOnHead, TypeOK, DataTypes
  <2> QED
    BY <1>10, <2>1, Zenon
       DEF DiskDone, TypeOK, ListTypes, DataTypes, LockTypes, QueueTypes, ProcTypes, listVars, lockVars
<1>11. CASE ideintr
  <2> DEFINE b == Head(idequeue)
  <2>1. b \in Bufs /\ device.n \in Blocks
    BY <1>11, AtHead, Zenon DEF ideintr
  <2>2. Tail(idequeue) \in Seq(Bufs)
    BY <1>11 DEF ideintr, TypeOK, QueueTypes
  <2>3. pc' \in [Procs -> Places]
    BY <1>11, Zenon DEF ideintr, WakeBuf, TypeOK, ProcTypes, Places
  <2>4. data' \in [Bufs -> Values]
    BY <1>11, <2>1, ZenonT(30) DEF ideintr, TypeOK, DataTypes
  <2>5. valid' \subseteq Bufs /\ dirty' \subseteq Bufs
    BY <1>11, <2>1, Zenon DEF ideintr, TypeOK, DataTypes
  <2> QED
    BY <1>11, <2>2, <2>3, <2>4, <2>5, Zenon
       DEF ideintr, TypeOK, ListTypes, DataTypes, LockTypes, QueueTypes, ProcTypes, listVars, lockVars
<1> QED
  BY <1>0, <1>1, <1>2, <1>3, <1>4, <1>5, <1>6, <1>7, <1>8, <1>9, <1>10, <1>11, Zenon
     DEF Next, Kernel, Caller, bget

LEMMA DistinctInit == Init => Distinct
  BY Basics, Zenon DEF Init, Distinct

\* bget recycles a buffer for a block only when it has found the block in none.
LEMMA DistinctStep == TypeOK /\ Distinct /\ [Next]_vars => Distinct'
<1> SUFFICES ASSUME TypeOK, Distinct, [Next]_vars PROVE Distinct'
  BY Zenon
<1>0. CASE UNCHANGED vars
  BY <1>0, Zenon DEF vars, Distinct, listVars
<1>1. ASSUME NEW p \in Procs, NEW n \in Blocks, Hit(p, n) PROVE Distinct'
  BY <1>1, Zenon DEF Hit, Distinct
<1>2. ASSUME NEW p \in Procs, NEW n \in Blocks, Recycle(p, n) PROVE Distinct'
  BY <1>2 DEF Recycle, Cached, Distinct
<1>3. ASSUME NEW p \in Procs, acquiresleep(p) PROVE Distinct'
  BY <1>3, AcquireCases, Zenon DEF Distinct
<1>4. ASSUME NEW p \in Procs, NEW v \in Values, Modify(p, v) PROVE Distinct'
  BY <1>4, Zenon DEF Modify, Distinct, listVars
<1>5. ASSUME NEW p \in Procs, bwrite(p) \/ Pin(p) PROVE Distinct'
  BY <1>5, Zenon DEF bwrite, Pin, Distinct, listVars
<1>6. ASSUME NEW p \in Procs, releasesleep(p) PROVE Distinct'
  BY <1>6, Zenon DEF releasesleep, Distinct, listVars
<1>7. ASSUME NEW p \in Procs, brelse(p) PROVE Distinct'
  BY <1>7, Zenon DEF brelse, Distinct
<1>8. ASSUME NEW p \in Procs, iderw(p) PROVE Distinct'
  BY <1>8, Zenon DEF iderw, Distinct, listVars
<1>9. ASSUME NEW p \in Procs, Woken(p) PROVE Distinct'
  BY <1>9, Zenon DEF Woken, Distinct, listVars
<1>10. CASE DiskDone
  BY <1>10, Zenon DEF DiskDone, Distinct, listVars
<1>11. CASE ideintr
  BY <1>11, Zenon DEF ideintr, Distinct, listVars
<1> QED
  BY <1>0, <1>1, <1>2, <1>3, <1>4, <1>5, <1>6, <1>7, <1>8, <1>9, <1>10, <1>11, Zenon
     DEF Next, Kernel, Caller, bget

LEMMA LocksInit == Init => Locks
  BY Zenon DEF Init, Locks, Holding

\* Only the process that has the lock gives it up, and wakes who waits for it.
LEMMA LocksStep == TypeOK /\ Referred /\ Locks /\ [Next]_vars => Locks'
<1> SUFFICES ASSUME TypeOK, Referred, Locks, [Next]_vars PROVE Locks'
  BY Zenon
<1>0. CASE UNCHANGED vars
  BY <1>0, Zenon DEF vars, Locks, lockVars
<1>1. ASSUME NEW p \in Procs, NEW n \in Blocks, Hit(p, n) PROVE Locks'
  BY <1>1 DEF Hit, Goes, Locks, Holding, lockVars
<1>2. ASSUME NEW p \in Procs, NEW n \in Blocks, Recycle(p, n) PROVE Locks'
  BY <1>2 DEF Recycle, Goes, Locks, Holding, lockVars
<1>3. ASSUME NEW p \in Procs, acquiresleep(p) PROVE Locks'
  <2>1. buf[p] \in Bufs /\ pc[p] = "acquiresleep"
    BY <1>3, AcquireCases, HasBuf, Zenon
  <2>2. CASE locked[buf[p]]
    <3>1. pc' = [pc EXCEPT ![p] = "lock_asleep"] /\ UNCHANGED <<locked, pid, buf>>
      BY <1>3, <2>2, AcquireCases, Zenon
    <3> QED
      BY <2>1, <2>2, <3>1 DEF Locks, Holding
  <2>3. CASE ~locked[buf[p]]
    <3>1. PICK to \in Holding : pc' = [pc EXCEPT ![p] = to]
      BY <1>3, <2>3, AcquireCases, Zenon DEF Holding
    <3>2. buf' = buf /\ locked' = [locked EXCEPT ![buf[p]] = TRUE] /\ pid' = [pid EXCEPT ![buf[p]] = p]
      BY <1>3, <2>3, AcquireCases, Zenon
    <3>3. \A q \in Procs : pc'[q] = IF q = p THEN to ELSE pc[q]
      BY <3>1, Zenon DEF TypeOK, ProcTypes
    <3>4. \A c \in Bufs : /\ locked'[c] = IF c = buf[p] THEN TRUE ELSE locked[c]
                          /\ pid'[c] = IF c = buf[p] THEN p ELSE pid[c]
      BY <2>1, <3>2, Zenon DEF TypeOK, LockTypes
    <3> QED
      BY <2>1, <2>3, <3>1, <3>2, <3>3, <3>4 DEF Locks, TypeOK, LockTypes
  <2> QED
    BY <2>2, <2>3, Zenon
<1>4. ASSUME NEW p \in Procs, NEW v \in Values, Modify(p, v) PROVE Locks'
  BY <1>4, Zenon DEF Modify, Locks, lockVars
<1>5. ASSUME NEW p \in Procs, bwrite(p) \/ Pin(p) PROVE Locks'
  <2>1. CASE bwrite(p)
    BY <2>1 DEF bwrite, Goes, Locks, Holding, lockVars
  <2>2. CASE Pin(p)
    BY <2>2, Zenon DEF Pin, Locks, lockVars
  <2> QED
    BY <1>5, <2>1, <2>2, Zenon
<1>6. ASSUME NEW p \in Procs, releasesleep(p) PROVE Locks'
  BY <1>6 DEF releasesleep, WakeLock, Locks, TypeOK, LockTypes, Holding
<1>7. ASSUME NEW p \in Procs, brelse(p) PROVE Locks'
  BY <1>7 DEF brelse, Goes, Locks, Holding, lockVars
<1>8. ASSUME NEW p \in Procs, iderw(p) PROVE Locks'
  BY <1>8 DEF iderw, Goes, Locks, Holding, lockVars
<1>9. ASSUME NEW p \in Procs, Woken(p) PROVE Locks'
  BY <1>9 DEF Woken, Goes, Locks, Holding, lockVars
<1>10. CASE DiskDone
  BY <1>10, Zenon DEF DiskDone, Locks, lockVars
<1>11. CASE ideintr
  BY <1>11, Zenon DEF ideintr, WakeBuf, Locks, Holding, lockVars
<1> QED
  BY <1>0, <1>1, <1>2, <1>3, <1>4, <1>5, <1>6, <1>7, <1>8, <1>9, <1>10, <1>11, Zenon
     DEF Next, Kernel, Caller, bget

LEMMA FlagsInit == Init => Flags
  BY Zenon DEF Init, Flags

\* The flags of a buffer that a process has change only through that process and the disk.
LEMMA FlagsStep ==
  TypeOK /\ Referred /\ Counted /\ Locks /\ Queued /\ DiskWorksOnHead /\ Flags /\ [Next]_vars => Flags'
<1> SUFFICES ASSUME TypeOK, Referred, Counted, Locks, Queued, DiskWorksOnHead, Flags, [Next]_vars PROVE Flags'
  BY Zenon
<1>0. CASE UNCHANGED vars
  BY <1>0, Zenon DEF vars, Flags, Synced, listVars
<1>1. ASSUME NEW p \in Procs, NEW n \in Blocks, Hit(p, n) PROVE Flags'
  BY <1>1 DEF Hit, Goes, Flags, Synced
<1>2. ASSUME NEW p \in Procs, NEW n \in Blocks, Recycle(p, n) PROVE Flags'
  <2>1. PICK b \in Bufs : /\ refcnt[b] = 0 /\ b \notin dirty /\ blockno' = [blockno EXCEPT ![b] = n]
                          /\ valid' = valid \ {b} /\ buf' = [buf EXCEPT ![p] = b]
    BY <1>2, Zenon DEF Recycle, Unused, TypeOK, ListTypes
  <2>2. \A q \in Procs : buf[q] # b
    BY <2>1, Zenon DEF Counted, Users
  <2>3. UNCHANGED <<dirty, changed>> /\ pc[p] = "idle" /\ pc' = [pc EXCEPT ![p] = "acquiresleep"]
    BY <1>2, Zenon DEF Recycle, Goes
  <2> QED
    BY <2>1, <2>2, <2>3 DEF Flags, Synced
<1>3. ASSUME NEW p \in Procs, acquiresleep(p) PROVE Flags'
  <2>1. buf[p] \in Bufs /\ pc[p] = "acquiresleep" /\ UNCHANGED <<dirty, valid, changed, buf, blockno>>
    BY <1>3, AcquireCases, HasBuf, Zenon
  <2>2. \/ pc' = [pc EXCEPT ![p] = "lock_asleep"]
        \/ pc' = [pc EXCEPT ![p] = "have"] /\ buf[p] \in valid
        \/ pc' = [pc EXCEPT ![p] = "iderw"] /\ buf[p] \notin valid
    BY <1>3, AcquireCases, Zenon
  <2> QED
    BY <2>1, <2>2, Zenon DEF Flags, Synced, TypeOK, ProcTypes
<1>4. ASSUME NEW p \in Procs, NEW v \in Values, Modify(p, v) PROVE Flags'
  BY <1>4, Zenon DEF Modify, Flags, Synced, listVars
<1>5. ASSUME NEW p \in Procs, bwrite(p) \/ Pin(p) PROVE Flags'
  BY <1>5 DEF bwrite, Pin, Goes, Locks, Holding, Flags, Synced, TypeOK, ProcTypes, listVars
<1>6. ASSUME NEW p \in Procs, releasesleep(p) PROVE Flags'
  BY <1>6, Zenon DEF releasesleep, WakeLock, Flags, Synced, listVars
<1>7. ASSUME NEW p \in Procs, brelse(p) PROVE Flags'
  BY <1>7 DEF brelse, Goes, Flags, Synced
<1>8. ASSUME NEW p \in Procs, iderw(p) PROVE Flags'
  BY <1>8 DEF iderw, Goes, Flags, Synced, listVars
<1>9. ASSUME NEW p \in Procs, Woken(p) PROVE Flags'
  BY <1>9 DEF Woken, Goes, Flags, Synced, listVars
<1>10. CASE DiskDone
  BY <1>10, Zenon DEF DiskDone, Flags, Synced, listVars
<1>11. CASE ideintr
  <2> DEFINE b == Head(idequeue)
  <2>1. /\ b \in Bufs /\ blockno[b] \in Blocks
        /\ valid' = valid \cup {b} /\ dirty' = dirty \ {b} /\ pc' = WakeBuf(b)
        /\ UNCHANGED <<blockno, buf, changed>>
    BY <1>11, AtHead, Zenon DEF ideintr, listVars
  <2>2. PICK h \in Procs : pc[h] = "rw_asleep" /\ buf[h] = b
    BY <1>11, AtHead, Zenon DEF ideintr
  <2>3. \A q \in Procs : buf[q] = b /\ pc[q] \in Holding => q = h
    BY <2>2 DEF Locks, Holding
  <2> HIDE DEF b
  <2>4. \A q \in Procs : pc'[q] = IF pc[q] = "rw_asleep" /\ buf[q] = b THEN "rw_woken" ELSE pc[q]
    BY <2>1, Zenon DEF WakeBuf
  <2> QED
    BY <2>1, <2>2, <2>3, <2>4, Zenon DEF Holding, Flags, Synced
<1> QED
  BY <1>0, <1>1, <1>2, <1>3, <1>4, <1>5, <1>6, <1>7, <1>8, <1>9, <1>10, <1>11, Zenon
     DEF Next, Kernel, Caller, bget

\* Where the buffers stood before one was moved to the front: no two at one place.
LEMMA OldPlace ==
  ASSUME NEW i \in Nat \ {0}, NEW j \in Nat \ {0}, NEW k \in Nat \ {0},
         (IF i = 1 THEN k ELSE IF i <= k THEN i - 1 ELSE i) = (IF j = 1 THEN k ELSE IF j <= k THEN j - 1 ELSE j)
  PROVE  i = j
  OBVIOUS

LEMMA ListedInit == Init => Listed
  BY Basics DEF Init, Listed, Bufs

\* Moving a buffer to the front loses none and doubles none.
LEMMA ListedStep == TypeOK /\ Referred /\ Listed /\ [Next]_vars => Listed'
<1> SUFFICES ASSUME TypeOK, Referred, Listed, [Next]_vars PROVE Listed'
  BY Zenon
<1>0. CASE UNCHANGED vars
  BY <1>0, Zenon DEF vars, Listed, listVars
<1>1. ASSUME NEW p \in Procs, NEW n \in Blocks, Hit(p, n) PROVE Listed'
  BY <1>1, Zenon DEF Hit, Listed
<1>2. ASSUME NEW p \in Procs, NEW n \in Blocks, Recycle(p, n) PROVE Listed'
  BY <1>2, Zenon DEF Recycle, Listed
<1>3. ASSUME NEW p \in Procs, acquiresleep(p) PROVE Listed'
  BY <1>3, AcquireCases, Zenon DEF Listed
<1>4. ASSUME NEW p \in Procs, NEW v \in Values, Modify(p, v) PROVE Listed'
  BY <1>4, Zenon DEF Modify, Listed, listVars
<1>5. ASSUME NEW p \in Procs, bwrite(p) \/ Pin(p) PROVE Listed'
  BY <1>5, Zenon DEF bwrite, Pin, Listed, listVars
<1>6. ASSUME NEW p \in Procs, releasesleep(p) PROVE Listed'
  BY <1>6, Zenon DEF releasesleep, Listed, listVars
<1>7. ASSUME NEW p \in Procs, brelse(p) PROVE Listed'
  <2> DEFINE b == buf[p]
             k == CHOOSE i \in Bufs : list[i] = b
  <2>1. b \in Bufs
    BY <1>7, HasBuf, Zenon DEF brelse, Goes
  <2>2. k \in Bufs /\ list[k] = b
    BY <2>1, Zenon DEF Listed
  <2> HIDE DEF k
  <2>3. CASE list' = list
    BY <2>3, Zenon DEF Listed
  <2>4. CASE list' = MoveToFront(b)
    <3>1. \A i \in Bufs : list'[i] = IF i = 1 THEN b ELSE IF i <= k THEN list[i - 1] ELSE list[i]
      BY <2>4, Zenon DEF MoveToFront, k
    <3>2. ASSUME NEW c \in Bufs PROVE \E i \in Bufs : list'[i] = c
      <4>1. PICK i \in Bufs : list[i] = c
        BY Zenon DEF Listed
      <4>2. CASE i = k
        <5>1. 1 \in Bufs
          BY <2>2, Basics DEF Bufs
        <5> QED
          BY <2>2, <3>1, <4>1, <4>2, <5>1, Zenon
      <4>3. CASE i < k
        <5>1. i + 1 \in Bufs /\ i + 1 <= k /\ i + 1 # 1 /\ (i + 1) - 1 = i
          BY <2>2, <4>3, Basics DEF Bufs
        <5> QED
          BY <3>1, <4>1, <5>1, Zenon
      <4>4. CASE i > k
        <5>1. i # 1 /\ ~(i <= k)
          BY <2>2, <4>4 DEF Bufs
        <5> QED
          BY <3>1, <4>1, <5>1, Zenon
      <4>5. i \in Int /\ k \in Int
        BY <2>2 DEF Bufs
      <4>6. i = k \/ i < k \/ i > k
        BY <4>5
      <4> QED
        BY <4>2, <4>3, <4>4, <4>6, Zenon
    <3>3. ASSUME NEW i \in Bufs, NEW j \in Bufs, list'[i] = list'[j] PROVE i = j
      <4> DEFINE Old(m) == IF m = 1 THEN k ELSE IF m <= k THEN m - 1 ELSE m
      <4>1. \A m \in Bufs : Old(m) \in Bufs
        BY <2>2, Basics DEF Bufs
      <4>2. \A m \in Bufs : list'[m] = list[Old(m)]
        BY <2>2, <3>1, Zenon
      <4> HIDE DEF Old
      <4>3. Old(i) = Old(j)
        BY <3>3, <4>1, <4>2 DEF Listed
      <4>4. i \in Nat \ {0} /\ j \in Nat \ {0} /\ k \in Nat \ {0}
        BY <2>2, BufsNat, Zenon
      <4> QED
        BY <4>3, <4>4, OldPlace, Zenon DEF Old
    <3> QED
      BY <3>2, <3>3, Zenon DEF Listed
  <2> QED
    BY <1>7, <2>3, <2>4, Zenon DEF brelse
<1>8. ASSUME NEW p \in Procs, iderw(p) PROVE Listed'
  BY <1>8, Zenon DEF iderw, Listed, listVars
<1>9. ASSUME NEW p \in Procs, Woken(p) PROVE Listed'
  BY <1>9, Zenon DEF Woken, Listed, listVars
<1>10. CASE DiskDone
  BY <1>10, Zenon DEF DiskDone, Listed, listVars
<1>11. CASE ideintr
  BY <1>11, Zenon DEF ideintr, Listed, listVars
<1> QED
  BY <1>0, <1>1, <1>2, <1>3, <1>4, <1>5, <1>6, <1>7, <1>8, <1>9, <1>10, <1>11, Zenon
     DEF Next, Kernel, Caller, bget

LEMMA QueuedInit == Init => Queued
  BY DEF Init, Queued

\* iderw puts its buffer, which is in no queue yet, at the end; ideintr takes the first.
LEMMA QueuedStep == TypeOK /\ Referred /\ Locks /\ Flags /\ Queued /\ [Next]_vars => Queued'
<1> SUFFICES ASSUME TypeOK, Referred, Locks, Flags, Queued, [Next]_vars PROVE Queued'
  BY Zenon
<1>0. CASE UNCHANGED vars
  BY <1>0, Zenon DEF vars, Queued, Synced, ideVars
<1>1. ASSUME NEW p \in Procs, NEW n \in Blocks, Hit(p, n) PROVE Queued'
  BY <1>1 DEF Hit, Goes, Queued, Synced, ideVars
<1>2. ASSUME NEW p \in Procs, NEW n \in Blocks, Recycle(p, n) PROVE Queued'
  BY <1>2 DEF Recycle, Goes, Queued, Synced, ideVars
<1>3. ASSUME NEW p \in Procs, acquiresleep(p) PROVE Queued'
  <2>1. pc[p] = "acquiresleep" /\ \E to \in {"lock_asleep", "have", "iderw"} : pc' = [pc EXCEPT ![p] = to]
    BY <1>3, AcquireCases, Zenon
  <2>2. UNCHANGED <<idequeue, buf, valid, dirty>>
    BY <1>3, AcquireCases, Zenon
  <2> QED
    BY <2>1, <2>2 DEF Queued, Synced
<1>4. ASSUME NEW p \in Procs, NEW v \in Values, Modify(p, v) PROVE Queued'
  BY <1>4, Zenon DEF Modify, Queued, Synced, ideVars
<1>5. ASSUME NEW p \in Procs, bwrite(p) \/ Pin(p) PROVE Queued'
  <2>1. /\ UNCHANGED <<idequeue, buf, valid>> /\ dirty \subseteq dirty' /\ pc[p] = "have"
        /\ pc' = pc \/ pc' = [pc EXCEPT ![p] = "iderw"]
    BY <1>5, Zenon DEF bwrite, Pin, Goes, ideVars
  <2>2. \A b : Synced(b)' => Synced(b)
    BY <2>1, Zenon DEF Synced
  <2>3. \A q \in Procs : pc'[q] = "rw_asleep" <=> pc[q] = "rw_asleep"
    BY <2>1 DEF TypeOK, ProcTypes
  <2> QED
    BY <2>1, <2>2, <2>3 DEF Queued
<1>6. ASSUME NEW p \in Procs, releasesleep(p) PROVE Queued'
  <2>1. UNCHANGED <<idequeue, buf, valid, dirty>>
    BY <1>6, Zenon DEF releasesleep, ideVars
  <2>2. \A q \in Procs : pc'[q] = "rw_asleep" <=> pc[q] = "rw_asleep"
    BY <1>6, Zenon DEF releasesleep, WakeLock
  <2> QED
    BY <2>1, <2>2, Zenon DEF Queued, Synced
<1>7. ASSUME NEW p \in Procs, brelse(p) PROVE Queued'
  BY <1>7 DEF brelse, Goes, Queued, Synced, ideVars
<1>8. ASSUME NEW p \in Procs, iderw(p) PROVE Queued'
  <2> DEFINE b == buf[p]
             k == Len(idequeue) + 1
  <2>1. /\ b \in Bufs /\ pc[p] = "iderw" /\ pc' = [pc EXCEPT ![p] = "rw_asleep"] /\ ~Synced(b)
        /\ idequeue' = Append(idequeue, b) /\ UNCHANGED <<buf, valid, dirty>>
    BY <1>8, HasBuf, Zenon DEF iderw, Goes
  <2>2. DOMAIN idequeue = 1 .. Len(idequeue) /\ Len(idequeue) \in Nat
    OBVIOUS
  <2>3. /\ DOMAIN idequeue' = DOMAIN idequeue \cup {k} /\ k \notin DOMAIN idequeue
        /\ idequeue'[k] = b /\ \A i \in DOMAIN idequeue : idequeue'[i] = idequeue[i]
    BY <2>1, <2>2
  <2>4. \A i \in DOMAIN idequeue : idequeue[i] # b
    BY <2>1 DEF Locks, Holding, Queued
  <2>5. \A q \in Procs : pc'[q] = IF q = p THEN "rw_asleep" ELSE pc[q]
    BY <2>1, Zenon DEF TypeOK, ProcTypes
  <2> HIDE DEF k
  <2>6. ASSUME NEW i \in DOMAIN idequeue'
        PROVE  (~Synced(idequeue[i]) /\ \E q \in Procs : pc[q] = "rw_asleep" /\ buf[q] = idequeue[i])'
    BY <2>1, <2>3, <2>5, HasBuf DEF Queued, Synced
  <2>7. ASSUME NEW i \in DOMAIN idequeue', NEW j \in DOMAIN idequeue', idequeue'[i] = idequeue'[j] PROVE i = j
    BY <2>3, <2>4, <2>7 DEF Queued
  <2>8. ASSUME NEW q \in Procs, pc'[q] = "rw_asleep" PROVE (\E i \in DOMAIN idequeue : idequeue[i] = buf[q])'
    BY <2>1, <2>3, <2>5, <2>8, SMTT(30) DEF Queued, TypeOK, ProcTypes
  <2> QED
    BY <2>6, <2>7, <2>8, Zenon DEF Queued
<1>9. ASSUME NEW p \in Procs, Woken(p) PROVE Queued'
  BY <1>9 DEF Woken, Goes, Flags, Queued, Synced, ideVars
<1>10. CASE DiskDone
  BY <1>10, Zenon DEF DiskDone, Queued, Synced
<1>11. CASE ideintr
  <2>1. PICK b \in Bufs : b = idequeue[1] /\ 1 \in DOMAIN idequeue
    BY <1>11, HasBuf DEF ideintr, Queued, TypeOK, ideVars
  <2>2. /\ idequeue' = Tail(idequeue) /\ valid' = valid \cup {b} /\ dirty' = dirty \ {b} /\ buf' = buf
        /\ pc' = WakeBuf(b)
    BY <1>11, <2>1 DEF ideintr
  <2>3. /\ Len(idequeue) \in Nat \ {0} /\ DOMAIN idequeue = 1 .. Len(idequeue)
        /\ DOMAIN idequeue' = 1 .. Len(idequeue) - 1
    BY <2>1, <2>2
  <2>4. \A i \in DOMAIN idequeue' : i + 1 \in DOMAIN idequeue /\ i + 1 # 1 /\ idequeue'[i] = idequeue[i + 1]
    BY <2>2, <2>3
  <2>5. \A i \in DOMAIN idequeue : i # 1 => i - 1 \in DOMAIN idequeue' /\ idequeue'[i - 1] = idequeue[i]
    BY <2>2, <2>3
  <2>6. \A i \in DOMAIN idequeue' : idequeue'[i] # b
    BY <2>1, <2>4 DEF Queued
  <2>7. \A q \in Procs : pc'[q] = IF pc[q] = "rw_asleep" /\ buf[q] = b THEN "rw_woken" ELSE pc[q]
    BY <2>2, Zenon DEF WakeBuf
  <2>8. ASSUME NEW i \in DOMAIN idequeue'
        PROVE  (~Synced(idequeue[i]) /\ \E q \in Procs : pc[q] = "rw_asleep" /\ buf[q] = idequeue[i])'
    <3>1. PICK c : c = idequeue'[i] /\ c = idequeue[i + 1] /\ c # b /\ i + 1 \in DOMAIN idequeue
      BY <2>4, <2>6
    <3>2. PICK q \in Procs : pc[q] = "rw_asleep" /\ buf[q] = c
      BY <3>1 DEF Queued
    <3>3. ~(c \in valid /\ c \notin dirty)
      BY <3>1 DEF Queued, Synced
    <3>4. ~(c \in valid' /\ c \notin dirty')
      BY <2>2, <3>1, <3>3, Zenon
    <3>5. pc'[q] = "rw_asleep" /\ buf'[q] = c
      BY <2>2, <2>7, <3>1, <3>2, Zenon
    <3> QED
      BY <3>1, <3>4, <3>5, Zenon DEF Synced
  <2>9. ASSUME NEW i \in DOMAIN idequeue', NEW j \in DOMAIN idequeue', idequeue'[i] = idequeue'[j] PROVE i = j
    BY <2>3, <2>4, <2>9 DEF Queued
  <2>10. ASSUME NEW q \in Procs, pc'[q] = "rw_asleep" PROVE (\E i \in DOMAIN idequeue : idequeue[i] = buf[q])'
    <3>1. pc[q] = "rw_asleep" /\ buf[q] # b
      BY <2>7, <2>10, Zenon
    <3>2. PICK i \in DOMAIN idequeue : idequeue[i] = buf[q]
      BY <3>1, Zenon DEF Queued
    <3>3. i # 1
      BY <2>1, <3>1, <3>2, Zenon
    <3>4. i - 1 \in DOMAIN idequeue' /\ idequeue'[i - 1] = buf'[q]
      BY <2>2, <2>5, <3>2, <3>3, Zenon
    <3> QED
      BY <3>4, Zenon
  <2> QED
    BY <2>8, <2>9, <2>10, Zenon DEF Queued
<1> QED
  BY <1>0, <1>1, <1>2, <1>3, <1>4, <1>5, <1>6, <1>7, <1>8, <1>9, <1>10, <1>11, Zenon
     DEF Next, Kernel, Caller, bget

LEMMA DiskWorksOnHeadInit == Init => DiskWorksOnHead
  BY Zenon DEF Init, DiskWorksOnHead, Idle

\* The request at the head is what the disk was told, and stays as it is until
\* the interrupt: its buffer is locked by the process that waits for it.
LEMMA DiskWorksOnHeadStep ==
  TypeOK /\ Referred /\ Counted /\ Locks /\ Flags /\ Queued /\ DiskWorksOnHead /\ [Next]_vars => DiskWorksOnHead'
<1> SUFFICES ASSUME TypeOK, Referred, Counted, Locks, Flags, Queued, DiskWorksOnHead, [Next]_vars PROVE DiskWorksOnHead'
  BY Zenon
<1>a. \A b \in Bufs : Command(b) # NoCommand
  BY Zenon DEF Command, NoCommand
<1>b. ASSUME UNCHANGED <<idequeue, device, irq>>,
             idequeue # <<>> => Command(Head(idequeue))' = Command(Head(idequeue))
      PROVE  DiskWorksOnHead'
  BY <1>b, Zenon DEF DiskWorksOnHead, Idle
<1>c. ASSUME UNCHANGED <<idequeue, blockno, data, dirty>> PROVE Command(Head(idequeue))' = Command(Head(idequeue))
  BY <1>c, Zenon DEF Command
<1>d. ASSUME idequeue # <<>> PROVE
        \E h \in Procs, b \in Bufs : Head(idequeue) = b /\ pc[h] = "rw_asleep" /\ buf[h] = b /\ pid[b] = h
  BY <1>d, AtHead DEF Locks, Holding
<1>0. CASE UNCHANGED vars
  BY <1>0, <1>b, <1>c, Zenon DEF vars, listVars, ideVars
<1>1. ASSUME NEW p \in Procs, NEW n \in Blocks, Hit(p, n) PROVE DiskWorksOnHead'
  BY <1>1, <1>b, <1>c, Zenon DEF Hit, ideVars
<1>2. ASSUME NEW p \in Procs, NEW n \in Blocks, Recycle(p, n) PROVE DiskWorksOnHead'
  <2>1. PICK b \in Bufs : refcnt[b] = 0 /\ blockno' = [blockno EXCEPT ![b] = n]
    BY <1>2, Zenon DEF Recycle, Unused, TypeOK, ListTypes
  <2>2. \A q \in Procs : buf[q] # b
    BY <2>1, Zenon DEF Counted, Users
  <2>3. UNCHANGED <<idequeue, device, irq, data, dirty>>
    BY <1>2, Zenon DEF Recycle, ideVars
  <2>4. ASSUME idequeue # <<>> PROVE Command(Head(idequeue))' = Command(Head(idequeue))
    BY <1>d, <2>1, <2>2, <2>3, <2>4 DEF Command
  <2> QED
    BY <1>b, <2>3, <2>4, Zenon
<1>3. ASSUME NEW p \in Procs, acquiresleep(p) PROVE DiskWorksOnHead'
  BY <1>3, <1>b, <1>c, AcquireCases, Zenon
<1>4. ASSUME NEW p \in Procs, NEW v \in Values, Modify(p, v) PROVE DiskWorksOnHead'
  <2>1. UNCHANGED <<idequeue, device, irq, blockno, dirty>> /\ data' = [data EXCEPT ![buf[p]] = v] /\ pc[p] = "have"
    BY <1>4, Zenon DEF Modify, listVars, ideVars
  <2>2. ASSUME idequeue # <<>> PROVE Command(Head(idequeue))' = Command(Head(idequeue))
    BY <1>d, <2>1, <2>2 DEF Command, Locks, Holding
  <2> QED
    BY <1>b, <2>1, <2>2, Zenon
<1>5. ASSUME NEW p \in Procs, bwrite(p) \/ Pin(p) PROVE DiskWorksOnHead'
  <2>1. UNCHANGED <<idequeue, device, irq, blockno, data>> /\ dirty' = dirty \cup {buf[p]} /\ pc[p] = "have"
    BY <1>5, Zenon DEF bwrite, Pin, Goes, listVars, ideVars
  <2>2. ASSUME idequeue # <<>> PROVE Command(Head(idequeue))' = Command(Head(idequeue))
    BY <1>d, <2>1, <2>2 DEF Command, Locks, Holding
  <2> QED
    BY <1>b, <2>1, <2>2, Zenon
<1>6. ASSUME NEW p \in Procs, releasesleep(p) \/ brelse(p) \/ Woken(p) PROVE DiskWorksOnHead'
  BY <1>6, <1>b, <1>c, Zenon DEF releasesleep, brelse, Woken, listVars, ideVars
<1>7. ASSUME NEW p \in Procs, iderw(p) PROVE DiskWorksOnHead'
  <2>1. PICK b \in Bufs : b = buf[p]
    BY <1>7, HasBuf, Zenon DEF iderw, Goes
  <2>2. /\ idequeue' = Append(idequeue, b) /\ device' = IF idequeue = <<>> THEN Command(b) ELSE device
        /\ UNCHANGED <<irq, blockno, data, dirty>>
    BY <1>7, <2>1, Zenon DEF iderw, listVars
  <2>3. \A c \in Bufs : Command(c)' = Command(c)
    BY <2>2, Zenon DEF Command
  <2>4. idequeue' # <<>> /\ Head(idequeue') = IF idequeue = <<>> THEN b ELSE Head(idequeue)
    BY <2>2
  <2>5. Head(idequeue') \in Bufs /\ device' = Command(Head(idequeue'))
    BY <2>1, <2>2, <2>4, AtHead, Zenon
  <2>6. device' = Command(Head(idequeue))'
    BY <2>2, <2>5, Zenon DEF Command
  <2> QED
    BY <1>a, <2>2, <2>4, <2>5, <2>6, Zenon DEF DiskWorksOnHead, Idle
<1>8. CASE DiskDone
  BY <1>8, <1>c, Zenon DEF DiskDone, DiskWorksOnHead, Idle, listVars
<1>9. CASE ideintr
  <2>1. PICK b \in Bufs : b = Head(idequeue)
    BY <1>9, AtHead, Zenon DEF ideintr
  <2>2. /\ idequeue # <<>> /\ idequeue' = Tail(idequeue) /\ ~irq' /\ dirty' = dirty \ {b} /\ blockno' = blockno
        /\ \A c \in Bufs : c # b => data'[c] = data[c]
        /\ device' = IF Tail(idequeue) = <<>> THEN NoCommand ELSE Command(Head(Tail(idequeue)))
    BY <1>9, <2>1, Zenon DEF ideintr, TypeOK, DataTypes, listVars
  <2>3. CASE Tail(idequeue) = <<>>
    BY <2>2, <2>3, Zenon DEF DiskWorksOnHead, Idle
  <2>4. CASE Tail(idequeue) # <<>>
    <3>0. idequeue \in Seq(Bufs) /\ Len(idequeue) \in Nat /\ Len(idequeue) >= 2
      BY <2>2, <2>4 DEF TypeOK, QueueTypes
    <3>1. PICK c \in Bufs : c = Head(Tail(idequeue)) /\ c = idequeue[2] /\ {1, 2} \subseteq DOMAIN idequeue
      BY <3>0
    <3>2. b = idequeue[1]
      BY <2>1, <2>2
    <3>3. c # b
      BY <3>1, <3>2 DEF Queued
    <3>4. c = Head(idequeue') /\ device' = Command(c)
      BY <2>2, <2>4, <3>1, Zenon
    <3>5. device' = Command(Head(idequeue))'
      BY <2>2, <3>3, <3>4, Zenon DEF Command
    <3> QED
      BY <1>a, <2>2, <2>4, <3>4, <3>5, Zenon DEF DiskWorksOnHead, Idle
  <2> QED
    BY <2>3, <2>4, Zenon
<1> QED
  BY <1>0, <1>1, <1>2, <1>3, <1>4, <1>5, <1>6, <1>7, <1>8, <1>9, Zenon DEF Next, Kernel, Caller, bget

LEMMA WrittenInit == Init => Written
  BY Zenon DEF Init, Written

\* The disk does what it was told before it interrupts, and the queue waits meanwhile.
LEMMA WrittenStep == TypeOK /\ Referred /\ Queued /\ DiskWorksOnHead /\ Written /\ [Next]_vars => Written'
<1> SUFFICES ASSUME TypeOK, Referred, Queued, DiskWorksOnHead, Written, [Next]_vars PROVE Written'
  BY Zenon
<1>0. CASE UNCHANGED vars
  BY <1>0, Zenon DEF vars, Written, ideVars
<1>1. ASSUME NEW p \in Procs, NEW n \in Blocks, Hit(p, n) PROVE Written'
  BY <1>1, Zenon DEF Hit, Written, ideVars
<1>2. ASSUME NEW p \in Procs, NEW n \in Blocks, Recycle(p, n) PROVE Written'
  BY <1>2, Zenon DEF Recycle, Written, ideVars
<1>3. ASSUME NEW p \in Procs, acquiresleep(p) PROVE Written'
  BY <1>3, AcquireCases, Zenon DEF Written
<1>4. ASSUME NEW p \in Procs, NEW v \in Values, Modify(p, v) PROVE Written'
  BY <1>4, Zenon DEF Modify, Written, ideVars
<1>5. ASSUME NEW p \in Procs, bwrite(p) \/ Pin(p) PROVE Written'
  BY <1>5, Zenon DEF bwrite, Pin, Written, ideVars
<1>6. ASSUME NEW p \in Procs, releasesleep(p) PROVE Written'
  BY <1>6, Zenon DEF releasesleep, Written, ideVars
<1>7. ASSUME NEW p \in Procs, brelse(p) PROVE Written'
  BY <1>7, Zenon DEF brelse, Written, ideVars
<1>8. ASSUME NEW p \in Procs, iderw(p) PROVE Written'
  BY <1>8, Zenon DEF iderw, DiskWorksOnHead, Written
<1>9. ASSUME NEW p \in Procs, Woken(p) PROVE Written'
  BY <1>9, Zenon DEF Woken, Written, ideVars
<1>10. CASE DiskDone
  <2>1. device' = device /\ faulty' = faulty
    BY <1>10, Zenon DEF DiskDone
  <2>2. ASSUME ~faulty, device.kind = "write" PROVE disk'[device.n] = device.v
    BY <1>10, <2>2, AtHead DEF DiskDone, DiskWorksOnHead, TypeOK, DataTypes
  <2> QED
    BY <2>1, <2>2, Zenon DEF Written
<1>11. CASE ideintr
  BY <1>11, Zenon DEF ideintr, Written
<1> QED
  BY <1>0, <1>1, <1>2, <1>3, <1>4, <1>5, <1>6, <1>7, <1>8, <1>9, <1>10, <1>11, Zenon
     DEF Next, Kernel, Caller, bget

LEMMA CleanInit == Init => CleanIsDisk
  BY Zenon DEF Init, CleanIsDisk

\* What is clean was read from the disk or written to it since it was changed.
LEMMA CleanStep ==
  TypeOK /\ Referred /\ Counted /\ Locks /\ Flags /\ Queued /\ Distinct /\ DiskWorksOnHead /\ Written
    /\ CleanIsDisk /\ [Next]_vars => CleanIsDisk'
<1> SUFFICES ASSUME TypeOK, Referred, Counted, Locks, Flags, Queued, Distinct, DiskWorksOnHead, Written,
                    CleanIsDisk, [Next]_vars
             PROVE  CleanIsDisk'
  BY Zenon
<1> DEFINE Clean(b) == b \in valid \ dirty /\ \A p \in changed : buf[p] # b
<1>f. faulty' = faulty
  BY Zenon
     DEF Next, Kernel, Caller, bget, vars, Hit, Recycle, acquiresleep, Modify, bwrite, Pin, releasesleep,
         brelse, iderw, Woken, DiskDone, ideintr, ideVars
<1>g. valid' \subseteq Bufs
  BY TypeStep, Zenon DEF TypeOK, DataTypes
<1> SUFFICES ASSUME ~faulty PROVE \A b \in Bufs : Clean(b)' => data'[b] = disk'[blockno'[b]]
  BY <1>f, <1>g, Zenon DEF CleanIsDisk
<1>a. \A b \in Bufs : Clean(b) => data[b] = disk[blockno[b]]
  BY Zenon DEF CleanIsDisk
<1>b. ASSUME NEW p \in Procs, p \in changed PROVE pc[p] = "have"
  BY <1>b, Zenon DEF Flags
<1>c. ASSUME UNCHANGED <<data, disk, blockno, valid, dirty, changed, buf>>
      PROVE  \A b \in Bufs : Clean(b)' => data'[b] = disk'[blockno'[b]]
  BY <1>a, <1>c, Zenon
<1>d. changed \subseteq Procs
  BY Zenon DEF TypeOK, ProcTypes
<1>0. CASE UNCHANGED vars
  BY <1>0, <1>c, Zenon DEF vars, listVars, ideVars
<1>1. ASSUME NEW p \in Procs, NEW n \in Blocks, Hit(p, n), NEW b \in Bufs, Clean(b)' PROVE data'[b] = disk'[blockno'[b]]
  <2>1. /\ UNCHANGED <<data, disk, blockno, valid, dirty, changed>> /\ pc[p] = "idle"
        /\ \E c \in Bufs : buf' = [buf EXCEPT ![p] = c]
    BY <1>1, Zenon DEF Hit, Goes, Cached, ideVars
  <2>2. Clean(b)
    BY <1>1, <1>b, <1>d, <2>1
  <2> QED
    BY <1>a, <2>1, <2>2, Zenon
<1>2. ASSUME NEW p \in Procs, NEW n \in Blocks, Recycle(p, n), NEW b \in Bufs, Clean(b)'
      PROVE  data'[b] = disk'[blockno'[b]]
  <2>1. PICK c \in Bufs : /\ UNCHANGED <<data, disk, dirty, changed>> /\ pc[p] = "idle"
                          /\ blockno' = [blockno EXCEPT ![c] = n] /\ valid' = valid \ {c}
                          /\ buf' = [buf EXCEPT ![p] = c]
    BY <1>2, Zenon DEF Recycle, Goes, TypeOK, ListTypes, ideVars
  <2>2. Clean(b) /\ b # c
    BY <1>2, <1>b, <1>d, <2>1
  <2> QED
    BY <1>a, <2>1, <2>2
<1>3. ASSUME NEW p \in Procs, acquiresleep(p) PROVE \A b \in Bufs : Clean(b)' => data'[b] = disk'[blockno'[b]]
  BY <1>3, <1>c, AcquireCases, Zenon
<1>4. ASSUME NEW p \in Procs, NEW v \in Values, Modify(p, v), NEW b \in Bufs, Clean(b)' PROVE data'[b] = disk'[blockno'[b]]
  <2>1. /\ UNCHANGED <<disk, blockno, valid, dirty, buf>>
        /\ data' = [data EXCEPT ![buf[p]] = v] /\ changed' = changed \cup {p}
    BY <1>4, Zenon DEF Modify, listVars, ideVars
  <2>2. Clean(b) /\ b # buf[p]
    BY <1>4, <2>1, Zenon
  <2> QED
    BY <1>a, <2>1, <2>2
<1>5. ASSUME NEW p \in Procs, bwrite(p) \/ Pin(p), NEW b \in Bufs, Clean(b)' PROVE data'[b] = disk'[blockno'[b]]
  <2>1. /\ UNCHANGED <<data, disk, blockno, valid, buf>> /\ dirty' = dirty \cup {buf[p]} /\ changed' = changed \ {p}
    BY <1>5, Zenon DEF bwrite, Pin, listVars, ideVars
  <2>2. Clean(b)
    BY <1>5, <2>1, Zenon
  <2> QED
    BY <1>a, <2>1, <2>2, Zenon
<1>6. ASSUME NEW p \in Procs, releasesleep(p) \/ iderw(p) \/ Woken(p)
      PROVE  \A b \in Bufs : Clean(b)' => data'[b] = disk'[blockno'[b]]
  BY <1>6, <1>c, Zenon DEF releasesleep, iderw, Woken, listVars, ideVars
<1>7. ASSUME NEW p \in Procs, brelse(p), NEW b \in Bufs, Clean(b)' PROVE data'[b] = disk'[blockno'[b]]
  <2>1. /\ UNCHANGED <<data, disk, blockno, valid, dirty, changed>> /\ pc[p] = "brelse"
        /\ buf' = [buf EXCEPT ![p] = NoBuf]
    BY <1>7, Zenon DEF brelse, Goes, ideVars
  <2>2. Clean(b)
    BY <1>7, <1>b, <1>d, <2>1
  <2> QED
    BY <1>a, <2>1, <2>2, Zenon
<1>8. ASSUME DiskDone, NEW b \in Bufs, Clean(b)' PROVE data'[b] = disk'[blockno'[b]]
  <2>1. UNCHANGED <<data, blockno, valid, dirty, changed, buf>> /\ ~Idle /\ idequeue # <<>>
    BY <1>8, Zenon DEF DiskDone, DiskWorksOnHead, listVars
  <2>2. Clean(b) /\ blockno[b] \in Blocks
    BY <1>8, <2>1, Zenon DEF Flags
  <2>3. CASE disk' = disk
    BY <1>a, <2>1, <2>2, <2>3, Zenon
  <2>4. CASE device.kind = "write" /\ disk' = [disk EXCEPT ![device.n] = device.v]
    <3>1. PICK h \in Bufs : h \in dirty /\ device.n = blockno[h] /\ blockno[h] \in Blocks
      BY <2>1, <2>4, AtHead, Zenon
    <3>2. blockno[b] # blockno[h]
      BY <2>2, <3>1, Zenon DEF Distinct
    <3> QED
      BY <1>a, <2>1, <2>2, <2>4, <3>1, <3>2
  <2> QED
    BY <1>8, <2>3, <2>4, Zenon DEF DiskDone
<1>9. ASSUME ideintr, NEW b \in Bufs, Clean(b)' PROVE data'[b] = disk'[blockno'[b]]
  <2>1. PICK h \in Bufs : h = Head(idequeue)
    BY <1>9, AtHead, Zenon DEF ideintr
  <2>2. /\ UNCHANGED <<disk, blockno, changed, buf>> /\ valid' = valid \cup {h} /\ dirty' = dirty \ {h}
        /\ irq /\ idequeue # <<>>
        /\ \/ h \notin dirty /\ data' = [data EXCEPT ![h] = disk[device.n]]
           \/ h \in dirty /\ data' = data
    BY <1>9, <2>1, Zenon DEF ideintr, listVars
  <2>3. /\ device.n = blockno[h] /\ device.kind = IF h \in dirty THEN "write" ELSE "read"
        /\ h \in dirty => device.v = data[h]
    BY <2>1, <2>2, AtHead, Zenon
  <2>4. CASE b = h
    BY <2>2, <2>3, <2>4, Zenon DEF Written, TypeOK, DataTypes
  <2>5. CASE b # h
    <3>1. Clean(b) /\ data'[b] = data[b]
      BY <1>9, <2>2, <2>5, Zenon DEF TypeOK, DataTypes
    <3> QED
      BY <1>a, <2>2, <3>1, Zenon
  <2> QED
    BY <2>4, <2>5, Zenon
<1> QED
  BY <1>0, <1>1, <1>2, <1>3, <1>4, <1>5, <1>6, <1>7, <1>8, <1>9, Zenon DEF Next, Kernel, Caller, bget

-----------------------------------------------------------------------------
-----------------------------------------------------------------------------
\* The cache implements BlockStore.

Has(p, n) == blk[p] = n /\ pc[p] \in Holding

\* What the refinement mapping gives for a block that is held, or not,
HolderIs ==
  \A n \in Blocks :
    /\ \A p \in Procs : Has(p, n) => Holder[n] = p
    /\ (\A p \in Procs : ~Has(p, n)) => Holder[n] = NoProc

\* and for one that is cached, or not.
ContentsAre ==
  \A n \in Blocks :
    /\ \A b \in valid : blockno[b] = n => Contents[n] = data[b]
    /\ (\A b \in valid : blockno[b] # n) => Contents[n] = disk[n]

\* Nobody else has the lock of the block's only buffer.
LEMMA HolderKnown == IInv => HolderIs
<1> SUFFICES ASSUME IInv, NEW n \in Blocks
             PROVE  /\ \A p \in Procs : Has(p, n) => Holder[n] = p
                    /\ (\A p \in Procs : ~Has(p, n)) => Holder[n] = NoProc
  BY Zenon DEF HolderIs
<1>1. ASSUME NEW p \in Procs, Has(p, n), NEW q \in Procs, Has(q, n) PROVE p = q
  <2>1. /\ buf[p] \in Bufs /\ buf[q] \in Bufs /\ blockno[buf[p]] = n /\ blockno[buf[q]] = n
        /\ pid[buf[p]] = p /\ pid[buf[q]] = q
    BY <1>1, HasBuf, Basics, Zenon DEF IInv, Has, Holding, Referred, Locks
  <2> QED
    BY <2>1, Zenon DEF IInv, Distinct
<1> QED
  BY <1>1, Zenon DEF Holder, Has, Holding

LEMMA ContentsKnown == IInv => ContentsAre
<1> SUFFICES ASSUME IInv, NEW n \in Blocks
             PROVE  /\ \A b \in valid : blockno[b] = n => Contents[n] = data[b]
                    /\ (\A b \in valid : blockno[b] # n) => Contents[n] = disk[n]
  BY Zenon DEF ContentsAre
<1>1. valid \subseteq Bufs /\ valid \cup dirty = valid
  BY Zenon DEF IInv, TypeOK, DataTypes, Flags
<1>2. \A b, c \in Cached(n) : b = c
  BY Zenon DEF IInv, Distinct, Cached
<1> QED
  BY <1>1, <1>2, Zenon DEF Contents, Cached

\* A step of a disk that works is a step of BlockStore or shows in neither
\* variable of it.
LEMMA StoreStep ==
  ASSUME IInv, IInv', Counted, ~faulty, [Next]_vars
  PROVE  Store!Next \/ UNCHANGED <<Contents, Holder>>
<1>1. HolderIs /\ ContentsAre
  BY HolderKnown, ContentsKnown, Zenon
<1>2. HolderIs'
  <2>1. (IInv => HolderIs)'
    BY HolderKnown, PTL
  <2> QED
    BY <2>1, Zenon
<1>3. ContentsAre'
  <2>1. (IInv => ContentsAre)'
    BY ContentsKnown, PTL
  <2> QED
    BY <2>1, Zenon
<1>4. /\ Holder = [n \in Blocks |-> Holder[n]] /\ Holder' = [n \in Blocks |-> Holder'[n]]
      /\ Contents = [n \in Blocks |-> Contents[n]] /\ Contents' = [n \in Blocks |-> Contents'[n]]
  BY Zenon DEF Holder, Contents
<1>5. ASSUME \A q \in Procs, n \in Blocks : Has(q, n)' <=> Has(q, n) PROVE Holder' = Holder
  <2>1. ASSUME NEW n \in Blocks PROVE Holder'[n] = Holder[n]
    <3>1. CASE \E q \in Procs : Has(q, n)
      BY <1>1, <1>2, <1>5, <3>1, Zenon DEF HolderIs
    <3>2. CASE \A q \in Procs : ~Has(q, n)
      BY <1>1, <1>2, <1>5, <3>2, Zenon DEF HolderIs
    <3> QED
      BY <3>1, <3>2, Zenon
  <2> QED
    BY <1>4, <2>1, Zenon
<1>6. ASSUME UNCHANGED <<blockno, valid, data, disk>> PROVE Contents' = Contents
  <2>1. ASSUME NEW n \in Blocks PROVE Contents'[n] = Contents[n]
    <3>1. CASE \E b \in valid : blockno[b] = n
      BY <1>1, <1>3, <1>6, <3>1 DEF ContentsAre
    <3>2. CASE \A b \in valid : blockno[b] # n
      BY <1>1, <1>3, <1>6, <3>2, Zenon DEF ContentsAre
    <3> QED
      BY <3>1, <3>2, Zenon
  <2> QED
    BY <1>4, <2>1, Zenon
<1>t. TypeOK /\ Referred /\ Locks /\ Flags /\ Queued /\ Distinct /\ DiskWorksOnHead /\ CleanIsDisk
  BY Zenon DEF IInv
<1>7. CASE UNCHANGED vars
  <2>1. Contents' = Contents
    BY <1>6, <1>7, Zenon DEF vars, listVars, ideVars
  <2>2. Holder' = Holder
    BY <1>5, <1>7, Zenon DEF vars, Has
  <2> QED
    BY <2>1, <2>2, Zenon
<1>8. ASSUME NEW p \in Procs, NEW n \in Blocks, Hit(p, n) PROVE UNCHANGED <<Contents, Holder>>
  <2>1. Contents' = Contents
    BY <1>6, <1>8, Zenon DEF Hit, ideVars
  <2>2. Holder' = Holder
    BY <1>5, <1>8, <1>t DEF Hit, Goes, Has, Holding
  <2> QED
    BY <2>1, <2>2, Zenon
<1>9. ASSUME NEW p \in Procs, NEW n \in Blocks, Recycle(p, n) PROVE UNCHANGED <<Contents, Holder>>
  <2>1. Holder' = Holder
    BY <1>5, <1>9, <1>t DEF Recycle, Goes, Has, Holding
  <2>2. PICK c \in Bufs : /\ refcnt[c] = 0 /\ c \notin dirty
                          /\ blockno' = [blockno EXCEPT ![c] = n] /\ valid' = valid \ {c}
                          /\ UNCHANGED <<data, disk>>
    BY <1>9, <1>t, Zenon DEF Recycle, Unused, TypeOK, ListTypes, ideVars
  <2>3. c \in valid => data[c] = disk[blockno[c]]
    <3>1. \A p1 \in changed : buf[p1] # c
      BY <1>t, <2>2, Zenon DEF Counted, Users, TypeOK, ProcTypes
    <3> QED
      BY <1>t, <2>2, <3>1, Zenon DEF CleanIsDisk
  <2>4. \A b \in Bufs : blockno[b] # n
    BY <1>9, Zenon DEF Recycle, Cached
  <2>5. ASSUME NEW m \in Blocks PROVE Contents'[m] = Contents[m]
    <3>1. CASE \E b \in valid : blockno[b] = m /\ b # c
      <4>1. PICK b \in valid : blockno[b] = m /\ b # c
        BY <3>1, Zenon
      <4>2. b \in valid' /\ blockno'[b] = m /\ data'[b] = data[b]
        BY <1>t, <2>2, <4>1
      <4> QED
        BY <1>1, <1>3, <4>1, <4>2, Zenon DEF ContentsAre
    <3>2. CASE ~\E b \in valid : blockno[b] = m /\ b # c
      <4>1. \A b \in valid' : blockno'[b] # m
        BY <1>t, <2>2, <3>2
      <4>2. Contents'[m] = disk[m]
        BY <1>3, <2>2, <4>1, Zenon DEF ContentsAre
      <4>3. Contents[m] = disk[m]
        BY <1>1, <2>3, <3>2, Zenon DEF ContentsAre
      <4> QED
        BY <4>2, <4>3, Zenon
    <3> QED
      BY <3>1, <3>2, Zenon
  <2> QED
    BY <1>4, <2>1, <2>5, Zenon
<1>10. ASSUME NEW p \in Procs, acquiresleep(p) PROVE Store!Next \/ UNCHANGED <<Contents, Holder>>
  <2>1. Contents' = Contents /\ pc[p] = "acquiresleep" /\ buf' = buf /\ blk' = blk
    BY <1>6, <1>10, AcquireCases, Zenon
  <2>2. CASE pc' = [pc EXCEPT ![p] = "lock_asleep"]
    <3>1. Holder' = Holder
      BY <1>5, <1>t, <2>1, <2>2 DEF Has, Holding
    <3> QED
      BY <2>1, <3>1, Zenon
  <2>3. CASE ~locked[buf[p]] /\ pc' = [pc EXCEPT ![p] = IF buf[p] \in valid THEN "have" ELSE "iderw"]
    <3>1. PICK n \in Blocks : n = blk[p] /\ buf[p] \in Bufs /\ blockno[buf[p]] = n
      BY <1>t, <2>1, HasBuf, Zenon DEF Referred
    <3>2. ASSUME NEW q \in Procs, Has(q, n) PROVE FALSE
      <4>1. buf[q] \in Bufs /\ locked[buf[q]] /\ blockno[buf[q]] = n
        BY <1>t, <3>2, HasBuf, Zenon DEF Has, Holding, Locks, Referred
      <4> QED
        BY <1>t, <2>3, <3>1, <4>1, Zenon DEF Distinct
    <3>3. Holder[n] = NoProc
      BY <1>1, <3>2, Zenon DEF HolderIs
    <3>4. Has(p, n)' /\ \A q \in Procs, m \in Blocks : m # n => (Has(q, m)' <=> Has(q, m))
      BY <1>t, <2>1, <2>3, <3>1, Zenon DEF Has, Holding, TypeOK, ProcTypes
    <3>5. ASSUME NEW m \in Blocks PROVE Holder'[m] = IF m = n THEN p ELSE Holder[m]
      <4>1. CASE m = n
        BY <1>2, <3>4, <4>1, Zenon DEF HolderIs
      <4>2. CASE m # n /\ \E q \in Procs : Has(q, m)
        BY <1>1, <1>2, <3>4, <4>2, Zenon DEF HolderIs
      <4>3. CASE m # n /\ \A q \in Procs : ~Has(q, m)
        BY <1>1, <1>2, <3>4, <4>3, Zenon DEF HolderIs
      <4> QED
        BY <4>1, <4>2, <4>3, Zenon
    <3>6. Holder' = [Holder EXCEPT ![n] = p]
      BY <1>4, <3>5, Zenon
    <3> QED
      BY <2>1, <3>3, <3>6, Zenon DEF Store!Next, Store!Get
  <2> QED
    BY <1>10, <2>2, <2>3, AcquireCases, Zenon
<1>11. ASSUME NEW p \in Procs, NEW v \in Values, Modify(p, v) PROVE Store!Next
  <2>1. /\ pc[p] = "have" /\ data' = [data EXCEPT ![buf[p]] = v]
        /\ UNCHANGED <<blockno, valid, disk, pc, blk, buf>>
    BY <1>11, Zenon DEF Modify, listVars, ideVars
  <2>2. PICK n \in Blocks : n = blk[p] /\ buf[p] \in valid /\ buf[p] \in Bufs /\ blockno[buf[p]] = n
    BY <1>t, <2>1, HasBuf, Zenon DEF Referred, Flags
  <2>3. Holder' = Holder /\ Holder[n] = p
    BY <1>1, <1>5, <2>1, <2>2, Zenon DEF Has, Holding, HolderIs
  <2>4. ASSUME NEW m \in Blocks PROVE Contents'[m] = IF m = n THEN v ELSE Contents[m]
    <3>1. CASE m = n
      <4>1. data'[buf[p]] = v
        BY <1>t, <2>1, <2>2, Zenon DEF TypeOK, DataTypes
      <4> QED
        BY <1>3, <2>1, <2>2, <3>1, <4>1, Zenon DEF ContentsAre
    <3>2. CASE m # n /\ \E b \in valid : blockno[b] = m
      <4>1. PICK b \in valid : blockno[b] = m
        BY <3>2, Zenon
      <4>2. data'[b] = data[b]
        BY <1>t, <2>1, <2>2, <3>2, <4>1
      <4> QED
        BY <1>1, <1>3, <2>1, <3>2, <4>1, <4>2, Zenon DEF ContentsAre
    <3>3. CASE m # n /\ \A b \in valid : blockno[b] # m
      BY <1>1, <1>3, <2>1, <3>3, Zenon DEF ContentsAre
    <3> QED
      BY <3>1, <3>2, <3>3, Zenon
  <2>5. Contents' = [Contents EXCEPT ![n] = v]
    BY <1>4, <2>4, Zenon
  <2> QED
    BY <2>3, <2>5, Zenon DEF Store!Next, Store!Change
<1>12. ASSUME NEW p \in Procs, bwrite(p) \/ Pin(p) \/ iderw(p) \/ Woken(p) PROVE UNCHANGED <<Contents, Holder>>
  <2>1. Contents' = Contents
    BY <1>6, <1>12, Zenon DEF bwrite, Pin, iderw, Woken, listVars, ideVars
  <2>2. /\ blk' = blk /\ pc[p] \in Holding /\ pc'[p] \in Holding
        /\ \A q \in Procs : q # p => pc'[q] = pc[q]
    BY <1>12, <1>t, Zenon DEF bwrite, Pin, iderw, Woken, Goes, Holding, TypeOK, ProcTypes
  <2>3. Holder' = Holder
    BY <1>5, <2>2, Zenon DEF Has
  <2> QED
    BY <2>1, <2>3, Zenon
<1>13. ASSUME NEW p \in Procs, releasesleep(p) PROVE Store!Next
  <2>1. pc[p] = "have" /\ UNCHANGED <<blockno, valid, data, disk, blk, buf>>
    BY <1>13, Zenon DEF releasesleep, listVars, ideVars
  <2>2. PICK n \in Blocks : n = blk[p]
    BY <1>t, <2>1, Zenon DEF Referred
  <2>3. pc'[p] = "brelse" /\ \A q \in Procs : q # p => (pc'[q] \in Holding <=> pc[q] \in Holding)
    BY <1>13, <1>t, Zenon DEF releasesleep, WakeLock, Holding
  <2>4. Has(p, n) /\ Holder[n] = p
    BY <1>1, <2>1, <2>2, Zenon DEF Has, Holding, HolderIs
  <2>5. ASSUME NEW q \in Procs, Has(q, n)' PROVE FALSE
    <3>1. q # p /\ Has(q, n)
      BY <2>1, <2>3, <2>5, Zenon DEF Has, Holding
    <3> QED
      BY <1>1, <2>4, <3>1, Zenon DEF HolderIs
  <2>6. \A q \in Procs, m \in Blocks : m # n => (Has(q, m)' <=> Has(q, m))
    BY <2>1, <2>2, <2>3, Zenon DEF Has
  <2>7. ASSUME NEW m \in Blocks PROVE Holder'[m] = IF m = n THEN NoProc ELSE Holder[m]
    <3>1. CASE m = n
      BY <1>2, <2>5, <3>1, Zenon DEF HolderIs
    <3>2. CASE m # n /\ \E q \in Procs : Has(q, m)
      BY <1>1, <1>2, <2>6, <3>2, Zenon DEF HolderIs
    <3>3. CASE m # n /\ \A q \in Procs : ~Has(q, m)
      BY <1>1, <1>2, <2>6, <3>3, Zenon DEF HolderIs
    <3> QED
      BY <3>1, <3>2, <3>3, Zenon
  <2>8. Holder' = [Holder EXCEPT ![n] = NoProc] /\ Contents' = Contents
    BY <1>4, <1>6, <2>1, <2>7, Zenon
  <2> QED
    BY <2>4, <2>8, Zenon DEF Store!Next, Store!Release
<1>14. ASSUME NEW p \in Procs, brelse(p) PROVE UNCHANGED <<Contents, Holder>>
  <2>1. Contents' = Contents
    BY <1>6, <1>14, Zenon DEF brelse, ideVars
  <2>2. Holder' = Holder
    BY <1>5, <1>14, <1>t DEF brelse, Goes, Has, Holding
  <2> QED
    BY <2>1, <2>2, Zenon
<1>15. CASE DiskDone
  <2>1. /\ UNCHANGED <<blockno, valid, data, pc, blk>> /\ ~Idle /\ idequeue # <<>>
        /\ disk' = disk \/ (device.kind = "write" /\ disk' = [disk EXCEPT ![device.n] = device.v])
    BY <1>15, <1>t, Zenon DEF DiskDone, DiskWorksOnHead, listVars
  <2>2. Holder' = Holder
    BY <1>5, <2>1, Zenon DEF Has
  <2>3. ASSUME NEW m \in Blocks PROVE Contents'[m] = Contents[m]
    <3>1. CASE \E b \in valid : blockno[b] = m
      BY <1>1, <1>3, <2>1, <3>1 DEF ContentsAre
    <3>2. CASE \A b \in valid : blockno[b] # m
      <4>1. disk'[m] = disk[m]
        <5>1. CASE device.kind = "write" /\ disk' = [disk EXCEPT ![device.n] = device.v]
          <6>1. PICK h \in Bufs : h \in dirty /\ device.n = blockno[h]
            BY <1>t, <2>1, <5>1, AtHead, Zenon
          <6> QED
            BY <1>t, <3>2, <5>1, <6>1 DEF Flags
        <5> QED
          BY <2>1, <5>1, Zenon
      <4> QED
        BY <1>1, <1>3, <2>1, <3>2, <4>1, Zenon DEF ContentsAre
    <3> QED
      BY <3>1, <3>2, Zenon
  <2> QED
    BY <1>4, <2>2, <2>3, Zenon
<1>16. CASE ideintr
  <2>1. PICK h \in Bufs : h = Head(idequeue)
    BY <1>16, <1>t, AtHead, Zenon DEF ideintr
  <2>2. /\ UNCHANGED <<disk, blockno, blk>> /\ valid' = valid \cup {h} /\ idequeue # <<>>
        /\ \/ h \notin dirty /\ data' = [data EXCEPT ![h] = disk[device.n]]
           \/ h \in dirty /\ data' = data
        /\ pc' = WakeBuf(h)
    BY <1>16, <2>1, Zenon DEF ideintr, listVars
  <2>3. device.n = blockno[h] /\ ~Synced(h) /\ blockno[h] \in Blocks
    BY <1>t, <2>1, <2>2, AtHead, Zenon
  <2>4. Holder' = Holder
    BY <1>5, <2>2, Zenon DEF Has, Holding, WakeBuf
  <2>5. ASSUME h \in dirty PROVE Contents' = Contents
    <3>1. h \in valid
      BY <1>t, <2>5, Zenon DEF Flags
    <3> QED
      BY <1>6, <2>2, <2>5, <3>1, Zenon
  <2>6. ASSUME h \notin dirty, NEW m \in Blocks PROVE Contents'[m] = Contents[m]
    <3>1. h \notin valid /\ data' = [data EXCEPT ![h] = disk[device.n]]
      BY <2>2, <2>3, <2>6, Zenon DEF Synced
    <3>2. CASE m = blockno[h]
      <4>1. \A b \in valid : blockno[b] # m
        BY <1>t, <3>1, <3>2, Zenon DEF Distinct, TypeOK, DataTypes
      <4>2. data'[h] = disk[m]
        BY <1>t, <2>3, <3>1, <3>2, Zenon DEF TypeOK, DataTypes
      <4>3. Contents'[m] = data'[h]
        BY <1>3, <2>2, <3>2, Zenon DEF ContentsAre
      <4> QED
        BY <1>1, <4>1, <4>2, <4>3, Zenon DEF ContentsAre
    <3>3. CASE m # blockno[h] /\ \E b \in valid : blockno[b] = m
      <4>1. PICK b \in valid : blockno[b] = m
        BY <3>3, Zenon
      <4>2. b \in valid' /\ blockno'[b] = m /\ data'[b] = data[b]
        BY <1>t, <2>2, <3>1, <4>1
      <4> QED
        BY <1>1, <1>3, <4>1, <4>2, Zenon DEF ContentsAre
    <3>4. CASE m # blockno[h] /\ \A b \in valid : blockno[b] # m
      BY <1>1, <1>3, <2>2, <3>4, Zenon DEF ContentsAre
    <3> QED
      BY <3>2, <3>3, <3>4, Zenon
  <2>7. Contents' = Contents
    BY <1>4, <2>5, <2>6, Zenon
  <2> QED
    BY <2>4, <2>7, Zenon
<1> QED
  BY <1>7, <1>8, <1>9, <1>10, <1>11, <1>12, <1>13, <1>14, <1>15, <1>16, Zenon DEF Next, Kernel, Caller, bget

-----------------------------------------------------------------------------
\* The references, which are counted.

INSTANCE FiniteSetTheorems

LEMMA ReferredCounts == TypeOK /\ Referred => Counted
<1> SUFFICES ASSUME TypeOK, Referred, NEW b \in Bufs
             PROVE  /\ IsFiniteSet(Users(b))
                    /\ refcnt[b] = 0 => Users(b) = {}
                    /\ Users(b) # {} => refcnt[b] \in Nat \ {0}
  BY Zenon DEF Counted
<1>1. IsFiniteSet(Users(b))
  BY Basics, FS_Subset, Zenon DEF Users
<1> QED
  BY <1>1, FS_EmptySet, Zenon DEF TypeOK, ListTypes, Referred

LEMMA ReferredInit == Init => Referred
<1> SUFFICES ASSUME Init PROVE Referred
  BY Zenon
<1>1. \A b \in Bufs : Users(b) = {} /\ refcnt[b] = 0
  BY Basics, Zenon DEF Init, Users
<1>2. \A p \in Procs : pc[p] = "idle" /\ buf[p] = NoBuf /\ blk[p] = NoBlock
  BY Zenon DEF Init
<1> QED
  BY <1>1, <1>2, FS_EmptySet, Zenon DEF Referred

\* bget counts the process in and brelse counts it out; a buffer that is
\* recycled has none.
LEMMA ReferredStep == TypeOK /\ Referred /\ [Next]_vars => Referred'
<1> SUFFICES ASSUME TypeOK, Referred, [Next]_vars PROVE Referred'
  BY Zenon
<1> DEFINE Count(b) == refcnt[b] = Cardinality(Users(b))
           Bound(p) == /\ pc[p] = "idle" <=> buf[p] = NoBuf
                       /\ buf[p] # NoBuf => blk[p] \in Blocks /\ blockno[buf[p]] = blk[p]
                       /\ buf[p] = NoBuf => blk[p] = NoBlock
<1>a. \A q \in Procs : Bound(q)
  BY Zenon DEF Referred
<1>b. ASSUME UNCHANGED <<buf, refcnt, blk, blockno>>, \A q \in Procs : pc'[q] = "idle" <=> pc[q] = "idle"
      PROVE  Referred'
  BY <1>b, Zenon DEF Referred, Users
<1>0. CASE UNCHANGED vars
  BY <1>0, <1>b, Zenon DEF vars, listVars
<1>1. ASSUME NEW p \in Procs, NEW n \in Blocks, Hit(p, n) PROVE Referred'
  <2>1. PICK b \in Bufs : /\ blockno[b] = n /\ refcnt' = [refcnt EXCEPT ![b] = @ + 1]
                          /\ buf' = [buf EXCEPT ![p] = b]
    BY <1>1, Zenon DEF Hit, Cached
  <2>2. pc[p] = "idle" /\ pc' = [pc EXCEPT ![p] = "acquiresleep"] /\ blk' = [blk EXCEPT ![p] = n] /\ blockno' = blockno
    BY <1>1, Zenon DEF Hit, Goes
  <2>3. Users(b)' = Users(b) \cup {p} /\ p \notin Users(b)
    BY <1>a, <2>1, <2>2, Basics, Zenon DEF Users, TypeOK, ProcTypes
  <2>4. \A c \in Bufs : c # b => Users(c)' = Users(c)
    BY <1>a, <2>1, <2>2, Basics DEF Users
  <2>5. IsFiniteSet(Users(b)) /\ Count(b)
    BY ReferredCounts, Zenon DEF Counted, Referred
  <2>6. Cardinality(Users(b) \cup {p}) = Cardinality(Users(b)) + 1
    BY <2>3, <2>5, FS_AddElement, Zenon
  <2>7. \A c \in Bufs : Count(c)'
    BY <2>1, <2>3, <2>4, <2>5, <2>6, Zenon DEF TypeOK, ListTypes, Referred
  <2>8. \A q \in Procs : Bound(q)'
    BY <1>a, <2>1, <2>2, Basics, Zenon DEF TypeOK, ProcTypes
  <2> QED
    BY <2>7, <2>8, Zenon DEF Referred
<1>2. ASSUME NEW p \in Procs, NEW n \in Blocks, Recycle(p, n) PROVE Referred'
  <2>1. PICK b \in Bufs : /\ refcnt[b] = 0 /\ refcnt' = [refcnt EXCEPT ![b] = 1]
                          /\ blockno' = [blockno EXCEPT ![b] = n] /\ buf' = [buf EXCEPT ![p] = b]
    BY <1>2, Zenon DEF Recycle, Unused, TypeOK, ListTypes
  <2>2. pc[p] = "idle" /\ pc' = [pc EXCEPT ![p] = "acquiresleep"] /\ blk' = [blk EXCEPT ![p] = n]
    BY <1>2, Zenon DEF Recycle, Goes
  <2>3. Users(b) = {}
    BY <2>1, ReferredCounts, Zenon DEF Counted
  <2>4. Users(b)' = {p}
    BY <2>1, <2>3, Zenon DEF Users, TypeOK, ProcTypes
  <2>5. \A c \in Bufs : c # b => Users(c)' = Users(c)
    BY <1>a, <2>1, <2>2, Basics DEF Users
  <2>6. Cardinality({p}) = 1
    BY FS_Singleton, Zenon
  <2>7. \A c \in Bufs : Count(c)'
    BY <2>1, <2>4, <2>5, <2>6, Zenon DEF TypeOK, ListTypes, Referred
  <2>8. \A q \in Procs : buf[q] # b
    BY <2>3, Zenon DEF Users
  <2>9. \A q \in Procs : Bound(q)'
    BY <1>a, <2>1, <2>2, <2>8, Zenon DEF TypeOK, ListTypes, ProcTypes
  <2> QED
    BY <2>7, <2>9, Zenon DEF Referred
<1>3. ASSUME NEW p \in Procs, acquiresleep(p) PROVE Referred'
  <2>1. pc[p] = "acquiresleep" /\ \E to \in {"lock_asleep", "have", "iderw"} : pc' = [pc EXCEPT ![p] = to]
    BY <1>3, AcquireCases, Zenon
  <2> QED
    BY <1>3, <1>b, <2>1, AcquireCases, Zenon DEF TypeOK, ProcTypes
<1>4. ASSUME NEW p \in Procs, NEW v \in Values, Modify(p, v) PROVE Referred'
  BY <1>4, <1>b, Zenon DEF Modify, listVars
<1>5. ASSUME NEW p \in Procs, bwrite(p) \/ Pin(p) PROVE Referred'
  BY <1>5, <1>b, Zenon DEF bwrite, Pin, Goes, TypeOK, ProcTypes, listVars
<1>6. ASSUME NEW p \in Procs, releasesleep(p) PROVE Referred'
  BY <1>6, <1>b, Zenon DEF releasesleep, WakeLock, listVars
<1>7. ASSUME NEW p \in Procs, brelse(p) PROVE Referred'
  <2>1. PICK b \in Bufs : b = buf[p]
    BY <1>7, HasBuf, Zenon DEF brelse, Goes
  <2>2. /\ refcnt' = [refcnt EXCEPT ![b] = @ - 1] /\ buf' = [buf EXCEPT ![p] = NoBuf]
        /\ pc[p] = "brelse" /\ pc' = [pc EXCEPT ![p] = "idle"] /\ blk' = [blk EXCEPT ![p] = NoBlock]
        /\ blockno' = blockno
    BY <1>7, <2>1, Zenon DEF brelse, Goes
  <2>3. Users(b)' = Users(b) \ {p} /\ p \in Users(b)
    BY <2>1, <2>2, Basics, Zenon DEF Users, TypeOK, ProcTypes
  <2>4. \A c \in Bufs : c # b => Users(c)' = Users(c)
    BY <2>1, <2>2, Basics DEF Users
  <2>5. IsFiniteSet(Users(b)) /\ Count(b)
    BY ReferredCounts, Zenon DEF Counted, Referred
  <2>6. Cardinality(Users(b) \ {p}) = Cardinality(Users(b)) - 1
    BY <2>3, <2>5, FS_RemoveElement, Zenon
  <2>7. \A c \in Bufs : Count(c)'
    BY <2>2, <2>3, <2>4, <2>5, <2>6, Zenon DEF TypeOK, ListTypes, Referred
  <2>8. \A q \in Procs : Bound(q)'
    BY <1>a, <2>2, Zenon DEF TypeOK, ProcTypes
  <2> QED
    BY <2>7, <2>8, Zenon DEF Referred
<1>8. ASSUME NEW p \in Procs, iderw(p) \/ Woken(p) PROVE Referred'
  BY <1>8, <1>b, Zenon DEF iderw, Woken, Goes, TypeOK, ProcTypes, listVars
<1>9. CASE DiskDone
  BY <1>9, <1>b, Zenon DEF DiskDone, listVars
<1>10. CASE ideintr
  BY <1>10, <1>b, Zenon DEF ideintr, WakeBuf, listVars
<1> QED
  BY <1>0, <1>1, <1>2, <1>3, <1>4, <1>5, <1>6, <1>7, <1>8, <1>9, <1>10, Zenon DEF Next, Kernel, Caller, bget

-----------------------------------------------------------------------------
\* The inductive invariant holds in every reachable state.
THEOREM CacheInvariant == Spec => []IInv
<1>1. Init => IInv
  BY TypeInit, ListedInit, ReferredInit, LocksInit, FlagsInit, QueuedInit, DistinctInit, DiskWorksOnHeadInit,
     WrittenInit, CleanInit, Zenon
     DEF IInv
<1>2. IInv /\ [Next]_vars => IInv'
  BY TypeStep, ListedStep, ReferredStep, ReferredCounts, LocksStep, FlagsStep, QueuedStep, DistinctStep,
     DiskWorksOnHeadStep, WrittenStep, CleanStep, Zenon
     DEF IInv
<1> QED
  BY <1>1, <1>2, PTL DEF Spec

\* The lists, flags and counters keep their types; in particular brelse never
\* takes refcnt below 0.
THEOREM CacheTyped == Spec => []TypeOK
  BY CacheInvariant, PTL DEF IInv

\* bget(): a block is never cached twice.
THEOREM BlocksCachedOnce == Spec => []OneBufferPerBlock
<1>1. IInv => OneBufferPerBlock
  <2> SUFFICES ASSUME IInv, NEW n \in Blocks PROVE Cardinality(Cached(n)) <= 1
    BY Zenon DEF OneBufferPerBlock
  <2>1. CASE Cached(n) = {}
    BY <2>1, FS_EmptySet
  <2>2. CASE Cached(n) # {}
    <3>1. PICK b \in Bufs : Cached(n) = {b}
      BY <2>2, Zenon DEF IInv, Distinct, Cached
    <3> QED
      BY <3>1, FS_Singleton
  <2> QED
    BY <2>1, <2>2, Zenon
<1> QED
  BY <1>1, CacheInvariant, PTL

\* bget() and brelse(): the buffer a process has is not recycled under it.
THEOREM HeldBuffersStay == Spec => []HeldStays
<1>1. IInv => HeldStays
  BY Zenon DEF IInv, Referred, HeldStays
<1> QED
  BY <1>1, CacheInvariant, PTL

\* iderw(), bwrite() and brelse() do not panic.
THEOREM CacheNeverPanics == Spec => []NoPanic
<1>1. IInv => NoPanic
  BY Zenon DEF IInv, Locks, Flags, Holding, NoPanic
<1> QED
  BY <1>1, CacheInvariant, PTL

\* ideintr() completes the buffer that the disk worked on, and finds a request
\* whenever there is an interrupt.
THEOREM InterruptsFindTheirRequest == Spec => []DiskWorksOnHead
  BY CacheInvariant, PTL DEF IInv

\* Nobody sleeps on a lock that is free, or for a request that is not queued.
THEOREM CacheLosesNoWakeup == Spec => []NoLostWakeup
<1>1. IInv => NoLostWakeup
  BY Zenon DEF IInv, Locks, Queued, NoLostWakeup
<1> QED
  BY <1>1, CacheInvariant, PTL

\* A clean buffer holds what a disk that works holds.
THEOREM CleanBuffersMatchTheDisk == Spec => []CleanIsDisk
  BY CacheInvariant, PTL DEF IInv

\* bread, bwrite and brelse give every block one value, which only the process
\* that has the block changes: the cache implements BlockStore while the disk
\* works.
THEOREM CacheImplementsStore == Spec => StoreSpec
<1>1. Init => Store!Init
  <2> SUFFICES ASSUME Init PROVE Store!Init
    BY Zenon
  <2>1. Contents = disk
    BY Basics, Zenon DEF Init, Contents, Cached
  <2>2. Holder = [n \in Blocks |-> NoProc]
    BY Zenon DEF Init, Holder
  <2> QED
    BY <2>1, <2>2, Zenon DEF Init, Store!Init
<1>2. IInv /\ IInv' /\ [Next]_vars => [faulty \/ Store!Next]_<<Contents, Holder>>
  BY StoreStep, ReferredCounts, Zenon DEF IInv
<1> QED
  BY <1>1, <1>2, CacheInvariant, PTL DEF Spec, StoreSpec
=============================================================================
