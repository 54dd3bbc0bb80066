----------------------------- MODULE LogProofs -----------------------------
(***************************************************************************)
(* Proofs about Log, for any number of processes and blocks: IInv is an    *)
(* inductive invariant, and the safety properties and the refinement of    *)
(* AtomicDisk follow from it.                                              *)
(***************************************************************************)
EXTENDS Log, Integers, TLAPS

USE LogAssumption DEF NoData, NoProc, NoBlock, Places, diskVars, bufVars, logVars, procVars

\* No block takes no room, shown below with the other facts about counting.
NoneCounted == IsFiniteSet({}) /\ Cardinality({}) = 0

\* Between operations nothing is reserved.
LEMMA NothingReserved ==
  ASSUME IInv, Active = {}
  PROVE  \A p \in Procs : wrote[p] = {} /\ ~Holding(p) /\ ~InOp(p)
BY Zenon DEF IInv, SpaceInv, Active, InOp, Holding

\* Who commits is alone.
LEMMA Committer ==
  ASSUME IInv, NEW p \in Procs, InCommit(p)
  PROVE  /\ Active = {} /\ committing /\ mode = "up"
         /\ \A q \in Procs : InCommit(q) <=> q = p
         /\ \A b \in Blocks : holder[b] = NoProc
         /\ Installing <=> pc[p] = "install"
<1>1. committing /\ Active = {} /\ mode = "up"
  BY Zenon DEF IInv, TypeOK, CommitInv, InCommit
<1>2. \A q \in Procs : InCommit(q) <=> q = p
  BY Zenon DEF IInv, CommitInv
<1>3. \A b \in Blocks : holder[b] = NoProc
  BY <1>1 DEF IInv, TypeOK, HolderInv, Active, InOp, Holding
<1>4. Installing <=> pc[p] = "install"
  BY <1>2, Zenon DEF Installing, InCommit
<1> QED
  BY <1>1, <1>2, <1>3, <1>4, Zenon

\* With no operation under way, in the next state either, space is what the
\* log takes.
LEMMA SpaceWithoutOps ==
  ASSUME NoneCounted, IInv, Active = {}, Active' = {}, wrote' = wrote, Len(lh') \in Nat, Len(lh') <= LOGSIZE
  PROVE  SpaceInv'
<1>1. \A p \in Procs : wrote[p] = {}
  BY NothingReserved, Zenon
<1>2. \A p \in Procs : ~InOp(p)' /\ ~Holding(p)'
  BY Zenon DEF Active, InOp, Holding
<1>3. Unused' = {} /\ Pending' = {}
  BY <1>2, Zenon DEF Unused, Pending
<1>4. IsFiniteSet({}) /\ Cardinality({}) = 0
  BY Zenon DEF NoneCounted
<1>5. \A p \in Procs : wrote'[p] = {}
  BY <1>1, Zenon
<1>6. Len(lh') + Cardinality(Unused') + Cardinality(Pending') <= LOGSIZE
  BY <1>3, <1>4
<1>7. \A p \in Procs : IsFiniteSet(wrote'[p]) /\ Cardinality(wrote'[p]) <= OpBlocks
  <2>1. 0 <= OpBlocks
    OBVIOUS
  <2> QED
    BY <1>4, <1>5, <2>1, Zenon
<1> QED
  BY <1>2, <1>5, <1>6, <1>7, Zenon DEF SpaceInv

\* bread of a block that is not cached keeps IInv.
LEMMA StepRead ==
  ASSUME IInv, NEW b \in Blocks, Read(b) PROVE IInv'
<1>0. Active' = Active /\ Unused' = Unused /\ Pending' = Pending /\ (Installing' <=> Installing)
  BY DEF IInv, TypeOK, CommitInv, Read, Active, InOp, Unused, Pending, Holding, InLog, Installing
<1>1. SpaceInv'
  BY <1>0, Zenon DEF IInv, TypeOK, SpaceInv, Read, InOp, Holding, InLog
<1>2. TypeOK'
  BY Zenon DEF IInv, TypeOK, Read
<1>3. CommitInv'
  BY <1>0, Zenon DEF IInv, TypeOK, CommitInv, Read, InOp, InCommit
<1>4. HolderInv'
  BY DEF IInv, TypeOK, HolderInv, Read, Holding, Cached
<1>5. HeaderInv'
  BY <1>0 DEF IInv, TypeOK, HeaderInv, CommitInv, Read, Injective, InCommit
<1>6. BufferInv'
  BY <1>0, Zenon DEF IInv, TypeOK, BufferInv, Read, Cached
<1>7. ProgressInv'
  BY <1>0 DEF IInv, TypeOK, ProgressInv, HeaderInv, Read, Cur, Cached
<1> QED
  BY <1>1, <1>2, <1>3, <1>4, <1>5, <1>6, <1>7, Zenon DEF IInv

\* bget may reuse a buffer that is neither held nor pinned.
LEMMA StepRecycle ==
  ASSUME IInv, NEW b \in Blocks, Recycle(b) PROVE IInv'
<1>0. Active' = Active /\ Unused' = Unused /\ Pending' = Pending /\ (Installing' <=> Installing)
  BY DEF IInv, TypeOK, CommitInv, Recycle, Active, InOp, Unused, Pending, Holding, InLog, Installing
<1>1. SpaceInv'
  BY <1>0 DEF IInv, TypeOK, SpaceInv, Recycle, InOp, Holding, InLog
<1>2. TypeOK'
  BY Zenon DEF IInv, TypeOK, Recycle
<1>3. CommitInv'
  BY <1>0, Zenon DEF IInv, TypeOK, CommitInv, Recycle, InOp, InCommit
<1>4. HolderInv'
  BY DEF IInv, TypeOK, HolderInv, Recycle, Holding, Cached
<1>5. HeaderInv'
  BY <1>0 DEF IInv, TypeOK, HeaderInv, CommitInv, Recycle, Injective, InCommit
<1>6. BufferInv'
  BY <1>0 DEF IInv, TypeOK, BufferInv, Recycle, Cached
<1>7. ProgressInv'
  BY <1>0 DEF IInv, TypeOK, ProgressInv, HeaderInv, BufferInv, Recycle, Cur, Cached
<1> QED
  BY <1>1, <1>2, <1>3, <1>4, <1>5, <1>6, <1>7, Zenon DEF IInv

\* begin_op going to sleep keeps IInv.
LEMMA StepBeginSleeps ==
  ASSUME IInv, NEW p \in Procs, BeginSleeps(p) PROVE IInv'
<1>0. Active' = Active /\ Unused' = Unused /\ Pending' = Pending /\ (Installing' <=> Installing)
  BY DEF IInv, TypeOK, CommitInv, BeginSleeps, NoRoom, Active, InOp, Unused, Pending, Holding, InLog, Installing
<1>1. SpaceInv'
  BY <1>0 DEF IInv, TypeOK, SpaceInv, BeginSleeps, NoRoom, InOp, Holding, InLog
<1>2. TypeOK'
  BY Zenon DEF IInv, TypeOK, BeginSleeps, NoRoom
<1>3. CommitInv'
  BY <1>0 DEF IInv, TypeOK, CommitInv, BeginSleeps, NoRoom, InOp, InCommit
<1>4. HolderInv'
  BY DEF IInv, TypeOK, HolderInv, BeginSleeps, NoRoom, Holding, Cached
<1>5. HeaderInv'
  BY <1>0 DEF IInv, TypeOK, HeaderInv, CommitInv, BeginSleeps, NoRoom, Injective, InCommit
<1>6. BufferInv'
  BY <1>0, Zenon DEF IInv, TypeOK, BufferInv, BeginSleeps, NoRoom, Cached
<1>7. ProgressInv'
  BY <1>0 DEF IInv, TypeOK, ProgressInv, HeaderInv, BeginSleeps, NoRoom, Cur, Cached
<1> QED
  BY <1>1, <1>2, <1>3, <1>4, <1>5, <1>6, <1>7, Zenon DEF IInv

\* log_write's search of the log header keeps IInv.
LEMMA StepLogTest ==
  ASSUME IInv, NEW p \in Procs, LogTest(p) PROVE IInv'
<1>0. Active' = Active /\ Unused' = Unused /\ Pending' = Pending /\ (Installing' <=> Installing)
  BY ZenonT(20)
  DEF IInv, TypeOK, CommitInv, LogTest, Active, InOp, Unused, Pending, Holding, InLog, Installing
<1>1. SpaceInv'
  BY <1>0 DEF IInv, TypeOK, SpaceInv, LogTest, InOp, Holding, InLog
<1>2. TypeOK'
  BY Zenon DEF IInv, TypeOK, LogTest
<1>3. CommitInv'
  BY <1>0 DEF IInv, TypeOK, CommitInv, LogTest, InOp, InCommit
<1>4. HolderInv'
  BY DEF IInv, TypeOK, HolderInv, LogTest, Holding, Cached
<1>5. HeaderInv'
  BY <1>0 DEF IInv, TypeOK, HeaderInv, CommitInv, LogTest, Injective, InCommit
<1>6. BufferInv'
  BY <1>0, Zenon DEF IInv, TypeOK, BufferInv, LogTest, Cached
<1>7. ProgressInv'
  BY <1>0 DEF IInv, TypeOK, ProgressInv, HeaderInv, LogTest, Cur, Cached
<1> QED
  BY <1>1, <1>2, <1>3, <1>4, <1>5, <1>6, <1>7, Zenon DEF IInv

\* commit with an empty log, or on its way to write_log.
LEMMA StepCommit ==
  ASSUME NoneCounted, IInv, NEW p \in Procs, Commit(p) PROVE IInv'
<1>0. /\ Active = {} /\ mode = "up" /\ committing
      /\ \A q \in Procs : InCommit(q) <=> q = p
      /\ ~Installing
  BY Committer, Zenon DEF Commit, Goes, InCommit
<1>1. PICK to \in {"write_log", "done"} :
         pc[p] = "commit" /\ pc' = [pc EXCEPT ![p] = to] /\ (to = "done" => lh = <<>>)
  BY Zenon DEF Commit, Goes
<1>2. Active' = {} /\ ~Installing' /\ \A q \in Procs : InCommit(q)' <=> InCommit(q)
  BY <1>0, <1>1, Zenon DEF IInv, TypeOK, Active, InOp, Installing, InCommit
<1>3. SpaceInv'
  BY <1>0, <1>2, SpaceWithoutOps DEF IInv, TypeOK, Commit
<1>4. TypeOK'
  BY <1>1 DEF IInv, TypeOK, Commit
<1>5. CommitInv'
  BY <1>0, <1>2, Zenon DEF IInv, CommitInv, Commit
<1>6. HolderInv'
  BY <1>1 DEF IInv, TypeOK, HolderInv, Commit, Holding, Cached
<1>7. HeaderInv'
  BY <1>0, <1>1, <1>2 DEF IInv, TypeOK, HeaderInv, Commit, Injective, InCommit
<1>8. BufferInv'
  BY <1>0, <1>2, Zenon DEF IInv, BufferInv, Commit, Cached
<1>9. ProgressInv'
  BY <1>0, <1>2 DEF ProgressInv, Commit
<1> QED
  BY <1>3, <1>4, <1>5, <1>6, <1>7, <1>8, <1>9, Zenon DEF IInv

\* write_log copies a cached block to the log area; the header on disk is
\* still empty, so recovery does not see it.
LEMMA Stepwrite_log ==
  ASSUME NoneCounted, IInv, NEW p \in Procs, write_log(p) PROVE IInv'
<1>0. /\ Active = {} /\ mode = "up" /\ ~Installing
      /\ \A q \in Procs : InCommit(q) <=> q = p
  BY Committer, Zenon DEF write_log, InCommit
<1>1. Active' = Active /\ ~Installing'
  BY <1>0, Zenon DEF Active, InOp, Installing, write_log
<1>2. /\ tail + 1 \in 1 .. Len(lh) /\ tail + 1 \in 1 .. LOGSIZE
      /\ lh[tail + 1] \in Blocks
  BY DEF IInv, TypeOK, write_log
<1>3. SpaceInv'
  BY <1>0, <1>1, SpaceWithoutOps DEF IInv, TypeOK, write_log
<1>4. TypeOK'
  <2>1. Cur(lh[tail + 1]) \in Values
    BY <1>2, Zenon DEF IInv, TypeOK, Cur, Cached
  <2> QED
    BY <1>2, <2>1 DEF IInv, TypeOK, write_log
<1>5. CommitInv'
  BY <1>1, Zenon DEF IInv, CommitInv, InOp, InCommit, write_log
<1>6. HolderInv'
  BY Zenon DEF IInv, HolderInv, Holding, Cached, write_log
<1>7. HeaderInv'
  BY <1>0, <1>1, <1>2 DEF IInv, TypeOK, HeaderInv, Injective, write_log
<1>8. BufferInv'
  BY <1>0, <1>1, Zenon DEF IInv, BufferInv, Cached, write_log
<1>9. ProgressInv'
  <2>1. \A i \in 1 .. tail' : logd'[i] = Cur(lh[i])
    BY <1>2 DEF IInv, TypeOK, ProgressInv, write_log
  <2>2. \A b : Cur(b)' = Cur(b)
    BY Zenon DEF Cur, Cached, write_log
  <2> QED
    BY <1>0, <1>1, <2>1, <2>2, Zenon DEF ProgressInv, write_log
<1> QED
  BY <1>3, <1>4, <1>5, <1>6, <1>7, <1>8, <1>9, Zenon DEF IInv

\* write_head is the commit point: the log on disk becomes the one in memory.
LEMMA Stepwrite_head ==
  ASSUME NoneCounted, IInv, NEW p \in Procs, write_head(p) PROVE IInv'
<1>0. /\ Active = {} /\ mode = "up" /\ committing /\ ~Installing
      /\ \A q \in Procs : InCommit(q) <=> q = p
  BY Committer, Zenon DEF write_head, Goes, InCommit
<1>1. /\ pc' = [pc EXCEPT ![p] = "install"] /\ pc[p] = "write_log" /\ tail = Len(lh)
      /\ hdr' = lh /\ tail' = 0
  BY Zenon DEF write_head, Goes
<1>2. Active' = {} /\ Installing' /\ \A q \in Procs : InCommit(q)' <=> InCommit(q)
  BY <1>0, <1>1, Zenon DEF IInv, TypeOK, Active, InOp, Installing, InCommit
<1>3. SpaceInv'
  BY <1>0, <1>2, SpaceWithoutOps DEF IInv, TypeOK, write_head
<1>4. TypeOK'
  BY <1>1 DEF IInv, TypeOK, write_head
<1>5. CommitInv'
  BY <1>0, <1>2, Zenon DEF IInv, CommitInv, write_head
<1>6. HolderInv'
  BY <1>1 DEF IInv, TypeOK, HolderInv, write_head, Holding, Cached
<1>7. HeaderInv'
  BY <1>0, <1>1, <1>2 DEF IInv, TypeOK, HeaderInv, write_head, Injective, InCommit
<1>8. BufferInv'
  BY <1>0, <1>1, <1>2 DEF IInv, BufferInv, write_head, Cached
<1>9. ProgressInv'
  BY <1>0, <1>1, <1>2 DEF IInv, TypeOK, ProgressInv, write_head, Cur, Cached, InCommit
<1> QED
  BY <1>3, <1>4, <1>5, <1>6, <1>7, <1>8, <1>9, Zenon DEF IInv

\* install_trans copies a block home from the log.
LEMMA Stepinstall_trans ==
  ASSUME NoneCounted, IInv, NEW p \in Procs, install_trans(p) PROVE IInv'
<1> DEFINE c == lh[tail + 1]
<1>0. /\ Active = {} /\ mode = "up" /\ Installing
      /\ \A q \in Procs : InCommit(q) <=> q = p
      /\ \A b \in Blocks : holder[b] = NoProc
  BY Committer, Zenon DEF install_trans, InCommit
<1>1. Active' = Active /\ Installing'
  BY <1>0, Zenon DEF Active, InOp, Installing, install_trans, InstallBlock
<1>2. /\ tail + 1 \in 1 .. Len(lh) /\ tail + 1 \in 1 .. LOGSIZE
      /\ c \in Blocks /\ logd[tail + 1] \in Values
      /\ \A i \in 1 .. Len(lh) : lh[i] = c <=> i = tail + 1
  BY DEF IInv, TypeOK, HeaderInv, Injective, install_trans, InstallBlock
<1>3. /\ disk' = [disk EXCEPT ![c] = logd[tail + 1]]
      /\ cache' = [cache EXCEPT ![c] = logd[tail + 1]]
      /\ dirty' = dirty \ {c} /\ tail' = tail + 1
      /\ UNCHANGED <<hdr, logd, holder, logVars, mode, procVars>>
  BY Zenon DEF install_trans, InstallBlock
<1> HIDE DEF c
<1>4. SpaceInv'
  BY <1>0, <1>1, <1>3, SpaceWithoutOps DEF IInv, TypeOK
<1>5. TypeOK'
  BY <1>2, <1>3 DEF IInv, TypeOK
<1>6. CommitInv'
  BY <1>1, <1>3, Zenon DEF IInv, CommitInv, InOp, InCommit
<1>7. HolderInv'
  BY <1>0, <1>3, Zenon DEF IInv, TypeOK, HolderInv, Holding, Cached
<1>8. HeaderInv'
  BY <1>0, <1>1, <1>2, <1>3 DEF IInv, TypeOK, HeaderInv, Injective
<1>9. BufferInv'
  <2>1. \A b \in Blocks : b \in dirty' <=> \E i \in 1 .. Len(lh) : lh[i] = b /\ i > tail + 1
    BY <1>0, <1>2, <1>3 DEF IInv, TypeOK, BufferInv
  <2>2. \A b \in dirty' : Cached(b)'
    BY <1>2, <1>3, Zenon DEF IInv, TypeOK, BufferInv, Cached
  <2>3. \A b \in Blocks : Cached(b)' /\ b \notin dirty' => cache'[b] = disk'[b]
    BY <1>0, <1>2, <1>3 DEF IInv, TypeOK, BufferInv, Cached
  <2> QED
    BY <1>0, <1>1, <1>3, <2>1, <2>2, <2>3, Zenon DEF BufferInv
<1>10. ProgressInv'
  <2>1. \A i \in 1 .. Len(lh) : logd[i] = Cur(lh[i])'
    BY <1>0, <1>2, <1>3 DEF IInv, TypeOK, ProgressInv, Cur, Cached
  <2>2. \A i \in 1 .. tail + 1 : disk'[lh[i]] = logd[i]
    BY <1>0, <1>2, <1>3 DEF IInv, TypeOK, ProgressInv
  <2>3. \A q \in Procs : pc'[q] # "write_log"
    BY <1>0, <1>3, Zenon DEF InCommit, install_trans
  <2> QED
    BY <1>3, <2>1, <2>2, <2>3, Zenon DEF ProgressInv
<1> QED
  BY <1>4, <1>5, <1>6, <1>7, <1>8, <1>9, <1>10, Zenon DEF IInv

\* commit erases the log once every block is home.
LEMMA StepErase ==
  ASSUME NoneCounted, IInv, NEW p \in Procs, Erase(p) PROVE IInv'
<1>0. /\ Active = {} /\ mode = "up" /\ committing /\ Installing
      /\ \A q \in Procs : InCommit(q) <=> q = p
      /\ \A b \in Blocks : holder[b] = NoProc
  BY Committer, Zenon DEF Erase, Goes, InCommit
<1>1. pc' = [pc EXCEPT ![p] = "done"] /\ pc[p] = "install" /\ lh' = <<>> /\ hdr' = <<>>
  BY Zenon DEF Erase, Goes
<1>2. Active' = {} /\ ~Installing' /\ \A q \in Procs : InCommit(q)' <=> InCommit(q)
  BY <1>0, <1>1, Zenon DEF IInv, TypeOK, Active, InOp, Installing, InCommit
<1>3. SpaceInv'
  BY <1>0, <1>1, <1>2, SpaceWithoutOps DEF Erase
<1>4. TypeOK'
  BY <1>1 DEF IInv, TypeOK, Erase
<1>5. CommitInv'
  BY <1>0, <1>2, Zenon DEF IInv, CommitInv, Erase
<1>6. HolderInv'
  BY <1>1 DEF IInv, TypeOK, HolderInv, Erase, Holding, Cached
<1>7. HeaderInv'
  BY <1>0, <1>1, <1>2 DEF HeaderInv, Erase, Injective
<1>8. BufferInv'
  <2>1. dirty = {}
    BY <1>0 DEF IInv, TypeOK, BufferInv, Erase
  <2> QED
    BY <1>0, <1>1, <2>1 DEF IInv, BufferInv, Erase, Cached
<1>9. ProgressInv'
  BY <1>0, <1>1, <1>2 DEF ProgressInv, Erase, InCommit
<1> QED
  BY <1>3, <1>4, <1>5, <1>6, <1>7, <1>8, <1>9, Zenon DEF IInv

\* end_op after commit, when it wakes the sleepers.
LEMMA StepEndCommit ==
  ASSUME IInv, NEW p \in Procs, EndCommit(p) PROVE IInv'
<1>0. Active' = Active /\ Unused' = Unused /\ Pending' = Pending /\ (Installing' <=> Installing)
  BY ZenonT(20)
  DEF IInv, TypeOK, CommitInv, EndCommit, Woken, Active, InOp, Unused, Pending, Holding, InLog, Installing
<1>1. SpaceInv'
  BY <1>0, ZenonT(20) DEF IInv, TypeOK, SpaceInv, EndCommit, Woken, InOp, Holding, InLog
<1>2. TypeOK'
  BY Zenon DEF IInv, TypeOK, EndCommit, Woken
<1>3. CommitInv'
  BY <1>0, ZenonT(20) DEF IInv, TypeOK, CommitInv, EndCommit, Woken, InOp, InCommit
<1>4. HolderInv'
  BY DEF IInv, TypeOK, HolderInv, EndCommit, Woken, Holding, Cached
<1>5. HeaderInv'
  BY <1>0 DEF IInv, TypeOK, HeaderInv, CommitInv, EndCommit, Woken, Injective, InCommit
<1>6. BufferInv'
  BY <1>0, Zenon DEF IInv, TypeOK, BufferInv, EndCommit, Woken, Cached
<1>7. ProgressInv'
  BY <1>0 DEF IInv, TypeOK, ProgressInv, HeaderInv, EndCommit, Woken, Cur, Cached
<1> QED
  BY <1>1, <1>2, <1>3, <1>4, <1>5, <1>6, <1>7, Zenon DEF IInv

\* Recovery reads the header.
LEMMA Stepread_head ==
  ASSUME NoneCounted, IInv, read_head PROVE IInv'
<1>0. /\ \A q \in Procs : pc[q] = "idle" /\ pc'[q] = "idle"
      /\ Active = {} /\ Active' = {} /\ ~Installing /\ ~Installing' /\ ~committing
  BY Zenon DEF IInv, CommitInv, Active, InOp, InCommit, Installing, read_head
<1>1. SpaceInv'
  BY <1>0, SpaceWithoutOps DEF IInv, TypeOK, read_head
<1>2. TypeOK'
  BY Zenon DEF IInv, TypeOK, read_head
<1>3. CommitInv'
  BY <1>0, Zenon DEF IInv, CommitInv, InOp, InCommit, read_head
<1>4. HolderInv'
  BY Zenon DEF IInv, HolderInv, Holding, Cached, read_head
<1>5. HeaderInv'
  BY <1>0 DEF IInv, TypeOK, HeaderInv, Injective, read_head
<1>6. BufferInv'
  BY <1>0 DEF IInv, TypeOK, BufferInv, Cached, read_head
<1>7. ProgressInv'
  <2>1. tail = 0
    BY DEF IInv, TypeOK, HeaderInv, read_head
  <2> QED
    BY <1>0, <2>1 DEF ProgressInv, read_head
<1> QED
  BY <1>1, <1>2, <1>3, <1>4, <1>5, <1>6, <1>7, Zenon DEF IInv

\* Recovery copies a block home; it may be one it had copied before a crash.
LEMMA StepRecoverInstall ==
  ASSUME NoneCounted, IInv, RecoverInstall PROVE IInv'
<1> DEFINE c == lh[tail + 1]
<1>0. /\ \A q \in Procs : pc[q] = "idle" /\ pc'[q] = "idle"
      /\ Active = {} /\ Active' = {} /\ ~Installing /\ ~Installing' /\ mode = "recover"
  BY Zenon DEF IInv, CommitInv, Active, InOp, Installing, RecoverInstall, InstallBlock
<1>1. \A b \in Blocks : holder[b] = NoProc
  BY <1>0 DEF IInv, TypeOK, HolderInv, Holding
<1>2. /\ tail + 1 \in 1 .. Len(lh) /\ tail + 1 \in 1 .. LOGSIZE
      /\ c \in Blocks /\ logd[tail + 1] \in Values
      /\ \A i \in 1 .. Len(lh) : lh[i] = c <=> i = tail + 1
  BY DEF IInv, TypeOK, HeaderInv, Injective, RecoverInstall, InstallBlock
<1>3. /\ disk' = [disk EXCEPT ![c] = logd[tail + 1]]
      /\ cache' = [cache EXCEPT ![c] = logd[tail + 1]]
      /\ dirty' = dirty \ {c} /\ tail' = tail + 1
      /\ UNCHANGED <<hdr, logd, holder, logVars, mode, procVars>>
  BY Zenon DEF RecoverInstall, InstallBlock
<1> HIDE DEF c
<1>4. SpaceInv'
  BY <1>0, <1>3, SpaceWithoutOps DEF IInv, TypeOK
<1>5. TypeOK'
  BY <1>2, <1>3 DEF IInv, TypeOK
<1>6. CommitInv'
  BY <1>0, <1>3, Zenon DEF IInv, CommitInv, InOp, InCommit
<1>7. HolderInv'
  BY <1>0, <1>1, <1>3, Zenon DEF HolderInv, Holding
<1>8. HeaderInv'
  BY <1>0, <1>2, <1>3 DEF IInv, TypeOK, HeaderInv, Injective
<1>9. BufferInv'
  BY <1>0, <1>1, <1>2, <1>3 DEF IInv, TypeOK, BufferInv, Cached
<1>10. ProgressInv'
  <2>1. \A i \in 1 .. tail + 1 : disk'[lh[i]] = logd[i]
    BY <1>0, <1>2, <1>3 DEF IInv, TypeOK, ProgressInv
  <2> QED
    BY <1>0, <1>3, <2>1, Zenon DEF ProgressInv
<1> QED
  BY <1>4, <1>5, <1>6, <1>7, <1>8, <1>9, <1>10, Zenon DEF IInv

\* Recovery erases the log and the system is up.
LEMMA Steprecover_from_log ==
  ASSUME NoneCounted, IInv, recover_from_log PROVE IInv'
<1>0. /\ \A q \in Procs : pc[q] = "idle" /\ pc'[q] = "idle"
      /\ Active = {} /\ Active' = {} /\ ~Installing /\ ~Installing'
  BY Zenon DEF IInv, CommitInv, Active, InOp, Installing, recover_from_log
<1>1. SpaceInv'
  BY <1>0, SpaceWithoutOps DEF recover_from_log
<1>2. TypeOK'
  BY DEF IInv, TypeOK, recover_from_log
<1>3. CommitInv'
  BY <1>0, Zenon DEF IInv, CommitInv, InOp, InCommit, recover_from_log
<1>4. HolderInv'
  BY Zenon DEF IInv, HolderInv, Holding, Cached, recover_from_log
<1>5. HeaderInv'
  BY <1>0 DEF HeaderInv, Injective, recover_from_log
<1>6. BufferInv'
  BY <1>0 DEF IInv, BufferInv, Cached, recover_from_log
<1>7. ProgressInv'
  BY <1>0, Zenon DEF ProgressInv, recover_from_log
<1> QED
  BY <1>1, <1>2, <1>3, <1>4, <1>5, <1>6, <1>7, Zenon DEF IInv

-----------------------------------------------------------------------------
(* Steps of AtomicDisk *)

\* What the overlay of the log h, l on the disk d holds: the logged block if
\* there is one, else the home block.
OverlayHolds(h, l, d) ==
  /\ \A i \in 1 .. Len(h) : Overlay(h, l, d)[h[i]] = l[i]
  /\ \A b \in Blocks : ~InLog(h, b) => Overlay(h, l, d)[b] = d[b]

\* For a log of distinct blocks it does.
LEMMA OverlayIs ==
  ASSUME NEW h \in Seq(Blocks), Injective(h), NEW l, NEW d PROVE OverlayHolds(h, l, d)
<1>1. ASSUME NEW i \in 1 .. Len(h) PROVE Overlay(h, l, d)[h[i]] = l[i]
  <2>1. h[i] \in Blocks /\ InLog(h, h[i])
    BY DEF InLog
  <2>2. (CHOOSE j \in 1 .. Len(h) : h[j] = h[i]) = i
    BY Zenon DEF Injective
  <2> QED
    BY <2>1, <2>2, Zenon DEF Overlay
<1>2. \A b \in Blocks : ~InLog(h, b) => Overlay(h, l, d)[b] = d[b]
  BY Zenon DEF Overlay
<1> QED
  BY <1>1, <1>2, Zenon DEF OverlayHolds

\* An empty log changes nothing.
LEMMA EmptyOverlay ==
  ASSUME NEW l, NEW d, d = [b \in Blocks |-> d[b]] PROVE Overlay(<<>>, l, d) = d
BY DEF Overlay, InLog

\* Two overlays that agree on every block are the same.
LEMMA SameOverlay ==
  ASSUME NEW h, NEW l, NEW d, NEW f, f = [b \in Blocks |-> f[b]],
         \A b \in Blocks : Overlay(h, l, d)[b] = f[b]
  PROVE  Overlay(h, l, d) = f
BY Zenon DEF Overlay

Stutters == Seen' = Seen /\ Recovered' = Recovered /\ Active' = Active

\* Steps that touch neither the disk nor the data of a buffer.
LEMMA QuietSteps ==
  ASSUME UNCHANGED <<diskVars, cache, mode>>
  PROVE  Seen' = Seen /\ Recovered' = Recovered
BY Zenon DEF Seen, Recovered, Cur, Cached

\* Reading and recycling buffers do not change what is seen.
LEMMA SimRead ==
  ASSUME IInv, NEW b \in Blocks, Read(b) \/ Recycle(b) PROVE Stutters
<1>1. \A c \in Blocks : Cur(c)' = Cur(c)
  <2>1. CASE Read(b)
    BY <2>1, Zenon DEF IInv, TypeOK, Read, Cur, Cached
  <2>2. CASE Recycle(b)
    BY <2>2, Zenon DEF IInv, TypeOK, BufferInv, Recycle, Cur, Cached
  <2> QED
    BY <2>1, <2>2, Zenon
<1>2. Recovered' = Recovered /\ Active' = Active /\ mode' = mode
  BY Zenon DEF Recovered, Active, InOp, Read, Recycle
<1> QED
  BY <1>1, <1>2, Zenon DEF Stutters, Seen

\* An operation's steps are AtomicDisk's Begin, Write and End, or stutter.
LEMMA SimOperation ==
  ASSUME IInv, NEW p \in Procs, Operation(p) PROVE Atomic!Next \/ Stutters
<1>1. CASE BeginSleeps(p) \/ LogTest(p) \/ log_write(p)
  <2>1. Seen' = Seen /\ Recovered' = Recovered
    BY <1>1, QuietSteps, Zenon DEF BeginSleeps, LogTest, log_write
  <2>2. Active' = Active
    BY <1>1 DEF IInv, TypeOK, Active, InOp, BeginSleeps, LogTest, log_write
  <2> QED
    BY <2>1, <2>2, Zenon DEF Stutters
<1>2. CASE begin_op(p)
  <2>1. Seen' = Seen /\ Recovered' = Recovered
    BY <1>2, QuietSteps, Zenon DEF begin_op
  <2>2. p \notin Active /\ Active' = Active \cup {p}
    BY <1>2 DEF IInv, TypeOK, Active, InOp, begin_op
  <2> QED
    BY <2>1, <2>2, Zenon DEF Atomic!Next, Atomic!Begin
<1>3. CASE end_op(p)
  <2>1. Seen' = Seen /\ Recovered' = Recovered
    BY <1>3, QuietSteps, Zenon DEF end_op
  <2>2. /\ pc[p] = "op" /\ pc'[p] \in {"idle", "commit"}
        /\ \A q \in Procs \ {p} : pc'[q] = pc[q] \/ (pc[q] = "asleep" /\ pc'[q] = "begin")
    BY <1>3, Zenon DEF IInv, TypeOK, end_op, Woken
  <2>3. p \in Active /\ Active' = Active \ {p}
    BY <2>2, Zenon DEF Active, InOp
  <2> QED
    BY <2>1, <2>3, Zenon DEF Atomic!Next, Atomic!End
<1>4. ASSUME NEW b \in Blocks, NEW v \in Values, Modify(p, b, v) PROVE Atomic!Next
  <2>1. p \in Active /\ Active' = Active
    BY <1>4, Zenon DEF IInv, TypeOK, Active, InOp, Modify
  <2>2. mode = "up" /\ mode' = "up"
    BY <1>4, Zenon DEF IInv, TypeOK, CommitInv, Modify
  <2>3. Recovered' = Recovered
    BY <1>4, Zenon DEF Recovered, Modify
  <2>4. \A c \in Blocks : Cur(c)' = IF c = b THEN v ELSE Cur(c)
    BY <1>4, Zenon DEF IInv, TypeOK, Modify, Cur, Cached
  <2>5. Seen' = [Seen EXCEPT ![b] = v]
    BY <2>2, <2>4, Zenon DEF Seen
  <2> QED
    BY <2>1, <2>3, <2>5, Zenon DEF Atomic!Next, Atomic!Write
<1> QED
  BY <1>1, <1>2, <1>3, <1>4, Zenon DEF Operation

\* Of commit's steps only write_head is visible: it makes durable what is seen.
LEMMA SimCommitting ==
  ASSUME IInv, NEW p \in Procs, Committing(p) PROVE Atomic!Next \/ Stutters
<1>0. /\ Active = {} /\ mode = "up" /\ (Installing <=> pc[p] = "install")
      /\ \A b \in Blocks : holder[b] = NoProc
  BY Committer, Zenon DEF Committing, Commit, write_log, write_head, install_trans, Erase, EndCommit, Goes, InCommit
<1>1. CASE Commit(p) \/ EndCommit(p)
  <2>1. Seen' = Seen /\ Recovered' = Recovered
    BY <1>1, QuietSteps, Zenon DEF Commit, EndCommit
  <2>2. Active' = {}
    BY <1>0, <1>1, ZenonT(20) DEF IInv, TypeOK, Active, InOp, Commit, EndCommit, Goes, Woken
  <2> QED
    BY <1>0, <2>1, <2>2, Zenon DEF Stutters
<1>2. CASE write_log(p)
  <2>1. hdr = <<>> /\ hdr' = <<>> /\ disk' = disk
    BY <1>0, <1>2, Zenon DEF IInv, HeaderInv, write_log
  <2>2. Recovered = disk /\ Recovered' = disk
    BY <2>1, EmptyOverlay, Zenon DEF IInv, TypeOK, Recovered
  <2>3. Seen' = Seen /\ Active' = Active
    BY <1>0, <1>2, Zenon DEF Seen, Cur, Cached, Active, InOp, write_log
  <2> QED
    BY <2>2, <2>3, Zenon DEF Stutters
<1>3. CASE write_head(p)
  <2>1. /\ hdr' = lh /\ tail = Len(lh) /\ pc[p] = "write_log" /\ ~Installing
        /\ UNCHANGED <<disk, logd, cache, mode>>
    BY <1>0, <1>3, Zenon DEF write_head, Goes
  <2>2. Active' = {}
    BY <1>0, <1>3, Zenon DEF IInv, TypeOK, Active, InOp, write_head, Goes
  <2>3. Seen' = Seen /\ Seen = [b \in Blocks |-> Cur(b)]
    BY <1>0, <2>1, Zenon DEF Seen, Cur, Cached
  <2>4. \A i \in 1 .. Len(lh) : logd[i] = Cur(lh[i])
    BY <2>1, Zenon DEF IInv, ProgressInv
  <2>5. \A b \in Blocks : ~InLog(lh, b) => disk[b] = Cur(b)
    BY <1>0, <2>1, Zenon DEF IInv, BufferInv, InLog, Cur
  <2>6. lh \in Seq(Blocks) /\ Injective(lh)
    BY Zenon DEF IInv, TypeOK, HeaderInv
  <2>7. \A b \in Blocks : Overlay(lh, logd, disk)[b] = Cur(b)
    <3>1. OverlayHolds(lh, logd, disk)
      BY <2>6, OverlayIs, Zenon
    <3> QED
      BY <2>4, <2>5, <2>6, <3>1 DEF OverlayHolds, InLog
  <2>8. Overlay(lh, logd, disk) = Seen
    BY <2>3, <2>7, SameOverlay
  <2> QED
    BY <1>0, <2>1, <2>2, <2>3, <2>8, Zenon DEF Atomic!Next, Atomic!Commit, Recovered
<1>4. CASE install_trans(p)
  <2> DEFINE c == lh[tail + 1]
  <2>1. hdr = lh /\ lh \in Seq(Blocks) /\ Injective(lh) /\ disk = [b \in Blocks |-> disk[b]]
    BY <1>0, <1>4, Zenon DEF IInv, TypeOK, HeaderInv, install_trans
  <2>2. c \in Blocks /\ tail + 1 \in 1 .. Len(lh)
    BY <1>4 DEF IInv, TypeOK, install_trans, InstallBlock
  <2>3. /\ disk' = [disk EXCEPT ![c] = logd[tail + 1]] /\ cache' = [cache EXCEPT ![c] = logd[tail + 1]]
        /\ UNCHANGED <<hdr, logd, mode, pc>>
    BY <1>4, Zenon DEF install_trans, InstallBlock
  <2>4. logd[tail + 1] = Cur(c) /\ logd[tail + 1] # NoData
    BY <1>0, <1>4, <2>2 DEF IInv, TypeOK, ProgressInv, install_trans
  <2> HIDE DEF c
  <2>5. \A b \in Blocks : Cur(b)' = Cur(b)
    BY <2>2, <2>3, <2>4, Zenon DEF IInv, TypeOK, Cur, Cached
  <2>6. InLog(lh, c)
    BY <2>2, Zenon DEF InLog, c
  <2>7. Overlay(lh, logd, disk') = Overlay(lh, logd, disk)
    BY <2>2, <2>3, <2>6 DEF IInv, TypeOK, Overlay
  <2> QED
    BY <1>0, <2>1, <2>3, <2>5, <2>7, Zenon DEF Stutters, Seen, Recovered, Active, InOp
<1>5. CASE Erase(p)
  <2>1. /\ hdr = lh /\ lh \in Seq(Blocks) /\ Injective(lh) /\ tail = Len(lh)
        /\ hdr' = <<>> /\ UNCHANGED <<disk, logd, cache, mode>>
    BY <1>0, <1>5, Zenon DEF IInv, TypeOK, HeaderInv, Erase, Goes
  <2>2. \A i \in 1 .. Len(lh) : disk[lh[i]] = logd[i]
    BY <1>0, <1>5, <2>1, Zenon DEF IInv, ProgressInv, Erase, Goes
  <2>3. Recovered = disk
    <3>1. \A b \in Blocks : Overlay(lh, logd, disk)[b] = disk[b]
      <4>1. OverlayHolds(lh, logd, disk)
        BY <2>1, OverlayIs, Zenon
      <4>2. \A i \in 1 .. Len(lh) : Overlay(lh, logd, disk)[lh[i]] = disk[lh[i]]
        BY <2>2, <4>1 DEF OverlayHolds
      <4> QED
        BY <4>1, <4>2, Zenon DEF OverlayHolds, InLog
    <3> QED
      BY <2>1, <3>1, SameOverlay, SMTT(30) DEF IInv, TypeOK, Recovered
  <2>4. Recovered' = disk
    BY <2>1, EmptyOverlay, Zenon DEF IInv, TypeOK, Recovered
  <2>5. Seen' = Seen
    BY <1>0, <2>1, Zenon DEF Seen, Cur, Cached
  <2>6. Active' = Active
    BY <1>0, <1>5, Zenon DEF IInv, TypeOK, Active, InOp, Erase, Goes
  <2> QED
    BY <2>3, <2>4, <2>5, <2>6, Zenon DEF Stutters
<1> QED
  BY <1>1, <1>2, <1>3, <1>4, <1>5, Zenon DEF Committing

\* Recovery does not change what would be recovered.
LEMMA SimRecovery ==
  ASSUME IInv, Recovery PROVE Stutters
<1>0. /\ mode = "recover" /\ Active = {} /\ Active' = {}
      /\ \A b \in Blocks : Cur(b) = disk[b]
  <2>1. mode = "recover" /\ \A q \in Procs : pc[q] = "idle" /\ pc'[q] = "idle"
    BY Zenon DEF IInv, CommitInv, Recovery, read_head, RecoverInstall, InstallBlock, recover_from_log
  <2>2. \A b \in Blocks : holder[b] = NoProc
    BY <2>1 DEF IInv, TypeOK, HolderInv, Holding
  <2>3. \A b \in Blocks : Cur(b) = disk[b]
    BY <2>1, <2>2, Zenon DEF IInv, BufferInv, Cur
  <2> QED
    BY <2>1, <2>3, Zenon DEF Active, InOp
<1>1. CASE read_head
  <2>1. Recovered' = Recovered
    BY <1>1, Zenon DEF Recovered, read_head
  <2>2. CASE hdr = <<>>
    <3>1. mode' = "up" /\ Recovered = disk /\ \A b \in Blocks : Cur(b)' = disk[b]
      BY <1>0, <1>1, <2>2, EmptyOverlay, Zenon DEF IInv, TypeOK, Recovered, read_head, Cur, Cached
    <3> QED
      BY <1>0, <2>1, <3>1 DEF IInv, TypeOK, Stutters, Seen
  <2>3. CASE hdr # <<>>
    BY <1>0, <1>1, <2>1, <2>3, Zenon DEF Stutters, Seen, read_head
  <2> QED
    BY <2>2, <2>3, Zenon
<1>2. CASE RecoverInstall
  <2> DEFINE c == lh[tail + 1]
  <2>1. lh = hdr /\ lh \in Seq(Blocks)
    BY <1>0, <1>2 DEF IInv, TypeOK, HeaderInv, RecoverInstall, InstallBlock
  <2>2. c \in Blocks /\ tail + 1 \in 1 .. Len(lh)
    BY <1>2 DEF IInv, TypeOK, RecoverInstall, InstallBlock
  <2>3. disk' = [disk EXCEPT ![c] = logd[tail + 1]] /\ UNCHANGED <<hdr, logd, mode>>
    BY <1>2, Zenon DEF RecoverInstall, InstallBlock
  <2>4. InLog(lh, c)
    BY <2>2, Zenon DEF InLog
  <2> HIDE DEF c
  <2>5. Overlay(lh, logd, disk') = Overlay(lh, logd, disk)
    BY <2>2, <2>3, <2>4 DEF IInv, TypeOK, Overlay
  <2> QED
    BY <1>0, <2>1, <2>3, <2>5, Zenon DEF Stutters, Seen, Recovered
<1>3. CASE recover_from_log
  <2>1. /\ hdr = lh /\ lh \in Seq(Blocks) /\ Injective(lh) /\ tail = Len(lh)
        /\ hdr' = <<>> /\ mode' = "up" /\ UNCHANGED <<disk, logd, cache>>
    BY <1>0, <1>3, Zenon DEF IInv, TypeOK, HeaderInv, recover_from_log
  <2>2. \A i \in 1 .. Len(lh) : disk[lh[i]] = logd[i]
    BY <1>0, <2>1, Zenon DEF IInv, ProgressInv
  <2>3. Recovered = disk
    <3>1. \A b \in Blocks : Overlay(lh, logd, disk)[b] = disk[b]
      <4>1. OverlayHolds(lh, logd, disk)
        BY <2>1, OverlayIs, Zenon
      <4>2. \A i \in 1 .. Len(lh) : Overlay(lh, logd, disk)[lh[i]] = disk[lh[i]]
        BY <2>2, <4>1 DEF OverlayHolds
      <4> QED
        BY <4>1, <4>2, Zenon DEF OverlayHolds, InLog
    <3> QED
      BY <2>1, <3>1, SameOverlay DEF IInv, TypeOK, Recovered
  <2>4. Recovered' = disk
    BY <2>1, EmptyOverlay, Zenon DEF IInv, TypeOK, Recovered
  <2>5. Seen' = disk
    BY <1>0, <2>1, Zenon DEF IInv, TypeOK, Seen, Cur, Cached
  <2> QED
    BY <1>0, <2>3, <2>4, <2>5, Zenon DEF Stutters, Seen
<1> QED
  BY <1>1, <1>2, <1>3, Zenon DEF Recovery

-----------------------------------------------------------------------------
(* Counting the reserved blocks *)

INSTANCE FiniteSetTheorems

LEMMA NoneIsCounted == NoneCounted
  BY FS_EmptySet, Zenon DEF NoneCounted

\* Each of the operations in A reserves MAXOPBLOCKS blocks.
LEMMA Reservations ==
  ASSUME NEW A, IsFiniteSet(A)
  PROVE  /\ IsFiniteSet(A \X (1 .. MAXOPBLOCKS))
         /\ Cardinality(A \X (1 .. MAXOPBLOCKS)) = Cardinality(A) * MAXOPBLOCKS
<1>1. IsFiniteSet(1 .. MAXOPBLOCKS) /\ Cardinality(1 .. MAXOPBLOCKS) = MAXOPBLOCKS
  BY FS_Interval
<1> QED
  BY <1>1, FS_Product, Zenon

\* One pair for each member of A.
LEMMA OneEach ==
  ASSUME NEW A, IsFiniteSet(A)
  PROVE  IsFiniteSet(A \X {1}) /\ Cardinality(A \X {1}) = Cardinality(A)
<1>1. IsFiniteSet({1}) /\ Cardinality({1}) = 1
  BY FS_Singleton, Zenon
<1>2. Cardinality(A) \in Nat
  BY FS_CardinalityType, Zenon
<1> QED
  BY <1>1, <1>2, FS_Product

\* Adding one element adds at most one to the size.
LEMMA AtMostOneMore ==
  ASSUME NEW A, IsFiniteSet(A), NEW x, NEW B, B \subseteq A \cup {x}
  PROVE  IsFiniteSet(B) /\ Cardinality(B) <= Cardinality(A) + 1
<1>1. Cardinality(A) \in Nat
  BY FS_CardinalityType, Zenon
<1>2. /\ IsFiniteSet(A \cup {x})
      /\ Cardinality(A \cup {x}) = IF x \in A THEN Cardinality(A) ELSE Cardinality(A) + 1
  BY FS_AddElement, Zenon
<1>3. IsFiniteSet(B) /\ Cardinality(B) <= Cardinality(A \cup {x})
  BY <1>2, FS_Subset, Zenon
<1>4. Cardinality(B) \in Nat
  BY <1>3, FS_CardinalityType, Zenon
<1> QED
  BY <1>1, <1>2, <1>3, <1>4

\* Who holds a buffer has written a block.
LEMMA HasWritten ==
  ASSUME SpaceInv, NEW q \in Procs, Holding(q)
  PROVE  Cardinality(wrote[q]) \in 1 .. MAXOPBLOCKS
<1>1. IsFiniteSet(wrote[q]) /\ wrote[q] # {} /\ Cardinality(wrote[q]) <= OpBlocks
  BY Zenon DEF SpaceInv
<1>2. Cardinality(wrote[q]) \in Nat /\ Cardinality(wrote[q]) # 0
  BY <1>1, FS_EmptySet, FS_CardinalityType, Zenon
<1> QED
  BY <1>1, <1>2

\* What is reserved and unused, or written and not yet logged, is finite.
LEMMA FiniteReserve ==
  ASSUME IInv PROVE IsFiniteSet(Unused) /\ IsFiniteSet(Pending)
<1>1. Unused \subseteq Active \X (1 .. MAXOPBLOCKS) /\ Pending \subseteq Active
  BY Zenon DEF Unused, Pending, Active, InOp, Holding
<1> QED
  BY <1>1, Reservations, FS_Subset, Zenon DEF IInv, CommitInv

-----------------------------------------------------------------------------
(* The steps *)

\* begin_op reserves MAXOPBLOCKS blocks it has found room for.
LEMMA Stepbegin_op ==
  ASSUME IInv, NEW p \in Procs, begin_op(p) PROVE IInv'
<1> USE DEF begin_op, NoRoom
<1>0. /\ Active' = Active \cup {p} /\ p \notin Active
      /\ Pending' = Pending /\ (Installing' <=> Installing)
  BY DEF IInv, TypeOK, Active, InOp, Pending, Holding, InLog, Installing
<1>1. IsFiniteSet(Active') /\ Cardinality(Active') = outstanding + 1
  BY <1>0, FS_AddElement, Zenon DEF IInv, CommitInv
<1>2. Len(lh) + Cardinality(Unused') + Cardinality(Pending) <= LOGSIZE
  <2> DEFINE All == Active' \X (1 .. MAXOPBLOCKS)
             Firsts == Pending \X {1}
  <2>1. IsFiniteSet(All) /\ Cardinality(All) = (outstanding + 1) * MAXOPBLOCKS
    BY <1>1, Reservations, Zenon DEF IInv, TypeOK
  <2>2. IsFiniteSet(Pending)
    BY FS_Subset, ZenonT(20) DEF IInv, CommitInv, Pending, Active, Holding, InOp
  <2>3. IsFiniteSet(Firsts) /\ Cardinality(Firsts) = Cardinality(Pending)
    BY <2>2, OneEach, Zenon
  <2>4. \A q \in Pending : Cardinality(wrote[q]) \in 1 .. MAXOPBLOCKS
    BY HasWritten, Zenon DEF IInv, SpaceInv, Pending
  <2>5. Unused' \subseteq All /\ Firsts \subseteq All /\ Unused' \cap Firsts = {}
    <3>1. Unused' \subseteq All
      BY Zenon DEF Unused
    <3>2. Pending \subseteq Active'
      BY <1>0, Zenon DEF Pending, Active, Holding, InOp
    <3>3. Firsts \subseteq All
      BY <2>4, <3>2
    <3>4. ASSUME NEW x \in Unused', x \in Firsts PROVE FALSE
      BY <2>4, <3>4 DEF Unused
    <3> QED
      BY <3>1, <3>3, <3>4, Zenon
  <2>6. IsFiniteSet(Unused')
    BY <2>1, <2>5, FS_Subset, Zenon
  <2>7. Cardinality(Unused') + Cardinality(Firsts) <= Cardinality(All)
    <3>1. Cardinality(Unused' \cup Firsts) = Cardinality(Unused') + Cardinality(Firsts)
      <4>1. /\ Cardinality(Unused' \cup Firsts)
                  = Cardinality(Unused') + Cardinality(Firsts) - Cardinality(Unused' \cap Firsts)
        BY <2>3, <2>6, FS_Union, Zenon
      <4>2. Cardinality(Unused' \cap Firsts) = 0
        BY <2>5, FS_EmptySet, Zenon
      <4>3. Cardinality(Unused') \in Nat /\ Cardinality(Firsts) \in Nat
        BY <2>3, <2>6, FS_CardinalityType, Zenon
      <4> QED
        BY <4>1, <4>2, <4>3
    <3> QED
      BY <2>1, <2>5, <3>1, FS_Subset
  <2>8. Cardinality(Unused') \in Nat /\ Cardinality(Pending) \in Nat /\ Cardinality(All) \in Nat
    BY <2>1, <2>2, <2>6, FS_CardinalityType, Zenon
  <2> HIDE DEF All, Firsts
  <2> QED
    BY <2>1, <2>3, <2>7, <2>8, SMTT(30) DEF IInv, TypeOK
<1>3. SpaceInv'
  BY <1>0, <1>2, SMTT(30) DEF IInv, TypeOK, SpaceInv, InOp, Holding, InLog
<1>4. TypeOK'
  BY DEF IInv, TypeOK
<1>5. CommitInv'
  BY <1>0, <1>1, SMTT(30) DEF IInv, TypeOK, CommitInv, InOp, InCommit
<1>6. HolderInv'
  BY DEF IInv, TypeOK, HolderInv, Holding, Cached
<1>7. HeaderInv'
  <2>1. UNCHANGED <<lh, hdr, tail, mode, committing>>
    BY Zenon DEF diskVars, bufVars
  <2>2. Injective(lh)' /\ Injective(hdr)'
    BY <2>1 DEF IInv, HeaderInv, Injective
  <2>3. \A q \in Procs : pc'[q] = "done" => pc[q] = "done"
    BY Zenon DEF IInv, TypeOK
  <2>4. Active' # {}
    BY <1>0, Zenon
  <2> QED
    BY <1>0, <2>1, <2>2, <2>3, <2>4 DEF IInv, HeaderInv
<1>8. BufferInv'
  BY <1>0, Zenon DEF IInv, TypeOK, BufferInv, Cached
<1>9. ProgressInv'
  BY <1>0 DEF IInv, TypeOK, ProgressInv, HeaderInv, Cur, Cached
<1> QED
  BY <1>3, <1>4, <1>5, <1>6, <1>7, <1>8, <1>9, Zenon DEF IInv

\* Writing a block uses one of the blocks its operation has reserved.
LEMMA StepModify ==
  ASSUME IInv, NEW p \in Procs, NEW b \in Blocks, NEW v \in Values, Modify(p, b, v) PROVE IInv'
<1> USE DEF Modify
<1>0. Active' = Active /\ p \in Active /\ ~committing /\ ~Installing' /\ ~Installing
  BY Zenon DEF IInv, TypeOK, CommitInv, Active, InOp, InCommit, Installing
<1>1. Len(lh) + Cardinality(Unused') + Cardinality(Pending') <= LOGSIZE
  <2>1. CASE b \in wrote[p]
    <3>1. wrote' = wrote
      BY <2>1 DEF IInv, TypeOK
    <3>2. Unused' = Unused
      BY <1>0, <3>1, Zenon DEF Unused
    <3>3. InLog(lh, b)
      BY <2>1, Zenon DEF IInv, SpaceInv, Holding
    <3>4. Pending' = Pending
      BY <3>3, Zenon DEF IInv, TypeOK, Pending, Holding, InLog
    <3> QED
      BY <3>2, <3>4, Zenon DEF IInv, SpaceInv
  <2>2. CASE b \notin wrote[p]
    <3> DEFINE n == Cardinality(wrote[p])
    <3>1. n \in Nat /\ n + 1 <= OpBlocks /\ Cardinality(wrote'[p]) = n + 1
      <4>1. IsFiniteSet(wrote[p]) /\ wrote'[p] = wrote[p] \cup {b}
        BY Zenon DEF IInv, TypeOK, SpaceInv
      <4>2. n \in Nat
        BY <4>1, FS_CardinalityType, Zenon
      <4>3. Cardinality(wrote[p] \cup {b}) = n + 1
        BY <2>2, <4>1, FS_AddElement, Zenon
      <4> QED
        BY <4>1, <4>2, <4>3, Zenon
    <3>2. <<p, n + 1>> \in Unused
      BY <1>0, <3>1 DEF Unused
    <3>3. Unused' = Unused \ {<<p, n + 1>>}
      <4>1. ASSUME NEW x \in Active \X (1 .. MAXOPBLOCKS)
            PROVE  x[2] > Cardinality(wrote'[x[1]])
                     <=> x[2] > Cardinality(wrote[x[1]]) /\ x # <<p, n + 1>>
        <5>1. CASE x[1] = p
          BY <5>1, <4>1, <3>1, SMTT(30)
        <5>2. CASE x[1] # p
          BY <5>2, <4>1 DEF IInv, TypeOK, Active
        <5> QED
          BY <5>1, <5>2, Zenon
      <4> QED
        BY <1>0, <4>1, Zenon DEF Unused
    <3>4. IsFiniteSet(Unused) /\ IsFiniteSet(Pending)
      BY FiniteReserve, Zenon
    <3>5. Cardinality(Unused') = Cardinality(Unused) - 1 /\ Cardinality(Unused) \in Nat
      BY <3>2, <3>3, <3>4, FS_RemoveElement, FS_CardinalityType, Zenon
    <3>6. Pending' \subseteq Pending \cup {p}
      BY Zenon DEF IInv, TypeOK, Pending, Holding, InLog
    <3>7. Cardinality(Pending') <= Cardinality(Pending) + 1
          /\ Cardinality(Pending) \in Nat /\ Cardinality(Pending') \in Nat
      BY <3>4, <3>6, AtMostOneMore, FS_CardinalityType, Zenon
    <3> QED
      BY <3>5, <3>7, SMTT(30) DEF IInv, TypeOK, SpaceInv
  <2> QED
    BY <2>1, <2>2, Zenon
<1>2. SpaceInv'
  <2>1. \A q \in Procs : IsFiniteSet(wrote'[q]) /\ Cardinality(wrote'[q]) <= OpBlocks
    <3>1. IsFiniteSet(wrote[p] \cup {b})
      BY FS_AddElement, Zenon DEF IInv, TypeOK, SpaceInv
    <3> QED
      BY <3>1 DEF IInv, TypeOK, SpaceInv
  <2>2. \A q \in Procs : ~InOp(q)' => wrote'[q] = {}
    BY SMTT(30) DEF IInv, TypeOK, SpaceInv, InOp
  <2>3. \A q \in Procs : Holding(q)' => blk'[q] \in wrote'[q]
    BY SMTT(30) DEF IInv, TypeOK, SpaceInv, Holding
  <2>4. \A q \in Procs : \A c \in wrote'[q] : InLog(lh', c) \/ (Holding(q)' /\ blk'[q] = c)
    BY DEF IInv, TypeOK, SpaceInv, Holding, InLog
  <2> QED
    BY <1>1, <2>1, <2>2, <2>3, <2>4, Zenon DEF SpaceInv
<1>3. TypeOK'
  BY Zenon DEF IInv, TypeOK
<1>4. CommitInv'
  BY <1>0, Zenon DEF IInv, TypeOK, CommitInv, InOp, InCommit
<1>5. HolderInv'
  BY SMTT(30) DEF IInv, TypeOK, HolderInv, Holding, Cached
<1>6. HeaderInv'
  BY <1>0 DEF IInv, TypeOK, HeaderInv, CommitInv, Injective, InCommit
<1>7. BufferInv'
  BY <1>0, Zenon DEF IInv, TypeOK, BufferInv, Cached
<1>8. ProgressInv'
  BY <1>0, Zenon DEF IInv, TypeOK, ProgressInv, CommitInv, InCommit
<1> QED
  BY <1>2, <1>3, <1>4, <1>5, <1>6, <1>7, <1>8, SMTT(30) DEF IInv

\* log_write moves a block from pending to the log, unless it is there.
LEMMA Steplog_write ==
  ASSUME IInv, NEW p \in Procs, log_write(p) PROVE IInv'
<1> DEFINE b == blk[p]
<1>0. /\ b \in Blocks /\ holder[b] = p /\ Cached(b)
      /\ Active' = Active /\ p \in Active /\ ~committing /\ ~Installing /\ ~Installing'
      /\ Unused' = Unused /\ mode = "up"
  <2>1. b \in Blocks /\ holder[b] = p /\ Cached(b)
    BY DEF IInv, TypeOK, HolderInv, log_write, Holding
  <2>2. Active' = Active /\ p \in Active
    BY Zenon DEF IInv, TypeOK, log_write, Active, InOp
  <2>3. ~committing /\ ~Installing /\ ~Installing' /\ mode = "up"
    BY <2>2, Zenon DEF IInv, TypeOK, CommitInv, log_write, Installing, InCommit
  <2>4. Unused' = Unused
    BY <2>2, Zenon DEF log_write, Unused
  <2> QED
    BY <2>1, <2>2, <2>3, <2>4, Zenon
<1>1. /\ lh' \in Seq(Blocks) /\ Injective(lh')
      /\ \A c \in Blocks : InLog(lh', c) <=> InLog(lh, c) \/ c = b
      /\ \/ lh' = lh /\ InLog(lh, b)
         \/ Len(lh') = Len(lh) + 1 /\ ~InLog(lh, b)
  <2>1. CASE InLog(lh, b)
    BY <1>0, <2>1, Zenon DEF IInv, TypeOK, HeaderInv, log_write, InLog
  <2>2. CASE ~InLog(lh, b)
    <3>1. lh' = Append(lh, b)
      BY <2>2, Zenon DEF log_write
    <3>2. /\ lh' \in Seq(Blocks) /\ Len(lh) \in Nat /\ Len(lh') = Len(lh) + 1 /\ lh'[Len(lh) + 1] = b
          /\ \A i \in 1 .. Len(lh) : lh'[i] = lh[i]
      BY <1>0, <3>1 DEF IInv, TypeOK
    <3>3. Injective(lh')
      BY <2>2, <3>2 DEF IInv, HeaderInv, Injective, InLog
    <3>4. \A c \in Blocks : InLog(lh', c) <=> InLog(lh, c) \/ c = b
      BY <3>2 DEF InLog
    <3> QED
      BY <2>2, <3>2, <3>3, <3>4, Zenon
  <2> QED
    BY <2>1, <2>2, Zenon
<1>2. \A q \in Procs : Holding(q)' <=> Holding(q) /\ q # p
  BY Zenon DEF IInv, TypeOK, log_write, Holding
<1>3. Len(lh') + Cardinality(Unused') + Cardinality(Pending') <= LOGSIZE
  <2>1. IsFiniteSet(Unused) /\ IsFiniteSet(Pending)
    BY FiniteReserve, Zenon
  <2>2. Cardinality(Unused) \in Nat /\ Cardinality(Pending) \in Nat
    BY <2>1, FS_CardinalityType, Zenon
  <2>3. Pending' \subseteq Pending \ {p}
    BY <1>1, <1>2, Zenon DEF IInv, TypeOK, HolderInv, log_write, Pending
  <2>4. CASE InLog(lh, b)
    <3>1. lh' = lh
      BY <1>1, <2>4, Zenon
    <3>2. Pending' \subseteq Pending
      BY <2>3, Zenon
    <3>3. IsFiniteSet(Pending') /\ Cardinality(Pending') <= Cardinality(Pending)
      BY <2>1, <3>2, FS_Subset, Zenon
    <3>4. Cardinality(Pending') \in Nat
      BY <3>3, FS_CardinalityType, Zenon
    <3> QED
      BY <1>0, <2>2, <3>1, <3>3, <3>4, SMTT(30) DEF IInv, TypeOK, SpaceInv
  <2>5. CASE ~InLog(lh, b)
    <3>1. Len(lh') = Len(lh) + 1
      BY <1>1, <2>5, Zenon
    <3>2. p \in Pending
      BY <2>5, Zenon DEF Pending, log_write, Holding
    <3>3. IsFiniteSet(Pending \ {p}) /\ Cardinality(Pending \ {p}) = Cardinality(Pending) - 1
      BY <2>1, <3>2, FS_RemoveElement, Zenon
    <3>4. IsFiniteSet(Pending') /\ Cardinality(Pending') <= Cardinality(Pending) - 1
      BY <2>3, <3>3, FS_Subset
    <3>5. Cardinality(Pending') \in Nat
      BY <3>4, FS_CardinalityType, Zenon
    <3> QED
      BY <1>0, <2>2, <3>1, <3>4, <3>5, SMTT(30) DEF IInv, TypeOK, SpaceInv
  <2> QED
    BY <2>4, <2>5, Zenon
<1>4. SpaceInv'
  <2>1. \A q \in Procs : IsFiniteSet(wrote'[q]) /\ Cardinality(wrote'[q]) <= OpBlocks
    BY Zenon DEF IInv, SpaceInv, log_write
  <2>2. \A q \in Procs : ~InOp(q)' => wrote'[q] = {}
    BY DEF IInv, TypeOK, SpaceInv, InOp, log_write
  <2>3. \A q \in Procs : Holding(q)' => blk'[q] \in wrote'[q]
    BY <1>2, Zenon DEF IInv, TypeOK, SpaceInv, log_write
  <2>4. \A q \in Procs : \A c \in wrote'[q] : InLog(lh', c) \/ (Holding(q)' /\ blk'[q] = c)
    BY <1>1, <1>2, SMTT(30) DEF IInv, TypeOK, SpaceInv, log_write
  <2> QED
    BY <1>3, <2>1, <2>2, <2>3, <2>4, Zenon DEF SpaceInv
<1>5. TypeOK'
  <2>1. IsFiniteSet(Unused) /\ IsFiniteSet(Pending')
    <3>1. IsFiniteSet(Unused) /\ IsFiniteSet(Pending)
      BY FiniteReserve, Zenon
    <3>2. Pending' \subseteq Pending
      BY <1>1, <1>2, Zenon DEF IInv, TypeOK, HolderInv, log_write, Pending
    <3> QED
      BY <3>1, <3>2, FS_Subset, Zenon
  <2>2. Cardinality(Unused) \in Nat /\ Cardinality(Pending') \in Nat
    BY <2>1, FS_CardinalityType, Zenon
  <2>3. Len(lh') <= LOGSIZE /\ lh' \in Seq(Blocks)
    BY <1>0, <1>1, <1>3, <2>2, SMTT(30)
  <2> QED
    BY <1>0, <2>3, Zenon DEF IInv, TypeOK, log_write
<1>6. CommitInv'
  BY <1>0, SMTT(30) DEF IInv, TypeOK, CommitInv, log_write, InOp, InCommit
<1>7. HolderInv'
  BY DEF IInv, TypeOK, HolderInv, log_write, Holding, Cached
<1>8. HeaderInv'
  <2>1. tail' <= Len(lh')
    BY <1>1 DEF IInv, TypeOK, HeaderInv, log_write
  <2>2. \A q \in Procs : pc'[q] # "done"
    BY <1>0, Zenon DEF IInv, TypeOK, CommitInv, InCommit, log_write
  <2>3. hdr' = <<>> /\ Injective(hdr')
    BY <1>0, Zenon DEF IInv, HeaderInv, log_write
  <2> QED
    BY <1>0, <1>1, <2>1, <2>2, <2>3, Zenon DEF HeaderInv, log_write
<1>9. BufferInv'
  <2>1. \A c \in Blocks : c \in dirty' <=> InLog(lh', c)
    BY <1>0, <1>1 DEF IInv, TypeOK, BufferInv, InLog, log_write
  <2>2. \A c \in dirty' : Cached(c)'
    BY <1>0, Zenon DEF IInv, BufferInv, Cached, log_write
  <2>3. \A c \in Blocks : Cached(c)' /\ c \notin dirty' /\ holder'[c] = NoProc => cache'[c] = disk'[c]
    BY <1>0, Zenon DEF IInv, TypeOK, BufferInv, Cached, log_write
  <2> QED
    BY <1>0, <2>1, <2>2, <2>3, SMTT(30) DEF BufferInv, InLog, log_write
<1>10. ProgressInv'
  BY <1>0, Zenon DEF IInv, TypeOK, ProgressInv, CommitInv, InCommit, log_write
<1> QED
  BY <1>4, <1>5, <1>6, <1>7, <1>8, <1>9, <1>10, Zenon DEF IInv

\* end_op gives up what its operation has not used.
LEMMA Stepend_op ==
  ASSUME IInv, NEW p \in Procs, end_op(p) PROVE IInv'
<1>0. /\ p \in Active /\ ~committing /\ mode = "up"
      /\ \A q \in Procs : ~InCommit(q)
  BY Zenon DEF IInv, TypeOK, CommitInv, end_op, Active, InOp
<1>1. /\ pc'[p] \in {"idle", "commit"}
      /\ \A q \in Procs \ {p} : pc'[q] = pc[q] \/ (pc[q] = "asleep" /\ pc'[q] = "begin")
      /\ pc' \in [Procs -> Places]
  BY Zenon DEF IInv, TypeOK, end_op, Woken
<1>2. /\ Active' = Active \ {p}
      /\ Pending' = Pending /\ ~Installing /\ ~Installing'
      /\ \A q \in Procs : Holding(q)' <=> Holding(q)
  <2>1. \A q \in Procs : (Holding(q)' <=> Holding(q)) /\ (InOp(q)' <=> InOp(q) /\ q # p)
    BY <1>1, Zenon DEF end_op, InOp, Holding
  <2>2. Active' = Active \ {p} /\ Pending' = Pending
    BY <2>1, Zenon DEF Active, Pending, InLog, end_op
  <2>3. ~Installing /\ ~Installing'
    BY <1>0, <1>1, Zenon DEF Installing, InCommit
  <2> QED
    BY <2>1, <2>2, <2>3, Zenon
<1>3. IsFiniteSet(Active') /\ outstanding' = Cardinality(Active') /\ outstanding' \in Nat
  <2>1. IsFiniteSet(Active') /\ Cardinality(Active') = Cardinality(Active) - 1
    BY <1>0, <1>2, FS_RemoveElement, Zenon DEF IInv, CommitInv
  <2> QED
    BY <2>1, FS_CardinalityType, Zenon DEF IInv, CommitInv, end_op
<1>4. SpaceInv'
  <2>1. IsFiniteSet(Unused) /\ IsFiniteSet(Pending)
    BY FiniteReserve, Zenon
  <2>2. Unused' \subseteq Unused
    <3>1. \A q \in Active' : q \in Active /\ wrote'[q] = wrote[q]
      BY <1>2, Zenon DEF IInv, TypeOK, end_op, Active
    <3> QED
      BY <3>1, Zenon DEF Unused
  <2>3. IsFiniteSet(Unused') /\ Cardinality(Unused') <= Cardinality(Unused)
    BY <2>1, <2>2, FS_Subset, Zenon
  <2>4. Cardinality(Unused) \in Nat /\ Cardinality(Unused') \in Nat /\ Cardinality(Pending) \in Nat
    BY <2>1, <2>3, FS_CardinalityType, Zenon
  <2>5. Len(lh') + Cardinality(Unused') + Cardinality(Pending') <= LOGSIZE
    BY <1>2, <2>3, <2>4, SMTT(30) DEF IInv, TypeOK, SpaceInv, end_op
  <2>6. \A q \in Procs : wrote'[q] = IF q = p THEN {} ELSE wrote[q]
    BY Zenon DEF IInv, TypeOK, end_op
  <2>7. \A q \in Procs : IsFiniteSet(wrote'[q]) /\ Cardinality(wrote'[q]) <= OpBlocks
    <3>1. IsFiniteSet({}) /\ Cardinality({}) <= OpBlocks
      <4>1. IsFiniteSet({}) /\ Cardinality({}) = 0
        BY FS_EmptySet, Zenon
      <4>2. 0 <= OpBlocks
        BY LogAssumption
      <4> QED
        BY <4>1, <4>2, Zenon
    <3>2. \A q \in Procs : IsFiniteSet(wrote[q]) /\ Cardinality(wrote[q]) <= OpBlocks
      BY Zenon DEF IInv, SpaceInv
    <3>3. ASSUME NEW q \in Procs PROVE IsFiniteSet(wrote'[q]) /\ Cardinality(wrote'[q]) <= OpBlocks
      <4>1. CASE q = p
        BY <2>6, <3>1, <4>1, Zenon
      <4>2. CASE q # p
        BY <2>6, <3>2, <4>2, Zenon
      <4> QED
        BY <4>1, <4>2, Zenon
    <3> QED
      BY <3>3, Zenon
  <2>8. \A q \in Procs : ~InOp(q)' => wrote'[q] = {}
    BY <1>1, <2>6, Zenon DEF IInv, TypeOK, SpaceInv, InOp
  <2>9. \A q \in Procs : Holding(q)' => blk'[q] \in wrote'[q]
    <3>1. ~Holding(p) /\ blk' = blk
      BY Zenon DEF end_op, Holding
    <3> QED
      BY <1>2, <2>6, <3>1, Zenon DEF IInv, SpaceInv
  <2>10. \A q \in Procs : \A c \in wrote'[q] : InLog(lh', c) \/ (Holding(q)' /\ blk'[q] = c)
    <3>1. lh' = lh /\ blk' = blk
      BY Zenon DEF end_op
    <3> QED
      BY <1>2, <2>6, <3>1, Zenon DEF IInv, SpaceInv
  <2> QED
    BY <2>5, <2>7, <2>8, <2>9, <2>10, Zenon DEF SpaceInv
<1>5. TypeOK'
  BY <1>1, <1>3, Zenon DEF IInv, TypeOK, end_op
<1>6. CommitInv'
  <2>1. outstanding' = 0 <=> Active' = {}
    BY <1>3, FS_EmptySet, Zenon
  <2>2. \A q \in Procs : InCommit(q)' <=> q = p /\ pc'[p] = "commit"
    BY <1>0, <1>1, Zenon DEF InCommit
  <2>3. committing' <=> pc'[p] = "commit"
    BY <1>0 DEF IInv, TypeOK, end_op, Woken
  <2>4. committing' => Active' = {}
    BY <1>0, <2>1, Zenon DEF end_op
  <2> QED
    BY <1>0, <1>3, <2>2, <2>3, <2>4, Zenon DEF CommitInv, end_op
<1>7. HolderInv'
  BY <1>2, SMTT(30) DEF IInv, TypeOK, HolderInv, end_op, Cached
<1>8. HeaderInv'
  <2>1. outstanding' # 0 => Active' # {}
    BY <1>3, FS_EmptySet, Zenon
  <2>2. Active' = {} /\ ~committing' => lh = <<>>
    BY <2>1, Zenon DEF end_op
  <2>3. \A q \in Procs : pc'[q] # "done"
    BY <1>0, <1>1, Zenon DEF InCommit
  <2> QED
    BY <1>0, <1>2, <2>2, <2>3, SMTT(30) DEF IInv, HeaderInv, Injective, end_op
<1>9. BufferInv'
  BY <1>2, Zenon DEF IInv, TypeOK, BufferInv, end_op, Cached
<1>10. ProgressInv'
  BY <1>0, <1>1, <1>2 DEF IInv, ProgressInv, InCommit, end_op
<1> QED
  BY <1>4, <1>5, <1>6, <1>7, <1>8, <1>9, <1>10, Zenon DEF IInv

\* A crash forgets all but the disk, in any state.
LEMMA StepCrash ==
  ASSUME IInv, Crash PROVE IInv'
<1>0. /\ \A q \in Procs : pc'[q] = "idle" /\ wrote'[q] = {}
      /\ Active' = {} /\ Unused' = {} /\ Pending' = {} /\ ~Installing'
  <2>1. \A q \in Procs : pc'[q] = "idle" /\ wrote'[q] = {}
    BY Zenon DEF Crash
  <2>2. Active' = {} /\ Pending' = {} /\ ~Installing'
    BY <2>1, Zenon DEF Active, InOp, Pending, Holding, Installing
  <2> QED
    BY <2>1, <2>2, Zenon DEF Unused
<1>1. IsFiniteSet({}) /\ Cardinality({}) = 0
  BY FS_EmptySet, Zenon
<1>2. SpaceInv'
  <2>1. Len(lh') + Cardinality(Unused') + Cardinality(Pending') <= LOGSIZE
    BY <1>0, <1>1 DEF Crash
  <2>2. 0 <= OpBlocks
    OBVIOUS
  <2>3. \A q \in Procs : IsFiniteSet(wrote'[q]) /\ Cardinality(wrote'[q]) <= OpBlocks
    BY <1>0, <1>1, <2>2, Zenon
  <2> QED
    BY <1>0, <2>1, <2>3, Zenon DEF SpaceInv, InOp, Holding
<1>3. TypeOK'
  <2>1. cache' \in [Blocks -> Values \cup {NoData}] /\ holder' \in [Blocks -> Procs \cup {NoProc}]
    BY Zenon DEF Crash
  <2>2. /\ pc' \in [Procs -> Places] /\ blk' \in [Procs -> Blocks \cup {NoBlock}]
        /\ wrote' \in [Procs -> SUBSET Blocks]
    BY Zenon DEF Crash
  <2>3. lh' \in Seq(Blocks) /\ Len(lh') <= LOGSIZE
    BY DEF Crash
  <2>4. /\ UNCHANGED diskVars /\ dirty' = {} /\ mode' = "recover" /\ tail' = 0
        /\ outstanding' = 0
    BY Zenon DEF Crash
  <2>5. committing' \in BOOLEAN
    BY Zenon DEF Crash
  <2> QED
    BY <2>1, <2>2, <2>3, <2>4, <2>5, SMTT(30) DEF IInv, TypeOK
<1>4. CommitInv'
  BY <1>0, <1>1, Zenon DEF CommitInv, InOp, InCommit, Crash
<1>5. HolderInv'
  BY <1>0, Zenon DEF HolderInv, Holding, Cached, Crash
<1>6. HeaderInv'
  BY <1>0 DEF IInv, TypeOK, HeaderInv, Injective, Crash
<1>7. BufferInv'
  BY <1>0, Zenon DEF BufferInv, Cached, Crash
<1>8. ProgressInv'
  BY <1>0 DEF ProgressInv, Crash
<1> QED
  BY <1>2, <1>3, <1>4, <1>5, <1>6, <1>7, <1>8, Zenon DEF IInv

-----------------------------------------------------------------------------
\* mkfs leaves an empty log.
LEMMA InitIInv == Init => IInv
<1> SUFFICES ASSUME Init PROVE IInv
  BY Zenon
<1>0. /\ \A q \in Procs : pc[q] = "idle" /\ wrote[q] = {}
      /\ Active = {} /\ Unused = {} /\ Pending = {} /\ ~Installing
  <2>1. \A q \in Procs : pc[q] = "idle" /\ wrote[q] = {}
    BY Zenon DEF Init
  <2>2. Active = {} /\ Pending = {} /\ ~Installing
    BY <2>1, Zenon DEF Active, InOp, Pending, Holding, Installing
  <2> QED
    BY <2>1, <2>2, Zenon DEF Unused
<1>1. IsFiniteSet({}) /\ Cardinality({}) = 0
  BY FS_EmptySet, Zenon
<1>2. SpaceInv
  <2>1. Len(lh) + Cardinality(Unused) + Cardinality(Pending) <= LOGSIZE
    BY <1>0, <1>1 DEF Init
  <2>2. 0 <= OpBlocks
    OBVIOUS
  <2>3. \A q \in Procs : IsFiniteSet(wrote[q]) /\ Cardinality(wrote[q]) <= OpBlocks
    BY <1>0, <1>1, <2>2, Zenon
  <2> QED
    BY <1>0, <2>1, <2>3, Zenon DEF SpaceInv, InOp, Holding
<1>3. TypeOK
  <2>1. cache \in [Blocks -> Values \cup {NoData}] /\ holder \in [Blocks -> Procs \cup {NoProc}]
    BY Zenon DEF Init
  <2>2. /\ pc \in [Procs -> Places] /\ blk \in [Procs -> Blocks \cup {NoBlock}]
        /\ wrote \in [Procs -> SUBSET Blocks]
    BY Zenon DEF Init
  <2>3. /\ lh \in Seq(Blocks) /\ Len(lh) <= LOGSIZE
        /\ hdr \in Seq(Blocks) /\ Len(hdr) <= LOGSIZE
    BY DEF Init
  <2>4. /\ disk \in [Blocks -> Values] /\ logd \in [1 .. LOGSIZE -> Values]
        /\ dirty = {} /\ mode = "recover" /\ tail = 0 /\ outstanding = 0
    BY Zenon DEF Init
  <2>5. committing \in BOOLEAN
    BY Zenon DEF Init
  <2> QED
    BY <2>1, <2>2, <2>3, <2>4, <2>5 DEF TypeOK
<1>4. CommitInv
  BY <1>0, <1>1, Zenon DEF CommitInv, InOp, InCommit, Init
<1>5. HolderInv
  BY <1>0, Zenon DEF HolderInv, Holding, Cached, Init
<1>6. HeaderInv
  BY <1>0 DEF HeaderInv, Injective, Init
<1>7. BufferInv
  BY <1>0, Zenon DEF BufferInv, Cached, Init
<1>8. ProgressInv
  BY <1>0 DEF ProgressInv, Init
<1> QED
  BY <1>2, <1>3, <1>4, <1>5, <1>6, <1>7, <1>8, Zenon DEF IInv

\* Every step keeps IInv.
LEMMA NextIInv == IInv /\ [Next]_vars => IInv'
<1> SUFFICES ASSUME IInv, [Next]_vars PROVE IInv'
  BY Zenon
<1>1. ASSUME NEW p \in Procs, Operation(p) PROVE IInv'
  BY <1>1, StepBeginSleeps, Stepbegin_op, StepModify, StepLogTest, Steplog_write, Stepend_op
 , Zenon DEF Operation
<1>2. ASSUME NEW p \in Procs, Committing(p) PROVE IInv'
  BY <1>2, NoneIsCounted, StepCommit, Stepwrite_log, Stepwrite_head, Stepinstall_trans, StepErase, StepEndCommit
 , Zenon DEF Committing
<1>3. ASSUME NEW b \in Blocks, Read(b) \/ Recycle(b) PROVE IInv'
  BY <1>3, StepRead, StepRecycle, Zenon
<1>4. CASE Recovery
  BY <1>4, NoneIsCounted, Stepread_head, StepRecoverInstall, Steprecover_from_log, Zenon DEF Recovery
<1>5. CASE Crash
  BY <1>5, StepCrash, Zenon
<1>6. CASE UNCHANGED vars
  <2> USE <1>6 DEF vars
  <2>1. /\ Active' = Active /\ Unused' = Unused /\ Pending' = Pending
        /\ (Installing' <=> Installing)
    BY Zenon DEF Active, InOp, Unused, Pending, Holding, InLog, Installing
  <2>2. TypeOK' /\ CommitInv'
    BY <2>1, Zenon DEF IInv, TypeOK, CommitInv, InCommit
  <2>3. HolderInv' /\ HeaderInv'
    BY <2>1 DEF IInv, HolderInv, HeaderInv, Holding, Injective, Cached
  <2>4. BufferInv' /\ ProgressInv'
    BY <2>1, Zenon DEF IInv, BufferInv, ProgressInv, Cached, Cur
  <2>5. SpaceInv'
    BY <2>1, Zenon DEF IInv, SpaceInv, InOp, Holding, InLog
  <2> QED
    BY <2>2, <2>3, <2>4, <2>5, Zenon DEF IInv
<1> QED
  BY <1>1, <1>2, <1>3, <1>4, <1>5, <1>6, Zenon DEF Next

\* IInv holds in every reachable state of the log.
THEOREM LogInvariant == Spec => []IInv
<1> QED
  BY InitIInv, NextIInv, PTL DEF Spec

\* The log stays well typed.
THEOREM LogTyped == Spec => []TypeOK
<1>1. IInv => TypeOK
  BY Zenon DEF IInv
<1> QED
  BY <1>1, LogInvariant, PTL

\* After the last operation everything is on disk, in its place.
THEOREM QuietThenDurable == Spec => []QuietIsDurable
<1>1. IInv => QuietIsDurable
  <2> SUFFICES ASSUME IInv, mode = "up", outstanding = 0, ~committing
               PROVE  hdr = <<>> /\ lh = <<>> /\ dirty = {} /\ \A b \in Blocks : Cur(b) = disk[b]
    BY Zenon DEF QuietIsDurable
  <2>1. Active = {}
    BY FS_EmptySet, Zenon DEF IInv, CommitInv
  <2>2. lh = <<>> /\ hdr = <<>>
    BY <2>1, Zenon DEF IInv, HeaderInv, CommitInv, Installing, InCommit
  <2>3. dirty = {}
    BY <2>2, SMTT(30) DEF IInv, TypeOK, BufferInv
  <2>4. \A b \in Blocks : holder[b] = NoProc
    BY <2>1 DEF IInv, TypeOK, HolderInv, Active, InOp, Holding
  <2>5. \A b \in Blocks : Cur(b) = disk[b]
    BY <2>3, <2>4, Zenon DEF IInv, BufferInv, Cur
  <2> QED
    BY <2>2, <2>3, <2>5, Zenon
<1> QED
  BY <1>1, LogInvariant, PTL

\* log_write never panics, and end_op never meets a commit, as long as
\* operations leave two of the blocks reserved for each of them unused.
THEOREM LogNeverPanics ==
  ASSUME OpBlocks + 2 <= MAXOPBLOCKS, LOGSIZE <= size
  PROVE  Spec => []NoPanic
<1>1. IInv => NoPanic
  <2> SUFFICES ASSUME IInv, NEW p \in Procs, InOp(p)
               PROVE  ~committing /\ (pc[p] = "modified" => ~TooBig /\ outstanding >= 1)
    BY Zenon DEF NoPanic, InOp
  <2>1. p \in Active
    BY Zenon DEF Active
  <2>2. ~committing
    BY <2>1, Zenon DEF IInv, CommitInv
  <2>3. outstanding >= 1
    <3>1. Cardinality(Active) # 0
      BY <2>1, FS_EmptySet, Zenon DEF IInv, CommitInv
    <3> QED
      BY <3>1 DEF IInv, TypeOK, CommitInv
  <2>4. Cardinality(wrote[p]) \in Nat /\ Cardinality(wrote[p]) + 2 <= MAXOPBLOCKS
    <3>1. IsFiniteSet(wrote[p]) /\ Cardinality(wrote[p]) <= OpBlocks
      BY Zenon DEF IInv, SpaceInv
    <3>2. Cardinality(wrote[p]) \in Nat
      BY <3>1, FS_CardinalityType, Zenon
    <3> QED
      BY <3>1, <3>2
  <2>5. {<<p, MAXOPBLOCKS - 1>>, <<p, MAXOPBLOCKS>>} \subseteq Unused
    BY <2>1, <2>4 DEF Unused
  <2>6. Cardinality({<<p, MAXOPBLOCKS - 1>>, <<p, MAXOPBLOCKS>>}) = 2
    <3> DEFINE x == <<p, MAXOPBLOCKS - 1>>
               y == <<p, MAXOPBLOCKS>>
    <3>1. x # y
      OBVIOUS
    <3> HIDE DEF x, y
    <3>2. IsFiniteSet({x}) /\ Cardinality({x}) = 1
      BY FS_Singleton, Zenon
    <3>3. Cardinality({x} \cup {y}) = Cardinality({x}) + 1
      BY <3>1, <3>2, FS_AddElement, Zenon
    <3>4. {x, y} = {x} \cup {y}
      BY Zenon
    <3> QED
      BY <3>2, <3>3, <3>4 DEF x, y
  <2>7. Cardinality(Unused) \in Nat /\ Cardinality(Unused) >= 2 /\ Cardinality(Pending) \in Nat
    <3>1. IsFiniteSet(Unused) /\ IsFiniteSet(Pending)
      BY FiniteReserve, Zenon
    <3>2. 2 <= Cardinality(Unused)
      BY <2>5, <2>6, <3>1, FS_Subset
    <3>3. Cardinality(Unused) \in Nat /\ Cardinality(Pending) \in Nat
      BY <3>1, FS_CardinalityType, Zenon
    <3> QED
      BY <3>2, <3>3, Zenon
  <2>8. Len(lh) + 2 <= LOGSIZE
    BY <2>7 DEF IInv, TypeOK, SpaceInv
  <2> QED
    BY <2>2, <2>3, <2>8, SMTT(30) DEF IInv, TypeOK, TooBig
<1> QED
  BY <1>1, LogInvariant, PTL

\* Nobody sleeps in begin_op with nobody left to wake them.
THEOREM BeginNeverLosesWakeup == Spec => []NoLostWakeup
<1>1. Init => NoLostWakeup
  BY Zenon DEF Init, NoLostWakeup
<1>2. IInv /\ NoLostWakeup /\ [Next]_vars => NoLostWakeup'
  <2> SUFFICES ASSUME IInv, NoLostWakeup, [Next]_vars, NEW q \in Procs, pc'[q] = "asleep"
               PROVE  (committing \/ (NoRoom /\ outstanding > 0))'
    BY Zenon DEF NoLostWakeup
  <2> DEFINE Reserved == outstanding * MAXOPBLOCKS
  <2>0. Reserved \in Nat /\ (outstanding + 1) * MAXOPBLOCKS = Reserved + MAXOPBLOCKS
    BY DEF IInv, TypeOK
  <2>1. ASSUME NEW p \in Procs, BeginSleeps(p)
        PROVE  (committing \/ (NoRoom /\ outstanding > 0))'
    <3>1. CASE outstanding = 0 /\ ~committing
      <4>1. Active = {}
        BY <3>1, FS_EmptySet, Zenon DEF IInv, CommitInv
      <4>2. lh = <<>>
        BY <2>1, <3>1, <4>1, Zenon DEF IInv, HeaderInv, BeginSleeps
      <4> QED
        BY <2>1, <3>1, <4>2 DEF BeginSleeps, NoRoom
    <3>2. CASE outstanding # 0 \/ committing
      BY <2>1, <3>2 DEF IInv, TypeOK, BeginSleeps, NoRoom
    <3> QED
      BY <3>1, <3>2, Zenon
  <2>2. ASSUME NEW p \in Procs, begin_op(p)
        PROVE  (committing \/ (NoRoom /\ outstanding > 0))'
    <3>1. pc[q] = "asleep" /\ ~committing
      BY <2>2, Zenon DEF IInv, TypeOK, begin_op
    <3>2. NoRoom /\ ~NoRoom
      BY <2>2, <3>1, Zenon DEF NoLostWakeup, begin_op
    <3> QED
      BY <3>2, Zenon
  <2>3. ASSUME NEW p \in Procs, NEW b \in Blocks, NEW v \in Values, Modify(p, b, v)
        PROVE  (committing \/ (NoRoom /\ outstanding > 0))'
    BY <2>3, Zenon DEF IInv, TypeOK, NoLostWakeup, NoRoom, Modify
  <2>4. ASSUME NEW p \in Procs, LogTest(p)
        PROVE  (committing \/ (NoRoom /\ outstanding > 0))'
    BY <2>4, Zenon DEF IInv, TypeOK, NoLostWakeup, NoRoom, LogTest
  <2>5. ASSUME NEW p \in Procs, log_write(p)
        PROVE  (committing \/ (NoRoom /\ outstanding > 0))'
    <3>1. pc[q] = "asleep" /\ outstanding' = outstanding /\ committing' = committing
      BY <2>5, Zenon DEF IInv, TypeOK, log_write
    <3>2. blk[p] \in Blocks
      BY <2>5, Zenon DEF IInv, HolderInv, Holding, log_write
    <3>3. Len(lh') >= Len(lh) /\ Len(lh') \in Nat /\ Len(lh) \in Nat
      BY <2>5, <3>2, SMTT(30) DEF IInv, TypeOK, log_write
    <3> QED
      BY <2>0, <3>1, <3>3, SMTT(30) DEF IInv, TypeOK, NoLostWakeup, NoRoom
  <2>6. ASSUME NEW p \in Procs, end_op(p)
        PROVE  (committing \/ (NoRoom /\ outstanding > 0))'
    BY <2>6, Zenon DEF IInv, TypeOK, end_op, Woken
  <2>7. ASSUME NEW p \in Procs, Committing(p)
        PROVE  (committing \/ (NoRoom /\ outstanding > 0))'
    <3>1. committing
      BY <2>7, Committer
     , Zenon DEF Committing, Commit, write_log, write_head, install_trans, Erase, EndCommit, Goes, InCommit
    <3>2. CASE EndCommit(p)
      BY <3>2, Zenon DEF IInv, TypeOK, EndCommit, Woken
    <3>3. CASE ~EndCommit(p)
      BY <2>7, <3>1, <3>3, Zenon DEF Committing, Commit, write_log, write_head, install_trans, InstallBlock, Erase
    <3> QED
      BY <3>2, <3>3, Zenon
  <2>8. ASSUME NEW b \in Blocks, Read(b) \/ Recycle(b)
        PROVE  (committing \/ (NoRoom /\ outstanding > 0))'
    BY <2>8 DEF NoLostWakeup, NoRoom, Read, Recycle
  <2>9. ASSUME Recovery \/ Crash
        PROVE  (committing \/ (NoRoom /\ outstanding > 0))'
    BY <2>9, Zenon DEF IInv, CommitInv, Recovery, read_head, RecoverInstall, InstallBlock, recover_from_log, Crash
  <2>10. CASE UNCHANGED vars
    BY <2>10, Zenon DEF NoLostWakeup, NoRoom, vars
  <2> QED
    BY <2>1, <2>2, <2>3, <2>4, <2>5, <2>6, <2>7, <2>8, <2>9, <2>10, Zenon DEF Next, Operation
<1> QED
  BY <1>1, <1>2, LogInvariant, PTL DEF Spec

\* The log makes operations atomic (AtomicDisk), whatever the number of
\* processes and blocks: crashes, also in the middle of a commit or of a
\* recovery, leave all of an operation's writes or none.
THEOREM LogImplementsAtomicDisk == Spec => AtomicSpec
<1>1. Init => Atomic!Init
  <2> SUFFICES ASSUME Init PROVE Atomic!Init
    BY Zenon
  <2>1. Recovered = disk /\ disk \in [Blocks -> Values]
    BY EmptyOverlay, Zenon DEF Init, Recovered
  <2>2. Seen = Recovered /\ Active = {}
    BY Zenon DEF Init, Seen, Active, InOp
  <2> QED
    BY <2>1, <2>2, Zenon DEF Atomic!Init
<1>2. IInv /\ [Next]_vars => [Atomic!Next]_(Atomic!vars)
  <2> SUFFICES ASSUME IInv, [Next]_vars PROVE Atomic!Next \/ Stutters
    BY Zenon DEF Stutters, Atomic!vars
  <2>1. ASSUME NEW p \in Procs, Operation(p) \/ Committing(p) PROVE Atomic!Next \/ Stutters
    BY <2>1, SimOperation, SimCommitting, Zenon
  <2>2. ASSUME NEW b \in Blocks, Read(b) \/ Recycle(b) PROVE Stutters
    BY <2>2, SimRead, Zenon
  <2>3. CASE Recovery
    BY <2>3, SimRecovery, Zenon
  <2>4. CASE Crash
    <3>1. Recovered' = Recovered /\ mode' = "recover"
      BY <2>4, Zenon DEF Recovered, Crash
    <3>2. Active' = {}
      BY <2>4, Zenon DEF Active, InOp, Crash
    <3> QED
      BY <3>1, <3>2, Zenon DEF Seen, Atomic!Next, Atomic!Crash
  <2>5. CASE UNCHANGED vars
    <3>1. Seen' = Seen /\ Recovered' = Recovered /\ Active' = Active
      BY <2>5, QuietSteps, Zenon DEF vars, Active, InOp
    <3> QED
      BY <3>1, Zenon DEF Stutters
  <2> QED
    BY <2>1, <2>2, <2>3, <2>4, <2>5, Zenon DEF Next
<1> QED
  BY <1>1, <1>2, LogInvariant, PTL DEF Spec, AtomicSpec, Atomic!Spec
=============================================================================
