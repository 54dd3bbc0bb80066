-------------------------------- MODULE Log --------------------------------
(***************************************************************************)
(* The write-ahead log of the file system (log.c) over the buffer cache    *)
(* and the disk: begin_op, log_write, end_op, commit, and the recovery     *)
(* that initlog makes after a crash.                                       *)
(*                                                                         *)
(* A stretch of code under log.lock is one action; so is the write of one  *)
(* disk block (a block is one sector).  The machine can crash between any  *)
(* two actions: the disk keeps its blocks, memory is lost.  A buffer is in *)
(* the cache or not; while it is neither dirty nor locked, bget may use it *)
(* for another block, and the next bread takes the block from disk again.  *)
(***************************************************************************)
EXTENDS Naturals, Sequences, FiniteSets

CONSTANTS
  Procs,
  Blocks,        \* home blocks of the file system
  Values,        \* contents of a block
  MAXOPBLOCKS,   \* blocks an operation may write, as begin_op reckons
  LOGSIZE,
  size,          \* sb.nlog, the blocks of the log on disk, header included
  OpBlocks       \* blocks an operation does write

NoData == "none"
NoProc == "none"
NoBlock == "none"

ASSUME LogAssumption ==
  /\ MAXOPBLOCKS \in Nat /\ LOGSIZE \in Nat /\ size \in Nat /\ OpBlocks \in 0 .. MAXOPBLOCKS
  /\ MAXOPBLOCKS <= LOGSIZE
  /\ NoData \notin Values /\ NoProc \notin Procs /\ NoBlock \notin Blocks

VARIABLES
  disk, hdr, logd,              \* on disk: home blocks, log header, log blocks
  cache, dirty, holder,         \* buffers: data, B_DIRTY, owner of the lock
  lh, outstanding, committing,  \* struct log
  mode,                         \* "recover", or "up" once initlog is done
  tail,                         \* the loop variable of commit or of recovery
  pc, blk, wrote                \* per process: place, buffer held, blocks written

diskVars == <<disk, hdr, logd>>
bufVars == <<cache, dirty, holder>>
logVars == <<lh, outstanding, committing>>
procVars == <<pc, blk, wrote>>
vars == <<diskVars, bufVars, logVars, mode, tail, procVars>>

Places == {"idle", "begin", "asleep", "op", "modified", "log_write",
           "commit", "write_log", "install", "done"}

\* A file system as mkfs has left it, before initlog has run.
Init ==
  /\ disk \in [Blocks -> Values]
  /\ hdr = <<>>
  /\ logd \in [1 .. LOGSIZE -> Values] /\ \A i, j \in 1 .. LOGSIZE : logd[i] = logd[j]
  /\ mode = "recover"
  /\ cache = [b \in Blocks |-> NoData] /\ dirty = {}
  /\ holder = [b \in Blocks |-> NoProc]
  /\ lh = <<>> /\ outstanding = 0 /\ committing = FALSE
  /\ tail = 0
  /\ pc = [p \in Procs |-> "idle"]
  /\ blk = [p \in Procs |-> NoBlock]
  /\ wrote = [p \in Procs |-> {}]

-----------------------------------------------------------------------------
\* The buffer cache, as log.c and its callers see it

Cached(b) == cache[b] # NoData

\* What bread(b) returns.
Cur(b) == IF Cached(b) THEN cache[b] ELSE disk[b]

\* bread and brelse of a block that somebody only reads
Read(b) ==
  /\ mode = "up" /\ ~Cached(b)
  /\ cache' = [cache EXCEPT ![b] = disk[b]]
  /\ UNCHANGED <<diskVars, dirty, holder, logVars, mode, tail, procVars>>

\* bget recycles the buffer of b: nobody refers to it, and it is not dirty.
Recycle(b) ==
  /\ Cached(b) /\ holder[b] = NoProc /\ b \notin dirty
  /\ cache' = [cache EXCEPT ![b] = NoData]
  /\ UNCHANGED <<diskVars, dirty, holder, logVars, mode, tail, procVars>>

-----------------------------------------------------------------------------
\* Operations

\* pc when all who sleep on &log have been woken
Woken == [q \in Procs |-> IF pc[q] = "asleep" THEN "begin" ELSE pc[q]]

NoRoom == Len(lh) + (outstanding + 1) * MAXOPBLOCKS > LOGSIZE

BeginSleeps(p) ==
  /\ mode = "up" /\ pc[p] \in {"idle", "begin"}
  /\ committing \/ NoRoom
  /\ pc' = [pc EXCEPT ![p] = "asleep"]
  /\ UNCHANGED <<diskVars, bufVars, logVars, mode, tail, blk, wrote>>

MutBeginNoReserve(p) ==
  /\ mode = "up" /\ pc[p] \in {"idle", "begin"}
  /\ ~committing /\ Len(lh) + MAXOPBLOCKS <= LOGSIZE
  /\ outstanding' = outstanding + 1
  /\ pc' = [pc EXCEPT ![p] = "op"]
  /\ UNCHANGED <<diskVars, bufVars, lh, committing, mode, tail, blk, wrote>>

begin_op(p) ==
  /\ mode = "up" /\ pc[p] \in {"idle", "begin"}
  /\ ~committing /\ ~NoRoom
  /\ outstanding' = outstanding + 1
  /\ pc' = [pc EXCEPT ![p] = "op"]
  /\ UNCHANGED <<diskVars, bufVars, lh, committing, mode, tail, blk, wrote>>

\* The caller locks a buffer (bread) and changes its data.
Modify(p, b, v) ==
  /\ pc[p] = "op" /\ holder[b] = NoProc
  /\ Cardinality(wrote[p] \cup {b}) <= OpBlocks
  /\ cache' = [cache EXCEPT ![b] = v]
  /\ holder' = [holder EXCEPT ![b] = p]
  /\ pc' = [pc EXCEPT ![p] = "modified"]
  /\ blk' = [blk EXCEPT ![p] = b]
  /\ wrote' = [wrote EXCEPT ![p] = @ \cup {b}]
  /\ UNCHANGED <<diskVars, dirty, logVars, mode, tail>>

\* log_write first tests, without the lock, for its two panics ...
TooBig == Len(lh) >= LOGSIZE \/ Len(lh) >= size - 1

LogTest(p) ==
  /\ pc[p] = "modified"
  /\ ~TooBig /\ outstanding >= 1
  /\ pc' = [pc EXCEPT ![p] = "log_write"]
  /\ UNCHANGED <<diskVars, bufVars, logVars, mode, tail, blk, wrote>>

InLog(s, b) == \E i \in 1 .. Len(s) : s[i] = b

\* ... then adds the block unless it is in the log already (absorption), marks
\* the buffer dirty, and the caller releases it (brelse).
log_write(p) ==
  /\ pc[p] = "log_write"
  /\ lh' = IF InLog(lh, blk[p]) THEN lh ELSE Append(lh, blk[p])
  /\ dirty' = dirty \cup {blk[p]}
  /\ holder' = [holder EXCEPT ![blk[p]] = NoProc]
  /\ pc' = [pc EXCEPT ![p] = "op"]
  /\ blk' = [blk EXCEPT ![p] = NoBlock]
  /\ UNCHANGED <<diskVars, cache, outstanding, committing, mode, tail, wrote>>

MutEndSilent(p) ==
  /\ pc[p] = "op" /\ ~committing
  /\ outstanding' = outstanding - 1
  /\ wrote' = [wrote EXCEPT ![p] = {}]
  /\ committing' = (outstanding' = 0)
  /\ pc' = [pc EXCEPT ![p] = IF outstanding' = 0 THEN "commit" ELSE "idle"]
  /\ UNCHANGED <<diskVars, bufVars, lh, mode, tail, blk>>

\* The last operation commits; another one wakes those that wait for room.
end_op(p) ==
  /\ pc[p] = "op" /\ ~committing
  /\ outstanding' = outstanding - 1
  /\ wrote' = [wrote EXCEPT ![p] = {}]
  /\ \/ /\ outstanding' = 0
        /\ committing' = TRUE
        /\ pc' = [pc EXCEPT ![p] = "commit"]
     \/ /\ outstanding' # 0
        /\ UNCHANGED committing
        /\ pc' = [Woken EXCEPT ![p] = "idle"]
  /\ UNCHANGED <<diskVars, bufVars, lh, mode, tail, blk>>

-----------------------------------------------------------------------------
\* commit

Goes(p, from, to) == pc[p] = from /\ pc' = [pc EXCEPT ![p] = to]

Commit(p) ==
  /\ \/ lh # <<>> /\ Goes(p, "commit", "write_log")
     \/ lh = <<>> /\ Goes(p, "commit", "done")
  /\ tail' = 0
  /\ UNCHANGED <<diskVars, bufVars, logVars, mode, blk, wrote>>

\* One turn of the loop: the cached block goes to the log.
write_log(p) ==
  /\ pc[p] = "write_log" /\ tail < Len(lh)
  /\ logd' = [logd EXCEPT ![tail + 1] = Cur(lh[tail + 1])]
  /\ tail' = tail + 1
  /\ UNCHANGED <<disk, hdr, bufVars, logVars, mode, procVars>>

MutHeadBeforeLog(p) ==
  /\ Goes(p, "write_log", "install")
  /\ hdr' = lh
  /\ tail' = 0
  /\ UNCHANGED <<disk, logd, bufVars, logVars, mode, blk, wrote>>

\* The header with the block numbers: from here on the transaction counts.
write_head(p) ==
  /\ Goes(p, "write_log", "install") /\ tail = Len(lh)
  /\ hdr' = lh
  /\ tail' = 0
  /\ UNCHANGED <<disk, logd, bufVars, logVars, mode, blk, wrote>>

\* One turn of the loop of install_trans: a block goes from the log to its
\* place, through its buffer, which is clean after that.
InstallBlock ==
  /\ tail < Len(lh)
  /\ disk' = [disk EXCEPT ![lh[tail + 1]] = logd[tail + 1]]
  /\ cache' = [cache EXCEPT ![lh[tail + 1]] = logd[tail + 1]]
  /\ dirty' = dirty \ {lh[tail + 1]}
  /\ tail' = tail + 1
  /\ UNCHANGED <<hdr, logd, holder, logVars, mode, procVars>>

install_trans(p) == pc[p] = "install" /\ InstallBlock

MutEraseFirst(p) ==
  /\ Goes(p, "install", "done")
  /\ lh' = <<>> /\ hdr' = <<>>
  /\ tail' = 0
  /\ dirty' = {}
  /\ UNCHANGED <<disk, logd, cache, holder, outstanding, committing, mode, blk, wrote>>

\* log.lh.n = 0 and the second write_head
Erase(p) ==
  /\ Goes(p, "install", "done") /\ tail = Len(lh)
  /\ lh' = <<>> /\ hdr' = <<>>
  /\ tail' = 0
  /\ UNCHANGED <<disk, logd, bufVars, outstanding, committing, mode, blk, wrote>>

MutEndCommitSilent(p) ==
  /\ pc[p] = "done"
  /\ committing' = FALSE
  /\ pc' = [pc EXCEPT ![p] = "idle"]
  /\ UNCHANGED <<diskVars, bufVars, lh, outstanding, mode, tail, blk, wrote>>

\* The rest of end_op
EndCommit(p) ==
  /\ pc[p] = "done"
  /\ committing' = FALSE
  /\ pc' = [Woken EXCEPT ![p] = "idle"]
  /\ UNCHANGED <<diskVars, bufVars, lh, outstanding, mode, tail, blk, wrote>>

-----------------------------------------------------------------------------
\* Crash and recovery

Crash ==
  /\ mode' = "recover"
  /\ cache' = [b \in Blocks |-> NoData] /\ dirty' = {}
  /\ holder' = [b \in Blocks |-> NoProc]
  /\ lh' = <<>> /\ outstanding' = 0 /\ committing' = FALSE
  /\ tail' = 0
  /\ pc' = [p \in Procs |-> "idle"]
  /\ blk' = [p \in Procs |-> NoBlock]
  /\ wrote' = [p \in Procs |-> {}]
  /\ UNCHANGED diskVars

\* read_head, and with an empty log the write_head that follows at once
read_head ==
  /\ mode = "recover" /\ lh = <<>>
  /\ lh' = hdr
  /\ mode' = IF hdr = <<>> THEN "up" ELSE "recover"
  /\ UNCHANGED <<diskVars, bufVars, outstanding, committing, tail, procVars>>

RecoverInstall == mode = "recover" /\ InstallBlock

recover_from_log ==
  /\ mode = "recover" /\ lh # <<>> /\ tail = Len(lh)
  /\ lh' = <<>> /\ hdr' = <<>>
  /\ tail' = 0
  /\ mode' = "up"
  /\ UNCHANGED <<disk, logd, bufVars, outstanding, committing, procVars>>

-----------------------------------------------------------------------------
Operation(p) ==
  \/ BeginSleeps(p) \/ begin_op(p) \/ LogTest(p) \/ log_write(p) \/ end_op(p)
  \/ \E b \in Blocks, v \in Values : Modify(p, b, v)

Committing(p) ==
  Commit(p) \/ write_log(p) \/ write_head(p) \/ install_trans(p) \/ Erase(p) \/ EndCommit(p)

Recovery == read_head \/ RecoverInstall \/ recover_from_log

Next ==
  \/ \E p \in Procs : Operation(p) \/ Committing(p)
  \/ \E b \in Blocks : Read(b) \/ Recycle(b)
  \/ Recovery
  \/ Crash

Spec == Init /\ [][Next]_vars

\* Every process goes on with the operation it is in, and recovery goes on.
\* end_op is strongly fair: an operation writes finitely many blocks.
Fairness ==
  /\ \A p \in Procs :
       /\ WF_vars(begin_op(p) /\ pc[p] = "begin") /\ WF_vars(BeginSleeps(p) /\ pc[p] = "begin")
       /\ WF_vars(LogTest(p)) /\ WF_vars(log_write(p)) /\ WF_vars(Committing(p))
       /\ SF_vars(end_op(p))
  /\ WF_vars(Recovery)

FairSpec == Spec /\ Fairness

-----------------------------------------------------------------------------
TypeOK ==
  /\ disk \in [Blocks -> Values]
  /\ hdr \in Seq(Blocks) /\ Len(hdr) <= LOGSIZE
  /\ logd \in [1 .. LOGSIZE -> Values]
  /\ cache \in [Blocks -> Values \cup {NoData}]
  /\ dirty \subseteq Blocks
  /\ holder \in [Blocks -> Procs \cup {NoProc}]
  /\ lh \in Seq(Blocks) /\ Len(lh) <= LOGSIZE
  /\ outstanding \in Nat /\ committing \in BOOLEAN
  /\ mode \in {"recover", "up"} /\ tail \in 0 .. LOGSIZE
  /\ pc \in [Procs -> Places]
  /\ blk \in [Procs -> Blocks \cup {NoBlock}]
  /\ wrote \in [Procs -> SUBSET Blocks]

InOp(p) == pc[p] \in {"op", "modified", "log_write"}

\* The disk d with the log blocks l in the places that header h gives them.
Overlay(h, l, d) ==
  [b \in Blocks |-> IF InLog(h, b) THEN l[CHOOSE i \in 1 .. Len(h) : h[i] = b] ELSE d[b]]

\* What recovery would make of the disk as it is now, and what bread returns,
\* once recovery is through.
Recovered == Overlay(hdr, logd, disk)
Seen == IF mode = "up" THEN [b \in Blocks |-> Cur(b)] ELSE Recovered
Active == {p \in Procs : InOp(p)}

Atomic == INSTANCE AtomicDisk WITH cur <- Seen, durable <- Recovered, active <- Active

\* The operations between begin_op and end_op are atomic with respect to
\* crashes, whatever is cached, recycled, half committed or half recovered.
AtomicSpec == Atomic!Spec

\* The space begin_op has reserved suffices: log_write never panics, and
\* end_op never finds a commit under way.
NoPanic ==
  /\ \A p \in Procs : pc[p] = "modified" => ~TooBig /\ outstanding >= 1
  /\ \A p \in Procs : InOp(p) => ~committing

\* Nobody sleeps in begin_op without a reason: a commit is under way or an
\* operation is, at whose end the sleepers are woken.
NoLostWakeup ==
  \A p \in Procs : pc[p] = "asleep" => committing \/ (NoRoom /\ outstanding > 0)

\* Once the last operation has returned, all that was written is in its place
\* on disk, the log is empty and no buffer is pinned.
QuietIsDurable ==
  mode = "up" /\ outstanding = 0 /\ ~committing =>
    /\ hdr = <<>> /\ lh = <<>> /\ dirty = {}
    /\ \A b \in Blocks : Cur(b) = disk[b]

\* While someone waits in begin_op operations go on beginning, unless the
\* machine crashes: the waits of begin_op and commit are never circular.
SomeoneBegins ==
  (\E p \in Procs : pc[p] \in {"asleep", "begin"})
     ~> (mode = "recover" \/ \E p \in Procs : pc[p] = "op" /\ wrote[p] = {})

-----------------------------------------------------------------------------
(***************************************************************************)
(* The inductive invariant behind the proofs in LogProofs.                 *)
(***************************************************************************)
InCommit(p) == pc[p] \in {"commit", "write_log", "install", "done"}
Holding(p) == pc[p] \in {"modified", "log_write"}
Injective(s) == \A i, j \in 1 .. Len(s) : s[i] = s[j] => i = j
Installing == \E p \in Procs : pc[p] = "install"

\* One committer, and only between operations; outstanding counts them.
CommitInv ==
  /\ IsFiniteSet(Active) /\ outstanding = Cardinality(Active)
  /\ committing <=> \E p \in Procs : InCommit(p)
  /\ committing => Active = {}
  /\ \A p, q \in Procs : InCommit(p) /\ InCommit(q) => p = q
  /\ mode = "recover" => \A p \in Procs : pc[p] = "idle"

\* A buffer's lock is held exactly from Modify to log_write.
HolderInv ==
  /\ \A p \in Procs : Holding(p) => blk[p] \in Blocks /\ holder[blk[p]] = p
  /\ \A b \in Blocks : holder[b] # NoProc => Cached(b) /\ Holding(holder[b]) /\ blk[holder[b]] = b

\* The log's blocks are distinct; on disk the header is empty but between the
\* two write_heads and until recovery is through.
HeaderInv ==
  /\ Injective(lh) /\ Injective(hdr)
  /\ tail <= Len(lh)
  /\ mode = "up" => hdr = IF Installing THEN lh ELSE <<>>
  /\ mode = "recover" => lh \in {<<>>, hdr}
  /\ mode = "up" /\ Active = {} /\ ~committing => lh = <<>>
  /\ \A p \in Procs : pc[p] = "done" => lh = <<>>

\* The dirty buffers are the log's, up to those installed already; a buffer
\* neither dirty nor locked is as on disk.
BufferInv ==
  /\ mode = "recover" => dirty = {}
  /\ mode = "up" => \A b \in Blocks : b \in dirty <=>
       \E i \in 1 .. Len(lh) : lh[i] = b /\ (Installing => i > tail)
  /\ \A b \in dirty : Cached(b)
  /\ \A b \in Blocks : Cached(b) /\ b \notin dirty /\ holder[b] = NoProc => cache[b] = disk[b]

\* How far write_log, install_trans and recovery have come.
ProgressInv ==
  /\ \A p \in Procs : pc[p] = "write_log" =>
       \A i \in 1 .. tail : logd[i] = Cur(lh[i])
  /\ Installing => \A i \in 1 .. Len(lh) : logd[i] = Cur(lh[i])
  /\ mode = "recover" \/ Installing => \A i \in 1 .. tail : disk[lh[i]] = logd[i]

\* The space reserved: what is in the log, what is about to be added to it, and
\* what operations may still write.
Unused == {x \in Active \X (1 .. MAXOPBLOCKS) : x[2] > Cardinality(wrote[x[1]])}
Pending == {p \in Procs : Holding(p) /\ ~InLog(lh, blk[p])}

SpaceInv ==
  /\ \A p \in Procs : IsFiniteSet(wrote[p]) /\ Cardinality(wrote[p]) <= OpBlocks
  /\ \A p \in Procs : ~InOp(p) => wrote[p] = {}
  /\ \A p \in Procs : Holding(p) => blk[p] \in wrote[p]
  /\ \A p \in Procs : \A b \in wrote[p] : InLog(lh, b) \/ (Holding(p) /\ blk[p] = b)
  /\ Len(lh) + Cardinality(Unused) + Cardinality(Pending) <= LOGSIZE

IInv ==
  /\ TypeOK /\ CommitInv /\ HolderInv /\ HeaderInv /\ BufferInv /\ ProgressInv /\ SpaceInv
=============================================================================
