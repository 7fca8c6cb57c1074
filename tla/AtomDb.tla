------------------------------- MODULE AtomDb -------------------------------
(***************************************************************************)
(* The store file and the handles on it: opening as writer or observer,    *)
(* the recovery scan, appends and cell commits with their rollback,        *)
(* refresh, and the failures around them.                                  *)
(*                                                                         *)
(* The file is the log as every process sees it (the page cache): a        *)
(* sequence of chunks, each a frame of which all or only the first bytes   *)
(* are there.  Offsets count chunks.  synced of them are on the medium; a  *)
(* power loss keeps these and any further prefix.  A process that dies     *)
(* leaves the file as it is.                                               *)
(***************************************************************************)
EXTENDS Facts, TLC

CONSTANTS
    Proc,       \* processes, each with at most one handle
    Bytes,      \* atoms given to put_atom
    Bonds,      \* bonds given to put_bond
    Cells,      \* cells given to commit_cell
    MaxFrames,  \* no operation starts that would make the log longer
    Failures    \* the kinds of failures that happen, each as often as it may

FaultKinds == {"magic", "write", "sync", "rollback", "repair", "crash", "power"}

ASSUME BoundAssumption == MaxFrames \in Nat
ASSUME FaultAssumption == Failures \subseteq FaultKinds
(* An atom of a cell is filed under the digest of its bytes, and digests   *)
(* are ordered as numbers are.                                             *)
ASSUME CellAssumption ==
    \A cell \in Cells : /\ IsFiniteSet(cell.atoms)
                        /\ IsFiniteSet(cell.bonds)
                        /\ IsFiniteSet(DOMAIN cell.roots)
                        /\ \A id \in cell.atoms : id = atom_identity(id[2])

Digests(cell) ==
    cell.atoms \cup {bond_identity(bond) : bond \in cell.bonds} \cup DOMAIN cell.roots
ASSUME RankAssumption ==
    \A one, other \in Cells : \A x \in Digests(one), y \in Digests(other) :
        Rank[x] \in Int /\ (Rank[x] = Rank[y] => x = y)

Nobody == "nobody"
ASSUME ProcAssumption == Nobody \notin Proc

VARIABLES
    \* the store file and its lock
    magic,      \* FILE_MAGIC: "none", "torn", "cached" (not synced) or "durable"
    disk,       \* the chunks after it
    synced,     \* how many chunks a power loss cannot take
    lease,      \* the holder of the writer lock
    \* the handle of each process
    pc, mode, db, next_sequence, provisional, cursor, job, reply,
    \* history
    acked       \* the log when the last write was acknowledged

file == <<magic, disk, synced, lease>>
handles == <<pc, mode, db, next_sequence, provisional, cursor, job, reply>>
vars == <<file, handles, acked>>

Chunk(frame, whole, need) == [frame |-> frame, whole |-> whole, need |-> need]

(* A scan: where it is, the file length it sampled (limit whole chunks,    *)
(* cut: and a piece of one), the shortest the file has been since (low),   *)
(* the frames it has read, and the index and open cell it has built.       *)
NoScan == [offset |-> 0, limit |-> 0, cut |-> FALSE, low |-> 0, read |-> <<>>,
           refresh |-> FALSE, db |-> EmptyIndex, cell |-> NoCell]

(* A write: its frames, how many are written, the file length before it. *)
NoJob == [frames |-> <<>>, written |-> 0, start |-> 0]

Init ==
    /\ magic = "none" /\ disk = <<>> /\ synced = 0 /\ lease = Nobody
    /\ pc = [p \in Proc |-> "closed"]
    /\ mode = [p \in Proc |-> "none"]
    /\ db = [p \in Proc |-> EmptyIndex]
    /\ next_sequence = [p \in Proc |-> 0]
    /\ provisional = [p \in Proc |-> 0]
    /\ cursor = [p \in Proc |-> NoScan]
    /\ job = [p \in Proc |-> NoJob]
    /\ reply = [p \in Proc |-> "none"]
    /\ acked = <<>>

-----------------------------------------------------------------------------
(* Answers *)

Answer(p, value) == reply' = [reply EXCEPT ![p] = value]

Reset(f, S, value) == [p \in Proc |-> IF p \in S THEN value ELSE f[p]]

(* The lock goes with the handle that holds it.  Mutant: with any handle. *)
UnlockedByAny(S) == Nobody
Unlocked(S) == IF lease \in S THEN Nobody ELSE lease

(* Handles are dropped or their processes die. *)
Release(S, value) ==
    /\ pc' = Reset(pc, S, "closed")
    /\ mode' = Reset(mode, S, "none")
    /\ db' = Reset(db, S, EmptyIndex)
    /\ next_sequence' = Reset(next_sequence, S, 0)
    /\ provisional' = Reset(provisional, S, 0)
    /\ cursor' = Reset(cursor, S, NoScan)
    /\ job' = Reset(job, S, NoJob)
    /\ reply' = Reset(reply, S, value)
    /\ lease' = Unlocked(S)

(* What an open or refresh that fails leaves: no handle, or the old one. *)
Fail(p, value) ==
    IF cursor[p].refresh
    THEN /\ pc' = [pc EXCEPT ![p] = "ready"]
         /\ cursor' = [cursor EXCEPT ![p] = NoScan]
         /\ Answer(p, value)
         /\ UNCHANGED <<lease, mode, db, next_sequence, provisional, job>>
    ELSE Release({p}, value)

-----------------------------------------------------------------------------
(* Opening *)

IsCut == Len(disk) > 0 /\ ~disk[Len(disk)].whole

StartScan(p, refresh) ==
    /\ pc' = [pc EXCEPT ![p] = "scan"]
    /\ cursor' = [cursor EXCEPT ![p] =
                    [NoScan EXCEPT !.limit = IF IsCut THEN Len(disk) - 1 ELSE Len(disk),
                                   !.cut = IsCut, !.low = Len(disk), !.refresh = refresh]]

(* Another writer holds the lock: Error::Busy. *)
OpenBusy(p) ==
    /\ pc[p] = "closed" /\ lease # Nobody
    /\ UNCHANGED vars

(* An existing file: take the lock, check the magic, scan. *)
OpenWriter(p) ==
    /\ pc[p] = "closed" /\ lease = Nobody /\ magic \in {"cached", "durable"}
    /\ lease' = p
    /\ mode' = [mode EXCEPT ![p] = "writer"]
    /\ StartScan(p, FALSE)
    /\ Answer(p, "none")
    /\ UNCHANGED <<magic, disk, synced, db, next_sequence, provisional, job, acked>>

(* A new file: write the magic; SyncMagic follows. *)
CreateStore(p) ==
    /\ pc[p] = "closed" /\ lease = Nobody /\ magic = "none"
    /\ lease' = p
    /\ magic' = "cached"
    /\ mode' = [mode EXCEPT ![p] = "writer"]
    /\ pc' = [pc EXCEPT ![p] = "magic"]
    /\ Answer(p, "none")
    /\ UNCHANGED <<disk, synced, db, next_sequence, provisional, cursor, job, acked>>

CreateStoreFault(p) ==
    /\ pc[p] = "closed" /\ lease = Nobody /\ magic = "none"
    /\ "magic" \in Failures
    /\ magic' \in {"none", "torn"}
    /\ Answer(p, "io")
    /\ UNCHANGED <<disk, synced, lease, pc, mode, db, next_sequence, provisional, cursor, job, acked>>

SyncMagic(p) ==
    /\ pc[p] = "magic"
    /\ magic' = "durable"
    /\ StartScan(p, FALSE)
    /\ UNCHANGED <<disk, synced, lease, mode, db, next_sequence, provisional, job, reply, acked>>

SyncMagicFault(p) ==
    /\ pc[p] = "magic"
    /\ "magic" \in Failures
    /\ Release({p}, "io")
    /\ UNCHANGED <<magic, disk, synced, acked>>

OpenReadOnly(p) ==
    /\ pc[p] = "closed" /\ magic \in {"cached", "durable"}
    /\ mode' = [mode EXCEPT ![p] = "reader"]
    /\ StartScan(p, FALSE)
    /\ Answer(p, "none")
    /\ UNCHANGED <<file, db, next_sequence, provisional, job, acked>>

(* Error::Invalid for an observer of an empty file, Error::Corrupt for any *)
(* process that finds a magic which is not whole.                          *)
OpenRejected(p) ==
    /\ pc[p] = "closed"
    /\ magic \in {"none", "torn"}
    /\ UNCHANGED vars

-----------------------------------------------------------------------------
(* The recovery scan, a frame per step: other processes write meanwhile. *)

Sampled(c) == c.limit + (IF c.cut THEN 1 ELSE 0)

(* The file was cut below the sampled length, and the scan has come to     *)
(* where it was cut: what lies before the sampled length now is not what   *)
(* was sampled, and the loop may end anywhere.                             *)
Moved(c) == c.low < Sampled(c) /\ c.low <= c.offset

(* Frames the scan has read were replaced by others, and the next one need *)
(* not start at the scan's position: only atoms vary in length.            *)
Misaligned(c) ==
    \E i \in 1..c.offset :
        LET was == c.read[i]
            is == disk[i].frame
        IN  was.kind # is.kind \/ (was.kind = "atom" /\ was.payload # is.payload)

(* The chunk at the scan's position fits the sampled length. *)
Within(c) == c.offset < c.limit \/ Moved(c)

Readable(c) == c.offset < Len(disk) /\ disk[c.offset + 1].whole

Acceptable(c) ==
    LET frame == disk[c.offset + 1].frame
    IN  frame.sequence = c.offset /\ FrameBalances(c.db, c.cell, frame)

ScanFrame(p) ==
    LET c == cursor[p] IN
    /\ pc[p] = "scan" /\ Within(c) /\ Readable(c) /\ Acceptable(c)
    /\ LET frame == disk[c.offset + 1].frame
           number == c.offset + 1
       IN  cursor' = [cursor EXCEPT ![p].offset = @ + 1, ![p].read = Append(@, frame),
                                    ![p].db = IndexAfter(@, c.cell, frame, number),
                                    ![p].cell = CellAfter(@, frame, number)]
    /\ UNCHANGED <<file, pc, mode, db, next_sequence, provisional, job, reply, acked>>

(* A piece of a frame with others after it declares more bytes than it     *)
(* has: it swallows need chunks before its checksum fails.                 *)
Swallows(c) ==
    /\ c.offset < c.limit /\ ~disk[c.offset + 1].whole
    /\ Sampled(c) - c.offset - 1 >= disk[c.offset + 1].need

ScanCorrupt(p) ==
    LET c == cursor[p] IN
    /\ pc[p] = "scan"
    /\ \/ Within(c) /\ Readable(c) /\ ~Acceptable(c)
       \/ ~Moved(c) /\ Swallows(c)
       \/ Moved(c) /\ c.offset < Len(disk) /\ Misaligned(c)
    /\ Fail(p, "corrupt")
    /\ UNCHANGED <<magic, disk, synced, acked>>

(* read_exact meets the end of a file that was cut under the scan. *)
ScanEof(p) ==
    LET c == cursor[p] IN
    /\ pc[p] = "scan" /\ Moved(c) /\ ~Readable(c)
    /\ Fail(p, "io")
    /\ UNCHANGED <<magic, disk, synced, acked>>

(* What refresh reports.  Mutant: only the provisional tail is compared. *)
ChangedTail(p, sequence, tail) == tail # provisional[p]
Changed(p, sequence, tail) == sequence # next_sequence[p] \/ tail # provisional[p]

(* A view is complete: open returns the handle, refresh replaces it. *)
Finish(p, sequence, tail) ==
    /\ pc' = [pc EXCEPT ![p] = "ready"]
    /\ db' = [db EXCEPT ![p] = cursor[p].db]
    /\ next_sequence' = [next_sequence EXCEPT ![p] = sequence]
    /\ provisional' = [provisional EXCEPT ![p] = tail]
    /\ cursor' = [cursor EXCEPT ![p] = NoScan]
    /\ Answer(p, IF ~cursor[p].refresh THEN "ok"
                 ELSE IF Changed(p, sequence, tail) THEN "changed" ELSE "unchanged")

ScanClean(p) ==
    LET c == cursor[p] IN
    /\ pc[p] = "scan" /\ ~c.cell.open
    /\ (c.offset = c.limit /\ ~c.cut) \/ Moved(c)
    /\ Finish(p, c.offset, 0)
    /\ UNCHANGED <<file, mode, job, acked>>

(* The log stops inside a frame or a cell.  Mutant: a piece of a frame at  *)
(* its end goes unnoticed.                                                 *)
IncompleteCells(c) ==
    \/ c.offset = c.limit /\ c.cell.open
    \/ c.offset < c.limit /\ ~Moved(c) /\ ~disk[c.offset + 1].whole /\ ~Swallows(c)
    \/ Moved(c)
Incomplete(c) ==
    \/ c.offset = c.limit /\ (c.cut \/ c.cell.open)
    \/ c.offset < c.limit /\ ~Moved(c) /\ ~disk[c.offset + 1].whole /\ ~Swallows(c)
    \/ Moved(c)

(* The committed prefix.  Mutants: an open cell belongs to it; it ends one  *)
(* frame before the cell.                                                  *)
ValidWithCell(c) == c.offset
ValidBeforeCell(c) == IF c.cell.open THEN c.cell.start - 1 ELSE c.offset
Valid(c) == IF c.cell.open THEN c.cell.start ELSE c.offset

ScanProvisional(p) ==
    LET c == cursor[p] IN
    /\ pc[p] = "scan" /\ mode[p] = "reader" /\ Incomplete(c)
    /\ Finish(p, Valid(c), IF Sampled(c) > Valid(c) THEN Sampled(c) - Valid(c) ELSE 1)
    /\ UNCHANGED <<file, mode, job, acked>>

(* set_len and sync_data: the file is cut to its first n chunks.  Mutant:  *)
(* only synced.                                                            *)
TruncateNothing(n) == UNCHANGED disk /\ synced' = Len(disk)
Truncate(n) ==
    /\ disk' = SubSeq(disk, 1, n)
    /\ synced' = n

(* The scans under which the file is cut; one that has read all it sampled *)
(* does not notice.                                                        *)
CutUnder(n) ==
    [q \in Proc |->
        LET c == cursor[q] IN
        IF pc[q] = "scan" /\ c.offset < Sampled(c)
        THEN [c EXCEPT !.low = IF n < @ THEN n ELSE @]
        ELSE c]

Repair(p) ==
    LET valid == Valid(cursor[p]) IN
    /\ pc[p] = "scan" /\ mode[p] = "writer" /\ Incomplete(cursor[p])
    /\ Truncate(valid)
    /\ magic' = "durable"
    /\ pc' = [pc EXCEPT ![p] = "ready"]
    /\ db' = [db EXCEPT ![p] = cursor[p].db]
    /\ next_sequence' = [next_sequence EXCEPT ![p] = valid]
    /\ cursor' = [CutUnder(valid) EXCEPT ![p] = NoScan]
    /\ Answer(p, "ok")
    /\ UNCHANGED <<lease, mode, provisional, job, acked>>

RepairFault(p) ==
    /\ pc[p] = "scan" /\ mode[p] = "writer" /\ Incomplete(cursor[p])
    /\ "repair" \in Failures
    /\ Release({p}, "io")
    /\ UNCHANGED <<magic, disk, synced, acked>>

Refresh(p) ==
    /\ pc[p] = "ready" /\ mode[p] = "reader"
    /\ StartScan(p, TRUE)
    /\ Answer(p, "none")
    /\ UNCHANGED <<file, mode, db, next_sequence, provisional, job, acked>>

-----------------------------------------------------------------------------
(* Writing.  An operation checks its input against the index and returns   *)
(* at once if it must be refused or there is nothing to write; else it     *)
(* writes its frames, then syncs, and only then changes the index.         *)

(* Mutations by an observer, refresh by a writer. *)
Refuse(p) ==
    /\ pc[p] = "ready"
    /\ UNCHANGED vars

ReadyWriter(p) == pc[p] = "ready" /\ mode[p] = "writer"

StartWrite(p, frames) ==
    /\ Len(disk) + Len(frames) <= MaxFrames
    /\ job' = [job EXCEPT ![p] = [frames |-> frames, written |-> 0, start |-> Len(disk)]]
    /\ pc' = [pc EXCEPT ![p] = "write"]
    /\ Answer(p, "none")
    /\ UNCHANGED <<file, mode, db, next_sequence, provisional, cursor, acked>>

PutAtom(p, bytes) ==
    /\ ReadyWriter(p)
    /\ IF contains_atom(db[p], atom_identity(bytes)) THEN UNCHANGED vars
       ELSE StartWrite(p, <<Frame(next_sequence[p], "atom", <<bytes>>)>>)

PutBond(p, bond) ==
    /\ ReadyWriter(p)
    /\ IF ~validate_bond_members(db[p], bond, {}) THEN UNCHANGED vars
       ELSE IF bond \in db[p].bonds THEN UNCHANGED vars
       ELSE StartWrite(p, <<Frame(next_sequence[p], "bond", bond)>>)

CommitCell(p, cell) ==
    /\ ReadyWriter(p)
    /\ LET prepared == prepare_cell(db[p], cell) IN
       IF ~CellAdmissible(db[p], cell) THEN UNCHANGED vars
       ELSE IF IsEmptyCell(prepared) THEN UNCHANGED vars
       ELSE StartWrite(p, CellFrames(prepared, next_sequence[p]))

(* write_frame makes two writes, the header and the payload. *)
WriteHeader(p) ==
    /\ pc[p] = "write"
    /\ disk' = Append(disk, Chunk(job[p].frames[job[p].written + 1], FALSE, 1))
    /\ pc' = [pc EXCEPT ![p] = "payload"]
    /\ UNCHANGED <<magic, synced, lease, mode, db, next_sequence, provisional, cursor, job,
                   reply, acked>>

WritePayload(p) ==
    LET written == job[p].written + 1 IN
    /\ pc[p] = "payload"
    /\ disk' = [disk EXCEPT ![Len(disk)].whole = TRUE]
    /\ job' = [job EXCEPT ![p].written = written]
    /\ pc' = [pc EXCEPT ![p] = IF written = Len(job[p].frames) THEN "sync" ELSE "write"]
    /\ UNCHANGED <<magic, synced, lease, mode, db, next_sequence, provisional, cursor, reply,
                   acked>>

(* A write fails: nothing of the frame is in the file, or a piece of it.   *)
WriteFault(p) ==
    /\ pc[p] \in {"write", "payload"}
    /\ "write" \in Failures
    /\ pc' = [pc EXCEPT ![p] = "rollback"]
    /\ UNCHANGED <<file, mode, db, next_sequence, provisional, cursor, job, reply, acked>>

(* sync_data.  Mutant: forgotten. *)
SyncNothing == UNCHANGED <<synced, magic>>
SyncData == synced' = Len(disk) /\ magic' = "durable"

(* The index after a write: put_atom, put_bond and commit_cell. *)
Committed(view, j) ==
    LET first == j.frames[1] IN
    CASE first.kind = "atom" ->
            InsertAtom(view, atom_identity(first.payload[1]), j.start + 1)
      [] first.kind = "bond" -> InsertBond(view, first.payload)
      [] first.kind = "begin" -> ApplyCommitted(view, j.frames, j.start)

Sync(p) ==
    /\ pc[p] = "sync"
    /\ SyncData
    /\ db' = [db EXCEPT ![p] = Committed(@, job[p])]
    /\ next_sequence' = [next_sequence EXCEPT ![p] = @ + Len(job[p].frames)]
    /\ pc' = [pc EXCEPT ![p] = "ready"]
    /\ job' = [job EXCEPT ![p] = NoJob]
    /\ acked' = disk
    /\ Answer(p, "ok")
    /\ UNCHANGED <<disk, lease, mode, provisional, cursor>>

SyncFault(p) ==
    /\ pc[p] = "sync"
    /\ "sync" \in Failures
    /\ pc' = [pc EXCEPT ![p] = "rollback"]
    /\ UNCHANGED <<file, mode, db, next_sequence, provisional, cursor, job, reply, acked>>

Rollback(p) ==
    /\ pc[p] = "rollback"
    /\ Truncate(job[p].start)
    /\ magic' = "durable"
    /\ cursor' = CutUnder(job[p].start)
    /\ pc' = [pc EXCEPT ![p] = "ready"]
    /\ job' = [job EXCEPT ![p] = NoJob]
    /\ Answer(p, "io")
    /\ UNCHANGED <<lease, mode, db, next_sequence, provisional, acked>>

(* set_len fails and what was written stays, or the sync after it fails.   *)
(* The handle stays usable.                                                *)
RollbackFault(p) ==
    /\ pc[p] = "rollback"
    /\ "rollback" \in Failures
    /\ \/ UNCHANGED <<disk, synced, cursor>>
       \/ /\ IsCut
          /\ disk' = [disk EXCEPT ![Len(disk)].need = 2]
          /\ UNCHANGED <<synced, cursor>>
       \/ /\ disk' = SubSeq(disk, 1, job[p].start)
          /\ synced' = IF synced < job[p].start THEN synced ELSE job[p].start
          /\ cursor' = CutUnder(job[p].start)
    /\ pc' = [pc EXCEPT ![p] = "ready"]
    /\ job' = [job EXCEPT ![p] = NoJob]
    /\ Answer(p, "io")
    /\ UNCHANGED <<magic, lease, mode, db, next_sequence, provisional, acked>>

(* The explicit sync of the API. *)
Flush(p) ==
    /\ ReadyWriter(p)
    /\ SyncData
    /\ Answer(p, "ok")
    /\ UNCHANGED <<disk, lease, pc, mode, db, next_sequence, provisional, cursor, job,
                   acked>>

-----------------------------------------------------------------------------
(* The end of handles *)

Close(p) ==
    /\ pc[p] = "ready"
    /\ Release({p}, "none")
    /\ UNCHANGED <<magic, disk, synced, acked>>

Crash(p) ==
    /\ pc[p] \notin {"closed", "ready"}
    /\ "crash" \in Failures
    /\ Release({p}, "none")
    /\ UNCHANGED <<magic, disk, synced, acked>>

(* Everything stops.  Of what was not synced a prefix is left, which may   *)
(* end in a piece of a frame; a magic never synced may be lost or spoilt.  *)
PowerLoss ==
    /\ "power" \in Failures
    /\ \/ /\ magic = "cached"
          /\ magic' \in {"none", "torn"}
          /\ disk' = <<>> /\ synced' = 0
       \/ /\ magic' = IF magic = "cached" THEN "durable" ELSE magic
          /\ \E k \in synced..Len(disk) :
                \/ disk' = SubSeq(disk, 1, k) /\ synced' = k
                \/ /\ k < Len(disk)
                   /\ disk' = Append(SubSeq(disk, 1, k), Chunk(disk[k + 1].frame, FALSE, 1))
                   /\ synced' = k + 1
    /\ Release(Proc, "none")
    /\ UNCHANGED acked

-----------------------------------------------------------------------------
Scan(p) ==
    \/ ScanFrame(p) \/ ScanCorrupt(p) \/ ScanEof(p) \/ ScanClean(p) \/ ScanProvisional(p)
    \/ Repair(p) \/ RepairFault(p)

Write(p) ==
    \/ WriteHeader(p) \/ WritePayload(p) \/ WriteFault(p)
    \/ Sync(p) \/ SyncFault(p) \/ Rollback(p) \/ RollbackFault(p)

Call(p) ==
    \/ OpenBusy(p) \/ OpenWriter(p) \/ CreateStore(p) \/ CreateStoreFault(p)
    \/ OpenReadOnly(p) \/ OpenRejected(p) \/ Refresh(p) \/ Refuse(p) \/ Flush(p) \/ Close(p)
    \/ \E bytes \in Bytes : PutAtom(p, bytes)
    \/ \E bond \in Bonds : PutBond(p, bond)
    \/ \E cell \in Cells : CommitCell(p, cell)

Next ==
    \/ \E p \in Proc : \/ Call(p) \/ SyncMagic(p) \/ SyncMagicFault(p)
                      \/ Scan(p) \/ Write(p) \/ Crash(p)
    \/ PowerLoss

Spec == Init /\ [][Next]_vars

(* A call that was made goes on to its end; nobody has to make a call. *)
FairSpec == Spec /\ \A p \in Proc : WF_vars(SyncMagic(p) \/ Scan(p) \/ Write(p))
=============================================================================
