-------------------------- MODULE AtomDbInvariant --------------------------
(***************************************************************************)
(* The inductive invariants of the store.  StoreInv, of the file and its   *)
(* writer, is behind SequencesContiguous and AcknowledgedSurvives; it      *)
(* holds while set_len works: RollbackFault is the one step that breaks    *)
(* it.  ContentInv, of what the handles have in their indexes, is behind   *)
(* IndexClosed, RootChains and SnapshotIsCurrent; nothing breaks it.       *)
(* ViewsInv, of the commits each handle knows, is behind ImplementsLog; it *)
(* holds while neither set_len nor a sync fails.  ReplayInv, of what       *)
(* recovery would find, is behind ScansBalance; it holds while set_len     *)
(* works.                                                                  *)
(***************************************************************************)
EXTENDS AtomDbLaws, DataLemmas

WholeTo(d, n) == \A i \in 1..n : d[i].whole

(* Every cell that begins in the first n chunks of d commits there. *)
ClosedTo(d, n) ==
    \A i \in 1..n : d[i].frame.kind = "begin" => \E j \in i..n : d[j].frame.kind = "commit"

(* The handles and the lock: the writer is the process that holds the      *)
(* lock, and only the writer is in a state that writes.                    *)
HandlesInv ==
    /\ DOMAIN pc = Proc /\ DOMAIN mode = Proc /\ DOMAIN next_sequence = Proc
    /\ DOMAIN cursor = Proc /\ DOMAIN job = Proc
    /\ lease \in Proc \cup {Nobody}
    /\ \A p \in Proc :
          /\ DOMAIN cursor[p] = DOMAIN NoScan
          /\ mode[p] = "writer" <=> lease = p
          /\ pc[p] = "closed" => mode[p] # "writer" /\ ~cursor[p].refresh
          /\ pc[p] \in {"magic", "write", "payload", "sync", "rollback"} => mode[p] = "writer"
          /\ mode[p] = "writer" => /\ ~cursor[p].refresh
                                   /\ pc[p] \in {"magic", "write", "payload", "sync", "rollback",
                                                 "scan", "ready"}

(* A log of frames numbered from 0, of which only the last can be torn. *)
LogInv(d) ==
    /\ IsSeq(d)
    /\ \A i \in 1..Len(d) :
          /\ DOMAIN d[i] = {"frame", "whole", "need"}
          /\ d[i].whole \in BOOLEAN
          /\ d[i].frame.sequence = i - 1
          /\ i < Len(d) => d[i].whole

DiskInv == LogInv(disk)

AckedInv ==
    /\ IsSeq(acked)
    /\ synced \in Nat /\ Len(acked) <= synced /\ synced <= Len(disk)
    /\ magic \in {"none", "cached"} => acked = <<>>
    /\ \A i \in 1..Len(acked) : acked[i] = disk[i]
    /\ WholeTo(disk, Len(acked)) /\ ClosedTo(disk, Len(acked))

(* The writer's scan: nothing moves under it, and the open cell of the     *)
(* scan begins where the committed part of the log ends.                   *)
IsCell(cell) ==
    /\ DOMAIN cell = {"open", "start", "meta", "atoms", "bonds", "roots"}
    /\ cell.open \in BOOLEAN /\ cell.start \in Nat

ScanInv(c) ==
    /\ c.offset \in Nat /\ c.limit \in Nat /\ c.cut \in BOOLEAN
    /\ c.offset <= c.limit
    /\ Len(disk) = c.limit + (IF c.cut THEN 1 ELSE 0) /\ c.low = Len(disk)
    /\ c.cut => ~disk[Len(disk)].whole
    /\ WholeTo(disk, c.limit)
    /\ IsCell(c.cell)
    /\ c.cell.open =>
          /\ c.cell.start < c.offset
          /\ disk[c.cell.start + 1].frame.kind = "begin"
          /\ \A i \in (c.cell.start + 1)..c.offset : disk[i].frame.kind # "commit"
    /\ ClosedTo(disk, Valid(c))

(* Frames to be written: numbered on from the log, a cell with its end. *)
FramesInv(frames, sequence) ==
    /\ IsSeq(frames) /\ Len(frames) > 0
    /\ \A i \in 1..Len(frames) :
          /\ frames[i].sequence = sequence + i - 1
          /\ frames[i].kind = "begin" => frames[Len(frames)].kind = "commit"

JobInv(j, sequence) ==
    /\ DOMAIN j = {"frames", "written", "start"}
    /\ j.start \in Nat /\ j.written \in Nat
    /\ j.start = sequence /\ Len(acked) <= j.start /\ j.start <= Len(disk)
    /\ WholeTo(disk, j.start) /\ ClosedTo(disk, j.start)
    /\ FramesInv(j.frames, sequence)
    /\ Len(disk) <= j.start + Len(j.frames)
    /\ \A i \in (j.start + 1)..Len(disk) : disk[i].frame = j.frames[i - j.start]

WriterAt(p) ==
    /\ pc[p] = "ready" => /\ next_sequence[p] = Len(disk)
                          /\ WholeTo(disk, Len(disk)) /\ ClosedTo(disk, Len(disk))
    /\ pc[p] = "scan" => ScanInv(cursor[p])
    /\ pc[p] \in {"write", "payload", "sync", "rollback"} => JobInv(job[p], next_sequence[p])
    /\ pc[p] = "write" => /\ Len(disk) = job[p].start + job[p].written
                          /\ job[p].written < Len(job[p].frames)
                          /\ WholeTo(disk, Len(disk))
    /\ pc[p] = "payload" => /\ Len(disk) = job[p].start + job[p].written + 1
                            /\ job[p].written < Len(job[p].frames)
    /\ pc[p] = "sync" => /\ Len(disk) = job[p].start + Len(job[p].frames)
                         /\ WholeTo(disk, Len(disk))

WriterInv == \A p \in Proc : lease = p => WriterAt(p)

StoreInv == DiskInv /\ AckedInv /\ WriterInv

FileInv == HandlesInv /\ StoreInv

-----------------------------------------------------------------------------
(* What the indexes of handles and scans hold.  No failure breaks this,    *)
(* nor a truncation under a scan: a scan takes nothing that does not       *)
(* balance against its own index.  Of the log it needs that the frames in  *)
(* it come from prepared cells.                                            *)

AllDigests == UNION {Digests(cell) : cell \in Cells}

RootSound(change) == change[1] \in AllDigests /\ change[3] # change[4]

FrameSound(frame) ==
    /\ frame.kind \in {"atom", "bond", "begin", "root", "commit"}
    /\ frame.kind = "atom" => frame.payload = <<frame.payload[1]>>
    /\ frame.kind = "root" => RootSound(frame.payload)

(* A version before sequence n follows the ones before it. *)
VersionsInv(versions, n) ==
    /\ IsSeq(versions) /\ Len(versions) > 0
    /\ Chained(versions)
    /\ \A k \in 1..Len(versions) :
          /\ versions[k].identity # None
          /\ versions[k].identity[2][2] = versions[k].previous_version
          /\ versions[k].commit_sequence \in Nat /\ versions[k].commit_sequence < n

IsMap(map) == map = [key \in DOMAIN map |-> map[key]]

(* An index of the log before sequence n. *)
IndexInv(view, n) ==
    /\ DOMAIN view = {"atoms", "bonds", "outgoing", "roots", "root_history",
                      "committed_cells", "root_updates"}
    /\ IsMap(view.roots)
    /\ ClosedUnderReference(view)
    /\ \A source \in DOMAIN view.outgoing : /\ IsSeq(view.outgoing[source])
                                            /\ IsFiniteSet(ToSet(view.outgoing[source]))
    /\ \A name \in DOMAIN view.roots : /\ name \in DOMAIN view.root_history
                                       /\ view.roots[name] # None
    /\ \A name \in DOMAIN view.root_history : VersionsInv(view.root_history[name], n)

(* The open cell of a scan with that index. *)
CellInv(cell, view) ==
    /\ IsSeq(cell.bonds) /\ IsSeq(cell.roots)
    /\ \A i \in 1..Len(cell.bonds) : cell.bonds[i] \notin view.bonds
    /\ \A i, j \in 1..Len(cell.bonds) : i < j => cell.bonds[i] # cell.bonds[j]
    /\ \A i \in 1..Len(cell.roots) : RootSound(cell.roots[i].change)

CursorInv(c) ==
    /\ c.offset \in Nat
    /\ IsCell(c.cell)
    /\ c.cell.open => c.cell.start < c.offset /\ CellInv(c.cell, c.db)
    /\ IndexInv(c.db, Valid(c))

(* The frames that a writer with this index writes. *)
Prepared(frames, view, sequence) ==
    \/ \E bytes \in Bytes : frames = <<Frame(sequence, "atom", <<bytes>>)>>
    \/ \E bond \in Bonds : /\ frames = <<Frame(sequence, "bond", bond)>>
                           /\ validate_bond_members(view, bond, {}) /\ bond \notin view.bonds
    \/ \E cell \in Cells : /\ frames = CellFrames(prepare_cell(view, cell), sequence)
                           /\ CellAdmissible(view, cell)

WriteStates == {"write", "payload", "sync", "rollback"}

HandleInv(p) ==
    /\ next_sequence[p] \in Nat
    /\ IndexInv(db[p], next_sequence[p])
    /\ pc[p] = "scan" => CursorInv(cursor[p])
    /\ pc[p] \in WriteStates =>
          /\ DOMAIN job[p] = DOMAIN NoJob
          /\ Prepared(job[p].frames, db[p], next_sequence[p])
          /\ job[p].written \in 0..Len(job[p].frames)
    /\ pc[p] \in {"write", "payload"} => job[p].written < Len(job[p].frames)

(* What the writer goes back to lies within the file. *)
ReachInv(p) ==
    /\ pc[p] = "scan" => cursor[p].offset <= Len(disk)
    /\ pc[p] \in WriteStates => job[p].start \in 0..Len(disk)

SoundLog(d) ==
    /\ IsSeq(d)
    /\ \A i \in 1..Len(d) : DOMAIN d[i] = {"frame", "whole", "need"} /\ FrameSound(d[i].frame)

ContentInv ==
    /\ SoundLog(disk) /\ synced \in 0..Len(disk)
    /\ DOMAIN db = Proc
    /\ \A p \in Proc : HandleInv(p)
    /\ \A p \in Proc : lease = p => ReachInv(p)

-----------------------------------------------------------------------------
(* What the log of commits rests on: no handle knows, and no scan takes    *)
(* for committed, what a truncation can cut off.  A rollback after the     *)
(* sync of a whole cell would cut off a commit, so no sync may fail.       *)

MagicInv ==
    /\ magic \in {"none", "torn", "cached", "durable"}
    /\ magic \in {"none", "torn"} => disk = <<>> /\ lease = Nobody
    /\ magic # "durable" => synced = 0

(* What is written commits with its last frame, and is not yet whole.      *)
UnfinishedInv(p) ==
    LET frames == job[p].frames IN
    /\ pc[p] \in WriteStates =>
          /\ Len(frames) > 1 => frames[1].kind = "begin"
          /\ \A i \in 1..Len(frames) : frames[i].kind = "commit" => i = Len(frames)
    /\ pc[p] = "payload" => ~disk[Len(disk)].whole /\ synced < Len(disk)
    /\ pc[p] = "rollback" => Len(disk) < job[p].start + Len(frames) \/ ~disk[Len(disk)].whole

(* A scan of a handle that knows the first n chunks finds at least these:  *)
(* in them it has the open cell that the log has there.                    *)
RefreshInv(c, n) ==
    /\ c.low \in Nat /\ n <= c.limit /\ n <= c.low
    /\ c.offset > n => n <= Valid(c)
    /\ c.offset <= n /\ c.cell.open =>
          /\ FrameAt(c.cell.start + 1).kind = "begin"
          /\ \A i \in (c.cell.start + 1)..c.offset : FrameAt(i).kind # "commit"

KnownInv(p) ==
    /\ HasView(p) => IsCommitted(next_sequence[p])
    /\ pc[p] = "scan" => IsCommitted(Valid(cursor[p]))
    /\ pc[p] = "scan" /\ cursor[p].refresh => RefreshInv(cursor[p], next_sequence[p])

ViewsInv ==
    /\ MagicInv
    /\ \A p \in Proc : lease = p => UnfinishedInv(p)
    /\ \A p \in Proc : KnownInv(p)

IInv == FileInv /\ ContentInv /\ ("sync" \notin Failures => ViewsInv)

-----------------------------------------------------------------------------
(* The replay: what recovery makes of the file.  It refuses no frame.  The *)
(* writer, and the scans that have not come to a cut, have what it has at  *)
(* their place in the log.                                                 *)

(* What recovery has after some frames: the index and the open cell. *)
State(view, cell) == [db |-> view, cell |-> cell]

FrameSteps(s, frame, number, t) ==
    /\ FrameBalances(s.db, s.cell, frame)
    /\ t = State(IndexAfter(s.db, s.cell, frame, number), CellAfter(s.cell, frame, number))

IsIndex(view) == DOMAIN view = DOMAIN EmptyIndex /\ IsMap(view) /\ IsMap(view.atoms)

(* A cell leaves the index as it was when the cell began. *)
Begun(h, i) ==
    LET view == h[i].db
        cell == h[i].cell
    IN  /\ h[i] = State(view, cell)
        /\ IsIndex(view) /\ IsCell(cell) /\ IsSeq(cell.bonds) /\ IsSeq(cell.roots)
        /\ cell.open \/ cell = NoCell
        /\ cell.open => cell.start < i - 1 /\ h[cell.start + 1] = State(view, NoCell)

(* h is what recovery has before the first chunk of d and after each. *)
Told(h, d) ==
    /\ IsSeq(h) /\ Len(h) = Len(d) + 1
    /\ h[1] = State(EmptyIndex, NoCell)
    /\ \A i \in 1..Len(d) : FrameSteps(h[i], d[i].frame, i, h[i + 1])
    /\ \A i \in 1..Len(h) : Begun(h, i)

(* k is what recovery will have before and after each frame of a write, in *)
(* the end what the writer will then have in its index.                    *)
Plan(k, view, j) ==
    /\ IsSeq(k) /\ Len(k) = Len(j.frames) + 1
    /\ k[1] = State(view, NoCell)
    /\ \A i \in 1..Len(j.frames) : FrameSteps(k[i], j.frames[i], j.start + i, k[i + 1])
    /\ k[Len(k)] = State(Committed(view, j), NoCell)

ScanAt(c, h) == c.offset < Len(h) /\ h[c.offset + 1] = State(c.db, c.cell)

(* A scan that has not come to where the file was cut. *)
ObserverTold(c, h, d) ==
    /\ c.offset \in Nat /\ c.limit \in Nat /\ c.cut \in BOOLEAN /\ c.low \in Nat
    /\ c.offset < Sampled(c) =>
          /\ c.low <= Len(d)
          /\ \A i \in 1..c.limit : i <= c.low => d[i].whole
          /\ ~Moved(c) => ScanAt(c, h)

(* From the m-th chunk on, n chunks go as planned. *)
AsPlanned(h, k, m, n) == \A i \in 0..n : h[m + i + 1] = k[i + 1]

(* The writer has the index that a recovery would build. *)
WriterTold(h, p) ==
    LET j == job[p]
        n == next_sequence[p]
    IN  /\ pc[p] = "scan" => ScanAt(cursor[p], h)
        /\ pc[p] \notin {"magic", "scan"} => n < Len(h) /\ h[n + 1] = State(db[p], NoCell)
        /\ pc[p] \in WriteStates =>
              \E k : Plan(k, db[p], j) /\ AsPlanned(h, k, j.start, Len(disk) - j.start)

HandleTold(h, p) ==
    /\ pc[p] = "scan" => ObserverTold(cursor[p], h, disk)
    /\ lease = p => WriterTold(h, p)

Followed(h) == Told(h, disk) /\ \A p \in Proc : HandleTold(h, p)
ReplayInv == \E h : Followed(h)

(* Every index is what recovery has at some place of the log: the indexes  *)
(* of handles, and those that scans build under which nothing was cut.     *)
ViewTold(h, p) ==
    LET c == cursor[p]
        n == next_sequence[p]
    IN  /\ ~HasView(p) => db[p] = EmptyIndex
        /\ HasView(p) => n < Len(h) /\ h[n + 1] = State(db[p], NoCell)
        /\ pc[p] = "scan" /\ ~Overtaken(c) =>
              Valid(c) < Len(h) /\ h[Valid(c) + 1] = State(c.db, NoCell)
ViewsTold == \E h : Told(h, disk) /\ \A p \in Proc : ViewTold(h, p)
=============================================================================
