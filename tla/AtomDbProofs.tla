---------------------------- MODULE AtomDbProofs ----------------------------
EXTENDS AtomDbInvariant

-----------------------------------------------------------------------------
(* The log and its prefixes. *)

LEMMA CarryPrefix ==
    ASSUME NEW d, NEW e, NEW n \in Nat, \A i \in 1..n : d[i] = e[i]
    PROVE  /\ WholeTo(d, n) => WholeTo(e, n)
           /\ ClosedTo(d, n) => ClosedTo(e, n)
  BY DEF WholeTo, ClosedTo

LEMMA LogPrefix ==
    ASSUME NEW d, LogInv(d), NEW n \in 0..Len(d)
    PROVE  /\ LogInv(SubSeq(d, 1, n)) /\ Len(SubSeq(d, 1, n)) = n
           /\ \A i \in 1..n : SubSeq(d, 1, n)[i] = d[i]
<1>1. IsSeq(d) /\ Len(d) \in Nat
  BY DEF LogInv, IsSeq
<1> DEFINE e == SubSeq(d, 1, n)
<1>2. IsSeq(e) /\ Len(e) = n /\ \A i \in 1..n : e[i] = d[i]
  BY <1>1, PrefixSeq
<1> HIDE DEF e
<1>3. LogInv(e)
  BY <1>1, <1>2 DEF LogInv
<1> QED
  BY <1>2, <1>3 DEF e

(* The next frame, or the first bytes of it. *)
LEMMA LogAppend ==
    ASSUME NEW d, LogInv(d), WholeTo(d, Len(d)), NEW x, x.frame.sequence = Len(d),
           DOMAIN x = {"frame", "whole", "need"}, x.whole \in BOOLEAN
    PROVE  /\ LogInv(Append(d, x)) /\ Len(Append(d, x)) = Len(d) + 1
           /\ Append(d, x)[Len(d) + 1] = x
           /\ \A i \in 1..Len(d) : Append(d, x)[i] = d[i]
<1> DEFINE n == Len(d)
           e == Append(d, x)
<1>1. IsSeq(d) /\ n \in Nat
  BY DEF LogInv, IsSeq
<1>2. IsSeq(e) /\ Len(e) = n + 1 /\ e[n + 1] = x /\ \A i \in 1..n : e[i] = d[i]
  BY <1>1, AppendSeq
<1> HIDE DEF e, n
<1>3. ASSUME NEW i \in 1..(n + 1)
      PROVE  /\ DOMAIN e[i] = {"frame", "whole", "need"}
             /\ e[i].whole \in BOOLEAN
             /\ e[i].frame.sequence = i - 1
             /\ i < n + 1 => e[i].whole
  <2>1. CASE i = n + 1
    BY <1>1, <1>2, <2>1 DEF n
  <2>2. CASE i # n + 1
    <3>1. i \in 1..n
      BY <1>1, <2>2
    <3> QED
      BY <1>2, <3>1 DEF LogInv, WholeTo, n
  <2> QED
    BY <2>1, <2>2
<1> QED
  BY <1>2, <1>3 DEF LogInv, e, n

(* The rest of the last frame. *)
LEMMA LogComplete ==
    ASSUME NEW d, LogInv(d), Len(d) > 0
    PROVE  LET e == [d EXCEPT ![Len(d)].whole = TRUE] IN
           /\ LogInv(e) /\ Len(e) = Len(d) /\ WholeTo(e, Len(d))
           /\ \A i \in 1..Len(d) : e[i].frame = d[i].frame
           /\ \A i \in 1..(Len(d) - 1) : e[i] = d[i]
<1> DEFINE n == Len(d)
           e == [d EXCEPT ![n].whole = TRUE]
<1>1. n \in Nat /\ n \in 1..n /\ DOMAIN d = 1..n /\ IsSeq(d)
  BY DEF LogInv, IsSeq
<1>2. DOMAIN e = 1..n /\ e = [i \in 1..n |-> e[i]]
  BY <1>1
<1>3. /\ e[n] = [d[n] EXCEPT !.whole = TRUE]
      /\ \A i \in 1..(n - 1) : e[i] = d[i]
  BY <1>1
<1>4. DOMAIN d[n] = {"frame", "whole", "need"}
  BY <1>1 DEF LogInv
<1>5. e[n].whole = TRUE /\ e[n].frame = d[n].frame /\ DOMAIN e[n] = {"frame", "whole", "need"}
  BY <1>3, <1>4
<1>6. Len(e) = n /\ IsSeq(e)
  <2> HIDE DEF n
  <2>1. n \in Nat
    BY <1>1
  <2>2. Len(e) = n
    BY <1>2, <2>1
  <2> QED
    BY <1>1, <1>2, <2>2 DEF IsSeq
<1>7. ASSUME NEW i \in 1..n
      PROVE  /\ DOMAIN e[i] = {"frame", "whole", "need"}
             /\ e[i].whole = TRUE
             /\ e[i].frame = d[i].frame
             /\ d[i].frame.sequence = i - 1
  <2>1. CASE i = n
    BY <1>1, <1>5, <2>1 DEF LogInv
  <2>2. CASE i # n
    <3>1. i \in 1..(n - 1) /\ i < n
      <4>1. n \in Nat /\ i \in 1..n
        BY <1>1
      <4> HIDE DEF n
      <4> QED
        BY <2>2, <4>1
    <3> QED
      BY <1>3, <3>1 DEF LogInv
  <2> QED
    BY <2>1, <2>2
<1> HIDE DEF n, e
<1>8. LogInv(e) /\ WholeTo(e, n)
  BY <1>6, <1>7 DEF LogInv, WholeTo
<1> QED
  BY <1>3, <1>6, <1>7, <1>8 DEF n, e

(* A read frame changes whether a cell is open, and where, only at         *)
(* membranes.                                                              *)
LEMMA CellAfterFrame ==
    ASSUME NEW index, NEW cell, IsCell(cell), NEW frame, NEW number \in Nat \ {0},
           FrameBalances(index, cell, frame)
    PROVE  LET after == CellAfter(cell, frame, number) IN
           /\ IsCell(after)
           /\ \/ /\ frame.kind = "begin" /\ ~cell.open
                 /\ after.open /\ after.start = number - 1
              \/ frame.kind = "commit" /\ cell.open /\ ~after.open
              \/ /\ frame.kind \notin {"begin", "commit"}
                 /\ after.open = cell.open /\ after.start = cell.start
<1>1. CASE frame.kind = "begin"
  BY <1>1 DEF CellAfter, FrameBalances, IsCell, NoCell
<1>2. CASE frame.kind = "commit"
  BY <1>2 DEF CellAfter, FrameBalances, IsCell, NoCell
<1>3. CASE frame.kind \notin {"begin", "commit"}
  BY <1>3 DEF CellAfter, IsCell
<1> QED
  BY <1>1, <1>2, <1>3

-----------------------------------------------------------------------------
(* Frames that are about to be written. *)

LEMMA SingleFrame ==
    ASSUME NEW sequence \in Nat, NEW kind \in {"atom", "bond"}, NEW payload
    PROVE  FramesInv(<<Frame(sequence, kind, payload)>>, sequence)
  BY DEF FramesInv, Frame, IsSeq

(* A prepared cell has finitely many items of each kind. *)
LEMMA PreparedFinite ==
    ASSUME NEW cell \in Cells, NEW index
    PROVE  /\ Len(prepare_cell(index, cell).atoms) \in Nat
           /\ Len(prepare_cell(index, cell).bonds) \in Nat
           /\ Len(prepare_cell(index, cell).roots) \in Nat
<1> DEFINE ids == {bond_identity(bond) : bond \in NewBonds(index, cell)}
<1> DEFINE moved == {name \in DOMAIN cell.roots :
                       Get(index.roots, name, None) # cell.roots[name]}
<1>1. IsFiniteSet(NewAtoms(index, cell))
  BY CellAssumption, FS_Subset DEF NewAtoms
<1>2. IsFiniteSet(NewBonds(index, cell))
  BY CellAssumption, FS_Subset DEF NewBonds
<1>3. IsFiniteSet(ids)
  <2> DEFINE new == NewBonds(index, cell)
             id == [bond \in new |-> bond_identity(bond)]
  <2>1. id \in Surjection(new, ids)
    BY DEF Surjection
  <2> QED
    BY <1>2, <2>1, FS_Surjection
<1>4. IsFiniteSet(moved)
  BY CellAssumption, FS_Subset
<1>5. /\ Cardinality(NewAtoms(index, cell)) \in Nat
      /\ Cardinality(ids) \in Nat
      /\ Cardinality(moved) \in Nat
  BY <1>1, <1>3, <1>4, FS_CardinalityType
<1> QED
  BY <1>5 DEF prepare_cell, InOrder

LEMMA CellFramesShape ==
    ASSUME NEW cell \in Cells, NEW index, NEW sequence \in Nat
    PROVE  FramesInv(CellFrames(prepare_cell(index, cell), sequence), sequence)
<1> DEFINE prepared == prepare_cell(index, cell)
           a == Len(prepared.atoms)
           b == Len(prepared.bonds)
           r == Len(prepared.roots)
           n == a + b + r + 2
<1>1. a \in Nat /\ b \in Nat /\ r \in Nat
  BY PreparedFinite
<1>2. n \in Nat /\ n >= 2
  <2> HIDE DEF a, b, r
  <2> QED
    BY <1>1
<1> HIDE DEF prepared
<1> DEFINE frames == CellFrames(prepared, sequence)
<1>3. \A i \in 1..n : frames[i].sequence = sequence + i - 1
  BY <1>1, <1>2 DEF CellFrames, Frame
<1>4. \A i \in 1..n : frames[i].kind = "begin" => i = 1
  BY <1>1, <1>2 DEF CellFrames, Frame
<1>5. frames[n].kind = "commit"
  <2>1. frames[n] = Frame(sequence + n - 1, "commit", CellMeta(prepared))
    <3>1. n \in 1..n /\ n # 1 /\ ~(n <= a + 1) /\ ~(n <= a + b + 1) /\ ~(n <= a + b + r + 1)
      <4> HIDE DEF a, b, r
      <4> QED
        BY <1>1
    <3> QED
      BY <3>1 DEF CellFrames
  <2> QED
    BY <2>1 DEF Frame
<1>6. DOMAIN frames = 1..n /\ frames = [i \in DOMAIN frames |-> frames[i]]
  BY DEF CellFrames
<1> HIDE DEF frames, n
<1>7. frames = [i \in 1..n |-> frames[i]]
  BY <1>6
<1>8. frames \in Seq({frames[i] : i \in 1..n})
  BY <1>2, <1>7
<1>9. Len(frames) = n
  BY <1>2, <1>6, <1>8
<1>10. FramesInv(frames, sequence)
  BY <1>2, <1>3, <1>4, <1>5, <1>7, <1>9 DEF FramesInv, IsSeq
<1> QED
  BY <1>10 DEF frames, prepared
-----------------------------------------------------------------------------
(* The handles. *)

LEMMA ReleaseHandles ==
    ASSUME HandlesInv, NEW S \in SUBSET Proc, NEW value, Release(S, value)
    PROVE  HandlesInv'
  BY ProcAssumption DEF Release, Unlocked, Reset, HandlesInv, NoScan

LEMMA FailHandles ==
    ASSUME HandlesInv, NEW p \in Proc, NEW value, Fail(p, value), pc[p] = "scan"
    PROVE  HandlesInv'
<1>1. CASE cursor[p].refresh
  BY <1>1 DEF Fail, HandlesInv, NoScan
<1>2. CASE ~cursor[p].refresh
  BY <1>2, ReleaseHandles DEF Fail, HandlesInv
<1> QED
  BY <1>1, <1>2

LEMMA CutUnderKeeps ==
    ASSUME HandlesInv, NEW n, NEW q \in Proc
    PROVE  /\ DOMAIN CutUnder(n) = Proc
           /\ DOMAIN CutUnder(n)[q] = DOMAIN NoScan
           /\ CutUnder(n)[q].refresh = cursor[q].refresh
  BY DEF HandlesInv, CutUnder, NoScan

LEMMA HandlesInit == Init => HandlesInv
  BY ProcAssumption DEF Init, HandlesInv, NoScan, NoJob

LEMMA CallHandles ==
    ASSUME HandlesInv, NEW p \in Proc, Call(p)
    PROVE  HandlesInv'
<1>1. CASE UNCHANGED vars
  BY <1>1 DEF vars, file, handles, HandlesInv
<1>2. CASE OpenWriter(p)
  BY <1>2, ProcAssumption DEF OpenWriter, StartScan, HandlesInv, NoScan
<1>3. CASE CreateStore(p)
  BY <1>3, ProcAssumption DEF CreateStore, HandlesInv
<1>4. CASE CreateStoreFault(p)
  BY <1>4 DEF CreateStoreFault, HandlesInv
<1>5. CASE OpenReadOnly(p)
  BY <1>5, ProcAssumption DEF OpenReadOnly, StartScan, HandlesInv, NoScan, file
<1>6. CASE Refresh(p)
  BY <1>6 DEF Refresh, StartScan, HandlesInv, NoScan, file
<1>7. CASE Flush(p)
  BY <1>7 DEF Flush, HandlesInv
<1>8. CASE Close(p)
  BY <1>8, ReleaseHandles DEF Close, HandlesInv
<1>9. ASSUME NEW frames, ReadyWriter(p), StartWrite(p, frames)
      PROVE  HandlesInv'
  BY <1>9 DEF ReadyWriter, StartWrite, HandlesInv, file
<1> QED
  BY <1>1, <1>2, <1>3, <1>4, <1>5, <1>6, <1>7, <1>8, <1>9
     DEF Call, OpenBusy, OpenRejected, Refuse, PutAtom, PutBond, CommitCell

LEMMA ScanHandles ==
    ASSUME HandlesInv, NEW p \in Proc, Scan(p)
    PROVE  HandlesInv'
<1>1. CASE ScanFrame(p)
  BY <1>1, ZenonT(60) DEF ScanFrame, HandlesInv, NoScan, file
<1>2. CASE ScanCorrupt(p) \/ ScanEof(p)
  BY <1>2, FailHandles DEF ScanCorrupt, ScanEof
<1>3. CASE ScanClean(p) \/ ScanProvisional(p)
  BY <1>3 DEF ScanClean, ScanProvisional, Finish, HandlesInv, NoScan, file
<1>4. CASE Repair(p)
  BY <1>4, CutUnderKeeps DEF Repair, HandlesInv, NoScan
<1>5. CASE RepairFault(p)
  BY <1>5, ReleaseHandles DEF RepairFault, HandlesInv
<1> QED
  BY <1>1, <1>2, <1>3, <1>4, <1>5 DEF Scan

LEMMA WriteHandles ==
    ASSUME HandlesInv, NEW p \in Proc, Write(p)
    PROVE  HandlesInv'
<1>1. CASE WriteHeader(p)
  BY <1>1 DEF WriteHeader, HandlesInv
<1>2. CASE WritePayload(p)
  BY <1>2 DEF WritePayload, HandlesInv
<1>3. CASE WriteFault(p)
  BY <1>3 DEF WriteFault, HandlesInv, file
<1>4. CASE Sync(p)
  BY <1>4 DEF Sync, HandlesInv
<1>5. CASE SyncFault(p)
  BY <1>5 DEF SyncFault, HandlesInv, file
<1>6. CASE Rollback(p)
  BY <1>6, CutUnderKeeps DEF Rollback, HandlesInv
<1>7. CASE RollbackFault(p)
  <2>1. /\ DOMAIN cursor' = Proc
        /\ \A q \in Proc : /\ DOMAIN cursor'[q] = DOMAIN NoScan
                           /\ cursor'[q].refresh = cursor[q].refresh
    <3>1. cursor' = cursor \/ cursor' = CutUnder(job[p].start)
      BY <1>7 DEF RollbackFault
    <3>2. CASE cursor' = cursor
      BY <3>2 DEF HandlesInv
    <3>3. CASE cursor' = CutUnder(job[p].start)
      BY <3>3, CutUnderKeeps
    <3> QED
      BY <3>1, <3>2, <3>3
  <2> QED
    BY <1>7, <2>1 DEF RollbackFault, HandlesInv
<1> QED
  BY <1>1, <1>2, <1>3, <1>4, <1>5, <1>6, <1>7 DEF Write

(* The lock names the one writer, whatever fails. *)
LEMMA HandlesStep == HandlesInv /\ [Next]_vars => HandlesInv'
<1> SUFFICES ASSUME HandlesInv, [Next]_vars PROVE HandlesInv'
  OBVIOUS
<1>1. CASE UNCHANGED vars
  BY <1>1 DEF vars, file, handles, HandlesInv
<1>2. ASSUME NEW p \in Proc, Call(p) \/ Scan(p) \/ Write(p)
      PROVE  HandlesInv'
  BY <1>2, CallHandles, ScanHandles, WriteHandles
<1>3. ASSUME NEW p \in Proc, SyncMagic(p)
      PROVE  HandlesInv'
  BY <1>3 DEF SyncMagic, StartScan, HandlesInv, NoScan
<1>4. ASSUME NEW p \in Proc, Crash(p) \/ SyncMagicFault(p)
      PROVE  HandlesInv'
  BY <1>4, ReleaseHandles DEF Crash, SyncMagicFault, HandlesInv
<1>5. CASE PowerLoss
  BY <1>5, ReleaseHandles DEF PowerLoss, HandlesInv
<1> QED
  BY <1>1, <1>2, <1>3, <1>4, <1>5 DEF Next
-----------------------------------------------------------------------------
(* The store: steps that leave the file alone. *)

LEMMA StoreInit == Init => StoreInv
  BY ProcAssumption
     DEF Init, StoreInv, DiskInv, LogInv, AckedInv, WriterInv, IsSeq, WholeTo, ClosedTo

LEMMA OneWriter ==
    ASSUME HandlesInv, NEW p \in Proc,
           \/ pc[p] \in {"magic", "write", "payload", "sync", "rollback"}
           \/ mode[p] = "writer"
    PROVE  lease = p
  BY DEF HandlesInv

(* Whoever keeps the lock does nothing, and the file does not change. *)
LEMMA Bystander ==
    ASSUME StoreInv, UNCHANGED <<disk, acked>>,
           synced' \in Nat, Len(acked) <= synced', synced' <= Len(disk),
           magic' \in {"none", "cached"} => magic \in {"none", "cached"},
           \A q \in Proc : lease' = q =>
               /\ lease = q
               /\ pc'[q] = pc[q] /\ next_sequence'[q] = next_sequence[q]
               /\ job'[q] = job[q] /\ cursor'[q] = cursor[q]
    PROVE  StoreInv'
<1>1. DiskInv'
  BY DEF StoreInv, DiskInv
<1>2. AckedInv'
  BY DEF StoreInv, AckedInv
<1>3. ASSUME NEW c, ScanInv(c)
      PROVE  ScanInv(c)'
  BY <1>3 DEF ScanInv
<1>4. ASSUME NEW j, NEW sequence, JobInv(j, sequence)
      PROVE  JobInv(j, sequence)'
  BY <1>4 DEF JobInv
<1>5. WriterInv'
  <2> SUFFICES ASSUME NEW q \in Proc, lease' = q
               PROVE  WriterAt(q)'
    BY DEF WriterInv
  <2> QED
    BY <1>3, <1>4 DEF StoreInv, WriterInv, WriterAt
<1> QED
  BY <1>1, <1>2, <1>5 DEF StoreInv

LEMMA SyncedBounds ==
    ASSUME StoreInv
    PROVE  synced \in Nat /\ Len(acked) <= synced /\ synced <= Len(disk)
  BY DEF StoreInv, AckedInv

LEMMA NoStep ==
    ASSUME StoreInv, UNCHANGED vars
    PROVE  StoreInv'
  BY Bystander, SyncedBounds DEF vars, file, handles

LEMMA ReleaseStore ==
    ASSUME HandlesInv, StoreInv, NEW S \in SUBSET Proc, NEW value, Release(S, value),
           UNCHANGED <<magic, disk, synced, acked>>
    PROVE  StoreInv'
  BY Bystander, SyncedBounds, ProcAssumption DEF Release, Unlocked, Reset, HandlesInv

LEMMA FailStore ==
    ASSUME HandlesInv, StoreInv, NEW p \in Proc, NEW value, Fail(p, value),
           UNCHANGED <<magic, disk, synced, acked>>
    PROVE  StoreInv'
<1>1. CASE cursor[p].refresh
  BY <1>1, Bystander, SyncedBounds DEF Fail, HandlesInv
<1>2. CASE ~cursor[p].refresh
  BY <1>2, ReleaseStore DEF Fail
<1> QED
  BY <1>1, <1>2

(* A step of a reader. *)
LEMMA ReaderStep ==
    ASSUME HandlesInv, StoreInv, NEW p \in Proc, lease # p,
           UNCHANGED <<magic, disk, synced, lease, acked>>,
           \A q \in Proc \ {p} : /\ pc'[q] = pc[q] /\ next_sequence'[q] = next_sequence[q]
                                 /\ job'[q] = job[q] /\ cursor'[q] = cursor[q]
    PROVE  StoreInv'
  BY Bystander, SyncedBounds DEF HandlesInv
-----------------------------------------------------------------------------
(* The store: steps of the writer that leave the file alone. *)

(* It is enough to look at the one writer. *)
LEMMA WriterStep ==
    ASSUME HandlesInv', NEW p \in Proc, lease' = p, WriterAt(p)'
    PROVE  WriterInv'
  BY DEF WriterInv

LEMMA StartScanStore ==
    ASSUME HandlesInv, HandlesInv', StoreInv, NEW p \in Proc, StartScan(p, FALSE), lease' = p,
           UNCHANGED <<disk, synced, acked>>,
           magic' \in {"none", "cached"} => magic \in {"none", "cached"}
    PROVE  StoreInv'
<1>1. DiskInv' /\ AckedInv'
  BY DEF StoreInv, DiskInv, AckedInv
<1>2. pc'[p] = "scan"
  BY DEF StartScan, HandlesInv
<1>3. cursor'[p] = [NoScan EXCEPT !.limit = IF IsCut THEN Len(disk) - 1 ELSE Len(disk),
                                  !.cut = IsCut, !.low = Len(disk), !.refresh = FALSE]
  BY DEF StartScan, HandlesInv
<1>4. /\ Len(disk) \in Nat
      /\ \A i \in 1..Len(disk) : disk[i].whole \in BOOLEAN /\ (i < Len(disk) => disk[i].whole)
  BY DEF StoreInv, DiskInv, LogInv, IsSeq
<1>5. ScanInv(cursor[p])'
  <2> DEFINE c == cursor'[p]
  <2>1. c.offset = 0 /\ c.cell = NoCell /\ c.low = Len(disk) /\ c.cut = IsCut
        /\ c.limit = IF IsCut THEN Len(disk) - 1 ELSE Len(disk)
    BY <1>3 DEF NoScan
  <2> HIDE DEF c
  <2>2. WholeTo(disk, c.limit) /\ c.limit \in Nat
    BY <1>4, <2>1 DEF WholeTo, IsCut
  <2>3. ClosedTo(disk, Valid(c)) /\ IsCell(c.cell) /\ ~c.cell.open
    BY <2>1 DEF ClosedTo, Valid, IsCell, NoCell
  <2>4. /\ Len(disk) = c.limit + (IF c.cut THEN 1 ELSE 0)
        /\ c.cut => ~disk[Len(disk)].whole
        /\ c.cut \in BOOLEAN
    <3>1. c.cut \in BOOLEAN /\ (c.cut <=> IsCut)
      <4>1. IsCut \in BOOLEAN
        BY DEF IsCut
      <4> QED
        BY <2>1, <4>1
    <3>2. CASE IsCut
      BY <1>4, <2>1, <3>1, <3>2 DEF IsCut
    <3>3. CASE ~IsCut
      BY <1>4, <2>1, <3>1, <3>3
    <3> QED
      BY <3>2, <3>3
  <2> QED
    BY <2>1, <2>2, <2>3, <2>4 DEF ScanInv, c
<1>6. WriterAt(p)'
  BY <1>2, <1>5 DEF WriterAt
<1> QED
  BY <1>1, <1>6, WriterStep DEF StoreInv

LEMMA ScanFrameStore ==
    ASSUME HandlesInv, HandlesInv', StoreInv, NEW p \in Proc, lease = p, ScanFrame(p)
    PROVE  StoreInv'
<1> DEFINE c == cursor[p]
           frame == disk[c.offset + 1].frame
           after == CellAfter(c.cell, frame, c.offset + 1)
           d == cursor'[p]
<1>1. DiskInv' /\ AckedInv' /\ lease' = p /\ pc'[p] = "scan" /\ UNCHANGED disk
  BY DEF ScanFrame, file, StoreInv, DiskInv, AckedInv
<1>2. ScanInv(c)
  BY DEF ScanFrame, StoreInv, WriterInv, WriterAt
<1>3. c.offset < c.limit /\ c.offset \in Nat /\ c.limit \in Nat
  <2>1. Within(c)
    BY DEF ScanFrame
  <2>2. c.offset \in Nat /\ c.limit \in Nat /\ c.low = Sampled(c)
    BY <1>2 DEF ScanInv, Sampled
  <2>3. ~Moved(c)
    <3>1. Sampled(c) \in Nat
      BY <2>2 DEF Sampled
    <3> HIDE DEF c
    <3> QED
      BY <2>2, <3>1 DEF Moved
  <2> QED
    BY <2>1, <2>2, <2>3 DEF Within
<1>4. FrameBalances(c.db, c.cell, frame)
  <2>1. Acceptable(c)
    BY DEF ScanFrame
  <2> QED
    BY <2>1 DEF Acceptable
<1>5. /\ d.offset = c.offset + 1 /\ d.limit = c.limit /\ d.cut = c.cut /\ d.low = c.low
      /\ d.cell = after
  <2>1. p \in DOMAIN cursor /\ DOMAIN c = DOMAIN NoScan
    BY DEF HandlesInv
  <2>2. DOMAIN NoScan = {"offset", "limit", "cut", "low", "read", "refresh", "db", "cell"}
    BY DEF NoScan
  <2>3. d = [c EXCEPT !.offset = c.offset + 1, !.read = Append(c.read, frame),
                      !.db = IndexAfter(c.db, c.cell, frame, c.offset + 1),
                      !.cell = after]
    BY <2>1, <2>2 DEF ScanFrame
  <2> HIDE DEF d, c, after, frame
  <2> QED
    BY <2>1, <2>2, <2>3
<1>6. /\ IsCell(after)
      /\ \/ frame.kind = "begin" /\ ~c.cell.open /\ after.open /\ after.start = c.offset
         \/ frame.kind = "commit" /\ c.cell.open /\ ~after.open
         \/ /\ frame.kind \notin {"begin", "commit"}
            /\ after.open = c.cell.open /\ after.start = c.cell.start
  <2>1. /\ IsCell(c.cell) /\ c.offset + 1 \in Nat \ {0} /\ (c.offset + 1) - 1 = c.offset
    BY <1>2, <1>3 DEF ScanInv
  <2> HIDE DEF c, frame
  <2>2. /\ IsCell(after)
        /\ \/ frame.kind = "begin" /\ ~c.cell.open /\ after.open
              /\ after.start = (c.offset + 1) - 1
           \/ frame.kind = "commit" /\ c.cell.open /\ ~after.open
           \/ /\ frame.kind \notin {"begin", "commit"}
              /\ after.open = c.cell.open /\ after.start = c.cell.start
    BY <1>4, <2>1, CellAfterFrame
  <2> QED
    BY <2>1, <2>2
<1> HIDE DEF after, d
<1>7. after.open =>
          /\ after.start < c.offset + 1
          /\ disk[after.start + 1].frame.kind = "begin"
          /\ \A i \in (after.start + 1)..(c.offset + 1) : disk[i].frame.kind # "commit"
  <2>1. CASE frame.kind = "begin"
    BY <1>3, <1>6, <2>1
  <2>2. CASE frame.kind # "begin"
    <3> SUFFICES ASSUME after.open
                 PROVE  /\ frame.kind # "commit"
                        /\ after.start = c.cell.start
                        /\ c.cell.start \in Nat /\ c.cell.start < c.offset
                        /\ disk[c.cell.start + 1].frame.kind = "begin"
                        /\ \A i \in (c.cell.start + 1)..c.offset : disk[i].frame.kind # "commit"
      BY <1>3
    <3>1. frame.kind # "commit" /\ c.cell.open /\ after.start = c.cell.start
      BY <1>6, <2>2
    <3> QED
      BY <1>2, <3>1 DEF ScanInv, IsCell
  <2> QED
    BY <2>1, <2>2
<1>8. ClosedTo(disk, IF after.open THEN after.start ELSE c.offset + 1)
  <2>1. ClosedTo(disk, IF c.cell.open THEN c.cell.start ELSE c.offset)
    BY <1>2 DEF ScanInv, Valid
  <2>2. CASE frame.kind = "begin"
    BY <1>6, <2>1, <2>2
  <2>3. CASE frame.kind = "commit"
    <3>1. /\ c.cell.start \in Nat /\ c.cell.start < c.offset
          /\ ClosedTo(disk, c.cell.start)
      BY <1>2, <1>6, <2>1, <2>3 DEF ScanInv, IsCell
    <3>2. ClosedTo(disk, c.offset + 1)
      BY <1>3, <2>3, <3>1 DEF ClosedTo
    <3> QED
      BY <1>6, <2>3, <3>2
  <2>4. CASE frame.kind \notin {"begin", "commit"} /\ ~c.cell.open
    <3>1. ClosedTo(disk, c.offset + 1)
      BY <1>3, <2>1, <2>4 DEF ClosedTo
    <3> QED
      BY <1>6, <2>4, <3>1
  <2>5. CASE frame.kind \notin {"begin", "commit"} /\ c.cell.open
    BY <1>6, <2>1, <2>5
  <2> QED
    BY <2>2, <2>3, <2>4, <2>5
<1>9. ScanInv(cursor[p])'
  <2>1. Valid(d) = IF after.open THEN after.start ELSE c.offset + 1
    BY <1>5 DEF Valid
  <2>2. ScanInv(d)
    <3>1. /\ d.offset \in Nat /\ d.limit \in Nat /\ d.offset <= d.limit
          /\ d.cut \in BOOLEAN
      BY <1>2, <1>3, <1>5 DEF ScanInv
    <3>2. /\ Len(disk) = d.limit + (IF d.cut THEN 1 ELSE 0) /\ d.low = Len(disk)
          /\ d.cut => ~disk[Len(disk)].whole
          /\ WholeTo(disk, d.limit)
      BY <1>2, <1>5 DEF ScanInv
    <3>3. ClosedTo(disk, Valid(d))
      BY <1>8, <2>1
    <3>4. IsCell(d.cell)
      BY <1>5, <1>6
    <3>5. d.cell.open =>
              /\ d.cell.start < d.offset
              /\ disk[d.cell.start + 1].frame.kind = "begin"
              /\ \A i \in (d.cell.start + 1)..d.offset : disk[i].frame.kind # "commit"
      BY <1>5, <1>7
    <3> QED
      BY <3>1, <3>2, <3>3, <3>4, <3>5 DEF ScanInv
  <2> QED
    BY <1>1, <2>2 DEF ScanInv, d
<1>10. WriterAt(p)'
  BY <1>1, <1>9 DEF WriterAt
<1> QED
  BY <1>1, <1>10, WriterStep DEF StoreInv
LEMMA ScanCleanStore ==
    ASSUME HandlesInv, HandlesInv', StoreInv, NEW p \in Proc, lease = p, ScanClean(p)
    PROVE  StoreInv'
<1> DEFINE c == cursor[p]
<1>1. DiskInv' /\ AckedInv' /\ lease' = p /\ UNCHANGED disk
  BY DEF ScanClean, file, StoreInv, DiskInv, AckedInv
<1>2. ScanInv(c)
  BY DEF ScanClean, StoreInv, WriterInv, WriterAt
<1>3. pc'[p] = "ready" /\ next_sequence'[p] = c.offset
  BY DEF ScanClean, Finish, HandlesInv
<1>4. c.offset = c.limit /\ ~c.cut /\ ~c.cell.open
  BY <1>2 DEF ScanClean, Moved, Sampled, ScanInv
<1>5. Len(disk) = c.offset /\ WholeTo(disk, c.offset) /\ ClosedTo(disk, c.offset)
  BY <1>2, <1>4 DEF ScanInv, Valid
<1>6. WriterAt(p)'
  BY <1>1, <1>3, <1>5 DEF WriterAt
<1> QED
  BY <1>1, <1>6, WriterStep DEF StoreInv

(* Cutting the file to a committed prefix that has all that was            *)
(* acknowledged.                                                           *)
LEMMA TruncateStore ==
    ASSUME StoreInv, NEW n \in Nat, Len(acked) <= n, n <= Len(disk),
           WholeTo(disk, n), ClosedTo(disk, n), Truncate(n), UNCHANGED acked,
           magic' = "durable"
    PROVE  /\ DiskInv' /\ AckedInv' /\ Len(disk') = n
           /\ WholeTo(disk', n) /\ ClosedTo(disk', n)
<1>1. LogInv(disk) /\ n \in 0..Len(disk)
  BY DEF StoreInv, DiskInv, LogInv, IsSeq
<1>2. LogInv(disk') /\ Len(disk') = n /\ \A i \in 1..n : disk'[i] = disk[i]
  BY <1>1, LogPrefix DEF Truncate
<1>3. WholeTo(disk', n) /\ ClosedTo(disk', n)
  BY <1>2, CarryPrefix
<1>4. DiskInv'
  BY <1>2 DEF DiskInv
<1>5. Len(acked) \in Nat /\ WholeTo(disk', Len(acked)) /\ ClosedTo(disk', Len(acked))
  <2>1. Len(acked) \in Nat /\ WholeTo(disk, Len(acked)) /\ ClosedTo(disk, Len(acked))
    BY DEF StoreInv, AckedInv, IsSeq
  <2> QED
    BY <1>2, <2>1, CarryPrefix
<1>6. AckedInv'
  BY <1>2, <1>5 DEF StoreInv, AckedInv, Truncate
<1> QED
  BY <1>2, <1>3, <1>4, <1>6

(* Repair cuts no acknowledged frame: an open cell was never               *)
(* acknowledged, because what was is whole and closed.                     *)
LEMMA RepairStore ==
    ASSUME HandlesInv, HandlesInv', StoreInv, NEW p \in Proc, lease = p, Repair(p)
    PROVE  StoreInv'
<1> DEFINE c == cursor[p]
           n == Valid(c)
<1>1. ScanInv(c)
  BY DEF Repair, StoreInv, WriterInv, WriterAt
<1>2. ~Moved(c)
  BY <1>1 DEF ScanInv, Moved, Sampled
<1>3. c.offset = c.limit /\ (c.cut \/ c.cell.open)
  <2>1. c.offset < c.limit => disk[c.offset + 1].whole
    BY <1>1 DEF ScanInv, WholeTo
  <2> QED
    BY <1>2, <2>1 DEF Repair, Incomplete
<1>4. /\ IsSeq(acked) /\ Len(acked) \in Nat /\ Len(acked) <= Len(disk)
      /\ WholeTo(disk, Len(acked)) /\ ClosedTo(disk, Len(acked))
      /\ Len(disk) \in Nat
  BY DEF StoreInv, AckedInv, DiskInv, LogInv, IsSeq
<1>5. /\ c.offset \in Nat /\ c.limit \in Nat /\ c.limit <= Len(disk)
      /\ WholeTo(disk, c.limit) /\ ClosedTo(disk, n)
  BY <1>1 DEF ScanInv
<1>6. Len(acked) <= c.limit
  BY <1>1, <1>4 DEF ScanInv, WholeTo
<1>7. n \in Nat /\ n <= c.limit /\ Len(acked) <= n
  <2>1. CASE c.cell.open
    <3>1. /\ n = c.cell.start /\ n \in Nat /\ n < c.offset
          /\ disk[n + 1].frame.kind = "begin"
          /\ \A i \in (n + 1)..c.offset : disk[i].frame.kind # "commit"
      BY <1>1, <2>1 DEF ScanInv, IsCell, Valid
    <3> HIDE DEF n
    <3>2. Len(acked) <= n
      <4> SUFFICES ASSUME Len(acked) > n PROVE FALSE
        BY <1>4, <3>1
      <4>1. PICK j \in (n + 1)..Len(acked) : disk[j].frame.kind = "commit"
        BY <1>4, <3>1 DEF ClosedTo
      <4> QED
        BY <1>3, <1>4, <1>5, <1>6, <3>1, <4>1
    <3> QED
      BY <1>3, <1>5, <3>1, <3>2
  <2>2. CASE ~c.cell.open
    BY <1>3, <1>5, <1>6, <2>2 DEF Valid
  <2> QED
    BY <2>1, <2>2
<1>8. WholeTo(disk, n)
  BY <1>5, <1>7 DEF WholeTo
<1>9. /\ Truncate(n) /\ UNCHANGED acked /\ magic' = "durable"
      /\ pc'[p] = "ready" /\ next_sequence'[p] = n /\ lease' = p
  BY DEF Repair, HandlesInv
<1> HIDE DEF n
<1>10. /\ DiskInv' /\ AckedInv' /\ Len(disk') = n
       /\ WholeTo(disk', n) /\ ClosedTo(disk', n)
  BY <1>4, <1>5, <1>7, <1>8, <1>9, TruncateStore
<1>11. WriterAt(p)'
  BY <1>9, <1>10 DEF WriterAt
<1> QED
  BY <1>9, <1>10, <1>11, WriterStep DEF StoreInv

LEMMA StartWriteStore ==
    ASSUME HandlesInv, HandlesInv', StoreInv, NEW p \in Proc, ReadyWriter(p),
           NEW frames, FramesInv(frames, next_sequence[p]), StartWrite(p, frames)
    PROVE  StoreInv'
<1>1. lease = p /\ pc[p] = "ready"
  BY OneWriter DEF ReadyWriter
<1>2. DiskInv' /\ AckedInv' /\ lease' = p /\ UNCHANGED disk
  BY <1>1 DEF StartWrite, file, StoreInv, DiskInv, AckedInv
<1>3. /\ next_sequence[p] = Len(disk) /\ WholeTo(disk, Len(disk)) /\ ClosedTo(disk, Len(disk))
  BY <1>1 DEF StoreInv, WriterInv, WriterAt
<1>4. /\ pc'[p] = "write" /\ next_sequence'[p] = next_sequence[p] /\ acked' = acked
      /\ job'[p] = [frames |-> frames, written |-> 0, start |-> Len(disk)]
  BY DEF StartWrite, HandlesInv
<1>5. Len(disk) \in Nat /\ Len(acked) <= Len(disk) /\ Len(frames) \in Nat /\ Len(frames) > 0
  BY DEF StoreInv, AckedInv, DiskInv, LogInv, IsSeq, FramesInv
<1>6. JobInv(job[p], next_sequence[p])'
  BY <1>2, <1>3, <1>4, <1>5 DEF JobInv
<1>7. WriterAt(p)'
  BY <1>2, <1>3, <1>4, <1>5, <1>6 DEF WriterAt
<1> QED
  BY <1>2, <1>7, WriterStep DEF StoreInv
-----------------------------------------------------------------------------
(* The store: steps that write. *)

(* What every writing step finds. *)
LEMMA Writing ==
    ASSUME HandlesInv, StoreInv, NEW p \in Proc,
           pc[p] \in {"write", "payload", "sync", "rollback"}
    PROVE  /\ lease = p
           /\ LogInv(disk) /\ Len(disk) \in Nat
           /\ IsSeq(acked) /\ Len(acked) \in Nat /\ Len(acked) <= job[p].start
           /\ job[p].start \in Nat /\ job[p].start <= Len(disk) /\ job[p].written \in Nat
           /\ Len(job[p].frames) \in Nat
           /\ JobInv(job[p], next_sequence[p])
           /\ WriterAt(p)
           /\ synced \in Nat /\ Len(acked) <= synced /\ synced <= Len(disk)
  BY OneWriter
     DEF StoreInv, WriterInv, WriterAt, JobInv, FramesInv, IsSeq, DiskInv, LogInv, AckedInv

(* The acknowledged part is not disturbed by a change behind it. *)
LEMMA AckedCarries ==
    ASSUME StoreInv, NEW n \in Nat, Len(acked) <= n, n <= Len(disk'), Len(disk') \in Nat,
           \A i \in 1..n : disk'[i] = disk[i], UNCHANGED <<acked, synced>>,
           synced <= Len(disk'), magic' = magic
    PROVE  AckedInv'
<1>1. Len(acked) \in Nat /\ \A i \in 1..Len(acked) : disk[i] = disk'[i]
  BY DEF StoreInv, AckedInv, IsSeq
<1>2. WholeTo(disk', Len(acked)) /\ ClosedTo(disk', Len(acked))
  BY <1>1, CarryPrefix DEF StoreInv, AckedInv
<1> QED
  BY <1>1, <1>2 DEF StoreInv, AckedInv

LEMMA WriteHeaderStore ==
    ASSUME HandlesInv, HandlesInv', StoreInv, NEW p \in Proc, WriteHeader(p)
    PROVE  StoreInv'
<1> DEFINE j == job[p]
           n == Len(disk)
           x == Chunk(j.frames[j.written + 1], FALSE, 1)
<1>1. /\ lease = p /\ LogInv(disk) /\ n \in Nat /\ j.start <= n /\ j.start \in Nat
      /\ j.written \in Nat /\ Len(j.frames) \in Nat /\ Len(acked) \in Nat /\ Len(acked) <= n
      /\ synced \in Nat /\ synced <= n
  BY Writing DEF WriteHeader
<1>2. n = j.start + j.written /\ j.written < Len(j.frames) /\ WholeTo(disk, n)
  BY Writing DEF WriteHeader, WriterAt
<1>3. JobInv(j, next_sequence[p])
  BY Writing DEF WriteHeader
<1>4. disk' = Append(disk, x) /\ pc'[p] = "payload" /\ lease' = lease /\ magic' = magic
      /\ UNCHANGED <<synced, acked, next_sequence, job>>
  BY DEF WriteHeader, HandlesInv
<1>5. /\ x.frame = j.frames[j.written + 1] /\ x.whole \in BOOLEAN
      /\ DOMAIN x = {"frame", "whole", "need"}
  BY DEF Chunk
<1>6. x.frame.sequence = n
  <2>1. j.written + 1 \in 1..Len(j.frames)
    BY <1>1, <1>2
  <2>2. j.frames[j.written + 1].sequence = next_sequence[p] + (j.written + 1) - 1
    BY <1>3, <2>1 DEF JobInv, FramesInv
  <2>3. next_sequence[p] + (j.written + 1) - 1 = n
    BY <1>1, <1>2, <1>3 DEF JobInv
  <2>4. x.frame = j.frames[j.written + 1]
    BY <1>5
  <2> HIDE DEF x, j, n
  <2> QED
    BY <2>2, <2>3, <2>4
<1> HIDE DEF x
<1>7. /\ LogInv(disk') /\ Len(disk') = n + 1 /\ disk'[n + 1] = x
      /\ \A i \in 1..n : disk'[i] = disk[i]
  <2>1. /\ LogInv(Append(disk, x)) /\ Len(Append(disk, x)) = n + 1
        /\ Append(disk, x)[n + 1] = x
        /\ \A i \in 1..n : Append(disk, x)[i] = disk[i]
    <3>1. LogInv(disk) /\ WholeTo(disk, Len(disk)) /\ x.frame.sequence = Len(disk)
      BY <1>1, <1>2, <1>6
    <3> QED
      BY <1>5, <3>1, LogAppend
  <2>2. disk' = Append(disk, x)
    BY <1>4
  <2> HIDE DEF n
  <2> QED
    BY <2>1, <2>2
<1>8. DiskInv'
  BY <1>7 DEF DiskInv
<1>9. AckedInv'
  BY <1>1, <1>4, <1>7, AckedCarries
<1>10. WholeTo(disk', j.start) /\ ClosedTo(disk', j.start)
  <2>1. \A i \in 1..j.start : disk[i] = disk'[i]
    BY <1>1, <1>7
  <2>2. WholeTo(disk, j.start) /\ ClosedTo(disk, j.start)
    BY <1>3 DEF JobInv
  <2> QED
    BY <1>1, <2>1, <2>2, CarryPrefix
<1>11. JobInv(job[p], next_sequence[p])'
  <2>1. ASSUME NEW i \in (j.start + 1)..(n + 1)
        PROVE  disk'[i].frame = j.frames[i - j.start]
    <3>1. CASE i = n + 1
      <4>1. i - j.start = j.written + 1
        BY <1>1, <1>2, <3>1, SMTT(40)
      <4>2. disk'[i].frame = x.frame
        BY <1>7, <3>1
      <4> QED
        BY <1>5, <4>1, <4>2
    <3>2. CASE i # n + 1
      <4>1. i \in 1..n /\ i \in (j.start + 1)..Len(disk)
        BY <1>1, <3>2
      <4> QED
        BY <1>3, <1>7, <4>1 DEF JobInv
    <3> QED
      BY <3>1, <3>2
  <2>2. job'[p] = j /\ next_sequence'[p] = next_sequence[p] /\ acked' = acked
    BY <1>4
  <2>3. /\ j.start <= Len(disk') /\ Len(disk') <= j.start + Len(j.frames)
        /\ Len(disk') = n + 1
    <3>1. Len(disk') = n + 1
      BY <1>7
    <3> HIDE DEF j, n
    <3>2. j.start <= n + 1 /\ n + 1 <= j.start + Len(j.frames)
      BY <1>1, <1>2
    <3> QED
      BY <3>1, <3>2
  <2>4. \A i \in (j.start + 1)..Len(disk') : disk'[i].frame = j.frames[i - j.start]
    <3>1. \A i \in (j.start + 1)..(n + 1) : disk'[i].frame = j.frames[i - j.start]
      BY <2>1
    <3>2. Len(disk') = n + 1
      BY <2>3
    <3> QED
      BY <3>1, <3>2, Zenon
  <2>5. Len(acked) <= j.start /\ Len(disk') \in Nat
    BY <1>1, <1>3, <2>3 DEF JobInv
  <2> QED
    BY <1>3, <1>10, <2>2, <2>3, <2>4, <2>5 DEF JobInv
<1>12. WriterAt(p)'
  BY <1>2, <1>4, <1>7, <1>11 DEF WriterAt
<1> QED
  BY <1>1, <1>4, <1>8, <1>9, <1>12, WriterStep DEF StoreInv

LEMMA WritePayloadStore ==
    ASSUME HandlesInv, HandlesInv', StoreInv, NEW p \in Proc, WritePayload(p)
    PROVE  StoreInv'
<1> DEFINE j == job[p]
           n == Len(disk)
<1>1. /\ lease = p /\ LogInv(disk) /\ n \in Nat /\ j.start <= n /\ j.start \in Nat
      /\ j.written \in Nat /\ Len(j.frames) \in Nat /\ Len(acked) \in Nat
      /\ Len(acked) <= j.start /\ synced \in Nat /\ synced <= n
  BY Writing DEF WritePayload
<1>2. n = j.start + j.written + 1 /\ j.written < Len(j.frames)
  BY Writing DEF WritePayload, WriterAt
<1>3. JobInv(j, next_sequence[p])
  BY Writing DEF WritePayload
<1>4. /\ disk' = [disk EXCEPT ![n].whole = TRUE]
      /\ job'[p] = [j EXCEPT !.written = j.written + 1]
      /\ pc'[p] = IF j.written + 1 = Len(j.frames) THEN "sync" ELSE "write"
      /\ UNCHANGED <<magic, lease, synced, acked, next_sequence>>
  BY DEF WritePayload, HandlesInv
<1>5. /\ LogInv(disk') /\ Len(disk') = n /\ WholeTo(disk', n)
      /\ \A i \in 1..n : disk'[i].frame = disk[i].frame
      /\ \A i \in 1..(n - 1) : disk'[i] = disk[i]
  <2>1. n > 0
    <3> HIDE DEF j, n
    <3> QED
      BY <1>1, <1>2
  <2>2. disk' = [disk EXCEPT ![Len(disk)].whole = TRUE]
    BY <1>4
  <2>3. LogInv(disk)
    BY <1>1
  <2> QED
    BY <2>1, <2>2, <2>3, LogComplete
<1>6. DiskInv'
  BY <1>5 DEF DiskInv
<1>7. j.start <= n - 1 /\ \A i \in 1..j.start : disk'[i] = disk[i]
  <2>1. \A i \in 1..(n - 1) : disk'[i] = disk[i]
    BY <1>5
  <2>2. j.start <= n - 1 /\ \A i \in 1..j.start : i \in 1..(n - 1)
    <3> HIDE DEF j, n
    <3> QED
      BY <1>1, <1>2
  <2> QED
    BY <2>1, <2>2
<1>8. AckedInv'
  BY <1>1, <1>4, <1>5, <1>7, AckedCarries
<1>9. WholeTo(disk', j.start) /\ ClosedTo(disk', j.start)
  <2>1. WholeTo(disk, j.start) /\ ClosedTo(disk, j.start)
    BY <1>3 DEF JobInv
  <2> QED
    BY <1>1, <1>7, <2>1, CarryPrefix
<1>10. /\ DOMAIN job'[p] = DOMAIN j /\ job'[p].frames = j.frames /\ job'[p].start = j.start
       /\ job'[p].written = j.written + 1
  BY <1>3, <1>4 DEF JobInv
<1>11. JobInv(job[p], next_sequence[p])'
  <2>1. \A i \in (j.start + 1)..Len(disk') : disk'[i].frame = j.frames[i - j.start]
    <3> SUFFICES ASSUME NEW i \in (j.start + 1)..n
                 PROVE  disk'[i].frame = j.frames[i - j.start]
      BY <1>5
    <3>1. i \in 1..n
      <4> HIDE DEF j, n
      <4> QED
        BY <1>1
    <3> QED
      BY <1>3, <1>5, <3>1 DEF JobInv
  <2>2. j.start <= Len(disk') /\ Len(disk') <= j.start + Len(j.frames) /\ Len(acked) <= j.start
    <3>1. Len(disk') = n
      BY <1>5
    <3> HIDE DEF j, n
    <3> QED
      BY <1>1, <1>2, <3>1
  <2>3. j.written + 1 \in Nat
    BY <1>1
  <2> QED
    BY <1>3, <1>4, <1>9, <1>10, <2>1, <2>2, <2>3 DEF JobInv
<1>12. /\ Len(disk') = job'[p].start + job'[p].written
       /\ WholeTo(disk', Len(disk'))
       /\ pc'[p] = "write" => job'[p].written < Len(job'[p].frames)
       /\ pc'[p] = "sync" => job'[p].written = Len(job'[p].frames)
       /\ pc'[p] \in {"write", "sync"}
  <2>1. Len(disk') = n /\ WholeTo(disk', n)
    BY <1>5
  <2>2. n = j.start + (j.written + 1)
    <3> HIDE DEF j, n
    <3> QED
      BY <1>1, <1>2
  <2>3. j.written + 1 # Len(j.frames) => j.written + 1 < Len(j.frames)
    <3> HIDE DEF j, n
    <3> QED
      BY <1>1, <1>2
  <2> QED
    BY <1>4, <1>10, <2>1, <2>2, <2>3
<1>13. WriterAt(p)'
  BY <1>11, <1>12 DEF WriterAt
<1> QED
  BY <1>1, <1>4, <1>6, <1>8, <1>13, WriterStep DEF StoreInv

(* A write or sync that fails goes on to the rollback. *)
LEMMA FaultStore ==
    ASSUME HandlesInv, HandlesInv', StoreInv, NEW p \in Proc,
           pc[p] \in {"write", "payload", "sync"}, WriteFault(p) \/ SyncFault(p)
    PROVE  StoreInv'
<1>1. /\ pc'[p] = "rollback"
      /\ UNCHANGED <<magic, disk, synced, lease, acked, next_sequence, job>>
  BY DEF WriteFault, SyncFault, HandlesInv, file
<1>2. lease = p /\ JobInv(job[p], next_sequence[p])
  BY Writing
<1>3. DiskInv' /\ AckedInv'
  BY <1>1 DEF StoreInv, DiskInv, AckedInv
<1>4. JobInv(job[p], next_sequence[p])'
  BY <1>1, <1>2 DEF JobInv
<1>5. WriterAt(p)'
  BY <1>1, <1>4 DEF WriterAt
<1> QED
  BY <1>1, <1>2, <1>3, <1>5, WriterStep DEF StoreInv

(* After a sync the whole log is acknowledged; it is closed because the    *)
(* frames of a cell end in its commit membrane.                            *)
LEMMA SyncStore ==
    ASSUME HandlesInv, HandlesInv', StoreInv, NEW p \in Proc, Sync(p)
    PROVE  StoreInv'
<1> DEFINE j == job[p]
           n == Len(disk)
<1>1. /\ lease = p /\ LogInv(disk) /\ n \in Nat /\ j.start \in Nat /\ Len(j.frames) \in Nat
  BY Writing DEF Sync
<1>2. n = j.start + Len(j.frames) /\ WholeTo(disk, n)
  BY Writing DEF Sync, WriterAt
<1>3. JobInv(j, next_sequence[p])
  BY Writing DEF Sync
<1>4. ClosedTo(disk, n)
  <2> SUFFICES ASSUME NEW i \in 1..n, disk[i].frame.kind = "begin"
               PROVE  \E k \in i..n : disk[k].frame.kind = "commit"
    BY DEF ClosedTo
  <2>1. CASE i <= j.start
    <3>1. PICK k \in i..j.start : disk[k].frame.kind = "commit"
      BY <1>1, <1>3, <2>1 DEF JobInv, ClosedTo
    <3> QED
      BY <1>1, <1>2, <3>1
  <2>2. CASE i > j.start
    <3>1. i - j.start \in 1..Len(j.frames) /\ disk[i].frame = j.frames[i - j.start]
      BY <1>1, <1>2, <1>3, <2>2, SMTT(40) DEF JobInv
    <3>2. Len(j.frames) > 0 /\ j.frames[Len(j.frames)].kind = "commit"
      BY <1>3, <3>1 DEF JobInv, FramesInv
    <3>3. disk[n].frame = j.frames[Len(j.frames)]
      <4>1. n \in (j.start + 1)..n /\ n - j.start = Len(j.frames)
        BY <1>1, <1>2, <3>2
      <4> QED
        BY <1>3, <4>1 DEF JobInv
    <3> QED
      BY <1>1, <3>2, <3>3
  <2> QED
    BY <1>1, <2>1, <2>2
<1>5. /\ pc'[p] = "ready" /\ UNCHANGED <<disk, lease>> /\ acked' = disk /\ synced' = n
      /\ next_sequence'[p] = next_sequence[p] + Len(j.frames) /\ magic' = "durable"
  BY DEF Sync, SyncData, HandlesInv
<1>6. DiskInv' /\ AckedInv'
  BY <1>1, <1>2, <1>4, <1>5 DEF DiskInv, LogInv, AckedInv
<1>7. next_sequence'[p] = n
  BY <1>2, <1>3, <1>5 DEF JobInv
<1>8. WriterAt(p)'
  BY <1>2, <1>4, <1>5, <1>7 DEF WriterAt
<1> QED
  BY <1>1, <1>5, <1>6, <1>8, WriterStep DEF StoreInv

LEMMA RollbackStore ==
    ASSUME HandlesInv, HandlesInv', StoreInv, NEW p \in Proc, Rollback(p)
    PROVE  StoreInv'
<1> DEFINE n == job[p].start
<1>1. lease = p /\ n \in Nat /\ n <= Len(disk) /\ Len(acked) <= n
      /\ JobInv(job[p], next_sequence[p])
  BY Writing DEF Rollback
<1>2. next_sequence[p] = n /\ WholeTo(disk, n) /\ ClosedTo(disk, n)
  BY <1>1 DEF JobInv
<1>3. /\ Truncate(n) /\ UNCHANGED <<lease, acked, next_sequence>> /\ magic' = "durable"
      /\ pc'[p] = "ready"
  BY DEF Rollback, HandlesInv
<1> HIDE DEF n
<1>4. /\ DiskInv' /\ AckedInv' /\ Len(disk') = n
      /\ WholeTo(disk', n) /\ ClosedTo(disk', n)
  BY <1>1, <1>2, <1>3, TruncateStore
<1>5. WriterAt(p)'
  BY <1>2, <1>3, <1>4 DEF WriterAt
<1> QED
  BY <1>1, <1>3, <1>4, <1>5, WriterStep DEF StoreInv

(* What was acknowledged was synced, and a power loss keeps at least that. *)
LEMMA PowerLossStore ==
    ASSUME HandlesInv, StoreInv, PowerLoss
    PROVE  StoreInv'
<1>1. lease' = Nobody
  BY DEF PowerLoss, Release, Unlocked, HandlesInv
<1>2. WriterInv'
  BY <1>1, ProcAssumption DEF WriterInv
<1>3. /\ LogInv(disk) /\ Len(disk) \in Nat /\ IsSeq(acked) /\ Len(acked) \in Nat
      /\ synced \in Nat /\ Len(acked) <= synced /\ synced <= Len(disk) /\ acked' = acked
  BY DEF StoreInv, DiskInv, LogInv, AckedInv, IsSeq, PowerLoss
<1>4. CASE magic = "cached" /\ disk' = <<>> /\ synced' = 0
  <2>1. acked = <<>>
    BY <1>4 DEF StoreInv, AckedInv
  <2> QED
    BY <1>2, <1>3, <1>4, <2>1
       DEF StoreInv, DiskInv, LogInv, AckedInv, IsSeq, WholeTo, ClosedTo
(* What remains is an extension of what was acknowledged. *)
<1>5. ASSUME NEW k \in synced..Len(disk), LogInv(disk'), k <= synced', synced' = Len(disk'),
             \A i \in 1..k : disk'[i] = disk[i],
             magic' \in {"none", "cached"} => magic \in {"none", "cached"}
      PROVE  StoreInv'
  <2>1. \A i \in 1..Len(acked) : disk[i] = disk'[i]
    BY <1>3, <1>5
  <2>2. WholeTo(disk', Len(acked)) /\ ClosedTo(disk', Len(acked))
    BY <1>3, <2>1, CarryPrefix DEF StoreInv, AckedInv
  <2>3. Len(disk') \in Nat
    BY <1>5 DEF LogInv, IsSeq
  <2>4. AckedInv'
    BY <1>3, <1>5, <2>1, <2>2, <2>3 DEF StoreInv, AckedInv
  <2> QED
    BY <1>2, <1>5, <2>4 DEF StoreInv, DiskInv
<1>6. ASSUME NEW k \in synced..Len(disk), disk' = SubSeq(disk, 1, k), synced' = k,
             magic' \in {"none", "cached"} => magic \in {"none", "cached"}
      PROVE  StoreInv'
  <2>1. k \in 0..Len(disk)
    BY <1>3, <1>6
  <2>2. LogInv(disk') /\ Len(disk') = k /\ \A i \in 1..k : disk'[i] = disk[i]
    BY <1>3, <1>6, <2>1, LogPrefix
  <2> QED
    BY <1>3, <1>5, <1>6, <2>2
<1>7. ASSUME NEW k \in synced..Len(disk), k < Len(disk), synced' = k + 1,
             disk' = Append(SubSeq(disk, 1, k), Chunk(disk[k + 1].frame, FALSE, 1)),
             magic' \in {"none", "cached"} => magic \in {"none", "cached"}
      PROVE  StoreInv'
  <2> DEFINE d == SubSeq(disk, 1, k)
             x == Chunk(disk[k + 1].frame, FALSE, 1)
  <2>1. k \in 0..Len(disk) /\ k \in Nat /\ k + 1 \in 1..Len(disk)
    BY <1>3, <1>7
  <2>2. LogInv(d) /\ Len(d) = k /\ \A i \in 1..k : d[i] = disk[i]
    BY <1>3, <2>1, LogPrefix
  <2>3. WholeTo(d, k)
    <3> HIDE DEF d
    <3> QED
      BY <1>3, <1>7, <2>1, <2>2 DEF LogInv, WholeTo
  <2>4. /\ x.frame = disk[k + 1].frame /\ x.whole \in BOOLEAN
        /\ DOMAIN x = {"frame", "whole", "need"}
    BY DEF Chunk
  <2>5. x.frame.sequence = k
    <3>1. disk[k + 1].frame.sequence = (k + 1) - 1
      BY <1>3, <2>1 DEF LogInv
    <3>2. (k + 1) - 1 = k
      BY <2>1
    <3>3. x.frame = disk[k + 1].frame
      BY <2>4
    <3> QED
      BY <3>1, <3>2, <3>3, Zenon
  <2>6. disk' = Append(d, x)
    BY <1>7
  <2> HIDE DEF d, x
  <2>7. LogInv(disk') /\ Len(disk') = k + 1 /\ \A i \in 1..k : disk'[i] = d[i]
    <3>1. WholeTo(d, Len(d)) /\ x.frame.sequence = Len(d)
      BY <2>2, <2>3, <2>5
    <3>2. /\ LogInv(Append(d, x)) /\ Len(Append(d, x)) = Len(d) + 1
          /\ \A i \in 1..Len(d) : Append(d, x)[i] = d[i]
      BY <2>2, <2>4, <3>1, LogAppend
    <3> QED
      BY <2>2, <2>6, <3>2
  <2>8. \A i \in 1..k : disk'[i] = disk[i]
    BY <2>2, <2>7
  <2>9. k <= synced' /\ synced' = Len(disk')
    BY <1>7, <2>1, <2>7
  <2> QED
    BY <1>5, <1>7, <2>7, <2>8, <2>9
<1> QED
  BY <1>4, <1>6, <1>7 DEF PowerLoss

-----------------------------------------------------------------------------
(* All steps together, while set_len works. *)

LEMMA CallStore ==
    ASSUME HandlesInv, HandlesInv', StoreInv, NEW p \in Proc, Call(p)
    PROVE  StoreInv'
<1>1. CASE UNCHANGED vars
  BY <1>1, NoStep
<1>2. CASE OpenWriter(p)
  BY <1>2, StartScanStore DEF OpenWriter
<1>3. CASE CreateStore(p)
  <2>1. DiskInv' /\ AckedInv' /\ lease' = p /\ pc'[p] = "magic"
    BY <1>3 DEF CreateStore, StoreInv, DiskInv, AckedInv, HandlesInv
  <2>2. WriterAt(p)'
    BY <2>1 DEF WriterAt
  <2> QED
    BY <2>1, <2>2, WriterStep DEF StoreInv
<1>4. CASE CreateStoreFault(p)
  BY <1>4, Bystander, SyncedBounds DEF CreateStoreFault
<1>5. CASE OpenReadOnly(p)
  <2>1. lease # p
    BY <1>5 DEF OpenReadOnly, HandlesInv
  <2> QED
    BY <1>5, <2>1, ReaderStep DEF OpenReadOnly, StartScan, HandlesInv, file
<1>6. CASE Refresh(p)
  <2>1. lease # p
    BY <1>6 DEF Refresh, HandlesInv
  <2> QED
    BY <1>6, <2>1, ReaderStep DEF Refresh, StartScan, HandlesInv, file
<1>7. CASE Flush(p)
  BY <1>7, Bystander, SyncedBounds DEF Flush, SyncData, StoreInv, DiskInv, LogInv, IsSeq
<1>8. CASE Close(p)
  BY <1>8, ReleaseStore DEF Close
<1>9. ASSUME ReadyWriter(p)
      PROVE  next_sequence[p] \in Nat
  BY <1>9, OneWriter DEF ReadyWriter, StoreInv, WriterInv, WriterAt, DiskInv, LogInv, IsSeq
<1>10. ASSUME NEW bytes \in Bytes, PutAtom(p, bytes) PROVE StoreInv'
  BY <1>1, <1>9, <1>10, SingleFrame, StartWriteStore DEF PutAtom
<1>11. ASSUME NEW bond \in Bonds, PutBond(p, bond) PROVE StoreInv'
  BY <1>1, <1>9, <1>11, SingleFrame, StartWriteStore DEF PutBond
<1>12. ASSUME NEW cell \in Cells, CommitCell(p, cell) PROVE StoreInv'
  BY <1>1, <1>9, <1>12, CellFramesShape, StartWriteStore DEF CommitCell
<1> QED
  BY <1>1, <1>2, <1>3, <1>4, <1>5, <1>6, <1>7, <1>8, <1>10, <1>11, <1>12
     DEF Call, OpenBusy, OpenRejected, Refuse

LEMMA ScanStore ==
    ASSUME HandlesInv, HandlesInv', StoreInv, NEW p \in Proc, Scan(p)
    PROVE  StoreInv'
<1>1. CASE ScanFrame(p) /\ lease # p
  BY <1>1, ReaderStep, ZenonT(60) DEF ScanFrame, HandlesInv, file
<1>2. CASE ScanFrame(p) /\ lease = p
  BY <1>2, ScanFrameStore
<1>3. CASE ScanCorrupt(p) \/ ScanEof(p)
  BY <1>3, FailStore DEF ScanCorrupt, ScanEof
<1>4. CASE (ScanClean(p) \/ ScanProvisional(p)) /\ lease # p
  BY <1>4, ReaderStep DEF ScanClean, ScanProvisional, Finish, HandlesInv, file
<1>5. CASE ScanClean(p) /\ lease = p
  BY <1>5, ScanCleanStore
<1>6. CASE ScanProvisional(p) /\ lease = p
  BY <1>6 DEF ScanProvisional, HandlesInv
<1>7. CASE Repair(p)
  BY <1>7, RepairStore, OneWriter DEF Repair
<1>8. CASE RepairFault(p)
  BY <1>8, ReleaseStore DEF RepairFault
<1> QED
  BY <1>1, <1>2, <1>3, <1>4, <1>5, <1>6, <1>7, <1>8 DEF Scan

LEMMA WriteStore ==
    ASSUME HandlesInv, HandlesInv', StoreInv, NEW p \in Proc, Write(p),
           "rollback" \notin Failures
    PROVE  StoreInv'
<1>1. CASE WriteFault(p) \/ SyncFault(p)
  BY <1>1, FaultStore DEF WriteFault, SyncFault
<1>2. CASE RollbackFault(p)
  BY <1>2 DEF RollbackFault, HandlesInv
<1> QED
  BY <1>1, <1>2, WriteHeaderStore, WritePayloadStore, SyncStore, RollbackStore DEF Write

(* The invariant of the file and its writer is inductive while set_len    *)
(* works.                                                                  *)
THEOREM FileInductive ==
    ASSUME "rollback" \notin Failures
    PROVE  (Init => FileInv) /\ (FileInv /\ [Next]_vars => FileInv')
<1>1. Init => FileInv
  BY HandlesInit, StoreInit DEF FileInv
<1>2. ASSUME HandlesInv, StoreInv, [Next]_vars
      PROVE  HandlesInv' /\ StoreInv'
  <2>1. HandlesInv'
    BY <1>2, HandlesStep
  <2>2. CASE UNCHANGED vars
    BY <1>2, <2>1, <2>2, NoStep
  <2>3. ASSUME NEW p \in Proc, Call(p) \/ Scan(p) \/ Write(p)
        PROVE  StoreInv'
    BY <1>2, <2>1, <2>3, CallStore, ScanStore, WriteStore
  <2>4. ASSUME NEW p \in Proc, SyncMagic(p)
        PROVE  StoreInv'
    BY <1>2, <2>1, <2>4, StartScanStore, OneWriter DEF SyncMagic
  <2>5. ASSUME NEW p \in Proc, Crash(p) \/ SyncMagicFault(p)
        PROVE  StoreInv'
    BY <1>2, <2>5, ReleaseStore DEF Crash, SyncMagicFault
  <2>6. CASE PowerLoss
    BY <1>2, <2>1, <2>6, PowerLossStore
  <2> QED
    BY <1>2, <2>1, <2>2, <2>3, <2>4, <2>5, <2>6 DEF Next
<1> QED
  BY <1>1, <1>2 DEF FileInv

-----------------------------------------------------------------------------
(* The theorems.                                                           *)

(* The lock names the one writer, and only the writer writes: no state of  *)
(* any two handles has both in a write, whatever is opened, crashes or     *)
(* fails - even when a rollback fails (OBSERVER-LEASES, laws 1 and 2).     *)
THEOREM SpecSingleWriter == Spec => []SingleWriter
<1>1. Init => HandlesInv
  BY HandlesInit
<1>2. HandlesInv /\ [Next]_vars => HandlesInv'
  BY HandlesStep
<1>3. HandlesInv => SingleWriter
  BY ProcAssumption DEF HandlesInv, SingleWriter
<1> QED
  BY <1>1, <1>2, <1>3, PTL DEF Spec

(* While set_len works the file and its writer are in order in every       *)
(* state.                                                                  *)
THEOREM SpecFile ==
    ASSUME "rollback" \notin Failures
    PROVE  Spec => []FileInv
<1>1. (Init => FileInv) /\ (FileInv /\ [Next]_vars => FileInv')
  BY FileInductive
<1> QED
  BY <1>1, PTL DEF Spec

(* Sequence numbers in the file are contiguous and only its end is torn,   *)
(* for any number of processes, frames and other faults.                   *)
THEOREM SpecSequencesContiguous ==
    ASSUME "rollback" \notin Failures
    PROVE  Spec => []SequencesContiguous
<1>1. FileInv => SequencesContiguous
  BY DEF FileInv, StoreInv, DiskInv, LogInv, SequencesContiguous, FrameAt
<1>2. Spec => []FileInv
  BY SpecFile
<1> QED
  BY <1>1, <1>2, PTL

(* No acknowledged write is lost or changed by rollback, repair, a crash   *)
(* or a power loss.                                                        *)
THEOREM SpecAcknowledgedSurvives ==
    ASSUME "rollback" \notin Failures
    PROVE  Spec => []AcknowledgedSurvives
<1>1. FileInv => AcknowledgedSurvives
  <2> SUFFICES ASSUME FileInv PROVE AcknowledgedSurvives
    OBVIOUS
  <2> DEFINE n == Len(acked)
  <2>1. LogInv(disk) /\ IsSeq(disk) /\ Len(disk) \in Nat /\ IsSeq(acked) /\ n \in Nat
        /\ n <= Len(disk) /\ \A i \in 1..n : acked[i] = disk[i]
    BY DEF FileInv, StoreInv, DiskInv, LogInv, AckedInv, IsSeq
  <2>2. n \in 0..Len(disk)
    BY <2>1
  <2>3. /\ IsSeq(SubSeq(disk, 1, n)) /\ Len(SubSeq(disk, 1, n)) = n
        /\ \A i \in 1..n : SubSeq(disk, 1, n)[i] = disk[i]
    BY <2>1, <2>2, PrefixSeq
  <2>4. SubSeq(disk, 1, n) = acked
    BY <2>1, <2>3 DEF IsSeq
  <2> QED
    BY <2>1, <2>4 DEF AcknowledgedSurvives, IsPrefix
<1>2. Spec => []FileInv
  BY SpecFile
<1> QED
  BY <1>1, <1>2, PTL

(* A ready writer knows the whole file.                                    *)
THEOREM SpecWriterAtFrontier ==
    ASSUME "rollback" \notin Failures
    PROVE  Spec => []WriterAtFrontier
<1>1. FileInv => WriterAtFrontier
  BY OneWriter DEF FileInv, StoreInv, WriterInv, WriterAt, WriterAtFrontier, ReadyWriter
<1>2. Spec => []FileInv
  BY SpecFile
<1> QED
  BY <1>1, <1>2, PTL

-----------------------------------------------------------------------------
(* The indexes. *)

(* Identities grow by their predecessor: a repeated one would have a       *)
(* repeated predecessor, and the first pair that repeats has none.         *)
LEMMA IdentitiesDiffer ==
    ASSUME NEW versions, NEW n, VersionsInv(versions, n) PROVE Distinct(versions)
<1> DEFINE id(k) == versions[k].identity
           twice == {k \in 1..Len(versions) : \E j \in 1..(k - 1) : id(j) = id(k)}
<1>1. Len(versions) \in Nat
  BY DEF VersionsInv, IsSeq
<1>2. \A k \in 1..Len(versions) : id(k) # None /\ id(k)[2][2] = versions[k].previous_version
  BY DEF VersionsInv
<1>3. \A k \in 1..Len(versions) :
         versions[k].previous_version = IF k = 1 THEN None ELSE id(k - 1)
  BY DEF VersionsInv, Chained
<1> SUFFICES ASSUME twice # {} PROVE FALSE
  BY DEF Distinct
<1>4. twice \subseteq Nat
  BY <1>1
<1>5. PICK k \in twice : \A m \in twice : k <= m
  BY <1>4, LeastNatural
<1>6. PICK j \in 1..(k - 1) : id(j) = id(k)
  OBVIOUS
<1>7. /\ k \in 1..Len(versions) /\ k # 1 /\ k - 1 \in 1..Len(versions)
      /\ j \in 1..Len(versions)
  BY <1>1
<1> HIDE DEF id
<1>8. versions[j].previous_version = id(k - 1) /\ id(k - 1) # None
  BY <1>2, <1>3, <1>6, <1>7
<1>9. j # 1 /\ id(j - 1) = id(k - 1)
  BY <1>3, <1>7, <1>8
<1>10. j - 1 \in 1..((k - 1) - 1)
  BY <1>6, <1>7, <1>9
<1>11. k - 1 \in twice
  BY <1>7, <1>9, <1>10
<1>12. k <= k - 1
  BY <1>5, <1>11
<1> QED
  BY <1>7, <1>12

(* Every version is visible to a snapshot taken late enough.               *)
LEMMA SnapshotOfAll ==
    ASSUME NEW view, NEW n \in Nat, IndexInv(view, n)
    PROVE  snapshot_at(view, n) = view.roots
<1> DEFINE visible(name) ==
               {k \in 1..Len(view.root_history[name]) :
                   view.root_history[name][k].commit_sequence < n}
           current(name) ==
               IF visible(name) = {} THEN None ELSE view.root_history[name][Max(visible(name))].target
           shown == {name \in DOMAIN view.root_history : current(name) # None}
<1>1. snapshot_at(view, n) = [name \in shown |-> current(name)]
  BY DEF snapshot_at
<1>2. ASSUME NEW name \in DOMAIN view.root_history
      PROVE  current(name) = Get(view.roots, name, None)
  <2> DEFINE versions == view.root_history[name]
  <2>1. VersionsInv(versions, n)
    BY DEF IndexInv
  <2>2. visible(name) = 1..Len(versions) /\ Len(versions) \in Nat /\ Len(versions) > 0
    BY <2>1 DEF VersionsInv, IsSeq
  <2>3. Max(1..Len(versions)) = Len(versions)
    <3>1. /\ 1..Len(versions) \subseteq Int /\ Len(versions) \in 1..Len(versions)
          /\ \A x \in 1..Len(versions) : x <= Len(versions)
      BY <2>2
    <3> HIDE DEF versions
    <3> QED
      BY <3>1, MaxOf
  <2>4. visible(name) # {}
    BY <2>2
  <2>5. current(name) = versions[Len(versions)].target
    BY <2>2, <2>3, <2>4
  <2> QED
    BY <2>5 DEF IndexInv, ClosedUnderReference
<1>3. \A name \in DOMAIN view.roots : name \in DOMAIN view.root_history /\ view.roots[name] # None
  BY DEF IndexInv
<1> HIDE DEF current, visible
<1>4. shown = DOMAIN view.roots
  BY <1>2, <1>3 DEF Get
<1>5. \A name \in DOMAIN view.roots : current(name) = view.roots[name]
  BY <1>2, <1>3 DEF Get
<1> HIDE DEF shown
<1>6. [name \in shown |-> current(name)] = [name \in DOMAIN view.roots |-> view.roots[name]]
  BY <1>4, <1>5
<1>7. view.roots = [name \in DOMAIN view.roots |-> view.roots[name]]
  BY DEF IndexInv, IsMap
<1> QED
  BY <1>1, <1>6, <1>7

IndexFields == {"atoms", "bonds", "outgoing", "roots", "root_history",
                "committed_cells", "root_updates"}

LEMMA AtomInserted ==
    ASSUME NEW view, DOMAIN view = IndexFields, NEW id, NEW location
    PROVE  LET after == InsertAtom(view, id, location) IN
           /\ DOMAIN after = IndexFields
           /\ DOMAIN after.atoms = DOMAIN view.atoms \cup {id}
           /\ after.bonds = view.bonds /\ after.outgoing = view.outgoing
           /\ after.roots = view.roots /\ after.root_history = view.root_history
  BY DEF InsertAtom, IndexFields, Insert

LEMMA BondInserted ==
    ASSUME NEW view, DOMAIN view = IndexFields, NEW bond
    PROVE  LET after == InsertBond(view, bond) IN
           /\ DOMAIN after = IndexFields
           /\ after.atoms = view.atoms /\ after.bonds = view.bonds \cup {bond}
           /\ after.outgoing = Insert(view.outgoing, bond[1],
                                      Append(Get(view.outgoing, bond[1], <<>>), bond))
           /\ after.roots = view.roots /\ after.root_history = view.root_history
  BY DEF InsertBond, IndexFields

(* More atoms, and nothing else but counters. *)
LEMMA AtomsKeepIndex ==
    ASSUME NEW view, NEW n, IndexInv(view, n), NEW after, DOMAIN after = IndexFields,
           DOMAIN view.atoms \subseteq DOMAIN after.atoms,
           after.bonds = view.bonds, after.outgoing = view.outgoing,
           after.roots = view.roots, after.root_history = view.root_history
    PROVE  IndexInv(after, n)
<1>1. ClosedUnderReference(after)
  <2>1. ClosedUnderReference(view)
    BY DEF IndexInv
  <2> QED
    BY <2>1 DEF ClosedUnderReference, validate_bond_members, contains_atom, contains_fact
<1> QED
  BY <1>1 DEF IndexInv, IndexFields

LEMMA BondKeepsIndex ==
    ASSUME NEW view, NEW n, IndexInv(view, n), NEW bond, bond \notin view.bonds,
           validate_bond_members(view, bond, {})
    PROVE  IndexInv(InsertBond(view, bond), n)
<1> DEFINE after == InsertBond(view, bond)
           old == Get(view.outgoing, bond[1], <<>>)
           out == Append(old, bond)
<1>1. /\ DOMAIN after = IndexFields
      /\ after.atoms = view.atoms /\ after.bonds = view.bonds \cup {bond}
      /\ after.outgoing = Insert(view.outgoing, bond[1], out)
      /\ after.roots = view.roots /\ after.root_history = view.root_history
  BY BondInserted DEF IndexInv, IndexFields
<1>2. /\ ClosedUnderReference(view)
      /\ \A source \in DOMAIN view.outgoing : /\ IsSeq(view.outgoing[source])
                                              /\ IsFiniteSet(ToSet(view.outgoing[source]))
  BY DEF IndexInv
<1>3. /\ IsSeq(old) /\ IsFiniteSet(ToSet(old)) /\ Len(old) = Cardinality(ToSet(old))
      /\ ToSet(old) = {b \in view.bonds : b[1] = bond[1]}
  <2>1. CASE bond[1] \in DOMAIN view.outgoing
    BY <1>2, <2>1 DEF Get, ClosedUnderReference
  <2>2. CASE bond[1] \notin DOMAIN view.outgoing
    <3>1. old = <<>>
      BY <2>2 DEF Get
    <3>2. ToSet(old) = {} /\ IsSeq(old) /\ Len(old) = 0
      BY <3>1 DEF ToSet, IsSeq
    <3>3. {b \in view.bonds : b[1] = bond[1]} = {}
      BY <1>2, <2>2 DEF ClosedUnderReference
    <3> QED
      BY <3>2, <3>3, FS_EmptySet
  <2> QED
    BY <2>1, <2>2
<1> HIDE DEF old
<1>4. /\ IsSeq(out) /\ Len(out) = Len(old) + 1 /\ out[Len(old) + 1] = bond
      /\ \A i \in 1..Len(old) : out[i] = old[i]
  <2>1. IsSeq(old)
    BY <1>3
  <2>2. /\ IsSeq(Append(old, bond)) /\ Len(Append(old, bond)) = Len(old) + 1
        /\ Append(old, bond)[Len(old) + 1] = bond
        /\ \A i \in 1..Len(old) : Append(old, bond)[i] = old[i]
    BY <2>1, AppendSeq
  <2> QED
    BY <2>2, Zenon
<1> HIDE DEF out
<1>5. ToSet(out) = ToSet(old) \cup {bond}
  <2>1. Len(old) \in Nat /\ DOMAIN old = 1..Len(old) /\ DOMAIN out = 1..Len(out)
    BY <1>3, <1>4 DEF IsSeq
  <2>2. DOMAIN out = DOMAIN old \cup {Len(old) + 1}
    BY <1>4, <2>1
  <2> QED
    BY <1>4, <2>1, <2>2 DEF ToSet
<1>6. bond \notin ToSet(old)
  BY <1>3
<1>7. IsFiniteSet(ToSet(out)) /\ Len(out) = Cardinality(ToSet(out))
  <2>1. /\ IsFiniteSet(ToSet(old) \cup {bond})
        /\ Cardinality(ToSet(old) \cup {bond}) = Cardinality(ToSet(old)) + 1
    BY <1>3, <1>6, FS_AddElement
  <2> QED
    BY <1>3, <1>4, <1>5, <2>1
<1>8. ToSet(out) = {b \in view.bonds \cup {bond} : b[1] = bond[1]}
  BY <1>3, <1>5
<1>9. /\ DOMAIN after.outgoing = DOMAIN view.outgoing \cup {bond[1]}
      /\ after.outgoing[bond[1]] = out
      /\ \A source \in DOMAIN view.outgoing :
            source # bond[1] => after.outgoing[source] = view.outgoing[source]
  BY <1>1 DEF Insert
<1> HIDE DEF after
<1>10. ClosedUnderReference(after)
  <2>1. \A b \in after.bonds : validate_bond_members(after, b, {})
    BY <1>1, <1>2 DEF ClosedUnderReference, validate_bond_members, contains_atom
  <2>2. \A source \in DOMAIN after.outgoing :
           /\ ToSet(after.outgoing[source]) = {b \in after.bonds : b[1] = source}
           /\ Len(after.outgoing[source]) = Cardinality(ToSet(after.outgoing[source]))
    <3> SUFFICES ASSUME NEW source \in DOMAIN after.outgoing
                 PROVE  /\ ToSet(after.outgoing[source]) = {b \in after.bonds : b[1] = source}
                        /\ Len(after.outgoing[source]) =
                              Cardinality(ToSet(after.outgoing[source]))
      OBVIOUS
    <3>1. CASE source = bond[1]
      BY <1>1, <1>7, <1>8, <1>9, <3>1
    <3>2. CASE source # bond[1]
      <4>1. source \in DOMAIN view.outgoing /\ after.outgoing[source] = view.outgoing[source]
        BY <1>9, <3>2
      <4>2. {b \in after.bonds : b[1] = source} = {b \in view.bonds : b[1] = source}
        BY <1>1, <3>2
      <4> QED
        BY <1>2, <4>1, <4>2 DEF ClosedUnderReference
    <3> QED
      BY <3>1, <3>2
  <2>3. \A b \in after.bonds : b[1] \in DOMAIN after.outgoing
    BY <1>1, <1>2, <1>9 DEF ClosedUnderReference
  <2>4. \A name \in DOMAIN after.roots :
           contains_atom(after, name) /\ contains_fact(after, after.roots[name])
    BY <1>1, <1>2 DEF ClosedUnderReference, contains_atom, contains_fact
  <2>5. \A name \in DOMAIN after.root_history :
           Get(after.roots, name, None) =
               after.root_history[name][Len(after.root_history[name])].target
    BY <1>1, <1>2 DEF ClosedUnderReference
  <2> QED
    BY <2>1, <2>2, <2>3, <2>4, <2>5 DEF ClosedUnderReference
<1>11. \A source \in DOMAIN after.outgoing : /\ IsSeq(after.outgoing[source])
                                             /\ IsFiniteSet(ToSet(after.outgoing[source]))
  BY <1>2, <1>4, <1>7, <1>9
<1>12. IndexInv(after, n)
  BY <1>1, <1>10, <1>11 DEF IndexInv, IndexFields
<1> QED
  BY <1>12 DEF after

(* A version that follows the last. *)
LEMMA VersionFollows ==
    ASSUME NEW versions, NEW n, NEW version, IsSeq(versions),
           Len(versions) > 0 => VersionsInv(versions, n),
           version.previous_version =
               IF Len(versions) = 0 THEN None ELSE versions[Len(versions)].identity,
           version.previous =
               IF Len(versions) = 0 THEN None ELSE versions[Len(versions)].target,
           version.target # version.previous,
           version.identity # None, version.identity[2][2] = version.previous_version,
           version.commit_sequence \in Nat, version.commit_sequence < n
    PROVE  /\ VersionsInv(Append(versions, version), n)
           /\ Append(versions, version)[Len(Append(versions, version))] = version
<1> DEFINE after == Append(versions, version)
<1>1. /\ IsSeq(after) /\ Len(after) = Len(versions) + 1 /\ after[Len(versions) + 1] = version
      /\ \A i \in 1..Len(versions) : after[i] = versions[i]
  <2>1. /\ IsSeq(Append(versions, version)) /\ Len(Append(versions, version)) = Len(versions) + 1
        /\ Append(versions, version)[Len(versions) + 1] = version
        /\ \A i \in 1..Len(versions) : Append(versions, version)[i] = versions[i]
    BY AppendSeq
  <2> QED
    BY <2>1, Zenon
<1> HIDE DEF after
<1>2. Len(versions) \in Nat
  BY DEF IsSeq
<1>3. ASSUME NEW k \in 1..Len(after)
      PROVE  /\ after[k].previous_version = IF k = 1 THEN None ELSE after[k - 1].identity
             /\ after[k].previous = IF k = 1 THEN None ELSE after[k - 1].target
             /\ after[k].target # after[k].previous
             /\ after[k].identity # None
             /\ after[k].identity[2][2] = after[k].previous_version
             /\ after[k].commit_sequence \in Nat /\ after[k].commit_sequence < n
  <2>1. CASE k = Len(versions) + 1
    <3>1. after[k] = version
      BY <1>1, <2>1
    <3>2. k = 1 <=> Len(versions) = 0
      BY <1>2, <2>1
    <3>3. k # 1 => after[k - 1] = versions[Len(versions)]
      BY <1>1, <1>2, <2>1
    <3> QED
      BY <3>1, <3>2, <3>3
  <2>2. CASE k # Len(versions) + 1
    <3>1. k \in 1..Len(versions) /\ (k # 1 => k - 1 \in 1..Len(versions)) /\ Len(versions) > 0
      BY <1>1, <1>2, <2>2
    <3>2. after[k] = versions[k] /\ (k # 1 => after[k - 1] = versions[k - 1])
      BY <1>1, <3>1
    <3>3. VersionsInv(versions, n)
      BY <3>1
    <3> QED
      BY <3>1, <3>2, <3>3 DEF VersionsInv, Chained
  <2> QED
    BY <2>1, <2>2
<1>4. VersionsInv(after, n)
  BY <1>1, <1>2, <1>3 DEF VersionsInv, Chained
<1> QED
  BY <1>1, <1>4 DEF after

LEMMA RootKeepsIndex ==
    ASSUME NEW view, NEW n, IndexInv(view, n), NEW change, NEW sequence, NEW commit_sequence,
           NEW cell, commit_sequence \in Nat, commit_sequence < n,
           contains_atom(view, change[1]),
           change[4] = None \/ contains_fact(view, change[4]),
           change[3] = Get(view.roots, change[1], None),
           change[2] = LatestVersion(view, change[1]),
           change[3] # change[4]
    PROVE  IndexInv(apply_root(view, change, sequence, commit_sequence, cell), n)
<1> DEFINE after == apply_root(view, change, sequence, commit_sequence, cell)
           name == change[1]
           old == Get(view.root_history, name, <<>>)
           version == RootVersion(change, sequence, commit_sequence, cell)
           new == Append(old, version)
<1>1. /\ DOMAIN after = IndexFields
      /\ after.atoms = view.atoms /\ after.bonds = view.bonds
      /\ after.outgoing = view.outgoing
      /\ after.roots = IF change[4] = None THEN Without(view.roots, name)
                       ELSE Insert(view.roots, name, change[4])
      /\ after.root_history = Insert(view.root_history, name, new)
  <2>1. DOMAIN view = IndexFields
    BY DEF IndexInv, IndexFields
  <2> QED
    BY <2>1 DEF apply_root, IndexFields
<1>2. /\ ClosedUnderReference(view) /\ IsMap(view.roots)
      /\ \A r \in DOMAIN view.roots : r \in DOMAIN view.root_history /\ view.roots[r] # None
      /\ \A r \in DOMAIN view.root_history : VersionsInv(view.root_history[r], n)
  BY DEF IndexInv
<1>3. /\ IsSeq(old) /\ Len(old) \in Nat
      /\ Len(old) > 0 => VersionsInv(old, n)
      /\ Len(old) = 0 => name \notin DOMAIN view.root_history
      /\ Len(old) # 0 => name \in DOMAIN view.root_history /\ old = view.root_history[name]
  <2>1. CASE name \in DOMAIN view.root_history
    <3>1. old = view.root_history[name]
      BY <2>1 DEF Get
    <3>2. VersionsInv(old, n)
      BY <1>2, <2>1, <3>1
    <3>3. IsSeq(old) /\ Len(old) \in Nat /\ Len(old) > 0
      BY <3>2 DEF VersionsInv, IsSeq
    <3> QED
      BY <2>1, <3>1, <3>2, <3>3
  <2>2. CASE name \notin DOMAIN view.root_history
    <3>1. old = <<>>
      BY <2>2 DEF Get
    <3> QED
      BY <2>2, <3>1 DEF IsSeq
  <2> QED
    BY <2>1, <2>2
<1>4. change[3] = IF Len(old) = 0 THEN None ELSE old[Len(old)].target
  <2>1. CASE Len(old) = 0
    BY <1>2, <1>3, <2>1 DEF Get
  <2>2. CASE Len(old) # 0
    BY <1>2, <1>3, <2>2 DEF ClosedUnderReference
  <2> QED
    BY <2>1, <2>2
<1>5. change[2] = IF Len(old) = 0 THEN None ELSE old[Len(old)].identity
  <2>1. LatestVersion(view, name) = IF old = <<>> THEN None ELSE old[Len(old)].identity
    BY DEF LatestVersion
  <2>2. old = <<>> <=> Len(old) = 0
    BY <1>3 DEF IsSeq
  <2> QED
    BY <2>1, <2>2
<1>6. /\ version.identity = <<"root", change>> /\ version.previous_version = change[2]
      /\ version.previous = change[3] /\ version.target = change[4]
      /\ version.commit_sequence = commit_sequence
  BY DEF RootVersion, ChangeIdentity
<1>7. version.identity # None /\ version.identity[2][2] = version.previous_version
  BY <1>6 DEF None
<1> HIDE DEF version, old
<1>8. VersionsInv(new, n) /\ new[Len(new)] = version
  BY <1>3, <1>4, <1>5, <1>6, <1>7, VersionFollows
<1> HIDE DEF new
<1>9. /\ DOMAIN after.root_history = DOMAIN view.root_history \cup {name}
      /\ after.root_history[name] = new
      /\ \A r \in DOMAIN view.root_history :
            r # name => after.root_history[r] = view.root_history[r]
  BY <1>1 DEF Insert
<1>10. /\ IsMap(after.roots)
       /\ Get(after.roots, name, None) = change[4]
       /\ change[4] = None => DOMAIN after.roots = DOMAIN view.roots \ {name}
       /\ change[4] # None => DOMAIN after.roots = DOMAIN view.roots \cup {name}
       /\ \A r \in DOMAIN view.roots : r # name => after.roots[r] = view.roots[r]
       /\ change[4] # None => after.roots[name] = change[4]
  BY <1>1 DEF Insert, Without, Get, IsMap
<1> HIDE DEF after
<1>11. ClosedUnderReference(after)
  <2>1. \A b \in after.bonds : validate_bond_members(after, b, {})
    BY <1>1, <1>2 DEF ClosedUnderReference, validate_bond_members, contains_atom
  <2>2. /\ \A source \in DOMAIN after.outgoing :
              /\ ToSet(after.outgoing[source]) = {b \in after.bonds : b[1] = source}
              /\ Len(after.outgoing[source]) = Cardinality(ToSet(after.outgoing[source]))
        /\ \A b \in after.bonds : b[1] \in DOMAIN after.outgoing
    BY <1>1, <1>2 DEF ClosedUnderReference
  <2>3. \A r \in DOMAIN after.roots : contains_atom(after, r) /\ contains_fact(after, after.roots[r])
    <3> SUFFICES ASSUME NEW r \in DOMAIN after.roots
                 PROVE  contains_atom(after, r) /\ contains_fact(after, after.roots[r])
      OBVIOUS
    <3>1. CASE r = name
      BY <1>1, <1>10, <3>1 DEF contains_atom, contains_fact
    <3>2. CASE r # name
      <4>1. r \in DOMAIN view.roots /\ after.roots[r] = view.roots[r]
        BY <1>10, <3>2
      <4> QED
        BY <1>1, <1>2, <4>1 DEF ClosedUnderReference, contains_atom, contains_fact
    <3> QED
      BY <3>1, <3>2
  <2>4. \A r \in DOMAIN after.root_history :
           Get(after.roots, r, None) = after.root_history[r][Len(after.root_history[r])].target
    <3> SUFFICES ASSUME NEW r \in DOMAIN after.root_history
                 PROVE  Get(after.roots, r, None) =
                            after.root_history[r][Len(after.root_history[r])].target
      OBVIOUS
    <3>1. CASE r = name
      BY <1>6, <1>8, <1>9, <1>10, <3>1
    <3>2. CASE r # name
      <4>1. r \in DOMAIN view.root_history /\ after.root_history[r] = view.root_history[r]
        BY <1>9, <3>2
      <4>2. Get(after.roots, r, None) = Get(view.roots, r, None)
        BY <1>10, <3>2 DEF Get
      <4> QED
        BY <1>2, <4>1, <4>2 DEF ClosedUnderReference
    <3> QED
      BY <3>1, <3>2
  <2> QED
    BY <2>1, <2>2, <2>3, <2>4 DEF ClosedUnderReference
<1>12. \A r \in DOMAIN after.roots : r \in DOMAIN after.root_history /\ after.roots[r] # None
  BY <1>2, <1>9, <1>10
<1>13. \A r \in DOMAIN after.root_history : VersionsInv(after.root_history[r], n)
  BY <1>2, <1>8, <1>9
<1>14. \A source \in DOMAIN after.outgoing : /\ IsSeq(after.outgoing[source])
                                             /\ IsFiniteSet(ToSet(after.outgoing[source]))
  BY <1>1 DEF IndexInv
<1>15. IndexInv(after, n)
  BY <1>1, <1>10, <1>11, <1>12, <1>13, <1>14 DEF IndexInv, IndexFields
<1> QED
  BY <1>15 DEF after

-----------------------------------------------------------------------------
(* Facts come into an index one after the other, live and in recovery.     *)

Effect(view, e) ==
    IF e[1] = "atom" THEN InsertAtom(view, e[2], e[3])
    ELSE IF e[1] = "bond" THEN InsertBond(view, e[2])
    ELSE IF e[1] = "root" THEN apply_root(view, e[2], e[3], e[4], e[5])
    ELSE IF e[1] = "commit" THEN [view EXCEPT !.committed_cells = @ + 1]
    ELSE view

(* What a fold of N effects computes, for each set of places. *)
Folded(f, N, base, e) ==
    f = [s \in SUBSET (1..N) |->
            IF s = {} THEN base ELSE Effect(f[s \ {Max(s)}], e[Max(s)])]

IsRun(g, N, base, e) ==
    g[0] = base /\ \A k \in 1..N : g[k] = Effect(g[k - 1], e[k])

(* A fold over a sequence runs through the states between its elements.    *)
LEMMA FoldExists ==
    ASSUME NEW N \in Nat, NEW base, NEW e
    PROVE  \E f : Folded(f, N, base, e)
<1> DEFINE S == 1..N
           Upto(k) == {s \in SUBSET S : Cardinality(s) <= k}
           Value(f, s) == IF s = {} THEN base ELSE Effect(f[s \ {Max(s)}], e[Max(s)])
           Good(f, k) == f = [s \in Upto(k) |-> Value(f, s)]
           T == {k \in 0..Cardinality(S) : \E f : Good(f, k)}
<1>0. IsFiniteSet(S) /\ \A s \in SUBSET S : s # {} => Max(s) \in s
  BY LastPlacePicks DEF Picks, LastPlace
<1> HIDE DEF S
<1>1. /\ Cardinality(S) \in Nat
      /\ \A s \in SUBSET S : IsFiniteSet(s) /\ Cardinality(s) \in Nat
                             /\ Cardinality(s) <= Cardinality(S)
  BY <1>0, FS_Subset, FS_CardinalityType
<1>2. ASSUME NEW k \in Nat, NEW s \in Upto(k), s # {}
      PROVE  /\ k > 0 /\ s \ {Max(s)} \in Upto(k) /\ s \ {Max(s)} \in Upto(k - 1)
  <2>1. Max(s) \in s /\ s \in SUBSET S
    BY <1>0, <1>2
  <2>2. Cardinality(s \ {Max(s)}) = Cardinality(s) - 1 /\ Cardinality(s \ {Max(s)}) \in Nat
    BY <1>1, <2>1, FS_RemoveElement
  <2> QED
    BY <1>1, <2>1, <2>2
<1> HIDE DEF Upto
<1>3. 0 \in T
  <2> DEFINE f == [s \in Upto(0) |-> base]
  <2>1. ASSUME NEW s \in Upto(0), s # {} PROVE FALSE
    <3>1. 0 \in Nat /\ ~(0 > 0)
      OBVIOUS
    <3> QED
      BY <1>2, <2>1, <3>1
  <2>2. \A s \in Upto(0) : Value(f, s) = base
    BY <2>1
  <2>3. Good(f, 0)
    BY <2>2, Zenon
  <2> HIDE DEF Good, f
  <2> QED
    BY <1>1, <2>3
<1>4. ASSUME NEW k \in 0..Cardinality(S), k \in T, k < Cardinality(S) PROVE k + 1 \in T
  <2>1. PICK f : Good(f, k)
    BY <1>4
  <2> DEFINE g == [s \in Upto(k + 1) |-> Value(f, s)]
  <2>2. k \in Nat /\ k + 1 \in Nat /\ (k + 1) - 1 = k /\ k + 1 \in 0..Cardinality(S)
    BY <1>1, <1>4
  <2>3. ASSUME NEW s \in Upto(k + 1), s # {}
        PROVE  s \ {Max(s)} \in Upto(k) /\ s \ {Max(s)} \in Upto(k + 1)
    BY <1>2, <2>2, <2>3
  <2>4. \A s \in Upto(k) : f[s] = Value(f, s)
    <3> HIDE DEF Value
    <3> QED
      BY <2>1
  <2>5. ASSUME NEW s \in Upto(k + 1), s # {} PROVE g[s \ {Max(s)}] = f[s \ {Max(s)}]
    <3>1. g[s \ {Max(s)}] = Value(f, s \ {Max(s)})
      <4> HIDE DEF Value
      <4> QED
        BY <2>3, <2>5
    <3> QED
      BY <2>3, <2>4, <2>5, <3>1, Zenon
  <2> HIDE DEF g
  <2>6. \A s \in Upto(k + 1) : Value(f, s) = Value(g, s)
    BY <2>5, Zenon
  <2> HIDE DEF Value
  <2>7. Good(g, k + 1)
    BY <2>6 DEF g
  <2> HIDE DEF Good
  <2> QED
    BY <2>2, <2>7
<1>5. Cardinality(S) \in T
  <2> HIDE DEF T
  <2>1. \A k \in 0..Cardinality(S) : k \in T
    BY <1>1, <1>3, <1>4, InductionUpTo
  <2> QED
    BY <1>1, <2>1
<1>6. PICK f : Good(f, Cardinality(S))
  BY <1>5
<1>7. Upto(Cardinality(S)) = SUBSET S
  BY <1>1 DEF Upto
<1>8. Folded(f, N, base, e)
  BY <1>6, <1>7, Zenon DEF Folded, S
<1> QED
  BY <1>8

LEMMA FoldRuns ==
    ASSUME NEW N \in Nat, NEW base, NEW e, NEW f, Folded(f, N, base, e)
    PROVE  \E g : IsRun(g, N, base, e) /\ g[N] = f[1..N]
<1> DEFINE g == [k \in 0..N |-> f[1..k]]
<1>1. \A s \in SUBSET (1..N) :
         f[s] = IF s = {} THEN base ELSE Effect(f[s \ {Max(s)}], e[Max(s)])
  BY Zenon DEF Folded
<1>2. \A k \in 0..N : 1..k \in SUBSET (1..N)
  OBVIOUS
<1>3. g[0] = base
  <2>1. 1..0 = {} /\ 0 \in 0..N
    OBVIOUS
  <2>2. f[{}] = base
    BY <1>1, <1>2, <2>1
  <2> QED
    BY <2>1, <2>2
<1>4. ASSUME NEW k \in 1..N PROVE g[k] = Effect(g[k - 1], e[k])
  <2>1. /\ k \in 0..N /\ k - 1 \in 0..N /\ k \in 1..k
        /\ 1..k \subseteq Int /\ \A x \in 1..k : x <= k
    OBVIOUS
  <2>2. Max(1..k) = k
    BY <2>1, MaxOf
  <2>3. (1..k) \ {k} = 1..(k - 1) /\ 1..k # {}
    OBVIOUS
  <2>4. f[1..k] = Effect(f[1..(k - 1)], e[k])
    BY <1>1, <1>2, <2>1, <2>2, <2>3
  <2> QED
    BY <2>1, <2>4
<1>5. g[N] = f[1..N]
  OBVIOUS
<1> HIDE DEF g
<1> QED
  BY <1>3, <1>4, <1>5 DEF IsRun

LEMMA BondsRun ==
    ASSUME NEW base, NEW bonds, IsSeq(bonds)
    PROVE  \E g : /\ IsRun(g, Len(bonds), base, [i \in 1..Len(bonds) |-> <<"bond", bonds[i]>>])
                  /\ g[Len(bonds)] = FoldLeft(InsertBond, base, bonds)
<1> DEFINE N == Len(bonds)
           e == [i \in 1..N |-> <<"bond", bonds[i]>>]
           Is(f) == f = [s \in SUBSET (DOMAIN bonds) |->
                            IF s = {} THEN base
                            ELSE LET x == Max(s) IN InsertBond(f[s \ {x}], bonds[x])]
           all == CHOOSE f : Is(f)
<1>1. FoldLeft(InsertBond, base, bonds) = all[DOMAIN bonds]
  BY DEF FoldLeft, MapThenFoldSet
<1>2. N \in Nat /\ DOMAIN bonds = 1..N
  BY DEF IsSeq
<1> HIDE DEF N
<1>3. ASSUME NEW f PROVE Is(f) <=> Folded(f, N, base, e)
  <2>1. ASSUME NEW s \in SUBSET (1..N), s # {}
        PROVE  InsertBond(f[s \ {Max(s)}], bonds[Max(s)]) = Effect(f[s \ {Max(s)}], e[Max(s)])
    <3>1. Max(s) \in 1..N
      BY <1>2, <2>1, LastPlacePicks DEF Picks, LastPlace
    <3>2. e[Max(s)] = <<"bond", bonds[Max(s)]>>
      BY <3>1
    <3> QED
      BY <3>2 DEF Effect
  <2> DEFINE one(s) == IF s = {} THEN base
                       ELSE LET x == Max(s) IN InsertBond(f[s \ {x}], bonds[x])
             two(s) == IF s = {} THEN base ELSE Effect(f[s \ {Max(s)}], e[Max(s)])
  <2>2. \A s \in SUBSET (1..N) : one(s) = two(s)
    BY <2>1, Zenon
  <2> HIDE DEF e
  <2>3. Is(f) <=> f = [s \in SUBSET (1..N) |-> one(s)]
    BY <1>2, Zenon
  <2>4. Folded(f, N, base, e) <=> f = [s \in SUBSET (1..N) |-> two(s)]
    BY Zenon DEF Folded
  <2> HIDE DEF one, two
  <2>5. [s \in SUBSET (1..N) |-> one(s)] = [s \in SUBSET (1..N) |-> two(s)]
    BY <2>2
  <2> QED
    BY <2>3, <2>4, <2>5, Zenon
<1> HIDE DEF Is, e
<1>4. \E f : Is(f)
  BY <1>2, <1>3, FoldExists
<1>5. Is(all)
  BY <1>4
<1> HIDE DEF all
<1>6. PICK g : IsRun(g, N, base, e) /\ g[N] = all[1..N]
  BY <1>2, <1>3, <1>5, FoldRuns
<1> QED
  BY <1>1, <1>2, <1>6, Zenon DEF N, e

WithAtoms(view, cell) ==
    [view EXCEPT !.atoms = [id \in DOMAIN @ \cup DOMAIN cell.atoms |->
                               IF id \in DOMAIN cell.atoms THEN cell.atoms[id] ELSE @[id]]]

BondEffects(cell) == [i \in 1..Len(cell.bonds) |-> <<"bond", cell.bonds[i]>>]

CellCounted(view) == [view EXCEPT !.committed_cells = @ + 1]

RootEffects(cell, commit_sequence) ==
    [i \in 1..Len(cell.roots) |->
        <<"root", cell.roots[i].change, cell.roots[i].sequence, commit_sequence, cell.meta[1]>>]

LEMMA CellRuns ==
    ASSUME NEW view, NEW cell, NEW commit_sequence, IsSeq(cell.bonds), IsSeq(cell.roots)
    PROVE  \E g, h :
              /\ IsRun(g, Len(cell.bonds), WithAtoms(view, cell), BondEffects(cell))
              /\ IsRun(h, Len(cell.roots), g[Len(cell.bonds)], RootEffects(cell, commit_sequence))
              /\ ApplyCell(view, cell, commit_sequence) = CellCounted(h[Len(cell.roots)])
<1> DEFINE N == Len(cell.roots)
           B == Len(cell.bonds)
           bonds == BondEffects(cell)
           base == FoldLeft(InsertBond, WithAtoms(view, cell), cell.bonds)
           e == RootEffects(cell, commit_sequence)
           one(f, s) == IF s = {} THEN base
                        ELSE LET x == Max(s) IN
                             apply_root(f[s \ {x}], cell.roots[x].change, cell.roots[x].sequence,
                                        commit_sequence, cell.meta[1])
           Is(f) == f = [s \in SUBSET (DOMAIN cell.roots) |-> one(f, s)]
           all == CHOOSE f : Is(f)
<1>0. PICK g : IsRun(g, B, WithAtoms(view, cell), bonds) /\ g[B] = base
  BY BondsRun DEF BondEffects
<1>1. ApplyCell(view, cell, commit_sequence) = CellCounted(all[DOMAIN cell.roots])
  BY DEF CellCounted, ApplyCell, AddCell, WithAtoms, FoldLeft, MapThenFoldSet
<1>2. N \in Nat /\ DOMAIN cell.roots = 1..N
  BY DEF IsSeq
<1> HIDE DEF base
<1>3. ASSUME NEW f PROVE Is(f) <=> Folded(f, N, base, e)
  <2> DEFINE two(s) == IF s = {} THEN base ELSE Effect(f[s \ {Max(s)}], e[Max(s)])
  <2>1. ASSUME NEW s \in SUBSET (1..N) PROVE one(f, s) = two(s)
    <3>1. CASE s = {}
      BY <3>1
    <3>2. CASE s # {}
      <4>1. Max(s) \in 1..N
        BY <1>2, <3>2, LastPlacePicks DEF Picks, LastPlace
      <4>2. e[Max(s)] = <<"root", cell.roots[Max(s)].change, cell.roots[Max(s)].sequence,
                          commit_sequence, cell.meta[1]>>
        BY <4>1 DEF RootEffects
      <4>3. Effect(f[s \ {Max(s)}], e[Max(s)]) =
                apply_root(f[s \ {Max(s)}], cell.roots[Max(s)].change,
                           cell.roots[Max(s)].sequence, commit_sequence, cell.meta[1])
        BY <4>2 DEF Effect
      <4> QED
        BY <3>2, <4>3, Zenon
    <3> QED
      BY <3>1, <3>2
  <2> HIDE DEF e, N
  <2>3. Is(f) <=> f = [s \in SUBSET (1..N) |-> one(f, s)]
    BY <1>2, Zenon
  <2>4. Folded(f, N, base, e) <=> f = [s \in SUBSET (1..N) |-> two(s)]
    BY Zenon DEF Folded
  <2> HIDE DEF one, two
  <2>5. [s \in SUBSET (1..N) |-> one(f, s)] = [s \in SUBSET (1..N) |-> two(s)]
    BY <2>1
  <2> QED
    BY <2>3, <2>4, <2>5, Zenon
<1> HIDE DEF Is, e, N
<1>4. \E f : Is(f)
  BY <1>2, <1>3, FoldExists
<1>5. Is(all)
  BY <1>4
<1> HIDE DEF all
<1>6. PICK h : IsRun(h, N, base, e) /\ h[N] = all[1..N]
  BY <1>2, <1>3, <1>5, FoldRuns
<1>7. ApplyCell(view, cell, commit_sequence) = CellCounted(h[N])
  BY <1>1, <1>2, <1>6, Zenon
<1> QED
  BY <1>0, <1>6, <1>7, Zenon DEF N, e, B, bonds

(* The effect of the i-th frame of a cell that starts behind at frames. *)
FrameEffect(frames, at, i) ==
    LET commit == frames[Len(frames)]
        f == frames[i]
    IN  IF f.kind = "atom" THEN <<"atom", atom_identity(f.payload[1]), at + i>>
        ELSE IF f.kind = "bond" THEN <<"bond", f.payload>>
        ELSE IF f.kind = "root"
        THEN <<"root", f.payload, f.sequence, commit.sequence, commit.payload[1]>>
        ELSE IF f.kind = "commit" THEN <<"commit">> ELSE <<"none">>

LEMMA CommittedRuns ==
    ASSUME NEW view, NEW frames, NEW at, IsSeq(frames)
    PROVE  \E g : /\ IsRun(g, Len(frames), view,
                           [i \in 1..Len(frames) |-> FrameEffect(frames, at, i)])
                  /\ ApplyCommitted(view, frames, at) = g[Len(frames)]
<1> DEFINE N == Len(frames)
           e == [i \in 1..N |-> FrameEffect(frames, at, i)]
           commit == frames[Len(frames)]
           step(acc, i) ==
               LET f == frames[i] IN
               CASE f.kind = "atom" -> InsertAtom(acc, atom_identity(f.payload[1]), at + i)
                 [] f.kind = "bond" -> InsertBond(acc, f.payload)
                 [] f.kind = "root" -> apply_root(acc, f.payload, f.sequence,
                                                  commit.sequence, commit.payload[1])
                 [] f.kind = "commit" -> [acc EXCEPT !.committed_cells = @ + 1]
                 [] OTHER -> acc
           places == [i \in DOMAIN frames |-> i]
           one(f, s) == IF s = {} THEN view ELSE LET x == Max(s) IN step(f[s \ {x}], places[x])
           Is(f) == f = [s \in SUBSET (DOMAIN places) |-> one(f, s)]
           all == CHOOSE f : Is(f)
<1>1. ApplyCommitted(view, frames, at) = all[DOMAIN places]
  BY DEF ApplyCommitted, FoldLeftDomain, FoldLeft, MapThenFoldSet
<1>2. N \in Nat /\ DOMAIN places = 1..N /\ \A i \in 1..N : places[i] = i
  BY DEF IsSeq
<1>3. ASSUME NEW acc, NEW i \in 1..N PROVE step(acc, i) = Effect(acc, FrameEffect(frames, at, i))
  <2>1. CASE frames[i].kind = "atom"
    BY <2>1 DEF Effect, FrameEffect
  <2>2. CASE frames[i].kind = "bond"
    BY <2>2 DEF Effect, FrameEffect
  <2>3. CASE frames[i].kind = "root"
    BY <2>3 DEF Effect, FrameEffect
  <2>4. CASE frames[i].kind = "commit"
    BY <2>4 DEF Effect, FrameEffect
  <2>5. CASE frames[i].kind \notin {"atom", "bond", "root", "commit"}
    BY <2>5 DEF Effect, FrameEffect
  <2> QED
    BY <2>1, <2>2, <2>3, <2>4, <2>5
<1> HIDE DEF step, places
<1>4. ASSUME NEW f PROVE Is(f) <=> Folded(f, N, view, e)
  <2> DEFINE two(s) == IF s = {} THEN view ELSE Effect(f[s \ {Max(s)}], e[Max(s)])
  <2>1. ASSUME NEW s \in SUBSET (1..N) PROVE one(f, s) = two(s)
    <3>1. CASE s = {}
      BY <3>1
    <3>2. CASE s # {}
      <4>1. Max(s) \in 1..N
        BY <1>2, <3>2, LastPlacePicks DEF Picks, LastPlace
      <4>2. e[Max(s)] = FrameEffect(frames, at, Max(s)) /\ places[Max(s)] = Max(s)
        BY <1>2, <4>1
      <4>3. step(f[s \ {Max(s)}], Max(s)) = Effect(f[s \ {Max(s)}], e[Max(s)])
        BY <1>3, <4>1, <4>2
      <4> QED
        BY <3>2, <4>2, <4>3, Zenon
    <3> QED
      BY <3>1, <3>2
  <2> HIDE DEF e, N
  <2>3. Is(f) <=> f = [s \in SUBSET (1..N) |-> one(f, s)]
    BY <1>2, Zenon
  <2>4. Folded(f, N, view, e) <=> f = [s \in SUBSET (1..N) |-> two(s)]
    BY Zenon DEF Folded
  <2> HIDE DEF one, two
  <2>5. [s \in SUBSET (1..N) |-> one(f, s)] = [s \in SUBSET (1..N) |-> two(s)]
    BY <2>1
  <2> QED
    BY <2>3, <2>4, <2>5, Zenon
<1> HIDE DEF Is, e, N
<1>5. \E f : Is(f)
  BY <1>2, <1>4, FoldExists
<1>6. Is(all)
  BY <1>5
<1> HIDE DEF all
<1>7. PICK g : IsRun(g, N, view, e) /\ g[N] = all[1..N]
  BY <1>2, <1>4, <1>6, FoldRuns
<1> QED
  BY <1>1, <1>2, <1>7, Zenon DEF N, e

LEMMA IndexLater ==
    ASSUME NEW view, NEW n \in Nat, IndexInv(view, n), NEW m \in Nat, n <= m
    PROVE  IndexInv(view, m)
<1>1. \A name \in DOMAIN view.root_history : VersionsInv(view.root_history[name], m)
  BY DEF IndexInv, VersionsInv
<1> QED
  BY <1>1 DEF IndexInv

LEMMA RootLeavesOthers ==
    ASSUME NEW view, DOMAIN view = IndexFields, NEW change, NEW sequence, NEW commit_sequence,
           NEW cell, NEW name, name # change[1]
    PROVE  LET after == apply_root(view, change, sequence, commit_sequence, cell) IN
           /\ Get(after.roots, name, None) = Get(view.roots, name, None)
           /\ LatestVersion(after, name) = LatestVersion(view, name)
<1> DEFINE after == apply_root(view, change, sequence, commit_sequence, cell)
           new == Append(Get(view.root_history, change[1], <<>>),
                         RootVersion(change, sequence, commit_sequence, cell))
<1>1. /\ after.roots = IF change[4] = None THEN Without(view.roots, change[1])
                       ELSE Insert(view.roots, change[1], change[4])
      /\ after.root_history = Insert(view.root_history, change[1], new)
  BY DEF apply_root, IndexFields
<1> HIDE DEF after, new
<1>2. Get(after.roots, name, None) = Get(view.roots, name, None)
  BY <1>1 DEF Get, Without, Insert
<1>3. Get(after.root_history, name, <<>>) = Get(view.root_history, name, <<>>)
  BY <1>1 DEF Get, Insert
<1> QED
  BY <1>2, <1>3, Zenon DEF LatestVersion, after

LEMMA NamesDiffer ==
    ASSUME NEW N \in Nat, NEW r, \A i \in 1..N : r[i] \in Int,
           \A i \in 1..N : i > 1 => r[i - 1] < r[i]
    PROVE  \A i, j \in 1..N : i < j => r[i] # r[j]
<1> DEFINE T == {k \in 0..N : \A i \in 1..(k - 1) : r[i] < r[k]}
<1>1. 0 \in T
  OBVIOUS
<1>2. ASSUME NEW k \in 0..N, k \in T, k < N PROVE k + 1 \in T
  <2>1. k + 1 \in 0..N /\ k + 1 \in 1..N /\ (k + 1) - 1 = k
    BY <1>2
  <2>2. ASSUME NEW i \in 1..k PROVE r[i] < r[k + 1]
    <3>1. k \in 1..N /\ i \in 1..N /\ r[k] < r[k + 1]
      BY <2>1, <2>2
    <3>2. i = k \/ r[i] < r[k]
      BY <1>2, <2>2
    <3>3. r[i] \in Int /\ r[k] \in Int /\ r[k + 1] \in Int
      BY <2>1, <3>1
    <3> QED
      BY <3>1, <3>2, <3>3
  <2> QED
    BY <2>1, <2>2
<1> HIDE DEF T
<1>3. \A k \in 0..N : k \in T
  BY <1>1, <1>2, InductionUpTo
<1>4. ASSUME NEW i \in 1..N, NEW j \in 1..N, i < j PROVE r[i] # r[j]
  <2>1. j \in T /\ i \in 1..(j - 1) /\ r[i] \in Int /\ r[j] \in Int
    BY <1>3, <1>4
  <2>2. r[i] < r[j]
    BY <2>1 DEF T
  <2> QED
    BY <2>1, <2>2
<1> QED
  BY <1>4

(* The bonds of a cell that balances. *)
LEMMA BondsKeepIndex ==
    ASSUME NEW view, NEW n, IndexInv(view, n), NEW bonds, IsSeq(bonds), NEW g,
           IsRun(g, Len(bonds), view, [i \in 1..Len(bonds) |-> <<"bond", bonds[i]>>]),
           \A i \in 1..Len(bonds) : bonds[i] \notin view.bonds,
           \A i, j \in 1..Len(bonds) : i < j => bonds[i] # bonds[j],
           \A i \in 1..Len(bonds) : validate_bond_members(view, bonds[i], {})
    PROVE  LET after == g[Len(bonds)] IN
           /\ IndexInv(after, n)
           /\ after.atoms = view.atoms
           /\ after.bonds = view.bonds \cup {bonds[i] : i \in 1..Len(bonds)}
           /\ after.roots = view.roots /\ after.root_history = view.root_history
<1> DEFINE N == Len(bonds)
           P(k) == /\ IndexInv(g[k], n)
                   /\ g[k].atoms = view.atoms
                   /\ g[k].bonds = view.bonds \cup {bonds[i] : i \in 1..k}
                   /\ g[k].roots = view.roots /\ g[k].root_history = view.root_history
           T == {k \in 0..N : P(k)}
<1>1. N \in Nat
  BY DEF IsSeq
<1>2. 0 \in T
  <2>1. g[0] = view /\ 0 \in 0..N /\ {bonds[i] : i \in 1..0} = {}
    BY <1>1 DEF IsRun
  <2>2. P(0)
    BY <2>1
  <2> HIDE DEF P
  <2> QED
    BY <2>1, <2>2
<1>3. ASSUME NEW k \in 0..N, k \in T, k < N PROVE k + 1 \in T
  <2>1. P(k) /\ k + 1 \in 1..N /\ k + 1 \in 0..N /\ (k + 1) - 1 = k
    BY <1>1, <1>3
  <2> DEFINE bond == bonds[k + 1]
  <2>2. g[k + 1] = InsertBond(g[k], bond)
    <3>1. g[k + 1] = Effect(g[k], <<"bond", bond>>)
      BY <2>1 DEF IsRun
    <3> HIDE DEF bond
    <3> QED
      BY <3>1 DEF Effect
  <2>3. bond \notin g[k].bonds
    <3>1. bond \notin view.bonds /\ \A i \in 1..k : bonds[i] # bond
      BY <1>1, <2>1
    <3> QED
      BY <2>1, <3>1
  <2>4. validate_bond_members(g[k], bond, {})
    BY <2>1 DEF validate_bond_members, contains_atom
  <2> HIDE DEF bond
  <2>5. IndexInv(InsertBond(g[k], bond), n)
    BY <2>1, <2>3, <2>4, BondKeepsIndex
  <2>6. DOMAIN g[k] = IndexFields
    BY <2>1 DEF IndexInv, IndexFields
  <2>7. LET after == InsertBond(g[k], bond) IN
        /\ after.atoms = g[k].atoms /\ after.bonds = g[k].bonds \cup {bond}
        /\ after.roots = g[k].roots /\ after.root_history = g[k].root_history
    BY <2>6 DEF InsertBond, IndexFields
  <2>8. {bonds[i] : i \in 1..(k + 1)} = {bonds[i] : i \in 1..k} \cup {bond}
    <3>1. 1..(k + 1) = 1..k \cup {k + 1}
      BY <2>1
    <3> QED
      BY <3>1 DEF bond
  <2>9. P(k + 1)
    BY <2>1, <2>2, <2>5, <2>7, <2>8
  <2> HIDE DEF P
  <2> QED
    BY <2>1, <2>9
<1> HIDE DEF T, P, N
<1>4. \A k \in 0..N : k \in T
  BY <1>1, <1>2, <1>3, InductionUpTo
<1>5. N \in 0..N
  BY <1>1
<1>6. P(N)
  BY <1>4, <1>5 DEF T
<1> QED
  BY <1>6 DEF P, N

(* The roots of a cell that balances. *)
RootFits(view, n, e) ==
    /\ e[1] = "root"
    /\ contains_atom(view, e[2][1])
    /\ e[2][4] = None \/ contains_fact(view, e[2][4])
    /\ e[2][3] = Get(view.roots, e[2][1], None)
    /\ e[2][2] = LatestVersion(view, e[2][1])
    /\ e[2][3] # e[2][4]
    /\ e[4] \in Nat /\ e[4] < n

LEMMA RootsKeepIndex ==
    ASSUME NEW view, NEW n, IndexInv(view, n), NEW N \in Nat, NEW e, NEW h,
           IsRun(h, N, view, e),
           \A i \in 1..N : RootFits(view, n, e[i]),
           \A i, j \in 1..N : i < j => e[i][2][1] # e[j][2][1]
    PROVE  IndexInv(h[N], n)
<1> DEFINE Same(k) == \A i \in 1..N : k < i =>
                         /\ Get(h[k].roots, e[i][2][1], None) = Get(view.roots, e[i][2][1], None)
                         /\ LatestVersion(h[k], e[i][2][1]) = LatestVersion(view, e[i][2][1])
           P(k) == /\ IndexInv(h[k], n)
                   /\ h[k].atoms = view.atoms /\ h[k].bonds = view.bonds
                   /\ Same(k)
           T == {k \in 0..N : P(k)}
<1>1. 0 \in T
  <2>1. h[0] = view /\ 0 \in 0..N
    BY DEF IsRun
  <2>2. P(0)
    BY <2>1
  <2> HIDE DEF P
  <2> QED
    BY <2>1, <2>2
<1>2. ASSUME NEW k \in 0..N, k \in T, k < N PROVE k + 1 \in T
  <2> DEFINE x == e[k + 1]
             after == apply_root(h[k], x[2], x[3], x[4], x[5])
  <2>1. P(k) /\ k + 1 \in 1..N /\ k + 1 \in 0..N /\ (k + 1) - 1 = k /\ k < k + 1
    BY <1>2
  <2>2. RootFits(view, n, x)
    BY <2>1
  <2>3. h[k + 1] = after
    <3>1. h[k + 1] = Effect(h[k], x)
      BY <2>1 DEF IsRun
    <3> HIDE DEF x
    <3> QED
      BY <2>2, <3>1 DEF Effect, RootFits
  <2>4. /\ Get(h[k].roots, x[2][1], None) = Get(view.roots, x[2][1], None)
        /\ LatestVersion(h[k], x[2][1]) = LatestVersion(view, x[2][1])
    BY <2>1
  <2>5. \A i \in 1..N : k + 1 < i => k < i /\ x[2][1] # e[i][2][1]
    BY <2>1
  <2> HIDE DEF x
  <2>6. IndexInv(after, n)
    <3>1. /\ contains_atom(h[k], x[2][1])
          /\ x[2][4] = None \/ contains_fact(h[k], x[2][4])
          /\ x[2][3] = Get(h[k].roots, x[2][1], None)
          /\ x[2][2] = LatestVersion(h[k], x[2][1])
      BY <2>1, <2>2, <2>4 DEF RootFits, contains_atom, contains_fact
    <3>2. IndexInv(h[k], n) /\ x[4] \in Nat /\ x[4] < n /\ x[2][3] # x[2][4]
      BY <2>1, <2>2 DEF RootFits
    <3> QED
      BY <3>1, <3>2, RootKeepsIndex
  <2>7. DOMAIN h[k] = IndexFields
    BY <2>1 DEF IndexInv, IndexFields
  <2>8. after.atoms = h[k].atoms /\ after.bonds = h[k].bonds
    BY <2>7 DEF apply_root, IndexFields
  <2>9. ASSUME NEW i \in 1..N, k + 1 < i
        PROVE  /\ Get(after.roots, e[i][2][1], None) = Get(view.roots, e[i][2][1], None)
               /\ LatestVersion(after, e[i][2][1]) = LatestVersion(view, e[i][2][1])
    <3>1. /\ Get(after.roots, e[i][2][1], None) = Get(h[k].roots, e[i][2][1], None)
          /\ LatestVersion(after, e[i][2][1]) = LatestVersion(h[k], e[i][2][1])
      <4>1. e[i][2][1] # x[2][1]
        BY <2>5, <2>9
      <4> QED
        BY <2>7, <4>1, RootLeavesOthers
    <3>2. k < i
      BY <2>5, <2>9
    <3> QED
      BY <2>1, <3>1, <3>2
  <2> HIDE DEF after
  <2>10. P(k + 1)
    BY <2>1, <2>3, <2>6, <2>8, <2>9
  <2> HIDE DEF P
  <2> QED
    BY <2>1, <2>10
<1> HIDE DEF T, P
<1>3. \A k \in 0..N : k \in T
  BY <1>1, <1>2, InductionUpTo
<1>4. P(N)
  BY <1>3 DEF T
<1> QED
  BY <1>4 DEF P

(* A part of a run is a run.                                               *)
LEMMA RunSegment ==
    ASSUME NEW N \in Nat, NEW g, NEW base, NEW e, IsRun(g, N, base, e),
           NEW m \in Nat, NEW n \in Nat, m + n <= N,
           NEW h, \A k \in 0..n : h[k] = g[m + k],
           NEW d, \A k \in 1..n : d[k] = e[m + k]
    PROVE  IsRun(h, n, g[m], d)
<1>1. h[0] = g[m]
  <2>1. 0 \in 0..n /\ m + 0 = m
    OBVIOUS
  <2> QED
    BY <2>1
<1>2. ASSUME NEW k \in 1..n PROVE h[k] = Effect(h[k - 1], d[k])
  <2>1. m + k \in 1..N /\ (m + k) - 1 = m + (k - 1) /\ k - 1 \in 0..n /\ k \in 0..n
    OBVIOUS
  <2>2. g[m + k] = Effect(g[m + (k - 1)], e[m + k])
    BY <2>1 DEF IsRun
  <2> QED
    BY <2>1, <2>2
<1> QED
  BY <1>1, <1>2 DEF IsRun

-----------------------------------------------------------------------------
(* Recovery of a cell *)

(* Index::apply_cell on a cell that balances.                              *)
LEMMA ApplyCellKeepsIndex ==
    ASSUME NEW view, NEW n \in Nat, IndexInv(view, n), NEW cell, CellInv(cell, view),
           NEW commit_sequence \in Nat, n <= commit_sequence, CellBalances(view, cell)
    PROVE  IndexInv(ApplyCell(view, cell, commit_sequence), commit_sequence + 1)
<1> DEFINE m == commit_sequence + 1
           B == Len(cell.bonds)
           R == Len(cell.roots)
           with == WithAtoms(view, cell)
           bonds == BondEffects(cell)
           e == RootEffects(cell, commit_sequence)
<1>1. IsSeq(cell.bonds) /\ IsSeq(cell.roots) /\ B \in Nat /\ R \in Nat
  BY DEF CellInv, IsSeq
<1>2. PICK g, h : /\ IsRun(g, B, with, bonds) /\ IsRun(h, R, g[B], e)
                  /\ ApplyCell(view, cell, commit_sequence) = CellCounted(h[R])
  BY <1>1, CellRuns, Zenon
<1>3. m \in Nat /\ commit_sequence < m /\ IndexInv(view, m)
  BY IndexLater
<1> HIDE DEF m
<1>4. /\ DOMAIN with = IndexFields
      /\ DOMAIN with.atoms = DOMAIN view.atoms \cup DOMAIN cell.atoms
      /\ with.bonds = view.bonds /\ with.outgoing = view.outgoing
      /\ with.roots = view.roots /\ with.root_history = view.root_history
  <2>1. DOMAIN view = IndexFields
    BY DEF IndexInv, IndexFields
  <2> QED
    BY <2>1 DEF WithAtoms, IndexFields
<1> HIDE DEF with
<1>5. IndexInv(with, m)
  <2>1. DOMAIN view.atoms \subseteq DOMAIN with.atoms
    BY <1>4
  <2> QED
    BY <1>3, <1>4, <2>1, AtomsKeepIndex
<1>6. /\ \A i \in 1..B : cell.bonds[i] \notin with.bonds
      /\ \A i, j \in 1..B : i < j => cell.bonds[i] # cell.bonds[j]
  BY <1>4 DEF CellInv
<1>7. \A i \in 1..B : validate_bond_members(with, cell.bonds[i], {})
  <2>1. DOMAIN cell.bonds = 1..B
    BY <1>1 DEF IsSeq
  <2> QED
    BY <1>4, <2>1 DEF CellBalances, validate_bond_members, contains_atom
<1>8. /\ IndexInv(g[B], m)
      /\ g[B].atoms = with.atoms
      /\ g[B].bonds = with.bonds \cup {cell.bonds[i] : i \in 1..B}
      /\ g[B].roots = with.roots /\ g[B].root_history = with.root_history
  <2>1. IsRun(g, B, with, bonds)
    BY <1>2
  <2> QED
    BY <1>1, <1>5, <1>6, <1>7, <2>1, BondsKeepIndex DEF BondEffects
<1> DEFINE name(i) == cell.roots[i].change[1]
<1>9. \A i \in 1..R : e[i] = <<"root", cell.roots[i].change, cell.roots[i].sequence,
                               commit_sequence, cell.meta[1]>>
  BY DEF RootEffects
<1>10. ASSUME NEW i \in 1..R PROVE RootFits(g[B], m, e[i])
  <2> DEFINE change == cell.roots[i].change
  <2>1. /\ e[i][1] = "root" /\ e[i][2] = change /\ e[i][4] = commit_sequence
    BY <1>9
  <2>2. /\ change[1] \in DOMAIN view.atoms \cup DOMAIN cell.atoms
        /\ \/ change[4] = None
           \/ change[4] \in DOMAIN view.atoms \cup DOMAIN cell.atoms
           \/ contains_fact(view, change[4])
           \/ \E j \in DOMAIN cell.bonds : change[4] = bond_identity(cell.bonds[j])
        /\ Get(view.roots, change[1], None) = change[3]
        /\ LatestVersion(view, change[1]) = change[2]
    BY DEF CellBalances
  <2>3. change[3] # change[4]
    BY DEF CellInv, RootSound
  <2>4. DOMAIN cell.bonds = 1..B
    BY <1>1 DEF IsSeq
  <2> HIDE DEF change, e
  <2>5. contains_atom(g[B], change[1])
    BY <1>4, <1>8, <2>2 DEF contains_atom
  <2>6. change[4] = None \/ contains_fact(g[B], change[4])
    BY <1>4, <1>8, <2>2, <2>4 DEF contains_fact, contains_atom
  <2>7. Get(g[B].roots, change[1], None) = change[3] /\ LatestVersion(g[B], change[1]) = change[2]
    BY <1>4, <1>8, <2>2 DEF LatestVersion
  <2> QED
    BY <1>3, <2>1, <2>3, <2>5, <2>6, <2>7 DEF RootFits
<1>11. \A i, j \in 1..R : i < j => e[i][2][1] # e[j][2][1]
  <2> DEFINE r == [i \in 1..R |-> Rank[name(i)]]
  <2>1. \A i \in 1..R : r[i] \in Int
    <3>1. \A i \in 1..R : name(i) \in AllDigests
      BY DEF CellInv, RootSound
    <3>2. \A x \in AllDigests : Rank[x] \in Int
      BY RankAssumption DEF AllDigests
    <3> HIDE DEF name
    <3> QED
      BY <3>1, <3>2
  <2>2. \A i \in 1..R : i > 1 => r[i - 1] < r[i]
    <3>1. \A i \in 1..R : i > 1 => Rank[name(i - 1)] < Rank[name(i)]
      BY DEF CellBalances
    <3> HIDE DEF name
    <3> QED
      BY <1>1, <3>1
  <2> HIDE DEF r
  <2>3. \A i, j \in 1..R : i < j => r[i] # r[j]
    BY <1>1, <2>1, <2>2, NamesDiffer
  <2>4. \A i, j \in 1..R : i < j => name(i) # name(j)
    BY <2>3 DEF r
  <2>5. \A i \in 1..R : e[i][2][1] = name(i)
    BY <1>9
  <2> HIDE DEF e, name
  <2> QED
    BY <2>4, <2>5
<1> HIDE DEF e, B, R
<1>12. IndexInv(h[R], m)
  BY <1>1, <1>2, <1>8, <1>10, <1>11, RootsKeepIndex
<1>13. DOMAIN h[R] = IndexFields
  BY <1>12 DEF IndexInv, IndexFields
<1> DEFINE after == CellCounted(h[R])
<1>14. /\ DOMAIN after = IndexFields /\ after.atoms = h[R].atoms
       /\ after.bonds = h[R].bonds /\ after.outgoing = h[R].outgoing
       /\ after.roots = h[R].roots /\ after.root_history = h[R].root_history
  BY <1>13 DEF CellCounted, IndexFields
<1> HIDE DEF after
<1>15. IndexInv(after, m)
  BY <1>12, <1>14, AtomsKeepIndex
<1> QED
  BY <1>2, <1>15, Zenon DEF after, m

-----------------------------------------------------------------------------
(* The writer's index after a cell *)

(* A list of the members of S, each once. *)
Lists(q, S) ==
    /\ IsSeq(q)
    /\ \A i \in 1..Len(q) : q[i] \in S
    /\ \A x \in S : \E i \in 1..Len(q) : q[i] = x
    /\ \A i, j \in 1..Len(q) : i < j => q[i] # q[j]

LEMMA InOrderLists ==
    ASSUME NEW S, IsFiniteSet(S), \A x, y \in S : Rank[x] \in Int /\ (Rank[x] = Rank[y] => x = y)
    PROVE  /\ Lists(InOrder(S), S) /\ Len(InOrder(S)) = Cardinality(S)
           /\ \A i, j \in 1..Len(InOrder(S)) :
                 i < j => Rank[InOrder(S)[i]] < Rank[InOrder(S)[j]]
<1> DEFINE R == {pair \in S \X S : Rank[pair[1]] < Rank[pair[2]]}
           q == InOrder(S)
           n == Cardinality(S)
<1>1. \A x, y \in S : <<x, y>> \in R <=> Rank[x] < Rank[y]
  OBVIOUS
<1>2. \A x \in S : Rank[x] \in Int
  OBVIOUS
<1> HIDE DEF R
<1>3. Orders(R, S)
  BY <1>1, <1>2 DEF Orders
<1>4. q = [i \in 1..n |-> CHOOSE x \in S : Cardinality({y \in S : Rank[y] < Rank[x]}) = i - 1]
  BY DEF InOrder
<1>5. \A x \in S : Place(R, S, x) = Cardinality({y \in S : Rank[y] < Rank[x]})
  <2> SUFFICES ASSUME NEW x \in S
               PROVE  Place(R, S, x) = Cardinality({y \in S : Rank[y] < Rank[x]})
    OBVIOUS
  <2>1. {y \in S : <<y, x>> \in R} = {y \in S : Rank[y] < Rank[x]}
    BY <1>1
  <2> QED
    BY <2>1 DEF Place
<1>6. \A k \in 1..n : (\E x \in S : Place(R, S, x) = k - 1) => q[k] \in S /\ Place(R, S, q[k]) = k - 1
  BY <1>4, <1>5
<1>7. q = [k \in 1..n |-> q[k]]
  BY <1>4
<1> HIDE DEF q
<1>8. InOrderOf(q, S, R)
  BY <1>3, <1>6, <1>7, PlacesGiveOrder
<1>9. IsSeq(q) /\ Len(q) = n
  BY <1>8, IsSeqOfSeq DEF InOrderOf
<1>10. \A i \in 1..Len(q) : q[i] \in S
  BY <1>8 DEF InOrderOf
<1>11. \A i, j \in 1..Len(q) : i < j => q[i] # q[j]
  BY <1>3, <1>8, <1>10 DEF InOrderOf, Orders
<1>12. \A x \in S : \E i \in 1..Len(q) : q[i] = x
  BY <1>8 DEF InOrderOf
<1>13. \A i, j \in 1..Len(q) : i < j => Rank[q[i]] < Rank[q[j]]
  BY <1>1, <1>8, <1>10 DEF InOrderOf
<1> QED
  BY <1>9, <1>10, <1>11, <1>12, <1>13 DEF Lists, q

(* What a prepared cell lists. *)
MovedRoots(view, cell) == {name \in DOMAIN cell.roots : Get(view.roots, name, None) # cell.roots[name]}
NewBondIds(view, cell) == {bond_identity(bond) : bond \in NewBonds(view, cell)}

(* roots lists how the roots called names move, in digest order. *)
ListsMoves(roots, names, view, cell) ==
    /\ IsSeq(roots) /\ Len(roots) = Len(names)
    /\ Lists(names, MovedRoots(view, cell))
    /\ \A i, j \in 1..Len(names) : i < j => Rank[names[i]] < Rank[names[j]]
    /\ \A i \in 1..Len(names) :
          roots[i] = <<names[i], LatestVersion(view, names[i]),
                       Get(view.roots, names[i], None), cell.roots[names[i]]>>

(* A prepared cell lists the new facts and the moved roots, each once.     *)
LEMMA PreparedLists ==
    ASSUME NEW cell \in Cells, NEW view
    PROVE  /\ Lists(prepare_cell(view, cell).atoms, NewAtoms(view, cell))
           /\ Len(prepare_cell(view, cell).atoms) = Cardinality(NewAtoms(view, cell))
           /\ Lists(prepare_cell(view, cell).bonds, NewBondIds(view, cell))
           /\ \E names : ListsMoves(prepare_cell(view, cell).roots, names, view, cell)
<1> DEFINE prepared == prepare_cell(view, cell)
           names == InOrder(MovedRoots(view, cell))
<1>1. \A x, y \in Digests(cell) : Rank[x] \in Int /\ (Rank[x] = Rank[y] => x = y)
  BY RankAssumption
<1>2. /\ NewAtoms(view, cell) \subseteq Digests(cell)
      /\ NewBondIds(view, cell) \subseteq Digests(cell)
      /\ MovedRoots(view, cell) \subseteq Digests(cell)
  BY DEF NewAtoms, NewBondIds, NewBonds, MovedRoots, Digests
<1>3. IsFiniteSet(NewAtoms(view, cell)) /\ IsFiniteSet(NewBonds(view, cell))
      /\ IsFiniteSet(MovedRoots(view, cell))
  BY CellAssumption, FS_Subset DEF NewAtoms, NewBonds, MovedRoots
<1>4. IsFiniteSet(NewBondIds(view, cell))
  <2> DEFINE new == NewBonds(view, cell)
             id == [bond \in new |-> bond_identity(bond)]
  <2>1. id \in Surjection(new, NewBondIds(view, cell))
    BY DEF Surjection, NewBondIds
  <2> QED
    BY <1>3, <2>1, FS_Surjection
<1>5. /\ Lists(InOrder(NewAtoms(view, cell)), NewAtoms(view, cell))
      /\ Len(InOrder(NewAtoms(view, cell))) = Cardinality(NewAtoms(view, cell))
  <2>1. \A x, y \in NewAtoms(view, cell) : Rank[x] \in Int /\ (Rank[x] = Rank[y] => x = y)
    BY <1>1, <1>2
  <2> QED
    BY <1>3, <2>1, InOrderLists
<1>6. Lists(InOrder(NewBondIds(view, cell)), NewBondIds(view, cell))
  <2>1. \A x, y \in NewBondIds(view, cell) : Rank[x] \in Int /\ (Rank[x] = Rank[y] => x = y)
    BY <1>1, <1>2
  <2> QED
    BY <1>4, <2>1, InOrderLists
<1>7. /\ Lists(names, MovedRoots(view, cell)) /\ Len(names) = Cardinality(MovedRoots(view, cell))
      /\ \A i, j \in 1..Len(names) : i < j => Rank[names[i]] < Rank[names[j]]
  <2>1. \A x, y \in MovedRoots(view, cell) : Rank[x] \in Int /\ (Rank[x] = Rank[y] => x = y)
    BY <1>1, <1>2
  <2> QED
    BY <1>3, <2>1, InOrderLists
<1>8. /\ prepared.atoms = InOrder(NewAtoms(view, cell))
      /\ prepared.bonds = InOrder(NewBondIds(view, cell))
      /\ prepared.roots = [i \in 1..Cardinality(MovedRoots(view, cell)) |->
                              <<names[i], LatestVersion(view, names[i]),
                                Get(view.roots, names[i], None), cell.roots[names[i]]>>]
  BY DEF prepare_cell, NewBondIds, MovedRoots
<1>9. Cardinality(MovedRoots(view, cell)) \in Nat
  BY <1>3, FS_CardinalityType
<1> HIDE DEF names, prepared
<1>10. /\ IsSeq(prepared.roots) /\ Len(prepared.roots) = Cardinality(MovedRoots(view, cell))
       /\ \A i \in 1..Cardinality(MovedRoots(view, cell)) :
             prepared.roots[i] = <<names[i], LatestVersion(view, names[i]),
                                   Get(view.roots, names[i], None), cell.roots[names[i]]>>
  BY <1>8, <1>9 DEF IsSeq
<1>11. Len(names) = Len(prepared.roots)
  BY <1>7, <1>10
<1>12. ListsMoves(prepared.roots, names, view, cell)
  BY <1>7, <1>10, <1>11 DEF ListsMoves
<1> QED
  BY <1>5, <1>6, <1>8, <1>12, Zenon DEF prepared

(* What the frames of a prepared cell do, one after the other. *)
CellTold(frames, prepared, sequence, at) ==
    LET a == Len(prepared.atoms)
        b == Len(prepared.bonds)
        r == Len(prepared.roots)
        n == a + b + r + 2
    IN  /\ a \in Nat /\ b \in Nat /\ r \in Nat
        /\ IsSeq(frames) /\ Len(frames) = n
        /\ frames[1].kind = "begin"
        /\ FrameEffect(frames, at, 1) = <<"none">>
        /\ \A i \in 1..a : FrameEffect(frames, at, 1 + i) =
               <<"atom", atom_identity(prepared.atoms[i][2]), at + (1 + i)>>
        /\ \A i \in 1..b : FrameEffect(frames, at, 1 + a + i) = <<"bond", prepared.bonds[i][2]>>
        /\ \A i \in 1..r : FrameEffect(frames, at, 1 + a + b + i) =
               <<"root", prepared.roots[i], sequence + (1 + a + b + i) - 1, sequence + n - 1,
                 prepared.identity>>
        /\ FrameEffect(frames, at, n) = <<"commit">>
        /\ \A i \in 1..n : FrameSound(frames[i])

LEMMA CellEffects ==
    ASSUME NEW cell \in Cells, NEW view, NEW sequence \in Nat, NEW at
    PROVE  CellTold(CellFrames(prepare_cell(view, cell), sequence), prepare_cell(view, cell),
                    sequence, at)
<1> DEFINE prepared == prepare_cell(view, cell)
           frames == CellFrames(prepared, sequence)
           a == Len(prepared.atoms)
           b == Len(prepared.bonds)
           r == Len(prepared.roots)
           n == a + b + r + 2
<1>1. a \in Nat /\ b \in Nat /\ r \in Nat
  BY PreparedFinite
<1>2. PICK names : ListsMoves(prepared.roots, names, view, cell)
  BY PreparedLists
<1>3. \A i \in 1..r : RootSound(prepared.roots[i])
  <2> SUFFICES ASSUME NEW i \in 1..r PROVE RootSound(prepared.roots[i])
    OBVIOUS
  <2>1. i \in 1..Len(names) /\ names[i] \in MovedRoots(view, cell)
    BY <1>2 DEF Lists, ListsMoves
  <2>2. names[i] \in AllDigests
    BY <2>1 DEF MovedRoots, AllDigests, Digests
  <2>3. Get(view.roots, names[i], None) # cell.roots[names[i]]
    BY <2>1 DEF MovedRoots
  <2>4. prepared.roots[i] = <<names[i], LatestVersion(view, names[i]),
                              Get(view.roots, names[i], None), cell.roots[names[i]]>>
    BY <1>2, <2>1 DEF ListsMoves
  <2> HIDE DEF prepared
  <2> QED
    BY <2>2, <2>3, <2>4 DEF RootSound
<1> HIDE DEF prepared
<1>4. FramesInv(frames, sequence)
  BY CellFramesShape DEF prepared
<1>5. \A i \in 1..n :
         frames[i] =
            IF i = 1 THEN Frame(sequence, "begin", CellMeta(prepared))
            ELSE IF i <= a + 1
                 THEN Frame(sequence + i - 1, "atom", <<prepared.atoms[i - 1][2]>>)
            ELSE IF i <= a + b + 1
                 THEN Frame(sequence + i - 1, "bond", prepared.bonds[i - 1 - a][2])
            ELSE IF i <= a + b + r + 1
                 THEN Frame(sequence + i - 1, "root", prepared.roots[i - 1 - a - b])
            ELSE Frame(sequence + i - 1, "commit", CellMeta(prepared))
  BY DEF CellFrames
<1>6. IsSeq(frames) /\ DOMAIN frames = 1..n
  BY <1>4 DEF FramesInv, CellFrames
<1> HIDE DEF frames, a, b, r
<1>7. Len(frames) = n
  <2>1. Len(frames) \in Nat /\ DOMAIN frames = 1..Len(frames) /\ n \in Nat
    BY <1>1, <1>6 DEF IsSeq
  <2> HIDE DEF n
  <2>2. Len(frames) <= n /\ n <= Len(frames)
    BY <1>6, <2>1
  <2>3. Len(frames) \in Int /\ n \in Int
    BY <2>1
  <2> QED
    BY <2>2, <2>3
<1>8. /\ frames[1] = Frame(sequence, "begin", CellMeta(prepared))
      /\ \A i \in 1..a : frames[1 + i] = Frame(sequence + (1 + i) - 1, "atom", <<prepared.atoms[i][2]>>)
      /\ \A i \in 1..b :
            frames[1 + a + i] = Frame(sequence + (1 + a + i) - 1, "bond", prepared.bonds[i][2])
      /\ \A i \in 1..r :
            frames[1 + a + b + i] = Frame(sequence + (1 + a + b + i) - 1, "root", prepared.roots[i])
      /\ frames[n] = Frame(sequence + n - 1, "commit", CellMeta(prepared))
  <2>1. frames[1] = Frame(sequence, "begin", CellMeta(prepared))
    <3>1. 1 \in 1..n
      BY <1>1
    <3> HIDE DEF n
    <3> QED
      BY <1>5, <3>1
  <2>2. ASSUME NEW i \in 1..a
        PROVE  frames[1 + i] = Frame(sequence + (1 + i) - 1, "atom", <<prepared.atoms[i][2]>>)
    <3>1. 1 + i \in 1..n /\ 1 + i # 1 /\ 1 + i <= a + 1 /\ (1 + i) - 1 = i
      BY <1>1
    <3> HIDE DEF n
    <3> QED
      BY <1>5, <3>1
  <2>3. ASSUME NEW i \in 1..b
        PROVE  frames[1 + a + i] = Frame(sequence + (1 + a + i) - 1, "bond", prepared.bonds[i][2])
    <3>1. /\ 1 + a + i \in 1..n /\ 1 + a + i # 1 /\ ~(1 + a + i <= a + 1)
          /\ 1 + a + i <= a + b + 1 /\ (1 + a + i) - 1 - a = i
      BY <1>1
    <3> HIDE DEF n
    <3> QED
      BY <1>5, <3>1
  <2>4. ASSUME NEW i \in 1..r
        PROVE  frames[1 + a + b + i] =
                   Frame(sequence + (1 + a + b + i) - 1, "root", prepared.roots[i])
    <3>1. /\ 1 + a + b + i \in 1..n /\ 1 + a + b + i # 1 /\ ~(1 + a + b + i <= a + 1)
          /\ ~(1 + a + b + i <= a + b + 1) /\ 1 + a + b + i <= a + b + r + 1
          /\ (1 + a + b + i) - 1 - a - b = i
      BY <1>1
    <3> HIDE DEF n
    <3> QED
      BY <1>5, <3>1
  <2>5. frames[n] = Frame(sequence + n - 1, "commit", CellMeta(prepared))
    <3>1. n \in 1..n /\ n # 1 /\ ~(n <= a + 1) /\ ~(n <= a + b + 1) /\ ~(n <= a + b + r + 1)
      BY <1>1
    <3> HIDE DEF n
    <3> QED
      BY <1>5, <3>1
  <2> QED
    BY <2>1, <2>2, <2>3, <2>4, <2>5
<1>9. \A i \in 1..n : FrameSound(frames[i])
  <2> SUFFICES ASSUME NEW i \in 1..n PROVE FrameSound(frames[i])
    OBVIOUS
  <2>1. ASSUME i # 1, ~(i <= a + 1), ~(i <= a + b + 1), i <= a + b + r + 1
        PROVE  i - 1 - a - b \in 1..r /\ frames[i].payload = prepared.roots[i - 1 - a - b]
    <3>1. i - 1 - a - b \in 1..r
      BY <1>1, <2>1
    <3> HIDE DEF n
    <3>2. frames[i] = Frame(sequence + i - 1, "root", prepared.roots[i - 1 - a - b])
      BY <1>5, <2>1
    <3> QED
      BY <3>1, <3>2 DEF Frame
  <2> HIDE DEF n
  <2>2. /\ frames[i].kind \in {"atom", "bond", "begin", "root", "commit"}
        /\ frames[i].kind = "atom" => frames[i].payload = <<frames[i].payload[1]>>
        /\ frames[i].kind = "root" =>
              i # 1 /\ ~(i <= a + 1) /\ ~(i <= a + b + 1) /\ i <= a + b + r + 1
    <3> DEFINE last == i # 1 /\ ~(i <= a + 1) /\ ~(i <= a + b + 1)
    <3>1. CASE i = 1
      <4>1. frames[i] = Frame(sequence, "begin", CellMeta(prepared))
        BY <1>5, <3>1
      <4> QED
        BY <3>1, <4>1 DEF Frame
    <3>2. CASE i # 1 /\ i <= a + 1
      <4>1. frames[i] = Frame(sequence + i - 1, "atom", <<prepared.atoms[i - 1][2]>>)
        BY <1>5, <3>2
      <4> QED
        BY <3>2, <4>1 DEF Frame
    <3>3. CASE i # 1 /\ ~(i <= a + 1) /\ i <= a + b + 1
      <4>1. frames[i] = Frame(sequence + i - 1, "bond", prepared.bonds[i - 1 - a][2])
        BY <1>5, <3>3
      <4> QED
        BY <3>3, <4>1 DEF Frame
    <3>4. CASE last /\ i <= a + b + r + 1
      <4>1. frames[i] = Frame(sequence + i - 1, "root", prepared.roots[i - 1 - a - b])
        BY <1>5, <3>4
      <4> QED
        BY <3>4, <4>1 DEF Frame
    <3>5. CASE last /\ ~(i <= a + b + r + 1)
      <4>1. frames[i] = Frame(sequence + i - 1, "commit", CellMeta(prepared))
        BY <1>5, <3>5
      <4> QED
        BY <3>5, <4>1 DEF Frame
    <3> QED
      BY <3>1, <3>2, <3>3, <3>4, <3>5
  <2> QED
    BY <1>3, <2>1, <2>2 DEF FrameSound
<1>10. /\ frames[n].sequence = sequence + n - 1 /\ frames[n].kind = "commit"
       /\ frames[n].payload[1] = prepared.identity
  BY <1>8 DEF Frame, CellMeta
<1> HIDE DEF n
<1>11. FrameEffect(frames, at, 1) = <<"none">> /\ frames[1].kind = "begin"
  <2>1. frames[1].kind = "begin"
    BY <1>8 DEF Frame
  <2> QED
    BY <2>1 DEF FrameEffect
<1>12. ASSUME NEW i \in 1..a
       PROVE  FrameEffect(frames, at, 1 + i) =
                  <<"atom", atom_identity(prepared.atoms[i][2]), at + (1 + i)>>
  <2>0. frames[1 + i] = Frame(sequence + (1 + i) - 1, "atom", <<prepared.atoms[i][2]>>)
    BY <1>8
  <2>1. frames[1 + i].kind = "atom" /\ frames[1 + i].payload[1] = prepared.atoms[i][2]
    BY <2>0 DEF Frame
  <2> QED
    BY <2>1 DEF FrameEffect
<1>13. ASSUME NEW i \in 1..b
       PROVE  FrameEffect(frames, at, 1 + a + i) = <<"bond", prepared.bonds[i][2]>>
  <2>0. frames[1 + a + i] = Frame(sequence + (1 + a + i) - 1, "bond", prepared.bonds[i][2])
    BY <1>8
  <2>1. frames[1 + a + i].kind = "bond" /\ frames[1 + a + i].payload = prepared.bonds[i][2]
    BY <2>0 DEF Frame
  <2> QED
    BY <2>1 DEF FrameEffect
<1>14. ASSUME NEW i \in 1..r
       PROVE  FrameEffect(frames, at, 1 + a + b + i) =
                  <<"root", prepared.roots[i], sequence + (1 + a + b + i) - 1, sequence + n - 1,
                    prepared.identity>>
  <2>0. frames[1 + a + b + i] = Frame(sequence + (1 + a + b + i) - 1, "root", prepared.roots[i])
    BY <1>8
  <2>1. /\ frames[1 + a + b + i].kind = "root"
        /\ frames[1 + a + b + i].payload = prepared.roots[i]
        /\ frames[1 + a + b + i].sequence = sequence + (1 + a + b + i) - 1
    BY <2>0 DEF Frame
  <2> QED
    BY <1>7, <1>10, <2>1 DEF FrameEffect
<1>15. FrameEffect(frames, at, n) = <<"commit">>
  BY <1>10 DEF FrameEffect
<1> QED
  BY <1>1, <1>6, <1>7, <1>9, <1>11, <1>12, <1>13, <1>14, <1>15, Zenon
     DEF CellTold, prepared, frames, a, b, r, n

LEMMA AtomsRunKeepIndex ==
    ASSUME NEW view, NEW n, IndexInv(view, n), NEW N \in Nat, NEW e, NEW g,
           IsRun(g, N, view, e), \A i \in 1..N : e[i][1] = "atom"
    PROVE  /\ IndexInv(g[N], n)
           /\ DOMAIN g[N].atoms = DOMAIN view.atoms \cup {e[i][2] : i \in 1..N}
           /\ g[N].bonds = view.bonds
           /\ g[N].roots = view.roots /\ g[N].root_history = view.root_history
<1> DEFINE P(k) == /\ IndexInv(g[k], n)
                   /\ DOMAIN g[k].atoms = DOMAIN view.atoms \cup {e[i][2] : i \in 1..k}
                   /\ g[k].bonds = view.bonds
                   /\ g[k].roots = view.roots /\ g[k].root_history = view.root_history
           T == {k \in 0..N : P(k)}
<1>1. 0 \in T
  <2>1. g[0] = view /\ 0 \in 0..N /\ {e[i][2] : i \in 1..0} = {}
    BY DEF IsRun
  <2>2. P(0)
    BY <2>1
  <2> HIDE DEF P
  <2> QED
    BY <2>1, <2>2
<1>2. ASSUME NEW k \in 0..N, k \in T, k < N PROVE k + 1 \in T
  <2> DEFINE x == e[k + 1]
             after == InsertAtom(g[k], x[2], x[3])
  <2>1. P(k) /\ k + 1 \in 1..N /\ k + 1 \in 0..N /\ (k + 1) - 1 = k
    BY <1>2
  <2>2. g[k + 1] = after
    <3>1. g[k + 1] = Effect(g[k], x) /\ x[1] = "atom"
      BY <2>1 DEF IsRun
    <3> HIDE DEF x
    <3> QED
      BY <3>1 DEF Effect
  <2>3. {e[i][2] : i \in 1..(k + 1)} = {e[i][2] : i \in 1..k} \cup {x[2]}
    <3>1. 1..(k + 1) = 1..k \cup {k + 1}
      BY <2>1
    <3> QED
      BY <3>1
  <2> HIDE DEF x
  <2>4. DOMAIN g[k] = IndexFields
    BY <2>1 DEF IndexInv, IndexFields
  <2>5. /\ DOMAIN after = IndexFields
        /\ DOMAIN after.atoms = DOMAIN g[k].atoms \cup {x[2]}
        /\ after.bonds = g[k].bonds /\ after.outgoing = g[k].outgoing
        /\ after.roots = g[k].roots /\ after.root_history = g[k].root_history
    BY <2>4, AtomInserted
  <2> HIDE DEF after
  <2>6. IndexInv(after, n)
    <3>1. DOMAIN g[k].atoms \subseteq DOMAIN after.atoms
      BY <2>5
    <3> QED
      BY <2>1, <2>5, <3>1, AtomsKeepIndex
  <2>7. P(k + 1)
    BY <2>1, <2>2, <2>3, <2>5, <2>6
  <2> HIDE DEF P
  <2> QED
    BY <2>1, <2>7
<1> HIDE DEF T, P
<1>3. \A k \in 0..N : k \in T
  BY <1>1, <1>2, InductionUpTo
<1>4. P(N)
  BY <1>3 DEF T
<1> QED
  BY <1>4 DEF P

(* What a writer that knows view writes for a cell, and then takes into    *)
(* its index.                                                              *)
LEMMA PreparedKeepsIndex ==
    ASSUME NEW cell \in Cells, NEW view, NEW sequence \in Nat, NEW at,
           IndexInv(view, sequence), CellAdmissible(view, cell),
           NEW frames, frames = CellFrames(prepare_cell(view, cell), sequence)
    PROVE  IndexInv(ApplyCommitted(view, frames, at), sequence + Len(frames))
<1> DEFINE prepared == prepare_cell(view, cell)
           a == Len(prepared.atoms)
           b == Len(prepared.bonds)
           r == Len(prepared.roots)
           n == a + b + r + 2
           m == sequence + n
           e == [i \in 1..n |-> FrameEffect(frames, at, i)]
<1>1. /\ a \in Nat /\ b \in Nat /\ r \in Nat
      /\ IsSeq(frames) /\ Len(frames) = n
      /\ FrameEffect(frames, at, 1) = <<"none">>
      /\ \A i \in 1..a : FrameEffect(frames, at, 1 + i) =
             <<"atom", atom_identity(prepared.atoms[i][2]), at + (1 + i)>>
      /\ \A i \in 1..b : FrameEffect(frames, at, 1 + a + i) = <<"bond", prepared.bonds[i][2]>>
      /\ \A i \in 1..r : FrameEffect(frames, at, 1 + a + b + i) =
             <<"root", prepared.roots[i], sequence + (1 + a + b + i) - 1, sequence + n - 1,
               prepared.identity>>
      /\ FrameEffect(frames, at, n) = <<"commit">>
  <2>1. CellTold(frames, prepared, sequence, at)
    BY CellEffects
  <2> HIDE DEF prepared
  <2> QED
    BY <2>1, Zenon DEF CellTold
<1>2. PICK g : IsRun(g, n, view, e) /\ ApplyCommitted(view, frames, at) = g[n]
  BY <1>1, CommittedRuns, Zenon
<1>3. /\ Lists(prepared.atoms, NewAtoms(view, cell))
      /\ Lists(prepared.bonds, NewBondIds(view, cell))
      /\ \E names : ListsMoves(prepared.roots, names, view, cell)
  BY PreparedLists
<1>0. a \in Nat /\ b \in Nat /\ r \in Nat
  BY <1>1
<1> HIDE DEF prepared, a, b, r
<1>4. n \in Nat /\ m \in Nat /\ sequence <= m /\ sequence + n - 1 \in Nat /\ sequence + n - 1 < m
  BY <1>1
<1>5. /\ e[1] = <<"none">>
      /\ \A i \in 1..a : e[1 + i] = <<"atom", atom_identity(prepared.atoms[i][2]), at + (1 + i)>>
      /\ \A i \in 1..b : e[1 + a + i] = <<"bond", prepared.bonds[i][2]>>
      /\ \A i \in 1..r : e[1 + a + b + i] =
             <<"root", prepared.roots[i], sequence + (1 + a + b + i) - 1, sequence + n - 1,
               prepared.identity>>
      /\ e[n] = <<"commit">>
  <2>1. /\ 1 \in 1..n /\ n \in 1..n
        /\ \A i \in 1..a : 1 + i \in 1..n
        /\ \A i \in 1..b : 1 + a + i \in 1..n
        /\ \A i \in 1..r : 1 + a + b + i \in 1..n
    <3> HIDE DEF e
    <3> QED
      BY <1>0
  <2>2. \A i \in 1..n : e[i] = FrameEffect(frames, at, i)
    OBVIOUS
  <2> HIDE DEF e, n
  <2> QED
    BY <1>1, <2>1, <2>2
<1> HIDE DEF e
<1>6. IndexInv(view, m)
  <2> HIDE DEF m
  <2> QED
    BY <1>4, IndexLater
<1>7. g[1] = view
  <2>1. 1 \in 1..n /\ 1 - 1 = 0
    BY <1>1
  <2> HIDE DEF n
  <2>2. g[0] = view /\ g[1] = Effect(g[0], e[1])
    BY <1>2, <2>1 DEF IsRun
  <2> QED
    BY <1>5, <2>2 DEF Effect
<1> HIDE DEF m
(* the atoms *)
<1> DEFINE w == g[1 + a]
<1>8. /\ IndexInv(w, m)
      /\ DOMAIN w.atoms = DOMAIN view.atoms \cup cell.atoms
      /\ w.bonds = view.bonds
      /\ w.roots = view.roots /\ w.root_history = view.root_history
  <2> DEFINE h == [k \in 0..a |-> g[1 + k]]
             d == [k \in 1..a |-> e[1 + k]]
  <2>1. 1 \in Nat /\ 1 + a <= n
    BY <1>1
  <2>0. (\A k \in 0..a : h[k] = g[1 + k]) /\ (\A k \in 1..a : d[k] = e[1 + k])
    OBVIOUS
  <2>2. IsRun(h, a, view, d)
    <3> HIDE DEF n, h, d
    <3>1. IsRun(h, a, g[1], d)
      BY <1>0, <1>2, <1>4, <2>0, <2>1, RunSegment
    <3> QED
      BY <1>7, <3>1
  <2>3. h[a] = w
    BY <1>0
  <2>4. \A i \in 1..a : d[i][1] = "atom" /\ d[i][2] = prepared.atoms[i]
    <3> SUFFICES ASSUME NEW i \in 1..a PROVE d[i][1] = "atom" /\ d[i][2] = prepared.atoms[i]
      OBVIOUS
    <3>1. d[i] = <<"atom", atom_identity(prepared.atoms[i][2]), at + (1 + i)>>
      BY <1>5
    <3>2. prepared.atoms[i] \in NewAtoms(view, cell)
      BY <1>3 DEF Lists, a
    <3>3. prepared.atoms[i] = atom_identity(prepared.atoms[i][2])
      BY <3>2, CellAssumption DEF NewAtoms
    <3> QED
      BY <3>1, <3>3
  <2> HIDE DEF h, d, w
  <2>5. /\ IndexInv(h[a], m)
        /\ DOMAIN h[a].atoms = DOMAIN view.atoms \cup {d[i][2] : i \in 1..a}
        /\ h[a].bonds = view.bonds
        /\ h[a].roots = view.roots /\ h[a].root_history = view.root_history
    BY <1>1, <1>6, <2>2, <2>4, AtomsRunKeepIndex
  <2>6. {d[i][2] : i \in 1..a} = NewAtoms(view, cell)
    BY <1>3, <2>4 DEF Lists, a
  <2>7. DOMAIN view.atoms \cup NewAtoms(view, cell) = DOMAIN view.atoms \cup cell.atoms
    BY DEF NewAtoms, contains_atom
  <2> QED
    BY <2>3, <2>5, <2>6, <2>7
(* the bonds *)
<1> DEFINE v == g[1 + a + b]
           bonds == [i \in 1..b |-> prepared.bonds[i][2]]
<1>9. IsSeq(bonds) /\ Len(bonds) = b /\ \A i \in 1..b : bonds[i] = prepared.bonds[i][2]
  BY <1>1 DEF IsSeq
<1>10. \A i \in 1..b : bonds[i] \in NewBonds(view, cell) /\ prepared.bonds[i] = bond_identity(bonds[i])
  <2> SUFFICES ASSUME NEW i \in 1..b
               PROVE  bonds[i] \in NewBonds(view, cell) /\ prepared.bonds[i] = bond_identity(bonds[i])
    OBVIOUS
  <2>1. prepared.bonds[i] \in NewBondIds(view, cell)
    BY <1>3 DEF Lists, b
  <2>2. PICK bond \in NewBonds(view, cell) : prepared.bonds[i] = <<"bond", bond>>
    BY <2>1 DEF NewBondIds, bond_identity
  <2>3. bonds[i] = bond
    BY <1>9, <2>2
  <2> QED
    BY <2>2, <2>3 DEF bond_identity
<1> HIDE DEF bonds
<1>11. {bonds[i] : i \in 1..b} = NewBonds(view, cell)
  <2>1. ASSUME NEW bond \in NewBonds(view, cell) PROVE \E i \in 1..b : bonds[i] = bond
    <3>1. bond_identity(bond) \in NewBondIds(view, cell)
      BY DEF NewBondIds
    <3>2. PICK i \in 1..b : prepared.bonds[i] = bond_identity(bond)
      BY <1>3, <3>1 DEF Lists, b
    <3>3. bonds[i] = bond
      BY <1>9, <3>2 DEF bond_identity
    <3> QED
      BY <3>3
  <2> QED
    BY <1>10, <2>1
<1>12. /\ IndexInv(v, m)
       /\ v.atoms = w.atoms /\ v.bonds = view.bonds \cup NewBonds(view, cell)
       /\ v.roots = view.roots /\ v.root_history = view.root_history
  <2> DEFINE k0 == 1 + a
             h == [k \in 0..b |-> g[k0 + k]]
             d == [k \in 1..b |-> e[k0 + k]]
             f == [i \in 1..Len(bonds) |-> <<"bond", bonds[i]>>]
  <2>1. k0 \in Nat /\ k0 + b <= n
    BY <1>1
  <2>2. h[b] = v
    BY <1>1
  <2>3. d = f
    BY <1>5, <1>9
  <2> HIDE DEF v, f, k0
  <2>0. (\A k \in 0..b : h[k] = g[k0 + k]) /\ (\A k \in 1..b : d[k] = e[k0 + k])
    OBVIOUS
  <2>4. IsRun(h, b, g[k0], d)
    <3> HIDE DEF n, h, d
    <3> QED
      BY <1>0, <1>2, <1>4, <2>0, <2>1, RunSegment
  <2> HIDE DEF h, d, w
  <2>5. IsRun(h, Len(bonds), w, f)
    BY <1>9, <2>3, <2>4 DEF k0, w
  <2>6. /\ \A i \in 1..Len(bonds) : bonds[i] \notin w.bonds
        /\ \A i, j \in 1..Len(bonds) : i < j => bonds[i] # bonds[j]
    <3>1. \A i, j \in 1..b : i < j => prepared.bonds[i] # prepared.bonds[j]
      BY <1>3 DEF Lists, b
    <3> QED
      BY <1>8, <1>9, <1>10, <3>1 DEF NewBonds
  <2>7. \A i \in 1..Len(bonds) : validate_bond_members(w, bonds[i], {})
    <3> SUFFICES ASSUME NEW i \in 1..Len(bonds) PROVE validate_bond_members(w, bonds[i], {})
      OBVIOUS
    <3>1. bonds[i] \in NewBonds(view, cell)
      BY <1>9, <1>10
    <3>2. {bonds[i][1], bonds[i][2], bonds[i][3]} \subseteq DOMAIN w.atoms
      BY <1>8, <3>1 DEF CellAdmissible
    <3> QED
      BY <3>2 DEF validate_bond_members, contains_atom
  <2>8. LET after == h[Len(bonds)] IN
        /\ IndexInv(after, m)
        /\ after.atoms = w.atoms
        /\ after.bonds = w.bonds \cup {bonds[i] : i \in 1..Len(bonds)}
        /\ after.roots = w.roots /\ after.root_history = w.root_history
    BY <1>8, <1>9, <2>5, <2>6, <2>7, BondsKeepIndex DEF f
  <2> QED
    BY <1>8, <1>9, <1>11, <2>2, <2>8
(* the roots *)
<1> DEFINE u == g[1 + a + b + r]
<1>13. PICK names : ListsMoves(prepared.roots, names, view, cell)
  BY <1>3
<1>14. Len(names) = r
  BY <1>13 DEF ListsMoves, r
<1>15. IndexInv(u, m)
  <2> DEFINE k0 == 1 + a + b
             h == [k \in 0..r |-> g[k0 + k]]
             d == [k \in 1..r |-> e[k0 + k]]
  <2>1. k0 \in Nat /\ k0 + r <= n
    BY <1>1
  <2>2. h[r] = u
    BY <1>1
  <2>3. \A i \in 1..r : /\ d[i][1] = "root" /\ d[i][2] = prepared.roots[i]
                        /\ d[i][4] = sequence + n - 1
    <3> HIDE DEF n
    <3> QED
      BY <1>5
  <2> HIDE DEF u, k0
  <2>0. (\A k \in 0..r : h[k] = g[k0 + k]) /\ (\A k \in 1..r : d[k] = e[k0 + k])
    OBVIOUS
  <2>4. IsRun(h, r, g[k0], d)
    <3> HIDE DEF n, h, d
    <3> QED
      BY <1>0, <1>2, <1>4, <2>0, <2>1, RunSegment
  <2> HIDE DEF h, d, v, w
  <2>5. IsRun(h, r, v, d)
    BY <2>4 DEF k0, v
  <2>6. \A i \in 1..r : /\ names[i] \in MovedRoots(view, cell)
                        /\ prepared.roots[i][1] = names[i]
                        /\ prepared.roots[i][2] = LatestVersion(view, names[i])
                        /\ prepared.roots[i][3] = Get(view.roots, names[i], None)
                        /\ prepared.roots[i][4] = cell.roots[names[i]]
    BY <1>13, <1>14 DEF ListsMoves, Lists
  <2>7. \A i \in 1..r : RootFits(v, m, d[i])
    <3> SUFFICES ASSUME NEW i \in 1..r PROVE RootFits(v, m, d[i])
      OBVIOUS
    <3> DEFINE name == names[i]
               target == cell.roots[name]
    <3>1. name \in DOMAIN cell.roots /\ Get(view.roots, name, None) # target
      BY <2>6 DEF MovedRoots
    <3>2. name \in DOMAIN w.atoms
      BY <1>8, <3>1 DEF CellAdmissible
    <3>3. \/ target = None
          \/ target \in DOMAIN w.atoms
          \/ \E bond \in view.bonds \cup cell.bonds : target = bond_identity(bond)
      BY <1>8, <3>1 DEF CellAdmissible
    <3>4. view.bonds \cup cell.bonds = v.bonds
      BY <1>12 DEF NewBonds
    <3> HIDE DEF name, target
    <3>5. target = None \/ contains_fact(v, target)
      BY <1>12, <3>3, <3>4 DEF contains_fact, contains_atom
    <3>6. contains_atom(v, name)
      BY <1>12, <3>2 DEF contains_atom
    <3>7. LatestVersion(v, name) = LatestVersion(view, name)
      BY <1>12 DEF LatestVersion
    <3>8. /\ d[i][2][1] = name /\ d[i][2][2] = LatestVersion(view, name)
          /\ d[i][2][3] = Get(view.roots, name, None) /\ d[i][2][4] = target
      BY <2>3, <2>6 DEF name, target
    <3> HIDE DEF n
    <3> QED
      BY <1>4, <1>12, <2>3, <3>1, <3>5, <3>6, <3>7, <3>8 DEF RootFits
  <2>8. \A i, j \in 1..r : i < j => d[i][2][1] # d[j][2][1]
    <3>1. \A i, j \in 1..r : i < j => names[i] # names[j]
      BY <1>13, <1>14 DEF ListsMoves, Lists
    <3> QED
      BY <2>3, <2>6, <3>1
  <2>9. IndexInv(h[r], m)
    BY <1>1, <1>12, <2>5, <2>7, <2>8, RootsKeepIndex
  <2> QED
    BY <2>2, <2>9
(* the commit *)
<1>16. g[n] = CellCounted(u)
  <2>1. n \in 1..n /\ n - 1 = 1 + a + b + r
    BY <1>1
  <2> HIDE DEF n
  <2>2. g[n] = Effect(g[n - 1], e[n])
    BY <1>2, <2>1 DEF IsRun
  <2> QED
    BY <1>5, <2>1, <2>2 DEF Effect, CellCounted
<1> HIDE DEF u
<1> DEFINE after == CellCounted(u)
<1>17. DOMAIN u = IndexFields
  BY <1>15 DEF IndexInv, IndexFields
<1>18. /\ DOMAIN after = IndexFields /\ after.atoms = u.atoms
       /\ after.bonds = u.bonds /\ after.outgoing = u.outgoing
       /\ after.roots = u.roots /\ after.root_history = u.root_history
  BY <1>17 DEF CellCounted, IndexFields
<1> HIDE DEF after
<1>19. IndexInv(after, m)
  BY <1>15, <1>18, AtomsKeepIndex
<1> QED
  BY <1>1, <1>2, <1>16, <1>19, Zenon DEF after, m

LEMMA EmptyIndexSound == IndexInv(EmptyIndex, 0)
<1>1. /\ EmptyIndex.bonds = {} /\ DOMAIN EmptyIndex.roots = {} /\ DOMAIN EmptyIndex.outgoing = {}
      /\ DOMAIN EmptyIndex.root_history = {} /\ DOMAIN EmptyIndex = IndexFields
      /\ EmptyIndex.roots = [key \in {} |-> None]
  BY DEF EmptyIndex, EmptyMap, IndexFields
<1>2. IsMap(EmptyIndex.roots)
  BY <1>1 DEF IsMap
<1> QED
  BY <1>1, <1>2 DEF IndexInv, ClosedUnderReference, IndexFields

(* A scan begins with an empty index and no open cell.                     *)
LEMMA CursorStarts ==
    ASSUME NEW c, c.offset = 0, c.cell = NoCell, c.db = EmptyIndex
    PROVE  CursorInv(c)
  BY EmptyIndexSound DEF CursorInv, NoCell, IsCell, Valid

(* One frame of a scan. *)
LEMMA FrameScanned ==
    ASSUME NEW view, NEW cell, NEW frame, NEW n \in Nat,
           IsCell(cell), cell.open => cell.start < n /\ CellInv(cell, view),
           IndexInv(view, IF cell.open THEN cell.start ELSE n),
           FrameSound(frame), frame.sequence = n, FrameBalances(view, cell, frame),
           NEW after, after = IndexAfter(view, cell, frame, n + 1),
           NEW next, next = CellAfter(cell, frame, n + 1)
    PROVE  /\ IsCell(next)
           /\ next.open => next.start < n + 1 /\ CellInv(next, after)
           /\ IndexInv(after, IF next.open THEN next.start ELSE n + 1)
<1>1. IsCell(next)
  BY CellAfterFrame
<1>2. n + 1 \in Nat /\ n <= n + 1 /\ cell.start \in Nat
  BY DEF IsCell
<1>3. DOMAIN view = IndexFields
  BY DEF IndexInv, IndexFields
<1>4. CASE frame.kind = "atom" /\ ~cell.open
  <2>1. after = InsertAtom(view, atom_identity(frame.payload[1]), n + 1) /\ next = cell
    BY <1>4 DEF IndexAfter, CellAfter
  <2>2. /\ DOMAIN after = IndexFields
        /\ DOMAIN view.atoms \subseteq DOMAIN after.atoms
        /\ after.bonds = view.bonds /\ after.outgoing = view.outgoing
        /\ after.roots = view.roots /\ after.root_history = view.root_history
    BY <1>3, <2>1, AtomInserted
  <2>3. IndexInv(after, n)
    BY <1>4, <2>2, AtomsKeepIndex
  <2>4. IndexInv(after, n + 1)
    BY <1>2, <2>3, IndexLater
  <2> QED
    BY <1>1, <1>4, <2>1, <2>4
<1>5. CASE frame.kind = "bond" /\ ~cell.open
  <2>1. after = InsertBond(view, frame.payload) /\ next = cell
    BY <1>5 DEF IndexAfter, CellAfter
  <2>2. frame.payload \notin view.bonds /\ validate_bond_members(view, frame.payload, {})
    BY <1>5 DEF FrameBalances
  <2>3. IndexInv(after, n)
    BY <1>5, <2>1, <2>2, BondKeepsIndex
  <2>4. IndexInv(after, n + 1)
    BY <1>2, <2>3, IndexLater
  <2> QED
    BY <1>1, <1>5, <2>1, <2>4
<1>6. CASE frame.kind = "begin"
  <2>1. after = view /\ ~cell.open
    BY <1>6 DEF IndexAfter, FrameBalances
  <2>2. /\ next.open /\ next.start = n
        /\ next.bonds = <<>> /\ next.roots = <<>>
    BY <1>6 DEF CellAfter, NoCell
  <2>3. CellInv(next, view)
    BY <2>2 DEF CellInv, IsSeq
  <2> QED
    BY <1>1, <2>1, <2>2, <2>3
<1>7. CASE frame.kind = "commit"
  <2>1. cell.open /\ CellBalances(view, cell)
    BY <1>7 DEF FrameBalances
  <2>2. after = ApplyCell(view, cell, n) /\ next = NoCell
    BY <1>7 DEF IndexAfter, CellAfter
  <2>3. IndexInv(after, n + 1)
    BY <1>2, <2>1, <2>2, ApplyCellKeepsIndex
  <2>4. ~next.open
    BY <2>2 DEF NoCell
  <2> QED
    BY <1>1, <2>3, <2>4
<1>8. CASE frame.kind = "atom" /\ cell.open
  <2>1. after = view /\ next = [cell EXCEPT !.atoms = Insert(@, atom_identity(frame.payload[1]), n + 1)]
    BY <1>8 DEF IndexAfter, CellAfter
  <2>2. next.open /\ next.start = cell.start /\ next.bonds = cell.bonds /\ next.roots = cell.roots
    BY <1>8, <2>1 DEF IsCell
  <2>3. CellInv(next, view)
    BY <1>8, <2>2 DEF CellInv
  <2> QED
    BY <1>1, <1>2, <1>8, <2>1, <2>2, <2>3
<1>9. CASE frame.kind = "bond" /\ cell.open
  <2> DEFINE bonds == Append(cell.bonds, frame.payload)
  <2>1. after = view /\ next = [cell EXCEPT !.bonds = Append(@, frame.payload)]
    BY <1>9 DEF IndexAfter, CellAfter
  <2>2. next.open /\ next.start = cell.start /\ next.bonds = bonds /\ next.roots = cell.roots
    BY <1>9, <2>1 DEF IsCell
  <2>3. frame.payload \notin view.bonds /\ frame.payload \notin ToSet(cell.bonds)
    BY <1>9 DEF FrameBalances
  <2>4. IsSeq(cell.bonds) /\ Len(cell.bonds) \in Nat /\ DOMAIN cell.bonds = 1..Len(cell.bonds)
    BY <1>9 DEF CellInv, IsSeq
  <2>5. /\ IsSeq(bonds) /\ Len(bonds) = Len(cell.bonds) + 1
        /\ bonds[Len(cell.bonds) + 1] = frame.payload
        /\ \A i \in 1..Len(cell.bonds) : bonds[i] = cell.bonds[i]
    BY <2>4, AppendSeq
  <2>6. \A i \in 1..Len(cell.bonds) : cell.bonds[i] # frame.payload
    BY <2>3, <2>4 DEF ToSet
  <2> HIDE DEF bonds
  <2>7. ASSUME NEW i \in 1..Len(bonds)
        PROVE  /\ bonds[i] \notin view.bonds
               /\ \A j \in 1..Len(bonds) : i < j => bonds[i] # bonds[j]
    <3>1. i \in 1..Len(cell.bonds) \/ i = Len(cell.bonds) + 1
      BY <2>4, <2>5
    <3>2. \A j \in 1..Len(bonds) : i < j =>
             /\ i \in 1..Len(cell.bonds)
             /\ j \in 1..Len(cell.bonds) \/ j = Len(cell.bonds) + 1
      BY <2>4, <2>5
    <3> QED
      BY <1>9, <2>3, <2>5, <2>6, <3>1, <3>2 DEF CellInv
  <2>8. CellInv(next, view)
    BY <1>9, <2>2, <2>5, <2>7 DEF CellInv
  <2> QED
    BY <1>1, <1>2, <1>9, <2>1, <2>2, <2>8
<1>10. CASE frame.kind = "root"
  <2> DEFINE x == [change |-> frame.payload, sequence |-> frame.sequence]
             roots == Append(cell.roots, x)
  <2>0. cell.open
    BY <1>10 DEF FrameBalances
  <2>1. after = view /\ next = [cell EXCEPT !.roots = Append(@, x)]
    BY <1>10, <2>0 DEF IndexAfter, CellAfter
  <2>2. next.open /\ next.start = cell.start /\ next.bonds = cell.bonds /\ next.roots = roots
    BY <2>0, <2>1 DEF IsCell
  <2>3. RootSound(x.change)
    BY <1>10 DEF FrameSound
  <2>4. IsSeq(cell.roots) /\ Len(cell.roots) \in Nat
    BY <2>0 DEF CellInv, IsSeq
  <2> HIDE DEF x
  <2>5. /\ IsSeq(roots) /\ Len(roots) = Len(cell.roots) + 1
        /\ roots[Len(cell.roots) + 1] = x
        /\ \A i \in 1..Len(cell.roots) : roots[i] = cell.roots[i]
    BY <2>4, AppendSeq
  <2> HIDE DEF roots
  <2>6. ASSUME NEW i \in 1..Len(roots) PROVE RootSound(roots[i].change)
    <3>1. i \in 1..Len(cell.roots) \/ i = Len(cell.roots) + 1
      BY <2>4, <2>5
    <3> QED
      BY <2>0, <2>3, <2>5, <3>1 DEF CellInv
  <2>7. CellInv(next, view)
    BY <2>0, <2>2, <2>5, <2>6 DEF CellInv
  <2> QED
    BY <1>1, <1>2, <2>0, <2>1, <2>2, <2>7
<1> QED
  BY <1>4, <1>5, <1>6, <1>7, <1>8, <1>9, <1>10 DEF FrameSound

LEMMA PreparedSound ==
    ASSUME NEW frames, NEW view, NEW n \in Nat, Prepared(frames, view, n)
    PROVE  /\ IsSeq(frames) /\ Len(frames) \in Nat /\ Len(frames) > 0
           /\ \A i \in 1..Len(frames) : FrameSound(frames[i])
<1>1. ASSUME NEW kind \in {"atom", "bond"}, NEW payload, frames = <<Frame(n, kind, payload)>>,
             kind = "atom" => payload = <<payload[1]>>
      PROVE  /\ IsSeq(frames) /\ Len(frames) \in Nat /\ Len(frames) > 0
             /\ \A i \in 1..Len(frames) : FrameSound(frames[i])
  <2>1. IsSeq(frames) /\ Len(frames) = 1 /\ frames[1] = Frame(n, kind, payload)
    BY <1>1 DEF IsSeq
  <2>2. FrameSound(frames[1])
    BY <1>1, <2>1 DEF Frame, FrameSound
  <2> QED
    BY <2>1, <2>2
<1>2. ASSUME NEW cell \in Cells, frames = CellFrames(prepare_cell(view, cell), n)
      PROVE  /\ IsSeq(frames) /\ Len(frames) \in Nat /\ Len(frames) > 0
             /\ \A i \in 1..Len(frames) : FrameSound(frames[i])
  <2>1. CellTold(frames, prepare_cell(view, cell), n, 0)
    BY <1>2, CellEffects
  <2> DEFINE a == Len(prepare_cell(view, cell).atoms)
             b == Len(prepare_cell(view, cell).bonds)
             r == Len(prepare_cell(view, cell).roots)
             N == a + b + r + 2
  <2>2. /\ a \in Nat /\ b \in Nat /\ r \in Nat /\ IsSeq(frames) /\ Len(frames) = N
        /\ \A i \in 1..N : FrameSound(frames[i])
    BY <2>1, Zenon DEF CellTold
  <2> HIDE DEF a, b, r
  <2>3. N \in Nat /\ N > 0
    BY <2>2
  <2> HIDE DEF N
  <2> QED
    BY <2>2, <2>3
<1> QED
  BY <1>1, <1>2 DEF Prepared

(* The index of the writer after its write. *)
LEMMA CommittedKeepsIndex ==
    ASSUME NEW j, NEW view, NEW n \in Nat, IndexInv(view, n), Prepared(j.frames, view, n)
    PROVE  IndexInv(Committed(view, j), n + Len(j.frames))
<1>1. DOMAIN view = IndexFields /\ n + 1 \in Nat /\ n <= n + 1
  BY DEF IndexInv, IndexFields
<1>2. ASSUME NEW bytes, j.frames = <<Frame(n, "atom", <<bytes>>)>>
      PROVE  IndexInv(Committed(view, j), n + Len(j.frames))
  <2> DEFINE after == InsertAtom(view, atom_identity(j.frames[1].payload[1]), j.start + 1)
  <2>1. Len(j.frames) = 1 /\ j.frames[1].kind = "atom"
    BY <1>2 DEF Frame
  <2>2. Committed(view, j) = after
    BY <2>1, Zenon DEF Committed
  <2>3. /\ DOMAIN after = IndexFields
        /\ DOMAIN view.atoms \subseteq DOMAIN after.atoms
        /\ after.bonds = view.bonds /\ after.outgoing = view.outgoing
        /\ after.roots = view.roots /\ after.root_history = view.root_history
    BY <1>1, AtomInserted
  <2> HIDE DEF after
  <2>4. IndexInv(after, n)
    BY <2>3, AtomsKeepIndex
  <2> QED
    BY <1>1, <2>1, <2>2, <2>4, IndexLater
<1>3. ASSUME NEW bond, j.frames = <<Frame(n, "bond", bond)>>,
             validate_bond_members(view, bond, {}), bond \notin view.bonds
      PROVE  IndexInv(Committed(view, j), n + Len(j.frames))
  <2>1. Len(j.frames) = 1 /\ j.frames[1].kind = "bond" /\ j.frames[1].payload = bond
    BY <1>3 DEF Frame
  <2>2. Committed(view, j) = InsertBond(view, j.frames[1].payload)
    BY <2>1 DEF Committed
  <2>3. IndexInv(InsertBond(view, bond), n)
    BY <1>3, BondKeepsIndex
  <2> QED
    BY <1>1, <2>1, <2>2, <2>3, IndexLater
<1>4. ASSUME NEW cell \in Cells, j.frames = CellFrames(prepare_cell(view, cell), n),
             CellAdmissible(view, cell)
      PROVE  IndexInv(Committed(view, j), n + Len(j.frames))
  <2>1. CellTold(j.frames, prepare_cell(view, cell), n, 0)
    BY <1>4, CellEffects
  <2>2. j.frames[1].kind = "begin"
    BY <2>1 DEF CellTold
  <2>3. Committed(view, j) = ApplyCommitted(view, j.frames, j.start)
    BY <2>2 DEF Committed
  <2>4. IndexInv(ApplyCommitted(view, j.frames, j.start), n + Len(j.frames))
    BY <1>4, PreparedKeepsIndex
  <2> QED
    BY <2>3, <2>4
<1> QED
  BY <1>2, <1>3, <1>4 DEF Prepared

-----------------------------------------------------------------------------
(* The steps, and what each changes of the handles *)

(* The step leaves the view and the work of q alone. *)
Unmoved(q) ==
    /\ pc'[q] = pc[q] /\ db'[q] = db[q] /\ next_sequence'[q] = next_sequence[q]
    /\ job'[q] = job[q]
    /\ cursor'[q].offset = cursor[q].offset /\ cursor'[q].cell = cursor[q].cell
    /\ cursor'[q].db = cursor[q].db

LEMMA UnmovedHandle ==
    ASSUME NEW q \in Proc, HandleInv(q), Unmoved(q)
    PROVE  HandleInv(q)'
<1>1. CursorInv(cursor[q]) => CursorInv(cursor'[q])
  BY DEF CursorInv, Valid, Unmoved
<1> QED
  BY <1>1 DEF HandleInv, Unmoved

(* A step keeps it if every handle is unmoved or in order afterwards.      *)
LEMMA ContentStep ==
    ASSUME ContentInv, SoundLog(disk'), synced' \in 0..Len(disk'), DOMAIN db' = Proc,
           \A q \in Proc : Unmoved(q) \/ HandleInv(q)',
           \A q \in Proc : lease' = q => ReachInv(q)'
    PROVE  ContentInv'
<1>1. \A q \in Proc : HandleInv(q)'
  BY UnmovedHandle DEF ContentInv
<1> QED
  BY <1>1 DEF ContentInv

(* A step under which the file and the lock stay as they are. *)
LEMMA HandleStep ==
    ASSUME ContentInv, disk' = disk, synced' \in 0..Len(disk), lease' = lease, DOMAIN db' = Proc,
           NEW p \in Proc, HandleInv(p)', lease = p => ReachInv(p)',
           \A q \in Proc \ {p} : Unmoved(q)
    PROVE  ContentInv'
<1>1. \A q \in Proc : lease' = q => ReachInv(q)'
  <2> SUFFICES ASSUME NEW q \in Proc, lease' = q PROVE ReachInv(q)'
    OBVIOUS
  <2>1. CASE q = p
    BY <2>1
  <2>2. CASE q # p
    BY <2>2 DEF ContentInv, ReachInv, Unmoved
  <2> QED
    BY <2>1, <2>2
<1>2. \A q \in Proc : Unmoved(q) \/ HandleInv(q)'
  OBVIOUS
<1>3. SoundLog(disk') /\ synced' \in 0..Len(disk')
  BY DEF ContentInv
<1> QED
  BY <1>1, <1>2, <1>3, ContentStep

LEMMA ReleaseContent ==
    ASSUME HandlesInv, ContentInv, NEW S \in SUBSET Proc, NEW value, Release(S, value),
           SoundLog(disk'), synced' \in 0..Len(disk'), disk' = disk \/ S = Proc
    PROVE  ContentInv'
<1>1. ASSUME NEW q \in S PROVE HandleInv(q)'
  <2>1. q \in Proc /\ pc'[q] = "closed" /\ db'[q] = EmptyIndex /\ next_sequence'[q] = 0
    BY DEF Release, Reset
  <2> QED
    BY <2>1, EmptyIndexSound DEF HandleInv, WriteStates
<1>2. ASSUME NEW q \in Proc, q \notin S PROVE Unmoved(q)
  BY <1>2 DEF Release, Reset, Unmoved
<1>3. ASSUME NEW q \in Proc, lease' = q PROVE ReachInv(q)'
  <2>1. lease = q /\ q \notin S
    BY <1>3, ProcAssumption DEF Release, Unlocked
  <2>2. disk' = disk
    BY <2>1
  <2> QED
    BY <1>2, <2>1, <2>2 DEF ContentInv, ReachInv, Unmoved
<1>4. DOMAIN db' = Proc
  BY DEF Release, Reset
<1> QED
  BY <1>1, <1>2, <1>3, <1>4, ContentStep

LEMMA FileKept ==
    ASSUME ContentInv, UNCHANGED <<disk, synced>>
    PROVE  SoundLog(disk') /\ synced' \in 0..Len(disk')
  BY DEF ContentInv

LEMMA FailContent ==
    ASSUME HandlesInv, ContentInv, NEW p \in Proc, NEW value, Fail(p, value),
           UNCHANGED <<disk, synced>>
    PROVE  ContentInv'
<1>1. CASE ~cursor[p].refresh
  BY <1>1, ReleaseContent, FileKept DEF Fail
<1>2. CASE cursor[p].refresh
  <2>1. /\ pc' = [pc EXCEPT ![p] = "ready"] /\ cursor' = [cursor EXCEPT ![p] = NoScan]
        /\ UNCHANGED <<lease, mode, db, next_sequence, provisional, job>>
    BY <1>2 DEF Fail
  <2>2. /\ DOMAIN pc = Proc /\ DOMAIN cursor = Proc
    BY DEF HandlesInv
  <2>3. HandleInv(p)' /\ ReachInv(p)'
    BY <2>1, <2>2 DEF ContentInv, HandleInv, ReachInv, WriteStates
  <2>4. \A q \in Proc \ {p} : Unmoved(q)
    BY <2>1, <2>2 DEF Unmoved
  <2>5. DOMAIN db' = Proc /\ synced' \in 0..Len(disk)
    BY <2>1 DEF ContentInv
  <2> QED
    BY <2>1, <2>3, <2>4, <2>5, HandleStep
<1> QED
  BY <1>1, <1>2

LEMMA ContentInit == Init => ContentInv
<1> SUFFICES ASSUME Init PROVE ContentInv
  OBVIOUS
<1>1. SoundLog(disk) /\ synced \in 0..Len(disk)
  BY DEF Init, SoundLog, IsSeq
<1>2. \A p \in Proc : HandleInv(p) /\ ReachInv(p)
  BY EmptyIndexSound DEF Init, HandleInv, ReachInv, WriteStates
<1> QED
  BY <1>1, <1>2 DEF Init, ContentInv

(* A scan starts from nothing. *)
LEMMA StartScanContent ==
    ASSUME HandlesInv, ContentInv, NEW p \in Proc, NEW refresh, StartScan(p, refresh),
           disk' = disk, synced' = synced, UNCHANGED <<db, next_sequence, job>>,
           lease' = lease \/ lease' = p
    PROVE  ContentInv'
<1>1. DOMAIN pc = Proc /\ DOMAIN cursor = Proc /\ DOMAIN db' = Proc
  BY DEF HandlesInv, ContentInv
<1>2. /\ pc'[p] = "scan"
      /\ cursor'[p].offset = 0 /\ cursor'[p].cell = NoCell /\ cursor'[p].db = EmptyIndex
  BY <1>1 DEF StartScan, NoScan
<1>3. HandleInv(p)'
  <2>1. CursorInv(cursor'[p])
    BY <1>2, CursorStarts
  <2> QED
    BY <1>2, <2>1 DEF ContentInv, HandleInv, WriteStates
<1>4. \A q \in Proc \ {p} : Unmoved(q)
  BY <1>1 DEF StartScan, Unmoved
<1>5. SoundLog(disk') /\ synced' \in 0..Len(disk') /\ Len(disk) \in Nat
  BY FileKept DEF ContentInv, SoundLog, IsSeq
<1>6. ReachInv(p)'
  BY <1>2, <1>5 DEF ReachInv, WriteStates
<1>7. \A q \in Proc : lease' = q => ReachInv(q)'
  <2> SUFFICES ASSUME NEW q \in Proc, lease' = q, q # p PROVE ReachInv(q)'
    BY <1>6
  <2> QED
    BY <1>4 DEF ContentInv, ReachInv, Unmoved
<1>8. \A q \in Proc : Unmoved(q) \/ HandleInv(q)'
  BY <1>3, <1>4
<1> QED
  BY <1>1, <1>5, <1>7, <1>8, ContentStep

LEMMA StartWriteContent ==
    ASSUME HandlesInv, ContentInv, NEW p \in Proc, NEW frames, ReadyWriter(p),
           StartWrite(p, frames), Prepared(frames, db[p], next_sequence[p])
    PROVE  ContentInv'
<1>1. DOMAIN pc = Proc /\ DOMAIN job = Proc /\ DOMAIN db' = Proc
  BY DEF HandlesInv, ContentInv, StartWrite
<1>2. /\ pc'[p] = "write"
      /\ job'[p] = [frames |-> frames, written |-> 0, start |-> Len(disk)]
      /\ UNCHANGED <<disk, synced, lease, db, next_sequence, cursor>>
  BY <1>1 DEF StartWrite, file
<1>3. next_sequence[p] \in Nat /\ IndexInv(db[p], next_sequence[p])
  BY DEF ContentInv, HandleInv
<1>4. Len(frames) \in Nat /\ Len(frames) > 0
  BY <1>3, PreparedSound
<1>5. HandleInv(p)'
  BY <1>2, <1>3, <1>4 DEF HandleInv, NoJob, WriteStates
<1>6. Len(disk) \in Nat
  BY DEF ContentInv, SoundLog, IsSeq
<1>7. ReachInv(p)'
  BY <1>2, <1>6 DEF ReachInv, WriteStates
<1>8. \A q \in Proc \ {p} : Unmoved(q)
  BY <1>1 DEF StartWrite, Unmoved
<1>9. synced' \in 0..Len(disk)
  BY <1>2 DEF ContentInv
<1> QED
  BY <1>1, <1>2, <1>5, <1>7, <1>8, <1>9, HandleStep

LEMMA CallContent ==
    ASSUME HandlesInv, ContentInv, NEW p \in Proc, Call(p)
    PROVE  ContentInv'
<1>0. DOMAIN pc = Proc /\ DOMAIN db = Proc
  BY DEF HandlesInv, ContentInv
<1>1. CASE UNCHANGED vars
  <2>1. \A q \in Proc : Unmoved(q)
    BY <1>1 DEF vars, handles, Unmoved
  <2>2. \A q \in Proc : lease' = q => ReachInv(q)'
    BY <1>1 DEF vars, file, handles, ContentInv, ReachInv
  <2>3. UNCHANGED <<disk, synced, db>>
    BY <1>1 DEF vars, file, handles
  <2> QED
    BY <1>0, <2>1, <2>2, <2>3, FileKept, ContentStep
<1>2. CASE OpenWriter(p)
  BY <1>2, StartScanContent DEF OpenWriter
<1>3. CASE OpenReadOnly(p)
  BY <1>3, StartScanContent DEF OpenReadOnly, file
<1>4. CASE Refresh(p)
  BY <1>4, StartScanContent DEF Refresh, file
<1>5. CASE CreateStore(p)
  <2>1. /\ pc' = [pc EXCEPT ![p] = "magic"] /\ lease' = p
        /\ UNCHANGED <<disk, synced, db, next_sequence, cursor, job>>
    BY <1>5 DEF CreateStore
  <2>2. \A q \in Proc \ {p} : Unmoved(q)
    BY <1>0, <2>1 DEF Unmoved
  <2>3. HandleInv(p)' /\ ReachInv(p)'
    BY <1>0, <2>1 DEF ContentInv, HandleInv, ReachInv, WriteStates
  <2>4. \A q \in Proc : (Unmoved(q) \/ HandleInv(q)') /\ (lease' = q => ReachInv(q)')
    BY <2>1, <2>2, <2>3
  <2>5. DOMAIN db' = Proc
    BY <1>0, <2>1
  <2> QED
    BY <2>1, <2>4, <2>5, FileKept, ContentStep
<1>6. CASE CreateStoreFault(p) \/ Flush(p)
  <2>1. /\ UNCHANGED <<disk, lease, pc, db, next_sequence, cursor, job>>
        /\ synced' = synced \/ synced' = Len(disk)
    BY <1>6 DEF CreateStoreFault, Flush, SyncData
  <2>2. \A q \in Proc : Unmoved(q)
    BY <2>1 DEF Unmoved
  <2>3. \A q \in Proc : lease' = q => ReachInv(q)'
    BY <2>1 DEF ContentInv, ReachInv
  <2>4. SoundLog(disk') /\ synced' \in 0..Len(disk') /\ DOMAIN db' = Proc
    BY <2>1 DEF ContentInv, SoundLog, IsSeq
  <2> QED
    BY <2>2, <2>3, <2>4, ContentStep
<1>7. CASE Close(p)
  BY <1>7, ReleaseContent, FileKept DEF Close
<1>8. ASSUME NEW bytes \in Bytes, PutAtom(p, bytes), ~UNCHANGED vars
      PROVE  ContentInv'
  <2>1. /\ ReadyWriter(p)
        /\ StartWrite(p, <<Frame(next_sequence[p], "atom", <<bytes>>)>>)
    BY <1>8 DEF PutAtom
  <2>2. Prepared(<<Frame(next_sequence[p], "atom", <<bytes>>)>>, db[p], next_sequence[p])
    BY DEF Prepared
  <2> QED
    BY <2>1, <2>2, StartWriteContent
<1>9. ASSUME NEW bond \in Bonds, PutBond(p, bond), ~UNCHANGED vars
      PROVE  ContentInv'
  <2>1. /\ ReadyWriter(p) /\ validate_bond_members(db[p], bond, {}) /\ bond \notin db[p].bonds
        /\ StartWrite(p, <<Frame(next_sequence[p], "bond", bond)>>)
    BY <1>9 DEF PutBond
  <2>2. Prepared(<<Frame(next_sequence[p], "bond", bond)>>, db[p], next_sequence[p])
    BY <2>1 DEF Prepared
  <2> QED
    BY <2>1, <2>2, StartWriteContent
<1>10. ASSUME NEW cell \in Cells, CommitCell(p, cell), ~UNCHANGED vars
       PROVE  ContentInv'
  <2>1. /\ ReadyWriter(p) /\ CellAdmissible(db[p], cell)
        /\ StartWrite(p, CellFrames(prepare_cell(db[p], cell), next_sequence[p]))
    BY <1>10 DEF CommitCell
  <2>2. Prepared(CellFrames(prepare_cell(db[p], cell), next_sequence[p]), db[p], next_sequence[p])
    BY <2>1 DEF Prepared
  <2> QED
    BY <2>1, <2>2, StartWriteContent
<1>11. OpenBusy(p) \/ OpenRejected(p) \/ Refuse(p) => UNCHANGED vars
  BY DEF OpenBusy, OpenRejected, Refuse
<1> QED
  BY <1>1, <1>2, <1>3, <1>4, <1>5, <1>6, <1>7, <1>8, <1>9, <1>10, <1>11 DEF Call

LEMMA PrefixSound ==
    ASSUME NEW d, SoundLog(d), NEW n \in 0..Len(d)
    PROVE  SoundLog(SubSeq(d, 1, n)) /\ Len(SubSeq(d, 1, n)) = n
<1> DEFINE e == SubSeq(d, 1, n)
<1>1. IsSeq(d) /\ Len(d) \in Nat
  BY DEF SoundLog, IsSeq
<1>2. IsSeq(e) /\ Len(e) = n /\ \A i \in 1..n : e[i] = d[i]
  BY <1>1, PrefixSeq
<1> HIDE DEF e
<1>3. SoundLog(e)
  BY <1>1, <1>2 DEF SoundLog
<1> QED
  BY <1>2, <1>3 DEF e

LEMMA AppendSound ==
    ASSUME NEW d, SoundLog(d), NEW frame, FrameSound(frame), NEW whole, NEW need
    PROVE  /\ SoundLog(Append(d, Chunk(frame, whole, need)))
           /\ Len(Append(d, Chunk(frame, whole, need))) = Len(d) + 1
<1> DEFINE x == Chunk(frame, whole, need)
           e == Append(d, x)
<1>1. IsSeq(d) /\ Len(d) \in Nat
  BY DEF SoundLog, IsSeq
<1>2. DOMAIN x = {"frame", "whole", "need"} /\ x.frame = frame
  BY DEF Chunk
<1> HIDE DEF x
<1>3. IsSeq(e) /\ Len(e) = Len(d) + 1 /\ e[Len(d) + 1] = x /\ \A i \in 1..Len(d) : e[i] = d[i]
  BY <1>1, AppendSeq
<1> HIDE DEF e
<1>4. ASSUME NEW i \in 1..Len(e)
      PROVE  DOMAIN e[i] = {"frame", "whole", "need"} /\ FrameSound(e[i].frame)
  <2>1. i \in 1..Len(d) \/ i = Len(d) + 1
    BY <1>1, <1>3
  <2> QED
    BY <1>2, <1>3, <2>1 DEF SoundLog
<1>5. SoundLog(e)
  BY <1>3, <1>4 DEF SoundLog
<1> QED
  BY <1>3, <1>5 DEF e, x

LEMMA ListIsSeq ==
    ASSUME NEW e, NEW n \in Nat, e = [i \in 1..n |-> e[i]]
    PROVE  IsSeq(e) /\ Len(e) = n
<1> DEFINE S == {e[i] : i \in 1..n}
<1>1. e \in [1..n -> S]
  OBVIOUS
<1> HIDE DEF S
<1> QED
  BY <1>1, FunctionIsSeq, IsSeqOfSeq

(* A mark on the last chunk. *)
LEMMA MarkedSound ==
    ASSUME NEW d, SoundLog(d), NEW field \in {"whole", "need"}, NEW value,
           NEW e, e = [d EXCEPT ![Len(d)] = [@ EXCEPT ![field] = value]]
    PROVE  SoundLog(e) /\ Len(e) = Len(d)
<1>1. IsSeq(d) /\ Len(d) \in Nat /\ DOMAIN d = 1..Len(d)
  BY DEF SoundLog, IsSeq
<1>2. /\ DOMAIN e = 1..Len(d)
      /\ e = [i \in 1..Len(d) |-> e[i]]
  BY <1>1
<1>3. IsSeq(e) /\ Len(e) = Len(d)
  BY <1>1, <1>2, ListIsSeq
<1>4. ASSUME NEW i \in 1..Len(d)
      PROVE  DOMAIN e[i] = {"frame", "whole", "need"} /\ FrameSound(e[i].frame)
  <2>1. DOMAIN d[i] = {"frame", "whole", "need"} /\ FrameSound(d[i].frame)
    BY DEF SoundLog
  <2>2. e[i] = d[i] \/ e[i] = [d[i] EXCEPT ![field] = value]
    BY <1>1
  <2> QED
    BY <2>1, <2>2
<1> QED
  BY <1>3, <1>4 DEF SoundLog

(* What a scan has read is committed up to Valid. *)
LEMMA ValidNumber ==
    ASSUME NEW c, CursorInv(c)
    PROVE  Valid(c) \in Nat /\ Valid(c) <= c.offset
  BY DEF CursorInv, IsCell, Valid

LEMMA FinishContent ==
    ASSUME HandlesInv, ContentInv, NEW p \in Proc, pc[p] = "scan", NEW tail,
           Finish(p, Valid(cursor[p]), tail), UNCHANGED <<file, mode, job, acked>>
    PROVE  ContentInv'
<1>1. /\ DOMAIN pc = Proc /\ DOMAIN cursor = Proc /\ DOMAIN next_sequence = Proc /\ DOMAIN db = Proc
  BY DEF HandlesInv, ContentInv
<1>2. CursorInv(cursor[p])
  BY DEF ContentInv, HandleInv
<1>3. /\ pc'[p] = "ready" /\ db'[p] = cursor[p].db /\ next_sequence'[p] = Valid(cursor[p])
      /\ disk' = disk /\ synced' = synced /\ lease' = lease
  BY <1>1 DEF Finish, file
<1>4. HandleInv(p)'
  BY <1>2, <1>3, ValidNumber DEF CursorInv, HandleInv, WriteStates
<1>5. ReachInv(p)'
  BY <1>3 DEF ReachInv, WriteStates
<1>6. \A q \in Proc \ {p} : Unmoved(q)
  BY <1>1 DEF Finish, Unmoved
<1>7. DOMAIN db' = Proc /\ synced' \in 0..Len(disk)
  BY <1>1, <1>3 DEF Finish, ContentInv
<1> QED
  BY <1>3, <1>4, <1>5, <1>6, <1>7, HandleStep

LEMMA CutUnderReads ==
    ASSUME HandlesInv, NEW n, NEW q \in Proc
    PROVE  /\ CutUnder(n)[q].offset = cursor[q].offset
           /\ CutUnder(n)[q].cell = cursor[q].cell
           /\ CutUnder(n)[q].db = cursor[q].db
<1>1. DOMAIN cursor[q] = DOMAIN NoScan
  BY DEF HandlesInv
<1>2. CutUnder(n)[q] = cursor[q] \/ \E low : CutUnder(n)[q] = [cursor[q] EXCEPT !.low = low]
  BY DEF CutUnder
<1> QED
  BY <1>1, <1>2 DEF NoScan

LEMMA ScanContent ==
    ASSUME HandlesInv, ContentInv, NEW p \in Proc, Scan(p)
    PROVE  ContentInv'
<1>0. /\ DOMAIN pc = Proc /\ DOMAIN cursor = Proc /\ DOMAIN next_sequence = Proc /\ DOMAIN db = Proc
      /\ pc[p] = "scan"
  BY DEF HandlesInv, ContentInv, Scan, ScanFrame, ScanCorrupt, ScanEof, ScanClean,
         ScanProvisional, Repair, RepairFault
<1>1. CursorInv(cursor[p]) /\ DOMAIN cursor[p] = DOMAIN NoScan
  BY <1>0 DEF ContentInv, HandleInv, HandlesInv
<1>2. CASE ScanFrame(p)
  <2> DEFINE c == cursor[p]
             frame == disk[c.offset + 1].frame
             d == cursor'[p]
  <2>1. /\ Readable(c) /\ Acceptable(c)
        /\ UNCHANGED <<file, pc, mode, db, next_sequence, provisional, job, reply, acked>>
    BY <1>2 DEF ScanFrame
  <2>2. /\ d.offset = c.offset + 1
        /\ d.db = IndexAfter(c.db, c.cell, frame, c.offset + 1)
        /\ d.cell = CellAfter(c.cell, frame, c.offset + 1)
    BY <1>0, <1>1, <1>2, Zenon DEF ScanFrame, NoScan
  <2>3. \A q \in Proc \ {p} : cursor'[q] = cursor[q]
    BY <1>0, <1>2, Zenon DEF ScanFrame
  <2>4. Len(disk) \in Nat /\ c.offset \in Nat /\ c.offset < Len(disk)
    BY <1>1, <2>1 DEF Readable, ContentInv, SoundLog, IsSeq, CursorInv
  <2>5. FrameSound(frame)
    <3>1. c.offset + 1 \in 1..Len(disk)
      BY <2>4
    <3> QED
      BY <3>1 DEF ContentInv, SoundLog
  <2>6. frame.sequence = c.offset /\ FrameBalances(c.db, c.cell, frame)
    BY <2>1 DEF Acceptable
  <2>7. /\ IsCell(c.cell)
        /\ c.cell.open => c.cell.start < c.offset /\ CellInv(c.cell, c.db)
        /\ IndexInv(c.db, IF c.cell.open THEN c.cell.start ELSE c.offset)
    BY <1>1 DEF CursorInv, Valid
  <2> HIDE DEF c, d, frame
  <2>8. /\ IsCell(d.cell)
        /\ d.cell.open => d.cell.start < c.offset + 1 /\ CellInv(d.cell, d.db)
        /\ IndexInv(d.db, IF d.cell.open THEN d.cell.start ELSE c.offset + 1)
    BY <2>2, <2>4, <2>5, <2>6, <2>7, FrameScanned
  <2>9. CursorInv(d)
    BY <2>2, <2>4, <2>8 DEF CursorInv, Valid
  <2>10. HandleInv(p)'
    BY <1>0, <2>1, <2>9 DEF HandleInv, ContentInv, WriteStates, d
  <2>11. ReachInv(p)'
    BY <1>0, <2>1, <2>2, <2>4 DEF ReachInv, WriteStates, file, d
  <2>12. \A q \in Proc \ {p} : Unmoved(q)
    BY <2>1, <2>3 DEF Unmoved
  <2>13. disk' = disk /\ lease' = lease /\ DOMAIN db' = Proc /\ synced' \in 0..Len(disk)
    BY <1>0, <2>1 DEF file, ContentInv
  <2> QED
    BY <2>10, <2>11, <2>12, <2>13, HandleStep
<1>3. CASE ScanCorrupt(p) \/ ScanEof(p)
  BY <1>3, FailContent DEF ScanCorrupt, ScanEof
<1>4. CASE ScanClean(p)
  <2>1. Valid(cursor[p]) = cursor[p].offset
    BY <1>4 DEF ScanClean, Valid
  <2> QED
    BY <1>0, <1>4, <2>1, FinishContent DEF ScanClean
<1>5. CASE ScanProvisional(p)
  BY <1>0, <1>5, FinishContent DEF ScanProvisional
<1>6. CASE Repair(p)
  <2> DEFINE n == Valid(cursor[p])
  <2>1. /\ mode[p] = "writer" /\ disk' = SubSeq(disk, 1, n) /\ synced' = n
        /\ pc'[p] = "ready" /\ db'[p] = cursor[p].db /\ next_sequence'[p] = n
        /\ lease' = lease /\ DOMAIN db' = Proc
    BY <1>0, <1>6 DEF Repair, Truncate
  <2>2. lease = p
    BY <2>1 DEF HandlesInv
  <2>3. n \in 0..Len(disk)
    <3>1. n \in Nat /\ n <= cursor[p].offset /\ cursor[p].offset \in Nat
      BY <1>1, ValidNumber DEF CursorInv
    <3>2. Len(disk) \in Nat /\ cursor[p].offset <= Len(disk)
      BY <1>0, <2>2 DEF ContentInv, ReachInv, SoundLog, IsSeq
    <3> HIDE DEF n
    <3> QED
      BY <3>1, <3>2
  <2>4. IndexInv(cursor[p].db, n)
    BY <1>1 DEF CursorInv
  <2> HIDE DEF n
  <2>5. HandleInv(p)' /\ ReachInv(p)'
    BY <2>1, <2>3, <2>4 DEF HandleInv, ReachInv, WriteStates
  <2>6. ASSUME NEW q \in Proc \ {p} PROVE Unmoved(q)
    <3>1. /\ cursor'[q] = CutUnder(Valid(cursor[p]))[q]
          /\ pc'[q] = pc[q] /\ db'[q] = db[q] /\ next_sequence'[q] = next_sequence[q]
          /\ job'[q] = job[q]
      BY <1>0, <1>6, CutUnderKeeps DEF Repair
    <3> QED
      BY <3>1, CutUnderReads DEF Unmoved
  <2>7. SoundLog(disk') /\ synced' \in 0..Len(disk')
    BY <2>1, <2>3, PrefixSound DEF ContentInv
  <2>8. \A q \in Proc : (Unmoved(q) \/ HandleInv(q)') /\ (lease' = q => ReachInv(q)')
    BY <2>1, <2>2, <2>5, <2>6
  <2> QED
    BY <2>1, <2>7, <2>8, ContentStep
<1>7. CASE RepairFault(p)
  BY <1>7, ReleaseContent, FileKept DEF RepairFault
<1> QED
  BY <1>2, <1>3, <1>4, <1>5, <1>6, <1>7 DEF Scan

(* A step of the writer p in a write: nobody else is a writer. *)
LEMMA WriteStep ==
    ASSUME HandlesInv, ContentInv, NEW p \in Proc, pc[p] \in WriteStates,
           lease' = lease, SoundLog(disk'), synced' \in 0..Len(disk'), DOMAIN db' = Proc,
           HandleInv(p)', ReachInv(p)', \A q \in Proc \ {p} : Unmoved(q)
    PROVE  ContentInv'
<1>1. lease = p
  BY OneWriter DEF WriteStates
<1>2. \A q \in Proc : (Unmoved(q) \/ HandleInv(q)') /\ (lease' = q => ReachInv(q)')
  BY <1>1
<1> QED
  BY <1>2, ContentStep

LEMMA WriteContent ==
    ASSUME HandlesInv, ContentInv, NEW p \in Proc, Write(p)
    PROVE  ContentInv'
<1>0. /\ DOMAIN pc = Proc /\ DOMAIN cursor = Proc /\ DOMAIN next_sequence = Proc
      /\ DOMAIN db = Proc /\ DOMAIN job = Proc
      /\ pc[p] \in WriteStates /\ lease = p
  BY OneWriter
     DEF HandlesInv, ContentInv, WriteStates, Write, WriteHeader, WritePayload, WriteFault, Sync,
         SyncFault, Rollback, RollbackFault
<1> DEFINE n == next_sequence[p]
           j == job[p]
<1>1. /\ n \in Nat /\ IndexInv(db[p], n) /\ DOMAIN j = DOMAIN NoJob
      /\ Prepared(j.frames, db[p], n) /\ j.written \in 0..Len(j.frames)
      /\ pc[p] \in {"write", "payload"} => j.written < Len(j.frames)
  BY <1>0 DEF ContentInv, HandleInv
<1>2. /\ Len(j.frames) \in Nat /\ \A i \in 1..Len(j.frames) : FrameSound(j.frames[i])
  BY <1>1, PreparedSound
<1>3. SoundLog(disk) /\ Len(disk) \in Nat /\ j.start \in 0..Len(disk) /\ synced \in 0..Len(disk)
  BY <1>0 DEF ContentInv, ReachInv, SoundLog, IsSeq
<1>4. CASE WriteHeader(p)
  <2> DEFINE frame == j.frames[j.written + 1]
  <2>1. /\ disk' = Append(disk, Chunk(frame, FALSE, 1)) /\ pc'[p] = "payload"
        /\ UNCHANGED <<synced, lease, db, next_sequence, job>>
        /\ \A q \in Proc \ {p} : Unmoved(q)
        /\ pc[p] = "write"
    BY <1>0, <1>4 DEF WriteHeader, Unmoved
  <2>2. FrameSound(frame)
    <3>1. j.written + 1 \in 1..Len(j.frames)
      BY <1>1, <1>2, <2>1
    <3> HIDE DEF j
    <3> QED
      BY <1>2, <3>1
  <2> HIDE DEF frame
  <2>3. SoundLog(disk') /\ Len(disk') = Len(disk) + 1
    BY <1>3, <2>1, <2>2, AppendSound
  <2>4. synced' \in 0..Len(disk') /\ j.start \in 0..Len(disk')
    BY <1>3, <2>1, <2>3
  <2>5. HandleInv(p)'
    BY <1>1, <2>1 DEF HandleInv, WriteStates
  <2>6. ReachInv(p)'
    BY <2>1, <2>4 DEF ReachInv
  <2> QED
    BY <1>0, <2>1, <2>3, <2>4, <2>5, <2>6, WriteStep
<1>5. CASE WritePayload(p)
  <2> DEFINE written == j.written + 1
  <2>1. /\ disk' = [disk EXCEPT ![Len(disk)].whole = TRUE]
        /\ job'[p].frames = j.frames /\ job'[p].start = j.start /\ job'[p].written = written
        /\ DOMAIN job'[p] = DOMAIN NoJob
        /\ pc'[p] = IF written = Len(j.frames) THEN "sync" ELSE "write"
        /\ UNCHANGED <<synced, lease, db, next_sequence>>
        /\ pc[p] = "payload"
    BY <1>0, <1>1, <1>5 DEF WritePayload, NoJob
  <2>2. \A q \in Proc \ {p} : Unmoved(q)
    BY <1>0, <1>5 DEF WritePayload, Unmoved
  <2>3. SoundLog(disk') /\ Len(disk') = Len(disk)
    BY <1>3, <2>1, MarkedSound
  <2>4. written \in 0..Len(j.frames) /\ (written # Len(j.frames) => written < Len(j.frames))
    BY <1>1, <1>2, <2>1
  <2> HIDE DEF written
  <2>5. HandleInv(p)'
    BY <1>1, <2>1, <2>4 DEF HandleInv, WriteStates
  <2>6. ReachInv(p)'
    BY <1>3, <2>1, <2>3 DEF ReachInv, WriteStates
  <2>7. synced' \in 0..Len(disk')
    BY <1>3, <2>1, <2>3
  <2> QED
    BY <1>0, <2>1, <2>2, <2>3, <2>5, <2>6, <2>7, WriteStep
<1>6. CASE WriteFault(p) \/ SyncFault(p)
  <2>1. /\ pc'[p] = "rollback"
        /\ UNCHANGED <<file, db, next_sequence, cursor, job>>
        /\ \A q \in Proc \ {p} : pc'[q] = pc[q]
    BY <1>0, <1>6 DEF WriteFault, SyncFault
  <2>2. \A q \in Proc \ {p} : Unmoved(q)
    BY <2>1 DEF Unmoved
  <2>3. HandleInv(p)' /\ ReachInv(p)'
    BY <1>0, <1>1, <1>3, <2>1 DEF HandleInv, ReachInv, WriteStates, file
  <2>4. DOMAIN db' = Proc /\ synced' \in 0..Len(disk') /\ SoundLog(disk') /\ lease' = lease
    BY <1>0, <1>3, <2>1 DEF file
  <2> QED
    BY <1>0, <2>2, <2>3, <2>4, WriteStep
<1>7. CASE Sync(p)
  <2>1. /\ db'[p] = Committed(db[p], j) /\ next_sequence'[p] = n + Len(j.frames)
        /\ pc'[p] = "ready" /\ synced' = Len(disk)
        /\ UNCHANGED <<disk, lease, cursor>> /\ DOMAIN db' = Proc
    BY <1>0, <1>7 DEF Sync, SyncData
  <2>2. \A q \in Proc \ {p} : Unmoved(q)
    BY <1>0, <1>7 DEF Sync, Unmoved
  <2>3. IndexInv(Committed(db[p], j), n + Len(j.frames))
    BY <1>1, CommittedKeepsIndex
  <2> HIDE DEF n, j
  <2>4. n + Len(j.frames) \in Nat
    BY <1>1, <1>2
  <2>5. HandleInv(p)' /\ ReachInv(p)'
    BY <2>1, <2>3, <2>4 DEF HandleInv, ReachInv, WriteStates
  <2>6. SoundLog(disk') /\ synced' \in 0..Len(disk')
    BY <1>3, <2>1
  <2> QED
    BY <1>0, <2>1, <2>2, <2>5, <2>6, WriteStep
<1>8. ASSUME NEW c, cursor' = c, c = cursor \/ c = CutUnder(j.start),
             SoundLog(disk'), synced' \in 0..Len(disk'),
             pc' = [pc EXCEPT ![p] = "ready"], job' = [job EXCEPT ![p] = NoJob],
             UNCHANGED <<lease, db, next_sequence>>
      PROVE  ContentInv'
  <2>1. ASSUME NEW q \in Proc \ {p} PROVE Unmoved(q)
    <3>1. /\ cursor'[q].offset = cursor[q].offset /\ cursor'[q].cell = cursor[q].cell
          /\ cursor'[q].db = cursor[q].db
      BY <1>8, CutUnderReads
    <3> QED
      BY <1>0, <1>8, <3>1 DEF Unmoved
  <2>2. HandleInv(p)' /\ ReachInv(p)'
    BY <1>0, <1>1, <1>8 DEF HandleInv, ReachInv, WriteStates
  <2> QED
    BY <1>0, <1>8, <2>1, <2>2, WriteStep
<1>9. SoundLog(SubSeq(disk, 1, j.start)) /\ Len(SubSeq(disk, 1, j.start)) = j.start
  BY <1>3, PrefixSound
<1>10. CASE Rollback(p)
  <2>1. disk' = SubSeq(disk, 1, j.start) /\ synced' = j.start
    BY <1>10 DEF Rollback, Truncate
  <2>2. SoundLog(disk') /\ synced' \in 0..Len(disk')
    BY <1>3, <1>9, <2>1
  <2> QED
    BY <1>8, <1>10, <2>2 DEF Rollback
<1>11. CASE RollbackFault(p)
  <2>1. cursor' = cursor \/ cursor' = CutUnder(j.start)
    BY <1>11 DEF RollbackFault
  <2>2. SoundLog(disk') /\ synced' \in 0..Len(disk')
    <3>1. CASE UNCHANGED <<disk, synced>>
      BY <1>3, <3>1
    <3>2. CASE disk' = [disk EXCEPT ![Len(disk)].need = 2] /\ synced' = synced
      <4>1. SoundLog(disk') /\ Len(disk') = Len(disk)
        BY <1>3, <3>2, MarkedSound
      <4> QED
        BY <1>3, <3>2, <4>1
    <3>3. CASE /\ disk' = SubSeq(disk, 1, j.start)
               /\ synced' = IF synced < j.start THEN synced ELSE j.start
      BY <1>3, <1>9, <3>3
    <3> QED
      BY <1>11, <3>1, <3>2, <3>3 DEF RollbackFault
  <2> QED
    BY <1>8, <1>11, <2>1, <2>2 DEF RollbackFault
<1> QED
  BY <1>4, <1>5, <1>6, <1>7, <1>10, <1>11 DEF Write

LEMMA PowerLossContent ==
    ASSUME HandlesInv, ContentInv, PowerLoss PROVE ContentInv'
<1>1. SoundLog(disk) /\ Len(disk) \in Nat /\ synced \in 0..Len(disk)
  BY DEF ContentInv, SoundLog, IsSeq
<1>2. SoundLog(disk') /\ synced' \in 0..Len(disk')
  <2>1. CASE disk' = <<>> /\ synced' = 0
    BY <2>1 DEF SoundLog, IsSeq
  <2>2. ASSUME NEW k \in synced..Len(disk), disk' = SubSeq(disk, 1, k), synced' = k
        PROVE  SoundLog(disk') /\ synced' \in 0..Len(disk')
    BY <1>1, <2>2, PrefixSound
  <2>3. ASSUME NEW k \in synced..Len(disk), k < Len(disk), synced' = k + 1,
               disk' = Append(SubSeq(disk, 1, k), Chunk(disk[k + 1].frame, FALSE, 1))
        PROVE  SoundLog(disk') /\ synced' \in 0..Len(disk')
    <3>1. k \in 0..Len(disk) /\ k + 1 \in 1..Len(disk)
      BY <1>1, <2>3
    <3>2. SoundLog(SubSeq(disk, 1, k)) /\ Len(SubSeq(disk, 1, k)) = k
      BY <1>1, <3>1, PrefixSound
    <3>3. FrameSound(disk[k + 1].frame)
      BY <1>1, <3>1 DEF SoundLog
    <3>4. SoundLog(disk') /\ Len(disk') = k + 1
      BY <2>3, <3>2, <3>3, AppendSound
    <3>5. k + 1 \in 0..(k + 1)
      BY <3>1
    <3> QED
      BY <2>3, <3>4, <3>5, Zenon
  <2> QED
    BY <2>1, <2>2, <2>3 DEF PowerLoss
<1>3. \E value : Release(Proc, value)
  BY DEF PowerLoss
<1> QED
  BY <1>2, <1>3, ReleaseContent

LEMMA ContentInductive == HandlesInv /\ ContentInv /\ [Next]_vars => ContentInv'
<1> SUFFICES ASSUME HandlesInv, ContentInv, [Next]_vars PROVE ContentInv'
  OBVIOUS
<1>1. CASE UNCHANGED vars
  <2>1. ASSUME NEW q \in Proc PROVE Unmoved(q) /\ (lease' = q => ReachInv(q)')
    BY <1>1 DEF vars, file, handles, Unmoved, ReachInv, ContentInv
  <2>2. SoundLog(disk') /\ synced' \in 0..Len(disk') /\ DOMAIN db' = Proc
    BY <1>1 DEF vars, file, handles, ContentInv
  <2> QED
    BY <2>1, <2>2, ContentStep
<1>2. ASSUME NEW p \in Proc, Call(p) \/ Scan(p) \/ Write(p)
      PROVE  ContentInv'
  BY <1>2, CallContent, ScanContent, WriteContent
<1>3. ASSUME NEW p \in Proc, SyncMagic(p)
      PROVE  ContentInv'
  BY <1>3, StartScanContent DEF SyncMagic
<1>4. ASSUME NEW p \in Proc, Crash(p) \/ SyncMagicFault(p)
      PROVE  ContentInv'
  BY <1>4, ReleaseContent, FileKept DEF Crash, SyncMagicFault
<1>5. CASE PowerLoss
  BY <1>5, PowerLossContent
<1> QED
  BY <1>1, <1>2, <1>3, <1>4, <1>5 DEF Next

(* Whatever call fails and whatever the power takes, every index, every    *)
(* scan and every write at hand is in order: what Index::apply_cell,       *)
(* prepare_cell and the recovery loop of store.rs leave behind.            *)
THEOREM SpecContent == Spec => [](HandlesInv /\ ContentInv)
<1>1. Init => HandlesInv /\ ContentInv
  BY HandlesInit, ContentInit
<1>2. HandlesInv /\ ContentInv /\ [Next]_vars => (HandlesInv /\ ContentInv)'
  BY HandlesStep, ContentInductive
<1> QED
  BY <1>1, <1>2, PTL DEF Spec

(* Every bond, and every root, of every handle's index names facts that    *)
(* the index holds (validate_bond_members and validate_cell_manifest).     *)
THEOREM SpecIndexClosed == Spec => []IndexClosed
<1>1. HandlesInv /\ ContentInv => IndexClosed
  BY DEF ContentInv, HandleInv, IndexInv, IndexClosed
<1> QED
  BY <1>1, SpecContent, PTL

(* The versions of a root name each other in order and none occurs twice,  *)
(* in every handle, through retractions and recoveries (apply_root).       *)
THEOREM SpecRootChains == Spec => []RootChains
<1>1. HandlesInv /\ ContentInv => RootChains
  <2> SUFFICES ASSUME ContentInv, NEW p \in Proc, NEW name \in DOMAIN db[p].root_history
               PROVE  Chained(db[p].root_history[name]) /\ Distinct(db[p].root_history[name])
    BY DEF RootChains
  <2>1. VersionsInv(db[p].root_history[name], next_sequence[p])
    BY DEF ContentInv, HandleInv, IndexInv
  <2> QED
    BY <2>1, IdentitiesDiffer DEF VersionsInv
<1> QED
  BY <1>1, SpecContent, PTL

(* A snapshot at or after the last commit shows the roots as they are:     *)
(* Index::snapshot_at over the history agrees with the map of roots.       *)
THEOREM SpecSnapshotIsCurrent == Spec => []SnapshotIsCurrent
<1>1. HandlesInv /\ ContentInv => SnapshotIsCurrent
  BY SnapshotOfAll DEF ContentInv, HandleInv, SnapshotIsCurrent
<1> QED
  BY <1>1, SpecContent, PTL

CursorTyped(c) ==
    c.offset \in Nat /\ c.limit \in Nat /\ c.cut \in BOOLEAN /\ c.refresh \in BOOLEAN
JobTyped(j) == j.written \in 0..Len(j.frames)

(* The part of TypeOK about the handles and the magic. *)
HandlesTyped ==
    /\ magic \in {"none", "torn", "cached", "durable"}
    /\ pc \in [Proc -> {"closed", "magic", "scan", "ready", "write", "payload", "sync", "rollback"}]
    /\ mode \in [Proc -> {"none", "reader", "writer"}]
    /\ next_sequence \in [Proc -> Nat]
    /\ provisional \in [Proc -> Nat]
    /\ \A p \in Proc : CursorTyped(cursor[p]) /\ JobTyped(job[p])

LEMMA NothingTyped == CursorTyped(NoScan) /\ JobTyped(NoJob)
  BY DEF CursorTyped, JobTyped, NoScan, NoJob

LEMMA ReleaseTyped ==
    ASSUME HandlesInv, HandlesTyped, NEW S \in SUBSET Proc, NEW value, Release(S, value),
           magic' \in {"none", "torn", "cached", "durable"}
    PROVE  HandlesTyped'
<1>1. \A q \in Proc : CursorTyped(cursor'[q]) /\ JobTyped(job'[q])
  BY NothingTyped DEF Release, Reset, HandlesTyped
<1>2. /\ pc' \in [Proc -> {"closed", "magic", "scan", "ready", "write", "payload", "sync", "rollback"}]
      /\ mode' \in [Proc -> {"none", "reader", "writer"}]
      /\ next_sequence' \in [Proc -> Nat] /\ provisional' \in [Proc -> Nat]
  BY DEF Release, Reset, HandlesTyped
<1> QED
  BY <1>1, <1>2 DEF HandlesTyped

LEMMA StartScanTyped ==
    ASSUME HandlesInv, ContentInv, HandlesTyped, NEW p \in Proc, NEW refresh \in BOOLEAN,
           StartScan(p, refresh), UNCHANGED <<next_sequence, provisional, job>>,
           magic' \in {"none", "torn", "cached", "durable"},
           \/ mode' = mode
           \/ \E m \in {"reader", "writer"} : mode' = [mode EXCEPT ![p] = m]
    PROVE  HandlesTyped'
<1>1. Len(disk) \in Nat
  BY DEF ContentInv, SoundLog, IsSeq
<1> DEFINE limit == IF IsCut THEN Len(disk) - 1 ELSE Len(disk)
<1>2. limit \in Nat /\ IsCut \in BOOLEAN
  BY <1>1 DEF IsCut
<1>3. DOMAIN cursor = Proc
  BY DEF HandlesInv
<1>4. /\ cursor'[p].offset = 0 /\ cursor'[p].limit = limit
      /\ cursor'[p].cut = IsCut /\ cursor'[p].refresh = refresh
  BY <1>3, Zenon DEF StartScan, NoScan
<1> HIDE DEF limit
<1>5. \A q \in Proc \ {p} : cursor'[q] = cursor[q]
  BY <1>3 DEF StartScan
<1>6. \A q \in Proc : CursorTyped(cursor'[q])
  BY <1>2, <1>4, <1>5 DEF HandlesTyped, CursorTyped
<1>7. /\ pc' \in [Proc -> {"closed", "magic", "scan", "ready", "write", "payload", "sync", "rollback"}]
      /\ mode' \in [Proc -> {"none", "reader", "writer"}]
  BY DEF StartScan, HandlesTyped
<1> QED
  BY <1>6, <1>7 DEF HandlesTyped

LEMMA CallTyped ==
    ASSUME HandlesInv, ContentInv, HandlesTyped, NEW p \in Proc, Call(p)
    PROVE  HandlesTyped'
<1>1. CASE UNCHANGED vars
  BY <1>1 DEF vars, file, handles, HandlesTyped
<1>2. CASE OpenWriter(p)
  BY <1>2, StartScanTyped DEF OpenWriter, HandlesTyped
<1>3. CASE OpenReadOnly(p)
  BY <1>3, StartScanTyped DEF OpenReadOnly, HandlesTyped, file
<1>4. CASE Refresh(p)
  BY <1>4, StartScanTyped DEF Refresh, HandlesTyped, file
<1>5. CASE CreateStore(p)
  BY <1>5 DEF CreateStore, HandlesTyped
<1>6. CASE CreateStoreFault(p) \/ Flush(p)
  BY <1>6 DEF CreateStoreFault, Flush, SyncData, HandlesTyped
<1>7. CASE Close(p)
  BY <1>7, ReleaseTyped DEF Close, HandlesTyped
<1>8. ASSUME NEW frames, StartWrite(p, frames), Prepared(frames, db[p], next_sequence[p])
      PROVE  HandlesTyped'
  <2>1. Len(frames) \in Nat
    BY <1>8, PreparedSound DEF HandlesTyped
  <2>2. DOMAIN job = Proc
    BY DEF HandlesInv
  <2>3. \A q \in Proc : JobTyped(job'[q])
    BY <1>8, <2>1, <2>2 DEF StartWrite, HandlesTyped, JobTyped
  <2> QED
    BY <1>8, <2>3 DEF StartWrite, HandlesTyped, file
<1>9. ASSUME NEW bytes \in Bytes, PutAtom(p, bytes), ~UNCHANGED vars
      PROVE  HandlesTyped'
  BY <1>8, <1>9 DEF PutAtom, Prepared
<1>10. ASSUME NEW bond \in Bonds, PutBond(p, bond), ~UNCHANGED vars
       PROVE  HandlesTyped'
  BY <1>8, <1>10 DEF PutBond, Prepared
<1>11. ASSUME NEW cell \in Cells, CommitCell(p, cell), ~UNCHANGED vars
       PROVE  HandlesTyped'
  BY <1>8, <1>11 DEF CommitCell, Prepared
<1>12. OpenBusy(p) \/ OpenRejected(p) \/ Refuse(p) => UNCHANGED vars
  BY DEF OpenBusy, OpenRejected, Refuse
<1> QED
  BY <1>1, <1>2, <1>3, <1>4, <1>5, <1>6, <1>7, <1>9, <1>10, <1>11, <1>12 DEF Call

LEMMA FinishTyped ==
    ASSUME HandlesInv, HandlesTyped, NEW p \in Proc, NEW n \in Nat, NEW tail \in Nat,
           Finish(p, n, tail), UNCHANGED <<file, mode, job, acked>>
    PROVE  HandlesTyped'
<1>1. DOMAIN cursor = Proc
  BY DEF HandlesInv
<1>2. \A q \in Proc : CursorTyped(cursor'[q])
  BY <1>1, NothingTyped DEF Finish, HandlesTyped
<1> QED
  BY <1>2 DEF Finish, HandlesTyped, file

LEMMA ScanTyped ==
    ASSUME HandlesInv, ContentInv, HandlesTyped, NEW p \in Proc, Scan(p)
    PROVE  HandlesTyped'
<1>0. pc[p] = "scan" /\ DOMAIN cursor = Proc /\ DOMAIN cursor[p] = DOMAIN NoScan
  BY DEF HandlesInv, Scan, ScanFrame, ScanCorrupt, ScanEof, ScanClean, ScanProvisional, Repair,
         RepairFault
<1> DEFINE c == cursor[p]
<1>1. Valid(c) \in Nat /\ Valid(c) <= c.offset /\ Sampled(c) \in Nat
  BY <1>0, ValidNumber DEF ContentInv, HandleInv, Sampled, HandlesTyped, CursorTyped
<1>2. CASE ScanFrame(p)
  <2>1. /\ cursor'[p].offset = c.offset + 1 /\ cursor'[p].limit = c.limit
        /\ cursor'[p].cut = c.cut /\ cursor'[p].refresh = c.refresh
        /\ \A q \in Proc \ {p} : cursor'[q] = cursor[q]
    BY <1>0, <1>2, Zenon DEF ScanFrame, NoScan
  <2>2. \A q \in Proc : CursorTyped(cursor'[q])
    BY <2>1 DEF HandlesTyped, CursorTyped
  <2>3. UNCHANGED <<file, pc, mode, db, next_sequence, provisional, job, reply, acked>>
    BY <1>2 DEF ScanFrame
  <2> QED
    BY <2>2, <2>3 DEF HandlesTyped, file
<1>3. CASE ScanCorrupt(p) \/ ScanEof(p)
  <2>1. PICK value : Fail(p, value) /\ magic' = magic
    BY <1>3 DEF ScanCorrupt, ScanEof
  <2>2. CASE c.refresh
    <3>1. \A q \in Proc : CursorTyped(cursor'[q])
      BY <1>0, <2>1, <2>2, NothingTyped DEF Fail, HandlesTyped
    <3> QED
      BY <2>1, <2>2, <3>1 DEF Fail, HandlesTyped
  <2>3. CASE ~c.refresh
    BY <2>1, <2>3, ReleaseTyped DEF Fail, HandlesTyped
  <2> QED
    BY <2>2, <2>3
<1>4. CASE ScanClean(p)
  <2>1. c.offset \in Nat
    BY DEF HandlesTyped, CursorTyped
  <2>2. Finish(p, c.offset, 0) /\ UNCHANGED <<file, mode, job, acked>>
    BY <1>4 DEF ScanClean
  <2> HIDE DEF c
  <2> QED
    BY <2>1, <2>2, FinishTyped
<1>5. CASE ScanProvisional(p)
  <2> DEFINE tail == IF Sampled(c) > Valid(c) THEN Sampled(c) - Valid(c) ELSE 1
  <2>1. tail \in Nat
    BY <1>1
  <2>2. Finish(p, Valid(c), tail) /\ UNCHANGED <<file, mode, job, acked>>
    BY <1>5 DEF ScanProvisional
  <2> HIDE DEF tail, c
  <2> QED
    BY <1>1, <2>1, <2>2, FinishTyped
<1>6. CASE Repair(p)
  <2> DEFINE n == Valid(c)
  <2>1. \A q \in Proc : \/ cursor'[q] = NoScan
                        \/ cursor'[q] = cursor[q]
                        \/ \E low : cursor'[q] = [cursor[q] EXCEPT !.low = low]
    BY <1>0, <1>6 DEF Repair, CutUnder
  <2>2. \A q \in Proc : CursorTyped(cursor'[q])
    <3> SUFFICES ASSUME NEW q \in Proc PROVE CursorTyped(cursor'[q])
      OBVIOUS
    <3>1. CursorTyped(cursor[q]) /\ DOMAIN cursor[q] = DOMAIN NoScan
      BY DEF HandlesTyped, HandlesInv
    <3>2. \A low : CursorTyped([cursor[q] EXCEPT !.low = low])
      BY <3>1 DEF CursorTyped, NoScan
    <3> QED
      BY <2>1, <3>1, <3>2, NothingTyped
  <2>3. /\ magic' = "durable" /\ pc' = [pc EXCEPT ![p] = "ready"]
        /\ next_sequence' = [next_sequence EXCEPT ![p] = n]
        /\ UNCHANGED <<mode, provisional, job>>
    BY <1>6 DEF Repair
  <2> HIDE DEF n
  <2> QED
    BY <1>1, <2>2, <2>3 DEF HandlesTyped, n
<1>7. CASE RepairFault(p)
  BY <1>7, ReleaseTyped DEF RepairFault, HandlesTyped
<1> QED
  BY <1>2, <1>3, <1>4, <1>5, <1>6, <1>7 DEF Scan

LEMMA WriteTyped ==
    ASSUME HandlesInv, ContentInv, ContentInv', HandlesTyped, NEW p \in Proc, Write(p)
    PROVE  HandlesTyped'
<1>0. /\ DOMAIN job = Proc /\ pc[p] \in WriteStates /\ DOMAIN job[p] = DOMAIN NoJob
      /\ DOMAIN cursor = Proc
  BY DEF HandlesInv, ContentInv, HandleInv, WriteStates, Write, WriteHeader, WritePayload, WriteFault,
         Sync, SyncFault, Rollback, RollbackFault
<1>1. CASE WriteHeader(p) \/ WriteFault(p) \/ SyncFault(p)
  BY <1>1 DEF WriteHeader, WriteFault, SyncFault, HandlesTyped, file
<1>2. CASE WritePayload(p)
  <2>1. pc'[p] \in WriteStates /\ \A q \in Proc \ {p} : job'[q] = job[q]
    BY <1>0, <1>2 DEF WritePayload, WriteStates, HandlesTyped
  <2>2. JobTyped(job'[p])
    BY <2>1 DEF ContentInv, HandleInv, JobTyped
  <2>3. \A q \in Proc : JobTyped(job'[q])
    BY <2>1, <2>2 DEF HandlesTyped
  <2> QED
    BY <1>2, <2>3 DEF WritePayload, HandlesTyped
<1>3. ASSUME job' = [job EXCEPT ![p] = NoJob]
      PROVE  \A q \in Proc : JobTyped(job'[q])
  BY <1>0, <1>3, NothingTyped DEF HandlesTyped
<1>4. CASE Sync(p)
  <2>1. Len(job[p].frames) \in Nat /\ next_sequence[p] \in Nat
    BY <1>0, PreparedSound DEF ContentInv, HandleInv
  <2>2. next_sequence' \in [Proc -> Nat]
    BY <1>4, <2>1 DEF Sync, HandlesTyped
  <2>3. \A q \in Proc : JobTyped(job'[q])
    BY <1>3, <1>4 DEF Sync
  <2> QED
    BY <1>4, <2>2, <2>3 DEF Sync, SyncData, HandlesTyped
<1>5. CASE Rollback(p) \/ RollbackFault(p)
  <2>1. cursor' = cursor \/ cursor' = CutUnder(job[p].start)
    BY <1>5 DEF Rollback, RollbackFault
  <2>2. \A q \in Proc : \/ cursor'[q] = cursor[q]
                        \/ \E low : cursor'[q] = [cursor[q] EXCEPT !.low = low]
    BY <2>1 DEF CutUnder
  <2>3. \A q \in Proc : CursorTyped(cursor'[q])
    <3> SUFFICES ASSUME NEW q \in Proc PROVE CursorTyped(cursor'[q])
      OBVIOUS
    <3>1. CursorTyped(cursor[q]) /\ DOMAIN cursor[q] = DOMAIN NoScan
      BY DEF HandlesTyped, HandlesInv
    <3>2. \A low : CursorTyped([cursor[q] EXCEPT !.low = low])
      BY <3>1 DEF CursorTyped, NoScan
    <3> QED
      BY <2>2, <3>1, <3>2
  <2>4. job' = [job EXCEPT ![p] = NoJob] /\ pc' = [pc EXCEPT ![p] = "ready"]
        /\ magic' \in {magic, "durable"} /\ UNCHANGED <<mode, next_sequence, provisional>>
    BY <1>5 DEF Rollback, RollbackFault
  <2> QED
    BY <1>3, <2>3, <2>4 DEF HandlesTyped
<1> QED
  BY <1>1, <1>2, <1>4, <1>5 DEF Write

LEMMA TypedStep ==
    HandlesTyped /\ HandlesInv /\ ContentInv /\ ContentInv' /\ [Next]_vars => HandlesTyped'
<1> SUFFICES ASSUME HandlesTyped, HandlesInv, ContentInv, ContentInv', [Next]_vars
             PROVE  HandlesTyped'
  OBVIOUS
<1>1. CASE UNCHANGED vars
  BY <1>1 DEF vars, file, handles, HandlesTyped
<1>2. ASSUME NEW p \in Proc, Call(p) \/ Scan(p) \/ Write(p)
      PROVE  HandlesTyped'
  BY <1>2, CallTyped, ScanTyped, WriteTyped
<1>3. ASSUME NEW p \in Proc, SyncMagic(p)
      PROVE  HandlesTyped'
  BY <1>3, StartScanTyped DEF SyncMagic
<1>4. ASSUME NEW p \in Proc, Crash(p) \/ SyncMagicFault(p)
      PROVE  HandlesTyped'
  BY <1>4, ReleaseTyped DEF Crash, SyncMagicFault, HandlesTyped
<1>5. CASE PowerLoss
  BY <1>5, ReleaseTyped DEF PowerLoss, HandlesTyped
<1> QED
  BY <1>1, <1>2, <1>3, <1>4, <1>5 DEF Next

(* Type correctness of the store, for every set of processes, facts, cells *)
(* and failures.                                                           *)
THEOREM SpecTypeOK == Spec => []TypeOK
<1>1. Init => HandlesTyped
  BY NothingTyped DEF Init, HandlesTyped
<1>2. Init => HandlesInv /\ ContentInv
  BY HandlesInit, ContentInit
<1>3. HandlesTyped /\ HandlesInv /\ ContentInv /\ [Next]_vars
         => HandlesTyped' /\ HandlesInv' /\ ContentInv'
  BY HandlesStep, ContentInductive, TypedStep
<1>4. HandlesTyped /\ HandlesInv /\ ContentInv => TypeOK
  BY DEF HandlesTyped, CursorTyped, JobTyped, HandlesInv, ContentInv, SoundLog, FrameSound, FrameAt,
         TypeOK
<1> QED
  BY <1>1, <1>2, <1>3, <1>4, PTL DEF Spec

-----------------------------------------------------------------------------
(* The log of commits in a file. *)

LEMMA PieceSeq ==
    ASSUME NEW s, IsSeq(s), NEW m \in Nat \ {0}, NEW n \in Nat, m <= n + 1, n <= Len(s)
    PROVE  /\ IsSeq(SubSeq(s, m, n)) /\ Len(SubSeq(s, m, n)) = n - m + 1
           /\ \A i \in 1..(n - m + 1) : SubSeq(s, m, n)[i] = s[m + i - 1]
<1> DEFINE S == {s[i] : i \in 1..Len(s)}
<1>1. s \in Seq(S) /\ Len(s) \in Nat
  BY SeqOfIsSeq DEF IsSeq
<1> HIDE DEF S
<1>2. \A i \in m..n : s[i] \in S
  BY <1>1
<1>3. SubSeq(s, m, n) \in Seq(S)
  BY <1>1, <1>2
<1>4. IsSeq(SubSeq(s, m, n))
  BY <1>3, IsSeqOfSeq
<1> QED
  BY <1>1, <1>4

LEMMA EndsFinite ==
    ASSUME NEW d, NEW n \in Nat
    PROVE  /\ EndsIn(d, n) \subseteq 1..n /\ IsFiniteSet(EndsIn(d, n))
           /\ Cardinality(EndsIn(d, n)) \in Nat
<1>1. EndsIn(d, n) \in SUBSET (1..n)
  BY DEF EndsIn
<1>2. IsFiniteSet(1..n)
  BY FS_Interval
<1> QED
  BY <1>1, <1>2, FS_Subset, FS_CardinalityType

LEMMA EndsUpTo ==
    ASSUME NEW d, NEW n \in Nat, NEW i \in 0..n
    PROVE  {j \in EndsIn(d, n) : j <= i} = EndsIn(d, i) /\ EndsIn(d, i) \subseteq EndsIn(d, n)
  BY DEF EndsIn

LEMMA EndsStep ==
    ASSUME NEW d, NEW n \in Nat
    PROVE  /\ CommittedIn(d, n + 1) =>
                /\ EndsIn(d, n + 1) = EndsIn(d, n) \cup {n + 1}
                /\ Cardinality(EndsIn(d, n + 1)) = Cardinality(EndsIn(d, n)) + 1
           /\ ~CommittedIn(d, n + 1) => EndsIn(d, n + 1) = EndsIn(d, n)
<1>1. \A i \in 1..(n + 1) : i \in 1..n \/ i = n + 1
  OBVIOUS
<1>2. 1..n \subseteq 1..(n + 1) /\ n + 1 \in 1..(n + 1) /\ n + 1 \notin 1..n
  OBVIOUS
<1>3. CommittedIn(d, n + 1) => EndsIn(d, n + 1) = EndsIn(d, n) \cup {n + 1}
  BY <1>1, <1>2 DEF EndsIn
<1>4. ~CommittedIn(d, n + 1) => EndsIn(d, n + 1) = EndsIn(d, n)
  BY <1>1, <1>2 DEF EndsIn
<1>5. n + 1 \notin EndsIn(d, n)
  BY <1>2 DEF EndsIn
<1> QED
  BY <1>3, <1>4, <1>5, EndsFinite, FS_AddElement

LEMMA EndExists ==
    ASSUME NEW d, NEW n \in Nat, NEW k \in 1..Cardinality(EndsIn(d, n))
    PROVE  \E i \in EndsIn(d, n) : Cardinality(EndsIn(d, i)) = k
<1> DEFINE P(m) == \A l \in 1..Cardinality(EndsIn(d, m)) :
                      \E i \in EndsIn(d, m) : Cardinality(EndsIn(d, i)) = l
           T == {m \in 0..n : P(m)}
<1>1. P(0)
  <2>1. Cardinality(EndsIn(d, 0)) = 0
    BY FS_EmptySet DEF EndsIn
  <2> QED
    BY <2>1
<1>2. ASSUME NEW m \in 0..n, P(m), m < n PROVE P(m + 1)
  <2>0. m \in Nat
    OBVIOUS
  <2>1. CASE ~CommittedIn(d, m + 1)
    BY <1>2, <2>0, <2>1, EndsStep
  <2>2. CASE CommittedIn(d, m + 1)
    <3> DEFINE c == Cardinality(EndsIn(d, m))
    <3>1. /\ EndsIn(d, m + 1) = EndsIn(d, m) \cup {m + 1}
          /\ Cardinality(EndsIn(d, m + 1)) = c + 1 /\ c \in Nat
      BY <2>0, <2>2, EndsStep, EndsFinite
    <3>2. ASSUME NEW l \in 1..(c + 1)
          PROVE  \E i \in EndsIn(d, m + 1) : Cardinality(EndsIn(d, i)) = l
      <4>1. l \in 1..c \/ l = c + 1
        BY <3>1
      <4> HIDE DEF c
      <4>2. CASE l \in 1..c
        BY <1>2, <3>1, <4>2 DEF c
      <4>3. CASE l = c + 1
        BY <3>1, <4>3
      <4> QED
        BY <4>1, <4>2, <4>3
    <3> QED
      BY <3>1, <3>2
  <2> QED
    BY <2>1, <2>2
<1> HIDE DEF P
<1>3. 0 \in T /\ \A m \in 0..n : m \in T /\ m < n => m + 1 \in T
  BY <1>1, <1>2
<1> HIDE DEF T
<1>4. n \in T
  <2>1. n \in 0..n
    OBVIOUS
  <2> QED
    BY <1>3, <2>1, InductionUpTo
<1>5. P(n)
  BY <1>4 DEF T
<1> QED
  BY <1>5 DEF P

LEMMA EndUnique ==
    ASSUME NEW d, NEW n \in Nat, NEW i \in EndsIn(d, n), NEW j \in EndsIn(d, n),
           Cardinality(EndsIn(d, i)) = Cardinality(EndsIn(d, j))
    PROVE  i = j
<1>1. ASSUME NEW a \in EndsIn(d, n), NEW b \in EndsIn(d, n), a < b
      PROVE  Cardinality(EndsIn(d, a)) # Cardinality(EndsIn(d, b))
  <2>1. a \in Nat /\ b \in Nat /\ a \in 0..b /\ b \in 1..b /\ b \notin 1..a
    BY <1>1, EndsFinite
  <2>2. EndsIn(d, a) \subseteq EndsIn(d, b) /\ IsFiniteSet(EndsIn(d, b))
    BY <2>1, EndsUpTo, EndsFinite
  <2>3. b \in EndsIn(d, b) /\ b \notin EndsIn(d, a)
    BY <2>1 DEF EndsIn
  <2> QED
    BY <2>2, <2>3, FS_Subset
<1>2. i \in Nat /\ j \in Nat
  BY EndsFinite
<1> QED
  BY <1>1, <1>2

LEMMA EndAtIs ==
    ASSUME NEW d, NEW n \in Nat, NEW k \in 1..Cardinality(EndsIn(d, n))
    PROVE  /\ EndAt(EndsIn(d, n), k) \in EndsIn(d, n)
           /\ Cardinality(EndsIn(d, EndAt(EndsIn(d, n), k))) = k
<1> DEFINE ends == EndsIn(d, n)
<1>1. PICK i \in ends : Cardinality(EndsIn(d, i)) = k
  BY EndExists
<1>2. \A x \in ends : {j \in ends : j <= x} = EndsIn(d, x)
  <2>1. \A x \in ends : x \in 0..n
    BY EndsFinite
  <2> QED
    BY <2>1, EndsUpTo
<1>3. EndAt(ends, k) = CHOOSE x \in ends : Cardinality({j \in ends : j <= x}) = k
  <2>1. k # 0
    BY EndsFinite
  <2> QED
    BY <2>1 DEF EndAt
<1> HIDE DEF ends
<1>4. Cardinality({j \in ends : j <= i}) = k
  BY <1>1, <1>2
<1>5. EndAt(ends, k) \in ends /\ Cardinality({j \in ends : j <= EndAt(ends, k)}) = k
  BY <1>3, <1>4
<1> QED
  BY <1>2, <1>5 DEF ends

(* The places of the first commits do not depend on how far one looks. *)
LEMMA EndAtSame ==
    ASSUME NEW d, NEW n \in Nat, NEW m \in 0..n
    PROVE  /\ Cardinality(EndsIn(d, m)) <= Cardinality(EndsIn(d, n))
           /\ \A k \in 0..Cardinality(EndsIn(d, m)) :
                 EndAt(EndsIn(d, n), k) = EndAt(EndsIn(d, m), k)
<1>0. m \in Nat
  OBVIOUS
<1>1. EndsIn(d, m) \in SUBSET EndsIn(d, n) /\ IsFiniteSet(EndsIn(d, n))
  BY EndsUpTo, EndsFinite
<1>2. Cardinality(EndsIn(d, m)) <= Cardinality(EndsIn(d, n))
  BY <1>1, FS_Subset
<1>3. Cardinality(EndsIn(d, m)) \in Nat /\ Cardinality(EndsIn(d, n)) \in Nat
  BY <1>0, EndsFinite
<1>4. ASSUME NEW k \in 0..Cardinality(EndsIn(d, m)), k # 0
      PROVE  EndAt(EndsIn(d, n), k) = EndAt(EndsIn(d, m), k)
  <2>1. k \in 1..Cardinality(EndsIn(d, m)) /\ k \in 1..Cardinality(EndsIn(d, n))
    BY <1>2, <1>3, <1>4
  <2>2. /\ EndAt(EndsIn(d, n), k) \in EndsIn(d, n)
        /\ Cardinality(EndsIn(d, EndAt(EndsIn(d, n), k))) = k
    BY <2>1, EndAtIs
  <2>3. /\ EndAt(EndsIn(d, m), k) \in EndsIn(d, m)
        /\ Cardinality(EndsIn(d, EndAt(EndsIn(d, m), k))) = k
    BY <1>0, <2>1, EndAtIs
  <2> QED
    BY <1>1, <2>2, <2>3, EndUnique
<1> QED
  BY <1>2, <1>4 DEF EndAt

LEMMA CommitsIs ==
    ASSUME NEW d, NEW n \in Nat
    PROVE  CommitsIn(d, n) = [k \in 1..Cardinality(EndsIn(d, n)) |->
               SubSeq(d, EndAt(EndsIn(d, n), k - 1) + 1, EndAt(EndsIn(d, n), k))]
<1> DEFINE ends == EndsIn(d, n)
           c == Cardinality(ends)
           at == [k \in 0..c |-> EndAt(ends, k)]
<1>1. c \in Nat
  BY EndsFinite
<1> HIDE DEF c
<1>2. \A k \in 1..c : k \in 0..c /\ k - 1 \in 0..c
  BY <1>1
<1>3. \A k \in 1..c : at[k - 1] = EndAt(ends, k - 1) /\ at[k] = EndAt(ends, k)
  BY <1>2
<1>4. CommitsIn(d, n) = [k \in 1..c |-> SubSeq(d, at[k - 1] + 1, at[k])]
  BY DEF CommitsIn, c
<1> HIDE DEF at
<1>5. CommitsIn(d, n) = [k \in 1..c |-> SubSeq(d, EndAt(ends, k - 1) + 1, EndAt(ends, k))]
  BY <1>3, <1>4
<1> QED
  BY <1>5 DEF c

LEMMA CommitsSeq ==
    ASSUME NEW d, NEW n \in Nat
    PROVE  /\ IsSeq(CommitsIn(d, n)) /\ Len(CommitsIn(d, n)) = Cardinality(EndsIn(d, n))
           /\ \A k \in 1..Cardinality(EndsIn(d, n)) :
                 CommitsIn(d, n)[k] = SubSeq(d, EndAt(EndsIn(d, n), k - 1) + 1,
                                             EndAt(EndsIn(d, n), k))
<1> DEFINE c == Cardinality(EndsIn(d, n))
           piece(k) == SubSeq(d, EndAt(EndsIn(d, n), k - 1) + 1, EndAt(EndsIn(d, n), k))
<1>1. c \in Nat
  BY EndsFinite
<1>2. CommitsIn(d, n) = [k \in 1..c |-> piece(k)]
  BY CommitsIs
<1> HIDE DEF c, piece
<1>3. /\ IsSeq(CommitsIn(d, n)) /\ Len(CommitsIn(d, n)) = c
      /\ \A k \in 1..c : CommitsIn(d, n)[k] = piece(k)
  BY <1>1, <1>2 DEF IsSeq
<1> QED
  BY <1>3 DEF c, piece

(* The commits of a prefix are the first commits. *)
LEMMA CommitsPrefix ==
    ASSUME NEW d, NEW n \in Nat, NEW m \in 0..n
    PROVE  /\ Len(CommitsIn(d, m)) \in 0..Len(CommitsIn(d, n))
           /\ CommitsIn(d, m) = SubSeq(CommitsIn(d, n), 1, Len(CommitsIn(d, m)))
<1> DEFINE s == CommitsIn(d, m)
           t == CommitsIn(d, n)
<1>0. m \in Nat
  OBVIOUS
<1>1. IsSeq(s) /\ IsSeq(t) /\ Len(s) = Cardinality(EndsIn(d, m))
      /\ Len(t) = Cardinality(EndsIn(d, n))
  BY <1>0, CommitsSeq
<1>2. Len(s) \in 0..Len(t)
  BY <1>1, EndAtSame DEF IsSeq
<1>3. \A k \in 1..Len(s) : s[k] = t[k]
  <2> SUFFICES ASSUME NEW k \in 1..Len(s) PROVE s[k] = t[k]
    OBVIOUS
  <2>1. /\ k \in 1..Len(t) /\ k \in 0..Len(s) /\ k - 1 \in 0..Len(s)
    <3> HIDE DEF s, t
    <3> QED
      BY <1>2
  <2> DEFINE atS(l) == EndAt(EndsIn(d, m), l)
             atT(l) == EndAt(EndsIn(d, n), l)
  <2>2. s[k] = SubSeq(d, atS(k - 1) + 1, atS(k))
    BY <1>0, <1>1, CommitsSeq
  <2>3. t[k] = SubSeq(d, atT(k - 1) + 1, atT(k))
    BY <1>1, <2>1, CommitsSeq
  <2>4. k \in 0..Cardinality(EndsIn(d, m)) /\ k - 1 \in 0..Cardinality(EndsIn(d, m))
    BY <1>1, <2>1
  <2>5. atS(k - 1) = atT(k - 1) /\ atS(k) = atT(k)
    BY <2>4, EndAtSame
  <2> HIDE DEF atS, atT, s, t
  <2> QED
    BY <2>2, <2>3, <2>5
<1> HIDE DEF s, t
<1>4. /\ IsSeq(SubSeq(t, 1, Len(s))) /\ Len(SubSeq(t, 1, Len(s))) = Len(s)
      /\ \A i \in 1..Len(s) : SubSeq(t, 1, Len(s))[i] = t[i]
  BY <1>1, <1>2, PrefixSeq
<1>5. s = SubSeq(t, 1, Len(s))
  BY <1>1, <1>3, <1>4 DEF IsSeq
<1> QED
  BY <1>2, <1>5 DEF s, t

(* A committed beginning of a file is committed in every file that has it. *)
LEMMA CommittedCarries ==
    ASSUME NEW d, NEW e, NEW i \in Nat, i <= Len(e),
           \A j \in 1..i : d[j] = e[j], CommittedIn(d, i)
    PROVE  CommittedIn(e, i)
<1>1. \A j \in 1..i : e[j].whole
  <2>1. \A j \in 1..i : d[j].whole
    BY DEF CommittedIn
  <2> QED
    BY <2>1
<1>2. ASSUME NEW j \in 1..i, e[j].frame.kind = "begin"
      PROVE  \E k \in j..i : e[k].frame.kind = "commit"
  <2>1. d[j].frame.kind = "begin"
    BY <1>2
  <2>2. PICK k \in j..i : d[k].frame.kind = "commit"
    BY <2>1 DEF CommittedIn
  <2>3. k \in 1..i
    OBVIOUS
  <2> QED
    BY <2>2, <2>3
<1> QED
  BY <1>1, <1>2 DEF CommittedIn

(* Two files with the same first chunks have the same commits in them. *)
LEMMA CommitsAgree ==
    ASSUME NEW d, NEW e, IsSeq(d), IsSeq(e), NEW n \in Nat, n <= Len(d), n <= Len(e),
           \A i \in 1..n : d[i] = e[i]
    PROVE  /\ \A i \in 0..n : CommittedIn(d, i) <=> CommittedIn(e, i)
           /\ EndsIn(d, n) = EndsIn(e, n) /\ CommitsIn(d, n) = CommitsIn(e, n)
<1>1. \A i \in 0..n : CommittedIn(d, i) <=> CommittedIn(e, i)
  <2> SUFFICES ASSUME NEW i \in 0..n PROVE CommittedIn(d, i) <=> CommittedIn(e, i)
    OBVIOUS
  <2>1. i <= Len(d) /\ i <= Len(e) /\ \A j \in 1..i : d[j] = e[j]
    BY DEF IsSeq
  <2>2. i \in Nat /\ (\A j \in 1..i : e[j] = d[j])
    BY <2>1
  <2> QED
    BY <2>1, <2>2, CommittedCarries
<1>2. EndsIn(d, n) = EndsIn(e, n)
  BY <1>1 DEF EndsIn
<1> DEFINE ends == EndsIn(d, n)
           at(k) == EndAt(ends, k)
<1>3. ASSUME NEW k \in 1..Cardinality(ends)
      PROVE  SubSeq(d, at(k - 1) + 1, at(k)) = SubSeq(e, at(k - 1) + 1, at(k))
  <2>1. at(k) \in 1..n /\ Cardinality(EndsIn(d, at(k))) = k
    BY EndAtIs, EndsFinite
  <2>2. at(k - 1) \in 0..n /\ (k # 1 => Cardinality(EndsIn(d, at(k - 1))) = k - 1)
    <3>1. Cardinality(ends) \in Nat
      BY EndsFinite
    <3>2. CASE k = 1
      <4>1. at(0) = 0
        BY DEF EndAt
      <4> QED
        BY <3>2, <4>1
    <3>3. CASE k # 1
      <4>1. k - 1 \in 1..Cardinality(ends)
        <5> HIDE DEF ends
        <5> QED
          BY <3>1, <3>3
      <4>2. at(k - 1) \in 1..n /\ Cardinality(EndsIn(d, at(k - 1))) = k - 1
        BY <4>1, EndAtIs, EndsFinite
      <4> QED
        BY <4>2
    <3> QED
      BY <3>2, <3>3
  <2> DEFINE a == at(k - 1)
             b == at(k)
  <2>3. a <= b
    <3>1. CASE k = 1
      <4>1. a = 0
        BY <3>1 DEF EndAt
      <4> QED
        BY <2>1, <4>1
    <3>2. CASE k # 1 /\ b < a
      <4>1. b \in 0..a /\ a \in Nat
        BY <2>1, <2>2, <3>2
      <4>2. Cardinality(EndsIn(d, b)) <= Cardinality(EndsIn(d, a))
        BY <4>1, EndAtSame
      <4> QED
        BY <2>1, <2>2, <3>2, <4>2
    <3> QED
      BY <2>1, <2>2, <3>1, <3>2
  <2>4. a \in 0..n /\ b \in 1..n
    BY <2>1, <2>2
  <2> HIDE DEF a, b
  <2>5. /\ a + 1 \in Nat \ {0} /\ b \in Nat /\ a + 1 <= b + 1 /\ b <= Len(d) /\ b <= Len(e)
    BY <2>3, <2>4 DEF IsSeq
  <2>6. \A i \in 1..(b - (a + 1) + 1) : (a + 1) + i - 1 \in 1..n
    BY <2>4
  <2> DEFINE x == SubSeq(d, a + 1, b)
             y == SubSeq(e, a + 1, b)
             l == b - (a + 1) + 1
  <2>7. IsSeq(x) /\ Len(x) = l /\ \A i \in 1..l : x[i] = d[(a + 1) + i - 1]
    BY <2>5, PieceSeq
  <2>8. IsSeq(y) /\ Len(y) = l /\ \A i \in 1..l : y[i] = e[(a + 1) + i - 1]
    BY <2>5, PieceSeq
  <2> HIDE DEF x, y
  <2>9. \A i \in 1..l : x[i] = y[i]
    BY <2>6, <2>7, <2>8
  <2> HIDE DEF l
  <2>10. x = [i \in 1..l |-> x[i]] /\ y = [i \in 1..l |-> y[i]]
    BY <2>7, <2>8 DEF IsSeq
  <2>11. x = y
    BY <2>9, <2>10
  <2> QED
    BY <2>11 DEF a, b, x, y
<1> HIDE DEF at
<1>4. CommitsIn(d, n) = CommitsIn(e, n)
  <2>1. CommitsIn(d, n) = [k \in 1..Cardinality(ends) |-> SubSeq(d, at(k - 1) + 1, at(k))]
    BY CommitsIs DEF at
  <2>2. CommitsIn(e, n) = [k \in 1..Cardinality(EndsIn(e, n)) |->
            SubSeq(e, EndAt(EndsIn(e, n), k - 1) + 1, EndAt(EndsIn(e, n), k))]
    BY CommitsIs
  <2>3. CommitsIn(e, n) = [k \in 1..Cardinality(ends) |-> SubSeq(e, at(k - 1) + 1, at(k))]
    BY <1>2, <2>2 DEF at
  <2> HIDE DEF ends
  <2> QED
    BY <1>3, <2>1, <2>3
<1> QED
  BY <1>1, <1>2, <1>4

(* Where nothing is committed the log ends before. *)
LEMMA CommitsEnd ==
    ASSUME NEW d, NEW n \in Nat, NEW m \in 0..n, \A i \in (m + 1)..n : ~CommittedIn(d, i)
    PROVE  EndsIn(d, n) = EndsIn(d, m) /\ CommitsIn(d, n) = CommitsIn(d, m)
<1>1. \A i \in 1..n : i \in 1..m \/ i \in (m + 1)..n
  OBVIOUS
<1>2. 1..m \subseteq 1..n
  OBVIOUS
<1>3. EndsIn(d, n) = EndsIn(d, m)
  BY <1>1, <1>2 DEF EndsIn
<1> QED
  BY <1>3 DEF CommitsIn

(* One more chunk commits, or it does not. *)
LEMMA CommitsStep ==
    ASSUME NEW d, NEW n \in Nat
    PROVE  /\ CommittedIn(d, n + 1) => Len(CommitsIn(d, n + 1)) = Len(CommitsIn(d, n)) + 1
           /\ ~CommittedIn(d, n + 1) => CommitsIn(d, n + 1) = CommitsIn(d, n)
<1>1. n + 1 \in Nat
  OBVIOUS
<1> DEFINE told(ends) == [k \in 1..Cardinality(ends) |->
                             SubSeq(d, EndAt(ends, k - 1) + 1, EndAt(ends, k))]
<1>2. CommitsIn(d, n + 1) = told(EndsIn(d, n + 1)) /\ CommitsIn(d, n) = told(EndsIn(d, n))
  BY <1>1, CommitsIs
<1> HIDE DEF told
<1>3. ~CommittedIn(d, n + 1) => CommitsIn(d, n + 1) = CommitsIn(d, n)
  BY <1>2, EndsStep
<1> QED
  BY <1>1, <1>3, EndsStep, CommitsSeq

-----------------------------------------------------------------------------
(* What is committed stays. *)

Kept(d, e) ==
    \A n \in Nat : CommittedIn(d, n) => CommittedIn(e, n) /\ \A i \in 1..n : e[i] = d[i]

LEMMA NothingKept == ASSUME NEW d PROVE Kept(d, d)
  BY DEF Kept

LEMMA KeptUpTo ==
    ASSUME NEW d, NEW e, IsSeq(d), IsSeq(e), NEW m \in Nat, m <= Len(d), m <= Len(e),
           \A i \in 1..m : e[i] = d[i], \A n \in Nat : CommittedIn(d, n) => n <= m
    PROVE  Kept(d, e)
<1> SUFFICES ASSUME NEW n \in Nat, CommittedIn(d, n)
             PROVE  CommittedIn(e, n) /\ \A i \in 1..n : e[i] = d[i]
  BY DEF Kept
<1>1. n <= m
  OBVIOUS
<1>2. Len(d) \in Nat /\ Len(e) \in Nat
  BY DEF IsSeq
<1>3. n <= Len(d) /\ n <= Len(e) /\ \A i \in 1..n : e[i] = d[i]
  BY <1>1, <1>2
<1>4. \A i \in 0..n : CommittedIn(d, i) <=> CommittedIn(e, i)
  BY <1>3, CommitsAgree
<1> QED
  BY <1>3, <1>4

(* Nothing is committed from a cell on that stays open. *)
LEMMA OpenUncommitted ==
    ASSUME NEW d, NEW n \in Nat, NEW s \in Nat, NEW m \in Nat, CommittedIn(d, n), n <= m,
           d[s + 1].frame.kind = "begin",
           \A i \in (s + 1)..m : d[i].frame.kind # "commit"
    PROVE  n <= s
<1> SUFFICES ASSUME s < n PROVE FALSE
  OBVIOUS
<1>1. s + 1 \in 1..n
  OBVIOUS
<1>2. PICK j \in (s + 1)..n : d[j].frame.kind = "commit"
  BY <1>1 DEF CommittedIn
<1>3. j \in (s + 1)..m
  BY <1>2
<1> QED
  BY <1>2, <1>3

(* What a rollback cuts off is not committed. *)
LEMMA RolledBack ==
    ASSUME HandlesInv, StoreInv, NEW p \in Proc, pc[p] = "rollback", UnfinishedInv(p),
           NEW n \in Nat, IsCommitted(n)
    PROVE  n <= job[p].start
<1> DEFINE j == job[p]
           s == j.start
           f == Len(j.frames)
           e == Len(disk)
<1>1. /\ s \in Nat /\ f \in Nat /\ f > 0 /\ e \in Nat /\ s <= e /\ e <= s + f
      /\ \A i \in (s + 1)..e : disk[i].frame = j.frames[i - s]
  BY Writing DEF JobInv, FramesInv, IsSeq
<1>2. /\ f > 1 => j.frames[1].kind = "begin"
      /\ \A i \in 1..f : j.frames[i].kind = "commit" => i = f
      /\ e < s + f \/ ~disk[e].whole
  BY DEF UnfinishedInv, WriteStates
<1>3. n <= e /\ \A i \in 1..n : disk[i].whole
  BY DEF IsCommitted, CommittedIn
<1> HIDE DEF s, f, e, j
<1> SUFFICES ASSUME s < n PROVE FALSE
  BY <1>1 DEF s, j
<1>4. n < s + f
  BY <1>1, <1>2, <1>3
<1>5. s + 1 \in 1..n /\ s + 1 \in (s + 1)..e /\ (s + 1) - s = 1 /\ f > 1
  BY <1>1, <1>3, <1>4
<1>6. disk[s + 1].frame.kind = "begin"
  BY <1>1, <1>2, <1>5
<1>7. PICK i \in (s + 1)..n : disk[i].frame.kind = "commit"
  BY <1>5, <1>6 DEF IsCommitted, CommittedIn
<1>8. i \in (s + 1)..e /\ i - s \in 1..f /\ i - s # f
  BY <1>1, <1>3, <1>4, <1>7
<1> QED
  BY <1>1, <1>2, <1>7, <1>8

(* Nor what a repair cuts off. *)
LEMMA RepairedAway ==
    ASSUME HandlesInv, StoreInv, NEW p \in Proc, lease = p, Repair(p)
    PROVE  /\ Valid(cursor[p]) \in Nat /\ Valid(cursor[p]) <= Len(disk)
           /\ \A n \in Nat : IsCommitted(n) => n <= Valid(cursor[p])
<1> DEFINE c == cursor[p]
           v == Valid(c)
<1>1. ScanInv(c)
  BY DEF Repair, StoreInv, WriterInv, WriterAt
<1>2. ~Moved(c)
  BY <1>1 DEF ScanInv, Moved, Sampled
<1>3. c.offset = c.limit
  <2>1. c.offset < c.limit => disk[c.offset + 1].whole
    BY <1>1 DEF ScanInv, WholeTo
  <2> QED
    BY <1>2, <2>1 DEF Repair, Incomplete
<1>4. /\ c.limit \in Nat /\ c.cut \in BOOLEAN
      /\ Len(disk) = c.limit + (IF c.cut THEN 1 ELSE 0)
      /\ c.cut => ~disk[Len(disk)].whole
  BY <1>1 DEF ScanInv
<1>5. ASSUME NEW n \in Nat, IsCommitted(n) PROVE n <= c.limit
  <2>1. n <= Len(disk) /\ (n > 0 => disk[n].whole)
    BY <1>5 DEF IsCommitted, CommittedIn
  <2> QED
    BY <1>4, <2>1
<1>6. CASE c.cell.open
  <2>1. /\ v = c.cell.start /\ v \in Nat /\ v < c.limit
        /\ disk[v + 1].frame.kind = "begin"
        /\ \A i \in (v + 1)..c.limit : disk[i].frame.kind # "commit"
    BY <1>1, <1>3, <1>6 DEF ScanInv, IsCell, Valid
  <2> HIDE DEF v
  <2>2. ASSUME NEW n \in Nat, IsCommitted(n) PROVE n <= v
    BY <1>4, <1>5, <2>1, <2>2, OpenUncommitted DEF IsCommitted
  <2> QED
    BY <1>4, <2>1, <2>2 DEF v
<1>7. CASE ~c.cell.open
  <2>1. v = c.limit
    BY <1>3, <1>7 DEF Valid
  <2> QED
    BY <1>4, <1>5, <2>1
<1> QED
  BY <1>6, <1>7

(* A cut keeps what it does not cut off. *)
LEMMA TruncateKeeps ==
    ASSUME DiskInv, NEW m \in Nat, m <= Len(disk), Truncate(m),
           \A n \in Nat : IsCommitted(n) => n <= m
    PROVE  /\ Kept(disk, disk') /\ IsSeq(disk') /\ Len(disk') = m
           /\ \A i \in 1..m : disk'[i] = disk[i]
<1>1. LogInv(disk) /\ IsSeq(disk) /\ m \in 0..Len(disk)
  BY DEF DiskInv, LogInv, IsSeq
<1>2. LogInv(disk') /\ Len(disk') = m /\ \A i \in 1..m : disk'[i] = disk[i]
  BY <1>1, LogPrefix DEF Truncate
<1>3. IsSeq(disk')
  BY <1>2 DEF LogInv
<1> QED
  BY <1>1, <1>2, <1>3, KeptUpTo DEF IsCommitted

(* The process does nothing, but may have its file cut. *)
Idle(q) ==
    /\ pc'[q] = pc[q] /\ next_sequence'[q] = next_sequence[q]
    /\ cursor'[q].offset = cursor[q].offset /\ cursor'[q].limit = cursor[q].limit
    /\ cursor'[q].cell = cursor[q].cell /\ cursor'[q].refresh = cursor[q].refresh
    /\ cursor'[q].low \in {cursor[q].low, Len(disk')}

LEMMA CutUnderIdle ==
    ASSUME HandlesInv, NEW q \in Proc, cursor'[q] = CutUnder(Len(disk'))[q],
           pc'[q] = pc[q], next_sequence'[q] = next_sequence[q]
    PROVE  Idle(q)
<1> DEFINE n == Len(disk')
<1>1. DOMAIN cursor[q] = DOMAIN NoScan
  BY DEF HandlesInv
<1>2. \/ cursor'[q] = cursor[q]
      \/ cursor'[q] = [cursor[q] EXCEPT !.low = n]
      \/ cursor'[q] = [cursor[q] EXCEPT !.low = cursor[q].low]
  BY DEF CutUnder
<1> HIDE DEF n
<1> QED
  BY <1>1, <1>2 DEF Idle, NoScan, n

(* The view and the scan of an idle process stay committed. *)
LEMMA KnownKept ==
    ASSUME ContentInv, NEW q \in Proc, KnownInv(q), Idle(q), Kept(disk, disk'),
           IsSeq(disk')
    PROVE  KnownInv(q)'
<1> DEFINE n == next_sequence[q]
           c == cursor[q]
<1>1. n \in Nat /\ (pc[q] = "scan" => CursorInv(c))
  BY DEF ContentInv, HandleInv
<1>2. HasView(q)' <=> HasView(q)
  BY DEF HasView, Idle
<1>3. ASSUME NEW m \in Nat, IsCommitted(m)
      PROVE  IsCommitted(m)' /\ m <= Len(disk') /\ \A i \in 1..m : disk'[i] = disk[i]
  BY <1>3 DEF Kept, IsCommitted, CommittedIn
<1>4. HasView(q)' => IsCommitted(next_sequence[q])'
  BY <1>1, <1>2, <1>3 DEF Idle, KnownInv
<1>5. pc'[q] = "scan" => IsCommitted(Valid(cursor[q]))'
  <2> SUFFICES ASSUME pc[q] = "scan" PROVE IsCommitted(Valid(cursor[q]))'
    BY DEF Idle
  <2>1. Valid(c) \in Nat /\ IsCommitted(Valid(c))
    BY <1>1, ValidNumber DEF KnownInv
  <2>2. Valid(cursor'[q]) = Valid(c)
    BY DEF Idle, Valid
  <2> QED
    BY <1>3, <2>1, <2>2
<1>6. ASSUME pc'[q] = "scan", cursor'[q].refresh
      PROVE  RefreshInv(cursor[q], next_sequence[q])'
  <2> DEFINE e == cursor'[q]
  <2>1. pc[q] = "scan" /\ c.refresh /\ RefreshInv(c, n) /\ HasView(q)
    BY <1>6 DEF Idle, KnownInv, HasView
  <2>2. IsCommitted(n) /\ n <= Len(disk') /\ \A i \in 1..n : disk'[i] = disk[i]
    BY <1>1, <1>3, <2>1 DEF KnownInv
  <2>3. /\ e.offset = c.offset /\ e.limit = c.limit /\ e.cell = c.cell
        /\ Valid(e) = Valid(c) /\ e.low \in {c.low, Len(disk')} /\ next_sequence'[q] = n
    BY DEF Idle, Valid
  <2>4. /\ c.offset \in Nat /\ (c.cell.open => c.cell.start \in Nat /\ c.cell.start < c.offset)
        /\ c.low \in Nat /\ Len(disk') \in Nat
    BY <1>1, <2>1 DEF CursorInv, IsCell, RefreshInv, IsSeq
  <2>5. e.low \in Nat /\ n <= e.low /\ n <= e.limit
    BY <2>1, <2>2, <2>3, <2>4 DEF RefreshInv
  <2>6. ASSUME c.offset <= n, c.cell.open
        PROVE  /\ disk'[c.cell.start + 1].frame.kind = "begin"
               /\ \A i \in (c.cell.start + 1)..c.offset : disk'[i].frame.kind # "commit"
    <3>1. /\ disk[c.cell.start + 1].frame.kind = "begin"
          /\ \A i \in (c.cell.start + 1)..c.offset : disk[i].frame.kind # "commit"
      BY <2>1, <2>6 DEF RefreshInv, FrameAt
    <3>2. c.cell.start + 1 \in 1..n /\ \A i \in (c.cell.start + 1)..c.offset : i \in 1..n
      BY <1>1, <2>4, <2>6
    <3> QED
      BY <2>2, <3>1, <3>2
  <2> HIDE DEF e
  <2>7. /\ c.offset > n => n <= Valid(c)
        /\ e.offset > n => n <= Valid(e)
    BY <2>1, <2>3 DEF RefreshInv
  <2>8. e.offset <= n /\ e.cell.open =>
           /\ disk'[e.cell.start + 1].frame.kind = "begin"
           /\ \A i \in (e.cell.start + 1)..e.offset : disk'[i].frame.kind # "commit"
    BY <2>3, <2>6
  <2> QED
    BY <2>3, <2>5, <2>7, <2>8 DEF RefreshInv, FrameAt, e
<1> QED
  BY <1>4, <1>5, <1>6 DEF KnownInv

(* It is enough to look at the processes that do something. *)
LEMMA KnownStep ==
    ASSUME ContentInv, ViewsInv, Kept(disk, disk'), IsSeq(disk'), MagicInv',
           \A q \in Proc : Idle(q) \/ KnownInv(q)',
           \A q \in Proc : lease' = q => UnfinishedInv(q)'
    PROVE  ViewsInv'
  BY KnownKept DEF ViewsInv

LEMMA ClosedKnows ==
    ASSUME NEW q \in Proc, pc'[q] = "closed"
    PROVE  KnownInv(q)' /\ UnfinishedInv(q)'
  BY DEF KnownInv, HasView, UnfinishedInv, WriteStates

(* A scan starts from nothing, which is committed. *)
LEMMA NothingCommitted == IsCommitted(0)' /\ (DiskInv => IsCommitted(0))
  BY DEF IsCommitted, CommittedIn, DiskInv, LogInv, IsSeq

-----------------------------------------------------------------------------
(* Steps that leave the chunks of the file as they are. *)

Same(q) ==
    /\ pc'[q] = pc[q] /\ next_sequence'[q] = next_sequence[q] /\ cursor'[q] = cursor[q]
    /\ job'[q] = job[q]

LEMMA OneMoves ==
    ASSUME ContentInv, ViewsInv, disk' = disk, synced' = synced \/ \A q \in Proc : pc'[q] # "payload",
           MagicInv', NEW S, \A q \in Proc \ S : Same(q) /\ (lease' = q => lease = q),
           \A q \in Proc \cap S : KnownInv(q)' /\ (lease' = q => UnfinishedInv(q)')
    PROVE  ViewsInv'
<1>1. Kept(disk, disk') /\ IsSeq(disk')
  BY NothingKept DEF ContentInv, SoundLog
<1>2. \A q \in Proc : Idle(q) \/ KnownInv(q)'
  BY DEF Idle, Same
<1>3. ASSUME NEW q \in Proc, lease' = q PROVE UnfinishedInv(q)'
  <2>1. CASE q \in S
    BY <1>3, <2>1
  <2>2. CASE q \notin S
    <3>1. Same(q) /\ lease = q /\ UnfinishedInv(q)
      BY <1>3, <2>2 DEF ViewsInv
    <3> QED
      BY <3>1 DEF UnfinishedInv, Same
  <2> QED
    BY <2>1, <2>2
<1> QED
  BY <1>1, <1>2, <1>3, KnownStep

LEMMA NobodyMoves ==
    ASSUME ContentInv, ViewsInv, disk' = disk, synced' = synced \/ \A q \in Proc : pc'[q] # "payload",
           MagicInv', \A q \in Proc : Same(q) /\ (lease' = q => lease = q)
    PROVE  ViewsInv'
<1> DEFINE S == {}
<1>1. \A q \in Proc \cap S : KnownInv(q)' /\ (lease' = q => UnfinishedInv(q)')
  OBVIOUS
<1> HIDE DEF S
<1> QED
  BY <1>1, OneMoves

LEMMA OneMove ==
    ASSUME ContentInv, ViewsInv, disk' = disk, synced' = synced, MagicInv', NEW p \in Proc,
           \A q \in Proc \ {p} : Same(q) /\ (lease' = q => lease = q),
           KnownInv(p)', lease' = p => UnfinishedInv(p)'
    PROVE  ViewsInv'
<1> DEFINE S == {p}
<1>1. \A q \in Proc \cap S : q = p
  OBVIOUS
<1>2. \A q \in Proc \ S : Same(q) /\ (lease' = q => lease = q)
  OBVIOUS
<1> HIDE DEF S
<1>3. \A q \in Proc \cap S : KnownInv(q)' /\ (lease' = q => UnfinishedInv(q)')
  BY <1>1
<1> QED
  BY <1>2, <1>3, OneMoves

LEMMA ReleaseViews ==
    ASSUME HandlesInv, ContentInv, ViewsInv, NEW S \in SUBSET Proc, NEW value, Release(S, value),
           UNCHANGED <<magic, disk, synced>>
    PROVE  ViewsInv'
<1>1. \A q \in Proc \ S : Same(q) /\ (lease' = q => lease = q)
  BY ProcAssumption DEF Release, Reset, Same, Unlocked
<1>2. \A q \in Proc \cap S : KnownInv(q)' /\ (lease' = q => UnfinishedInv(q)')
  BY ClosedKnows DEF Release, Reset
<1>3. MagicInv'
  BY DEF ViewsInv, MagicInv, Release, Unlocked
<1> QED
  BY <1>1, <1>2, <1>3, OneMoves

(* A process that is in its first scan, at the beginning of the file. *)
LEMMA FirstScan ==
    ASSUME HandlesInv, NEW p \in Proc, StartScan(p, FALSE)
    PROVE  KnownInv(p)' /\ UnfinishedInv(p)'
<1>1. /\ pc'[p] = "scan" /\ ~cursor'[p].refresh
      /\ cursor'[p].offset = 0 /\ cursor'[p].cell = NoCell
  BY DEF StartScan, HandlesInv, NoScan
<1>2. ~HasView(p)' /\ UnfinishedInv(p)'
  BY <1>1 DEF HasView, UnfinishedInv, WriteStates
<1>3. Valid(cursor'[p]) = 0
  BY <1>1 DEF Valid, NoCell
<1> QED
  BY <1>1, <1>2, <1>3, NothingCommitted DEF KnownInv

LEMMA RefreshViews ==
    ASSUME HandlesInv, ContentInv, ViewsInv, NEW p \in Proc, Refresh(p)
    PROVE  ViewsInv'
<1> DEFINE n == next_sequence[p]
           e == cursor'[p]
<1>1. /\ pc[p] = "ready" /\ disk' = disk /\ synced' = synced /\ magic' = magic /\ lease' = lease
      /\ n \in Nat /\ next_sequence'[p] = n /\ pc'[p] = "scan" /\ HasView(p)
  BY DEF Refresh, StartScan, HandlesInv, ContentInv, HandleInv, HasView, file
<1>2. /\ e.offset = 0 /\ e.cell = NoCell /\ e.low = Len(disk) /\ e.refresh = TRUE
      /\ e.limit = IF IsCut THEN Len(disk) - 1 ELSE Len(disk)
  BY DEF Refresh, StartScan, HandlesInv, NoScan
<1>3. IsCommitted(n)
  BY <1>1 DEF ViewsInv, KnownInv
<1>4. Len(disk) \in Nat
  BY DEF ContentInv, SoundLog, IsSeq
<1>5. n <= Len(disk) /\ (IsCut => n <= Len(disk) - 1)
  <2>1. n <= Len(disk) /\ (n > 0 => disk[n].whole)
    BY <1>1, <1>3 DEF IsCommitted, CommittedIn
  <2> QED
    BY <1>1, <1>4, <2>1 DEF IsCut
<1>6. Valid(e) = 0 /\ ~e.cell.open
  BY <1>2 DEF Valid, NoCell
<1> HIDE DEF n
<1>7. e.low \in Nat /\ n <= e.limit /\ n <= e.low /\ (e.offset <= n)
  <2> HIDE DEF e
  <2> QED
    BY <1>1, <1>2, <1>4, <1>5
<1>8. KnownInv(p)'
  <2>1. RefreshInv(cursor[p], next_sequence[p])'
    BY <1>1, <1>2, <1>6, <1>7 DEF RefreshInv
  <2>2. IsCommitted(next_sequence[p])'
    BY <1>1, <1>3 DEF IsCommitted
  <2> QED
    BY <1>6, <2>1, <2>2, NothingCommitted DEF KnownInv
<1>9. UnfinishedInv(p)'
  BY <1>1 DEF UnfinishedInv, WriteStates
<1>10. \A q \in Proc \ {p} : Same(q) /\ (lease' = q => lease = q)
  BY <1>1 DEF Same, Refresh, StartScan, HandlesInv
<1>11. MagicInv'
  BY <1>1 DEF ViewsInv, MagicInv
<1> QED
  BY <1>1, <1>8, <1>9, <1>10, <1>11, OneMove

(* The next frame of the log: it leads from one committed place to the     *)
(* next, or the scan stays where it was.                                   *)
LEMMA ScanFrameViews ==
    ASSUME HandlesInv, DiskInv, ContentInv, ViewsInv, NEW p \in Proc, ScanFrame(p)
    PROVE  ViewsInv'
<1> DEFINE c == cursor[p]
           e == cursor'[p]
           frame == disk[c.offset + 1].frame
           n == next_sequence[p]
           o == c.offset
<1>1. /\ pc[p] = "scan" /\ Readable(c) /\ Acceptable(c)
      /\ UNCHANGED <<file, pc, mode, db, next_sequence, provisional, job, reply, acked>>
  BY DEF ScanFrame
<1>2. /\ DOMAIN cursor = Proc /\ DOMAIN c = DOMAIN NoScan /\ CursorInv(c) /\ n \in Nat
  BY <1>1 DEF HandlesInv, ContentInv, HandleInv
<1>3. /\ e.offset = c.offset + 1 /\ e.cell = CellAfter(c.cell, frame, c.offset + 1)
      /\ e.low = c.low /\ e.limit = c.limit /\ e.refresh = c.refresh
  BY <1>2, Zenon DEF ScanFrame, NoScan
<1>4. \A q \in Proc \ {p} : cursor'[q] = cursor[q]
  BY <1>2, Zenon DEF ScanFrame
<1>5. /\ o \in Nat /\ Len(disk) \in Nat /\ o + 1 <= Len(disk) /\ disk[o + 1].whole
      /\ IsCell(c.cell) /\ (c.cell.open => c.cell.start \in Nat /\ c.cell.start < o)
  BY <1>1, <1>2 DEF Readable, CursorInv, DiskInv, LogInv, IsSeq, IsCell
<1>6. FrameBalances(c.db, c.cell, frame)
  BY <1>1 DEF Acceptable
<1>7. IsCommitted(Valid(c)) /\ (c.refresh => RefreshInv(c, n) /\ IsCommitted(n))
  BY <1>1 DEF ViewsInv, KnownInv, HasView
<1>8. \A i \in 1..(o + 1) : disk[i].whole
  BY <1>5 DEF DiskInv, LogInv
<1>9. /\ IsCell(e.cell)
      /\ \/ frame.kind = "begin" /\ ~c.cell.open /\ e.cell.open /\ e.cell.start = o
         \/ frame.kind = "commit" /\ c.cell.open /\ ~e.cell.open
         \/ /\ frame.kind \notin {"begin", "commit"}
            /\ e.cell.open = c.cell.open /\ e.cell.start = c.cell.start
  <2>1. o + 1 \in Nat \ {0} /\ (o + 1) - 1 = o
    BY <1>5
  <2> HIDE DEF c, frame, e
  <2> QED
    BY <1>3, <1>5, <1>6, <2>1, CellAfterFrame DEF c, o
<1>10. /\ c.cell.open => Valid(c) = c.cell.start
       /\ ~c.cell.open => Valid(c) = o
       /\ e.cell.open => Valid(e) = e.cell.start
       /\ ~e.cell.open => Valid(e) = o + 1
  BY <1>3 DEF Valid
<1>11. disk[o + 1].frame = frame
  OBVIOUS
<1> HIDE DEF c, e, frame, n, o
<1>12. IsCommitted(Valid(e))
  <2>1. CASE e.cell.open
    <3>1. Valid(e) = Valid(c)
      BY <1>9, <1>10, <2>1
    <3> QED
      BY <1>7, <3>1
  <2>2. CASE ~e.cell.open /\ frame.kind = "commit"
    <3>1. \A i \in 1..(o + 1) : o + 1 \in i..(o + 1)
      BY <1>5
    <3> QED
      BY <1>5, <1>8, <1>10, <1>11, <2>2, <3>1 DEF IsCommitted, CommittedIn
  <2>3. CASE ~e.cell.open /\ frame.kind # "commit"
    <3>1. ~c.cell.open /\ frame.kind # "begin" /\ Valid(e) = o + 1 /\ IsCommitted(o)
      BY <1>7, <1>9, <1>10, <2>3
    <3>2. ASSUME NEW i \in 1..(o + 1), disk[i].frame.kind = "begin"
          PROVE  \E j \in i..(o + 1) : disk[j].frame.kind = "commit"
      <4>1. i \in 1..o
        BY <1>5, <1>11, <3>1, <3>2
      <4>2. PICK j \in i..o : disk[j].frame.kind = "commit"
        BY <3>1, <3>2, <4>1 DEF IsCommitted, CommittedIn
      <4>3. j \in i..(o + 1)
        BY <1>5, <4>1, <4>2
      <4> QED
        BY <4>2, <4>3
    <3> QED
      BY <1>5, <1>8, <3>1, <3>2 DEF IsCommitted, CommittedIn
  <2> QED
    BY <2>1, <2>2, <2>3
<1>13. c.refresh => RefreshInv(e, n)
  <2> SUFFICES ASSUME c.refresh PROVE RefreshInv(e, n)
    OBVIOUS
  <2>1. RefreshInv(c, n) /\ IsCommitted(n)
    BY <1>7
  <2>2. e.low \in Nat /\ n <= e.limit /\ n <= e.low
    BY <1>3, <2>1 DEF RefreshInv
  <2>3. ASSUME e.offset > n PROVE n <= Valid(e)
    <3>1. CASE o > n
      <4>1. n <= Valid(c)
        BY <2>1, <3>1 DEF RefreshInv, o
      <4>2. Valid(c) = Valid(e) \/ (Valid(e) = o + 1)
        BY <1>9, <1>10
      <4> QED
        BY <1>2, <1>5, <3>1, <4>1, <4>2
    <3>2. CASE o = n
      <4>1. ~c.cell.open
        <5> SUFFICES ASSUME c.cell.open PROVE FALSE
          OBVIOUS
        <5>1. /\ disk[c.cell.start + 1].frame.kind = "begin"
              /\ \A i \in (c.cell.start + 1)..o : disk[i].frame.kind # "commit"
          BY <1>5, <2>1, <3>2 DEF RefreshInv, FrameAt, o
        <5>2. n <= c.cell.start
          BY <1>2, <1>5, <2>1, <3>2, <5>1, OpenUncommitted DEF IsCommitted
        <5> QED
          BY <1>2, <1>5, <3>2, <5>2
      <4> QED
        BY <1>2, <1>5, <1>9, <1>10, <3>2, <4>1
    <3> QED
      BY <1>2, <1>3, <1>5, <2>3, <3>1, <3>2 DEF o
  <2>4. ASSUME e.offset <= n, e.cell.open
        PROVE  /\ disk[e.cell.start + 1].frame.kind = "begin"
               /\ \A i \in (e.cell.start + 1)..e.offset : disk[i].frame.kind # "commit"
    <3>1. e.offset = o + 1
      BY <1>3 DEF o
    <3>2. CASE frame.kind = "begin" /\ e.cell.start = o
      <4>1. \A i \in (o + 1)..(o + 1) : i = o + 1
        BY <1>5
      <4> QED
        BY <1>11, <3>1, <3>2, <4>1
    <3>3. CASE frame.kind \notin {"begin", "commit"} /\ c.cell.open /\ e.cell.start = c.cell.start
      <4>1. /\ disk[c.cell.start + 1].frame.kind = "begin"
            /\ \A i \in (c.cell.start + 1)..o : disk[i].frame.kind # "commit"
        BY <1>2, <1>5, <2>1, <2>4, <3>1, <3>3 DEF RefreshInv, FrameAt, o
      <4>2. \A i \in (c.cell.start + 1)..(o + 1) : i \in (c.cell.start + 1)..o \/ i = o + 1
        BY <1>5, <3>3
      <4> QED
        BY <1>11, <3>1, <3>3, <4>1, <4>2
    <3> QED
      BY <1>9, <2>4, <3>2, <3>3
  <2> QED
    BY <2>2, <2>3, <2>4 DEF RefreshInv, FrameAt
<1>14. KnownInv(p)'
  <2>1. disk' = disk /\ pc' = pc /\ next_sequence' = next_sequence
    BY <1>1 DEF file
  <2>2. /\ HasView(p)' => IsCommitted(next_sequence[p])'
    BY <1>1, <1>3, <1>7, <2>1 DEF HasView, IsCommitted, c, e, n
  <2>3. IsCommitted(Valid(cursor[p]))' 
    BY <1>12, <2>1 DEF IsCommitted, Valid, e
  <2>4. cursor'[p].refresh => RefreshInv(cursor[p], next_sequence[p])'
    BY <1>3, <1>13, <2>1 DEF RefreshInv, FrameAt, Valid, e, n
  <2> QED
    BY <2>2, <2>3, <2>4 DEF KnownInv
<1>15. UnfinishedInv(p)'
  BY <1>1 DEF UnfinishedInv, WriteStates
<1>16. \A q \in Proc \ {p} : Same(q) /\ (lease' = q => lease = q)
  BY <1>1, <1>4 DEF Same, file
<1>17. MagicInv' /\ disk' = disk /\ synced' = synced
  BY <1>1 DEF ViewsInv, MagicInv, file
<1> QED
  BY <1>14, <1>15, <1>16, <1>17, OneMove

(* What an operation writes commits with its last frame only. *)
LEMMA PreparedCommits ==
    ASSUME NEW frames, NEW view, NEW sequence \in Nat, Prepared(frames, view, sequence)
    PROVE  /\ Len(frames) > 1 => frames[1].kind = "begin"
           /\ \A i \in 1..Len(frames) : frames[i].kind = "commit" => i = Len(frames)
<1>1. ASSUME NEW kind \in {"atom", "bond"}, NEW payload,
             frames = <<Frame(sequence, kind, payload)>>
      PROVE  /\ Len(frames) > 1 => frames[1].kind = "begin"
             /\ \A i \in 1..Len(frames) : frames[i].kind = "commit" => i = Len(frames)
  BY <1>1 DEF Frame
<1>2. ASSUME NEW cell \in Cells, frames = CellFrames(prepare_cell(view, cell), sequence)
      PROVE  /\ Len(frames) > 1 => frames[1].kind = "begin"
             /\ \A i \in 1..Len(frames) : frames[i].kind = "commit" => i = Len(frames)
  <2> DEFINE prepared == prepare_cell(view, cell)
             a == Len(prepared.atoms)
             b == Len(prepared.bonds)
             r == Len(prepared.roots)
             n == a + b + r + 2
  <2>1. a \in Nat /\ b \in Nat /\ r \in Nat
    BY PreparedFinite
  <2>2. n \in Nat /\ n >= 2 /\ 1 \in 1..n
    <3> HIDE DEF a, b, r
    <3> QED
      BY <2>1
  <2> HIDE DEF prepared
  <2>3. /\ DOMAIN frames = 1..n
        /\ frames[1] = Frame(sequence, "begin", CellMeta(prepared))
    BY <1>2, <2>2 DEF CellFrames, prepared
  <2>4. FramesInv(frames, sequence)
    BY <1>2, CellFramesShape
  <2>5. Len(frames) = n
    <3> HIDE DEF n
    <3> QED
      BY <2>2, <2>3, <2>4 DEF FramesInv, IsSeq
  <2>6. ASSUME NEW i \in 1..n, i # n PROVE frames[i].kind # "commit"
    <3>1. i <= a + b + r + 1
      <4> HIDE DEF a, b, r
      <4> QED
        BY <2>1, <2>6
    <3>2. \/ frames[i] = Frame(sequence, "begin", CellMeta(prepared))
          \/ frames[i] = Frame(sequence + i - 1, "atom", <<prepared.atoms[i - 1][2]>>)
          \/ frames[i] = Frame(sequence + i - 1, "bond", prepared.bonds[i - 1 - a][2])
          \/ frames[i] = Frame(sequence + i - 1, "root", prepared.roots[i - 1 - a - b])
      BY <1>2, <3>1 DEF CellFrames, prepared
    <3> HIDE DEF a, b, r, n
    <3> QED
      BY <3>2 DEF Frame
  <2>7. frames[1].kind = "begin"
    BY <2>3 DEF Frame
  <2> HIDE DEF n
  <2> QED
    BY <2>5, <2>6, <2>7
<1> QED
  BY <1>1, <1>2 DEF Prepared

LEMMA StartWriteViews ==
    ASSUME HandlesInv, HandlesInv', ContentInv, ContentInv', ViewsInv, NEW p \in Proc,
           NEW frames, ReadyWriter(p), StartWrite(p, frames)
    PROVE  ViewsInv'
<1>1. /\ pc'[p] = "write" /\ job'[p].frames = frames /\ next_sequence' = next_sequence
      /\ UNCHANGED <<file, cursor>> /\ pc[p] = "ready"
      /\ \A q \in Proc \ {p} : Same(q)
  BY DEF StartWrite, HandlesInv, ReadyWriter, Same
<1>2. Prepared(job'[p].frames, db'[p], next_sequence'[p]) /\ next_sequence'[p] \in Nat
  <2>1. HandleInv(p)'
    BY DEF ContentInv
  <2> QED
    BY <1>1, <2>1 DEF HandleInv, WriteStates, Prepared
<1>3. UnfinishedInv(p)'
  BY <1>1, <1>2, PreparedCommits DEF UnfinishedInv
<1>4. KnownInv(p)'
  BY <1>1 DEF ViewsInv, KnownInv, HasView, IsCommitted, file
<1>5. MagicInv'
  BY <1>1 DEF ViewsInv, MagicInv, file
<1> QED
  BY <1>1, <1>3, <1>4, <1>5, OneMove DEF file

LEMMA NoViews ==
    ASSUME ContentInv, ViewsInv, UNCHANGED vars
    PROVE  ViewsInv'
<1>1. MagicInv'
  BY DEF ViewsInv, MagicInv, vars, file
<1>2. \A q \in Proc : Same(q) /\ (lease' = q => lease = q)
  BY DEF Same, vars, file, handles
<1> QED
  BY <1>1, <1>2, NobodyMoves DEF vars, file

LEMMA CallViews ==
    ASSUME HandlesInv, HandlesInv', ContentInv, ContentInv', ViewsInv, NEW p \in Proc, Call(p)
    PROVE  ViewsInv'
<1>0. DOMAIN pc = Proc /\ DOMAIN cursor = Proc
  BY DEF HandlesInv
<1>1. CASE UNCHANGED vars
  BY <1>1, NoViews
<1>2. CASE OpenWriter(p)
  <2>1. KnownInv(p)' /\ UnfinishedInv(p)'
    BY <1>2, FirstScan DEF OpenWriter
  <2>2. \A q \in Proc \ {p} : Same(q) /\ (lease' = q => lease = q)
    BY <1>0, <1>2 DEF OpenWriter, StartScan, Same
  <2>3. MagicInv'
    BY <1>2 DEF OpenWriter, ViewsInv, MagicInv
  <2> QED
    BY <1>2, <2>1, <2>2, <2>3, OneMove DEF OpenWriter
<1>3. CASE CreateStore(p)
  <2>1. KnownInv(p)' /\ UnfinishedInv(p)'
    BY <1>0, <1>3 DEF CreateStore, KnownInv, HasView, UnfinishedInv, WriteStates
  <2>2. \A q \in Proc \ {p} : Same(q) /\ (lease' = q => lease = q)
    BY <1>0, <1>3 DEF CreateStore, Same
  <2>3. MagicInv'
    BY <1>3 DEF CreateStore, ViewsInv, MagicInv
  <2> QED
    BY <1>3, <2>1, <2>2, <2>3, OneMove DEF CreateStore
<1>4. CASE CreateStoreFault(p)
  <2>1. \A q \in Proc : Same(q) /\ (lease' = q => lease = q)
    BY <1>4 DEF CreateStoreFault, Same
  <2>2. MagicInv'
    BY <1>4 DEF CreateStoreFault, ViewsInv, MagicInv
  <2> QED
    BY <1>4, <2>1, <2>2, NobodyMoves DEF CreateStoreFault
<1>5. CASE OpenReadOnly(p)
  <2>1. KnownInv(p)' /\ UnfinishedInv(p)'
    BY <1>5, FirstScan DEF OpenReadOnly
  <2>2. \A q \in Proc \ {p} : Same(q) /\ (lease' = q => lease = q)
    BY <1>0, <1>5 DEF OpenReadOnly, StartScan, Same, file
  <2>3. MagicInv'
    BY <1>5 DEF OpenReadOnly, ViewsInv, MagicInv, file
  <2> QED
    BY <1>5, <2>1, <2>2, <2>3, OneMove DEF OpenReadOnly, file
<1>6. CASE Refresh(p)
  BY <1>6, RefreshViews
<1>7. CASE Flush(p)
  <2>1. \A q \in Proc : Same(q) /\ (lease' = q => lease = q)
    BY <1>7 DEF Flush, Same
  <2>2. pc' = pc /\ disk' = disk /\ magic' = "durable" /\ lease' = lease /\ pc[p] = "ready"
        /\ lease = p
    BY <1>7, OneWriter DEF Flush, SyncData, ReadyWriter
  <2>3. \A q \in Proc : pc'[q] # "payload"
    BY <2>2, OneWriter
  <2>4. MagicInv'
    BY <2>2 DEF MagicInv
  <2> QED
    BY <2>1, <2>2, <2>3, <2>4, NobodyMoves
<1>8. CASE Close(p)
  BY <1>8, ReleaseViews DEF Close
<1>9. ASSUME NEW frames, ReadyWriter(p), StartWrite(p, frames)
      PROVE  ViewsInv'
  BY <1>9, StartWriteViews
<1> QED
  BY <1>1, <1>2, <1>3, <1>4, <1>5, <1>6, <1>7, <1>8, <1>9
     DEF Call, OpenBusy, OpenRejected, Refuse, PutAtom, PutBond, CommitCell

(* A finished scan has found what the handle knew before, and all of it is *)
(* committed.                                                              *)
LEMMA FinishGrows ==
    ASSUME HandlesInv, ContentInv, ViewsInv, NEW p \in Proc, ScanClean(p) \/ ScanProvisional(p)
    PROVE  /\ pc[p] = "scan" /\ pc'[p] = "ready" /\ next_sequence'[p] = Valid(cursor[p])
           /\ Valid(cursor[p]) \in Nat /\ IsCommitted(Valid(cursor[p]))
           /\ UNCHANGED <<file, mode, job, acked>>
           /\ \A q \in Proc \ {p} : Same(q)
           /\ HasView(p) => next_sequence[p] <= Valid(cursor[p])
<1> DEFINE c == cursor[p]
           n == next_sequence[p]
           v == Valid(c)
<1>1. /\ pc[p] = "scan" /\ DOMAIN pc = Proc /\ DOMAIN cursor = Proc /\ DOMAIN next_sequence = Proc
      /\ UNCHANGED <<file, mode, job, acked>>
  BY DEF ScanClean, ScanProvisional, HandlesInv
<1>2. CursorInv(c) /\ n \in Nat
  BY <1>1 DEF ContentInv, HandleInv
<1>3. v \in Nat /\ v <= c.offset
  BY <1>2, ValidNumber
<1>4. pc'[p] = "ready" /\ next_sequence'[p] = v /\ \A q \in Proc \ {p} : Same(q)
  <2>1. CASE ScanClean(p)
    BY <1>1, <2>1 DEF ScanClean, Finish, Valid, Same
  <2>2. CASE ScanProvisional(p)
    BY <1>1, <2>2 DEF ScanProvisional, Finish, Same
  <2> QED
    BY <2>1, <2>2
<1>5. IsCommitted(v)
  BY <1>1 DEF ViewsInv, KnownInv
<1>6. ASSUME HasView(p) PROVE n <= v
  <2>1. c.refresh /\ RefreshInv(c, n) /\ IsCommitted(n)
    BY <1>1, <1>6 DEF HasView, ViewsInv, KnownInv
  <2>2. n <= Len(disk) /\ (\A i \in 1..n : disk[i].whole) /\ c.offset \in Nat
        /\ n <= c.limit /\ n <= c.low /\ c.low \in Nat
    BY <1>2, <2>1 DEF IsCommitted, CommittedIn, RefreshInv, CursorInv
  <2>3. n <= c.offset
    <3>1. c.offset = c.limit \/ Moved(c) \/ (c.offset < c.limit /\ ~disk[c.offset + 1].whole)
      BY DEF ScanClean, ScanProvisional, Incomplete
    <3>2. CASE c.offset = c.limit
      BY <2>2, <3>2
    <3>3. CASE Moved(c)
      BY <1>2, <2>2, <3>3 DEF Moved
    <3>4. CASE c.offset < c.limit /\ ~disk[c.offset + 1].whole
      <4> HIDE DEF c, n
      <4> QED
        BY <1>2, <2>2, <3>4
    <3> QED
      BY <3>1, <3>2, <3>3, <3>4
  <2>4. CASE c.offset > n
    BY <2>1, <2>4 DEF RefreshInv
  <2>5. CASE c.offset = n /\ c.cell.open
    <3>1. /\ c.cell.start \in Nat /\ c.cell.start < c.offset
          /\ disk[c.cell.start + 1].frame.kind = "begin"
          /\ \A i \in (c.cell.start + 1)..n : disk[i].frame.kind # "commit"
      BY <1>2, <2>1, <2>5 DEF CursorInv, IsCell, RefreshInv, FrameAt
    <3>2. n <= c.cell.start
      BY <1>2, <2>1, <3>1, OpenUncommitted DEF IsCommitted
    <3> QED
      BY <1>2, <2>5, <3>1, <3>2
  <2>6. CASE c.offset = n /\ ~c.cell.open
    BY <1>2, <2>6 DEF Valid
  <2> HIDE DEF c, n, v
  <2> QED
    BY <1>2, <2>2, <2>3, <2>4, <2>5, <2>6
<1> QED
  BY <1>1, <1>3, <1>4, <1>5, <1>6

LEMMA FinishViews ==
    ASSUME HandlesInv, ContentInv, ViewsInv, NEW p \in Proc, ScanClean(p) \/ ScanProvisional(p)
    PROVE  ViewsInv'
<1>1. /\ pc'[p] = "ready" /\ next_sequence'[p] = Valid(cursor[p])
      /\ IsCommitted(Valid(cursor[p]))
      /\ UNCHANGED <<file, mode, job, acked>> /\ \A q \in Proc \ {p} : Same(q)
  BY FinishGrows
<1>2. KnownInv(p)' /\ UnfinishedInv(p)'
  BY <1>1 DEF KnownInv, UnfinishedInv, WriteStates, IsCommitted, file
<1>3. MagicInv'
  BY <1>1 DEF ViewsInv, MagicInv, file
<1> QED
  BY <1>1, <1>2, <1>3, OneMove DEF file

LEMMA FailViews ==
    ASSUME HandlesInv, ContentInv, ViewsInv, NEW p \in Proc, NEW value, Fail(p, value),
           pc[p] = "scan", UNCHANGED <<magic, disk, synced>>
    PROVE  ViewsInv'
<1>1. CASE ~cursor[p].refresh
  BY <1>1, ReleaseViews DEF Fail
<1>2. CASE cursor[p].refresh
  <2>1. /\ pc'[p] = "ready" /\ next_sequence'[p] = next_sequence[p] /\ lease' = lease
        /\ \A q \in Proc \ {p} : Same(q)
    BY <1>2 DEF Fail, HandlesInv, Same
  <2>2. IsCommitted(next_sequence[p])
    BY <1>2 DEF ViewsInv, KnownInv, HasView
  <2>3. KnownInv(p)' /\ UnfinishedInv(p)'
    BY <2>1, <2>2 DEF KnownInv, UnfinishedInv, WriteStates, IsCommitted
  <2>4. MagicInv'
    BY <2>1 DEF ViewsInv, MagicInv
  <2> QED
    BY <2>1, <2>3, <2>4, OneMove
<1> QED
  BY <1>1, <1>2

-----------------------------------------------------------------------------
(* Steps that change the file. *)

LEMMA RepairCuts ==
    ASSUME HandlesInv, StoreInv, NEW p \in Proc, Repair(p)
    PROVE  LET v == Valid(cursor[p]) IN
           /\ lease = p /\ v \in Nat /\ v <= Len(disk)
           /\ \A n \in Nat : IsCommitted(n) => n <= v
           /\ Kept(disk, disk') /\ IsSeq(disk') /\ Len(disk') = v /\ synced' = v
           /\ \A i \in 1..v : disk'[i] = disk[i]
<1> DEFINE v == Valid(cursor[p])
<1>1. lease = p
  BY OneWriter DEF Repair
<1>2. v \in Nat /\ v <= Len(disk) /\ \A n \in Nat : IsCommitted(n) => n <= v
  BY <1>1, RepairedAway
<1>3. Truncate(v) /\ DiskInv
  BY DEF Repair, StoreInv
<1> HIDE DEF v
<1>4. /\ Kept(disk, disk') /\ IsSeq(disk') /\ Len(disk') = v
      /\ \A i \in 1..v : disk'[i] = disk[i]
  BY <1>2, <1>3, TruncateKeeps
<1>5. synced' = v
  BY <1>3 DEF Truncate
<1> QED
  BY <1>1, <1>2, <1>4, <1>5 DEF v

LEMMA RollbackCuts ==
    ASSUME HandlesInv, StoreInv, ViewsInv, NEW p \in Proc, Rollback(p)
    PROVE  LET m == job[p].start IN
           /\ lease = p /\ m \in Nat /\ m <= Len(disk)
           /\ \A n \in Nat : IsCommitted(n) => n <= m
           /\ Kept(disk, disk') /\ IsSeq(disk') /\ Len(disk') = m /\ synced' = m
           /\ \A i \in 1..m : disk'[i] = disk[i]
<1> DEFINE m == job[p].start
<1>1. lease = p /\ m \in Nat /\ m <= Len(disk)
  BY Writing DEF Rollback
<1>2. UnfinishedInv(p) /\ pc[p] = "rollback"
  BY <1>1 DEF ViewsInv, Rollback
<1>3. \A n \in Nat : IsCommitted(n) => n <= m
  BY <1>2, RolledBack
<1>4. Truncate(m) /\ DiskInv
  BY DEF Rollback, StoreInv
<1> HIDE DEF m
<1>5. /\ Kept(disk, disk') /\ IsSeq(disk') /\ Len(disk') = m
      /\ \A i \in 1..m : disk'[i] = disk[i]
  BY <1>1, <1>3, <1>4, TruncateKeeps
<1>6. synced' = m
  BY <1>4 DEF Truncate
<1> QED
  BY <1>1, <1>3, <1>5, <1>6 DEF m

LEMMA HeaderAppends ==
    ASSUME HandlesInv, StoreInv, NEW p \in Proc, WriteHeader(p)
    PROVE  /\ lease = p /\ Len(disk) \in Nat /\ Len(disk') = Len(disk) + 1 /\ IsSeq(disk')
           /\ \A i \in 1..Len(disk) : disk'[i] = disk[i]
           /\ ~disk'[Len(disk')].whole
           /\ Kept(disk, disk')
<1> DEFINE x == Chunk(job[p].frames[job[p].written + 1], FALSE, 1)
           n == Len(disk)
<1>1. lease = p /\ IsSeq(disk) /\ n \in Nat
  BY Writing DEF WriteHeader, LogInv
<1>2. ~x.whole
  BY DEF Chunk
<1>3. disk' = Append(disk, x)
  BY DEF WriteHeader
<1> HIDE DEF x
<1>4. IsSeq(disk') /\ Len(disk') = n + 1 /\ disk'[n + 1] = x /\ \A i \in 1..n : disk'[i] = disk[i]
  BY <1>1, <1>3, AppendSeq
<1>5. \A m \in Nat : CommittedIn(disk, m) => m <= n
  BY DEF CommittedIn
<1>6. n <= Len(disk) /\ n <= Len(disk')
  BY <1>1, <1>4
<1> HIDE DEF n
<1>7. Kept(disk, disk')
  BY <1>1, <1>4, <1>5, <1>6, KeptUpTo
<1> QED
  BY <1>1, <1>2, <1>4, <1>7 DEF n

LEMMA PayloadCompletes ==
    ASSUME HandlesInv, StoreInv, ViewsInv, NEW p \in Proc, WritePayload(p)
    PROVE  /\ lease = p /\ Len(disk) \in Nat /\ Len(disk) > 0
           /\ IsSeq(disk) /\ IsSeq(disk') /\ Len(disk') = Len(disk)
           /\ \A i \in 1..(Len(disk) - 1) : disk'[i] = disk[i]
           /\ ~IsCommitted(Len(disk)) /\ synced < Len(disk)
           /\ Kept(disk, disk')
<1> DEFINE n == Len(disk)
<1>1. lease = p /\ LogInv(disk) /\ n \in Nat /\ WriterAt(p) /\ pc[p] = "payload" /\ IsSeq(disk)
      /\ job[p].start \in Nat /\ job[p].written \in Nat
  BY Writing DEF WritePayload, LogInv
<1>2. n > 0
  BY <1>1 DEF WriterAt
<1>3. ~disk[n].whole /\ synced < n
  BY <1>1 DEF ViewsInv, UnfinishedInv
<1>4. disk' = [disk EXCEPT ![n].whole = TRUE]
  BY DEF WritePayload
<1>5. /\ LogInv(disk') /\ Len(disk') = n /\ \A i \in 1..(n - 1) : disk'[i] = disk[i]
  BY <1>1, <1>2, <1>4, LogComplete
<1>6. IsSeq(disk')
  BY <1>5 DEF LogInv
<1>7. \A m \in Nat : CommittedIn(disk, m) => m <= n - 1
  <2> SUFFICES ASSUME NEW m \in Nat, CommittedIn(disk, m) PROVE m <= n - 1
    OBVIOUS
  <2>1. m <= n /\ (m > 0 => disk[m].whole)
    BY DEF CommittedIn
  <2> HIDE DEF n
  <2> QED
    BY <1>1, <1>2, <1>3, <2>1
<1>8. n - 1 \in Nat /\ n - 1 <= Len(disk) /\ n - 1 <= Len(disk')
  BY <1>1, <1>2, <1>5
<1>9. ~IsCommitted(n)
  BY <1>1, <1>7 DEF IsCommitted
<1>10. Kept(disk, disk')
  <2> DEFINE k == n - 1
  <2>1. /\ k \in Nat /\ k <= Len(disk) /\ k <= Len(disk') /\ \A i \in 1..k : disk'[i] = disk[i]
        /\ \A m \in Nat : CommittedIn(disk, m) => m <= k
    BY <1>5, <1>7, <1>8
  <2> HIDE DEF k
  <2> QED
    BY <1>1, <1>6, <2>1, KeptUpTo
<1> QED
  BY <1>1, <1>2, <1>3, <1>5, <1>6, <1>9, <1>10

LEMMA IdleKept ==
    ASSUME NEW q, Same(q)
    PROVE  Idle(q)
  BY DEF Same, Idle

LEMMA RepairViews ==
    ASSUME HandlesInv, StoreInv, ContentInv, ViewsInv, NEW p \in Proc, Repair(p)
    PROVE  ViewsInv'
<1> DEFINE v == Valid(cursor[p])
<1>1. /\ lease = p /\ v \in Nat
      /\ Kept(disk, disk') /\ IsSeq(disk') /\ Len(disk') = v
  BY RepairCuts
<1>2. /\ pc[p] = "scan" /\ pc'[p] = "ready" /\ next_sequence'[p] = v /\ lease' = lease
      /\ magic' = "durable"
      /\ \A q \in Proc \ {p} : /\ pc'[q] = pc[q] /\ next_sequence'[q] = next_sequence[q]
                               /\ cursor'[q] = CutUnder(v)[q]
  BY CutUnderKeeps DEF Repair, HandlesInv
<1>3. IsCommitted(v)
  BY <1>2 DEF ViewsInv, KnownInv
<1> HIDE DEF v
<1>4. CommittedIn(disk', v)
  BY <1>1, <1>3 DEF Kept, IsCommitted
<1>5. KnownInv(p)' /\ UnfinishedInv(p)'
  BY <1>2, <1>4 DEF KnownInv, UnfinishedInv, WriteStates, IsCommitted
<1>6. \A q \in Proc \ {p} : Idle(q)
  BY <1>1, <1>2, CutUnderIdle
<1>7. MagicInv'
  BY <1>2 DEF MagicInv
<1>8. \A q \in Proc : (Idle(q) \/ KnownInv(q)') /\ (lease' = q => UnfinishedInv(q)')
  BY <1>1, <1>2, <1>5, <1>6
<1> QED
  BY <1>1, <1>7, <1>8, KnownStep

LEMMA RollbackViews ==
    ASSUME HandlesInv, StoreInv, ContentInv, ViewsInv, NEW p \in Proc, Rollback(p)
    PROVE  ViewsInv'
<1> DEFINE m == job[p].start
<1>1. /\ lease = p /\ m \in Nat
      /\ Kept(disk, disk') /\ IsSeq(disk') /\ Len(disk') = m
  BY RollbackCuts
<1>2. /\ pc[p] = "rollback" /\ pc'[p] = "ready" /\ next_sequence' = next_sequence /\ lease' = lease
      /\ magic' = "durable"
      /\ \A q \in Proc \ {p} : pc'[q] = pc[q]
      /\ \A q \in Proc : cursor'[q] = CutUnder(m)[q]
  BY DEF Rollback, HandlesInv
<1>3. IsCommitted(next_sequence[p]) /\ next_sequence[p] \in Nat
  BY <1>2 DEF ViewsInv, KnownInv, HasView, ContentInv, HandleInv
<1> HIDE DEF m
<1>4. IsCommitted(next_sequence[p])'
  BY <1>1, <1>2, <1>3 DEF Kept, IsCommitted
<1>5. KnownInv(p)' /\ UnfinishedInv(p)'
  BY <1>2, <1>4 DEF KnownInv, UnfinishedInv, WriteStates
<1>6. \A q \in Proc \ {p} : Idle(q)
  BY <1>1, <1>2, CutUnderIdle
<1>7. MagicInv'
  BY <1>2 DEF MagicInv
<1>8. \A q \in Proc : (Idle(q) \/ KnownInv(q)') /\ (lease' = q => UnfinishedInv(q)')
  BY <1>1, <1>2, <1>5, <1>6
<1> QED
  BY <1>1, <1>7, <1>8, KnownStep

(* The writer p goes on in its write, and knows what it knew. *)
LEMMA WritingViews ==
    ASSUME HandlesInv, ContentInv, ViewsInv, NEW p \in Proc, lease = p, lease' = p,
           pc[p] \in WriteStates, pc'[p] \in WriteStates \cup {"ready"},
           \A q \in Proc \ {p} : Same(q),
           next_sequence' = next_sequence, Kept(disk, disk'), IsSeq(disk'),
           UnfinishedInv(p)', magic' = magic, synced' = synced
    PROVE  ViewsInv'
<1>1. IsCommitted(next_sequence[p]) /\ next_sequence[p] \in Nat
  BY DEF ViewsInv, KnownInv, HasView, WriteStates, ContentInv, HandleInv
<1>2. IsCommitted(next_sequence[p])'
  BY <1>1 DEF Kept, IsCommitted
<1>3. KnownInv(p)'
  BY <1>2 DEF KnownInv, WriteStates
<1>4. MagicInv'
  <2>1. p # Nobody
    BY ProcAssumption
  <2> QED
    BY <2>1 DEF ViewsInv, MagicInv
<1>5. \A q \in Proc : (Idle(q) \/ KnownInv(q)') /\ (lease' = q => UnfinishedInv(q)')
  BY <1>3, IdleKept
<1> QED
  BY <1>4, <1>5, KnownStep

LEMMA WriteViews ==
    ASSUME HandlesInv, HandlesInv', StoreInv, StoreInv', ContentInv, ContentInv', ViewsInv,
           "rollback" \notin Failures, "sync" \notin Failures, NEW p \in Proc, Write(p)
    PROVE  ViewsInv'
<1>0. DOMAIN pc = Proc /\ DOMAIN job = Proc
  BY DEF HandlesInv
<1>1. CASE WriteHeader(p)
  <2>1. /\ lease = p /\ Len(disk') = Len(disk) + 1 /\ Len(disk) \in Nat /\ IsSeq(disk')
        /\ ~disk'[Len(disk')].whole /\ Kept(disk, disk') /\ synced \in 0..Len(disk)
    BY <1>1, HeaderAppends DEF ContentInv
  <2>2. /\ pc[p] = "write" /\ pc'[p] = "payload" /\ \A q \in Proc \ {p} : Same(q)
        /\ UNCHANGED <<magic, synced, lease, next_sequence, job>>
    BY <1>0, <1>1 DEF WriteHeader, Same
  <2>3. UnfinishedInv(p)'
    BY <2>1, <2>2 DEF ViewsInv, UnfinishedInv, WriteStates
  <2> QED
    BY <2>1, <2>2, <2>3, WritingViews DEF WriteStates
<1>2. CASE WritePayload(p)
  <2>1. lease = p /\ IsSeq(disk') /\ Kept(disk, disk')
    BY <1>2, PayloadCompletes
  <2>2. DOMAIN job[p] = DOMAIN NoJob
    BY <1>2 DEF WritePayload, ContentInv, HandleInv, WriteStates
  <2>3. /\ pc[p] = "payload" /\ pc'[p] \in {"sync", "write"} /\ \A q \in Proc \ {p} : Same(q)
        /\ UNCHANGED <<magic, synced, lease, next_sequence>> /\ job'[p].frames = job[p].frames
    BY <1>0, <1>2, <2>2 DEF WritePayload, Same, NoJob
  <2>4. UnfinishedInv(p)'
    BY <2>1, <2>3 DEF ViewsInv, UnfinishedInv, WriteStates
  <2> QED
    BY <2>1, <2>3, <2>4, WritingViews DEF WriteStates
<1>3. CASE WriteFault(p)
  <2>1. /\ lease = p /\ pc[p] \in {"write", "payload"} /\ WriterAt(p)
        /\ job[p].start \in Nat /\ job[p].written \in Nat /\ Len(job[p].frames) \in Nat
        /\ Len(disk) \in Nat
    BY <1>3, Writing DEF WriteFault
  <2>2. /\ pc'[p] = "rollback" /\ \A q \in Proc \ {p} : Same(q)
        /\ UNCHANGED <<magic, disk, synced, lease, next_sequence, job>>
    BY <1>0, <1>3 DEF WriteFault, Same, file
  <2>3. Len(disk) < job[p].start + Len(job[p].frames) \/ ~disk[Len(disk)].whole
    BY <2>1 DEF WriterAt, ViewsInv, UnfinishedInv
  <2>4. UnfinishedInv(p)'
    BY <2>1, <2>2, <2>3 DEF ViewsInv, UnfinishedInv, WriteStates
  <2>5. IsSeq(disk') /\ Kept(disk, disk')
    BY <2>2, NothingKept DEF ContentInv, SoundLog
  <2> QED
    BY <2>1, <2>2, <2>4, <2>5, WritingViews DEF WriteStates
<1>4. CASE Sync(p)
  <2>1. lease = p /\ pc[p] = "sync"
    BY <1>4, Writing DEF Sync
  <2>2. /\ pc'[p] = "ready" /\ lease' = p /\ disk' = disk /\ magic' = "durable"
        /\ \A q \in Proc \ {p} : Same(q)
    BY <1>0, <1>4, <2>1 DEF Sync, SyncData, HandlesInv, Same
  <2>3. /\ next_sequence'[p] = Len(disk') /\ WholeTo(disk', Len(disk'))
        /\ ClosedTo(disk', Len(disk')) /\ Len(disk') \in Nat
    BY <2>2 DEF StoreInv, WriterInv, WriterAt, DiskInv, LogInv, IsSeq
  <2>4. IsCommitted(next_sequence[p])'
    BY <2>3 DEF IsCommitted, CommittedIn, WholeTo, ClosedTo
  <2>5. KnownInv(p)' /\ UnfinishedInv(p)'
    BY <2>2, <2>4 DEF KnownInv, UnfinishedInv, WriteStates
  <2>6. MagicInv'
    BY <2>2 DEF MagicInv
  <2>7. \A q \in Proc : (Idle(q) \/ KnownInv(q)') /\ (lease' = q => UnfinishedInv(q)')
    BY <2>2, <2>5, IdleKept
  <2>8. IsSeq(disk') /\ Kept(disk, disk')
    BY <2>2, NothingKept DEF ContentInv, SoundLog
  <2> QED
    BY <2>6, <2>7, <2>8, KnownStep
<1>5. CASE Rollback(p)
  BY <1>5, RollbackViews
<1> QED
  BY <1>1, <1>2, <1>3, <1>4, <1>5 DEF Write, SyncFault, RollbackFault

LEMMA ScanViews ==
    ASSUME HandlesInv, StoreInv, ContentInv, ViewsInv, NEW p \in Proc, Scan(p)
    PROVE  ViewsInv'
<1>1. CASE ScanFrame(p)
  BY <1>1, ScanFrameViews DEF StoreInv
<1>2. CASE ScanCorrupt(p) \/ ScanEof(p)
  BY <1>2, FailViews DEF ScanCorrupt, ScanEof
<1>3. CASE ScanClean(p) \/ ScanProvisional(p)
  BY <1>3, FinishViews
<1>4. CASE Repair(p)
  BY <1>4, RepairViews
<1>5. CASE RepairFault(p)
  BY <1>5, ReleaseViews DEF RepairFault
<1> QED
  BY <1>1, <1>2, <1>3, <1>4, <1>5 DEF Scan

LEMMA PowerLossViews ==
    ASSUME HandlesInv, ContentInv, ViewsInv, PowerLoss
    PROVE  ViewsInv'
<1>1. /\ \A q \in Proc : pc'[q] = "closed"
      /\ lease' = Nobody
  BY DEF PowerLoss, Release, Reset, Unlocked, HandlesInv
<1>2. \A q \in Proc : KnownInv(q)' /\ UnfinishedInv(q)'
  BY <1>1, ClosedKnows
<1>3. MagicInv'
  <2>1. CASE magic = "cached" /\ magic' \in {"none", "torn"} /\ disk' = <<>> /\ synced' = 0
    BY <1>1, <2>1 DEF MagicInv
  <2>2. CASE magic' = IF magic = "cached" THEN "durable" ELSE magic
    <3>1. CASE magic \in {"none", "torn"}
      <4>1. disk = <<>> /\ synced = 0 /\ magic' \in {"none", "torn"} /\ Len(disk) = 0
        BY <2>2, <3>1 DEF ViewsInv, MagicInv
      <4>2. PICK k \in synced..Len(disk) :
                \/ disk' = SubSeq(disk, 1, k) /\ synced' = k
                \/ /\ k < Len(disk)
                   /\ disk' = Append(SubSeq(disk, 1, k), Chunk(disk[k + 1].frame, FALSE, 1))
                   /\ synced' = k + 1
        BY <3>1 DEF PowerLoss
      <4>3. k = 0 /\ ~(k < Len(disk))
        <5>1. k \in 0..0 /\ Len(disk) = 0
          BY <4>1
        <5> QED
          BY <5>1
      <4>5. disk' = SubSeq(disk, 1, 0) /\ synced' = 0
        BY <4>2, <4>3
      <4>4. disk' = <<>>
        BY <4>1, <4>5
      <4> QED
        BY <1>1, <4>1, <4>4, <4>5 DEF MagicInv
    <3>2. CASE magic \notin {"none", "torn"}
      <4>1. magic' = "durable"
        BY <2>2, <3>2 DEF ViewsInv, MagicInv
      <4> QED
        BY <1>1, <4>1 DEF MagicInv
    <3> QED
      BY <3>1, <3>2
  <2> QED
    BY <2>1, <2>2 DEF PowerLoss
<1> QED
  BY <1>1, <1>2, <1>3 DEF ViewsInv

(* While no truncation and no sync fails, what a handle or a scan takes    *)
(* for committed is, and stays so.                                         *)
LEMMA ViewsInductive ==
    ASSUME "rollback" \notin Failures, "sync" \notin Failures
    PROVE  /\ Init => ViewsInv
           /\ FileInv /\ ContentInv /\ ViewsInv /\ [Next]_vars => ViewsInv'
<1>1. Init => ViewsInv
  <2> SUFFICES ASSUME Init PROVE ViewsInv
    OBVIOUS
  <2>1. MagicInv
    BY DEF Init, MagicInv
  <2>2. \A q \in Proc : KnownInv(q) /\ UnfinishedInv(q)
    BY DEF Init, KnownInv, HasView, UnfinishedInv, WriteStates
  <2> QED
    BY <2>1, <2>2 DEF ViewsInv
<1>2. ASSUME FileInv, ContentInv, ViewsInv, [Next]_vars
      PROVE  ViewsInv'
  <2>0. HandlesInv /\ StoreInv /\ HandlesInv' /\ StoreInv' /\ ContentInv'
    BY <1>2, FileInductive, ContentInductive DEF FileInv
  <2>1. CASE UNCHANGED vars
    BY <1>2, <2>1, NoViews
  <2>2. ASSUME NEW p \in Proc, Call(p) \/ Scan(p) \/ Write(p)
        PROVE  ViewsInv'
    BY <1>2, <2>0, <2>2, CallViews, ScanViews, WriteViews
  <2>3. ASSUME NEW p \in Proc, SyncMagic(p)
        PROVE  ViewsInv'
    <3>1. KnownInv(p)' /\ UnfinishedInv(p)'
      BY <2>0, <2>3, FirstScan DEF SyncMagic
    <3>2. \A q \in Proc \ {p} : Same(q) /\ (lease' = q => lease = q)
      BY <2>0, <2>3 DEF SyncMagic, StartScan, Same, HandlesInv
    <3>3. MagicInv'
      BY <2>3 DEF SyncMagic, MagicInv
    <3> QED
      BY <1>2, <2>3, <3>1, <3>2, <3>3, OneMove DEF SyncMagic
  <2>4. ASSUME NEW p \in Proc, Crash(p) \/ SyncMagicFault(p)
        PROVE  ViewsInv'
    BY <1>2, <2>0, <2>4, ReleaseViews DEF Crash, SyncMagicFault
  <2>5. CASE PowerLoss
    BY <1>2, <2>0, <2>5, PowerLossViews
  <2> QED
    BY <1>2, <2>1, <2>2, <2>3, <2>4, <2>5 DEF Next
<1> QED
  BY <1>1, <1>2

(* ViewsInv, in every state. *)
LEMMA SpecViews ==
    ASSUME "rollback" \notin Failures, "sync" \notin Failures
    PROVE  Spec => []ViewsInv
<1>1. Init => ViewsInv
  BY ViewsInductive
<1>2. FileInv /\ ContentInv /\ ViewsInv /\ [Next]_vars => ViewsInv'
  BY ViewsInductive
<1>3. Spec => []FileInv
  BY SpecFile
<1> QED
  BY <1>1, <1>2, <1>3, SpecContent, PTL DEF Spec

(* While set_len works the whole invariant holds of every state.           *)
THEOREM SpecInvariant ==
    ASSUME "rollback" \notin Failures
    PROVE  Spec => []IInv
<1>1. Spec => []FileInv
  BY SpecFile
<1>2. CASE "sync" \notin Failures
  <2>1. Spec => []ViewsInv
    BY <1>2, SpecViews
  <2>2. FileInv /\ ContentInv /\ ViewsInv => IInv
    BY DEF IInv
  <2> QED
    BY <1>1, <2>1, <2>2, SpecContent, PTL
<1>3. CASE "sync" \in Failures
  <2>1. FileInv /\ ContentInv => IInv
    BY <1>3 DEF IInv
  <2> QED
    BY <1>1, <2>1, SpecContent, PTL
<1> QED
  BY <1>2, <1>3

-----------------------------------------------------------------------------
(* The store as a log of commits. *)

LogNow == Commits(Len(disk))
DurableNow == Cardinality(EndsIn(disk, synced))
HandlesNow == {p \in Proc : HasView(p)}
ViewOf(p) == IF HasView(p) THEN Commits(next_sequence[p]) ELSE <<>>
ViewsNow == [p \in Proc |-> ViewOf(p)]

LEMMA LogStutters ==
    ASSUME UNCHANGED <<LogNow, DurableNow, lease, HandlesNow, ViewsNow>>
    PROVE  UNCHANGED Log!vars
  BY DEF Log!vars, LogNow, DurableNow, HandlesNow, ViewsNow, ViewOf

LEMMA LogAcquires ==
    ASSUME NEW p \in Proc, lease = Nobody, lease' = p,
           UNCHANGED <<LogNow, DurableNow, HandlesNow, ViewsNow>>
    PROVE  Log!Acquire(p)
  BY DEF Log!Acquire, LogNow, DurableNow, HandlesNow, ViewsNow, ViewOf

LEMMA LogExtends ==
    ASSUME lease # Nobody, UNCHANGED <<lease, HandlesNow, DurableNow, ViewsNow>>,
           Len(LogNow') = Len(LogNow) + 1,
           LogNow = SubSeq(LogNow', 1, Len(LogNow))
    PROVE  Log!Extend
  BY DEF Log!Extend, LogNow, DurableNow, HandlesNow, ViewsNow, ViewOf, Log!IsPrefix, IsPrefix

LEMMA LogPersists ==
    ASSUME lease # Nobody, DurableNow' = Len(LogNow), UNCHANGED <<LogNow, lease>>,
           \/ UNCHANGED <<HandlesNow, ViewsNow>>
           \/ /\ HandlesNow' = HandlesNow \cup {lease}
              /\ ViewsNow' = [ViewsNow EXCEPT ![lease] = LogNow]
    PROVE  Log!Persist
  BY DEF Log!Persist, LogNow, DurableNow, HandlesNow, ViewsNow, ViewOf

LEMMA LogObserved ==
    ASSUME NEW p \in Proc, p = lease => p \notin HandlesNow, HandlesNow' = HandlesNow \cup {p},
           UNCHANGED <<lease, LogNow, DurableNow>>,
           NEW n \in Len(ViewsNow[p])..Len(LogNow),
           ViewsNow' = [ViewsNow EXCEPT ![p] = SubSeq(LogNow, 1, n)]
    PROVE  Log!Observe(p)
  BY DEF Log!Observe, LogNow, DurableNow, HandlesNow, ViewsNow, ViewOf

LEMMA LogCloses ==
    ASSUME NEW p \in Proc, HandlesNow' = HandlesNow \ {p},
           lease' = IF lease = p THEN Nobody ELSE lease,
           ViewsNow' = [ViewsNow EXCEPT ![p] = <<>>],
           UNCHANGED <<LogNow, DurableNow>>
    PROVE  Log!Close(p)
  BY DEF Log!Close, LogNow, DurableNow, HandlesNow, ViewsNow, ViewOf

LEMMA LogLoses ==
    ASSUME lease' = Nobody, HandlesNow' = {}, NEW n \in DurableNow..Len(LogNow),
           LogNow' = SubSeq(LogNow, 1, n), DurableNow' = n,
           ViewsNow' = [p \in Proc |-> <<>>]
    PROVE  Log!PowerLoss
  BY DEF Log!PowerLoss, LogNow, DurableNow, HandlesNow, ViewsNow, ViewOf

Keeps(q) ==
    /\ HasView(q)' <=> HasView(q)
    /\ HasView(q) => next_sequence'[q] = next_sequence[q]

LEMMA IdleKeeps ==
    ASSUME NEW q, Idle(q) \/ Same(q)
    PROVE  Keeps(q)
  BY DEF Keeps, Idle, Same, HasView

LEMMA KeptCommits ==
    ASSUME IsSeq(disk), IsSeq(disk'), Kept(disk, disk'), NEW n \in Nat, IsCommitted(n)
    PROVE  CommitsIn(disk', n) = CommitsIn(disk, n)
<1>1. CommittedIn(disk', n) /\ \A i \in 1..n : disk'[i] = disk[i]
  BY DEF Kept, IsCommitted
<1>2. n <= Len(disk) /\ n <= Len(disk') /\ \A i \in 1..n : disk[i] = disk'[i]
  BY <1>1 DEF IsCommitted, CommittedIn
<1> QED
  BY <1>2, CommitsAgree

LEMMA ViewKept ==
    ASSUME ContentInv, ViewsInv, IsSeq(disk'), Kept(disk, disk'), NEW q \in Proc, Keeps(q)
    PROVE  ViewOf(q)' = ViewOf(q)
<1>1. CASE HasView(q)
  <2>1. next_sequence[q] \in Nat /\ IsCommitted(next_sequence[q]) /\ IsSeq(disk)
    BY <1>1 DEF ContentInv, HandleInv, SoundLog, ViewsInv, KnownInv
  <2>2. CommitsIn(disk', next_sequence[q]) = CommitsIn(disk, next_sequence[q])
    BY <2>1, KeptCommits
  <2>3. HasView(q)' /\ next_sequence'[q] = next_sequence[q]
    BY <1>1 DEF Keeps
  <2> QED
    BY <1>1, <2>2, <2>3 DEF ViewOf, Commits
<1>2. CASE ~HasView(q)
  BY <1>2 DEF ViewOf, Keeps
<1> QED
  BY <1>1, <1>2

(* What others do is not seen in the views, nor in the set of handles.     *)
LEMMA ViewsKept ==
    ASSUME ContentInv, ViewsInv, IsSeq(disk'), Kept(disk, disk'), \A q \in Proc : Keeps(q)
    PROVE  UNCHANGED <<HandlesNow, ViewsNow>>
<1>1. HandlesNow' = HandlesNow
  BY DEF HandlesNow, Keeps
<1>2. \A q \in Proc : ViewOf(q)' = ViewOf(q)
  BY ViewKept
<1> QED
  BY <1>1, <1>2 DEF ViewsNow

LEMMA OneView ==
    ASSUME ContentInv, ViewsInv, IsSeq(disk'), Kept(disk, disk'), NEW p \in Proc,
           \A q \in Proc \ {p} : Keeps(q)
    PROVE  /\ ViewsNow' = [ViewsNow EXCEPT ![p] = ViewOf(p)']
           /\ HasView(p)' => HandlesNow' = HandlesNow \cup {p}
           /\ ~HasView(p)' => HandlesNow' = HandlesNow \ {p}
<1>1. \A q \in Proc \ {p} : ViewOf(q)' = ViewOf(q)
  BY ViewKept
<1>2. ViewsNow' = [q \in Proc |-> IF q = p THEN ViewOf(p)' ELSE ViewOf(q)]
  BY <1>1 DEF ViewsNow
<1>3. [ViewsNow EXCEPT ![p] = ViewOf(p)'] = [q \in Proc |-> IF q = p THEN ViewOf(p)' ELSE ViewOf(q)]
  BY DEF ViewsNow
<1>4. \A q \in Proc \ {p} : q \in HandlesNow' <=> q \in HandlesNow
  BY DEF HandlesNow, Keeps
<1>5. p \in HandlesNow' <=> HasView(p)'
  BY DEF HandlesNow
<1>6. HandlesNow \subseteq Proc /\ HandlesNow' \subseteq Proc
  BY DEF HandlesNow
<1> QED
  BY <1>2, <1>3, <1>4, <1>5, <1>6

(* The file as it was. *)
LEMMA LogAsItWas ==
    ASSUME ContentInv, disk' = disk
    PROVE  /\ LogNow' = LogNow /\ IsSeq(disk') /\ Kept(disk, disk')
           /\ synced' = synced => DurableNow' = DurableNow
  BY NothingKept DEF LogNow, DurableNow, Commits, ContentInv, SoundLog

(* All of the log is durable. *)
LEMMA AllDurable ==
    ASSUME ContentInv, disk' = disk, synced' = Len(disk)
    PROVE  DurableNow' = Len(LogNow)
<1>1. Len(disk) \in Nat
  BY DEF ContentInv, SoundLog, IsSeq
<1> QED
  BY <1>1, CommitsSeq DEF DurableNow, LogNow, Commits

(* A cut behind all that is committed takes nothing from the log. *)
LEMMA LogCut ==
    ASSUME ContentInv, NEW m \in Nat, m <= Len(disk), IsSeq(disk'), Len(disk') = m,
           \A i \in 1..m : disk'[i] = disk[i], \A n \in Nat : IsCommitted(n) => n <= m,
           synced' = m
    PROVE  LogNow' = LogNow /\ DurableNow' = Len(LogNow)
<1>1. IsSeq(disk) /\ Len(disk) \in Nat
  BY DEF ContentInv, SoundLog, IsSeq
<1>2. CommitsIn(disk, m) = CommitsIn(disk', m)
  BY <1>1, CommitsAgree
<1>3. m \in 0..Len(disk) /\ \A i \in (m + 1)..Len(disk) : ~CommittedIn(disk, i)
  BY <1>1 DEF IsCommitted
<1>4. CommitsIn(disk, Len(disk)) = CommitsIn(disk, m)
  BY <1>1, <1>3, CommitsEnd
<1>5. LogNow' = LogNow
  BY <1>2, <1>4 DEF LogNow, Commits
<1>6. DurableNow' = Len(LogNow')
  BY CommitsSeq DEF DurableNow, LogNow, Commits
<1> QED
  BY <1>5, <1>6

-----------------------------------------------------------------------------
(* The steps. *)

LEMMA ReleaseSteps ==
    ASSUME HandlesInv, ContentInv, ViewsInv, NEW p \in Proc, NEW value, Release({p}, value),
           UNCHANGED <<disk, synced>>
    PROVE  Log!Close(p)
<1>1. LogNow' = LogNow /\ DurableNow' = DurableNow /\ IsSeq(disk') /\ Kept(disk, disk')
  BY LogAsItWas
<1>2. \A q \in Proc \ {p} : Keeps(q)
  BY DEF Release, Reset, Keeps, HasView
<1>3. ~HasView(p)'
  BY DEF Release, Reset, HasView
<1>4. ViewOf(p)' = <<>>
  BY <1>3 DEF ViewOf
<1>5. lease' = IF lease = p THEN Nobody ELSE lease
  BY DEF Release, Unlocked
<1>6. HandlesNow' = HandlesNow \ {p} /\ ViewsNow' = [ViewsNow EXCEPT ![p] = <<>>]
  BY <1>1, <1>2, <1>3, <1>4, OneView
<1> QED
  BY <1>1, <1>5, <1>6, LogCloses

(* A step that changes no view. *)
LEMMA QuietSteps ==
    ASSUME ContentInv, ViewsInv, UNCHANGED <<disk, synced>>, \A q \in Proc : Keeps(q)
    PROVE  UNCHANGED <<LogNow, DurableNow, HandlesNow, ViewsNow>>
  BY LogAsItWas, ViewsKept

LEMMA FailSteps ==
    ASSUME HandlesInv, ContentInv, ViewsInv, NEW p \in Proc, NEW value, Fail(p, value),
           pc[p] = "scan", UNCHANGED <<disk, synced>>
    PROVE  Log!Next \/ UNCHANGED Log!vars
<1>1. CASE ~cursor[p].refresh
  BY <1>1, ReleaseSteps DEF Fail, Log!Next
<1>2. CASE cursor[p].refresh
  <2>1. \A q \in Proc : Keeps(q)
    BY <1>2 DEF Fail, HandlesInv, Keeps, HasView
  <2>2. lease' = lease
    BY <1>2 DEF Fail
  <2> QED
    BY <2>1, <2>2, QuietSteps, LogStutters
<1> QED
  BY <1>1, <1>2

LEMMA CallSteps ==
    ASSUME HandlesInv, ContentInv, ViewsInv, NEW p \in Proc, Call(p)
    PROVE  Log!Next \/ UNCHANGED Log!vars
<1>0. DOMAIN pc = Proc /\ DOMAIN cursor = Proc
  BY DEF HandlesInv
<1>1. CASE UNCHANGED vars
  <2>1. \A q \in Proc : Keeps(q)
    BY <1>1 DEF vars, handles, Keeps, HasView
  <2> QED
    BY <1>1, <2>1, QuietSteps, LogStutters DEF vars, file
<1>2. CASE OpenWriter(p)
  <2>1. \A q \in Proc : Keeps(q)
    BY <1>0, <1>2 DEF OpenWriter, StartScan, Keeps, HasView, NoScan
  <2> QED
    BY <1>2, <2>1, QuietSteps, LogAcquires DEF OpenWriter, Log!Next
<1>3. CASE CreateStore(p)
  <2>1. \A q \in Proc : Keeps(q)
    BY <1>0, <1>3 DEF CreateStore, Keeps, HasView
  <2> QED
    BY <1>3, <2>1, QuietSteps, LogAcquires DEF CreateStore, Log!Next
<1>4. CASE CreateStoreFault(p)
  <2>1. \A q \in Proc : Keeps(q)
    BY <1>4 DEF CreateStoreFault, Keeps, HasView
  <2> QED
    BY <1>4, <2>1, QuietSteps, LogStutters DEF CreateStoreFault
<1>5. CASE OpenReadOnly(p)
  <2>1. \A q \in Proc : Keeps(q)
    BY <1>0, <1>5 DEF OpenReadOnly, StartScan, Keeps, HasView, NoScan
  <2> QED
    BY <1>5, <2>1, QuietSteps, LogStutters DEF OpenReadOnly, file
<1>6. CASE Refresh(p)
  <2>1. \A q \in Proc : Keeps(q)
    BY <1>0, <1>6 DEF Refresh, StartScan, Keeps, HasView, NoScan
  <2> QED
    BY <1>6, <2>1, QuietSteps, LogStutters DEF Refresh, file
<1>7. CASE Flush(p)
  <2>1. \A q \in Proc : Keeps(q)
    BY <1>7 DEF Flush, Keeps, HasView
  <2>2. lease = p /\ lease # Nobody /\ lease' = lease /\ disk' = disk /\ synced' = Len(disk)
    BY <1>7, OneWriter, ProcAssumption DEF Flush, SyncData, ReadyWriter
  <2>3. UNCHANGED <<LogNow, HandlesNow, ViewsNow>> /\ DurableNow' = Len(LogNow)
    BY <2>1, <2>2, LogAsItWas, ViewsKept, AllDurable
  <2> QED
    BY <2>2, <2>3, LogPersists DEF Log!Next
<1>8. CASE Close(p)
  BY <1>8, ReleaseSteps DEF Close, Log!Next
<1>9. ASSUME NEW frames, ReadyWriter(p), StartWrite(p, frames)
      PROVE  Log!Next \/ UNCHANGED Log!vars
  <2>1. \A q \in Proc : Keeps(q)
    BY <1>0, <1>9 DEF StartWrite, ReadyWriter, Keeps, HasView
  <2> QED
    BY <1>9, <2>1, QuietSteps, LogStutters DEF StartWrite, file
<1> QED
  BY <1>1, <1>2, <1>3, <1>4, <1>5, <1>6, <1>7, <1>8, <1>9
     DEF Call, OpenBusy, OpenRejected, Refuse, PutAtom, PutBond, CommitCell

(* A view that a scan completes is a prefix of the log, and grows.         *)
LEMMA FinishSteps ==
    ASSUME HandlesInv, ContentInv, ViewsInv, NEW p \in Proc, ScanClean(p) \/ ScanProvisional(p)
    PROVE  Log!Observe(p)
<1> DEFINE v == Valid(cursor[p])
           n == next_sequence[p]
<1>1. /\ pc[p] = "scan" /\ pc'[p] = "ready" /\ next_sequence'[p] = v
      /\ v \in Nat /\ IsCommitted(v)
      /\ UNCHANGED <<file, mode, job, acked>>
      /\ \A q \in Proc \ {p} : Same(q)
      /\ HasView(p) => n <= v
  BY FinishGrows
<1>2. n \in Nat /\ Len(disk) \in Nat
  BY DEF ContentInv, HandleInv, SoundLog, IsSeq
<1>3. disk' = disk /\ synced' = synced /\ lease' = lease
  BY <1>1 DEF file
<1>4. UNCHANGED <<LogNow, DurableNow>> /\ IsSeq(disk') /\ Kept(disk, disk')
  BY <1>3, LogAsItWas
<1>5. HasView(p)' /\ \A q \in Proc \ {p} : Keeps(q)
  BY <1>1, IdleKeeps DEF HasView
<1>6. HandlesNow' = HandlesNow \cup {p} /\ ViewsNow' = [ViewsNow EXCEPT ![p] = ViewOf(p)']
  BY <1>4, <1>5, OneView
<1>7. ViewOf(p)' = CommitsIn(disk, v)
  BY <1>1, <1>3, <1>5 DEF ViewOf, Commits
<1>8. p = lease => p \notin HandlesNow
  BY <1>1 DEF HandlesInv, HandlesNow, HasView
<1> DEFINE k == Len(CommitsIn(disk, v))
<1>9. v \in 0..Len(disk)
  BY <1>1, <1>2 DEF IsCommitted, CommittedIn
<1>10. k \in 0..Len(LogNow) /\ CommitsIn(disk, v) = SubSeq(LogNow, 1, k)
  BY <1>2, <1>9, CommitsPrefix DEF LogNow, Commits
<1>11. Len(ViewOf(p)) \in 0..k
  <2>1. CASE HasView(p)
    <3>1. n \in 0..v
      BY <1>1, <1>2, <2>1
    <3>2. ViewOf(p) = CommitsIn(disk, n)
      BY <2>1 DEF ViewOf, Commits
    <3> QED
      BY <1>1, <3>1, <3>2, CommitsPrefix
  <2>2. CASE ~HasView(p)
    <3>1. ViewOf(p) = <<>>
      BY <2>2 DEF ViewOf
    <3>2. Len(ViewOf(p)) = 0
      BY <3>1
    <3>3. k \in Nat
      BY <1>1, CommitsSeq DEF IsSeq
    <3> HIDE DEF k
    <3> QED
      BY <3>2, <3>3
  <2> QED
    BY <2>1, <2>2
<1> HIDE DEF k, v, n
<1>12. k \in Len(ViewsNow[p])..Len(LogNow)
  <2>1. ViewsNow[p] = ViewOf(p)
    BY DEF ViewsNow
  <2>2. Len(LogNow) \in Nat
    BY <1>2, CommitsSeq DEF LogNow, Commits, IsSeq
  <2> QED
    BY <1>10, <1>11, <2>1, <2>2
<1> QED
  BY <1>3, <1>4, <1>6, <1>7, <1>8, <1>10, <1>12, LogObserved

LEMMA RepairSteps ==
    ASSUME HandlesInv, StoreInv, ContentInv, ViewsInv, NEW p \in Proc, Repair(p)
    PROVE  Log!Persist
<1> DEFINE v == Valid(cursor[p])
<1>1. /\ lease = p /\ v \in Nat /\ v <= Len(disk)
      /\ \A n \in Nat : IsCommitted(n) => n <= v
      /\ Kept(disk, disk') /\ IsSeq(disk') /\ Len(disk') = v /\ synced' = v
      /\ \A i \in 1..v : disk'[i] = disk[i]
  BY RepairCuts
<1>2. /\ pc'[p] = "ready" /\ next_sequence'[p] = v /\ lease' = lease
      /\ \A q \in Proc \ {p} : /\ pc'[q] = pc[q] /\ next_sequence'[q] = next_sequence[q]
                               /\ cursor'[q] = CutUnder(v)[q]
  BY CutUnderKeeps DEF Repair, HandlesInv
<1> HIDE DEF v
<1>3. LogNow' = LogNow /\ DurableNow' = Len(LogNow)
  BY <1>1, LogCut
<1>4. HasView(p)' /\ \A q \in Proc \ {p} : Keeps(q)
  BY <1>1, <1>2, CutUnderIdle, IdleKeeps DEF HasView
<1>5. HandlesNow' = HandlesNow \cup {p} /\ ViewsNow' = [ViewsNow EXCEPT ![p] = ViewOf(p)']
  BY <1>1, <1>4, OneView
<1>6. ViewOf(p)' = LogNow
  BY <1>1, <1>2, <1>3, <1>4 DEF ViewOf, LogNow, Commits
<1>7. lease # Nobody
  BY <1>1, ProcAssumption
<1> QED
  BY <1>1, <1>2, <1>3, <1>5, <1>6, <1>7, LogPersists

LEMMA RollbackSteps ==
    ASSUME HandlesInv, StoreInv, ContentInv, ViewsInv, NEW p \in Proc, Rollback(p)
    PROVE  Log!Persist
<1> DEFINE m == job[p].start
<1>1. /\ lease = p /\ m \in Nat /\ m <= Len(disk)
      /\ \A n \in Nat : IsCommitted(n) => n <= m
      /\ Kept(disk, disk') /\ IsSeq(disk') /\ Len(disk') = m /\ synced' = m
      /\ \A i \in 1..m : disk'[i] = disk[i]
  BY RollbackCuts
<1>2. /\ pc[p] = "rollback" /\ pc'[p] = "ready" /\ next_sequence' = next_sequence /\ lease' = lease
      /\ \A q \in Proc \ {p} : pc'[q] = pc[q]
      /\ \A q \in Proc : cursor'[q] = CutUnder(m)[q]
  BY DEF Rollback, HandlesInv
<1> HIDE DEF m
<1>3. LogNow' = LogNow /\ DurableNow' = Len(LogNow)
  BY <1>1, LogCut
<1>4. \A q \in Proc \ {p} : Keeps(q)
  BY <1>1, <1>2, CutUnderIdle, IdleKeeps
<1>5. Keeps(p)
  BY <1>2 DEF Keeps, HasView
<1>6. UNCHANGED <<HandlesNow, ViewsNow>>
  BY <1>1, <1>4, <1>5, ViewsKept
<1>7. lease # Nobody
  BY <1>1, ProcAssumption
<1> QED
  BY <1>2, <1>3, <1>6, <1>7, LogPersists

LEMMA HeaderSteps ==
    ASSUME HandlesInv, StoreInv, ContentInv, ViewsInv, NEW p \in Proc, WriteHeader(p)
    PROVE  UNCHANGED Log!vars
<1> DEFINE n == Len(disk)
<1>1. /\ lease = p /\ n \in Nat /\ Len(disk') = n + 1 /\ IsSeq(disk')
      /\ \A i \in 1..n : disk'[i] = disk[i]
      /\ ~disk'[Len(disk')].whole
      /\ Kept(disk, disk')
  BY HeaderAppends
<1>2. /\ lease' = lease /\ synced' = synced
      /\ \A q \in Proc : Keeps(q)
  BY DEF WriteHeader, Keeps, HasView, HandlesInv
<1>3. UNCHANGED <<HandlesNow, ViewsNow>>
  BY <1>1, <1>2, ViewsKept
<1>4. IsSeq(disk) /\ synced \in 0..n
  BY DEF ContentInv, SoundLog
<1> HIDE DEF n
<1>5. ~CommittedIn(disk', n + 1)
  <2>1. n + 1 \in 1..(n + 1)
    BY <1>1
  <2> QED
    BY <1>1, <2>1 DEF CommittedIn
<1>6. CommitsIn(disk', n + 1) = CommitsIn(disk', n)
  BY <1>1, <1>5, CommitsStep
<1>7. CommitsIn(disk', n) = CommitsIn(disk, n)
  <2>1. n <= Len(disk') /\ n <= Len(disk) /\ \A i \in 1..n : disk[i] = disk'[i]
    BY <1>1 DEF n
  <2> QED
    BY <1>1, <1>4, <2>1, CommitsAgree
<1>8. LogNow' = LogNow
  BY <1>1, <1>6, <1>7 DEF LogNow, Commits, n
<1>9. EndsIn(disk', synced) = EndsIn(disk, synced)
  <2>1. synced \in Nat /\ synced <= Len(disk') /\ synced <= Len(disk)
        /\ \A i \in 1..synced : disk[i] = disk'[i]
    BY <1>1, <1>4 DEF n
  <2> QED
    BY <1>1, <1>4, <2>1, CommitsAgree
<1>10. DurableNow' = DurableNow
  BY <1>2, <1>9 DEF DurableNow
<1> QED
  BY <1>2, <1>3, <1>8, <1>10, LogStutters

(* The last chunk of a write commits, the others do not. *)
LEMMA PayloadSteps ==
    ASSUME HandlesInv, StoreInv, ContentInv, ViewsInv, NEW p \in Proc, WritePayload(p)
    PROVE  Log!Extend \/ UNCHANGED Log!vars
<1> DEFINE n == Len(disk)
           m == n - 1
<1>1. /\ lease = p /\ n \in Nat /\ n > 0
      /\ IsSeq(disk) /\ IsSeq(disk') /\ Len(disk') = n
      /\ \A i \in 1..m : disk'[i] = disk[i]
      /\ ~IsCommitted(n) /\ synced < n
      /\ Kept(disk, disk')
  BY PayloadCompletes
<1>2. /\ lease' = lease /\ synced' = synced
      /\ \A q \in Proc : Keeps(q)
  BY DEF WritePayload, Keeps, HasView, HandlesInv
<1>3. UNCHANGED <<HandlesNow, ViewsNow>>
  BY <1>1, <1>2, ViewsKept
<1>4. synced \in Nat
  BY DEF ContentInv
<1>5. m \in Nat /\ m + 1 = n /\ synced <= m
  BY <1>1, <1>4
<1>6. LogNow' = CommitsIn(disk', m + 1) /\ LogNow = CommitsIn(disk, m + 1)
  BY <1>1, <1>5 DEF LogNow, Commits
<1>7. ~CommittedIn(disk, m + 1)
  BY <1>1, <1>5 DEF IsCommitted
<1> HIDE DEF n, m
<1>8. /\ m <= Len(disk) /\ m <= Len(disk') /\ \A i \in 1..m : disk[i] = disk'[i]
  BY <1>1, <1>5 DEF n
<1>9. CommitsIn(disk, m) = CommitsIn(disk', m)
  BY <1>1, <1>5, <1>8, CommitsAgree
<1>10. LogNow = CommitsIn(disk', m)
  BY <1>5, <1>6, <1>7, <1>9, CommitsStep
<1>11. EndsIn(disk', synced) = EndsIn(disk, synced)
  <2>1. synced <= Len(disk') /\ synced <= Len(disk) /\ \A i \in 1..synced : disk[i] = disk'[i]
    BY <1>1, <1>4, <1>5, <1>8 DEF n
  <2> QED
    BY <1>1, <1>4, <2>1, CommitsAgree
<1>12. DurableNow' = DurableNow
  BY <1>2, <1>11 DEF DurableNow
<1>13. CASE CommittedIn(disk', m + 1)
  <2>1. Len(LogNow') = Len(LogNow) + 1
    BY <1>5, <1>6, <1>10, <1>13, CommitsStep
  <2>2. m + 1 \in Nat /\ m \in 0..(m + 1)
    BY <1>5
  <2>3. LogNow = SubSeq(LogNow', 1, Len(LogNow))
    BY <1>6, <1>10, <2>2, CommitsPrefix
  <2>4. lease # Nobody
    BY <1>1, ProcAssumption
  <2> QED
    BY <1>2, <1>3, <1>12, <2>1, <2>3, <2>4, LogExtends
<1>14. CASE ~CommittedIn(disk', m + 1)
  <2>1. LogNow' = LogNow
    BY <1>5, <1>6, <1>10, <1>14, CommitsStep
  <2> QED
    BY <1>2, <1>3, <1>12, <2>1, LogStutters
<1> QED
  BY <1>13, <1>14

LEMMA SyncSteps ==
    ASSUME HandlesInv, StoreInv, StoreInv', ContentInv, ViewsInv, NEW p \in Proc, Sync(p)
    PROVE  Log!Persist
<1>1. lease = p /\ pc[p] = "sync" /\ lease # Nobody
  BY Writing, ProcAssumption DEF Sync
<1>2. /\ pc'[p] = "ready" /\ lease' = p /\ disk' = disk /\ synced' = Len(disk)
      /\ \A q \in Proc \ {p} : Same(q)
  BY <1>1 DEF Sync, SyncData, HandlesInv, Same
<1>3. next_sequence'[p] = Len(disk')
  BY <1>2 DEF StoreInv, WriterInv, WriterAt
<1>4. LogNow' = LogNow /\ IsSeq(disk') /\ Kept(disk, disk') /\ DurableNow' = Len(LogNow)
  BY <1>2, LogAsItWas, AllDurable
<1>5. HasView(p)' /\ \A q \in Proc \ {p} : Keeps(q)
  BY <1>2, IdleKeeps DEF HasView
<1>6. HandlesNow' = HandlesNow \cup {p} /\ ViewsNow' = [ViewsNow EXCEPT ![p] = ViewOf(p)']
  BY <1>4, <1>5, OneView
<1>7. ViewOf(p)' = LogNow
  BY <1>2, <1>3, <1>4, <1>5 DEF ViewOf, LogNow, Commits
<1> QED
  BY <1>1, <1>2, <1>4, <1>6, <1>7, LogPersists

LEMMA PowerLossSteps ==
    ASSUME HandlesInv, StoreInv, ContentInv, ViewsInv, PowerLoss
    PROVE  Log!PowerLoss
<1>1. /\ \A q \in Proc : pc'[q] = "closed"
      /\ lease' = Nobody
  BY DEF PowerLoss, Release, Reset, Unlocked, HandlesInv
<1>2. HandlesNow' = {} /\ ViewsNow' = [p \in Proc |-> <<>>]
  BY <1>1 DEF HandlesNow, ViewsNow, ViewOf, HasView
<1>3. /\ LogInv(disk) /\ IsSeq(disk) /\ Len(disk) \in Nat /\ synced \in Nat /\ synced <= Len(disk)
  BY DEF StoreInv, DiskInv, LogInv, AckedInv, IsSeq
(* A prefix of the chunks is left, with no commit beyond it. *)
<1>4. ASSUME NEW k \in synced..Len(disk), IsSeq(disk'), k <= Len(disk'),
             \A i \in 1..k : disk[i] = disk'[i],
             \A i \in (k + 1)..Len(disk') : ~CommittedIn(disk', i),
             synced' = Len(disk')
      PROVE  Log!PowerLoss
  <2>1. k \in Nat /\ Len(disk') \in Nat /\ k \in 0..Len(disk') /\ k <= Len(disk)
        /\ k \in 0..Len(disk) /\ synced \in 0..k
    BY <1>3, <1>4 DEF IsSeq
  <2>2. CommitsIn(disk, k) = CommitsIn(disk', k)
    BY <1>3, <1>4, <2>1, CommitsAgree
  <2>3. CommitsIn(disk', Len(disk')) = CommitsIn(disk', k)
    BY <1>4, <2>1, CommitsEnd
  <2>4. LogNow' = CommitsIn(disk, k)
    BY <2>2, <2>3 DEF LogNow, Commits
  <2> DEFINE l == Len(CommitsIn(disk, k))
  <2>5. l \in 0..Len(LogNow) /\ LogNow' = SubSeq(LogNow, 1, l)
    BY <1>3, <2>1, <2>4, CommitsPrefix DEF LogNow, Commits
  <2>6. DurableNow' = l
    <3>1. Len(CommitsIn(disk', Len(disk'))) = Cardinality(EndsIn(disk', Len(disk')))
      BY <2>1, CommitsSeq
    <3> QED
      BY <1>4, <2>2, <2>3, <3>1 DEF DurableNow
  <2>7. DurableNow <= l /\ DurableNow \in Nat
    <3>1. l = Cardinality(EndsIn(disk, k))
      BY <2>1, CommitsSeq
    <3> QED
      BY <1>3, <2>1, <3>1, EndAtSame, EndsFinite DEF DurableNow
  <2>8. Len(LogNow) \in Nat
    BY <1>3, CommitsSeq DEF LogNow, Commits, IsSeq
  <2> HIDE DEF l
  <2>9. l \in DurableNow..Len(LogNow)
    BY <2>5, <2>7, <2>8
  <2> QED
    BY <1>1, <1>2, <2>5, <2>6, <2>9, LogLoses
<1>5. CASE magic = "cached" /\ disk' = <<>> /\ synced' = 0
  <2>1. synced = 0
    BY <1>5 DEF ViewsInv, MagicInv
  <2>2. 0 \in synced..Len(disk) /\ Len(disk') = 0 /\ IsSeq(disk')
    BY <1>3, <1>5, <2>1 DEF IsSeq
  <2>3. synced' = Len(disk')
    BY <1>5, <2>2
  <2>4. /\ 0 <= Len(disk') /\ \A i \in 1..0 : disk[i] = disk'[i]
        /\ \A i \in (0 + 1)..Len(disk') : ~CommittedIn(disk', i)
    BY <2>2
  <2> QED
    BY <1>4, <2>2, <2>3, <2>4
<1>6. ASSUME NEW k \in synced..Len(disk), disk' = SubSeq(disk, 1, k), synced' = k
      PROVE  Log!PowerLoss
  <2>1. k \in 0..Len(disk)
    BY <1>3, <1>6
  <2>2. IsSeq(disk') /\ Len(disk') = k /\ \A i \in 1..k : disk'[i] = disk[i]
    BY <1>3, <1>6, <2>1, PrefixSeq
  <2>3. \A i \in (k + 1)..Len(disk') : ~CommittedIn(disk', i)
    BY <2>1, <2>2
  <2>4. k <= Len(disk') /\ synced' = Len(disk')
    BY <1>3, <1>6, <2>1, <2>2
  <2>5. \A i \in 1..k : disk[i] = disk'[i]
    BY <2>2
  <2> QED
    BY <1>4, <2>2, <2>3, <2>4, <2>5
<1>7. ASSUME NEW k \in synced..Len(disk), k < Len(disk), synced' = k + 1,
             disk' = Append(SubSeq(disk, 1, k), Chunk(disk[k + 1].frame, FALSE, 1))
      PROVE  Log!PowerLoss
  <2> DEFINE d == SubSeq(disk, 1, k)
             x == Chunk(disk[k + 1].frame, FALSE, 1)
  <2>1. k \in 0..Len(disk) /\ k \in Nat
    BY <1>3, <1>7
  <2>2. IsSeq(d) /\ Len(d) = k /\ \A i \in 1..k : d[i] = disk[i]
    BY <1>3, <2>1, PrefixSeq
  <2>3. ~x.whole
    BY DEF Chunk
  <2>4. disk' = Append(d, x)
    BY <1>7
  <2> HIDE DEF d, x
  <2>5. IsSeq(disk') /\ Len(disk') = k + 1 /\ disk'[k + 1] = x /\ \A i \in 1..k : disk'[i] = d[i]
    BY <2>2, <2>4, AppendSeq
  <2>6. \A i \in (k + 1)..Len(disk') : ~CommittedIn(disk', i)
    <3>1. \A i \in (k + 1)..(k + 1) : i = k + 1
      BY <2>1
    <3>2. k + 1 \in 1..(k + 1)
      BY <2>1
    <3>3. ~CommittedIn(disk', k + 1)
      BY <2>3, <2>5, <3>2 DEF CommittedIn
    <3> QED
      BY <2>5, <3>1, <3>3
  <2>7. k <= Len(disk') /\ synced' = Len(disk')
    BY <1>7, <2>1, <2>5
  <2>8. \A i \in 1..k : disk[i] = disk'[i]
    BY <2>2, <2>5
  <2> QED
    BY <1>4, <2>5, <2>6, <2>7, <2>8
<1> QED
  BY <1>5, <1>6, <1>7 DEF PowerLoss

LEMMA LogStarts == Init => Log!Init
<1> SUFFICES ASSUME Init PROVE Log!Init
  OBVIOUS
<1>1. disk = <<>> /\ synced = 0 /\ lease = Nobody /\ Len(disk) = 0
  BY DEF Init
<1>2. EndsIn(disk, 0) = {}
  BY DEF EndsIn
<1>3. Cardinality(EndsIn(disk, synced)) = 0
  BY <1>1, <1>2, FS_EmptySet
<1>4. IsSeq(CommitsIn(disk, 0)) /\ Len(CommitsIn(disk, 0)) = 0
  BY <1>1, <1>3, CommitsSeq
<1>5. Commits(Len(disk)) = <<>>
  <2>1. CommitsIn(disk, 0) = <<>>
    BY <1>4 DEF IsSeq
  <2> QED
    BY <1>1, <2>1 DEF Commits
<1>6. \A p \in Proc : ~HasView(p)
  BY DEF Init, HasView
<1> QED
  BY <1>1, <1>3, <1>5, <1>6 DEF Log!Init

(* Every step of the store is one of the log, or shows nothing.            *)
LEMMA StepOfLog ==
    ASSUME "rollback" \notin Failures, "sync" \notin Failures,
           FileInv, FileInv', ContentInv, ViewsInv, [Next]_vars
    PROVE  [Log!Next]_(Log!vars)
<1>0. HandlesInv /\ StoreInv /\ HandlesInv' /\ StoreInv'
  BY DEF FileInv
<1>1. CASE UNCHANGED vars
  <2>1. \A q \in Proc : Keeps(q)
    BY <1>1 DEF vars, handles, Keeps, HasView
  <2> QED
    BY <1>1, <2>1, QuietSteps, LogStutters DEF vars, file
<1>2. ASSUME NEW p \in Proc, Call(p) PROVE [Log!Next]_(Log!vars)
  BY <1>0, <1>2, CallSteps
<1>3. ASSUME NEW p \in Proc, Scan(p) PROVE [Log!Next]_(Log!vars)
  <2>1. CASE ScanFrame(p)
    <3>1. \A q \in Proc : Keeps(q)
      <4>1. \A q \in Proc : cursor'[q].refresh = cursor[q].refresh
        <5>1. DOMAIN cursor = Proc /\ DOMAIN cursor[p] = DOMAIN NoScan
          BY <1>0 DEF HandlesInv
        <5>2. cursor'[p].refresh = cursor[p].refresh
          BY <2>1, <5>1, Zenon DEF ScanFrame, NoScan
        <5>3. \A q \in Proc \ {p} : cursor'[q] = cursor[q]
          BY <2>1, <5>1, Zenon DEF ScanFrame
        <5> QED
          BY <5>2, <5>3
      <4>2. pc' = pc /\ next_sequence' = next_sequence
        BY <2>1 DEF ScanFrame
      <4> QED
        BY <4>1, <4>2 DEF Keeps, HasView
    <3>2. UNCHANGED <<disk, synced, lease>>
      BY <2>1 DEF ScanFrame, file
    <3> QED
      BY <3>1, <3>2, QuietSteps, LogStutters
  <2>2. CASE ScanCorrupt(p) \/ ScanEof(p)
    BY <1>0, <2>2, FailSteps DEF ScanCorrupt, ScanEof
  <2>3. CASE ScanClean(p) \/ ScanProvisional(p)
    BY <1>0, <2>3, FinishSteps DEF Log!Next
  <2>4. CASE Repair(p)
    BY <1>0, <2>4, RepairSteps DEF Log!Next
  <2>5. CASE RepairFault(p)
    BY <1>0, <2>5, ReleaseSteps DEF RepairFault, Log!Next
  <2> QED
    BY <1>3, <2>1, <2>2, <2>3, <2>4, <2>5 DEF Scan
<1>4. ASSUME NEW p \in Proc, Write(p) PROVE [Log!Next]_(Log!vars)
  <2>1. CASE WriteHeader(p)
    BY <1>0, <2>1, HeaderSteps
  <2>2. CASE WritePayload(p)
    BY <1>0, <2>2, PayloadSteps DEF Log!Next
  <2>3. CASE WriteFault(p)
    <3>1. \A q \in Proc : Keeps(q)
      BY <1>0, <2>3 DEF WriteFault, HandlesInv, Keeps, HasView
    <3> QED
      BY <2>3, <3>1, QuietSteps, LogStutters DEF WriteFault, file
  <2>4. CASE Sync(p)
    BY <1>0, <2>4, SyncSteps DEF Log!Next
  <2>5. CASE Rollback(p)
    BY <1>0, <2>5, RollbackSteps DEF Log!Next
  <2> QED
    BY <1>4, <2>1, <2>2, <2>3, <2>4, <2>5 DEF Write, SyncFault, RollbackFault
<1>5. ASSUME NEW p \in Proc, SyncMagic(p) PROVE [Log!Next]_(Log!vars)
  <2>1. \A q \in Proc : Keeps(q)
    BY <1>0, <1>5 DEF SyncMagic, StartScan, HandlesInv, Keeps, HasView, NoScan
  <2> QED
    BY <1>5, <2>1, QuietSteps, LogStutters DEF SyncMagic
<1>6. ASSUME NEW p \in Proc, Crash(p) \/ SyncMagicFault(p) PROVE [Log!Next]_(Log!vars)
  BY <1>0, <1>6, ReleaseSteps DEF Crash, SyncMagicFault, Log!Next
<1>7. CASE PowerLoss
  BY <1>0, <1>7, PowerLossSteps DEF Log!Next
<1> QED
  BY <1>1, <1>2, <1>3, <1>4, <1>5, <1>6, <1>7 DEF Next

(* The store implements the append-only log of commits: whatever is opened *)
(* and written, crashes, tears or loses power, each step of the code is    *)
(* one of CausalLog or shows nothing to its users (README, conservation    *)
(* laws; ATOMIC-CELLS, local laws 1 to 3 and 9).                           *)
THEOREM SpecImplementsLog ==
    ASSUME "rollback" \notin Failures, "sync" \notin Failures
    PROVE  Spec => ImplementsLog
<1>1. Init => Log!Init
  BY LogStarts
<1>2. FileInv /\ FileInv' /\ ContentInv /\ ViewsInv /\ [Next]_vars => [Log!Next]_(Log!vars)
  BY StepOfLog
<1>3. Spec => []FileInv
  BY SpecFile
<1>4. Spec => []ViewsInv
  BY SpecViews
<1> QED
  BY <1>1, <1>2, <1>3, <1>4, SpecContent, PTL DEF Spec, ImplementsLog, Log!Spec
=============================================================================
