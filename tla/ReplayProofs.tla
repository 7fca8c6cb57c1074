---------------------------- MODULE ReplayProofs ----------------------------
(***************************************************************************)
(* Proofs about the replay of AtomDbInvariant: that recovery takes every   *)
(* log which the program wrote, and ends with the index of the writer; and *)
(* that every index is what the replay has at its place, which is what the *)
(* frames before it say.                                                   *)
(***************************************************************************)
EXTENDS AtomDbProofs

-----------------------------------------------------------------------------
(* The replay: what recovery has after each chunk of the log. *)

LEMMA BegunAgrees ==
    ASSUME NEW h, NEW e, NEW i \in Nat, Begun(h, i), i > 0, \A l \in 1..i : e[l] = h[l]
    PROVE  Begun(e, i)
<1> DEFINE cell == h[i].cell
<1>1. e[i] = h[i]
  OBVIOUS
<1>2. ASSUME cell.open PROVE e[cell.start + 1] = h[cell.start + 1]
  <2>1. cell.start \in Nat /\ cell.start < i - 1
    BY <1>2 DEF Begun, IsCell
  <2> HIDE DEF cell
  <2>2. cell.start + 1 \in 1..i
    BY <2>1
  <2> QED
    BY <2>2
<1> QED
  BY <1>1, <1>2 DEF Begun

(* A truncation takes recovery back to what it had there. *)
LEMMA ToldCut ==
    ASSUME NEW d, NEW h, Told(h, d), NEW n \in Nat, n <= Len(d), Len(d) \in Nat,
           NEW e, Len(e) = n, \A i \in 1..n : e[i].frame = d[i].frame
    PROVE  /\ Told(SubSeq(h, 1, n + 1), e)
           /\ Len(SubSeq(h, 1, n + 1)) = n + 1
           /\ \A i \in 1..(n + 1) : SubSeq(h, 1, n + 1)[i] = h[i]
<1> DEFINE g == SubSeq(h, 1, n + 1)
<1>1. IsSeq(h) /\ n + 1 \in 0..Len(h)
  BY DEF Told
<1>2. IsSeq(g) /\ Len(g) = n + 1 /\ \A i \in 1..(n + 1) : g[i] = h[i]
  BY <1>1, PrefixSeq
<1> HIDE DEF g
<1>3. ASSUME NEW i \in 1..n PROVE FrameSteps(g[i], e[i].frame, i, g[i + 1])
  <2>1. i \in 1..Len(d) /\ i \in 1..(n + 1) /\ i + 1 \in 1..(n + 1)
    OBVIOUS
  <2> QED
    BY <1>2, <2>1 DEF Told
<1>4. ASSUME NEW i \in 1..Len(g) PROVE Begun(g, i)
  <2>1. i \in Nat /\ i > 0 /\ i \in 1..Len(h) /\ \A l \in 1..i : l \in 1..(n + 1)
    BY <1>1, <1>2
  <2>2. Begun(h, i)
    BY <2>1 DEF Told
  <2> QED
    BY <1>2, <2>1, <2>2, BegunAgrees
<1>5. g[1] = State(EmptyIndex, NoCell)
  <2>1. 1 \in 1..(n + 1)
    OBVIOUS
  <2> QED
    BY <1>2, <2>1 DEF Told
<1>6. Told(g, e)
  BY <1>2, <1>3, <1>4, <1>5 DEF Told
<1> QED
  BY <1>2, <1>6 DEF g

(* Effects on an index in its shape. *)
LEMMA EffectKeepsMap ==
    ASSUME NEW view, IsIndex(view), NEW e
    PROVE  IsIndex(Effect(view, e))
<1>0. DOMAIN view = IndexFields /\ view = [f \in IndexFields |-> view[f]] /\ DOMAIN EmptyIndex = IndexFields
  BY DEF IsIndex, EmptyIndex, IndexFields, IsMap
<1>1. CASE e[1] = "atom"
  <2> DEFINE after == InsertAtom(view, e[2], e[3])
  <2>1. /\ DOMAIN after = IndexFields /\ IsMap(after)
        /\ after.atoms = Insert(view.atoms, e[2], e[3])
    BY <1>0 DEF InsertAtom, IsMap, IndexFields
  <2>2. IsMap(Insert(view.atoms, e[2], e[3]))
    BY DEF Insert, IsMap
  <2> HIDE DEF after
  <2>3. IsIndex(after)
    BY <1>0, <2>1, <2>2 DEF IsIndex
  <2> QED
    BY <1>1, <2>3 DEF Effect, after
<1>2. ASSUME NEW after, DOMAIN after = IndexFields, IsMap(after), after.atoms = view.atoms
      PROVE  IsIndex(after)
  BY <1>0, <1>2 DEF IsIndex
<1>3. CASE e[1] = "bond"
  <2> DEFINE after == InsertBond(view, e[2])
  <2>1. /\ DOMAIN after = IndexFields /\ IsMap(after) /\ after.atoms = view.atoms
    BY <1>0 DEF InsertBond, IsMap, IndexFields
  <2> HIDE DEF after
  <2>2. IsIndex(after)
    BY <1>2, <2>1
  <2> QED
    BY <1>3, <2>2 DEF Effect, after
<1>4. CASE e[1] = "root"
  <2> DEFINE after == apply_root(view, e[2], e[3], e[4], e[5])
  <2>1. /\ DOMAIN after = IndexFields /\ IsMap(after) /\ after.atoms = view.atoms
    BY <1>0 DEF apply_root, IsMap, IndexFields
  <2> HIDE DEF after
  <2>2. IsIndex(after)
    BY <1>2, <2>1
  <2> QED
    BY <1>4, <2>2 DEF Effect, after
<1>5. CASE e[1] = "commit"
  <2> DEFINE after == CellCounted(view)
  <2>1. /\ DOMAIN after = IndexFields /\ IsMap(after) /\ after.atoms = view.atoms
    BY <1>0 DEF CellCounted, IsMap, IndexFields
  <2>2. Effect(view, e) = after
    BY <1>5 DEF Effect, CellCounted
  <2> HIDE DEF after
  <2> QED
    BY <1>2, <2>1, <2>2
<1>6. CASE e[1] \notin {"atom", "bond", "root", "commit"}
  BY <1>6 DEF Effect
<1> QED
  BY <1>1, <1>3, <1>4, <1>5, <1>6

LEMMA RunKeepsMap ==
    ASSUME NEW view, IsIndex(view), NEW N \in Nat, NEW e, NEW g, IsRun(g, N, view, e)
    PROVE  IsIndex(g[N])
<1> DEFINE T == {k \in 0..N : IsIndex(g[k])}
<1>1. 0 \in T
  BY DEF IsRun
<1>2. ASSUME NEW k \in 0..N, k \in T, k < N PROVE k + 1 \in T
  <2>1. k + 1 \in 1..N /\ k + 1 \in 0..N /\ (k + 1) - 1 = k /\ IsIndex(g[k])
    BY <1>2
  <2>2. g[k + 1] = Effect(g[k], e[k + 1])
    BY <2>1 DEF IsRun
  <2>3. IsIndex(g[k + 1])
    BY <2>1, <2>2, EffectKeepsMap
  <2> QED
    BY <2>1, <2>3
<1> HIDE DEF T
<1>3. \A k \in 0..N : k \in T
  BY <1>1, <1>2, InductionUpTo
<1> QED
  BY <1>3 DEF T

LEMMA IndexAfterKeepsMap ==
    ASSUME NEW view, IsIndex(view), NEW cell, IsSeq(cell.bonds), IsSeq(cell.roots),
           NEW frame, NEW number
    PROVE  IsIndex(IndexAfter(view, cell, frame, number))
<1>1. IsIndex(ApplyCell(view, cell, frame.sequence))
  <2>1. PICK g, h :
              /\ IsRun(g, Len(cell.bonds), WithAtoms(view, cell), BondEffects(cell))
              /\ IsRun(h, Len(cell.roots), g[Len(cell.bonds)], RootEffects(cell, frame.sequence))
              /\ ApplyCell(view, cell, frame.sequence) = CellCounted(h[Len(cell.roots)])
    BY CellRuns, Zenon
  <2>2. Len(cell.bonds) \in Nat /\ Len(cell.roots) \in Nat
    BY DEF IsSeq
  <2>3. IsIndex(WithAtoms(view, cell))
    BY DEF IsIndex, WithAtoms, IsMap, EmptyIndex
  <2>4. IsIndex(g[Len(cell.bonds)])
    BY <2>1, <2>2, <2>3, RunKeepsMap
  <2>5. IsIndex(h[Len(cell.roots)])
    BY <2>1, <2>2, <2>4, RunKeepsMap
  <2>6. \A v : CellCounted(v) = Effect(v, <<"commit">>)
    BY DEF CellCounted, Effect
  <2> QED
    BY <2>1, <2>5, <2>6, EffectKeepsMap
<1>2. IsIndex(InsertAtom(view, atom_identity(frame.payload[1]), number))
  <2>1. \A x, y : InsertAtom(view, x, y) = Effect(view, <<"atom", x, y>>)
    BY DEF Effect
  <2> QED
    BY <2>1, EffectKeepsMap
<1>3. IsIndex(InsertBond(view, frame.payload))
  <2>1. \A x : InsertBond(view, x) = Effect(view, <<"bond", x>>)
    BY DEF Effect
  <2> QED
    BY <2>1, EffectKeepsMap
<1> QED
  BY <1>1, <1>2, <1>3 DEF IndexAfter

LEMMA CellAfterIsCell ==
    ASSUME NEW cell, IsCell(cell), IsSeq(cell.bonds), IsSeq(cell.roots), NEW frame,
           NEW number \in Nat, number > 0
    PROVE  LET after == CellAfter(cell, frame, number) IN
           IsCell(after) /\ IsSeq(after.bonds) /\ IsSeq(after.roots)
<1> DEFINE after == CellAfter(cell, frame, number)
<1>0. IsCell(NoCell) /\ IsSeq(NoCell.bonds) /\ IsSeq(NoCell.roots)
  BY DEF IsCell, NoCell, IsSeq
<1>1. IsSeq(Append(cell.bonds, frame.payload))
      /\ IsSeq(Append(cell.roots, [change |-> frame.payload, sequence |-> frame.sequence]))
  BY AppendSeq
<1>2. CASE frame.kind = "begin"
  <2>1. after = [NoCell EXCEPT !.open = TRUE, !.start = number - 1, !.meta = frame.payload]
    BY <1>2 DEF CellAfter
  <2> HIDE DEF after
  <2>2. after.bonds = NoCell.bonds /\ after.roots = NoCell.roots /\ IsCell(after)
    BY <2>1 DEF NoCell, IsCell
  <2> QED
    BY <1>0, <2>2 DEF after
<1>3. CASE frame.kind = "commit"
  BY <1>0, <1>3 DEF CellAfter
<1>4. CASE frame.kind \notin {"begin", "commit"} /\ ~cell.open
  BY <1>4 DEF CellAfter
<1>5. CASE frame.kind \notin {"begin", "commit"} /\ cell.open
  <2>1. \/ after = [cell EXCEPT !.atoms = Insert(@, atom_identity(frame.payload[1]), number)]
        \/ after = [cell EXCEPT !.bonds = Append(@, frame.payload)]
        \/ after = [cell EXCEPT !.roots = Append(@, [change |-> frame.payload,
                                                      sequence |-> frame.sequence])]
    BY <1>5 DEF CellAfter
  <2> HIDE DEF after
  <2>2. /\ IsCell(after)
        /\ after.bonds \in {cell.bonds, Append(cell.bonds, frame.payload)}
        /\ after.roots \in {cell.roots, Append(cell.roots, [change |-> frame.payload,
                                                      sequence |-> frame.sequence])}
    BY <2>1 DEF IsCell
  <2>3. IsSeq(after.bonds) /\ IsSeq(after.roots)
    BY <1>1, <2>2
  <2> QED
    BY <2>2, <2>3 DEF after
<1> QED
  BY <1>2, <1>3, <1>4, <1>5

(* A frame keeps a replay in order. *)
LEMMA StepBegins ==
    ASSUME NEW h, NEW i \in Nat, i > 0, Begun(h, i), NEW frame, FrameSteps(h[i], frame, i, h[i + 1])
    PROVE  Begun(h, i + 1)
<1> DEFINE view == h[i].db
           cell == h[i].cell
           after == CellAfter(cell, frame, i)
           new == IndexAfter(view, cell, frame, i)
<1>1. h[i + 1] = State(new, after) /\ FrameBalances(view, cell, frame)
  BY DEF FrameSteps
<1>2. /\ h[i] = State(view, cell)
      /\ IsIndex(view) /\ IsCell(cell) /\ IsSeq(cell.bonds) /\ IsSeq(cell.roots)
      /\ cell.open \/ cell = NoCell
      /\ cell.open => cell.start < i - 1 /\ h[cell.start + 1] = State(view, NoCell)
  BY DEF Begun
<1> HIDE DEF view, cell
<1>3. IsIndex(new)
  BY <1>2, IndexAfterKeepsMap
<1>4. IsCell(after) /\ IsSeq(after.bonds) /\ IsSeq(after.roots)
  BY <1>2, CellAfterIsCell
<1>5. h[i + 1].db = new /\ h[i + 1].cell = after
  <2> HIDE DEF new, after
  <2> QED
    BY <1>1 DEF State
<1>6. /\ after.open \/ after = NoCell
      /\ after.open => after.start < i /\ h[after.start + 1] = State(new, NoCell)
  <2>1. CASE frame.kind = "begin"
    <3>1. ~cell.open /\ cell = NoCell
      BY <1>1, <1>2, <2>1 DEF FrameBalances
    <3>2. after.open = TRUE /\ after.start = i - 1
      BY <2>1 DEF CellAfter, NoCell
    <3>3. new = view
      BY <2>1, <3>1 DEF IndexAfter
    <3> HIDE DEF new, after
    <3>4. i - 1 < i /\ (i - 1) + 1 = i
      OBVIOUS
    <3> QED
      BY <1>2, <3>1, <3>2, <3>3, <3>4
  <2>2. CASE frame.kind = "commit"
    BY <2>2 DEF CellAfter, NoCell
  <2>3. CASE frame.kind \notin {"begin", "commit"} /\ ~cell.open
    <3>1. after = cell /\ cell = NoCell
      BY <1>2, <2>3 DEF CellAfter
    <3> QED
      BY <3>1 DEF NoCell
  <2>4. CASE frame.kind \notin {"begin", "commit"} /\ cell.open
    <3>1. new = view
      BY <2>4 DEF IndexAfter
    <3>2. after.start = cell.start /\ after.open
      BY <1>2, <2>4 DEF CellAfter, IsCell
    <3>3. cell.start \in Nat /\ cell.start < i - 1
      BY <1>2, <2>4 DEF IsCell
    <3> HIDE DEF new, after
    <3> QED
      BY <1>2, <2>4, <3>1, <3>2, <3>3
  <2> QED
    BY <2>1, <2>2, <2>3, <2>4
<1> HIDE DEF new, after
<1>7. (i + 1) - 1 = i
  OBVIOUS
<1> QED
  BY <1>1, <1>3, <1>4, <1>5, <1>6, <1>7 DEF Begun

(* e is d with one chunk more, the n-th; t is what recovery has after it. *)
OneMore(d, e, n) ==
    n \in Nat /\ Len(d) = n - 1 /\ Len(e) = n /\ \A i \in 1..(n - 1) : e[i].frame = d[i].frame

TakesTo(h, e, n, t) == FrameSteps(h[n], e[n].frame, n, t)

LEMMA ToldGrows ==
    ASSUME NEW d, NEW h, Told(h, d), NEW e, NEW r, OneMore(d, e, r), Len(d) \in Nat,
           NEW t, TakesTo(h, e, r, t)
    PROVE  \E g : Told(g, e) /\ g[r + 1] = t /\ \A i \in 1..r : g[i] = h[i]
<1> DEFINE n == r - 1
<1>0. /\ n \in Nat /\ r = n + 1 /\ Len(d) = n /\ Len(e) = n + 1
      /\ (\A i \in 1..n : e[i].frame = d[i].frame) /\ FrameSteps(h[n + 1], e[n + 1].frame, n + 1, t)
      /\ r + 1 = n + 2
  <2>1. r \in Nat /\ Len(d) = n /\ Len(e) = r /\ (\A i \in 1..n : e[i].frame = d[i].frame)
        /\ FrameSteps(h[r], e[r].frame, r, t)
    BY DEF OneMore, TakesTo
  <2>2. n + 1 = r /\ n \in Nat /\ r + 1 = n + 2
    BY <2>1
  <2> HIDE DEF n
  <2> QED
    BY <2>1, <2>2
<1> HIDE DEF n
<1> DEFINE g == Append(h, t)
<1>1. IsSeq(h) /\ Len(h) = n + 1
  BY <1>0 DEF Told
<1>2. IsSeq(g) /\ Len(g) = n + 2 /\ g[n + 2] = t /\ \A i \in 1..(n + 1) : g[i] = h[i]
  BY <1>0, <1>1, AppendSeq
<1> HIDE DEF g
<1>3. \A i \in 1..(n + 1) : i \in 1..n \/ i = n + 1
  BY <1>0
<1>4. ASSUME NEW i \in 1..(n + 1) PROVE FrameSteps(g[i], e[i].frame, i, g[i + 1])
  <2>1. CASE i \in 1..n
    <3>1. i + 1 \in 1..(n + 1)
      BY <1>0, <2>1
    <3> QED
      BY <1>0, <1>2, <2>1, <3>1 DEF Told
  <2>2. CASE i = n + 1
    <3>1. i + 1 = n + 2 /\ g[i] = h[n + 1]
      BY <1>0, <1>2, <2>2
    <3> QED
      BY <1>0, <1>2, <2>2, <3>1
  <2> QED
    BY <1>3, <2>1, <2>2
<1>5. ASSUME NEW i \in 1..(n + 1) PROVE Begun(g, i)
  <2>1. i \in Nat /\ i > 0 /\ \A l \in 1..i : l \in 1..(n + 1)
    BY <1>0
  <2>2. Begun(h, i)
    BY <1>0, <1>1 DEF Told
  <2> QED
    BY <1>2, <2>1, <2>2, BegunAgrees
<1>6. Begun(g, n + 2)
  <2>1. n + 1 \in Nat /\ n + 1 > 0 /\ n + 1 \in 1..(n + 1) /\ (n + 1) + 1 = n + 2
    BY <1>0
  <2>2. Begun(g, n + 1) /\ FrameSteps(g[n + 1], e[n + 1].frame, n + 1, g[n + 2])
    BY <1>4, <1>5, <2>1
  <2> QED
    BY <2>1, <2>2, StepBegins
<1>7. \A i \in 1..Len(g) : Begun(g, i)
  <2>1. \A i \in 1..(n + 2) : i \in 1..(n + 1) \/ i = n + 2
    BY <1>0
  <2> QED
    BY <1>2, <1>5, <1>6, <2>1
<1>8. g[1] = State(EmptyIndex, NoCell)
  <2>1. 1 \in 1..(n + 1)
    BY <1>0
  <2> QED
    BY <1>0, <1>2, <2>1 DEF Told
<1>9. Len(g) = Len(e) + 1
  BY <1>0, <1>2
<1>10. Told(g, e)
  BY <1>0, <1>2, <1>4, <1>7, <1>8, <1>9 DEF Told
<1> QED
  BY <1>0, <1>2, <1>10
-----------------------------------------------------------------------------
(* Observers *)

(* What a scan has read stays so when the log grows. *)
LEMMA ObserverKept ==
    ASSUME NEW c, NEW h, NEW d, ObserverTold(c, h, d), NEW g, NEW e,
           Len(h) \in Nat, Len(g) \in Nat, Len(d) \in Nat, Len(e) \in Nat,
           Len(h) <= Len(g), Len(d) <= Len(e), \A i \in 1..Len(h) : g[i] = h[i],
           \A i \in 1..Len(d) : d[i].whole => e[i].whole
    PROVE  ObserverTold(c, g, e)
<1> SUFFICES ASSUME c.offset < Sampled(c)
             PROVE  /\ c.low <= Len(e)
                    /\ \A i \in 1..c.limit : i <= c.low => e[i].whole
                    /\ ~Moved(c) => ScanAt(c, g)
  BY DEF ObserverTold
<1>1. /\ c.offset \in Nat /\ c.limit \in Nat /\ c.low \in Nat /\ c.low <= Len(d)
      /\ \A i \in 1..c.limit : i <= c.low => d[i].whole
      /\ ~Moved(c) => ScanAt(c, h)
  BY DEF ObserverTold
<1>2. c.low <= Len(e) /\ \A i \in 1..c.limit : i <= c.low => i \in 1..Len(d)
  BY <1>1
<1>3. ASSUME ScanAt(c, h) PROVE ScanAt(c, g)
  <2>1. c.offset < Len(h) /\ h[c.offset + 1] = State(c.db, c.cell)
    BY <1>3 DEF ScanAt
  <2>2. c.offset + 1 \in 1..Len(h) /\ c.offset < Len(g)
    BY <1>1, <2>1
  <2> QED
    BY <2>1, <2>2 DEF ScanAt
<1> QED
  BY <1>1, <1>2, <1>3

CutTo(c, n) == IF c.offset < Sampled(c) THEN [c EXCEPT !.low = IF n < @ THEN n ELSE @] ELSE c

(* A scan under which the file is cut has not moved before it comes there. *)
LEMMA ObserverCut ==
    ASSUME NEW c, DOMAIN c = DOMAIN NoScan, NEW h, NEW d, ObserverTold(c, h, d),
           NEW n \in Nat, Len(d) \in Nat, n <= Len(d), Len(h) = Len(d) + 1,
           NEW g, NEW e, Len(g) = n + 1, Len(e) = n,
           \A i \in 1..(n + 1) : g[i] = h[i], \A i \in 1..n : d[i].whole => e[i].whole
    PROVE  ObserverTold(CutTo(c, n), g, e)
<1>1. CASE ~(c.offset < Sampled(c))
  BY <1>1 DEF CutTo, ObserverTold
<1>2. CASE c.offset < Sampled(c)
  <2> DEFINE low == IF n < c.low THEN n ELSE c.low
             z == CutTo(c, n)
  <2>1. /\ c.offset \in Nat /\ c.limit \in Nat /\ c.cut \in BOOLEAN /\ c.low \in Nat
        /\ c.low <= Len(d)
        /\ \A i \in 1..c.limit : i <= c.low => d[i].whole
        /\ ~Moved(c) => ScanAt(c, h)
    BY <1>2 DEF ObserverTold
  <2>2. /\ z.offset = c.offset /\ z.limit = c.limit /\ z.cut = c.cut /\ z.low = low
        /\ z.db = c.db /\ z.cell = c.cell
    BY <1>2 DEF CutTo, NoScan
  <2>3. low \in Nat /\ low <= n /\ low <= c.low
    BY <2>1
  <2> HIDE DEF z, low
  <2>4. Sampled(z) = Sampled(c) /\ Sampled(c) \in Nat
    BY <2>1, <2>2 DEF Sampled
  <2>5. \A i \in 1..c.limit : i <= low => e[i].whole
    <3> SUFFICES ASSUME NEW i \in 1..c.limit, i <= low PROVE e[i].whole
      OBVIOUS
    <3>1. i <= c.low /\ i \in 1..n
      BY <2>1, <2>3
    <3> QED
      BY <2>1, <3>1
  <2>6. ASSUME ~Moved(z) PROVE ScanAt(z, g)
    <3>1. ~(low < Sampled(c) /\ low <= c.offset)
      BY <2>2, <2>4, <2>6 DEF Moved
    <3>2. ~(c.low < Sampled(c) /\ c.low <= c.offset) /\ c.offset < n
      BY <1>2, <2>1, <2>3, <2>4, <3>1
    <3>3. ScanAt(c, h)
      BY <2>1, <3>2 DEF Moved
    <3>4. c.offset + 1 \in 1..(n + 1) /\ c.offset < Len(g)
      BY <2>1, <3>2
    <3> QED
      BY <2>2, <3>3, <3>4 DEF ScanAt
  <2>7. ObserverTold(z, g, e)
    BY <2>1, <2>2, <2>3, <2>5, <2>6 DEF ObserverTold
  <2> QED
    BY <2>7 DEF z
<1> QED
  BY <1>1, <1>2

(* A scan that takes a frame comes to what recovery has after it. *)
LEMMA ScanAdvances ==
    ASSUME NEW c, NEW h, NEW d, Told(h, d), ScanAt(c, h), c.offset \in Nat, Len(d) \in Nat,
           c.offset < Len(d),
           NEW z, z.offset = c.offset + 1,
           z.db = IndexAfter(c.db, c.cell, d[c.offset + 1].frame, c.offset + 1),
           z.cell = CellAfter(c.cell, d[c.offset + 1].frame, c.offset + 1)
    PROVE  ScanAt(z, h) /\ FrameBalances(c.db, c.cell, d[c.offset + 1].frame)
<1> DEFINE n == c.offset + 1
<1>1. n \in 1..Len(d) /\ n < Len(h)
  BY DEF Told
<1>2. FrameSteps(h[n], d[n].frame, n, h[n + 1])
  BY <1>1 DEF Told
<1>3. h[n] = State(c.db, c.cell)
  BY DEF ScanAt
<1> HIDE DEF n
<1>4. h[n].db = c.db /\ h[n].cell = c.cell
  BY <1>3 DEF State
<1>5. FrameBalances(c.db, c.cell, d[n].frame)
      /\ h[n + 1] = State(IndexAfter(c.db, c.cell, d[n].frame, n), CellAfter(c.cell, d[n].frame, n))
  BY <1>2, <1>4 DEF FrameSteps
<1>6. z.offset = n /\ h[n + 1] = State(z.db, z.cell)
  BY <1>5 DEF n
<1> QED
  BY <1>1, <1>5, <1>6 DEF ScanAt, n

LEMMA ObserverScans ==
    ASSUME NEW c, NEW h, NEW d, ObserverTold(c, h, d), NEW z,
           z.offset = c.offset + 1, z.limit = c.limit, z.cut = c.cut, z.low = c.low,
           ScanAt(c, h) => ScanAt(z, h)
    PROVE  ObserverTold(z, h, d)
<1>1. /\ c.offset \in Nat /\ c.limit \in Nat /\ c.cut \in BOOLEAN /\ c.low \in Nat
  BY DEF ObserverTold
<1>2. Sampled(z) = Sampled(c) /\ Sampled(c) \in Nat
  BY <1>1 DEF Sampled
<1>3. ASSUME z.offset < Sampled(z) PROVE c.offset < Sampled(c) /\ (~Moved(z) => ~Moved(c))
  BY <1>1, <1>2, <1>3 DEF Moved
<1>4. z.offset \in Nat
  BY <1>1
<1> QED
  BY <1>1, <1>2, <1>3, <1>4 DEF ObserverTold

(* What the property asks. *)
LEMMA ObserverBalances ==
    ASSUME LogInv(disk), NEW h, Told(h, disk), NEW c, ObserverTold(c, h, disk), ~Moved(c),
           c.offset < c.limit
    PROVE  Readable(c) /\ Acceptable(c)
<1> DEFINE n == c.offset + 1
           z == [offset |-> n, db |-> IndexAfter(c.db, c.cell, disk[n].frame, n),
                 cell |-> CellAfter(c.cell, disk[n].frame, n)]
<1>1. /\ c.offset \in Nat /\ c.limit \in Nat /\ c.cut \in BOOLEAN /\ c.low \in Nat
  BY DEF ObserverTold
<1>2. c.offset < Sampled(c) /\ Sampled(c) \in Nat
  BY <1>1 DEF Sampled
<1>3. /\ c.low <= Len(disk) /\ \A i \in 1..c.limit : i <= c.low => disk[i].whole
      /\ ScanAt(c, h)
  BY <1>2 DEF ObserverTold
<1>4. c.offset < c.low
  BY <1>1, <1>2 DEF Moved
<1>5. Len(disk) \in Nat
  BY DEF LogInv, IsSeq
<1>6. n \in 1..c.limit /\ n <= c.low /\ n \in 1..Len(disk) /\ c.offset < Len(disk)
  BY <1>1, <1>3, <1>4, <1>5
<1>7. disk[n].whole /\ disk[n].frame.sequence = c.offset
  <2>1. disk[n].frame.sequence = n - 1 /\ n - 1 = c.offset
    BY <1>1, <1>6 DEF LogInv
  <2> QED
    BY <1>3, <1>6, <2>1
<1>8. FrameBalances(c.db, c.cell, disk[n].frame)
  <2>1. /\ z.offset = c.offset + 1
        /\ z.db = IndexAfter(c.db, c.cell, disk[c.offset + 1].frame, c.offset + 1)
        /\ z.cell = CellAfter(c.cell, disk[c.offset + 1].frame, c.offset + 1)
    OBVIOUS
  <2> HIDE DEF z, n
  <2>2. FrameBalances(c.db, c.cell, disk[c.offset + 1].frame)
    BY <1>1, <1>3, <1>5, <1>6, <2>1, ScanAdvances
  <2> QED
    BY <2>2 DEF n
<1> QED
  BY <1>6, <1>7, <1>8 DEF Readable, Acceptable

-----------------------------------------------------------------------------
(* The replay: the frames of a cell, and the open cell they make. *)

-----------------------------------------------------------------------------
(* What the frames of a prepared cell are. *)
CellListed(frames, prepared, sequence) ==
    LET a == Len(prepared.atoms)
        b == Len(prepared.bonds)
        r == Len(prepared.roots)
        n == a + b + r + 2
    IN  /\ a \in Nat /\ b \in Nat /\ r \in Nat
        /\ IsSeq(frames) /\ Len(frames) = n
        /\ frames[1] = Frame(sequence, "begin", CellMeta(prepared))
        /\ \A i \in 1..a : frames[1 + i] = Frame(sequence + (1 + i) - 1, "atom", <<prepared.atoms[i][2]>>)
        /\ \A i \in 1..b :
              frames[1 + a + i] = Frame(sequence + (1 + a + i) - 1, "bond", prepared.bonds[i][2])
        /\ \A i \in 1..r :
              frames[1 + a + b + i] = Frame(sequence + (1 + a + b + i) - 1, "root", prepared.roots[i])
        /\ frames[n] = Frame(sequence + n - 1, "commit", CellMeta(prepared))

LEMMA CellFramesListed ==
    ASSUME NEW cell \in Cells, NEW view, NEW sequence \in Nat
    PROVE  CellListed(CellFrames(prepare_cell(view, cell), sequence), prepare_cell(view, cell),
                      sequence)
<1> DEFINE prepared == prepare_cell(view, cell)
           frames == CellFrames(prepared, sequence)
           a == Len(prepared.atoms)
           b == Len(prepared.bonds)
           r == Len(prepared.roots)
           n == a + b + r + 2
<1>1. a \in Nat /\ b \in Nat /\ r \in Nat
  BY PreparedFinite
<1> HIDE DEF prepared
<1>4. FramesInv(frames, sequence)
  BY CellFramesShape DEF prepared
<1>5. \A i \in 1..n :
         frames[i] =
            IF i = 1 THEN Frame(sequence, "begin", CellMeta(prepared))
            ELSE IF i <= a + 1
                 THEN Frame(sequence + i - 1, "atom", <<prepared.atoms[i - 1][2]>>)
            ELSE IF i <= a + b + 1
                 THEN Frame(sequence + i - 1, "bond", prepared.bonds[i - 1 - a][2])
            ELSE IF i <= a + b + r + 1
                 THEN Frame(sequence + i - 1, "root", prepared.roots[i - 1 - a - b])
            ELSE Frame(sequence + i - 1, "commit", CellMeta(prepared))
  BY DEF CellFrames
<1>6. IsSeq(frames) /\ DOMAIN frames = 1..n
  BY <1>4 DEF FramesInv, CellFrames
<1> HIDE DEF frames, a, b, r
<1>7. Len(frames) = n
  <2>1. Len(frames) \in Nat /\ DOMAIN frames = 1..Len(frames) /\ n \in Nat
    BY <1>1, <1>6 DEF IsSeq
  <2> HIDE DEF n
  <2>2. Len(frames) <= n /\ n <= Len(frames)
    BY <1>6, <2>1
  <2>3. Len(frames) \in Int /\ n \in Int
    BY <2>1
  <2> QED
    BY <2>2, <2>3
<1>8. /\ frames[1] = Frame(sequence, "begin", CellMeta(prepared))
      /\ \A i \in 1..a : frames[1 + i] = Frame(sequence + (1 + i) - 1, "atom", <<prepared.atoms[i][2]>>)
      /\ \A i \in 1..b :
            frames[1 + a + i] = Frame(sequence + (1 + a + i) - 1, "bond", prepared.bonds[i][2])
      /\ \A i \in 1..r :
            frames[1 + a + b + i] = Frame(sequence + (1 + a + b + i) - 1, "root", prepared.roots[i])
      /\ frames[n] = Frame(sequence + n - 1, "commit", CellMeta(prepared))
  <2>1. frames[1] = Frame(sequence, "begin", CellMeta(prepared))
    <3>1. 1 \in 1..n
      BY <1>1
    <3> HIDE DEF n
    <3> QED
      BY <1>5, <3>1
  <2>2. ASSUME NEW i \in 1..a
        PROVE  frames[1 + i] = Frame(sequence + (1 + i) - 1, "atom", <<prepared.atoms[i][2]>>)
    <3>1. 1 + i \in 1..n /\ 1 + i # 1 /\ 1 + i <= a + 1 /\ (1 + i) - 1 = i
      BY <1>1
    <3> HIDE DEF n
    <3> QED
      BY <1>5, <3>1
  <2>3. ASSUME NEW i \in 1..b
        PROVE  frames[1 + a + i] = Frame(sequence + (1 + a + i) - 1, "bond", prepared.bonds[i][2])
    <3>1. /\ 1 + a + i \in 1..n /\ 1 + a + i # 1 /\ ~(1 + a + i <= a + 1)
          /\ 1 + a + i <= a + b + 1 /\ (1 + a + i) - 1 - a = i
      BY <1>1
    <3> HIDE DEF n
    <3> QED
      BY <1>5, <3>1
  <2>4. ASSUME NEW i \in 1..r
        PROVE  frames[1 + a + b + i] =
                   Frame(sequence + (1 + a + b + i) - 1, "root", prepared.roots[i])
    <3>1. /\ 1 + a + b + i \in 1..n /\ 1 + a + b + i # 1 /\ ~(1 + a + b + i <= a + 1)
          /\ ~(1 + a + b + i <= a + b + 1) /\ 1 + a + b + i <= a + b + r + 1
          /\ (1 + a + b + i) - 1 - a - b = i
      BY <1>1
    <3> HIDE DEF n
    <3> QED
      BY <1>5, <3>1
  <2>5. frames[n] = Frame(sequence + n - 1, "commit", CellMeta(prepared))
    <3>1. n \in 1..n /\ n # 1 /\ ~(n <= a + 1) /\ ~(n <= a + b + 1) /\ ~(n <= a + b + r + 1)
      BY <1>1
    <3> HIDE DEF n
    <3> QED
      BY <1>5, <3>1
  <2> QED
    BY <2>1, <2>2, <2>3, <2>4, <2>5
<1> QED
  BY <1>1, <1>6, <1>7, <1>8 DEF CellListed, prepared, frames, a, b, r

(* The open cell of a recovery that has read x of the atoms, y of the      *)
(* bonds and z of the roots of a prepared cell.                            *)
RootNumber(prepared, sequence, i) ==
    sequence + (1 + Len(prepared.atoms) + Len(prepared.bonds) + i) - 1
AtomPlace(prepared, id) == CHOOSE i \in 1..Len(prepared.atoms) : prepared.atoms[i] = id
OpenCell(prepared, sequence, at, x, y, z) ==
    [open |-> TRUE, start |-> at, meta |-> CellMeta(prepared),
     atoms |-> [id \in {prepared.atoms[i] : i \in 1..x} |-> at + (1 + AtomPlace(prepared, id))],
     bonds |-> [i \in 1..y |-> prepared.bonds[i][2]],
     roots |-> [i \in 1..z |->
                   [change |-> prepared.roots[i],
                    sequence |-> RootNumber(prepared, sequence, i)]]]

LEMMA ListGrows ==
    ASSUME NEW s, IsSeq(s), NEW t, IsSeq(t), Len(t) = Len(s) + 1, \A i \in 1..Len(s) : t[i] = s[i]
    PROVE  Append(s, t[Len(t)]) = t
<1> DEFINE n == Len(s)
           x == t[Len(t)]
           u == Append(s, x)
<1>1. IsSeq(u) /\ Len(u) = n + 1 /\ u[n + 1] = x /\ \A i \in 1..n : u[i] = s[i]
  BY AppendSeq
<1>2. n \in Nat
  BY DEF IsSeq
<1>3. u = [i \in 1..(n + 1) |-> u[i]] /\ t = [i \in 1..(n + 1) |-> t[i]]
  BY <1>1 DEF IsSeq
<1> HIDE DEF u, n
<1>4. \A i \in 1..(n + 1) : u[i] = t[i]
  <2>1. \A i \in 1..(n + 1) : i \in 1..n \/ i = n + 1
    BY <1>2
  <2>2. u[n + 1] = t[n + 1]
    BY <1>1 DEF n
  <2> QED
    BY <1>1, <2>1, <2>2 DEF n
<1>5. u = t
  BY <1>3, <1>4
<1> QED
  BY <1>5 DEF u

LEMMA FirstList == ASSUME NEW n \in Nat, NEW s, s = [i \in 1..n |-> s[i]] PROVE IsSeq(s) /\ Len(s) = n
  BY DEF IsSeq

LEMMA OpenStarts ==
    ASSUME NEW prepared, NEW sequence, NEW at \in Nat
    PROVE  CellAfter(NoCell, Frame(sequence, "begin", CellMeta(prepared)), at + 1) =
               OpenCell(prepared, sequence, at, 0, 0, 0)
<1> DEFINE c == OpenCell(prepared, sequence, at, 0, 0, 0)
           frame == Frame(sequence, "begin", CellMeta(prepared))
<1>1. frame.kind = "begin" /\ frame.payload = CellMeta(prepared)
  BY DEF Frame
<1> HIDE DEF frame
<1>2. CellAfter(NoCell, frame, at + 1) =
          [NoCell EXCEPT !.open = TRUE, !.start = (at + 1) - 1, !.meta = CellMeta(prepared)]
  BY <1>1 DEF CellAfter
<1>3. (at + 1) - 1 = at
  OBVIOUS
<1>4. 1..0 = {}
  OBVIOUS
<1>5. c.atoms = EmptyMap
  <2>1. {prepared.atoms[i] : i \in 1..0} = {}
    BY <1>4
  <2>2. c.atoms = [id \in {} |-> at + (1 + AtomPlace(prepared, id))]
    BY <2>1 DEF OpenCell
  <2> QED
    BY <2>2 DEF EmptyMap
<1>6. c.bonds = <<>> /\ c.roots = <<>>
  <2>1. c.bonds = [i \in 1..0 |-> c.bonds[i]] /\ c.roots = [i \in 1..0 |-> c.roots[i]]
    BY DEF OpenCell
  <2> HIDE DEF c
  <2> QED
    BY <1>4, <2>1
<1>7. c = [open |-> TRUE, start |-> at, meta |-> CellMeta(prepared), atoms |-> c.atoms,
           bonds |-> c.bonds, roots |-> c.roots]
  BY DEF OpenCell
<1> HIDE DEF c
<1> QED
  BY <1>2, <1>3, <1>5, <1>6, <1>7 DEF NoCell, frame, c

AtomTaken(e, c, id, number) == e = [c EXCEPT !.atoms = Insert(@, id, number)]

LEMMA OpenAtomsGrow ==
    ASSUME NEW prepared, NEW sequence, NEW at, NEW i \in Nat, i > 0, i <= Len(prepared.atoms),
           Len(prepared.atoms) \in Nat,
           \A x, y \in 1..Len(prepared.atoms) : x < y => prepared.atoms[x] # prepared.atoms[y]
    PROVE  AtomTaken(OpenCell(prepared, sequence, at, i, 0, 0),
                     OpenCell(prepared, sequence, at, i - 1, 0, 0), prepared.atoms[i], at + (1 + i))
<1> DEFINE c == OpenCell(prepared, sequence, at, i - 1, 0, 0)
           e == OpenCell(prepared, sequence, at, i, 0, 0)
           q == prepared.atoms
           S == {q[l] : l \in 1..(i - 1)}
           T == {q[l] : l \in 1..i}
           C == [id \in S |-> at + (1 + AtomPlace(prepared, id))]
           E == [id \in T |-> at + (1 + AtomPlace(prepared, id))]
<1>1. AtomPlace(prepared, q[i]) = i
  <2>1. i \in 1..Len(q)
    OBVIOUS
  <2>2. \A x \in 1..Len(q) : q[x] = q[i] => x = i
    BY <2>1
  <2> HIDE DEF q
  <2> QED
    BY <2>1, <2>2 DEF AtomPlace, q
<1>2. T = S \cup {q[i]}
  <2>1. 1..i = 1..(i - 1) \cup {i}
    OBVIOUS
  <2> QED
    BY <2>1
<1>3. c.atoms = C /\ e = [c EXCEPT !.atoms = E]
  <2> DEFINE bonds == [l \in 1..0 |-> prepared.bonds[l][2]]
             roots == [l \in 1..0 |->
                   [change |-> prepared.roots[l],
                    sequence |-> RootNumber(prepared, sequence, l)]]
             m == CellMeta(prepared)
             yes == TRUE
  <2>1. /\ c = [open |-> yes, start |-> at, meta |-> m, atoms |-> C, bonds |-> bonds, roots |-> roots]
        /\ e = [open |-> yes, start |-> at, meta |-> m, atoms |-> E, bonds |-> bonds, roots |-> roots]
    BY Zenon DEF OpenCell
  <2> HIDE DEF c, e, bonds, roots, C, E, m, yes
  <2> QED
    BY <2>1
<1>4. Insert(C, q[i], at + (1 + i)) = E
  <2> HIDE DEF q, S, T
  <2> QED
    BY <1>1, <1>2 DEF Insert
<1> HIDE DEF c, e, C, E, q
<1>5. e = [c EXCEPT !.atoms = Insert(@, q[i], at + (1 + i))]
  BY <1>3, <1>4
<1> QED
  BY <1>5 DEF c, e, q, AtomTaken

LEMMA OpenTakesAtom ==
    ASSUME NEW prepared, NEW sequence, NEW at, NEW i \in Nat, i > 0, i <= Len(prepared.atoms),
           Len(prepared.atoms) \in Nat,
           \A x, y \in 1..Len(prepared.atoms) : x < y => prepared.atoms[x] # prepared.atoms[y],
           NEW frame, frame.kind = "atom", atom_identity(frame.payload[1]) = prepared.atoms[i]
    PROVE  CellAfter(OpenCell(prepared, sequence, at, i - 1, 0, 0), frame, at + (1 + i)) =
               OpenCell(prepared, sequence, at, i, 0, 0)
<1> DEFINE c == OpenCell(prepared, sequence, at, i - 1, 0, 0)
<1>1. CellAfter(c, frame, at + (1 + i)) = [c EXCEPT !.atoms = Insert(@, prepared.atoms[i], at + (1 + i))]
  BY DEF CellAfter, OpenCell
<1> QED
  BY <1>1, OpenAtomsGrow DEF AtomTaken

LEMMA OpenTakesBond ==
    ASSUME NEW prepared, NEW sequence, NEW at, NEW i \in Nat, i > 0, NEW x,
           NEW frame, frame.kind = "bond", frame.payload = prepared.bonds[i][2], NEW number
    PROVE  CellAfter(OpenCell(prepared, sequence, at, x, i - 1, 0), frame, number) =
               OpenCell(prepared, sequence, at, x, i, 0)
<1> DEFINE c == OpenCell(prepared, sequence, at, x, i - 1, 0)
           e == OpenCell(prepared, sequence, at, x, i, 0)
           m == CellMeta(prepared)
           yes == TRUE
           atoms == [id \in {prepared.atoms[l] : l \in 1..x} |-> at + (1 + AtomPlace(prepared, id))]
           roots == [l \in 1..0 |->
                   [change |-> prepared.roots[l],
                    sequence |-> RootNumber(prepared, sequence, l)]]
           C == [l \in 1..(i - 1) |-> prepared.bonds[l][2]]
           E == [l \in 1..i |-> prepared.bonds[l][2]]
<1>1. /\ c = [open |-> yes, start |-> at, meta |-> m, atoms |-> atoms, bonds |-> C, roots |-> roots]
      /\ e = [open |-> yes, start |-> at, meta |-> m, atoms |-> atoms, bonds |-> E, roots |-> roots]
  BY Zenon DEF OpenCell
<1>2. IsSeq(C) /\ Len(C) = i - 1
  <2>1. i - 1 \in Nat /\ C = [l \in 1..(i - 1) |-> C[l]]
    OBVIOUS
  <2> HIDE DEF C
  <2> QED
    BY <2>1, FirstList
<1>3. IsSeq(E) /\ Len(E) = i /\ (\A l \in 1..(i - 1) : E[l] = C[l]) /\ E[i] = prepared.bonds[i][2]
  <2>1. E = [l \in 1..i |-> E[l]]
    OBVIOUS
  <2>2. (\A l \in 1..(i - 1) : E[l] = C[l]) /\ E[i] = prepared.bonds[i][2]
    OBVIOUS
  <2> HIDE DEF E
  <2> QED
    BY <2>1, <2>2, FirstList
<1> HIDE DEF c, e, m, atoms, roots, C, E, yes
<1>4. Append(C, frame.payload) = E
  <2>1. Len(E) = Len(C) + 1 /\ E[Len(E)] = frame.payload /\ \A l \in 1..Len(C) : E[l] = C[l]
    BY <1>2, <1>3
  <2> QED
    BY <1>2, <1>3, <2>1, ListGrows
<1>5. CellAfter(c, frame, number) = [c EXCEPT !.bonds = Append(@, frame.payload)]
  BY <1>1 DEF CellAfter, yes
<1>6. [c EXCEPT !.bonds = E] = e /\ c.bonds = C
  BY <1>1
<1> QED
  BY <1>4, <1>5, <1>6 DEF c, e

LEMMA OpenTakesRoot ==
    ASSUME NEW prepared, NEW sequence, NEW at, NEW i \in Nat, i > 0, NEW x, NEW y,
           NEW frame, frame.kind = "root", frame.payload = prepared.roots[i],
           frame.sequence = RootNumber(prepared, sequence, i),
           NEW number
    PROVE  CellAfter(OpenCell(prepared, sequence, at, x, y, i - 1), frame, number) =
               OpenCell(prepared, sequence, at, x, y, i)
<1> DEFINE c == OpenCell(prepared, sequence, at, x, y, i - 1)
           e == OpenCell(prepared, sequence, at, x, y, i)
           m == CellMeta(prepared)
           yes == TRUE
           atoms == [id \in {prepared.atoms[l] : l \in 1..x} |-> at + (1 + AtomPlace(prepared, id))]
           bonds == [l \in 1..y |-> prepared.bonds[l][2]]
           one(l) == [change |-> prepared.roots[l],
                      sequence |-> RootNumber(prepared, sequence, l)]
           C == [l \in 1..(i - 1) |-> one(l)]
           E == [l \in 1..i |-> one(l)]
           new == [change |-> frame.payload, sequence |-> frame.sequence]
<1>1. /\ c = [open |-> yes, start |-> at, meta |-> m, atoms |-> atoms, bonds |-> bonds, roots |-> C]
      /\ e = [open |-> yes, start |-> at, meta |-> m, atoms |-> atoms, bonds |-> bonds, roots |-> E]
  BY Zenon DEF OpenCell
<1>0. one(i) = new
  OBVIOUS
<1> HIDE DEF one, new
<1>2. IsSeq(C) /\ Len(C) = i - 1
  <2>1. i - 1 \in Nat /\ C = [l \in 1..(i - 1) |-> C[l]]
    OBVIOUS
  <2> HIDE DEF C
  <2> QED
    BY <2>1, FirstList
<1>3. IsSeq(E) /\ Len(E) = i /\ (\A l \in 1..(i - 1) : E[l] = C[l]) /\ E[i] = new
  <2>1. E = [l \in 1..i |-> E[l]]
    OBVIOUS
  <2>2. (\A l \in 1..(i - 1) : E[l] = C[l]) /\ E[i] = new
    BY <1>0
  <2> HIDE DEF E
  <2> QED
    BY <2>1, <2>2, FirstList
<1> HIDE DEF c, e, m, atoms, bonds, C, E, yes
<1>4. Append(C, new) = E
  <2>1. Len(E) = Len(C) + 1 /\ E[Len(E)] = new /\ \A l \in 1..Len(C) : E[l] = C[l]
    BY <1>2, <1>3
  <2> QED
    BY <1>2, <1>3, <2>1, ListGrows
<1>5. CellAfter(c, frame, number) = [c EXCEPT !.roots = Append(@, new)]
  BY <1>1 DEF CellAfter, new, yes
<1>6. [c EXCEPT !.roots = E] = e /\ c.roots = C
  BY <1>1
<1> QED
  BY <1>4, <1>5, <1>6 DEF c, e

-----------------------------------------------------------------------------
(* The replay: no frame of a prepared cell is refused. *)

-----------------------------------------------------------------------------
(* What recovery needs to know of a prepared cell. *)
CellReads(prepared, view, cell) ==
    LET a == Len(prepared.atoms)
        b == Len(prepared.bonds)
        r == Len(prepared.roots)
    IN  /\ a \in Nat /\ b \in Nat /\ r \in Nat /\ a = Cardinality(NewAtoms(view, cell))
        /\ {prepared.atoms[i] : i \in 1..a} = NewAtoms(view, cell)
        /\ \A i \in 1..a : atom_identity(prepared.atoms[i][2]) = prepared.atoms[i]
        /\ \A i, j \in 1..a : i < j => prepared.atoms[i] # prepared.atoms[j]
        /\ {prepared.bonds[i][2] : i \in 1..b} = NewBonds(view, cell)
        /\ \A i, j \in 1..b : i < j => prepared.bonds[i][2] # prepared.bonds[j][2]
        /\ \A i \in 1..r :
              LET name == prepared.roots[i][1] IN
              /\ name \in MovedRoots(view, cell)
              /\ prepared.roots[i] = <<name, LatestVersion(view, name), Get(view.roots, name, None),
                                       cell.roots[name]>>
        /\ \A i, j \in 1..r : i < j => Rank[prepared.roots[i][1]] < Rank[prepared.roots[j][1]]
        /\ prepared.identity =
               compute_cell_identity(NewAtoms(view, cell), NewBonds(view, cell),
                                     {ChangeIdentity(prepared.roots[i]) : i \in 1..r})

LEMMA PreparedReads ==
    ASSUME NEW cell \in Cells, NEW view
    PROVE  CellReads(prepare_cell(view, cell), view, cell)
<1> DEFINE prepared == prepare_cell(view, cell)
           a == Len(prepared.atoms)
           b == Len(prepared.bonds)
           r == Len(prepared.roots)
<1>1. a \in Nat /\ b \in Nat /\ r \in Nat
  BY PreparedFinite
<1>2. /\ Lists(prepared.atoms, NewAtoms(view, cell))
      /\ a = Cardinality(NewAtoms(view, cell))
      /\ Lists(prepared.bonds, NewBondIds(view, cell))
  BY PreparedLists
<1>3. PICK names : ListsMoves(prepared.roots, names, view, cell)
  BY PreparedLists
<1>4. prepared.identity =
         compute_cell_identity(NewAtoms(view, cell), NewBonds(view, cell),
                               {ChangeIdentity(prepared.roots[i]) : i \in 1..r})
  <2> DEFINE moved == MovedRoots(view, cell)
             order == InOrder(moved)
             roots == [i \in 1..Cardinality(moved) |->
                         <<order[i], LatestVersion(view, order[i]),
                           Get(view.roots, order[i], None), cell.roots[order[i]]>>]
  <2>1. /\ prepared.roots = roots
        /\ prepared.identity =
              compute_cell_identity(NewAtoms(view, cell), NewBonds(view, cell),
                                    {ChangeIdentity(roots[i]) : i \in 1..Cardinality(moved)})
    BY DEF prepare_cell, MovedRoots
  <2>2. r = Cardinality(moved)
    <3>1. IsFiniteSet(moved)
      BY CellAssumption, FS_Subset DEF MovedRoots
    <3>2. Cardinality(moved) \in Nat
      BY <3>1, FS_CardinalityType
    <3>3. roots = [i \in 1..Cardinality(moved) |-> roots[i]]
      OBVIOUS
    <3> HIDE DEF roots, prepared, moved
    <3> QED
      BY <2>1, <3>2, <3>3, FirstList
  <2> HIDE DEF roots, prepared, moved
  <2> QED
    BY <2>1, <2>2
<1> HIDE DEF prepared
<1>5. /\ {prepared.atoms[i] : i \in 1..a} = NewAtoms(view, cell)
      /\ \A i \in 1..a : atom_identity(prepared.atoms[i][2]) = prepared.atoms[i]
      /\ \A i, j \in 1..a : i < j => prepared.atoms[i] # prepared.atoms[j]
  <2>1. \A i \in 1..a : prepared.atoms[i] \in NewAtoms(view, cell)
    BY <1>2 DEF Lists
  <2>2. \A id \in NewAtoms(view, cell) : atom_identity(id[2]) = id
    BY CellAssumption DEF NewAtoms
  <2> QED
    BY <1>2, <2>1, <2>2 DEF Lists
<1>6. \A i \in 1..b : /\ prepared.bonds[i][2] \in NewBonds(view, cell)
                      /\ prepared.bonds[i] = bond_identity(prepared.bonds[i][2])
  <2> SUFFICES ASSUME NEW i \in 1..b
               PROVE  /\ prepared.bonds[i][2] \in NewBonds(view, cell)
                      /\ prepared.bonds[i] = bond_identity(prepared.bonds[i][2])
    OBVIOUS
  <2>1. prepared.bonds[i] \in NewBondIds(view, cell)
    BY <1>2 DEF Lists
  <2>2. PICK bond \in NewBonds(view, cell) : prepared.bonds[i] = <<"bond", bond>>
    BY <2>1 DEF NewBondIds, bond_identity
  <2> QED
    BY <2>2 DEF bond_identity
<1>7. {prepared.bonds[i][2] : i \in 1..b} = NewBonds(view, cell)
  <2>1. ASSUME NEW bond \in NewBonds(view, cell) PROVE \E i \in 1..b : prepared.bonds[i][2] = bond
    <3>1. bond_identity(bond) \in NewBondIds(view, cell)
      BY DEF NewBondIds
    <3>2. PICK i \in 1..b : prepared.bonds[i] = bond_identity(bond)
      BY <1>2, <3>1 DEF Lists
    <3> QED
      BY <3>2 DEF bond_identity
  <2> QED
    BY <1>6, <2>1
<1>8. \A i, j \in 1..b : i < j => prepared.bonds[i][2] # prepared.bonds[j][2]
  <2>1. \A i, j \in 1..b : i < j => prepared.bonds[i] # prepared.bonds[j]
    BY <1>2 DEF Lists
  <2> QED
    BY <1>6, <2>1
<1>9. \A i \in 1..r :
         /\ i \in 1..Len(names) /\ names[i] \in MovedRoots(view, cell)
         /\ prepared.roots[i] = <<names[i], LatestVersion(view, names[i]),
                                  Get(view.roots, names[i], None), cell.roots[names[i]]>>
         /\ prepared.roots[i][1] = names[i]
  BY <1>3 DEF ListsMoves, Lists
<1>10. \A i, j \in 1..r : i < j => Rank[prepared.roots[i][1]] < Rank[prepared.roots[j][1]]
  <2>1. \A i, j \in 1..Len(names) : i < j => Rank[names[i]] < Rank[names[j]]
    BY <1>3 DEF ListsMoves
  <2> QED
    BY <1>9, <2>1
<1> HIDE DEF a, b, r
<1> QED
  BY <1>1, <1>2, <1>4, <1>5, <1>7, <1>8, <1>9, <1>10 DEF CellReads, prepared, a, b, r

(* What the open cell has read. *)
OpenReads(c, prepared, sequence, at, x, y, z) ==
    /\ c.open /\ c.start = at /\ c.meta = CellMeta(prepared)
    /\ DOMAIN c.atoms = {prepared.atoms[i] : i \in 1..x}
    /\ \A id \in DOMAIN c.atoms : c.atoms[id] = at + (1 + AtomPlace(prepared, id))
    /\ IsSeq(c.bonds) /\ Len(c.bonds) = y /\ \A i \in 1..y : c.bonds[i] = prepared.bonds[i][2]
    /\ IsSeq(c.roots) /\ Len(c.roots) = z
    /\ \A i \in 1..z :
          c.roots[i] = [change |-> prepared.roots[i],
                        sequence |-> RootNumber(prepared, sequence, i)]

LEMMA OpenHas ==
    ASSUME NEW prepared, NEW sequence, NEW at, NEW x, NEW y, NEW z,
           x \in Nat, y \in Nat, z \in Nat
    PROVE  OpenReads(OpenCell(prepared, sequence, at, x, y, z), prepared, sequence, at, x, y, z)
<1> DEFINE c == OpenCell(prepared, sequence, at, x, y, z)
           m == CellMeta(prepared)
           yes == TRUE
           A == [id \in {prepared.atoms[i] : i \in 1..x} |-> at + (1 + AtomPlace(prepared, id))]
           B == [i \in 1..y |-> prepared.bonds[i][2]]
           one(i) == [change |-> prepared.roots[i],
                      sequence |-> RootNumber(prepared, sequence, i)]
           R == [i \in 1..z |-> one(i)]
<1>1. c = [open |-> yes, start |-> at, meta |-> m, atoms |-> A, bonds |-> B, roots |-> R]
  BY Zenon DEF OpenCell
<1>2. IsSeq(B) /\ Len(B) = y /\ \A i \in 1..y : B[i] = prepared.bonds[i][2]
  <2>1. B = [i \in 1..y |-> B[i]] /\ \A i \in 1..y : B[i] = prepared.bonds[i][2]
    OBVIOUS
  <2> HIDE DEF B
  <2> QED
    BY <2>1, FirstList
<1>3. IsSeq(R) /\ Len(R) = z /\ \A i \in 1..z : R[i] = one(i)
  <2> HIDE DEF one
  <2>1. R = [i \in 1..z |-> R[i]] /\ \A i \in 1..z : R[i] = one(i)
    OBVIOUS
  <2> HIDE DEF R
  <2> QED
    BY <2>1, FirstList
<1>4. /\ DOMAIN A = {prepared.atoms[i] : i \in 1..x}
      /\ \A id \in DOMAIN A : A[id] = at + (1 + AtomPlace(prepared, id))
  OBVIOUS
<1> HIDE DEF c, m, yes, A, B, R, one
<1>5. /\ c.open = yes /\ c.start = at /\ c.meta = m /\ c.atoms = A /\ c.bonds = B /\ c.roots = R
  BY <1>1
<1> QED
  BY <1>2, <1>3, <1>4, <1>5 DEF OpenReads, yes, m, one, c

LEMMA AtomBalances ==
    ASSUME NEW prepared, NEW view, NEW cell, CellReads(prepared, view, cell),
           NEW sequence, NEW at, NEW i \in Nat, i > 0, i <= Len(prepared.atoms),
           NEW frame, frame.kind = "atom", frame.payload = <<prepared.atoms[i][2]>>
    PROVE  FrameBalances(view, OpenCell(prepared, sequence, at, i - 1, 0, 0), frame)
<1> DEFINE c == OpenCell(prepared, sequence, at, i - 1, 0, 0)
           a == Len(prepared.atoms)
<1>1. i - 1 \in Nat /\ 0 \in Nat
  OBVIOUS
<1>2. DOMAIN c.atoms = {prepared.atoms[l] : l \in 1..(i - 1)}
  <2>1. OpenReads(c, prepared, sequence, at, i - 1, 0, 0)
    BY <1>1, OpenHas
  <2> QED
    BY <2>1 DEF OpenReads
<1>3. a \in Nat /\ i \in 1..a /\ \A l \in 1..(i - 1) : l \in 1..a /\ l < i
  BY DEF CellReads
<1> HIDE DEF c
<1>4. atom_identity(frame.payload[1]) = prepared.atoms[i]
  BY <1>3 DEF CellReads
<1>5. prepared.atoms[i] \in NewAtoms(view, cell)
  BY <1>3 DEF CellReads
<1>6. prepared.atoms[i] \notin DOMAIN c.atoms
  <2>1. \A l \in 1..(i - 1) : prepared.atoms[l] # prepared.atoms[i]
    BY <1>3 DEF CellReads
  <2> QED
    BY <1>2, <2>1
<1> QED
  BY <1>4, <1>5, <1>6 DEF FrameBalances, NewAtoms, c

LEMMA BondBalances ==
    ASSUME NEW prepared, NEW view, NEW cell, CellReads(prepared, view, cell),
           NEW sequence, NEW at, NEW x \in Nat, NEW i \in Nat, i > 0, i <= Len(prepared.bonds),
           NEW frame, frame.kind = "bond", frame.payload = prepared.bonds[i][2]
    PROVE  FrameBalances(view, OpenCell(prepared, sequence, at, x, i - 1, 0), frame)
<1> DEFINE c == OpenCell(prepared, sequence, at, x, i - 1, 0)
           b == Len(prepared.bonds)
<1>1. i - 1 \in Nat /\ 0 \in Nat
  OBVIOUS
<1>2. /\ c.open /\ IsSeq(c.bonds) /\ Len(c.bonds) = i - 1
      /\ \A l \in 1..(i - 1) : c.bonds[l] = prepared.bonds[l][2]
  <2>1. OpenReads(c, prepared, sequence, at, x, i - 1, 0)
    BY <1>1, OpenHas
  <2> HIDE DEF c
  <2> QED
    BY <2>1 DEF OpenReads
<1>3. b \in Nat /\ i \in 1..b /\ \A l \in 1..(i - 1) : l \in 1..b /\ l < i
  BY DEF CellReads
<1> HIDE DEF c
<1>4. prepared.bonds[i][2] \in NewBonds(view, cell)
  BY <1>3 DEF CellReads
<1>5. frame.payload \notin ToSet(c.bonds)
  <2>1. \A l \in 1..(i - 1) : prepared.bonds[l][2] # prepared.bonds[i][2]
    BY <1>3 DEF CellReads
  <2>2. DOMAIN c.bonds = 1..(i - 1)
    BY <1>2 DEF IsSeq
  <2> QED
    BY <1>2, <2>1, <2>2 DEF ToSet
<1> QED
  BY <1>2, <1>4, <1>5 DEF FrameBalances, NewBonds, c
LEMMA CommitBalances ==
    ASSUME NEW prepared, NEW view, NEW cell, CellReads(prepared, view, cell),
           CellAdmissible(view, cell), NEW sequence, NEW at,
           NEW frame, frame.kind = "commit", frame.payload = CellMeta(prepared)
    PROVE  FrameBalances(view, OpenCell(prepared, sequence, at, Len(prepared.atoms),
                                        Len(prepared.bonds), Len(prepared.roots)), frame)
<1> DEFINE a == Len(prepared.atoms)
           b == Len(prepared.bonds)
           r == Len(prepared.roots)
           c == OpenCell(prepared, sequence, at, a, b, r)
           known == DOMAIN view.atoms \cup DOMAIN c.atoms
           new == NewAtoms(view, cell)
<1>1. a \in Nat /\ b \in Nat /\ r \in Nat /\ a = Cardinality(new)
      /\ {prepared.atoms[i] : i \in 1..a} = new
  BY DEF CellReads
<1>2. OpenReads(c, prepared, sequence, at, a, b, r)
  <2> HIDE DEF a, b, r
  <2> QED
    BY <1>1, OpenHas
<1> HIDE DEF c
<1>3. /\ c.open /\ c.meta = CellMeta(prepared) /\ DOMAIN c.atoms = new
      /\ IsSeq(c.bonds) /\ Len(c.bonds) = b /\ DOMAIN c.bonds = 1..b
      /\ \A i \in 1..b : c.bonds[i] = prepared.bonds[i][2]
      /\ Len(c.roots) = r
      /\ \A i \in 1..r : c.roots[i].change = prepared.roots[i]
  <2>1. /\ c.open /\ c.meta = CellMeta(prepared) /\ DOMAIN c.atoms = {prepared.atoms[i] : i \in 1..a}
        /\ IsSeq(c.bonds) /\ Len(c.bonds) = b /\ \A i \in 1..b : c.bonds[i] = prepared.bonds[i][2]
        /\ Len(c.roots) = r
        /\ \A i \in 1..r : c.roots[i] = [change |-> prepared.roots[i], sequence |-> RootNumber(prepared, sequence, i)]
    <3> HIDE DEF a, b, r
    <3> QED
      BY <1>2 DEF OpenReads
  <2> HIDE DEF a, b, r
  <2>2. DOMAIN c.bonds = 1..b
    BY <2>1 DEF IsSeq
  <2>3. \A i \in 1..r : c.roots[i].change = prepared.roots[i]
    <3>1. \A x, y : [change |-> x, sequence |-> y].change = x
      OBVIOUS
    <3>2. \A i \in 1..r : c.roots[i] = [change |-> prepared.roots[i], sequence |-> RootNumber(prepared, sequence, i)]
      BY <2>1
    <3> QED
      BY <3>1, <3>2, Zenon
  <2> QED
    BY <1>1, <2>1, <2>2, <2>3
<1>4. {c.bonds[i] : i \in 1..b} = NewBonds(view, cell) /\ ToSet(c.bonds) = NewBonds(view, cell)
  <2>1. {prepared.bonds[i][2] : i \in 1..b} = NewBonds(view, cell)
    BY DEF CellReads
  <2> HIDE DEF b
  <2>2. {c.bonds[i] : i \in 1..b} = NewBonds(view, cell)
    BY <1>3, <2>1
  <2> QED
    BY <1>3, <2>2 DEF ToSet
<1>5. DOMAIN view.atoms \cup new = DOMAIN view.atoms \cup cell.atoms
  BY DEF NewAtoms, contains_atom
<1>6. known = DOMAIN view.atoms \cup cell.atoms
  BY <1>3, <1>5
<1>7. <<Cardinality(DOMAIN c.atoms), Len(c.bonds), Len(c.roots)>> = <<c.meta[2], c.meta[3], c.meta[4]>>
  BY <1>1, <1>3 DEF CellMeta
<1>8. \A i \in DOMAIN c.bonds : validate_bond_members(view, c.bonds[i], DOMAIN c.atoms)
  <2> SUFFICES ASSUME NEW i \in 1..b PROVE validate_bond_members(view, c.bonds[i], DOMAIN c.atoms)
    BY <1>3
  <2>1. c.bonds[i] \in NewBonds(view, cell)
    BY <1>4
  <2>2. {c.bonds[i][1], c.bonds[i][2], c.bonds[i][3]} \subseteq known
    BY <1>6, <2>1 DEF CellAdmissible
  <2> QED
    BY <2>2 DEF validate_bond_members, contains_atom
<1>9. ASSUME NEW i \in 1..r
      PROVE  LET change == c.roots[i].change IN
             /\ i > 1 => Rank[c.roots[i - 1].change[1]] < Rank[change[1]]
             /\ change[1] \in known
             /\ \/ change[4] = None
                \/ change[4] \in known
                \/ contains_fact(view, change[4])
                \/ \E j \in DOMAIN c.bonds : change[4] = bond_identity(c.bonds[j])
             /\ Get(view.roots, change[1], None) = change[3]
             /\ LatestVersion(view, change[1]) = change[2]
  <2> DEFINE change == prepared.roots[i]
             name == change[1]
             target == cell.roots[name]
  <2>1. /\ name \in MovedRoots(view, cell)
        /\ change = <<name, LatestVersion(view, name), Get(view.roots, name, None), target>>
    BY DEF CellReads
  <2>2. name \in DOMAIN cell.roots
    BY <2>1 DEF MovedRoots
  <2>3. name \in known /\ target \in known \cup {bond_identity(bond) : bond \in view.bonds \cup cell.bonds} \cup {None}
    BY <1>6, <2>2 DEF CellAdmissible
  <2> HIDE DEF name, target, change, known
  <2>4. \/ target = None
        \/ target \in known
        \/ contains_fact(view, target)
        \/ \E j \in DOMAIN c.bonds : target = bond_identity(c.bonds[j])
    <3>1. CASE target \in known \/ target = None
      BY <3>1
    <3>2. CASE \E bond \in view.bonds : target = bond_identity(bond)
      BY <3>2 DEF contains_fact
    <3>3. CASE \E bond \in cell.bonds \ view.bonds : target = bond_identity(bond)
      BY <1>3, <1>4, <3>3 DEF NewBonds
    <3> QED
      BY <2>3, <3>1, <3>2, <3>3
  <2>5. ASSUME i > 1 PROVE Rank[c.roots[i - 1].change[1]] < Rank[name]
    <3>1. i - 1 \in 1..r /\ i - 1 < i
      BY <1>1, <2>5
    <3> HIDE DEF r
    <3>2. c.roots[i - 1].change = prepared.roots[i - 1]
      BY <1>3, <3>1
    <3>3. Rank[prepared.roots[i - 1][1]] < Rank[prepared.roots[i][1]]
      BY <3>1 DEF CellReads, r
    <3> QED
      BY <3>2, <3>3 DEF name, change
  <2>6. c.roots[i].change = change
    BY <1>3 DEF change
  <2>7. /\ change[1] = name /\ change[2] = LatestVersion(view, name)
        /\ change[3] = Get(view.roots, name, None) /\ change[4] = target
    BY <2>1
  <2> QED
    BY <2>3, <2>4, <2>5, <2>6, <2>7
<1>10. compute_cell_identity(DOMAIN c.atoms, ToSet(c.bonds),
                             {ChangeIdentity(c.roots[i].change) : i \in 1..r}) = c.meta[1]
  <2>1. {ChangeIdentity(c.roots[i].change) : i \in 1..r} =
           {ChangeIdentity(prepared.roots[i]) : i \in 1..r}
    BY <1>3
  <2>2. c.meta[1] = prepared.identity
    BY <1>3 DEF CellMeta
  <2> QED
    BY <1>3, <1>4, <2>1, <2>2 DEF CellReads
<1> HIDE DEF known
<1>11. CellBalances(view, c)
  <2>1. Len(c.roots) = r
    BY <1>3
  <2> HIDE DEF r
  <2> QED
    BY <1>7, <1>8, <1>9, <1>10, <2>1 DEF CellBalances, known
<1> QED
  BY <1>3, <1>11 DEF FrameBalances, c, a, b, r

LEMMA RunsAgree ==
    ASSUME NEW N \in Nat, NEW g, NEW h, NEW base, NEW e, NEW d,
           IsRun(g, N, base, e), IsRun(h, N, base, d), \A k \in 1..N : e[k] = d[k]
    PROVE  g[N] = h[N]
<1> DEFINE T == {k \in 0..N : g[k] = h[k]}
<1>1. 0 \in T
  BY DEF IsRun
<1>2. ASSUME NEW k \in 0..N, k \in T, k < N PROVE k + 1 \in T
  <2>1. k + 1 \in 1..N /\ k + 1 \in 0..N /\ (k + 1) - 1 = k /\ g[k] = h[k]
    BY <1>2
  <2>2. g[k + 1] = Effect(g[k], e[k + 1]) /\ h[k + 1] = Effect(h[k], d[k + 1])
    BY <2>1 DEF IsRun
  <2> QED
    BY <2>1, <2>2
<1> HIDE DEF T
<1>3. \A k \in 0..N : k \in T
  BY <1>1, <1>2, InductionUpTo
<1> QED
  BY <1>3 DEF T

(* An atom that a cell takes and then adds to the index is added to it. *)
LEMMA WithAtomsGrows ==
    ASSUME NEW view, IsIndex(view), NEW c, NEW e, NEW id, NEW location,
           e.atoms = Insert(c.atoms, id, location)
    PROVE  WithAtoms(view, e) = InsertAtom(WithAtoms(view, c), id, location)
<1> DEFINE A == [x \in DOMAIN view.atoms \cup DOMAIN c.atoms |->
                    IF x \in DOMAIN c.atoms THEN c.atoms[x] ELSE view.atoms[x]]
           E == [x \in DOMAIN view.atoms \cup DOMAIN e.atoms |->
                    IF x \in DOMAIN e.atoms THEN e.atoms[x] ELSE view.atoms[x]]
<1>1. "atoms" \in DOMAIN view
  BY DEF IsIndex, EmptyIndex
<1>2. WithAtoms(view, c) = [view EXCEPT !.atoms = A] /\ WithAtoms(view, e) = [view EXCEPT !.atoms = E]
  BY DEF WithAtoms
<1>3. Insert(A, id, location) = E
  BY DEF Insert
<1> HIDE DEF A, E
<1>4. InsertAtom(WithAtoms(view, c), id, location) = [view EXCEPT !.atoms = Insert(A, id, location)]
  BY <1>1, <1>2 DEF InsertAtom
<1> QED
  BY <1>2, <1>3, <1>4

LEMMA WithNoAtoms ==
    ASSUME NEW view, IsIndex(view), NEW c, DOMAIN c.atoms = {}
    PROVE  WithAtoms(view, c) = view
<1> DEFINE A == [x \in DOMAIN view.atoms \cup DOMAIN c.atoms |->
                    IF x \in DOMAIN c.atoms THEN c.atoms[x] ELSE view.atoms[x]]
<1>1. WithAtoms(view, c) = [view EXCEPT !.atoms = A]
  BY DEF WithAtoms
<1>2. A = view.atoms
  BY DEF IsIndex, IsMap
<1> HIDE DEF A
<1> QED
  BY <1>1, <1>2 DEF IsIndex, IsMap

LEMMA WithSameAtoms ==
    ASSUME NEW view, NEW c, NEW e, c.atoms = e.atoms
    PROVE  WithAtoms(view, c) = WithAtoms(view, e)
  BY DEF WithAtoms

-----------------------------------------------------------------------------
(* The replay: recovery ends with the index that the writer has. *)

(* The writer adds the facts of a cell to its index one frame after the    *)
(* other, a recovery all at once: in the end they have the same index.     *)
LEMMA CellWritten ==
    ASSUME NEW cell \in Cells, NEW view, IsIndex(view), NEW sequence \in Nat, NEW at \in Nat
    PROVE  LET prepared == prepare_cell(view, cell)
               frames == CellFrames(prepared, sequence)
               c == OpenCell(prepared, sequence, at, Len(prepared.atoms), Len(prepared.bonds),
                             Len(prepared.roots))
           IN  ApplyCell(view, c, sequence + Len(frames) - 1) = ApplyCommitted(view, frames, at)
<1> DEFINE prepared == prepare_cell(view, cell)
           frames == CellFrames(prepared, sequence)
           a == Len(prepared.atoms)
           b == Len(prepared.bonds)
           r == Len(prepared.roots)
           n == a + b + r + 2
           c == OpenCell(prepared, sequence, at, a, b, r)
           e == [i \in 1..n |-> FrameEffect(frames, at, i)]
           stamp == sequence + n - 1
<1>1. CellReads(prepared, view, cell)
  BY PreparedReads
<1>2. CellTold(frames, prepared, sequence, at)
  BY CellEffects
<1>0. n = a + b + r + 2
  OBVIOUS
<1> HIDE DEF prepared, frames, a, b, r, n, c, stamp
<1>3. a \in Nat /\ b \in Nat /\ r \in Nat /\ n \in Nat /\ IsSeq(frames) /\ Len(frames) = n
  <2>1. a \in Nat /\ b \in Nat /\ r \in Nat
    BY <1>1 DEF CellReads, a, b, r
  <2>2. IsSeq(frames) /\ Len(frames) = n
    BY <1>2 DEF CellTold, a, b, r, n
  <2> QED
    BY <1>0, <2>1, <2>2
<1>4. PICK g : IsRun(g, n, view, e) /\ ApplyCommitted(view, frames, at) = g[n]
  BY <1>3, CommittedRuns
<1>5. /\ e[1] = <<"none">>
      /\ \A i \in 1..a : e[1 + i] = <<"atom", prepared.atoms[i], at + (1 + i)>>
      /\ \A i \in 1..b : e[1 + a + i] = <<"bond", prepared.bonds[i][2]>>
      /\ \A i \in 1..r : e[1 + a + b + i] =
             <<"root", prepared.roots[i], sequence + (1 + a + b + i) - 1, stamp, prepared.identity>>
      /\ e[n] = <<"commit">>
  <2>1. /\ 1 \in 1..n /\ n \in 1..n
        /\ \A i \in 1..a : 1 + i \in 1..n
        /\ \A i \in 1..b : 1 + a + i \in 1..n
        /\ \A i \in 1..r : 1 + a + b + i \in 1..n
    BY <1>0, <1>3
  <2>2. \A i \in 1..n : e[i] = FrameEffect(frames, at, i)
    OBVIOUS
  <2>3. \A i \in 1..a : atom_identity(prepared.atoms[i][2]) = prepared.atoms[i]
    BY <1>1 DEF CellReads, a
  <2>4. /\ FrameEffect(frames, at, 1) = <<"none">>
        /\ \A i \in 1..a : FrameEffect(frames, at, 1 + i) =
               <<"atom", atom_identity(prepared.atoms[i][2]), at + (1 + i)>>
        /\ \A i \in 1..b : FrameEffect(frames, at, 1 + a + i) = <<"bond", prepared.bonds[i][2]>>
        /\ \A i \in 1..r : FrameEffect(frames, at, 1 + a + b + i) =
               <<"root", prepared.roots[i], sequence + (1 + a + b + i) - 1, stamp, prepared.identity>>
        /\ FrameEffect(frames, at, n) = <<"commit">>
    BY <1>2 DEF CellTold, a, b, r, n, stamp
  <2> HIDE DEF e
  <2> QED
    BY <2>1, <2>2, <2>3, <2>4
<1>6. OpenReads(c, prepared, sequence, at, a, b, r)
  BY <1>3, OpenHas DEF c
<1> HIDE DEF e
(* the atoms *)
<1> DEFINE O(i) == OpenCell(prepared, sequence, at, i, 0, 0)
           T == {k \in 0..a : g[1 + k] = WithAtoms(view, O(k))}
<1>7. ASSUME NEW i \in Nat, i <= a
      PROVE  DOMAIN O(i).atoms = {prepared.atoms[l] : l \in 1..i}
             /\ \A id \in DOMAIN O(i).atoms : O(i).atoms[id] = at + (1 + AtomPlace(prepared, id))
  <2>1. OpenReads(O(i), prepared, sequence, at, i, 0, 0)
    BY <1>7, OpenHas
  <2> HIDE DEF O
  <2> QED
    BY <2>1 DEF OpenReads
<1>8. 0 \in T
  <2>1. 1 \in 1..n /\ 1 - 1 = 0 /\ 1 + 0 = 1 /\ 1..0 = {} /\ 0 \in 0..a /\ 0 \in Nat /\ 0 <= a
    BY <1>0, <1>3
  <2>2. g[0] = view /\ g[1] = Effect(g[0], e[1])
    BY <1>4, <2>1 DEF IsRun
  <2>3. g[1] = view
    BY <1>5, <2>2 DEF Effect
  <2>4. DOMAIN O(0).atoms = {}
    BY <1>7, <2>1
  <2> HIDE DEF O
  <2>5. WithAtoms(view, O(0)) = view
    BY <2>4, WithNoAtoms
  <2> QED
    BY <2>1, <2>3, <2>5
<1>9. ASSUME NEW k \in 0..a, k \in T, k < a PROVE k + 1 \in T
  <2> DEFINE i == k + 1
  <2>1. /\ i \in Nat /\ i > 0 /\ i <= a /\ i - 1 = k /\ i \in 1..a /\ i \in 0..a
        /\ 1 + i \in 1..n /\ (1 + i) - 1 = 1 + k
    BY <1>0, <1>3, <1>9
  <2> HIDE DEF i
  <2>2. g[1 + i] = Effect(g[1 + k], e[1 + i])
    BY <1>4, <2>1 DEF IsRun
  <2>3. g[1 + i] = InsertAtom(WithAtoms(view, O(k)), prepared.atoms[i], at + (1 + i))
    <3>1. e[1 + i] = <<"atom", prepared.atoms[i], at + (1 + i)>>
      BY <1>5, <2>1
    <3> QED
      BY <1>9, <2>2, <3>1 DEF Effect
  <2>4. O(i).atoms = Insert(O(k).atoms, prepared.atoms[i], at + (1 + i))
    <3>1. i <= Len(prepared.atoms) /\ Len(prepared.atoms) \in Nat
      BY <1>3, <2>1 DEF a
    <3>2. \A x, y \in 1..Len(prepared.atoms) : x < y => prepared.atoms[x] # prepared.atoms[y]
      BY <1>1 DEF CellReads
    <3> DEFINE z == OpenCell(prepared, sequence, at, i - 1, 0, 0)
    <3>3. AtomTaken(O(i), z, prepared.atoms[i], at + (1 + i))
      BY <2>1, <3>1, <3>2, OpenAtomsGrow
    <3>4. z = O(k) /\ "atoms" \in DOMAIN z
      BY <2>1 DEF OpenCell
    <3> HIDE DEF z, O
    <3> QED
      BY <3>3, <3>4 DEF AtomTaken
  <2> HIDE DEF O
  <2>5. WithAtoms(view, O(i)) = InsertAtom(WithAtoms(view, O(k)), prepared.atoms[i], at + (1 + i))
    BY <2>4, WithAtomsGrows
  <2> QED
    BY <2>1, <2>3, <2>5 DEF i
<1>10. g[1 + a] = WithAtoms(view, c)
  <2> HIDE DEF T, O
  <2>1. \A k \in 0..a : k \in T
    BY <1>3, <1>8, <1>9, InductionUpTo
  <2>2. g[1 + a] = WithAtoms(view, O(a))
    BY <1>3, <2>1 DEF T
  <2>3. O(a).atoms = c.atoms
    BY DEF O, c, OpenCell
  <2>4. WithAtoms(view, O(a)) = WithAtoms(view, c)
    BY <2>3, WithSameAtoms
  <2> QED
    BY <2>2, <2>4
<1> HIDE DEF T, O
(* the bonds *)
<1>11. /\ IsSeq(c.bonds) /\ Len(c.bonds) = b /\ IsSeq(c.roots) /\ Len(c.roots) = r
       /\ c.meta[1] = prepared.identity
       /\ \A i \in 1..b : c.bonds[i] = prepared.bonds[i][2]
       /\ \A i \in 1..r : c.roots[i] = [change |-> prepared.roots[i],
                                        sequence |-> sequence + (1 + a + b + i) - 1]
  <2>1. /\ IsSeq(c.bonds) /\ Len(c.bonds) = b /\ IsSeq(c.roots) /\ Len(c.roots) = r
        /\ c.meta = CellMeta(prepared)
        /\ \A i \in 1..b : c.bonds[i] = prepared.bonds[i][2]
        /\ \A i \in 1..r : c.roots[i] =
              [change |-> prepared.roots[i],
               sequence |-> RootNumber(prepared, sequence, i)]
    BY <1>6 DEF OpenReads
  <2>2. c.meta[1] = prepared.identity
    BY <2>1 DEF CellMeta
  <2> QED
    BY <2>1, <2>2 DEF a, b, RootNumber
<1>12. PICK f, h :
         /\ IsRun(f, b, WithAtoms(view, c), BondEffects(c))
         /\ IsRun(h, r, f[b], RootEffects(c, stamp))
         /\ ApplyCell(view, c, stamp) = CellCounted(h[r])
  <2>1. \E f, h :
           /\ IsRun(f, Len(c.bonds), WithAtoms(view, c), BondEffects(c))
           /\ IsRun(h, Len(c.roots), f[Len(c.bonds)], RootEffects(c, stamp))
           /\ ApplyCell(view, c, stamp) = CellCounted(h[Len(c.roots)])
    <3>1. IsSeq(c.bonds) /\ IsSeq(c.roots)
      BY <1>11
    <3> QED
      BY <3>1, CellRuns, Zenon
  <2> QED
    BY <1>11, <2>1
<1>13. g[1 + a + b] = f[b]
  <2> DEFINE k0 == 1 + a
             s == [k \in 0..b |-> g[k0 + k]]
             d == [k \in 1..b |-> e[k0 + k]]
  <2>1. k0 \in Nat /\ k0 + b <= n
    BY <1>0, <1>3
  <2>2. s[b] = g[1 + a + b]
    BY <1>3
  <2>3. \A k \in 1..b : d[k] = BondEffects(c)[k]
    <3>1. \A k \in 1..b : BondEffects(c)[k] = <<"bond", c.bonds[k]>>
      BY <1>11 DEF BondEffects
    <3>2. \A k \in 1..b : d[k] = <<"bond", prepared.bonds[k][2]>>
      BY <1>5
    <3> HIDE DEF d
    <3> QED
      BY <1>11, <3>1, <3>2
  <2>4. (\A k \in 0..b : s[k] = g[k0 + k]) /\ (\A k \in 1..b : d[k] = e[k0 + k])
    OBVIOUS
  <2> HIDE DEF k0, s, d
  <2>5. IsRun(s, b, g[k0], d)
    BY <1>3, <1>4, <2>1, <2>4, RunSegment
  <2>6. IsRun(s, b, WithAtoms(view, c), d)
    BY <1>10, <2>5 DEF k0
  <2>7. s[b] = f[b]
    BY <1>3, <1>12, <2>3, <2>6, RunsAgree
  <2> QED
    BY <2>2, <2>7
(* the roots *)
<1>14. g[1 + a + b + r] = h[r]
  <2> DEFINE k0 == 1 + a + b
             s == [k \in 0..r |-> g[k0 + k]]
             d == [k \in 1..r |-> e[k0 + k]]
  <2>1. k0 \in Nat /\ k0 + r <= n
    BY <1>0, <1>3
  <2>2. s[r] = g[1 + a + b + r]
    BY <1>3
  <2>3. \A k \in 1..r : d[k] = RootEffects(c, stamp)[k]
    <3>1. \A k \in 1..r : RootEffects(c, stamp)[k] =
             <<"root", c.roots[k].change, c.roots[k].sequence, stamp, c.meta[1]>>
      BY <1>11 DEF RootEffects
    <3>2. \A k \in 1..r : d[k] =
             <<"root", prepared.roots[k], sequence + (1 + a + b + k) - 1, stamp, prepared.identity>>
      BY <1>5
    <3> DEFINE number(k) == sequence + (1 + a + b + k) - 1
    <3>3. \A k \in 1..r : c.roots[k] = [change |-> prepared.roots[k], sequence |-> number(k)]
      BY <1>11
    <3>4. \A k \in 1..r : d[k] = <<"root", prepared.roots[k], number(k), stamp, prepared.identity>>
      BY <3>2
    <3> HIDE DEF d, number
    <3>6. \A k \in 1..r : c.roots[k].change = prepared.roots[k] /\ c.roots[k].sequence = number(k)
      <4> SUFFICES ASSUME NEW k \in 1..r
                   PROVE  c.roots[k].change = prepared.roots[k] /\ c.roots[k].sequence = number(k)
        OBVIOUS
      <4>1. c.roots[k] = [change |-> prepared.roots[k], sequence |-> number(k)]
        BY <3>3
      <4> QED
        BY <4>1
    <3>7. c.meta[1] = prepared.identity
      BY <1>11
    <3> HIDE DEF c, stamp
    <3> QED
      BY <3>1, <3>4, <3>6, <3>7
  <2>4. (\A k \in 0..r : s[k] = g[k0 + k]) /\ (\A k \in 1..r : d[k] = e[k0 + k])
    OBVIOUS
  <2> HIDE DEF k0, s, d
  <2>5. IsRun(s, r, g[k0], d)
    BY <1>3, <1>4, <2>1, <2>4, RunSegment
  <2>6. IsRun(s, r, f[b], d)
    BY <1>13, <2>5 DEF k0
  <2>7. s[r] = h[r]
    BY <1>3, <1>12, <2>3, <2>6, RunsAgree
  <2> QED
    BY <2>2, <2>7
(* the commit *)
<1>15. g[n] = CellCounted(h[r])
  <2>1. n \in 1..n /\ n - 1 = 1 + a + b + r
    BY <1>0, <1>3
  <2>2. g[n] = Effect(g[n - 1], e[n])
    BY <1>4, <2>1 DEF IsRun
  <2> QED
    BY <1>5, <1>14, <2>1, <2>2 DEF Effect, CellCounted
<1>16. ApplyCell(view, c, stamp) = ApplyCommitted(view, frames, at)
  BY <1>4, <1>12, <1>15
<1> QED
  BY <1>3, <1>16 DEF stamp, c, frames, prepared, a, b, r, n

-----------------------------------------------------------------------------
(* The replay: what is written. *)

LEMMA StateHas == ASSUME NEW view, NEW cell PROVE State(view, cell).db = view /\ State(view, cell).cell = cell
  BY DEF State

LEMMA OpenSteps ==
    ASSUME NEW view, NEW c, c.open, NEW frame, frame.kind \in {"atom", "bond", "root"},
           FrameBalances(view, c, frame), NEW number, NEW e, CellAfter(c, frame, number) = e
    PROVE  FrameSteps(State(view, c), frame, number, State(view, e))
<1>1. IndexAfter(view, c, frame, number) = view
  BY DEF IndexAfter
<1> QED
  BY <1>1, StateHas DEF FrameSteps

(* A single fact. *)
LEMMA SinglePlan ==
    ASSUME NEW view, NEW frame, frame.kind \in {"atom", "bond"}, FrameBalances(view, NoCell, frame),
           NEW j, j.frames = <<frame>>, j.start \in Nat
    PROVE  \E k : Plan(k, view, j)
<1> DEFINE new == Committed(view, j)
           k == <<State(view, NoCell), State(new, NoCell)>>
<1>1. new = IndexAfter(view, NoCell, frame, j.start + 1)
  <2>1. j.frames[1] = frame
    OBVIOUS
  <2>2. CASE frame.kind = "atom"
    BY <2>1, <2>2, Zenon DEF Committed, IndexAfter, NoCell
  <2>3. CASE frame.kind = "bond"
    BY <2>1, <2>3, Zenon DEF Committed, IndexAfter, NoCell
  <2> QED
    BY <2>2, <2>3
<1>2. CellAfter(NoCell, frame, j.start + 1) = NoCell
  BY DEF CellAfter, NoCell
<1>3. IsSeq(k) /\ Len(k) = 2 /\ k[1] = State(view, NoCell) /\ k[2] = State(new, NoCell)
  <2> HIDE DEF new
  <2> QED
    BY DEF IsSeq
<1>4. FrameSteps(State(view, NoCell), frame, j.start + 1, State(new, NoCell))
  <2> HIDE DEF new
  <2> QED
    BY <1>1, <1>2, StateHas DEF FrameSteps
<1> HIDE DEF k
<1>5. Len(j.frames) = 1 /\ j.frames[1] = frame
  OBVIOUS
<1>6. \A i \in 1..1 : i = 1 /\ i + 1 = 2
  OBVIOUS
<1>7. \A i \in 1..Len(j.frames) : FrameSteps(k[i], j.frames[i], j.start + i, k[i + 1])
  BY <1>3, <1>4, <1>5, <1>6
<1>8. Plan(k, view, j)
  BY <1>3, <1>5, <1>7 DEF Plan, new
<1> QED
  BY <1>8

(* A cell: what recovery has before and after each of its frames. *)
CellStory(prepared, view, sequence, at, after) ==
    LET a == Len(prepared.atoms)
        b == Len(prepared.bonds)
        r == Len(prepared.roots)
        S(x, y, z) == State(view, OpenCell(prepared, sequence, at, x, y, z))
    IN  [i \in 1..(a + b + r + 3) |->
            IF i = 1 THEN State(view, NoCell)
            ELSE IF i <= 2 + a THEN S(i - 2, 0, 0)
            ELSE IF i <= 2 + a + b THEN S(a, i - 2 - a, 0)
            ELSE IF i <= 2 + a + b + r THEN S(a, b, i - 2 - a - b)
            ELSE State(after, NoCell)]

StoryTold(k, prepared, view, sequence, at, after) ==
    LET a == Len(prepared.atoms)
        b == Len(prepared.bonds)
        r == Len(prepared.roots)
        S(x, y, z) == State(view, OpenCell(prepared, sequence, at, x, y, z))
    IN  /\ IsSeq(k) /\ Len(k) = a + b + r + 3
        /\ k[1] = State(view, NoCell)
        /\ \A i \in 0..a : k[2 + i] = S(i, 0, 0)
        /\ \A i \in 0..b : k[2 + a + i] = S(a, i, 0)
        /\ \A i \in 0..r : k[2 + a + b + i] = S(a, b, i)
        /\ k[a + b + r + 3] = State(after, NoCell)

LEMMA StoryIsTold ==
    ASSUME NEW prepared, NEW view, NEW sequence, NEW at, NEW after,
           Len(prepared.atoms) \in Nat, Len(prepared.bonds) \in Nat, Len(prepared.roots) \in Nat
    PROVE  StoryTold(CellStory(prepared, view, sequence, at, after), prepared, view, sequence, at,
                     after)
<1> DEFINE a == Len(prepared.atoms)
           b == Len(prepared.bonds)
           r == Len(prepared.roots)
           m == a + b + r + 3
           S(x, y, z) == State(view, OpenCell(prepared, sequence, at, x, y, z))
           first == State(view, NoCell)
           last == State(after, NoCell)
           k == CellStory(prepared, view, sequence, at, after)
<1>1. k = [i \in 1..m |-> IF i = 1 THEN first
                          ELSE IF i <= 2 + a THEN S(i - 2, 0, 0)
                          ELSE IF i <= 2 + a + b THEN S(a, i - 2 - a, 0)
                          ELSE IF i <= 2 + a + b + r THEN S(a, b, i - 2 - a - b)
                          ELSE last]
  BY DEF CellStory
<1>2. a \in Nat /\ b \in Nat /\ r \in Nat
  OBVIOUS
<1> HIDE DEF S, k, a, b, r, first, last
<1>3. m \in Nat /\ m = a + b + r + 3
  BY <1>2
<1> HIDE DEF m
<1>4. IsSeq(k) /\ Len(k) = m
  <2>1. k = [i \in 1..m |-> k[i]]
    BY <1>1
  <2> QED
    BY <1>3, <2>1, FirstList
<1>5. \A i \in 1..m : k[i] = IF i = 1 THEN first
                             ELSE IF i <= 2 + a THEN S(i - 2, 0, 0)
                             ELSE IF i <= 2 + a + b THEN S(a, i - 2 - a, 0)
                             ELSE IF i <= 2 + a + b + r THEN S(a, b, i - 2 - a - b)
                             ELSE last
  BY <1>1
<1>6. k[1] = first
  <2>1. 1 \in 1..m
    BY <1>2, <1>3
  <2> QED
    BY <1>5, <2>1
<1>7. ASSUME NEW i \in 0..a PROVE k[2 + i] = S(i, 0, 0)
  <2>1. 2 + i \in 1..m /\ 2 + i # 1 /\ 2 + i <= 2 + a /\ (2 + i) - 2 = i
    BY <1>2, <1>3
  <2> QED
    BY <1>5, <2>1
<1>8. ASSUME NEW i \in 0..b PROVE k[2 + a + i] = S(a, i, 0)
  <2>1. CASE i = 0
    <3>1. a \in 0..a /\ 2 + a + i = 2 + a
      BY <1>2, <2>1
    <3> QED
      BY <1>7, <2>1, <3>1
  <2>2. CASE i # 0
    <3>1. /\ 2 + a + i \in 1..m /\ 2 + a + i # 1 /\ ~(2 + a + i <= 2 + a)
          /\ 2 + a + i <= 2 + a + b /\ (2 + a + i) - 2 - a = i
      BY <1>2, <1>3, <2>2
    <3> QED
      BY <1>5, <3>1
  <2> QED
    BY <2>1, <2>2
<1>9. ASSUME NEW i \in 0..r PROVE k[2 + a + b + i] = S(a, b, i)
  <2>1. CASE i = 0
    <3>1. b \in 0..b /\ 2 + a + b + i = 2 + a + b
      BY <1>2, <2>1
    <3> QED
      BY <1>8, <2>1, <3>1
  <2>2. CASE i # 0
    <3>1. /\ 2 + a + b + i \in 1..m /\ 2 + a + b + i # 1 /\ ~(2 + a + b + i <= 2 + a)
          /\ ~(2 + a + b + i <= 2 + a + b) /\ 2 + a + b + i <= 2 + a + b + r
          /\ (2 + a + b + i) - 2 - a - b = i
      BY <1>2, <1>3, <2>2
    <3> QED
      BY <1>5, <3>1
  <2> QED
    BY <2>1, <2>2
<1>10. k[m] = last
  <2>1. m \in 1..m /\ m # 1 /\ ~(m <= 2 + a) /\ ~(m <= 2 + a + b) /\ ~(m <= 2 + a + b + r)
    BY <1>2, <1>3
  <2> QED
    BY <1>5, <2>1
<1> QED
  BY <1>3, <1>4, <1>6, <1>7, <1>8, <1>9, <1>10 DEF StoryTold, S, k, a, b, r, first, last

(* The frames of a cell that is admitted balance, and commit what the writer *)
(* then applies.                                                            *)
LEMMA CellPlan ==
    ASSUME NEW cell \in Cells, NEW view, IsIndex(view), CellAdmissible(view, cell),
           NEW sequence \in Nat, NEW j, j.start \in Nat,
           j.frames = CellFrames(prepare_cell(view, cell), sequence)
    PROVE  \E k : Plan(k, view, j)
<1> DEFINE prepared == prepare_cell(view, cell)
           frames == j.frames
           a == Len(prepared.atoms)
           b == Len(prepared.bonds)
           r == Len(prepared.roots)
           n == a + b + r + 2
           at == j.start
           new == Committed(view, j)
           O(x, y, z) == OpenCell(prepared, sequence, at, x, y, z)
           S(x, y, z) == State(view, O(x, y, z))
           k == CellStory(prepared, view, sequence, at, new)
<1>1. CellReads(prepared, view, cell)
  BY PreparedReads
<1>2. CellListed(frames, prepared, sequence)
  BY CellFramesListed
<1>3. ApplyCell(view, O(a, b, r), sequence + Len(frames) - 1) = ApplyCommitted(view, frames, at)
  BY CellWritten
<1>4. n = a + b + r + 2
  OBVIOUS
<1> HIDE DEF prepared, frames, a, b, r, n, at, new, O, S, k
<1>5. a \in Nat /\ b \in Nat /\ r \in Nat /\ n \in Nat /\ IsSeq(frames) /\ Len(frames) = n
      /\ at \in Nat
  <2>1. a \in Nat /\ b \in Nat /\ r \in Nat
    BY <1>1 DEF CellReads, a, b, r
  <2>2. IsSeq(frames) /\ Len(frames) = n
    BY <1>2 DEF CellListed, a, b, r, n
  <2> QED
    BY <1>4, <2>1, <2>2 DEF at
<1>6. /\ IsSeq(k) /\ Len(k) = n + 1
      /\ k[1] = State(view, NoCell)
      /\ \A i \in 0..a : k[2 + i] = S(i, 0, 0)
      /\ \A i \in 0..b : k[2 + a + i] = S(a, i, 0)
      /\ \A i \in 0..r : k[2 + a + b + i] = S(a, b, i)
      /\ k[n + 1] = State(new, NoCell)
  <2>1. StoryTold(k, prepared, view, sequence, at, new)
    BY <1>5, StoryIsTold DEF a, b, r, k
  <2>2. a + b + r + 3 = n + 1
    BY <1>4, <1>5
  <2> QED
    BY <2>1, <2>2 DEF StoryTold, S, O, a, b, r
<1>7. FrameSteps(k[1], frames[1], at + 1, k[2])
  <2> DEFINE frame == Frame(sequence, "begin", CellMeta(prepared))
  <2>1. frames[1] = frame
    BY <1>2 DEF CellListed
  <2>2. frame.kind = "begin"
    BY DEF Frame
  <2>3. CellAfter(NoCell, frame, at + 1) = O(0, 0, 0)
    BY <1>5, OpenStarts DEF O
  <2>4. k[2] = State(view, O(0, 0, 0))
    <3>1. 0 \in 0..a /\ 2 + 0 = 2
      BY <1>5
    <3> QED
      BY <1>6, <3>1 DEF S
  <2> HIDE DEF frame
  <2>5. FrameBalances(view, NoCell, frame) /\ IndexAfter(view, NoCell, frame, at + 1) = view
    BY <2>2 DEF FrameBalances, IndexAfter, NoCell
  <2> QED
    BY <1>6, <2>1, <2>3, <2>4, <2>5, StateHas DEF FrameSteps
<1>8. ASSUME NEW i \in 1..a
      PROVE  FrameSteps(k[1 + i], frames[1 + i], at + (1 + i), k[(1 + i) + 1])
  <2> DEFINE frame == frames[1 + i]
  <2>0. i \in Nat /\ i > 0 /\ i <= a /\ i - 1 \in Nat /\ i - 1 \in 0..a /\ i \in 0..a
        /\ 2 + (i - 1) = 1 + i /\ (1 + i) + 1 = 2 + i
    BY <1>5
  <2>1. frame = Frame(sequence + (1 + i) - 1, "atom", <<prepared.atoms[i][2]>>)
    BY <1>2 DEF CellListed, a
  <2>2. frame.kind = "atom" /\ frame.payload = <<prepared.atoms[i][2]>>
    BY <2>1 DEF Frame
  <2> HIDE DEF frame
  <2>3. k[1 + i] = State(view, O(i - 1, 0, 0)) /\ k[(1 + i) + 1] = State(view, O(i, 0, 0))
    BY <1>6, <2>0 DEF S
  <2>4. O(i - 1, 0, 0).open
    <3>1. OpenReads(O(i - 1, 0, 0), prepared, sequence, at, i - 1, 0, 0)
      BY <2>0, OpenHas DEF O
    <3> QED
      BY <3>1 DEF OpenReads
  <2>5. FrameBalances(view, O(i - 1, 0, 0), frame)
    BY <1>1, <2>0, <2>2, AtomBalances DEF O, a
  <2>6. CellAfter(O(i - 1, 0, 0), frame, at + (1 + i)) = O(i, 0, 0)
    <3>1. atom_identity(frame.payload[1]) = prepared.atoms[i]
      BY <1>1, <2>2 DEF CellReads, a
    <3>2. \A x, y \in 1..Len(prepared.atoms) : x < y => prepared.atoms[x] # prepared.atoms[y]
      BY <1>1 DEF CellReads
    <3>3. i <= Len(prepared.atoms) /\ Len(prepared.atoms) \in Nat
      BY <1>5, <2>0 DEF a
    <3> QED
      BY <2>0, <2>2, <3>1, <3>2, <3>3, OpenTakesAtom DEF O
  <2> QED
    BY <2>2, <2>3, <2>4, <2>5, <2>6, OpenSteps DEF frame
<1>9. ASSUME NEW i \in 1..b
      PROVE  FrameSteps(k[1 + a + i], frames[1 + a + i], at + (1 + a + i), k[(1 + a + i) + 1])
  <2> DEFINE frame == frames[1 + a + i]
  <2>0. i \in Nat /\ i > 0 /\ i <= b /\ i - 1 \in Nat /\ i - 1 \in 0..b /\ i \in 0..b
        /\ 2 + a + (i - 1) = 1 + a + i /\ (1 + a + i) + 1 = 2 + a + i /\ 0 \in Nat
    BY <1>5
  <2>1. frame = Frame(sequence + (1 + a + i) - 1, "bond", prepared.bonds[i][2])
    BY <1>2 DEF CellListed, a, b
  <2>2. frame.kind = "bond" /\ frame.payload = prepared.bonds[i][2]
    BY <2>1 DEF Frame
  <2> HIDE DEF frame
  <2>3. k[1 + a + i] = State(view, O(a, i - 1, 0)) /\ k[(1 + a + i) + 1] = State(view, O(a, i, 0))
    BY <1>6, <2>0 DEF S
  <2>4. O(a, i - 1, 0).open
    <3>1. OpenReads(O(a, i - 1, 0), prepared, sequence, at, a, i - 1, 0)
      BY <1>5, <2>0, OpenHas DEF O
    <3> QED
      BY <3>1 DEF OpenReads
  <2>5. FrameBalances(view, O(a, i - 1, 0), frame)
    BY <1>1, <1>5, <2>0, <2>2, BondBalances DEF O, b
  <2>6. CellAfter(O(a, i - 1, 0), frame, at + (1 + a + i)) = O(a, i, 0)
    BY <2>0, <2>2, OpenTakesBond DEF O
  <2> QED
    BY <2>2, <2>3, <2>4, <2>5, <2>6, OpenSteps DEF frame
<1>10. ASSUME NEW i \in 1..r
       PROVE  FrameSteps(k[1 + a + b + i], frames[1 + a + b + i], at + (1 + a + b + i),
                         k[(1 + a + b + i) + 1])
  <2> DEFINE frame == frames[1 + a + b + i]
  <2>0. i \in Nat /\ i > 0 /\ i - 1 \in Nat /\ i - 1 \in 0..r /\ i \in 0..r
        /\ 2 + a + b + (i - 1) = 1 + a + b + i /\ (1 + a + b + i) + 1 = 2 + a + b + i
    BY <1>5
  <2>1. frame = Frame(sequence + (1 + a + b + i) - 1, "root", prepared.roots[i])
    BY <1>2 DEF CellListed, a, b, r
  <2>2. frame.kind = "root" /\ frame.payload = prepared.roots[i]
        /\ frame.sequence = sequence + (1 + a + b + i) - 1
    <3> DEFINE number == sequence + (1 + a + b + i) - 1
    <3>1. frame = Frame(number, "root", prepared.roots[i])
      BY <2>1
    <3> HIDE DEF number, frame
    <3>2. frame.kind = "root" /\ frame.payload = prepared.roots[i] /\ frame.sequence = number
      BY <3>1 DEF Frame
    <3> QED
      BY <3>2 DEF number
  <2> HIDE DEF frame
  <2>3. k[1 + a + b + i] = State(view, O(a, b, i - 1))
        /\ k[(1 + a + b + i) + 1] = State(view, O(a, b, i))
    BY <1>6, <2>0 DEF S
  <2>4. O(a, b, i - 1).open
    <3>1. OpenReads(O(a, b, i - 1), prepared, sequence, at, a, b, i - 1)
      BY <1>5, <2>0, OpenHas DEF O
    <3> QED
      BY <3>1 DEF OpenReads
  <2>5. FrameBalances(view, O(a, b, i - 1), frame)
    BY <2>2, <2>4 DEF FrameBalances
  <2>6. CellAfter(O(a, b, i - 1), frame, at + (1 + a + b + i)) = O(a, b, i)
    <3>1. frame.sequence = RootNumber(prepared, sequence, i)
      BY <2>2 DEF a, b, RootNumber
    <3> QED
      BY <2>0, <2>2, <3>1, OpenTakesRoot DEF O
  <2> QED
    BY <2>2, <2>3, <2>4, <2>5, <2>6, OpenSteps DEF frame
<1>11. FrameSteps(k[n], frames[n], at + n, k[n + 1])
  <2> DEFINE frame == frames[n]
             c == O(a, b, r)
             number == sequence + n - 1
  <2>1. frame = Frame(number, "commit", CellMeta(prepared))
    BY <1>2 DEF CellListed, a, b, r, n
  <2> HIDE DEF frame, number, c
  <2>2. frame.kind = "commit" /\ frame.payload = CellMeta(prepared) /\ frame.sequence = number
    BY <2>1 DEF Frame
  <2>3. k[n] = State(view, c)
    <3>1. r \in 0..r /\ 2 + a + b + r = n
      BY <1>4, <1>5
    <3> QED
      BY <1>6, <3>1 DEF S, c
  <2>4. FrameBalances(view, c, frame)
    BY <1>1, <2>2, CommitBalances DEF c, O, a, b, r
  <2>5. IndexAfter(view, c, frame, at + n) = new /\ CellAfter(c, frame, at + n) = NoCell
    <3>1. IndexAfter(view, c, frame, at + n) = ApplyCell(view, c, number)
      BY <2>2 DEF IndexAfter
    <3>2. ApplyCell(view, c, number) = ApplyCommitted(view, frames, at)
      BY <1>3, <1>5 DEF number, c
    <3>3. new = ApplyCommitted(view, frames, at)
      <4>1. frames[1].kind = "begin"
        BY <1>2 DEF CellListed, Frame
      <4> QED
        BY <4>1, Zenon DEF new, Committed, frames, at
    <3>4. CellAfter(c, frame, at + n) = NoCell
      BY <2>2 DEF CellAfter
    <3> QED
      BY <3>1, <3>2, <3>3, <3>4
  <2> QED
    BY <1>6, <2>3, <2>4, <2>5, StateHas DEF FrameSteps, frame
<1>12. ASSUME NEW i \in 1..Len(frames) PROVE FrameSteps(k[i], frames[i], at + i, k[i + 1])
  <2>1. CASE i = 1
    <3>1. 1 + 1 = 2
      OBVIOUS
    <3> QED
      BY <1>7, <2>1, <3>1
  <2>2. CASE i - 1 \in 1..a
    <3>1. 1 + (i - 1) = i
      BY <1>5
    <3> QED
      BY <1>8, <2>2, <3>1
  <2>3. CASE i - 1 - a \in 1..b
    <3>1. 1 + a + (i - 1 - a) = i
      BY <1>5
    <3> QED
      BY <1>9, <2>3, <3>1
  <2>4. CASE i - 1 - a - b \in 1..r
    <3>1. 1 + a + b + (i - 1 - a - b) = i
      BY <1>5
    <3> QED
      BY <1>10, <2>4, <3>1
  <2>5. CASE i = n
    BY <1>11, <2>5
  <2>6. i = 1 \/ i - 1 \in 1..a \/ i - 1 - a \in 1..b \/ i - 1 - a - b \in 1..r \/ i = n
    BY <1>4, <1>5
  <2> QED
    BY <2>1, <2>2, <2>3, <2>4, <2>5, <2>6
<1>13. Plan(k, view, j)
  BY <1>5, <1>6, <1>12 DEF Plan, frames, at, new
<1> QED
  BY <1>13

-----------------------------------------------------------------------------
(* The replay: handles that do nothing, begin or end. *)

(* The process does nothing. *)
Rests(q) ==
    /\ pc'[q] = pc[q] /\ db'[q] = db[q] /\ next_sequence'[q] = next_sequence[q]
    /\ job'[q] = job[q] /\ cursor'[q] = cursor[q] /\ (lease' = q => lease = q)

LEMMA RestTold ==
    ASSUME NEW q, NEW h, HandleTold(h, q), Rests(q), disk' = disk
    PROVE  HandleTold(h, q)'
<1>1. (pc[q] = "scan" => ObserverTold(cursor[q], h, disk)) /\ (lease' = q => WriterTold(h, q))
  BY DEF HandleTold, Rests
<1>2. WriterTold(h, q) => WriterTold(h, q)'
  BY DEF WriterTold, Rests
<1> QED
  BY <1>1, <1>2 DEF HandleTold, Rests

LEMMA WatchTold ==
    ASSUME NEW q, NEW h, lease' # q, pc'[q] = "scan" => ObserverTold(cursor'[q], h, disk')
    PROVE  HandleTold(h, q)'
  BY DEF HandleTold

(* It is enough to look at the process that does something. *)
LEMMA OneTold ==
    ASSUME NEW h, Followed(h), disk' = disk, NEW p \in Proc,
           \A q \in Proc \ {p} : Rests(q), Rests(p) \/ HandleTold(h, p)'
    PROVE  Followed(h)'
<1>1. ASSUME NEW q \in Proc PROVE HandleTold(h, q)'
  BY RestTold DEF Followed
<1> QED
  BY <1>1 DEF Followed

LEMMA StartScanTold ==
    ASSUME HandlesInv, ContentInv, DiskInv, NEW h, Followed(h), NEW p \in Proc, NEW refresh,
           StartScan(p, refresh), disk' = disk, UNCHANGED <<db, next_sequence, job>>,
           lease' = lease \/ lease' = p
    PROVE  Followed(h)'
<1> DEFINE c == cursor'[p]
<1>0. DOMAIN pc = Proc /\ DOMAIN cursor = Proc
  BY DEF HandlesInv
<1>1. /\ pc'[p] = "scan"
      /\ c.offset = 0 /\ c.cell = NoCell /\ c.db = EmptyIndex /\ c.low = Len(disk)
      /\ c.limit = (IF IsCut THEN Len(disk) - 1 ELSE Len(disk)) /\ c.cut = IsCut
  BY <1>0 DEF StartScan, NoScan
<1>2. \A q \in Proc \ {p} : Rests(q)
  BY <1>0 DEF StartScan, Rests
<1>3. Len(disk) \in Nat /\ IsCut \in BOOLEAN
      /\ \A i \in 1..Len(disk) : disk[i].whole \in BOOLEAN /\ (i < Len(disk) => disk[i].whole)
  BY DEF DiskInv, LogInv, IsSeq, IsCut
<1> HIDE DEF c
<1>4. c.limit \in Nat /\ \A i \in 1..c.limit : disk[i].whole
  BY <1>1, <1>3 DEF IsCut
<1>5. ScanAt(c, h)
  <2>1. h[1] = State(EmptyIndex, NoCell) /\ Len(h) = Len(disk) + 1
    BY DEF Followed, Told
  <2>2. 0 < Len(h) /\ 0 + 1 = 1
    BY <1>3, <2>1
  <2> QED
    BY <1>1, <2>1, <2>2 DEF ScanAt
<1>6. ObserverTold(c, h, disk)
  BY <1>1, <1>3, <1>4, <1>5 DEF ObserverTold
<1>7. HandleTold(h, p)'
  BY <1>1, <1>5, <1>6 DEF HandleTold, WriterTold, WriteStates, c
<1> QED
  BY <1>2, <1>7, OneTold

LEMMA ReleaseTold ==
    ASSUME HandlesInv, ContentInv, NEW h, Followed(h), NEW p \in Proc, NEW value,
           Release({p}, value), disk' = disk
    PROVE  Followed(h)'
<1>1. \A q \in Proc \ {p} : Rests(q)
  BY ProcAssumption DEF HandlesInv, ContentInv, Release, Reset, Unlocked, Rests
<1>2. pc'[p] = "closed" /\ lease' # p
  BY ProcAssumption DEF HandlesInv, Release, Reset, Unlocked
<1>3. HandleTold(h, p)'
  BY <1>2, WatchTold
<1> QED
  BY <1>1, <1>3, OneTold

LEMMA FailTold ==
    ASSUME HandlesInv, ContentInv, NEW h, Followed(h), NEW p \in Proc, NEW value,
           Fail(p, value), disk' = disk
    PROVE  Followed(h)'
<1>1. CASE cursor[p].refresh
  <2>1. DOMAIN pc = Proc /\ DOMAIN cursor = Proc /\ lease # p
    BY <1>1 DEF HandlesInv
  <2>2. pc'[p] = "ready" /\ lease' # p /\ \A q \in Proc \ {p} : Rests(q)
    BY <1>1, <2>1 DEF Fail, Rests
  <2>3. HandleTold(h, p)'
    BY <2>2, WatchTold
  <2> QED
    BY <2>2, <2>3, OneTold
<1>2. CASE ~cursor[p].refresh
  BY <1>2, ReleaseTold DEF Fail
<1> QED
  BY <1>1, <1>2

-----------------------------------------------------------------------------
(* Calls *)

(* The open cell and the index of a writer that is ready. *)
LEMMA WriterHas ==
    ASSUME NEW h, Followed(h), NEW p \in Proc, lease = p, pc[p] \notin {"magic", "scan"},
           next_sequence[p] \in Nat
    PROVE  next_sequence[p] < Len(h) /\ h[next_sequence[p] + 1] = State(db[p], NoCell)
           /\ IsIndex(db[p])
<1> DEFINE n == next_sequence[p]
<1>1. n < Len(h) /\ h[n + 1] = State(db[p], NoCell) /\ Len(h) \in Nat
  BY DEF Followed, HandleTold, WriterTold, Told, IsSeq
<1>2. n + 1 \in 1..Len(h)
  <2> HIDE DEF n
  <2> QED
    BY <1>1 DEF n
<1>3. Begun(h, n + 1)
  BY <1>2 DEF Followed, Told
<1>4. IsIndex(h[n + 1].db)
  BY <1>3 DEF Begun
<1> QED
  BY <1>1, <1>4, StateHas

(* A write begins with a plan. *)
LEMMA StartWriteTold ==
    ASSUME HandlesInv, StoreInv, ContentInv, NEW h, Followed(h), NEW p \in Proc, NEW frames,
           ReadyWriter(p), StartWrite(p, frames),
           NEW j, j = [frames |-> frames, written |-> 0, start |-> Len(disk)],
           \E k : Plan(k, db[p], j)
    PROVE  Followed(h)'
<1>1. /\ lease = p /\ pc[p] = "ready" /\ next_sequence[p] = Len(disk) /\ Len(disk) \in Nat
  BY OneWriter DEF ReadyWriter, StoreInv, WriterInv, WriterAt, DiskInv, LogInv, IsSeq
<1>2. /\ pc'[p] = "write" /\ job'[p] = j /\ lease' = p
      /\ UNCHANGED <<disk, db, next_sequence, cursor>>
      /\ \A q \in Proc \ {p} : Rests(q)
  BY <1>1 DEF HandlesInv, StartWrite, file, Rests
<1>3. next_sequence[p] < Len(h) /\ h[next_sequence[p] + 1] = State(db[p], NoCell)
  BY <1>1, WriterHas
<1>4. PICK k : Plan(k, db[p], j)
  OBVIOUS
<1>5. AsPlanned(h, k, j.start, Len(disk) - j.start)
  <2>1. j.start = Len(disk)
    OBVIOUS
  <2>2. k[1] = State(db[p], NoCell) /\ h[Len(disk) + 1] = k[1]
    BY <1>1, <1>3, <1>4 DEF Plan
  <2>3. \A i \in 0..(Len(disk) - j.start) : i = 0
    BY <1>1, <2>1
  <2> QED
    BY <1>1, <2>1, <2>2, <2>3 DEF AsPlanned
<1>6. WriterTold(h, p)'
  BY <1>2, <1>3, <1>4, <1>5 DEF WriterTold
<1>7. HandleTold(h, p)'
  BY <1>2, <1>6 DEF HandleTold
<1> QED
  BY <1>2, <1>7, OneTold

LEMMA CallTold ==
    ASSUME HandlesInv, StoreInv, ContentInv, NEW h, Followed(h), NEW p \in Proc, Call(p)
    PROVE  Followed(h)'
<1> DEFINE J(frames) == [frames |-> frames, written |-> 0, start |-> Len(disk)]
<1>0. DOMAIN pc = Proc /\ DOMAIN db = Proc /\ DiskInv /\ Len(disk) \in Nat
  BY DEF HandlesInv, ContentInv, StoreInv, DiskInv, LogInv, IsSeq
<1>1. CASE UNCHANGED vars
  <2>1. disk' = disk /\ \A q \in Proc : Rests(q)
    BY <1>1 DEF vars, file, handles, Rests
  <2> QED
    BY <2>1, OneTold
<1>2. CASE OpenWriter(p)
  BY <1>0, <1>2, StartScanTold DEF OpenWriter
<1>3. CASE OpenReadOnly(p)
  BY <1>0, <1>3, StartScanTold DEF OpenReadOnly, file
<1>4. CASE Refresh(p)
  BY <1>0, <1>4, StartScanTold DEF Refresh, file
<1>5. CASE CreateStore(p)
  <2>1. /\ pc'[p] = "magic" /\ lease' = p /\ disk' = disk
        /\ \A q \in Proc \ {p} : Rests(q)
    BY <1>0, <1>5 DEF CreateStore, Rests
  <2>2. HandleTold(h, p)'
    BY <2>1 DEF HandleTold, WriterTold, WriteStates
  <2> QED
    BY <2>1, <2>2, OneTold
<1>6. CASE CreateStoreFault(p) \/ Flush(p)
  <2>1. disk' = disk /\ \A q \in Proc : Rests(q)
    BY <1>6 DEF CreateStoreFault, Flush, Rests
  <2> QED
    BY <2>1, OneTold
<1>7. CASE Close(p)
  BY <1>7, ReleaseTold DEF Close
<1>8. ASSUME ReadyWriter(p)
      PROVE  /\ IsIndex(db[p]) /\ next_sequence[p] \in Nat
  <2>1. lease = p /\ pc[p] = "ready" /\ next_sequence[p] \in Nat
    BY <1>8, OneWriter DEF ReadyWriter, ContentInv, HandleInv
  <2> QED
    BY <2>1, WriterHas
<1>9. ASSUME NEW frame, ReadyWriter(p), StartWrite(p, <<frame>>), frame.kind \in {"atom", "bond"},
             FrameBalances(db[p], NoCell, frame)
      PROVE  Followed(h)'
  <2> DEFINE j == J(<<frame>>)
  <2>1. j.frames = <<frame>> /\ j.start \in Nat
    BY <1>0
  <2>2. \E k : Plan(k, db[p], j)
    BY <1>9, <2>1, SinglePlan
  <2> QED
    BY <1>9, <2>2, StartWriteTold
<1>10. ASSUME NEW bytes \in Bytes, PutAtom(p, bytes), ~UNCHANGED vars
       PROVE  Followed(h)'
  <2> DEFINE frame == Frame(next_sequence[p], "atom", <<bytes>>)
  <2>1. ReadyWriter(p) /\ ~contains_atom(db[p], atom_identity(bytes)) /\ StartWrite(p, <<frame>>)
    BY <1>10 DEF PutAtom
  <2>2. frame.kind = "atom" /\ frame.payload[1] = bytes
    BY DEF Frame
  <2> HIDE DEF frame
  <2>3. FrameBalances(db[p], NoCell, frame)
    BY <2>1, <2>2 DEF FrameBalances, NoCell, EmptyMap
  <2> QED
    BY <1>9, <2>1, <2>2, <2>3
<1>11. ASSUME NEW bond \in Bonds, PutBond(p, bond), ~UNCHANGED vars
       PROVE  Followed(h)'
  <2> DEFINE frame == Frame(next_sequence[p], "bond", bond)
  <2>1. /\ ReadyWriter(p) /\ validate_bond_members(db[p], bond, {}) /\ bond \notin db[p].bonds
        /\ StartWrite(p, <<frame>>)
    BY <1>11 DEF PutBond
  <2>2. frame.kind = "bond" /\ frame.payload = bond
    BY DEF Frame
  <2> HIDE DEF frame
  <2>3. FrameBalances(db[p], NoCell, frame)
    BY <2>1, <2>2 DEF FrameBalances, NoCell
  <2> QED
    BY <1>9, <2>1, <2>2, <2>3
<1>12. ASSUME NEW cell \in Cells, CommitCell(p, cell), ~UNCHANGED vars
       PROVE  Followed(h)'
  <2> DEFINE frames == CellFrames(prepare_cell(db[p], cell), next_sequence[p])
             j == J(frames)
  <2>1. ReadyWriter(p) /\ CellAdmissible(db[p], cell) /\ StartWrite(p, frames)
    BY <1>12 DEF CommitCell
  <2>2. j.frames = frames /\ j.start \in Nat
    BY <1>0
  <2>3. \E k : Plan(k, db[p], j)
    BY <1>8, <2>1, <2>2, CellPlan
  <2> QED
    BY <2>1, <2>3, StartWriteTold
<1>13. OpenBusy(p) \/ OpenRejected(p) \/ Refuse(p) => UNCHANGED vars
  BY DEF OpenBusy, OpenRejected, Refuse
<1> QED
  BY <1>1, <1>2, <1>3, <1>4, <1>5, <1>6, <1>7, <1>10, <1>11, <1>12, <1>13 DEF Call

-----------------------------------------------------------------------------
(* Scans *)

LEMMA ScanFrameTold ==
    ASSUME HandlesInv, ContentInv, NEW h, Followed(h), NEW p \in Proc, ScanFrame(p)
    PROVE  Followed(h)'
<1> DEFINE c == cursor[p]
           z == cursor'[p]
           frame == disk[c.offset + 1].frame
<1>0. DOMAIN cursor = Proc /\ DOMAIN c = DOMAIN NoScan
  BY DEF HandlesInv
<1>1. /\ pc[p] = "scan" /\ Readable(c) /\ disk' = disk /\ lease' = lease
      /\ \A q \in Proc \ {p} : Rests(q)
      /\ UNCHANGED <<pc, db, next_sequence, job>>
  BY <1>0 DEF ScanFrame, file, Rests
<1>2. /\ z.offset = c.offset + 1 /\ z.limit = c.limit /\ z.cut = c.cut /\ z.low = c.low
      /\ z.db = IndexAfter(c.db, c.cell, frame, c.offset + 1)
      /\ z.cell = CellAfter(c.cell, frame, c.offset + 1)
  BY <1>0 DEF ScanFrame, NoScan
<1>3. c.offset \in Nat /\ Len(disk) \in Nat /\ c.offset < Len(disk)
  BY <1>1 DEF ContentInv, HandleInv, CursorInv, SoundLog, IsSeq, Readable
<1>4. Told(h, disk) /\ ObserverTold(c, h, disk)
      /\ (lease = p => WriterTold(h, p))
  BY <1>1 DEF Followed, HandleTold
<1> HIDE DEF c, z
<1>5. ScanAt(c, h) => ScanAt(z, h)
  BY <1>2, <1>3, <1>4, ScanAdvances
<1>6. ObserverTold(z, h, disk)
  BY <1>2, <1>4, <1>5, ObserverScans
<1>7. lease = p => ScanAt(z, h)
  BY <1>1, <1>4, <1>5 DEF WriterTold, c
<1>8. HandleTold(h, p)'
  BY <1>1, <1>6, <1>7 DEF HandleTold, WriterTold, WriteStates, z
<1> QED
  BY <1>1, <1>8, OneTold

LEMMA FinishTold ==
    ASSUME HandlesInv, ContentInv, NEW h, Followed(h), NEW p \in Proc, NEW n, NEW tail,
           Finish(p, n, tail), UNCHANGED <<file, mode, job, acked>>,
           lease = p => n < Len(h) /\ h[n + 1] = State(cursor[p].db, NoCell)
    PROVE  Followed(h)'
<1>1. DOMAIN pc = Proc /\ DOMAIN cursor = Proc /\ DOMAIN next_sequence = Proc /\ DOMAIN db = Proc
  BY DEF HandlesInv, ContentInv
<1>2. /\ pc'[p] = "ready" /\ db'[p] = cursor[p].db /\ next_sequence'[p] = n
      /\ disk' = disk /\ lease' = lease /\ \A q \in Proc \ {p} : Rests(q)
  BY <1>1 DEF Finish, file, Rests
<1>3. HandleTold(h, p)'
  BY <1>2 DEF HandleTold, WriterTold, WriteStates
<1> QED
  BY <1>2, <1>3, OneTold

(* The committed prefix at a scan that is where recovery is. *)
LEMMA ValidHas ==
    ASSUME NEW h, NEW d, Told(h, d), NEW c, ScanAt(c, h), c.offset \in Nat
    PROVE  Valid(c) < Len(h) /\ h[Valid(c) + 1] = State(c.db, NoCell)
<1> DEFINE n == c.offset + 1
<1>1. n \in 1..Len(h) /\ h[n] = State(c.db, c.cell) /\ Len(h) \in Nat
  BY DEF ScanAt, Told, IsSeq
<1>2. Begun(h, n)
  BY <1>1 DEF Told
<1>3. h[n].db = c.db /\ h[n].cell = c.cell
  BY <1>1, StateHas
<1> HIDE DEF n
<1>4. /\ c.cell.open \/ c.cell = NoCell
      /\ c.cell.open => c.cell.start < n - 1 /\ h[c.cell.start + 1] = State(c.db, NoCell)
      /\ c.cell.start \in Nat
  BY <1>2, <1>3 DEF Begun, IsCell
<1>5. n - 1 = c.offset /\ n = c.offset + 1
  BY DEF n
<1>6. CASE c.cell.open
  BY <1>1, <1>4, <1>5, <1>6 DEF Valid
<1>7. CASE ~c.cell.open
  BY <1>1, <1>4, <1>5, <1>7 DEF Valid
<1> QED
  BY <1>6, <1>7

LEMMA ScanCleanTold ==
    ASSUME HandlesInv, ContentInv, NEW h, Followed(h), NEW p \in Proc, ScanClean(p)
    PROVE  Followed(h)'
<1> DEFINE c == cursor[p]
<1>1. /\ pc[p] = "scan" /\ ~c.cell.open /\ Finish(p, c.offset, 0)
      /\ UNCHANGED <<file, mode, job, acked>>
  BY DEF ScanClean
<1>2. ASSUME lease = p PROVE c.offset < Len(h) /\ h[c.offset + 1] = State(c.db, NoCell)
  <2>1. Told(h, disk) /\ ScanAt(c, h) /\ c.offset \in Nat
    BY <1>1, <1>2 DEF Followed, HandleTold, WriterTold, ContentInv, HandleInv, CursorInv
  <2>2. Valid(c) = c.offset
    BY <1>1 DEF Valid
  <2> QED
    BY <2>1, <2>2, ValidHas
<1> QED
  BY <1>1, <1>2, FinishTold

LEMMA ScanProvisionalTold ==
    ASSUME HandlesInv, ContentInv, NEW h, Followed(h), NEW p \in Proc, ScanProvisional(p)
    PROVE  Followed(h)'
<1>1. lease # p
  BY DEF HandlesInv, ScanProvisional
<1> QED
  BY <1>1, FinishTold DEF ScanProvisional

-----------------------------------------------------------------------------
(* The replay: steps that change the log. *)

(* A cut: the scans that have not come there go on. *)
LEMMA CutTold ==
    ASSUME HandlesInv, DiskInv, NEW h, Followed(h), NEW n \in Nat, n <= Len(disk), Truncate(n),
           NEW p \in Proc, lease' = p, pc'[p] = "ready", next_sequence'[p] = n,
           h[n + 1] = State(db'[p], NoCell),
           \A q \in Proc \ {p} : pc'[q] = pc[q] /\ cursor'[q] = CutUnder(n)[q]
    PROVE  \E g : Followed(g)'
<1> DEFINE g == SubSeq(h, 1, n + 1)
<1>1. /\ Len(disk') = n /\ Len(disk) \in Nat /\ \A i \in 1..n : disk'[i] = disk[i]
  <2>1. n \in 0..Len(disk) /\ LogInv(disk) /\ Len(disk) \in Nat
    BY DEF DiskInv, LogInv, IsSeq
  <2> QED
    BY <2>1, LogPrefix DEF Truncate
<1>2. Told(h, disk) /\ Len(h) = Len(disk) + 1
  BY DEF Followed, Told
<1>3. Told(g, disk') /\ Len(g) = n + 1 /\ \A i \in 1..(n + 1) : g[i] = h[i]
  BY <1>1, <1>2, ToldCut
<1> HIDE DEF g
<1>4. HandleTold(g, p)'
  <2>1. n < Len(g) /\ g[n + 1] = State(db'[p], NoCell)
    BY <1>3
  <2> QED
    BY <2>1 DEF HandleTold, WriterTold, WriteStates
<1>5. ASSUME NEW q \in Proc \ {p} PROVE HandleTold(g, q)'
  <2>1. ASSUME pc'[q] = "scan" PROVE ObserverTold(cursor'[q], g, disk')
    <3>1. DOMAIN cursor[q] = DOMAIN NoScan /\ ObserverTold(cursor[q], h, disk)
      BY <2>1 DEF HandlesInv, Followed, HandleTold
    <3>2. cursor'[q] = CutTo(cursor[q], n)
      BY <2>1 DEF CutUnder, CutTo
    <3>3. \A i \in 1..n : disk[i].whole => disk'[i].whole
      BY <1>1
    <3>4. ObserverTold(CutTo(cursor[q], n), g, disk')
      BY <1>1, <1>2, <1>3, <3>1, <3>3, ObserverCut
    <3> QED
      BY <3>2, <3>4
  <2> QED
    BY <2>1, WatchTold
<1>6. Followed(g)'
  BY <1>3, <1>4, <1>5 DEF Followed
<1> QED
  BY <1>6

LEMMA RepairTold ==
    ASSUME HandlesInv, StoreInv, ContentInv, NEW h, Followed(h), NEW p \in Proc, Repair(p)
    PROVE  \E g : Followed(g)'
<1> DEFINE c == cursor[p]
           n == Valid(c)
<1>1. lease = p /\ n \in Nat /\ n <= Len(disk) /\ DiskInv
  BY RepairCuts DEF StoreInv
<1>2. Told(h, disk) /\ ScanAt(c, h) /\ c.offset \in Nat
  BY <1>1 DEF Followed, HandleTold, WriterTold, ContentInv, HandleInv, CursorInv, Repair
<1>3. h[n + 1] = State(c.db, NoCell)
  BY <1>2, ValidHas
<1>4. /\ lease' = p /\ pc'[p] = "ready" /\ next_sequence'[p] = n /\ db'[p] = c.db /\ Truncate(n)
      /\ \A q \in Proc \ {p} : pc'[q] = pc[q] /\ cursor'[q] = CutUnder(n)[q]
  BY <1>1, CutUnderKeeps DEF Repair, HandlesInv, ContentInv
<1> HIDE DEF n, c
<1> QED
  BY <1>1, <1>3, <1>4, CutTold

LEMMA RollbackTold ==
    ASSUME HandlesInv, StoreInv, ContentInv, NEW h, Followed(h), NEW p \in Proc, Rollback(p)
    PROVE  \E g : Followed(g)'
<1> DEFINE n == job[p].start
<1>1. lease = p /\ n \in Nat /\ n <= Len(disk) /\ DiskInv /\ next_sequence[p] = n
      /\ pc[p] = "rollback"
  BY Writing DEF StoreInv, Rollback, JobInv
<1>2. h[n + 1] = State(db[p], NoCell)
  BY <1>1, WriterHas
<1>3. /\ lease' = p /\ pc'[p] = "ready" /\ next_sequence'[p] = n /\ db'[p] = db[p] /\ Truncate(n)
      /\ \A q \in Proc \ {p} : pc'[q] = pc[q] /\ cursor'[q] = CutUnder(n)[q]
  BY <1>1 DEF Rollback, HandlesInv
<1> HIDE DEF n
<1> QED
  BY <1>1, <1>2, <1>3, CutTold

-----------------------------------------------------------------------------
(* The log grows, or its last frame is completed. *)

LEMMA GrowTold ==
    ASSUME DiskInv, NEW h, Followed(h), NEW g, Told(g, disk'), Len(disk') \in Nat,
           Len(disk) <= Len(disk'), \A i \in 1..Len(h) : g[i] = h[i],
           \A i \in 1..Len(disk) : disk[i].whole => disk'[i].whole,
           NEW p \in Proc, lease' = p, pc'[p] # "scan", WriterTold(g, p)',
           \A q \in Proc \ {p} : pc'[q] = pc[q] /\ cursor'[q] = cursor[q]
    PROVE  \E k : Followed(k)'
<1>1. Len(disk) \in Nat /\ Len(h) = Len(disk) + 1 /\ Len(g) = Len(disk') + 1
  BY DEF DiskInv, LogInv, IsSeq, Followed, Told
<1>2. HandleTold(g, p)'
  BY DEF HandleTold
<1>3. ASSUME NEW q \in Proc \ {p} PROVE HandleTold(g, q)'
  <2>1. ASSUME pc'[q] = "scan" PROVE ObserverTold(cursor'[q], g, disk')
    <3>1. ObserverTold(cursor[q], h, disk)
      BY <2>1 DEF Followed, HandleTold
    <3>2. Len(h) \in Nat /\ Len(g) \in Nat /\ Len(h) <= Len(g)
      BY <1>1
    <3>3. ObserverTold(cursor[q], g, disk')
      BY <1>1, <3>1, <3>2, ObserverKept
    <3> QED
      BY <3>3
  <2> QED
    BY <2>1, WatchTold
<1>4. Followed(g)'
  BY <1>2, <1>3 DEF Followed
<1> QED
  BY <1>4

(* The next frame of a write takes recovery to where the plan has it. *)
(* The w-th frame of the write is the r-th chunk of the log. *)
NextOf(j, e, m, w, r) ==
    /\ m \in Nat /\ w \in Nat /\ Len(j.frames) \in Nat /\ j.start = m
    /\ w > 0 /\ w <= Len(j.frames) /\ r = m + w /\ e[r].frame = j.frames[w]

LEMMA PlanGrows ==
    ASSUME NEW h, NEW d, NEW k, NEW view, NEW j, NEW m, NEW w, NEW e, NEW r,
           Told(h, d), Plan(k, view, j), AsPlanned(h, k, m, w - 1), OneMore(d, e, r),
           NextOf(j, e, m, w, r)
    PROVE  \E g : Told(g, e) /\ AsPlanned(g, k, m, w) /\ \A i \in 1..Len(h) : g[i] = h[i]
<1>0. /\ m \in Nat /\ w \in Nat /\ Len(j.frames) \in Nat /\ j.start = m
      /\ w > 0 /\ w <= Len(j.frames) /\ r = m + w /\ e[r].frame = j.frames[w]
  BY DEF NextOf
<1> DEFINE t == k[w + 1]
<1>1. TakesTo(h, e, r, t)
  <2>1. w \in 1..Len(j.frames) /\ w - 1 \in 0..(w - 1) /\ m + (w - 1) + 1 = r /\ (w - 1) + 1 = w
    BY <1>0
  <2>2. FrameSteps(k[w], j.frames[w], m + w, k[w + 1])
    BY <1>0, <2>1 DEF Plan
  <2>3. h[r] = k[w]
    BY <2>1 DEF AsPlanned
  <2> QED
    BY <1>0, <2>2, <2>3 DEF TakesTo
<1>2. r \in Nat
  BY <1>0
<1>3. Len(h) = r /\ Len(d) \in Nat /\ t = k[w + 1]
  BY <1>0, <1>2 DEF Told, OneMore
<1> HIDE DEF t
<1>4. PICK g : Told(g, e) /\ g[r + 1] = t /\ \A i \in 1..r : g[i] = h[i]
  BY <1>1, <1>3, ToldGrows
<1>5. ASSUME NEW i \in 0..w PROVE g[m + i + 1] = k[i + 1]
  <2>1. CASE i = w
    <3>1. m + i + 1 = r + 1
      BY <1>0, <2>1
    <3> QED
      BY <1>3, <1>4, <2>1, <3>1
  <2>2. CASE i # w
    <3>1. i \in 0..(w - 1)
      BY <1>0, <2>2
    <3>2. m + i + 1 \in 1..r
      BY <1>0, <3>1
    <3> QED
      BY <1>4, <3>1, <3>2 DEF AsPlanned
  <2> QED
    BY <2>1, <2>2
<1> QED
  BY <1>3, <1>4, <1>5 DEF AsPlanned

LEMMA PlanHolds ==
    ASSUME NEW g, NEW p, pc'[p] \in WriteStates, NEW m, next_sequence'[p] = m, m < Len(g),
           g[m + 1] = State(db'[p], NoCell), NEW k, Plan(k, db'[p], job'[p]),
           job'[p].start = m, NEW w, Len(disk') - m = w, AsPlanned(g, k, m, w)
    PROVE  WriterTold(g, p)'
  BY DEF WriterTold, WriteStates

LEMMA WriteHeaderTold ==
    ASSUME HandlesInv, StoreInv, ContentInv, NEW h, Followed(h), NEW p \in Proc, WriteHeader(p)
    PROVE  \E k : Followed(k)'
<1> DEFINE j == job[p]
           m == j.start
           w == j.written
<1>1. /\ lease = p /\ Len(disk) \in Nat /\ m \in Nat /\ w \in Nat /\ DiskInv
      /\ Len(j.frames) \in Nat /\ pc[p] = "write" /\ next_sequence[p] = m
  BY Writing DEF WriteHeader, StoreInv, JobInv
<1>2. Len(disk) = m + w /\ w < Len(j.frames)
  BY Writing DEF WriteHeader, WriterAt
<1>3. /\ Len(disk') = m + w + 1 /\ \A i \in 1..(m + w) : disk'[i] = disk[i]
      /\ disk'[m + w + 1].frame = j.frames[w + 1]
  <2> DEFINE x == Chunk(j.frames[w + 1], FALSE, 1)
  <2>1. x.frame = j.frames[w + 1] /\ disk' = Append(disk, x) /\ IsSeq(disk)
    BY <1>1 DEF Chunk, WriteHeader, DiskInv, LogInv
  <2> HIDE DEF x
  <2>2. Len(disk') = Len(disk) + 1 /\ disk'[Len(disk) + 1] = x
        /\ \A i \in 1..Len(disk) : disk'[i] = disk[i]
    BY <2>1, AppendSeq
  <2> QED
    BY <1>2, <2>1, <2>2
<1>4. /\ lease' = p /\ pc'[p] = "payload" /\ UNCHANGED <<db, next_sequence, cursor, job>>
      /\ \A q \in Proc \ {p} : pc'[q] = pc[q] /\ cursor'[q] = cursor[q]
  BY <1>1 DEF WriteHeader, HandlesInv
<1>5. Told(h, disk) /\ WriterTold(h, p) /\ Len(h) = m + w + 1
  BY <1>1, <1>2 DEF Followed, HandleTold, Told
<1>6. PICK k : Plan(k, db[p], j) /\ AsPlanned(h, k, m, Len(disk) - m)
  BY <1>1, <1>5 DEF WriterTold, WriteStates
<1>7. h[m + 1] = State(db[p], NoCell)
  BY <1>1, <1>5 DEF WriterTold
<1>8. Len(disk) - m = w
  BY <1>1, <1>2
<1>9. j.start = m /\ AsPlanned(h, k, m, w)
  BY <1>6, <1>8
<1>10. \A i \in 1..(m + w) : disk'[i].frame = disk[i].frame
  BY <1>3
<1>11. job'[p] = j /\ db'[p] = db[p] /\ next_sequence'[p] = m /\ job'[p].start = m
  BY <1>1, <1>4
<1> DEFINE r == m + w + 1
           x == w + 1
<1> HIDE DEF m, w, j
<1>12. PICK g : Told(g, disk') /\ AsPlanned(g, k, m, x) /\ \A i \in 1..Len(h) : g[i] = h[i]
  <2>1. OneMore(disk, disk', r)
    BY <1>1, <1>2, <1>3, <1>10 DEF OneMore
  <2>2. NextOf(j, disk', m, x, r)
    BY <1>1, <1>2, <1>3, <1>9 DEF NextOf
  <2>3. x - 1 = w
    BY <1>1
  <2> HIDE DEF r, x
  <2>4. AsPlanned(h, k, m, x - 1)
    BY <1>9, <2>3
  <2> QED
    BY <1>5, <1>6, <2>1, <2>2, <2>4, PlanGrows
<1>13. m < Len(g) /\ g[m + 1] = State(db'[p], NoCell)
  <2>1. m + 1 \in 1..Len(h)
    BY <1>1, <1>5
  <2>2. Len(g) = m + w + 2
    BY <1>1, <1>3, <1>12 DEF Told
  <2> QED
    BY <1>1, <1>7, <1>11, <1>12, <2>1, <2>2
<1>14. Len(disk') - m = x
  BY <1>1, <1>3
<1>15. WriterTold(g, p)'
  <2>1. Plan(k, db'[p], job'[p]) /\ pc'[p] \in WriteStates
    BY <1>4, <1>6, <1>11 DEF WriteStates
  <2> QED
    BY <1>11, <1>12, <1>13, <1>14, <2>1, PlanHolds
<1>16. /\ Len(disk') \in Nat /\ Len(disk) <= Len(disk')
       /\ \A i \in 1..Len(disk) : disk[i].whole => disk'[i].whole
  BY <1>1, <1>2, <1>3
<1>17. pc'[p] # "scan"
  BY <1>4
<1> QED
  BY <1>1, <1>4, <1>12, <1>15, <1>16, <1>17, GrowTold

(* The replay does not depend on what is torn. *)
LEMMA ToldSame ==
    ASSUME NEW h, NEW d, NEW e, Told(h, d), Len(e) = Len(d),
           \A i \in 1..Len(d) : e[i].frame = d[i].frame
    PROVE  Told(h, e)
  BY DEF Told

LEMMA CommittedSame ==
    ASSUME NEW view, NEW j, NEW i, i.frames = j.frames, i.start = j.start
    PROVE  Committed(view, i) = Committed(view, j)
  BY Zenon DEF Committed

LEMMA PlanSame ==
    ASSUME NEW view, NEW j, NEW i, i.frames = j.frames, i.start = j.start, NEW k, Plan(k, view, j)
    PROVE  Plan(k, view, i)
<1>1. Committed(view, i) = Committed(view, j)
  BY CommittedSame
<1> QED
  BY <1>1 DEF Plan

LEMMA WritePayloadTold ==
    ASSUME HandlesInv, StoreInv, ContentInv, NEW h, Followed(h), NEW p \in Proc, WritePayload(p)
    PROVE  \E k : Followed(k)'
<1> DEFINE j == job[p]
           i == job'[p]
           m == j.start
<1>1. /\ lease = p /\ Len(disk) \in Nat /\ m \in Nat /\ j.written \in Nat /\ DiskInv /\ LogInv(disk)
      /\ pc[p] = "payload" /\ next_sequence[p] = m /\ Len(disk) = m + j.written + 1
      /\ DOMAIN j = {"frames", "written", "start"}
  BY Writing DEF WritePayload, WriterAt, StoreInv, JobInv
<1>2. /\ Len(disk') = Len(disk) /\ WholeTo(disk', Len(disk))
      /\ \A n \in 1..Len(disk) : disk'[n].frame = disk[n].frame
  <2>1. Len(disk) > 0
    BY <1>1
  <2>2. disk' = [disk EXCEPT ![Len(disk)].whole = TRUE]
    BY DEF WritePayload
  <2> QED
    BY <1>1, <2>1, <2>2, LogComplete
<1>3. /\ lease' = p /\ pc'[p] \in {"sync", "write"} /\ UNCHANGED <<db, next_sequence, cursor>>
      /\ \A q \in Proc \ {p} : pc'[q] = pc[q] /\ cursor'[q] = cursor[q]
  BY <1>1 DEF WritePayload, HandlesInv
<1>4. i.frames = j.frames /\ i.start = j.start
  BY <1>1 DEF WritePayload, HandlesInv
<1>5. Told(h, disk) /\ WriterTold(h, p)
  BY <1>1 DEF Followed, HandleTold
<1>6. PICK k : Plan(k, db[p], j) /\ AsPlanned(h, k, m, Len(disk) - m)
  BY <1>1, <1>5 DEF WriterTold, WriteStates
<1>7. m < Len(h) /\ h[m + 1] = State(db[p], NoCell)
  BY <1>1, <1>5 DEF WriterTold
<1>8. Plan(k, db[p], i)
  BY <1>4, <1>6, PlanSame
<1>9. Told(h, disk')
  BY <1>2, <1>5, ToldSame
<1>10. WriterTold(h, p)'
  <2>1. next_sequence'[p] = m /\ i.start = m /\ db'[p] = db[p] /\ pc'[p] \in WriteStates
    BY <1>1, <1>3, <1>4 DEF WriteStates
  <2>2. AsPlanned(h, k, m, Len(disk') - m)
    BY <1>2, <1>6
  <2> DEFINE w == Len(disk') - m
  <2>3. Plan(k, db'[p], job'[p]) /\ AsPlanned(h, k, m, w) /\ w = Len(disk') - m
    BY <1>8, <2>1, <2>2
  <2> HIDE DEF w, m
  <2> QED
    BY <1>7, <2>1, <2>3, PlanHolds
<1>11. /\ Len(disk') \in Nat /\ Len(disk) <= Len(disk')
       /\ \A n \in 1..Len(disk) : disk[n].whole => disk'[n].whole
  BY <1>1, <1>2 DEF WholeTo
<1>12. \A n \in 1..Len(h) : h[n] = h[n]
  OBVIOUS
<1>13. pc'[p] # "scan"
  BY <1>3
<1> QED
  BY <1>1, <1>3, <1>9, <1>10, <1>11, <1>12, <1>13, GrowTold

(* A write that is synced has come to the end of its plan. *)
LEMMA SyncTold ==
    ASSUME HandlesInv, StoreInv, ContentInv, NEW h, Followed(h), NEW p \in Proc, Sync(p)
    PROVE  Followed(h)'
<1> DEFINE j == job[p]
           m == j.start
           f == Len(j.frames)
           new == Committed(db[p], j)
<1>1. /\ lease = p /\ Len(disk) \in Nat /\ m \in Nat /\ f \in Nat
      /\ pc[p] = "sync" /\ next_sequence[p] = m /\ Len(disk) = m + f
  BY Writing DEF Sync, WriterAt, JobInv
<1>2. /\ lease' = p /\ pc'[p] = "ready" /\ disk' = disk /\ db'[p] = new
      /\ next_sequence'[p] = m + f /\ \A q \in Proc \ {p} : Rests(q)
  BY <1>1 DEF Sync, HandlesInv, ContentInv, Rests
<1>3. Told(h, disk) /\ WriterTold(h, p) /\ Len(h) = m + f + 1
  BY <1>1 DEF Followed, HandleTold, Told
<1>4. PICK k : Plan(k, db[p], j) /\ AsPlanned(h, k, m, Len(disk) - m)
  BY <1>1, <1>3 DEF WriterTold, WriteStates
<1>5. Len(k) = f + 1 /\ k[Len(k)] = State(new, NoCell)
  BY <1>4 DEF Plan
<1> HIDE DEF new, m, f, j
<1>6. h[m + f + 1] = State(new, NoCell)
  <2>1. Len(disk) - m = f /\ f \in 0..f
    BY <1>1
  <2>2. h[m + f + 1] = k[f + 1]
    BY <1>4, <2>1 DEF AsPlanned
  <2> QED
    BY <1>5, <2>2
<1>7. m + f < Len(h)
  BY <1>1, <1>3
<1>8. HandleTold(h, p)'
  BY <1>2, <1>6, <1>7 DEF HandleTold, WriterTold, WriteStates
<1> QED
  BY <1>2, <1>8, OneTold

LEMMA FaultTold ==
    ASSUME HandlesInv, NEW h, Followed(h), NEW p \in Proc, WriteFault(p) \/ SyncFault(p)
    PROVE  Followed(h)'
<1>1. /\ pc[p] \in {"write", "payload", "sync"} /\ lease = p
  BY OneWriter DEF WriteFault, SyncFault
<1>2. /\ lease' = p /\ pc'[p] = "rollback" /\ UNCHANGED <<disk, db, next_sequence, job>>
      /\ \A q \in Proc \ {p} : Rests(q)
  BY <1>1 DEF WriteFault, SyncFault, file, HandlesInv, Rests
<1>3. WriterTold(h, p)
  BY <1>1 DEF Followed, HandleTold
<1>4. WriterTold(h, p)'
  BY <1>1, <1>2, <1>3 DEF WriterTold, WriteStates
<1>5. HandleTold(h, p)'
  BY <1>2, <1>4 DEF HandleTold
<1> QED
  BY <1>2, <1>5, OneTold

LEMMA PowerLossTold ==
    ASSUME HandlesInv, DiskInv, ContentInv, NEW h, Followed(h), PowerLoss
    PROVE  \E g : Followed(g)'
<1>1. LogInv(disk) /\ Len(disk) \in Nat /\ Told(h, disk) /\ synced \in 0..Len(disk)
  BY DEF DiskInv, LogInv, IsSeq, Followed, ContentInv
<1>2. \A q \in Proc : pc'[q] = "closed" /\ lease' # q
  BY ProcAssumption DEF PowerLoss, Release, Reset, Unlocked, HandlesInv
<1>3. \A g : \A q \in Proc : HandleTold(g, q)'
  BY <1>2, WatchTold
<1>4. ASSUME NEW n \in Nat, n <= Len(disk), Len(disk') = n,
             \A i \in 1..n : disk'[i].frame = disk[i].frame
      PROVE  \E g : Told(g, disk')
  BY <1>1, <1>4, ToldCut
<1>5. \E g : Told(g, disk')
  <2>1. CASE disk' = <<>>
    <3>1. Len(disk') = 0 /\ \A i \in 1..0 : disk'[i].frame = disk[i].frame
      BY <2>1
    <3>2. 0 \in Nat /\ 0 <= Len(disk)
      BY <1>1
    <3> QED
      BY <1>4, <3>1, <3>2
  <2>2. ASSUME NEW k \in synced..Len(disk), disk' = SubSeq(disk, 1, k)
        PROVE  \E g : Told(g, disk')
    <3>1. k \in 0..Len(disk) /\ k \in Nat /\ k <= Len(disk)
      BY <1>1
    <3>2. Len(disk') = k /\ \A i \in 1..k : disk'[i] = disk[i]
      BY <1>1, <2>2, <3>1, LogPrefix
    <3>3. \A i \in 1..k : disk'[i].frame = disk[i].frame
      BY <3>2
    <3> QED
      BY <1>4, <3>1, <3>2, <3>3
  <2>3. ASSUME NEW k \in synced..Len(disk), k < Len(disk),
               disk' = Append(SubSeq(disk, 1, k), Chunk(disk[k + 1].frame, FALSE, 1))
        PROVE  \E g : Told(g, disk')
    <3> DEFINE s == SubSeq(disk, 1, k)
               x == Chunk(disk[k + 1].frame, FALSE, 1)
               n == k + 1
    <3>1. k \in 0..Len(disk) /\ n \in Nat /\ n <= Len(disk)
      BY <1>1, <2>3
    <3>2. LogInv(s) /\ Len(s) = k /\ \A i \in 1..k : s[i] = disk[i]
      BY <1>1, <3>1, LogPrefix
    <3>3. x.frame = disk[k + 1].frame
      BY DEF Chunk
    <3> HIDE DEF s, x
    <3>4. Len(disk') = Len(s) + 1 /\ disk'[Len(s) + 1] = x /\ \A i \in 1..Len(s) : disk'[i] = s[i]
      <4>1. IsSeq(s) /\ disk' = Append(s, x)
        BY <2>3, <3>2 DEF LogInv, s, x
      <4> QED
        BY <4>1, AppendSeq
    <3>5. \A i \in 1..n : disk'[i].frame = disk[i].frame
      <4>1. \A i \in 1..n : i \in 1..k \/ i = k + 1
        BY <3>1
      <4> QED
        BY <3>2, <3>3, <3>4, <4>1
    <3>6. Len(disk') = n
      BY <3>2, <3>4
    <3> HIDE DEF n
    <3> QED
      BY <1>4, <3>1, <3>5, <3>6
  <2> QED
    BY <2>1, <2>2, <2>3 DEF PowerLoss
<1>6. PICK g : Told(g, disk')
  BY <1>5
<1>7. Followed(g)'
  BY <1>3, <1>6 DEF Followed
<1> QED
  BY <1>7

-----------------------------------------------------------------------------
(* The replay is always there. *)

(* No step but a rollback that fails leaves the log without a replay. *)
LEMMA FollowedStep ==
    ASSUME "rollback" \notin Failures, HandlesInv, StoreInv, ContentInv, NEW h, Followed(h),
           [Next]_vars
    PROVE  \E g : Followed(g)'
<1>0. DiskInv
  BY DEF StoreInv
<1>1. CASE UNCHANGED vars
  <2>1. Followed(h)'
    BY <1>1 DEF vars, file, handles, Followed, HandleTold, WriterTold
  <2> QED
    BY <2>1
<1>2. ASSUME NEW p \in Proc, Call(p)
      PROVE  \E g : Followed(g)'
  BY <1>2, CallTold
<1>3. ASSUME NEW p \in Proc, SyncMagic(p)
      PROVE  \E g : Followed(g)'
  BY <1>0, <1>3, StartScanTold DEF SyncMagic
<1>4. ASSUME NEW p \in Proc, Crash(p) \/ SyncMagicFault(p)
      PROVE  \E g : Followed(g)'
  BY <1>4, ReleaseTold DEF Crash, SyncMagicFault
<1>5. ASSUME NEW p \in Proc, Scan(p)
      PROVE  \E g : Followed(g)'
  <2>1. CASE ScanFrame(p)
    BY <2>1, ScanFrameTold
  <2>2. CASE ScanCorrupt(p) \/ ScanEof(p)
    BY <2>2, FailTold DEF ScanCorrupt, ScanEof
  <2>3. CASE ScanClean(p)
    BY <2>3, ScanCleanTold
  <2>4. CASE ScanProvisional(p)
    BY <2>4, ScanProvisionalTold
  <2>5. CASE Repair(p)
    BY <2>5, RepairTold
  <2>6. CASE RepairFault(p)
    BY <2>6, ReleaseTold DEF RepairFault
  <2> QED
    BY <1>5, <2>1, <2>2, <2>3, <2>4, <2>5, <2>6 DEF Scan
<1>6. ASSUME NEW p \in Proc, Write(p)
      PROVE  \E g : Followed(g)'
  <2>1. ~RollbackFault(p)
    BY DEF RollbackFault
  <2>2. CASE WriteHeader(p)
    BY <2>2, WriteHeaderTold
  <2>3. CASE WritePayload(p)
    BY <2>3, WritePayloadTold
  <2>4. CASE WriteFault(p) \/ SyncFault(p)
    BY <2>4, FaultTold
  <2>5. CASE Sync(p)
    BY <2>5, SyncTold
  <2>6. CASE Rollback(p)
    BY <2>6, RollbackTold
  <2> QED
    BY <1>6, <2>1, <2>2, <2>3, <2>4, <2>5, <2>6 DEF Write
<1>7. CASE PowerLoss
  BY <1>0, <1>7, PowerLossTold
<1> QED
  BY <1>1, <1>2, <1>3, <1>4, <1>5, <1>6, <1>7 DEF Next

LEMMA FollowedInit == Init => \E h : Followed(h)
<1> SUFFICES ASSUME Init PROVE \E h : Followed(h)
  OBVIOUS
<1> DEFINE h == <<State(EmptyIndex, NoCell)>>
<1>1. IsSeq(h) /\ Len(h) = 1 /\ h[1] = State(EmptyIndex, NoCell)
  BY DEF IsSeq
<1>2. disk = <<>> /\ Len(disk) = 0
  BY DEF Init
<1>3. /\ IsIndex(EmptyIndex) /\ IsCell(NoCell) /\ IsSeq(NoCell.bonds) /\ IsSeq(NoCell.roots)
      /\ ~NoCell.open
  BY DEF IsIndex, EmptyIndex, IsMap, EmptyMap, IsCell, NoCell, IsSeq
<1> HIDE DEF h
<1>4. Begun(h, 1)
  <2>1. h[1].db = EmptyIndex /\ h[1].cell = NoCell
    BY <1>1, StateHas
  <2> QED
    BY <1>1, <1>3, <2>1 DEF Begun
<1>5. Told(h, disk)
  <2>1. \A i \in 1..Len(h) : i = 1
    BY <1>1
  <2>2. Len(h) = Len(disk) + 1 /\ \A i \in 1..Len(disk) : FALSE
    BY <1>1, <1>2
  <2> QED
    BY <1>1, <1>4, <2>1, <2>2 DEF Told
<1>6. ASSUME NEW p \in Proc PROVE HandleTold(h, p)
  BY ProcAssumption DEF Init, HandleTold
<1> QED
  BY <1>5, <1>6 DEF Followed

(* While rollbacks work, recovery takes each log that the program leaves,  *)
(* whoever wrote, crashed, repaired or rolled back, and the index that the *)
(* writer has built live is the one that recovery would build: what        *)
(* commit_cell applies and what recover applies agree.                     *)
THEOREM SpecReplay ==
    ASSUME "rollback" \notin Failures
    PROVE  Spec => []ReplayInv
<1>1. Init => ReplayInv
  BY FollowedInit DEF ReplayInv, Followed
<1>2. FileInv /\ HandlesInv /\ ContentInv /\ ReplayInv /\ [Next]_vars => ReplayInv'
  <2> SUFFICES ASSUME HandlesInv, StoreInv, ContentInv, ReplayInv, [Next]_vars PROVE ReplayInv'
    BY DEF FileInv
  <2>1. PICK h : Followed(h)
    BY DEF ReplayInv, Followed
  <2>2. \E g : Followed(g)'
    BY <2>1, FollowedStep
  <2> QED
    BY <2>2 DEF ReplayInv, Followed
<1>3. Spec => []FileInv
  BY SpecFile
<1> QED
  BY <1>1, <1>2, <1>3, SpecContent, PTL DEF Spec

(* No scan of open or refresh that did not come to a cut meets a frame it   *)
(* has to call corrupt, for any number of processes, frames and faults     *)
(* other than a rollback that fails.                                       *)
THEOREM SpecScansBalance ==
    ASSUME "rollback" \notin Failures
    PROVE  Spec => []ScansBalance
<1>1. FileInv /\ ReplayInv => ScansBalance
  <2> SUFFICES ASSUME LogInv(disk), ReplayInv, NEW p \in Proc, pc[p] = "scan",
                      ~Moved(cursor[p]), cursor[p].offset < cursor[p].limit
               PROVE  Readable(cursor[p]) /\ Acceptable(cursor[p])
    BY DEF FileInv, StoreInv, DiskInv, ScansBalance
  <2>1. PICK h : Told(h, disk) /\ ObserverTold(cursor[p], h, disk)
    BY DEF ReplayInv, Followed, HandleTold
  <2> QED
    BY <2>1, ObserverBalances
<1>2. Spec => []FileInv
  BY SpecFile
<1> QED
  BY <1>1, <1>2, SpecReplay, PTL

-----------------------------------------------------------------------------
(* Views: every index is what the replay has at its place in the log. *)

(* Logs with the same first frames have the same replay of them. *)
LEMMA ToldUnique ==
    ASSUME NEW d, NEW e, NEW h, NEW g, Told(h, d), Told(g, e), NEW n \in Nat,
           Len(d) \in Nat, Len(e) \in Nat, n <= Len(d), n <= Len(e),
           \A i \in 1..n : e[i].frame = d[i].frame
    PROVE  /\ n < Len(h) /\ n < Len(g)
           /\ \A i \in 0..n : g[i + 1] = h[i + 1]
<1> DEFINE T == {i \in 0..n : g[i + 1] = h[i + 1]}
<1>1. 0 \in T
  BY DEF Told
<1>2. ASSUME NEW i \in 0..n, i \in T, i < n PROVE i + 1 \in T
  <2> DEFINE x == i + 1
  <2>1. x \in 1..n /\ x \in 0..n /\ x \in 1..Len(d) /\ x \in 1..Len(e)
    BY <1>2
  <2>2. g[x] = h[x]
    BY <1>2
  <2>3. FrameSteps(h[x], d[x].frame, x, h[x + 1]) /\ FrameSteps(g[x], e[x].frame, x, g[x + 1])
    BY <2>1 DEF Told
  <2>4. e[x].frame = d[x].frame
    BY <2>1
  <2> HIDE DEF x
  <2>5. g[x + 1] = h[x + 1]
    BY <2>2, <2>3, <2>4 DEF FrameSteps
  <2>6. x \in T
    BY <2>1, <2>5
  <2> QED
    BY <2>6 DEF x
<1>3. \A i \in 0..n : i \in T
  <2> HIDE DEF T
  <2> QED
    BY <1>1, <1>2, InductionUpTo
<1> QED
  BY <1>3 DEF Told

(* The handle of another process stays as it is, but for a cut under it.   *)
Watches(q) ==
    /\ Idle(q) \/ Same(q)
    /\ db'[q] = db[q] /\ cursor'[q].db = cursor[q].db
    /\ Overtaken(cursor[q]) => Overtaken(cursor[q])'

LEMMA ViewStays ==
    ASSUME ContentInv, ViewsInv, NEW h, NEW g, Told(h, disk), Told(g, disk'),
           Len(disk') \in Nat, Kept(disk, disk'), NEW q \in Proc, ViewTold(h, q), Watches(q)
    PROVE  ViewTold(g, q)'
<1>1. Len(disk) \in Nat /\ KnownInv(q) /\ HandleInv(q)
  BY DEF ContentInv, SoundLog, IsSeq, ViewsInv
<1>2. ASSUME NEW n \in Nat, IsCommitted(n), n < Len(h)
      PROVE  n < Len(g) /\ g[n + 1] = h[n + 1]
  <2>1. /\ n <= Len(disk) /\ n <= Len(disk')
        /\ \A i \in 1..n : disk'[i].frame = disk[i].frame
    BY <1>2 DEF Kept, IsCommitted, CommittedIn
  <2>2. n \in 0..n
    OBVIOUS
  <2>3. n < Len(g) /\ \A i \in 0..n : g[i + 1] = h[i + 1]
    BY <1>1, <2>1, ToldUnique
  <2> QED
    BY <2>2, <2>3
<1>3. /\ pc'[q] = pc[q] /\ next_sequence'[q] = next_sequence[q]
      /\ HasView(q)' <=> HasView(q)
      /\ cursor'[q].offset = cursor[q].offset /\ cursor'[q].cell = cursor[q].cell
  BY DEF Watches, Idle, Same, HasView
<1>4. Valid(cursor[q])' = Valid(cursor[q])
  BY <1>3 DEF Valid
<1>5. ASSUME HasView(q)
      PROVE  next_sequence[q] < Len(g) /\ g[next_sequence[q] + 1] = State(db[q], NoCell)
  <2>1. next_sequence[q] \in Nat /\ IsCommitted(next_sequence[q])
    BY <1>1, <1>5 DEF KnownInv, HandleInv
  <2>2. next_sequence[q] < Len(h) /\ h[next_sequence[q] + 1] = State(db[q], NoCell)
    BY <1>5 DEF ViewTold
  <2> QED
    BY <1>2, <2>1, <2>2
<1>6. ASSUME pc[q] = "scan", ~Overtaken(cursor[q])
      PROVE  /\ Valid(cursor[q]) < Len(g)
             /\ g[Valid(cursor[q]) + 1] = State(cursor[q].db, NoCell)
  <2>1. Valid(cursor[q]) \in Nat
    BY <1>1, <1>6, ValidNumber DEF HandleInv
  <2>2. IsCommitted(Valid(cursor[q]))
    BY <1>1, <1>6 DEF KnownInv
  <2>3. /\ Valid(cursor[q]) < Len(h)
        /\ h[Valid(cursor[q]) + 1] = State(cursor[q].db, NoCell)
    BY <1>6 DEF ViewTold
  <2> QED
    BY <1>2, <2>1, <2>2, <2>3
<1>7. Overtaken(cursor[q])' \/ ~Overtaken(cursor[q])
  BY DEF Watches
<1>8. ~HasView(q)' => db'[q] = EmptyIndex
  BY <1>3 DEF ViewTold, Watches
<1>9. HasView(q)' => next_sequence'[q] < Len(g)
                     /\ g[next_sequence'[q] + 1] = State(db'[q], NoCell)
  BY <1>3, <1>5 DEF Watches
<1> QED
  BY <1>3, <1>4, <1>6, <1>7, <1>8, <1>9 DEF ViewTold, Watches

AllTold(h) == Told(h, disk) /\ \A q \in Proc : ViewTold(h, q)

(* A step that leaves the file: views of the others are kept. *)
LEMMA QuietViews ==
    ASSUME ContentInv, ViewsInv, NEW h, AllTold(h), disk' = disk, NEW S,
           \A q \in Proc \ S : Watches(q), \A q \in Proc \cap S : ViewTold(h, q)'
    PROVE  AllTold(h)'
<1>1. Told(h, disk)'
  BY DEF AllTold
<1>2. Len(disk') \in Nat /\ Kept(disk, disk')
  BY NothingKept DEF ContentInv, SoundLog, IsSeq
<1>3. ASSUME NEW q \in Proc \ S PROVE ViewTold(h, q)'
  <2>1. ViewTold(h, q) /\ Watches(q) /\ Told(h, disk')
    BY <1>1 DEF AllTold
  <2> QED
    BY <1>2, <2>1, ViewStays DEF AllTold
<1> QED
  BY <1>1, <1>3 DEF AllTold

LEMMA QuietView ==
    ASSUME ContentInv, ViewsInv, NEW h, AllTold(h), disk' = disk, NEW p \in Proc,
           \A q \in Proc \ {p} : Watches(q), ViewTold(h, p)'
    PROVE  AllTold(h)'
<1>1. \A q \in Proc \cap {p} : ViewTold(h, q)'
  OBVIOUS
<1> QED
  BY <1>1, QuietViews

LEMMA SameWatches ==
    ASSUME NEW q, Same(q), db'[q] = db[q]
    PROVE  Watches(q)
  BY DEF Watches, Same, Overtaken, Sampled

LEMMA CutWatches ==
    ASSUME HandlesInv, NEW h, Followed(h), NEW q \in Proc, cursor'[q] = CutUnder(Len(disk'))[q],
           pc'[q] = pc[q], next_sequence'[q] = next_sequence[q], db'[q] = db[q],
           Len(disk') \in Nat
    PROVE  Watches(q)
<1> DEFINE c == cursor[q]
           n == Len(disk')
<1>1. Idle(q) /\ cursor'[q].db = c.db
  BY CutUnderIdle, CutUnderReads
<1>2. cursor'[q].limit = c.limit /\ cursor'[q].cut = c.cut
      /\ cursor'[q].low = (IF pc[q] = "scan" /\ c.offset < Sampled(c) /\ n < c.low THEN n ELSE c.low)
  <2>1. DOMAIN c = DOMAIN NoScan
    BY DEF HandlesInv
  <2> HIDE DEF n
  <2> QED
    BY <2>1 DEF CutUnder, NoScan, n
<1>3. pc[q] = "scan" => c.low \in Nat /\ c.limit \in Nat /\ c.cut \in BOOLEAN
  BY DEF Followed, HandleTold, ObserverTold
<1>4. Overtaken(c) => Overtaken(cursor[q])'
  <2> HIDE DEF c
  <2>1. Sampled(c)' = Sampled(c)
    BY <1>2 DEF Sampled, c
  <2>2. CASE pc[q] = "scan" /\ n < c.low
    <3>1. c.low \in Nat /\ Sampled(c) \in Nat
      BY <1>3, <2>2 DEF Sampled
    <3>2. Overtaken(c) => n < Sampled(c)
      BY <2>2, <3>1 DEF Overtaken
    <3> QED
      BY <1>2, <2>1, <3>2 DEF Overtaken, c
  <2>3. CASE ~(pc[q] = "scan" /\ n < c.low)
    BY <1>2, <2>1, <2>3 DEF Overtaken, c
  <2> QED
    BY <2>2, <2>3
<1> QED
  BY <1>1, <1>4 DEF Watches

(* What each kind of step does to the view of the process that takes it. *)
LEMMA ClosedView ==
    ASSUME NEW q, pc'[q] = "closed", db'[q] = EmptyIndex, NEW h
    PROVE  ViewTold(h, q)'
  BY DEF ViewTold, HasView

LEMMA WriterView ==
    ASSUME NEW p \in Proc, lease' = p, pc'[p] \notin {"closed", "magic", "scan"},
           NEW g, Followed(g)'
    PROVE  ViewTold(g, p)'
  BY DEF Followed, HandleTold, WriterTold, ViewTold, HasView

LEMMA ReleaseView ==
    ASSUME HandlesInv, ContentInv, ViewsInv, NEW h, AllTold(h), NEW S \in SUBSET Proc, NEW value,
           Release(S, value), disk' = disk
    PROVE  AllTold(h)'
<1>1. ASSUME NEW q \in Proc \ S PROVE Watches(q)
  BY <1>1, SameWatches DEF Release, Reset, Same
<1>2. ASSUME NEW q \in Proc \cap S PROVE ViewTold(h, q)'
  BY <1>2, ClosedView DEF Release, Reset
<1> QED
  BY <1>1, <1>2, QuietViews

LEMMA StartScanView ==
    ASSUME HandlesInv, ContentInv, ViewsInv, NEW h, AllTold(h), NEW p \in Proc, NEW refresh,
           StartScan(p, refresh), UNCHANGED <<disk, db, next_sequence, job>>,
           refresh \in BOOLEAN, refresh <=> HasView(p)
    PROVE  AllTold(h)'
<1>1. ASSUME NEW q \in Proc \ {p} PROVE Watches(q)
  BY <1>1, SameWatches DEF StartScan, Same, HandlesInv
<1>2. /\ pc'[p] = "scan" /\ cursor'[p].refresh = refresh
      /\ cursor'[p].offset = 0 /\ cursor'[p].cell = NoCell /\ cursor'[p].db = EmptyIndex
  BY DEF StartScan, HandlesInv, NoScan
<1>3. HasView(p)' <=> HasView(p)
  BY <1>2 DEF HasView
<1>4. Valid(cursor[p])' = 0
  BY <1>2 DEF Valid, NoCell
<1>5. 0 < Len(h) /\ h[0 + 1] = State(EmptyIndex, NoCell)
  BY DEF AllTold, Told, ContentInv, SoundLog, IsSeq
<1>6. ViewTold(h, p)
  BY DEF AllTold
<1>7. ViewTold(h, p)'
  BY <1>2, <1>3, <1>4, <1>5, <1>6 DEF ViewTold
<1> QED
  BY <1>1, <1>7, QuietView

LEMMA FailView ==
    ASSUME HandlesInv, ContentInv, ViewsInv, NEW h, AllTold(h), NEW p \in Proc, NEW value,
           Fail(p, value), pc[p] = "scan", disk' = disk
    PROVE  AllTold(h)'
<1>1. CASE cursor[p].refresh
  <2>1. ASSUME NEW q \in Proc \ {p} PROVE Watches(q)
    BY <1>1, SameWatches DEF Fail, Same, HandlesInv
  <2>2. /\ HasView(p) /\ HasView(p)' /\ pc'[p] = "ready"
        /\ db' = db /\ next_sequence' = next_sequence
    BY <1>1 DEF Fail, HasView, HandlesInv
  <2>3. ViewTold(h, p)'
    BY <2>2 DEF ViewTold, AllTold
  <2> QED
    BY <2>1, <2>3, QuietView
<1>2. CASE ~cursor[p].refresh
  BY <1>2, ReleaseView DEF Fail
<1> QED
  BY <1>1, <1>2

LEMMA ScanFrameView ==
    ASSUME HandlesInv, ContentInv, ViewsInv, NEW h, AllTold(h), NEW p \in Proc, ScanFrame(p),
           Followed(h)
    PROVE  AllTold(h)'
<1> DEFINE c == cursor[p]
           z == cursor'[p]
           frame == disk[c.offset + 1].frame
<1>1. /\ DOMAIN c = DOMAIN NoScan /\ DOMAIN cursor = Proc
      /\ c.offset \in Nat
  BY DEF HandlesInv, ContentInv, HandleInv, CursorInv, ScanFrame
<1>2. /\ z.offset = c.offset + 1
      /\ z.db = IndexAfter(c.db, c.cell, frame, c.offset + 1)
      /\ z.cell = CellAfter(c.cell, frame, c.offset + 1)
      /\ z.low = c.low /\ z.limit = c.limit /\ z.cut = c.cut /\ z.refresh = c.refresh
  BY <1>1, Zenon DEF ScanFrame, NoScan
<1>3. \A q \in Proc \ {p} : cursor'[q] = cursor[q]
  BY <1>1, Zenon DEF ScanFrame
<1>4. UNCHANGED <<file, pc, mode, db, next_sequence, job>> /\ Within(c) /\ Readable(c) /\ pc[p] = "scan"
  BY Zenon DEF ScanFrame
<1>5. ASSUME NEW q \in Proc \ {p} PROVE Watches(q)
  BY <1>3, <1>4, SameWatches DEF Same
<1>6. HasView(p)' <=> HasView(p)
  BY <1>2, <1>4 DEF HasView
<1>7. ASSUME ~Overtaken(c)
      PROVE  Valid(z) < Len(h) /\ h[Valid(z) + 1] = State(z.db, NoCell)
  <2>1. ObserverTold(c, h, disk)
    BY <1>4 DEF Followed, HandleTold
  <2>2. ~Moved(c)
    BY <1>7 DEF Moved, Overtaken
  <2>3. c.offset < Sampled(c)
    BY <1>1, <1>4, <2>1, <2>2 DEF Within, Sampled, ObserverTold
  <2>4. ScanAt(c, h)
    BY <2>1, <2>2, <2>3 DEF ObserverTold
  <2>5. Told(h, disk) /\ Len(disk) \in Nat /\ c.offset < Len(disk)
    BY <1>4 DEF AllTold, ContentInv, SoundLog, IsSeq, Readable
  <2> HIDE DEF z, c
  <2>6. ScanAt(z, h)
    BY <1>1, <1>2, <2>4, <2>5, ScanAdvances
  <2>7. z.offset \in Nat
    BY <1>1, <1>2
  <2> QED
    BY <2>5, <2>6, <2>7, ValidHas
<1>8. Overtaken(c)' <=> Overtaken(c)
  BY <1>2 DEF Overtaken, Sampled
<1>9. ViewTold(h, p)
  BY DEF AllTold
<1>10. ViewTold(h, p)'
  <2>1. ~HasView(p)' => db'[p] = EmptyIndex
    BY <1>4, <1>6, <1>9 DEF ViewTold
  <2>2. HasView(p)' => next_sequence'[p] < Len(h)
                       /\ h[next_sequence'[p] + 1] = State(db'[p], NoCell)
    BY <1>4, <1>6, <1>9 DEF ViewTold
  <2>3. Valid(cursor[p])' = Valid(z)
    BY DEF Valid
  <2> QED
    BY <1>7, <1>8, <2>1, <2>2, <2>3 DEF ViewTold
<1>11. disk' = disk
  BY <1>4 DEF file
<1> QED
  BY <1>5, <1>10, <1>11, QuietView

LEMMA FinishView ==
    ASSUME HandlesInv, ContentInv, ViewsInv, NEW h, AllTold(h), NEW p \in Proc,
           ScanClean(p) \/ ScanProvisional(p), ~Overtaken(cursor[p])
    PROVE  AllTold(h)'
<1>1. /\ pc[p] = "scan" /\ pc'[p] = "ready" /\ next_sequence'[p] = Valid(cursor[p])
      /\ UNCHANGED <<file, mode, job, acked>>
      /\ \A q \in Proc \ {p} : Same(q)
  BY FinishGrows
<1>2. db' = [db EXCEPT ![p] = cursor[p].db] /\ DOMAIN db = Proc
  BY Zenon DEF ScanClean, ScanProvisional, Finish, ContentInv
<1>3. ASSUME NEW q \in Proc \ {p} PROVE Watches(q)
  BY <1>1, <1>2, SameWatches
<1>4. ViewTold(h, p)'
  BY <1>1, <1>2 DEF ViewTold, AllTold, HasView
<1>5. disk' = disk
  BY <1>1 DEF file
<1> QED
  BY <1>3, <1>4, <1>5, QuietView

LEMMA CallView ==
    ASSUME HandlesInv, ContentInv, ViewsInv, NEW h, AllTold(h), NEW p \in Proc, Call(p)
    PROVE  AllTold(h)'
<1>1. CASE UNCHANGED vars
  <2>1. AllTold(h)' = AllTold(h)
    BY <1>1 DEF vars, file, handles, AllTold, ViewTold, HasView, Overtaken, Sampled, Valid
  <2> QED
    BY <2>1
<1>2. CASE OpenWriter(p) \/ OpenReadOnly(p)
  <2>1. ~HasView(p)
    BY <1>2 DEF OpenWriter, OpenReadOnly, HasView
  <2> QED
    BY <1>2, <2>1, StartScanView DEF OpenWriter, OpenReadOnly, file
<1>3. CASE Refresh(p)
  <2>1. HasView(p)
    BY <1>3 DEF Refresh, HasView
  <2> QED
    BY <1>3, <2>1, StartScanView DEF Refresh, file
<1>4. ASSUME UNCHANGED <<disk, db, next_sequence, cursor, job>>, pc[p] # "scan",
             \/ pc'[p] = pc[p]
             \/ pc[p] = "closed" /\ pc'[p] = "magic"
             \/ pc[p] = "ready" /\ pc'[p] = "write",
             \A q \in Proc \ {p} : pc'[q] = pc[q]
      PROVE  AllTold(h)'
  <2>1. ASSUME NEW q \in Proc \ {p} PROVE Watches(q)
    BY <1>4, SameWatches DEF Same
  <2>2. HasView(p)' <=> HasView(p)
    BY <1>4 DEF HasView
  <2>3. ViewTold(h, p)'
    BY <1>4, <2>2 DEF AllTold, ViewTold
  <2> QED
    BY <1>4, <2>1, <2>3, QuietView
<1>5. CASE CreateStore(p) \/ CreateStoreFault(p)
  BY <1>4, <1>5 DEF CreateStore, CreateStoreFault, HandlesInv
<1>6. CASE Flush(p)
  BY <1>4, <1>6 DEF Flush, ReadyWriter
<1>7. CASE Close(p)
  BY <1>7, ReleaseView DEF Close
<1>8. ASSUME NEW frames, StartWrite(p, frames), ReadyWriter(p)
      PROVE  AllTold(h)'
  <2>1. /\ UNCHANGED <<disk, db, next_sequence, cursor>>
        /\ pc'[p] = "write" /\ pc[p] = "ready" /\ \A q \in Proc \ {p} : pc'[q] = pc[q] /\ job'[q] = job[q]
    BY <1>8 DEF StartWrite, ReadyWriter, file, HandlesInv
  <2>2. ASSUME NEW q \in Proc \ {p} PROVE Watches(q)
    BY <2>1, SameWatches DEF Same
  <2>3. HasView(p)' /\ HasView(p)
    BY <2>1 DEF HasView
  <2>4. ViewTold(h, p)'
    BY <2>1, <2>3 DEF AllTold, ViewTold
  <2> QED
    BY <2>1, <2>2, <2>4, QuietView
<1>9. ASSUME NEW bytes \in Bytes, PutAtom(p, bytes) PROVE AllTold(h)'
  BY <1>1, <1>8, <1>9 DEF PutAtom
<1>10. ASSUME NEW bond \in Bonds, PutBond(p, bond) PROVE AllTold(h)'
  BY <1>1, <1>8, <1>10 DEF PutBond
<1>11. ASSUME NEW cell \in Cells, CommitCell(p, cell) PROVE AllTold(h)'
  BY <1>1, <1>8, <1>11, Zenon DEF CommitCell
<1> QED
  BY <1>1, <1>2, <1>3, <1>5, <1>6, <1>7, <1>9, <1>10, <1>11
     DEF Call, OpenBusy, OpenRejected, Refuse

(* The writer changes the file, no further down than it may. *)
LEMMA MovedView ==
    ASSUME ContentInv, ViewsInv, NEW h, AllTold(h), NEW g, Followed(g)', Kept(disk, disk'),
           IsSeq(disk'), NEW p \in Proc, lease' = p, pc'[p] \notin {"closed", "magic", "scan"},
           \A q \in Proc \ {p} : Watches(q)
    PROVE  AllTold(g)'
<1>1. Told(g, disk)' /\ Len(disk') \in Nat
  BY DEF Followed, IsSeq
<1>2. ViewTold(g, p)'
  BY WriterView
<1>3. ASSUME NEW q \in Proc \ {p} PROVE ViewTold(g, q)'
  <2>1. ViewTold(h, q) /\ Told(h, disk) /\ Watches(q)
    BY DEF AllTold
  <2> QED
    BY <1>1, <2>1, ViewStays
<1> QED
  BY <1>1, <1>2, <1>3 DEF AllTold

LEMMA CutView ==
    ASSUME HandlesInv, ContentInv, ViewsInv, NEW h, AllTold(h), Followed(h), NEW g, Followed(g)',
           Kept(disk, disk'), IsSeq(disk'), NEW p \in Proc, lease' = p, pc'[p] = "ready",
           \A q \in Proc \ {p} : /\ cursor'[q] = CutUnder(Len(disk'))[q] /\ pc'[q] = pc[q]
                                 /\ next_sequence'[q] = next_sequence[q] /\ db'[q] = db[q]
    PROVE  AllTold(g)'
<1>1. Len(disk') \in Nat
  BY DEF IsSeq
<1>2. ASSUME NEW q \in Proc \ {p} PROVE Watches(q)
  BY <1>1, CutWatches
<1> QED
  BY <1>2, MovedView

LEMMA ScanView ==
    ASSUME HandlesInv, StoreInv, ContentInv, ViewsInv, NEW h, AllTold(h), Followed(h),
           NEW g, Followed(g)', NEW p \in Proc, Scan(p),
           ScanClean(p) \/ ScanProvisional(p) => ~Overtaken(cursor[p])
    PROVE  \E k : AllTold(k)'
<1>1. CASE ScanFrame(p)
  BY <1>1, ScanFrameView
<1>2. CASE ScanCorrupt(p) \/ ScanEof(p)
  BY <1>2, FailView DEF ScanCorrupt, ScanEof
<1>3. CASE ScanClean(p) \/ ScanProvisional(p)
  BY <1>3, FinishView
<1>4. CASE Repair(p)
  <2>1. lease = p
    BY <1>4, OneWriter DEF Repair
  <2>2. Kept(disk, disk') /\ IsSeq(disk') /\ Len(disk') = Valid(cursor[p])
    BY <1>4, RepairCuts
  <2>3. /\ lease' = p /\ pc'[p] = "ready"
        /\ \A q \in Proc \ {p} : /\ cursor'[q] = CutUnder(Len(disk'))[q] /\ pc'[q] = pc[q]
                                 /\ next_sequence'[q] = next_sequence[q] /\ db'[q] = db[q]
    <3>1. DOMAIN CutUnder(Valid(cursor[p])) = Proc
      BY DEF CutUnder
    <3> QED
      BY <1>4, <2>1, <2>2, <3>1 DEF Repair, HandlesInv, ContentInv
  <2> QED
    BY <2>2, <2>3, CutView
<1>5. CASE RepairFault(p)
  BY <1>5, ReleaseView DEF RepairFault
<1> QED
  BY <1>1, <1>2, <1>3, <1>4, <1>5 DEF Scan

LEMMA WriteView ==
    ASSUME "rollback" \notin Failures, "sync" \notin Failures,
           HandlesInv, StoreInv, ContentInv, ViewsInv, NEW h, AllTold(h), Followed(h),
           NEW g, Followed(g)', NEW p \in Proc, Write(p)
    PROVE  AllTold(g)'
<1>1. lease = p
  BY OneWriter DEF Write, WriteHeader, WritePayload, WriteFault, Sync, SyncFault, Rollback,
                   RollbackFault
<1>2. CASE Rollback(p)
  <2>1. Kept(disk, disk') /\ IsSeq(disk') /\ Len(disk') = job[p].start
    BY <1>2, RollbackCuts
  <2>2. /\ lease' = p /\ pc'[p] = "ready"
        /\ \A q \in Proc \ {p} : /\ cursor'[q] = CutUnder(Len(disk'))[q] /\ pc'[q] = pc[q]
                                 /\ next_sequence'[q] = next_sequence[q] /\ db'[q] = db[q]
    BY <1>1, <1>2, <2>1 DEF Rollback, HandlesInv, ContentInv
  <2> QED
    BY <2>1, <2>2, CutView
<1>3. ASSUME Kept(disk, disk'), IsSeq(disk'), lease' = p,
             pc'[p] \notin {"closed", "magic", "scan"},
             \A q \in Proc \ {p} : Same(q) /\ db'[q] = db[q]
      PROVE  AllTold(g)'
  <2>1. ASSUME NEW q \in Proc \ {p} PROVE Watches(q)
    BY <1>3, SameWatches
  <2> QED
    BY <1>3, <2>1, MovedView
<1>4. CASE WriteHeader(p)
  <2>1. Kept(disk, disk') /\ IsSeq(disk')
    BY <1>4, HeaderAppends
  <2> QED
    BY <1>1, <1>3, <1>4, <2>1 DEF WriteHeader, HandlesInv, Same
<1>5. CASE WritePayload(p)
  <2>1. Kept(disk, disk') /\ IsSeq(disk')
    BY <1>5, PayloadCompletes
  <2> QED
    BY <1>1, <1>3, <1>5, <2>1 DEF WritePayload, HandlesInv, Same
<1>6. CASE WriteFault(p) \/ Sync(p)
  <2>1. disk' = disk
    BY <1>6 DEF WriteFault, Sync, file
  <2>2. Kept(disk, disk') /\ IsSeq(disk')
    BY <2>1, NothingKept DEF ContentInv, SoundLog
  <2> QED
    BY <1>1, <1>3, <1>6, <2>2 DEF WriteFault, Sync, file, HandlesInv, ContentInv, Same
<1> QED
  BY <1>2, <1>4, <1>5, <1>6 DEF Write, SyncFault, RollbackFault

LEMMA ViewsStep ==
    ASSUME "rollback" \notin Failures, "sync" \notin Failures,
           HandlesInv, StoreInv, ContentInv, ViewsInv, NEW h, AllTold(h), Followed(h),
           NEW g, Followed(g)', [Next]_vars,
           \A p \in Proc : ScanClean(p) \/ ScanProvisional(p) => ~Overtaken(cursor[p])
    PROVE  \E k : AllTold(k)'
<1>1. CASE UNCHANGED vars
  <2>1. AllTold(h)' = AllTold(h)
    BY <1>1 DEF vars, file, handles, AllTold, ViewTold, HasView, Overtaken, Sampled, Valid
  <2> QED
    BY <2>1
<1>2. ASSUME NEW p \in Proc, Call(p)
      PROVE  \E k : AllTold(k)'
  BY <1>2, CallView
<1>3. ASSUME NEW p \in Proc, SyncMagic(p)
      PROVE  \E k : AllTold(k)'
  <2>1. ~HasView(p)
    BY <1>3 DEF SyncMagic, HasView
  <2> QED
    BY <1>3, <2>1, StartScanView DEF SyncMagic
<1>4. ASSUME NEW p \in Proc, Crash(p) \/ SyncMagicFault(p)
      PROVE  \E k : AllTold(k)'
  BY <1>4, ReleaseView DEF Crash, SyncMagicFault
<1>5. ASSUME NEW p \in Proc, Scan(p)
      PROVE  \E k : AllTold(k)'
  BY <1>5, ScanView
<1>6. ASSUME NEW p \in Proc, Write(p)
      PROVE  \E k : AllTold(k)'
  BY <1>6, WriteView
<1>7. CASE PowerLoss
  <2>1. \A q \in Proc : pc'[q] = "closed" /\ db'[q] = EmptyIndex
    BY <1>7 DEF PowerLoss, Release, Reset
  <2>2. AllTold(g)'
    BY <2>1, ClosedView DEF AllTold, Followed
  <2> QED
    BY <2>2
<1> QED
  BY <1>1, <1>2, <1>3, <1>4, <1>5, <1>6, <1>7 DEF Next

(* There is but one replay of a log. *)
LEMMA AgreedTold ==
    ASSUME NEW h, NEW k, Told(h, disk), Told(k, disk), IsSeq(disk)
    PROVE  k = h
<1>1. Len(disk) \in Nat /\ \A i \in 1..Len(disk) : disk[i].frame = disk[i].frame
  BY DEF IsSeq
<1>2. \A i \in 0..Len(disk) : k[i + 1] = h[i + 1]
  BY <1>1, ToldUnique
<1>3. Len(h) = Len(disk) + 1 /\ Len(k) = Len(h) /\ IsSeq(h) /\ IsSeq(k)
  BY DEF Told
<1>4. ASSUME NEW i \in 1..Len(h) PROVE k[i] = h[i]
  <2>1. i - 1 \in 0..Len(disk) /\ (i - 1) + 1 = i
    BY <1>1, <1>3
  <2> QED
    BY <1>2, <2>1
<1> QED
  BY <1>3, <1>4 DEF IsSeq

(* While neither rollbacks nor syncs fail, and no view is returned that was *)
(* read while the file was cut under the scan: every index, live, recovered *)
(* or refreshed, is what recovery has at its place in the log.             *)
THEOREM SpecViewsTold ==
    ASSUME "rollback" \notin Failures, "sync" \notin Failures
    PROVE  Spec /\ Undisturbed => []ViewsTold
<1>1. Init => ViewsTold
  <2> SUFFICES ASSUME Init PROVE ViewsTold
    OBVIOUS
  <2>1. PICK h : Followed(h)
    BY FollowedInit
  <2>2. \A q \in Proc : ViewTold(h, q)
    BY DEF Init, ViewTold, HasView
  <2> QED
    BY <2>1, <2>2 DEF ViewsTold, Followed
<1> DEFINE Calm == \A p \in Proc : ScanClean(p) \/ ScanProvisional(p) => ~Overtaken(cursor[p])
<1>2. /\ FileInv /\ HandlesInv /\ ContentInv /\ ViewsInv /\ ReplayInv /\ ReplayInv' /\ ViewsTold
      /\ [Next]_vars /\ [Calm]_vars
      => ViewsTold'
  <2> SUFFICES ASSUME HandlesInv, StoreInv, ContentInv, ViewsInv, ReplayInv, ReplayInv', ViewsTold,
                      [Next]_vars, [Calm]_vars
               PROVE  ViewsTold'
    BY DEF FileInv
  <2>1. PICK h : AllTold(h)
    BY DEF ViewsTold, AllTold
  <2>2. PICK f : Followed(f)
    BY DEF ReplayInv, Followed
  <2>3. PICK g : Followed(g)'
    BY DEF ReplayInv, Followed
  <2>4. f = h
    BY <2>1, <2>2, AgreedTold DEF AllTold, Followed, ContentInv, SoundLog
  <2>5. CASE UNCHANGED vars
    <3>1. ViewsTold' = ViewsTold
      BY <2>5 DEF vars, file, handles, ViewsTold, ViewTold, HasView, Overtaken, Sampled, Valid
    <3> QED
      BY <3>1
  <2>6. CASE Calm
    <3>1. \E k : AllTold(k)'
      BY <2>1, <2>2, <2>3, <2>4, <2>6, ViewsStep
    <3> QED
      BY <3>1 DEF ViewsTold, AllTold
  <2> QED
    BY <2>5, <2>6
<1>3. Spec => []FileInv
  BY SpecFile
<1>4. Spec => []ViewsInv
  BY SpecViews
<1>5. Spec => []ReplayInv
  BY SpecReplay
<1>6. Undisturbed <=> [][Calm]_vars
  BY DEF Undisturbed
<1> HIDE DEF Calm
<1> QED
  BY <1>1, <1>2, <1>3, <1>4, <1>5, <1>6, SpecContent, PTL DEF Spec

-----------------------------------------------------------------------------
(* The replay only adds: what it has later extends what it had. *)

IsHistory(history) == \A name \in DOMAIN history : IsSeq(history[name])

(* w has all that v has, and versions besides that committed at n or later. *)
Extends(v, w, n) ==
    /\ v.bonds \subseteq w.bonds
    /\ \A name \in DOMAIN v.root_history :
          /\ name \in DOMAIN w.root_history
          /\ Len(v.root_history[name]) <= Len(w.root_history[name])
          /\ \A k \in 1..Len(v.root_history[name]) :
                w.root_history[name][k] = v.root_history[name][k]
    /\ \A name \in DOMAIN w.root_history : \A k \in 1..Len(w.root_history[name]) :
          \/ name \in DOMAIN v.root_history /\ k <= Len(v.root_history[name])
          \/ w.root_history[name][k].commit_sequence >= n

Later(v, w, n) == IsIndex(w) /\ IsHistory(w.root_history) /\ Extends(v, w, n)

LEMMA LaterSame ==
    ASSUME NEW v, NEW w, NEW x, NEW n, Later(v, w, n), IsIndex(x), w.bonds \subseteq x.bonds,
           x.root_history = w.root_history
    PROVE  Later(v, x, n)
  BY DEF Later, Extends

LEMMA RootExtends ==
    ASSUME NEW v, IsHistory(v.root_history), NEW w, NEW n, Later(v, w, n), NEW change,
           NEW sequence, NEW commit_sequence, commit_sequence >= n, NEW cell
    PROVE  Later(v, apply_root(w, change, sequence, commit_sequence, cell), n)
<1> DEFINE x == apply_root(w, change, sequence, commit_sequence, cell)
           name == change[1]
           old == Get(w.root_history, name, <<>>)
           version == RootVersion(change, sequence, commit_sequence, cell)
           new == Append(old, version)
<1>1. DOMAIN w = IndexFields
  BY DEF Later, IsIndex, EmptyIndex, IndexFields
<1>2. x.bonds = w.bonds /\ x.root_history = Insert(w.root_history, name, new)
  BY <1>1 DEF apply_root, IndexFields
<1>3. IsIndex(x)
  <2>1. x = Effect(w, <<"root", change, sequence, commit_sequence, cell>>)
    BY DEF Effect
  <2> QED
    BY <2>1, EffectKeepsMap DEF Later
<1>4. IsSeq(old)
  BY DEF Get, IsSeq, Later, IsHistory
<1>5. version.commit_sequence = commit_sequence
  BY DEF RootVersion
<1> HIDE DEF version
<1>6. /\ IsSeq(new) /\ Len(old) \in Nat /\ Len(new) = Len(old) + 1
      /\ new[Len(old) + 1] = version /\ \A i \in 1..Len(old) : new[i] = old[i]
  BY <1>4, AppendSeq DEF IsSeq
<1> HIDE DEF x, new
<1>7. /\ DOMAIN x.root_history = DOMAIN w.root_history \cup {name}
      /\ x.root_history[name] = new
      /\ \A other \in DOMAIN w.root_history \ {name} :
            x.root_history[other] = w.root_history[other]
  BY <1>2 DEF Insert
<1>8. IsHistory(x.root_history)
  BY <1>6, <1>7 DEF Later, IsHistory
<1>9. ASSUME NEW other \in DOMAIN v.root_history
      PROVE  /\ other \in DOMAIN x.root_history
             /\ Len(v.root_history[other]) <= Len(x.root_history[other])
             /\ \A k \in 1..Len(v.root_history[other]) :
                   x.root_history[other][k] = v.root_history[other][k]
  <2>1. /\ other \in DOMAIN w.root_history
        /\ Len(v.root_history[other]) <= Len(w.root_history[other])
        /\ \A k \in 1..Len(v.root_history[other]) :
              w.root_history[other][k] = v.root_history[other][k]
    BY DEF Later, Extends
  <2>2. CASE other = name
    <3>1. old = w.root_history[other] /\ Len(v.root_history[other]) \in Nat
      BY <2>1, <2>2 DEF Get, IsHistory, IsSeq
    <3> HIDE DEF old
    <3> QED
      BY <1>6, <1>7, <2>1, <2>2, <3>1
  <2>3. CASE other # name
    BY <1>7, <2>1, <2>3
  <2> QED
    BY <2>2, <2>3
<1>10. ASSUME NEW other \in DOMAIN x.root_history, NEW k \in 1..Len(x.root_history[other])
       PROVE  \/ other \in DOMAIN v.root_history /\ k <= Len(v.root_history[other])
              \/ x.root_history[other][k].commit_sequence >= n
  <2>1. CASE other = name
    <3>1. CASE k = Len(old) + 1
      BY <1>5, <1>6, <1>7, <2>1, <3>1
    <3>2. CASE k # Len(old) + 1
      <4>1. k \in 1..Len(old) /\ x.root_history[other][k] = old[k]
        BY <1>6, <1>7, <2>1, <3>2
      <4>2. name \in DOMAIN w.root_history /\ old = w.root_history[name]
        BY <4>1 DEF Get
      <4> QED
        BY <2>1, <4>1, <4>2 DEF Later, Extends
    <3> QED
      BY <3>1, <3>2
  <2>2. CASE other # name
    BY <1>7, <2>2 DEF Later, Extends
  <2> QED
    BY <2>1, <2>2
<1>11. Extends(v, x, n)
  BY <1>2, <1>9, <1>10 DEF Later, Extends
<1> QED
  BY <1>3, <1>8, <1>11 DEF Later, x

LEMMA EffectExtends ==
    ASSUME NEW v, IsHistory(v.root_history), NEW w, NEW n, Later(v, w, n), NEW e,
           e[1] = "root" => e[4] >= n
    PROVE  Later(v, Effect(w, e), n)
<1>1. IsIndex(Effect(w, e)) /\ DOMAIN w = IndexFields
  BY EffectKeepsMap DEF Later, IsIndex, EmptyIndex, IndexFields
<1>2. CASE e[1] = "root"
  BY <1>2, RootExtends DEF Effect
<1>3. CASE e[1] # "root"
  <2>1. /\ w.bonds \subseteq Effect(w, e).bonds
        /\ Effect(w, e).root_history = w.root_history
    BY <1>1, <1>3 DEF Effect, InsertAtom, InsertBond, IndexFields
  <2> QED
    BY <1>1, <2>1, LaterSame
<1> QED
  BY <1>2, <1>3

LEMMA RunExtends ==
    ASSUME NEW v, IsHistory(v.root_history), NEW w, NEW n, Later(v, w, n), NEW N \in Nat, NEW e,
           NEW g, IsRun(g, N, w, e), \A k \in 1..N : e[k][1] = "root" => e[k][4] >= n
    PROVE  Later(v, g[N], n)
<1> DEFINE T == {k \in 0..N : Later(v, g[k], n)}
<1>1. 0 \in T
  BY DEF IsRun
<1>2. ASSUME NEW k \in 0..N, k \in T, k < N PROVE k + 1 \in T
  <2> DEFINE x == k + 1
  <2>1. x \in 1..N /\ x \in 0..N /\ x - 1 = k
    BY <1>2
  <2>2. g[x] = Effect(g[k], e[x]) /\ (e[x][1] = "root" => e[x][4] >= n)
    BY <2>1 DEF IsRun
  <2> HIDE DEF x
  <2>3. Later(v, g[x], n)
    BY <1>2, <2>2, EffectExtends
  <2> QED
    BY <2>1, <2>3 DEF x
<1> HIDE DEF T
<1>3. \A k \in 0..N : k \in T
  BY <1>1, <1>2, InductionUpTo
<1> QED
  BY <1>3 DEF T

LEMMA FrameExtends ==
    ASSUME NEW v, IsHistory(v.root_history), NEW w, NEW n, Later(v, w, n), NEW cell,
           IsSeq(cell.bonds), IsSeq(cell.roots), NEW frame, frame.sequence >= n, NEW number
    PROVE  Later(v, IndexAfter(w, cell, frame, number), n)
<1>1. DOMAIN w = IndexFields /\ IsIndex(w)
  BY DEF Later, IsIndex, EmptyIndex, IndexFields
<1>2. IsIndex(IndexAfter(w, cell, frame, number))
  BY <1>1, IndexAfterKeepsMap
<1>3. CASE frame.kind # "commit"
  <2>1. /\ w.bonds \subseteq IndexAfter(w, cell, frame, number).bonds
        /\ IndexAfter(w, cell, frame, number).root_history = w.root_history
    BY <1>1, <1>3 DEF IndexAfter, InsertAtom, InsertBond, IndexFields
  <2> QED
    BY <1>2, <2>1, LaterSame
<1>4. CASE frame.kind = "commit"
  <2> DEFINE B == Len(cell.bonds)
             R == Len(cell.roots)
             stamp == frame.sequence
             base == WithAtoms(w, cell)
  <2>1. PICK g, h : /\ IsRun(g, B, base, BondEffects(cell))
                    /\ IsRun(h, R, g[B], RootEffects(cell, stamp))
                    /\ ApplyCell(w, cell, stamp) = CellCounted(h[R])
    BY CellRuns
  <2>2. Later(v, base, n)
    <3>1. base.bonds = w.bonds /\ base.root_history = w.root_history /\ IsIndex(base)
      BY <1>1 DEF WithAtoms, IndexFields, IsIndex, IsMap
    <3> HIDE DEF base
    <3> QED
      BY <3>1, LaterSame
  <2>3. /\ B \in Nat /\ R \in Nat
        /\ \A k \in 1..B : BondEffects(cell)[k][1] # "root"
        /\ \A k \in 1..R : RootEffects(cell, stamp)[k][4] >= n
    BY DEF BondEffects, RootEffects, IsSeq
  <2> HIDE DEF base, B, R
  <2>4. Later(v, g[B], n)
    BY <2>1, <2>2, <2>3, RunExtends
  <2>5. Later(v, h[R], n)
    BY <2>1, <2>3, <2>4, RunExtends
  <2>6. IndexAfter(w, cell, frame, number) = CellCounted(h[R])
    BY <1>4, <2>1 DEF IndexAfter
  <2>7. /\ CellCounted(h[R]).bonds = h[R].bonds
        /\ CellCounted(h[R]).root_history = h[R].root_history
    BY <2>5 DEF CellCounted, Later, IsIndex, EmptyIndex
  <2> QED
    BY <1>2, <2>5, <2>6, <2>7, LaterSame
<1> QED
  BY <1>3, <1>4

(* What recovery has later extends what it had. *)
LEMMA ReplayExtends ==
    ASSUME NEW h, NEW d, Told(h, d), LogInv(d), NEW n \in Nat, NEW m \in Nat, n <= m, m < Len(h),
           IsHistory(h[n + 1].db.root_history)
    PROVE  Extends(h[n + 1].db, h[m + 1].db, n)
<1> DEFINE v == h[n + 1].db
           N == m - n
           T == {k \in 0..N : Later(v, h[n + k + 1].db, n)}
<1>1. Len(d) \in Nat /\ Len(h) = Len(d) + 1 /\ N \in Nat
  BY DEF LogInv, IsSeq, Told
<1>2. 0 \in T
  <2>1. n + 1 \in 1..Len(h) /\ n + 0 + 1 = n + 1
    BY <1>1
  <2>2. IsIndex(v)
    BY <2>1 DEF Told, Begun
  <2>3. \A name \in DOMAIN v.root_history : Len(v.root_history[name]) \in Nat
    BY DEF IsHistory, IsSeq
  <2>4. Extends(v, v, n)
    <3> HIDE DEF v
    <3> QED
      BY <2>3 DEF Extends
  <2>5. Later(v, h[n + 0 + 1].db, n)
    BY <2>1, <2>2, <2>4 DEF Later
  <2> QED
    BY <1>1, <2>5
<1>3. ASSUME NEW k \in 0..N, k \in T, k < N PROVE k + 1 \in T
  <2> DEFINE i == n + k + 1
  <2>1. i \in 1..Len(d) /\ i \in 1..Len(h) /\ i - 1 >= n /\ n + (k + 1) + 1 = i + 1
    BY <1>1, <1>3
  <2>2. /\ FrameSteps(h[i], d[i].frame, i, h[i + 1]) /\ Begun(h, i)
        /\ d[i].frame.sequence = i - 1
    BY <2>1 DEF Told, LogInv
  <2>3. Later(v, h[i].db, n)
    BY <1>3
  <2> HIDE DEF i, v
  <2>4. h[i + 1].db = IndexAfter(h[i].db, h[i].cell, d[i].frame, i)
    BY <2>2 DEF FrameSteps, State
  <2>5. IsSeq(h[i].cell.bonds) /\ IsSeq(h[i].cell.roots)
    BY <2>2 DEF Begun
  <2>6. IsHistory(v.root_history)
    BY DEF v
  <2>7. Later(v, h[i + 1].db, n)
    BY <2>1, <2>2, <2>3, <2>4, <2>5, <2>6, FrameExtends
  <2>8. Later(v, h[n + (k + 1) + 1].db, n)
    BY <2>1, <2>7
  <2> QED
    BY <1>1, <1>3, <2>8 DEF v
<1>4. \A k \in 0..N : k \in T
  <2> HIDE DEF T, N
  <2> QED
    BY <1>1, <1>2, <1>3, InductionUpTo
<1>5. N \in 0..N /\ n + N + 1 = m + 1
  BY <1>1
<1>6. Later(v, h[n + N + 1].db, n)
  BY <1>4, <1>5
<1> QED
  BY <1>5, <1>6 DEF Later

LEMMA SnapshotsSame ==
    ASSUME NEW v, NEW w, NEW n \in Nat, NEW m \in Nat, IndexInv(v, n), IndexInv(w, m),
           Extends(v, w, n), NEW s \in 0..n
    PROVE  snapshot_at(v, s) = snapshot_at(w, s)
<1> DEFINE seen(view, name) ==
               {k \in 1..Len(view.root_history[name]) :
                   view.root_history[name][k].commit_sequence < s}
           now(view, name) ==
               IF seen(view, name) = {} THEN None
               ELSE view.root_history[name][Max(seen(view, name))].target
           shown(view) == {name \in DOMAIN view.root_history : now(view, name) # None}
<1>1. \A view : snapshot_at(view, s) = [name \in shown(view) |-> now(view, name)]
  BY DEF snapshot_at
<1>2. \A name \in DOMAIN v.root_history :
         /\ Len(v.root_history[name]) \in Nat
         /\ \A k \in 1..Len(v.root_history[name]) : v.root_history[name][k].commit_sequence \in Nat
  BY DEF IndexInv, VersionsInv, IsSeq
<1>3. \A name \in DOMAIN w.root_history :
         /\ Len(w.root_history[name]) \in Nat
         /\ \A k \in 1..Len(w.root_history[name]) : w.root_history[name][k].commit_sequence \in Nat
  BY DEF IndexInv, VersionsInv, IsSeq
<1>4. ASSUME NEW name \in DOMAIN v.root_history
      PROVE  name \in DOMAIN w.root_history /\ now(w, name) = now(v, name)
  <2>1. /\ name \in DOMAIN w.root_history
        /\ Len(v.root_history[name]) <= Len(w.root_history[name])
        /\ \A k \in 1..Len(v.root_history[name]) :
              w.root_history[name][k] = v.root_history[name][k]
        /\ \A k \in 1..Len(w.root_history[name]) :
              \/ k <= Len(v.root_history[name])
              \/ w.root_history[name][k].commit_sequence >= n
    BY DEF Extends
  <2>2. seen(w, name) = seen(v, name)
    BY <1>2, <1>3, <2>1
  <2>3. CASE seen(v, name) = {}
    BY <2>1, <2>2, <2>3
  <2>4. CASE seen(v, name) # {}
    <3>1. Max(seen(v, name)) \in seen(v, name)
      <4>1. seen(v, name) \subseteq Int /\ \A k \in seen(v, name) : k <= Len(v.root_history[name])
        BY <1>2
      <4>2. Len(v.root_history[name]) \in Int
        BY <1>2
      <4> HIDE DEF seen
      <4> QED
        BY <2>4, <4>1, <4>2, MaxIn
    <3>2. Max(seen(v, name)) \in 1..Len(v.root_history[name])
      BY <3>1
    <3> HIDE DEF seen
    <3> QED
      BY <2>1, <2>2, <2>4, <3>2
  <2> QED
    BY <2>3, <2>4
<1>5. ASSUME NEW name \in DOMAIN w.root_history, name \notin DOMAIN v.root_history
      PROVE  now(w, name) = None
  <2>1. \A k \in 1..Len(w.root_history[name]) : w.root_history[name][k].commit_sequence >= n
    BY <1>5 DEF Extends
  <2>2. seen(w, name) = {}
    BY <1>3, <2>1
  <2> QED
    BY <2>2
<1> HIDE DEF now
<1>6. shown(v) = shown(w) /\ \A name \in shown(v) : now(w, name) = now(v, name)
  BY <1>4, <1>5
<1> HIDE DEF shown
<1>7. [name \in shown(v) |-> now(v, name)] = [name \in shown(w) |-> now(w, name)]
  BY <1>6
<1> QED
  BY <1>1, <1>7

(* The replay has, at a later place, more than a handle knows. *)
LEMMA ViewsExtend ==
    ASSUME DiskInv, ContentInv, NEW h, AllTold(h), NEW p \in Proc, HasView(p), NEW m \in Nat,
           next_sequence[p] <= m, m < Len(h), NEW w, h[m + 1].db = w
    PROVE  Extends(db[p], w, next_sequence[p])
<1> DEFINE n == next_sequence[p]
<1>1. n \in Nat /\ IndexInv(db[p], n)
  BY DEF ContentInv, HandleInv
<1>2. h[n + 1] = State(db[p], NoCell)
  BY DEF AllTold, ViewTold
<1>3. h[n + 1].db = db[p]
  BY <1>2, StateHas
<1>4. IsHistory(db[p].root_history)
  BY <1>1 DEF IndexInv, VersionsInv, IsHistory
<1>5. Told(h, disk) /\ LogInv(disk)
  BY DEF AllTold, DiskInv
<1> QED
  BY <1>1, <1>3, <1>4, <1>5, ReplayExtends

(* Under the same conditions two handles that have both reached a sequence  *)
(* see the same past (snapshot_at), however far each of them is.           *)
THEOREM SpecSnapshotsAgree ==
    ASSUME "rollback" \notin Failures, "sync" \notin Failures
    PROVE  Spec /\ Undisturbed => []SnapshotsAgree
<1>1. FileInv /\ ContentInv /\ ViewsTold => SnapshotsAgree
  <2> SUFFICES ASSUME DiskInv, ContentInv, ViewsTold, NEW p \in Proc, NEW q \in Proc,
                      HasView(p), HasView(q), next_sequence[p] <= next_sequence[q],
                      NEW s \in 0..next_sequence[p]
               PROVE  snapshot_at(db[p], s) = snapshot_at(db[q], s)
    BY DEF FileInv, StoreInv, SnapshotsAgree
  <2>1. PICK h : AllTold(h)
    BY DEF ViewsTold, AllTold
  <2> DEFINE n == next_sequence[p]
             m == next_sequence[q]
  <2>2. n \in Nat /\ m \in Nat /\ IndexInv(db[p], n) /\ IndexInv(db[q], m)
    BY DEF ContentInv, HandleInv
  <2>3. m < Len(h) /\ h[m + 1] = State(db[q], NoCell)
    BY <2>1 DEF AllTold, ViewTold
  <2>4. h[m + 1].db = db[q]
    BY <2>3, StateHas
  <2>5. Extends(db[p], db[q], n)
    BY <2>1, <2>2, <2>3, <2>4, ViewsExtend
  <2> QED
    BY <2>2, <2>5, SnapshotsSame
<1>2. Spec => []FileInv
  BY SpecFile
<1> QED
  BY <1>1, <1>2, SpecContent, SpecViewsTold, PTL

(* A refresh that ends has finished its scan or has failed. *)
LEMMA RefreshEnds ==
    ASSUME HandlesInv, ContentInv, NEW p \in Proc, pc[p] = "scan", cursor[p].refresh,
           pc'[p] = "ready", [Next]_vars
    PROVE  \/ ScanClean(p) \/ ScanProvisional(p)
           \/ next_sequence'[p] = next_sequence[p] /\ db'[p] = db[p]
<1>1. ASSUME pc'[p] = pc[p] \/ pc'[p] = "closed"
      PROVE  FALSE
  BY <1>1
<1>2. CASE UNCHANGED vars
  BY <1>1, <1>2 DEF vars, handles
<1>3. ASSUME NEW q \in Proc, Call(q)
      PROVE  FALSE
  <2>1. CASE UNCHANGED vars
    BY <1>1, <2>1 DEF vars, handles
  <2>2. ASSUME pc[q] \in {"closed", "ready"}, NEW value, pc' = [pc EXCEPT ![q] = value] \/ pc' = pc
        PROVE  FALSE
    BY <1>1, <2>2 DEF HandlesInv
  <2>3. CASE OpenWriter(q) \/ OpenReadOnly(q) \/ Refresh(q)
    BY <2>2, <2>3 DEF OpenWriter, OpenReadOnly, Refresh, StartScan
  <2>4. CASE CreateStore(q) \/ CreateStoreFault(q) \/ Flush(q)
    BY <2>2, <2>4 DEF CreateStore, CreateStoreFault, Flush, ReadyWriter
  <2>5. CASE Close(q)
    BY <1>1, <2>5 DEF Close, Release, Reset, HandlesInv
  <2>6. ASSUME NEW frames, StartWrite(q, frames), ReadyWriter(q) PROVE FALSE
    BY <2>2, <2>6 DEF StartWrite, ReadyWriter
  <2>7. ASSUME NEW bytes \in Bytes, PutAtom(q, bytes) PROVE FALSE
    BY <2>1, <2>6, <2>7 DEF PutAtom
  <2>8. ASSUME NEW bond \in Bonds, PutBond(q, bond) PROVE FALSE
    BY <2>1, <2>6, <2>8 DEF PutBond
  <2>9. ASSUME NEW cell \in Cells, CommitCell(q, cell) PROVE FALSE
    BY <2>1, <2>6, <2>9, Zenon DEF CommitCell
  <2> QED
    BY <1>3, <2>1, <2>3, <2>4, <2>5, <2>7, <2>8, <2>9
       DEF Call, OpenBusy, OpenRejected, Refuse
<1>4. ASSUME NEW q \in Proc, SyncMagic(q) \/ SyncMagicFault(q) \/ Crash(q)
      PROVE  FALSE
  BY <1>1, <1>4 DEF SyncMagic, SyncMagicFault, Crash, StartScan, Release, Reset, HandlesInv
<1>5. ASSUME NEW q \in Proc, Write(q)
      PROVE  FALSE
  <2>1. q # p
    BY <1>5 DEF Write, WriteHeader, WritePayload, WriteFault, Sync, SyncFault, Rollback,
                RollbackFault
  <2>2. pc'[p] = pc[p]
    BY <1>5, <2>1, Zenon DEF Write, WriteHeader, WritePayload, WriteFault, Sync, SyncFault, Rollback,
                      RollbackFault, HandlesInv
  <2> QED
    BY <1>1, <2>2
<1>6. CASE PowerLoss
  BY <1>1, <1>6 DEF PowerLoss, Release, Reset
<1>7. ASSUME NEW q \in Proc, Scan(q), ~ScanClean(p), ~ScanProvisional(p)
      PROVE  next_sequence'[p] = next_sequence[p] /\ db'[p] = db[p]
  <2>1. CASE ScanFrame(q)
    BY <1>1, <2>1 DEF ScanFrame
  <2>2. ASSUME NEW value, Fail(q, value)
        PROVE  next_sequence'[p] = next_sequence[p] /\ db'[p] = db[p]
    BY <1>1, <2>2 DEF Fail, Release, Reset, HandlesInv
  <2>3. CASE ScanCorrupt(q) \/ ScanEof(q)
    BY <2>2, <2>3 DEF ScanCorrupt, ScanEof
  <2>4. CASE Repair(q)
    <3>1. q # p
      BY <2>4 DEF Repair, HandlesInv
    <3> QED
      BY <1>1, <2>4, <3>1 DEF Repair, HandlesInv
  <2>5. CASE RepairFault(q)
    BY <1>1, <2>5 DEF RepairFault, Release, Reset, HandlesInv
  <2>6. CASE ScanClean(q) \/ ScanProvisional(q)
    <3>1. q # p
      BY <1>7, <2>6
    <3>2. pc'[p] = pc[p]
      BY <2>6, <3>1 DEF ScanClean, ScanProvisional, Finish, HandlesInv
    <3> QED
      BY <1>1, <3>2
  <2> QED
    BY <1>7, <2>1, <2>3, <2>4, <2>5, <2>6 DEF Scan
<1> QED
  BY <1>2, <1>3, <1>4, <1>5, <1>6, <1>7 DEF Next

Replies == DOMAIN reply = Proc

LEMMA SpecReplies == Spec => []Replies
<1>1. Init => Replies
  BY DEF Init, Replies
<1>2. Replies /\ [Next]_vars => Replies'
  <2> SUFFICES ASSUME DOMAIN reply = Proc, [Next]_vars PROVE DOMAIN reply' = Proc
    BY DEF Replies
  <2>1. ASSUME NEW p, NEW value, Answer(p, value) PROVE DOMAIN reply' = Proc
    BY <2>1 DEF Answer
  <2>2. ASSUME NEW S, NEW value, Release(S, value) PROVE DOMAIN reply' = Proc
    BY <2>2 DEF Release, Reset
  <2>3. ASSUME NEW p, NEW value, Fail(p, value) PROVE DOMAIN reply' = Proc
    BY <2>1, <2>2, <2>3 DEF Fail
  <2>4. ASSUME UNCHANGED vars PROVE DOMAIN reply' = Proc
    BY <2>4 DEF vars, handles
  <2>5. ASSUME NEW p \in Proc, NEW frames, StartWrite(p, frames) PROVE DOMAIN reply' = Proc
    BY <2>1, <2>5 DEF StartWrite
  <2>6. ASSUME NEW p \in Proc, NEW bytes \in Bytes, PutAtom(p, bytes) PROVE DOMAIN reply' = Proc
    BY <2>4, <2>5, <2>6 DEF PutAtom
  <2>7. ASSUME NEW p \in Proc, NEW bond \in Bonds, PutBond(p, bond) PROVE DOMAIN reply' = Proc
    BY <2>4, <2>5, <2>7 DEF PutBond
  <2>8. ASSUME NEW p \in Proc, NEW cell \in Cells, CommitCell(p, cell)
        PROVE  DOMAIN reply' = Proc
    BY <2>4, <2>5, <2>8, Zenon DEF CommitCell
  <2>9. ASSUME NEW p \in Proc, Call(p) PROVE DOMAIN reply' = Proc
    BY <2>1, <2>2, <2>4, <2>6, <2>7, <2>8, <2>9, Zenon
       DEF Call, OpenBusy, OpenWriter, CreateStore, CreateStoreFault, OpenReadOnly, OpenRejected,
           Refresh, Refuse, Flush, Close
  <2>10. ASSUME NEW p \in Proc, SyncMagic(p) \/ SyncMagicFault(p) \/ Crash(p)
         PROVE  DOMAIN reply' = Proc
    BY <2>2, <2>10 DEF SyncMagic, SyncMagicFault, Crash
  <2>11. ASSUME NEW p \in Proc, Scan(p) PROVE DOMAIN reply' = Proc
    BY <2>1, <2>2, <2>3, <2>11, Zenon
       DEF Scan, ScanFrame, ScanCorrupt, ScanEof, ScanClean, ScanProvisional, Finish, Repair,
           RepairFault
  <2>12. ASSUME NEW p \in Proc, Write(p) PROVE DOMAIN reply' = Proc
    BY <2>1, <2>12, Zenon
       DEF Write, WriteHeader, WritePayload, WriteFault, Sync, SyncFault, Rollback, RollbackFault
  <2>13. CASE PowerLoss
    BY <2>2, <2>13 DEF PowerLoss
  <2> QED
    BY <2>4, <2>9, <2>10, <2>11, <2>12, <2>13 DEF Next
<1> QED
  BY <1>1, <1>2, PTL DEF Spec

(* Under the same conditions a refresh never goes back, takes no fact away, *)
(* and has changed nothing when it reports no change.                      *)
THEOREM SpecRefreshHonest ==
    ASSUME "rollback" \notin Failures, "sync" \notin Failures
    PROVE  Spec /\ Undisturbed => RefreshHonest
<1> DEFINE Calm == \A p \in Proc : ScanClean(p) \/ ScanProvisional(p) => ~Overtaken(cursor[p])
           Honest == \A p \in Proc :
               pc[p] = "scan" /\ cursor[p].refresh /\ pc'[p] = "ready" =>
                   /\ next_sequence'[p] >= next_sequence[p]
                   /\ db[p].bonds \subseteq db'[p].bonds
                   /\ reply'[p] # "changed" => db'[p] = db[p]
<1>1. /\ FileInv /\ HandlesInv /\ ContentInv /\ ViewsInv /\ ViewsTold /\ Replies
      /\ [Next]_vars /\ Calm
      => Honest
  <2> SUFFICES ASSUME HandlesInv, DiskInv, ContentInv, ViewsInv, ViewsTold, DOMAIN reply = Proc,
                      [Next]_vars, Calm,
                      NEW p \in Proc, pc[p] = "scan", cursor[p].refresh, pc'[p] = "ready"
               PROVE  /\ next_sequence'[p] >= next_sequence[p]
                      /\ db[p].bonds \subseteq db'[p].bonds
                      /\ reply'[p] # "changed" => db'[p] = db[p]
    BY DEF FileInv, StoreInv, Replies
  <2> DEFINE n == next_sequence[p]
             m == Valid(cursor[p])
  <2>1. n \in Nat /\ HasView(p)
    BY DEF ContentInv, HandleInv, HasView
  <2>2. CASE next_sequence'[p] = n /\ db'[p] = db[p]
    BY <2>1, <2>2
  <2>3. CASE ScanClean(p) \/ ScanProvisional(p)
    <3>1. ~Overtaken(cursor[p])
      BY <2>3
    <3>2. next_sequence'[p] = m /\ m \in Nat /\ n <= m
      BY <2>1, <2>3, FinishGrows
    <3>3. /\ db'[p] = cursor[p].db
          /\ reply'[p] # "changed" => m = n
      BY <2>3 DEF ScanClean, ScanProvisional, Finish, Answer, Changed, ContentInv, Valid
    <3>4. PICK h : AllTold(h)
      BY DEF ViewsTold, AllTold
    <3>5. m < Len(h) /\ h[m + 1] = State(cursor[p].db, NoCell)
      BY <3>1, <3>4 DEF AllTold, ViewTold
    <3>6. h[n + 1] = State(db[p], NoCell)
      BY <2>1, <3>4 DEF AllTold, ViewTold
    <3>7. h[m + 1].db = cursor[p].db /\ h[n + 1].db = db[p]
      BY <3>5, <3>6, StateHas
    <3>8. Extends(db[p], cursor[p].db, n)
      BY <2>1, <3>2, <3>4, <3>5, <3>7, ViewsExtend
    <3>9. db[p].bonds \subseteq db'[p].bonds
      BY <3>3, <3>8 DEF Extends
    <3>10. reply'[p] # "changed" => db'[p] = db[p]
      BY <3>3, <3>7
    <3> QED
      BY <2>1, <3>2, <3>9, <3>10
  <2> QED
    BY <2>2, <2>3, RefreshEnds
<1>2. Spec => []FileInv
  BY SpecFile
<1>3. Spec => []ViewsInv
  BY SpecViews
<1>4. Undisturbed <=> [][Calm]_vars
  BY DEF Undisturbed
<1>5. RefreshHonest <=> [][Honest]_vars
  BY DEF RefreshHonest
<1> HIDE DEF Calm, Honest
<1> QED
  BY <1>1, <1>2, <1>3, <1>4, <1>5, SpecContent, SpecViewsTold, SpecReplies, PTL DEF Spec

-----------------------------------------------------------------------------
(* What the replay has at a place is what the frames before it say. *)

(* The atom of the i-th frame. *)
IdentityAt(i) == atom_identity(FrameAt(i).payload[1])

(* The map is of the atoms of these frames, each at one of its frames. *)
AtomsOf(map, A) ==
    /\ DOMAIN map = {IdentityAt(i) : i \in A}
    /\ \A id \in DOMAIN map : map[id] \in A /\ IdentityAt(map[id]) = id

(* The versions of a name in the root frames R, committed by frames of C. *)
VersionsOf(known, name, R, C) ==
    /\ IsSeq(known)
    /\ \A k \in 1..Len(known) :
          /\ known[k].sequence \in Nat /\ known[k].sequence + 1 \in R
          /\ FrameAt(known[k].sequence + 1).payload[1] = name
          /\ known[k].identity = ChangeIdentity(FrameAt(known[k].sequence + 1).payload)
          /\ known[k].commit_sequence + 1 \in C
          /\ k > 1 => known[k - 1].sequence < known[k].sequence
    /\ \A i \in R : FrameAt(i).payload[1] = name =>
          \E k \in 1..Len(known) : known[k].sequence + 1 = i

HistoryOf(history, R, C) ==
    /\ \A name \in DOMAIN history : VersionsOf(history[name], name, R, C)
    /\ \A i \in R : FrameAt(i).payload[1] \in DOMAIN history

IndexOf(view, A, B, R, C) ==
    /\ AtomsOf(view.atoms, A)
    /\ view.bonds = {FrameAt(i).payload : i \in B}
    /\ HistoryOf(view.root_history, R, C)
    /\ view.committed_cells = Cardinality(C)

(* The same of the lists of an open cell. *)
BondsOf(bonds, B) == {bonds[k] : k \in 1..Len(bonds)} = {FrameAt(i).payload : i \in B}

RootsOf(roots, R) ==
    /\ \A k \in 1..Len(roots) :
          /\ roots[k].sequence \in Nat /\ roots[k].sequence + 1 \in R
          /\ roots[k].change = FrameAt(roots[k].sequence + 1).payload
          /\ \A j \in 1..(k - 1) : roots[j].sequence < roots[k].sequence
    /\ \A i \in R : \E k \in 1..Len(roots) : roots[k].sequence + 1 = i

CellOf(cell, A, B, R) == AtomsOf(cell.atoms, A) /\ BondsOf(cell.bonds, B) /\ RootsOf(cell.roots, R)

(* What one more frame of a kind adds. *)
LEMMA AtomTold ==
    ASSUME NEW map, NEW A, AtomsOf(map, A), NEW i, NEW id, id = IdentityAt(i)
    PROVE  AtomsOf(Insert(map, id, i), A \cup {i})
  BY DEF AtomsOf, Insert

LEMMA AtomsJoin ==
    ASSUME NEW one, NEW A, AtomsOf(one, A), NEW other, NEW B, AtomsOf(other, B)
    PROVE  AtomsOf([id \in DOMAIN one \cup DOMAIN other |->
                       IF id \in DOMAIN other THEN other[id] ELSE one[id]], A \cup B)
  BY DEF AtomsOf

LEMMA CommitCounted ==
    ASSUME NEW C, IsFiniteSet(C), NEW c, c \notin C
    PROVE  Cardinality(C) \in Nat /\ Cardinality(C \cup {c}) = Cardinality(C) + 1
  BY FS_CardinalityType, FS_AddElement

LEMMA RootTold ==
    ASSUME NEW view, DOMAIN view = IndexFields, NEW R \in SUBSET Nat, NEW C,
           HistoryOf(view.root_history, R, C), NEW f \in Nat, f > 0, \A i \in R : i < f,
           NEW change, change = FrameAt(f).payload,
           NEW commit_sequence, commit_sequence + 1 \in C, NEW cell
    PROVE  HistoryOf(apply_root(view, change, f - 1, commit_sequence, cell).root_history,
                     R \cup {f}, C)
<1> DEFINE after == apply_root(view, change, f - 1, commit_sequence, cell)
           name == change[1]
           old == Get(view.root_history, name, <<>>)
           version == RootVersion(change, f - 1, commit_sequence, cell)
           new == Append(old, version)
<1>1. after.root_history = Insert(view.root_history, name, new)
  BY DEF apply_root, IndexFields
<1>2. VersionsOf(old, name, R, C)
  <2>1. CASE name \in DOMAIN view.root_history
    BY <2>1 DEF Get, HistoryOf
  <2>2. CASE name \notin DOMAIN view.root_history
    <3>1. old = <<>> /\ IsSeq(old) /\ Len(old) = 0
      BY <2>2 DEF Get, IsSeq
    <3>2. \A i \in R : FrameAt(i).payload[1] # name
      BY <2>2 DEF HistoryOf
    <3> HIDE DEF old, name
    <3> QED
      BY <3>1, <3>2 DEF VersionsOf
  <2> QED
    BY <2>1, <2>2
<1>3. /\ version.sequence = f - 1 /\ version.commit_sequence = commit_sequence
      /\ version.identity = ChangeIdentity(change)
  BY DEF RootVersion
<1>4. /\ IsSeq(new) /\ Len(old) \in Nat /\ Len(new) = Len(old) + 1
      /\ new[Len(old) + 1] = version /\ \A i \in 1..Len(old) : new[i] = old[i]
  <2>1. IsSeq(old)
    BY <1>2 DEF VersionsOf
  <2> HIDE DEF old, version
  <2> QED
    BY <2>1, AppendSeq DEF IsSeq
<1> HIDE DEF after, old, version, new
<1>5. VersionsOf(new, name, R \cup {f}, C)
  <2>1. ASSUME NEW k \in 1..Len(new)
        PROVE  /\ new[k].sequence \in Nat /\ new[k].sequence + 1 \in R \cup {f}
               /\ FrameAt(new[k].sequence + 1).payload[1] = name
               /\ new[k].identity = ChangeIdentity(FrameAt(new[k].sequence + 1).payload)
               /\ new[k].commit_sequence + 1 \in C
               /\ k > 1 => new[k - 1].sequence < new[k].sequence
    <3>1. CASE k = Len(old) + 1
      <4>1. f - 1 \in Nat /\ (f - 1) + 1 = f /\ new[k] = version
        BY <1>4, <3>1
      <4>2. ASSUME k > 1 PROVE new[k - 1].sequence < f - 1
        <5>1. k - 1 \in 1..Len(old) /\ new[k - 1] = old[k - 1]
          BY <1>4, <3>1, <4>2
        <5> QED
          BY <1>2, <5>1 DEF VersionsOf
      <4> QED
        BY <1>3, <4>1, <4>2
    <3>2. CASE k # Len(old) + 1
      <4>1. k \in 1..Len(old) /\ new[k] = old[k] /\ (k > 1 => new[k - 1] = old[k - 1])
        BY <1>4, <3>2
      <4> QED
        BY <1>2, <4>1 DEF VersionsOf
    <3> QED
      BY <3>1, <3>2
  <2>2. ASSUME NEW i \in R \cup {f}, FrameAt(i).payload[1] = name
        PROVE  \E k \in 1..Len(new) : new[k].sequence + 1 = i
    <3>1. CASE i = f
      <4>1. Len(old) + 1 \in 1..Len(new) /\ new[Len(old) + 1].sequence + 1 = f
        BY <1>3, <1>4
      <4> QED
        BY <3>1, <4>1
    <3>2. CASE i # f
      <4>1. PICK k \in 1..Len(old) : old[k].sequence + 1 = i
        BY <1>2, <2>2, <3>2 DEF VersionsOf
      <4> QED
        BY <1>4, <4>1
    <3> QED
      BY <3>1, <3>2
  <2> QED
    BY <1>4, <2>1, <2>2 DEF VersionsOf
<1>6. /\ DOMAIN after.root_history = DOMAIN view.root_history \cup {name}
      /\ after.root_history[name] = new
      /\ \A other \in DOMAIN view.root_history \ {name} :
            after.root_history[other] = view.root_history[other]
  BY <1>1 DEF Insert
<1>7. ASSUME NEW other \in DOMAIN after.root_history
      PROVE  VersionsOf(after.root_history[other], other, R \cup {f}, C)
  <2>1. CASE other = name
    BY <1>5, <1>6, <2>1
  <2>2. CASE other # name
    <3> DEFINE known == view.root_history[other]
    <3>1. VersionsOf(known, other, R, C) /\ after.root_history[other] = known
      BY <1>6, <2>2 DEF HistoryOf
    <3> HIDE DEF known
    <3>2. VersionsOf(known, other, R \cup {f}, C)
      BY <2>2, <3>1 DEF VersionsOf
    <3> QED
      BY <3>1, <3>2
  <2> QED
    BY <2>1, <2>2
<1>8. ASSUME NEW i \in R \cup {f} PROVE FrameAt(i).payload[1] \in DOMAIN after.root_history
  BY <1>6 DEF HistoryOf
<1> QED
  BY <1>7, <1>8 DEF HistoryOf, after

(* The effects of the roots of a cell that commits at commit_sequence. *)
RootEffectsOf(e, roots, commit_sequence, cell) ==
    \A k \in 1..Len(roots) :
        e[k] = <<"root", roots[k].change, roots[k].sequence, commit_sequence, cell>>

LEMMA RootsApplied ==
    ASSUME NEW view, IsIndex(view), NEW R \in SUBSET Nat, NEW C,
           HistoryOf(view.root_history, R, C), NEW roots, IsSeq(roots), NEW S \in SUBSET Nat,
           RootsOf(roots, S), \A i \in R : \A j \in S : i < j,
           NEW e, NEW commit_sequence, commit_sequence + 1 \in C, NEW cell,
           RootEffectsOf(e, roots, commit_sequence, cell), NEW g, IsRun(g, Len(roots), view, e)
    PROVE  LET after == g[Len(roots)] IN
           /\ IsIndex(after)
           /\ after.atoms = view.atoms /\ after.bonds = view.bonds
           /\ after.committed_cells = view.committed_cells
           /\ HistoryOf(after.root_history, R \cup S, C)
<1> DEFINE N == Len(roots)
           Taken(k) == {roots[j].sequence + 1 : j \in 1..k}
           Good(k) == /\ IsIndex(g[k])
                      /\ g[k].atoms = view.atoms /\ g[k].bonds = view.bonds
                      /\ g[k].committed_cells = view.committed_cells
                      /\ HistoryOf(g[k].root_history, R \cup Taken(k), C)
           T == {k \in 0..N : Good(k)}
<1>0. N \in Nat
  BY DEF IsSeq
<1>1. 0 \in T
  <2>1. g[0] = view /\ R \cup Taken(0) = R
    BY DEF IsRun
  <2>2. Good(0)
    BY <2>1
  <2> QED
    BY <1>0, <2>2
<1>2. ASSUME NEW k \in 0..N, k \in T, k < N PROVE k + 1 \in T
  <2> DEFINE m == k + 1
             f == roots[m].sequence + 1
             w == g[k]
             x == g[m]
  <2>1. m \in 1..N /\ m \in 0..N /\ m - 1 = k
    BY <1>0, <1>2
  <2>2. /\ f \in Nat /\ f > 0 /\ f - 1 = roots[m].sequence /\ f \in S
        /\ roots[m].change = FrameAt(f).payload
        /\ \A j \in 1..k : roots[j].sequence + 1 < f /\ roots[j].sequence + 1 \in S
    BY <1>0, <2>1 DEF RootsOf
  <2>3. x = apply_root(w, FrameAt(f).payload, f - 1, commit_sequence, cell)
    <3>1. x = Effect(w, e[m])
      BY <2>1 DEF IsRun
    <3>2. e[m] = <<"root", FrameAt(f).payload, f - 1, commit_sequence, cell>>
      BY <2>1, <2>2 DEF RootEffectsOf
    <3> HIDE DEF x, w, f
    <3> QED
      BY <3>1, <3>2 DEF Effect
  <2>4. Taken(m) = Taken(k) \cup {f}
    BY <1>0, <2>1
  <2>5. Good(k)
    BY <1>2
  <2>6. R \cup Taken(k) \in SUBSET Nat /\ \A i \in R \cup Taken(k) : i < f
    BY <2>2
  <2>7. DOMAIN w = IndexFields
    BY <2>5 DEF IsIndex, EmptyIndex, IndexFields
  <2> HIDE DEF Taken, f, w, x
  <2>8. HistoryOf(x.root_history, (R \cup Taken(k)) \cup {f}, C)
    BY <2>2, <2>3, <2>5, <2>6, <2>7, RootTold DEF w
  <2>9. (R \cup Taken(k)) \cup {f} = R \cup Taken(m)
    BY <2>4
  <2>10. IsIndex(x)
    <3>1. x = Effect(w, <<"root", FrameAt(f).payload, f - 1, commit_sequence, cell>>)
      BY <2>3 DEF Effect
    <3> QED
      BY <2>5, <3>1, EffectKeepsMap DEF w
  <2>11. x.atoms = w.atoms /\ x.bonds = w.bonds /\ x.committed_cells = w.committed_cells
    BY <2>3, <2>7 DEF apply_root, IndexFields
  <2>12. Good(m)
    BY <2>5, <2>8, <2>9, <2>10, <2>11 DEF w, x
  <2> QED
    BY <2>1, <2>12
<1>3. \A k \in 0..N : k \in T
  <2> HIDE DEF T, N
  <2> QED
    BY <1>0, <1>1, <1>2, InductionUpTo
<1>4. N \in T
  <2> HIDE DEF T, N
  <2> QED
    BY <1>0, <1>3
<1>5. Taken(N) = S
  BY DEF RootsOf
<1>6. Good(N)
  BY <1>4
<1> HIDE DEF Taken
<1> QED
  BY <1>5, <1>6

(* What the facts of a cell add when it commits. *)
LEMMA BondsApplied ==
    ASSUME NEW view, IsIndex(view), NEW bonds, IsSeq(bonds), NEW e,
           \A k \in 1..Len(bonds) : e[k] = <<"bond", bonds[k]>>,
           NEW g, IsRun(g, Len(bonds), view, e)
    PROVE  LET after == g[Len(bonds)] IN
           /\ IsIndex(after)
           /\ after.atoms = view.atoms /\ after.root_history = view.root_history
           /\ after.committed_cells = view.committed_cells
           /\ after.bonds = view.bonds \cup {bonds[k] : k \in 1..Len(bonds)}
<1> DEFINE N == Len(bonds)
           Good(k) == /\ IsIndex(g[k])
                      /\ g[k].atoms = view.atoms /\ g[k].root_history = view.root_history
                      /\ g[k].committed_cells = view.committed_cells
                      /\ g[k].bonds = view.bonds \cup {bonds[j] : j \in 1..k}
           T == {k \in 0..N : Good(k)}
<1>0. N \in Nat
  BY DEF IsSeq
<1>1. 0 \in T
  <2>1. g[0] = view /\ view.bonds \cup {bonds[j] : j \in 1..0} = view.bonds
    BY DEF IsRun
  <2>2. Good(0)
    BY <2>1
  <2> QED
    BY <1>0, <2>2
<1>2. ASSUME NEW k \in 0..N, k \in T, k < N PROVE k + 1 \in T
  <2> DEFINE m == k + 1
  <2>1. m \in 1..N /\ m \in 0..N /\ m - 1 = k
    BY <1>0, <1>2
  <2>2. g[m] = Effect(g[k], <<"bond", bonds[m]>>)
    BY <2>1 DEF IsRun
  <2>3. Good(k)
    BY <1>2
  <2>4. IsIndex(g[m])
    BY <2>2, <2>3, EffectKeepsMap
  <2>5. /\ g[m].atoms = g[k].atoms /\ g[m].root_history = g[k].root_history
        /\ g[m].committed_cells = g[k].committed_cells
        /\ g[m].bonds = g[k].bonds \cup {bonds[m]}
    <3>1. g[m] = InsertBond(g[k], bonds[m])
      BY <2>2 DEF Effect
    <3>2. DOMAIN g[k] = IndexFields
      BY <2>3 DEF IsIndex, EmptyIndex, IndexFields
    <3> QED
      BY <3>1, <3>2 DEF InsertBond, IndexFields
  <2>6. {bonds[j] : j \in 1..m} = {bonds[j] : j \in 1..k} \cup {bonds[m]}
    BY <1>0, <2>1
  <2>7. Good(m)
    <3> HIDE DEF m
    <3> QED
      BY <2>3, <2>4, <2>5, <2>6
  <2> QED
    BY <2>1, <2>7
<1>3. \A k \in 0..N : k \in T
  <2> HIDE DEF T, N
  <2> QED
    BY <1>0, <1>1, <1>2, InductionUpTo
<1>4. N \in T
  <2> HIDE DEF T, N
  <2> QED
    BY <1>0, <1>3
<1> QED
  BY <1>4

LEMMA CellApplied ==
    ASSUME NEW view, IsIndex(view), NEW A, NEW B, NEW R \in SUBSET Nat, NEW C, IsFiniteSet(C),
           IndexOf(view, A, B, R, C), NEW cell, IsSeq(cell.bonds), IsSeq(cell.roots),
           NEW X, NEW Y, NEW S \in SUBSET Nat, CellOf(cell, X, Y, S),
           \A i \in R : \A j \in S : i < j, NEW n, n + 1 \notin C
    PROVE  IndexOf(ApplyCell(view, cell, n), A \cup X, B \cup Y, R \cup S, C \cup {n + 1})
<1> DEFINE D == C \cup {n + 1}
           base == WithAtoms(view, cell)
           b == Len(cell.bonds)
           r == Len(cell.roots)
<1>1. PICK g, h : /\ IsRun(g, b, base, BondEffects(cell))
                  /\ IsRun(h, r, g[b], RootEffects(cell, n))
                  /\ ApplyCell(view, cell, n) = CellCounted(h[r])
  BY CellRuns
<1>2. DOMAIN view = IndexFields
  BY DEF IsIndex, EmptyIndex, IndexFields
<1>3. /\ IsIndex(base) /\ AtomsOf(base.atoms, A \cup X)
      /\ base.bonds = view.bonds /\ base.root_history = view.root_history
      /\ base.committed_cells = view.committed_cells
  <2> DEFINE joined == [id \in DOMAIN view.atoms \cup DOMAIN cell.atoms |->
                           IF id \in DOMAIN cell.atoms THEN cell.atoms[id] ELSE view.atoms[id]]
  <2>1. AtomsOf(joined, A \cup X)
    BY AtomsJoin DEF IndexOf, CellOf
  <2>2. IsMap(joined)
    BY DEF IsMap
  <2>3. base = [view EXCEPT !.atoms = joined]
    BY DEF WithAtoms
  <2> HIDE DEF joined, base
  <2> QED
    BY <1>2, <2>1, <2>2, <2>3 DEF IsIndex, IsMap, IndexFields, EmptyIndex
<1> HIDE DEF base
<1>4. /\ IsIndex(g[b])
      /\ g[b].atoms = base.atoms /\ g[b].root_history = base.root_history
      /\ g[b].committed_cells = base.committed_cells
      /\ g[b].bonds = base.bonds \cup {cell.bonds[k] : k \in 1..b}
  <2>1. \A k \in 1..b : BondEffects(cell)[k] = <<"bond", cell.bonds[k]>>
    BY DEF BondEffects
  <2> QED
    BY <1>1, <1>3, <2>1, BondsApplied
<1>5. /\ IsIndex(h[r])
      /\ h[r].atoms = g[b].atoms /\ h[r].bonds = g[b].bonds
      /\ h[r].committed_cells = g[b].committed_cells
      /\ HistoryOf(h[r].root_history, R \cup S, D)
  <2>1. \A k \in 1..r : RootEffects(cell, n)[k] =
            <<"root", cell.roots[k].change, cell.roots[k].sequence, n, cell.meta[1]>>
    BY DEF RootEffects
  <2>2. HistoryOf(g[b].root_history, R, D)
    BY <1>3, <1>4 DEF IndexOf, HistoryOf, VersionsOf
  <2>3. n + 1 \in D /\ RootsOf(cell.roots, S)
    BY DEF CellOf
  <2> DEFINE w == g[b]
             e == RootEffects(cell, n)
             roots == cell.roots
             id == cell.meta[1]
  <2>4. IsRun(h, Len(roots), w, e) /\ IsIndex(w) /\ IsSeq(roots)
    BY <1>1, <1>4
  <2>5. /\ HistoryOf(w.root_history, R, D) /\ RootsOf(roots, S) /\ n + 1 \in D
        /\ RootEffectsOf(e, roots, n, id)
    BY <2>1, <2>2, <2>3 DEF RootEffectsOf
  <2> HIDE DEF D, w, e, roots, id
  <2>6. LET after == h[Len(roots)] IN
        /\ IsIndex(after)
        /\ after.atoms = w.atoms /\ after.bonds = w.bonds
        /\ after.committed_cells = w.committed_cells
        /\ HistoryOf(after.root_history, R \cup S, D)
    BY <2>4, <2>5, RootsApplied
  <2> QED
    BY <2>6 DEF w, roots
<1>6. /\ CellCounted(h[r]).atoms = h[r].atoms /\ CellCounted(h[r]).bonds = h[r].bonds
      /\ CellCounted(h[r]).root_history = h[r].root_history
      /\ CellCounted(h[r]).committed_cells = h[r].committed_cells + 1
  BY <1>5 DEF CellCounted, IsIndex, EmptyIndex
<1>7. view.committed_cells + 1 = Cardinality(D)
  BY CommitCounted DEF IndexOf
<1>8. view.bonds \cup {cell.bonds[k] : k \in 1..b} = {FrameAt(i).payload : i \in B \cup Y}
  BY DEF IndexOf, CellOf, BondsOf
<1> HIDE DEF b, r, D
<1> QED
  BY <1>1, <1>3, <1>4, <1>5, <1>6, <1>7, <1>8 DEF IndexOf, D

(* What a frame adds to an open cell. *)
LEMMA CellTakesAtom ==
    ASSUME NEW cell, IsCell(cell), NEW A, NEW B, NEW R, CellOf(cell, A, B, R), NEW i
    PROVE  CellOf([cell EXCEPT !.atoms = Insert(@, IdentityAt(i), i)], A \cup {i}, B, R)
<1> DEFINE after == [cell EXCEPT !.atoms = Insert(@, IdentityAt(i), i)]
<1>1. AtomsOf(Insert(cell.atoms, IdentityAt(i), i), A \cup {i})
  BY AtomTold DEF CellOf
<1>2. /\ after.atoms = Insert(cell.atoms, IdentityAt(i), i)
      /\ after.bonds = cell.bonds /\ after.roots = cell.roots
  BY DEF IsCell
<1> HIDE DEF after
<1> QED
  BY <1>1, <1>2 DEF CellOf, after

LEMMA CellTakesBond ==
    ASSUME NEW cell, IsCell(cell), IsSeq(cell.bonds), NEW A, NEW B, NEW R, CellOf(cell, A, B, R),
           NEW i
    PROVE  CellOf([cell EXCEPT !.bonds = Append(@, FrameAt(i).payload)], A, B \cup {i}, R)
<1> DEFINE after == [cell EXCEPT !.bonds = Append(@, FrameAt(i).payload)]
           old == cell.bonds
           new == Append(cell.bonds, FrameAt(i).payload)
<1>1. after.bonds = new /\ after.atoms = cell.atoms /\ after.roots = cell.roots
  BY DEF IsCell
<1>2. /\ Len(old) \in Nat /\ Len(new) = Len(old) + 1 /\ new[Len(old) + 1] = FrameAt(i).payload
      /\ \A k \in 1..Len(old) : new[k] = old[k]
  BY AppendSeq DEF IsSeq
<1> HIDE DEF after, new
<1>3. {new[k] : k \in 1..Len(new)} = {old[k] : k \in 1..Len(old)} \cup {FrameAt(i).payload}
  BY <1>2
<1>4. BondsOf(new, B \cup {i})
  BY <1>3 DEF CellOf, BondsOf
<1> QED
  BY <1>1, <1>4 DEF CellOf, after

LEMMA CellTakesRoot ==
    ASSUME NEW cell, IsCell(cell), IsSeq(cell.roots), NEW A, NEW B, NEW R, CellOf(cell, A, B, R),
           NEW i \in Nat, i > 0, \A j \in R : j < i, FrameAt(i).sequence = i - 1
    PROVE  CellOf([cell EXCEPT !.roots = Append(@, [change |-> FrameAt(i).payload,
                                                    sequence |-> FrameAt(i).sequence])],
                  A, B, R \cup {i})
<1> DEFINE root == [change |-> FrameAt(i).payload, sequence |-> FrameAt(i).sequence]
           old == cell.roots
           new == Append(old, root)
           after == [cell EXCEPT !.roots = Append(@, root)]
<1>1. after.roots = new /\ after.atoms = cell.atoms /\ after.bonds = cell.bonds
  BY DEF IsCell
<1>2. root.change = FrameAt(i).payload /\ root.sequence = i - 1
  OBVIOUS
<1> HIDE DEF root
<1>3. /\ Len(old) \in Nat /\ Len(new) = Len(old) + 1 /\ new[Len(old) + 1] = root
      /\ \A k \in 1..Len(old) : new[k] = old[k]
  BY AppendSeq DEF IsSeq
<1> HIDE DEF after, new
<1>4. RootsOf(old, R)
  BY DEF CellOf
<1> HIDE DEF old
<1>5. ASSUME NEW k \in 1..Len(new)
      PROVE  /\ new[k].sequence \in Nat /\ new[k].sequence + 1 \in R \cup {i}
             /\ new[k].change = FrameAt(new[k].sequence + 1).payload
             /\ \A j \in 1..(k - 1) : new[j].sequence < new[k].sequence
  <2>1. CASE k = Len(old) + 1
    <3>1. new[k] = root /\ i - 1 \in Nat /\ (i - 1) + 1 = i
      BY <1>3, <2>1
    <3>2. \A j \in 1..(k - 1) : new[j] = old[j] /\ j \in 1..Len(old)
      BY <1>3, <2>1
    <3>3. \A j \in 1..(k - 1) : old[j].sequence < i - 1
      BY <1>4, <3>2 DEF RootsOf
    <3> QED
      BY <1>2, <3>1, <3>2, <3>3
  <2>2. CASE k # Len(old) + 1
    <3>1. k \in 1..Len(old) /\ new[k] = old[k] /\ \A j \in 1..(k - 1) : new[j] = old[j]
      BY <1>3, <2>2
    <3> QED
      BY <1>4, <3>1 DEF RootsOf
  <2> QED
    BY <2>1, <2>2
<1>6. ASSUME NEW j \in R \cup {i} PROVE \E k \in 1..Len(new) : new[k].sequence + 1 = j
  <2>1. CASE j = i
    <3>1. Len(old) + 1 \in 1..Len(new) /\ new[Len(old) + 1].sequence + 1 = i
      BY <1>2, <1>3
    <3> QED
      BY <2>1, <3>1
  <2>2. CASE j # i
    <3>1. PICK k \in 1..Len(old) : old[k].sequence + 1 = j
      BY <1>4, <2>2 DEF RootsOf
    <3> QED
      BY <1>3, <3>1
  <2> QED
    BY <2>1, <2>2
<1>7. RootsOf(new, R \cup {i})
  BY <1>5, <1>6 DEF RootsOf
<1> QED
  BY <1>1, <1>7 DEF CellOf, after, root

FramesIn(kind, m, n) == {i \in (m + 1)..n : FrameAt(i).kind = kind}

(* What the replay has after i frames is what they say: the index up to    *)
(* the open cell, that cell of the rest.                                   *)
Tells(s, i) ==
    LET n == IF s.cell.open THEN s.cell.start ELSE i
    IN  /\ IndexOf(s.db, FramesOf("atom", n), FramesOf("bond", n), FramesOf("root", n),
                   FramesOf("commit", n))
        /\ s.cell.open =>
              /\ n < i /\ \A j \in (n + 1)..i : FrameAt(j).kind # "commit"
              /\ CellOf(s.cell, FramesIn("atom", n, i), FramesIn("bond", n, i),
                        FramesIn("root", n, i))

(* The next set of frames: with the m-th one if it is of the kind. *)
Grown(new, old, kind, m) ==
    /\ FrameAt(m).kind = kind => new = old \cup {m}
    /\ FrameAt(m).kind # kind => new = old

LEMMA FramesGrow ==
    ASSUME NEW kind, NEW m \in Nat, m > 0
    PROVE  Grown(FramesOf(kind, m), FramesOf(kind, m - 1), kind, m)
  BY DEF FramesOf, Grown

LEMMA FramesInGrow ==
    ASSUME NEW kind, NEW m \in Nat, m > 0, NEW n \in 0..(m - 1)
    PROVE  /\ Grown(FramesIn(kind, n, m), FramesIn(kind, n, m - 1), kind, m)
           /\ FramesOf(kind, m - 1) = FramesOf(kind, n) \cup FramesIn(kind, n, m - 1)
  BY DEF FramesOf, FramesIn, Grown

LEMMA FramesFinite ==
    ASSUME NEW kind, NEW n \in Nat
    PROVE  /\ FramesOf(kind, n) \in SUBSET (1..n) /\ FramesOf(kind, n) \in SUBSET Nat
           /\ IsFiniteSet(FramesOf(kind, n))
<1>1. FramesOf(kind, n) \in SUBSET (1..n)
  BY DEF FramesOf
<1>2. IsFiniteSet(1..n)
  BY FS_Interval
<1> QED
  BY <1>1, <1>2, FS_Subset

LEMMA IndexTakesAtom ==
    ASSUME NEW view, DOMAIN view = IndexFields, NEW A, NEW B, NEW R, NEW C,
           IndexOf(view, A, B, R, C), NEW i
    PROVE  IndexOf(InsertAtom(view, IdentityAt(i), i), A \cup {i}, B, R, C)
<1> DEFINE after == InsertAtom(view, IdentityAt(i), i)
<1>1. /\ after.atoms = Insert(view.atoms, IdentityAt(i), i) /\ after.bonds = view.bonds
      /\ after.root_history = view.root_history /\ after.committed_cells = view.committed_cells
  BY DEF InsertAtom, IndexFields
<1>2. AtomsOf(after.atoms, A \cup {i})
  BY <1>1, AtomTold DEF IndexOf
<1> HIDE DEF after
<1>3. IndexOf(after, A \cup {i}, B, R, C)
  BY <1>1, <1>2 DEF IndexOf
<1> QED
  BY <1>3 DEF after

LEMMA IndexTakesBond ==
    ASSUME NEW view, DOMAIN view = IndexFields, NEW A, NEW B, NEW R, NEW C,
           IndexOf(view, A, B, R, C), NEW i
    PROVE  IndexOf(InsertBond(view, FrameAt(i).payload), A, B \cup {i}, R, C)
<1> DEFINE after == InsertBond(view, FrameAt(i).payload)
<1>1. /\ after.atoms = view.atoms /\ after.bonds = view.bonds \cup {FrameAt(i).payload}
      /\ after.root_history = view.root_history /\ after.committed_cells = view.committed_cells
  BY DEF InsertBond, IndexFields
<1> HIDE DEF after
<1>2. after.bonds = {FrameAt(j).payload : j \in B \cup {i}}
  BY <1>1 DEF IndexOf
<1>3. IndexOf(after, A, B \cup {i}, R, C)
  BY <1>1, <1>2 DEF IndexOf
<1> QED
  BY <1>3 DEF after

(* The steps of the replay: in a cell, at its end, and outside of cells. *)
LEMMA CellStepTells ==
    ASSUME NEW s, NEW t, NEW m \in Nat, m > 0, Tells(s, m - 1), FrameSteps(s, FrameAt(m), m, t),
           IsIndex(s.db), IsCell(s.cell), IsSeq(s.cell.bonds), IsSeq(s.cell.roots),
           FrameAt(m).sequence = m - 1, s.cell.open, FrameAt(m).kind # "commit"
    PROVE  Tells(t, m)
<1> DEFINE cell == s.cell
           n == cell.start
           i == m - 1
           frame == FrameAt(m)
           A == FramesIn("atom", n, i)
           B == FramesIn("bond", n, i)
           R == FramesIn("root", n, i)
           X == FramesIn("atom", n, m)
           Y == FramesIn("bond", n, m)
           S == FramesIn("root", n, m)
<1>1. /\ n \in 0..i /\ n < m /\ n \in Nat /\ i \in Nat
      /\ \A j \in (n + 1)..i : FrameAt(j).kind # "commit"
      /\ CellOf(cell, A, B, R)
      /\ IndexOf(s.db, FramesOf("atom", n), FramesOf("bond", n), FramesOf("root", n),
                 FramesOf("commit", n))
  BY DEF Tells, IsCell
<1>2. \A j \in (n + 1)..m : FrameAt(j).kind # "commit"
  <2>1. \A j \in (n + 1)..m : j = m \/ j \in (n + 1)..i
    BY <1>1
  <2> QED
    BY <1>1, <2>1
<1>3. t.db = s.db /\ t.cell = CellAfter(cell, frame, m) /\ frame.kind \in {"atom", "bond", "root"}
  BY DEF FrameSteps, FrameBalances, State, IndexAfter
<1>4. Grown(X, A, "atom", m) /\ Grown(Y, B, "bond", m) /\ Grown(S, R, "root", m)
  BY <1>1, FramesInGrow
<1>5. \A j \in R : j < m
  BY DEF FramesIn
<1> HIDE DEF A, B, R, X, Y, S, n
<1>6. /\ t.cell.open /\ t.cell.start = n
      /\ CellOf(t.cell, X, Y, S)
  <2>1. CASE frame.kind = "atom"
    <3>1. t.cell = [cell EXCEPT !.atoms = Insert(@, IdentityAt(m), m)]
      BY <1>3, <2>1 DEF CellAfter, IdentityAt
    <3>2. t.cell.open /\ t.cell.start = n
      BY <3>1 DEF IsCell, n
    <3>3. CellOf(t.cell, A \cup {m}, B, R)
      <4> DEFINE after == [cell EXCEPT !.atoms = Insert(@, IdentityAt(m), m)]
      <4>1. CellOf(after, A \cup {m}, B, R)
        <5> HIDE DEF cell
        <5>1. IsCell(cell) /\ CellOf(cell, A, B, R)
          BY <1>1 DEF cell
        <5> QED
          BY <5>1, CellTakesAtom
      <4> QED
        BY <3>1, <4>1
    <3> QED
      BY <1>4, <2>1, <3>2, <3>3 DEF Grown
  <2>2. CASE frame.kind = "bond"
    <3>1. t.cell = [cell EXCEPT !.bonds = Append(@, FrameAt(m).payload)]
      BY <1>3, <2>2 DEF CellAfter
    <3>2. t.cell.open /\ t.cell.start = n
      BY <3>1 DEF IsCell, n
    <3>3. CellOf(t.cell, A, B \cup {m}, R)
      BY <1>1, <3>1, CellTakesBond
    <3> QED
      BY <1>4, <2>2, <3>2, <3>3 DEF Grown
  <2>3. CASE frame.kind = "root"
    <3>1. t.cell = [cell EXCEPT !.roots = Append(@, [change |-> FrameAt(m).payload,
                                                     sequence |-> FrameAt(m).sequence])]
      BY <1>3, <2>3 DEF CellAfter
    <3>2. t.cell.open /\ t.cell.start = n
      BY <3>1 DEF IsCell, n
    <3>3. CellOf(t.cell, A, B, R \cup {m})
      BY <1>1, <1>5, <3>1, CellTakesRoot
    <3> QED
      BY <1>4, <2>3, <3>2, <3>3 DEF Grown
  <2> QED
    BY <1>3, <2>1, <2>2, <2>3
<1> QED
  BY <1>1, <1>2, <1>3, <1>6 DEF Tells, A, B, R, X, Y, S, n

LEMMA CommitTells ==
    ASSUME NEW s, NEW t, NEW m \in Nat, m > 0, Tells(s, m - 1), FrameSteps(s, FrameAt(m), m, t),
           IsIndex(s.db), IsCell(s.cell), IsSeq(s.cell.bonds), IsSeq(s.cell.roots),
           FrameAt(m).sequence = m - 1, FrameAt(m).kind = "commit"
    PROVE  Tells(t, m)
<1> DEFINE cell == s.cell
           n == cell.start
           i == m - 1
           of(kind) == FramesOf(kind, n)
           in(kind) == FramesIn(kind, n, i)
<1>1. /\ cell.open /\ t.cell = NoCell /\ t.db = ApplyCell(s.db, cell, i)
  BY DEF FrameSteps, FrameBalances, State, IndexAfter, CellAfter
<1>2. /\ n \in 0..i /\ n < m /\ n \in Nat /\ i \in Nat /\ i + 1 = m
      /\ \A j \in (n + 1)..i : FrameAt(j).kind # "commit"
      /\ CellOf(cell, in("atom"), in("bond"), in("root"))
      /\ IndexOf(s.db, of("atom"), of("bond"), of("root"), of("commit"))
  BY <1>1 DEF Tells, IsCell
<1>3. /\ of("root") \in SUBSET Nat /\ in("root") \in SUBSET Nat
      /\ IsFiniteSet(of("commit")) /\ i + 1 \notin of("commit")
      /\ \A k \in of("root") : \A j \in in("root") : k < j
  BY <1>2, FramesFinite DEF FramesIn
<1>4. in("commit") = {}
  BY <1>2 DEF FramesIn
<1>5. /\ \A kind \in {"atom", "bond", "root"} : FramesOf(kind, m) = of(kind) \cup in(kind)
      /\ FramesOf("commit", m) = of("commit") \cup {i + 1}
  <2>1. ASSUME NEW kind PROVE FramesOf(kind, i) = of(kind) \cup in(kind)
    BY <1>2, FramesInGrow
  <2>2. ASSUME NEW kind PROVE Grown(FramesOf(kind, m), FramesOf(kind, i), kind, m)
    BY FramesGrow
  <2> HIDE DEF of, in
  <2>3. ASSUME NEW kind \in {"atom", "bond", "root"}
        PROVE  FramesOf(kind, m) = of(kind) \cup in(kind)
    BY <2>1, <2>2 DEF Grown
  <2>4. FramesOf("commit", m) = of("commit") \cup {i + 1}
    BY <1>2, <1>4, <2>1, <2>2 DEF Grown
  <2> QED
    BY <2>3, <2>4
<1> HIDE DEF of, in
<1>6. IndexOf(t.db, of("atom") \cup in("atom"), of("bond") \cup in("bond"),
              of("root") \cup in("root"), of("commit") \cup {i + 1})
  <2> DEFINE A == of("atom")
             B == of("bond")
             R == of("root")
             C == of("commit")
             X == in("atom")
             Y == in("bond")
             S == in("root")
             view == s.db
  <2>1. /\ IsIndex(view) /\ R \in SUBSET Nat /\ IsFiniteSet(C) /\ IndexOf(view, A, B, R, C)
        /\ S \in SUBSET Nat /\ CellOf(cell, X, Y, S) /\ \A k \in R : \A j \in S : k < j
        /\ i + 1 \notin C /\ IsSeq(cell.bonds) /\ IsSeq(cell.roots)
    BY <1>2, <1>3
  <2> HIDE DEF A, B, R, C, X, Y, S, view, cell, i
  <2>2. IndexOf(ApplyCell(view, cell, i), A \cup X, B \cup Y, R \cup S, C \cup {i + 1})
    BY <2>1, CellApplied
  <2> QED
    BY <1>1, <2>2 DEF A, B, R, C, X, Y, S, view, cell
<1>7. ~t.cell.open
  BY <1>1 DEF NoCell
<1> QED
  BY <1>5, <1>6, <1>7 DEF Tells

LEMMA SingleTells ==
    ASSUME NEW s, NEW t, NEW m \in Nat, m > 0, Tells(s, m - 1), FrameSteps(s, FrameAt(m), m, t),
           IsIndex(s.db), IsCell(s.cell), FrameAt(m).sequence = m - 1, ~s.cell.open,
           s.cell = NoCell, FrameAt(m).kind # "commit"
    PROVE  Tells(t, m)
<1> DEFINE i == m - 1
           frame == FrameAt(m)
           A == FramesOf("atom", i)
           B == FramesOf("bond", i)
           R == FramesOf("root", i)
           C == FramesOf("commit", i)
           X == FramesOf("atom", m)
           Y == FramesOf("bond", m)
           S == FramesOf("root", m)
           D == FramesOf("commit", m)
<1>1. /\ i \in Nat
      /\ IndexOf(s.db, A, B, R, C)
  BY DEF Tells
<1>2. /\ Grown(X, A, "atom", m) /\ Grown(Y, B, "bond", m)
      /\ Grown(S, R, "root", m) /\ Grown(D, C, "commit", m)
  BY FramesGrow
<1>3. /\ t.db = IndexAfter(s.db, NoCell, frame, m) /\ t.cell = CellAfter(NoCell, frame, m)
      /\ frame.kind \in {"atom", "bond", "begin"}
  BY DEF FrameSteps, FrameBalances, State
<1>4. DOMAIN s.db = IndexFields /\ ~NoCell.open
  BY DEF IsIndex, EmptyIndex, IndexFields, NoCell
<1> HIDE DEF A, B, R, C, X, Y, S, D
<1>5. CASE frame.kind = "atom"
  <2>1. t.db = InsertAtom(s.db, IdentityAt(m), m) /\ ~t.cell.open
    BY <1>3, <1>4, <1>5 DEF IndexAfter, CellAfter, IdentityAt
  <2>2. IndexOf(t.db, X, Y, S, D)
    BY <1>1, <1>2, <1>4, <1>5, <2>1, IndexTakesAtom DEF Grown
  <2> QED
    BY <2>1, <2>2 DEF Tells, X, Y, S, D
<1>6. CASE frame.kind = "bond"
  <2>1. t.db = InsertBond(s.db, FrameAt(m).payload) /\ ~t.cell.open
    BY <1>3, <1>4, <1>6 DEF IndexAfter, CellAfter
  <2>2. IndexOf(t.db, X, Y, S, D)
    BY <1>1, <1>2, <1>4, <1>6, <2>1, IndexTakesBond DEF Grown
  <2> QED
    BY <2>1, <2>2 DEF Tells, X, Y, S, D
<1>7. CASE frame.kind = "begin"
  <2>1. t.db = s.db
    BY <1>3, <1>4, <1>7 DEF IndexAfter
  <2>2. t.cell = [NoCell EXCEPT !.open = TRUE, !.start = m - 1, !.meta = frame.payload]
    BY <1>3, <1>7 DEF CellAfter
  <2>3. /\ t.cell.open /\ t.cell.start = i
        /\ DOMAIN t.cell.atoms = {} /\ Len(t.cell.bonds) = 0 /\ Len(t.cell.roots) = 0
    BY <2>2 DEF NoCell, EmptyMap
  <2>4. \A kind \in {"atom", "bond", "root"} : FramesIn(kind, i, m) = {}
    <3>1. (i + 1)..m = {m}
      OBVIOUS
    <3> HIDE DEF i
    <3> QED
      BY <1>7, <3>1 DEF FramesIn
  <2>5. \A j \in (i + 1)..m : FrameAt(j).kind # "commit"
    BY <1>7
  <2>6. CellOf(t.cell, {}, {}, {})
    <3> DEFINE cell == t.cell
    <3>1. DOMAIN cell.atoms = {} /\ 1..Len(cell.bonds) = {} /\ 1..Len(cell.roots) = {}
      BY <2>3
    <3> HIDE DEF cell
    <3>2. CellOf(cell, {}, {}, {})
      BY <3>1 DEF CellOf, AtomsOf, BondsOf, RootsOf
    <3> QED
      BY <3>2 DEF cell
  <2> QED
    <3>1. IndexOf(t.db, FramesOf("atom", i), FramesOf("bond", i), FramesOf("root", i),
                  FramesOf("commit", i))
      BY <1>1, <2>1 DEF A, B, R, C
    <3>2. CellOf(t.cell, FramesIn("atom", i, m), FramesIn("bond", i, m), FramesIn("root", i, m))
      BY <2>4, <2>6
    <3>3. i < m
      OBVIOUS
    <3> HIDE DEF i
    <3> QED
      BY <2>3, <2>5, <3>1, <3>2, <3>3 DEF Tells
<1> QED
  BY <1>3, <1>5, <1>6, <1>7

(* So the replay is, at every place, what the frames before it say. *)
LEMMA ReplayTells ==
    ASSUME LogInv(disk), NEW h, Told(h, disk), NEW n \in 0..Len(disk)
    PROVE  Tells(h[n + 1], n)
<1> DEFINE T == {k \in 0..Len(disk) : Tells(h[k + 1], k)}
<1>0. Len(disk) \in Nat /\ Len(h) = Len(disk) + 1
  BY DEF LogInv, IsSeq, Told
<1>1. 0 \in T
  <2>1. h[0 + 1] = State(EmptyIndex, NoCell)
    BY DEF Told
  <2>2. \A kind : FramesOf(kind, 0) = {}
    BY DEF FramesOf
  <2>3. IndexOf(EmptyIndex, {}, {}, {}, {})
    BY FS_EmptySet DEF IndexOf, EmptyIndex, EmptyMap, AtomsOf, HistoryOf
  <2>4. h[0 + 1].db = EmptyIndex /\ ~h[0 + 1].cell.open
    BY <2>1 DEF State, NoCell
  <2>5. Tells(h[0 + 1], 0)
    BY <2>2, <2>3, <2>4 DEF Tells
  <2> QED
    BY <1>0, <2>5
<1>2. ASSUME NEW k \in 0..Len(disk), k \in T, k < Len(disk) PROVE k + 1 \in T
  <2> DEFINE m == k + 1
  <2>1. m \in 1..Len(disk) /\ m \in 1..Len(h) /\ m - 1 = k /\ m > 0 /\ m \in Nat
    BY <1>0, <1>2
  <2>2. Tells(h[m], m - 1)
    BY <1>2, <2>1
  <2>3. FrameSteps(h[m], FrameAt(m), m, h[m + 1]) /\ FrameAt(m).sequence = m - 1
    BY <2>1 DEF Told, LogInv, FrameAt
  <2>4. Begun(h, m)
    BY <2>1 DEF Told
  <2> HIDE DEF m
  <2>5. /\ IsIndex(h[m].db) /\ IsCell(h[m].cell) /\ IsSeq(h[m].cell.bonds)
        /\ IsSeq(h[m].cell.roots) /\ (h[m].cell.open \/ h[m].cell = NoCell)
    BY <2>4 DEF Begun
  <2>6. h[m].cell = NoCell => ~h[m].cell.open
    BY DEF NoCell
  <2>7. Tells(h[m + 1], m)
    BY <2>1, <2>2, <2>3, <2>5, <2>6, CellStepTells, CommitTells, SingleTells
  <2> QED
    BY <2>1, <2>7 DEF m
<1>3. \A k \in 0..Len(disk) : k \in T
  <2> HIDE DEF T
  <2> QED
    BY <1>0, <1>1, <1>2, InductionUpTo
<1> QED
  BY <1>3

(* Of an index, this is what IndexTold says. *)
LEMMA IndexIsTold ==
    ASSUME NEW view, NEW n,
           IndexOf(view, FramesOf("atom", n), FramesOf("bond", n), FramesOf("root", n),
                   FramesOf("commit", n))
    PROVE  IndexTold(view, n)
<1> DEFINE R == FramesOf("root", n)
           C == FramesOf("commit", n)
<1>1. ASSUME NEW name \in DOMAIN view.root_history
      PROVE  VersionsTold(view.root_history[name], name, n)
  <2> DEFINE known == view.root_history[name]
  <2>1. VersionsOf(known, name, R, C)
    BY DEF IndexOf, HistoryOf
  <2> HIDE DEF known, R, C
  <2>2. {known[k].sequence + 1 : k \in 1..Len(known)} = {i \in R : FrameAt(i).payload[1] = name}
    BY <2>1 DEF VersionsOf
  <2> QED
    BY <2>1, <2>2 DEF VersionsOf, VersionsTold, known, R, C
<1>2. \A i \in R : FrameAt(i).payload[1] \in DOMAIN view.root_history
  BY DEF IndexOf, HistoryOf
<1> QED
  BY <1>1, <1>2 DEF IndexOf, IndexTold, AtomsOf, IdentityAt

(* What a handle with an index has in it. *)
LEMMA ViewIndex ==
    ASSUME LogInv(disk), ViewsTold, NEW p \in Proc, HasView(p), next_sequence[p] \in Nat
    PROVE  LET n == next_sequence[p] IN
           IndexOf(db[p], FramesOf("atom", n), FramesOf("bond", n), FramesOf("root", n),
                   FramesOf("commit", n))
<1> DEFINE n == next_sequence[p]
<1>1. PICK h : Told(h, disk) /\ ViewTold(h, p)
  BY DEF ViewsTold
<1>2. n < Len(h) /\ h[n + 1] = State(db[p], NoCell)
  BY <1>1 DEF ViewTold
<1>3. n \in 0..Len(disk)
  BY <1>1, <1>2 DEF Told, LogInv, IsSeq
<1> HIDE DEF n
<1>4. Tells(h[n + 1], n)
  BY <1>1, <1>3, ReplayTells
<1>5. h[n + 1].db = db[p] /\ ~h[n + 1].cell.open
  BY <1>2 DEF State, NoCell
<1>6. IndexOf(db[p], FramesOf("atom", n), FramesOf("bond", n), FramesOf("root", n),
              FramesOf("commit", n))
  BY <1>4, <1>5 DEF Tells
<1> QED
  BY <1>6 DEF n

(* Under the same conditions every index is exactly what the first          *)
(* next_sequence frames say, and they are committed: after a write, a      *)
(* recovery and a refresh alike.                                           *)
THEOREM SpecViewsAreCommitted ==
    ASSUME "rollback" \notin Failures, "sync" \notin Failures
    PROVE  Spec /\ Undisturbed => []ViewsAreCommitted
<1>1. FileInv /\ ContentInv /\ ViewsInv /\ ViewsTold => ViewsAreCommitted
  <2> SUFFICES ASSUME FileInv, ContentInv, ViewsInv, ViewsTold, NEW p \in Proc, HasView(p)
               PROVE  IsCommitted(next_sequence[p]) /\ IndexTold(db[p], next_sequence[p])
    BY DEF ViewsAreCommitted
  <2>1. LogInv(disk) /\ next_sequence[p] \in Nat
    BY DEF FileInv, StoreInv, DiskInv, ContentInv, HandleInv
  <2>2. IndexTold(db[p], next_sequence[p])
    BY <2>1, ViewIndex, IndexIsTold
  <2>3. IsCommitted(next_sequence[p])
    BY DEF ViewsInv, KnownInv
  <2> QED
    BY <2>2, <2>3
<1>2. Spec => []FileInv
  BY SpecFile
<1>3. Spec => []ViewsInv
  BY SpecViews
<1> QED
  BY <1>1, <1>2, <1>3, SpecContent, SpecViewsTold, PTL

(* Under the same conditions read_atom finds each atom of an index in the   *)
(* file as it is now, at the location of the index.                        *)
THEOREM SpecAtomsReadBack ==
    ASSUME "rollback" \notin Failures, "sync" \notin Failures
    PROVE  Spec /\ Undisturbed => []AtomsReadBack
<1>1. FileInv /\ ContentInv /\ ViewsInv /\ ViewsTold => AtomsReadBack
  <2> SUFFICES ASSUME FileInv, ContentInv, ViewsInv, ViewsTold, NEW p \in Proc,
                      NEW id \in DOMAIN db[p].atoms
               PROVE  LET location == db[p].atoms[id] IN
                      /\ location <= Len(disk)
                      /\ disk[location].whole
                      /\ FrameAt(location).payload = <<id[2]>>
    BY DEF AtomsReadBack
  <2> DEFINE n == next_sequence[p]
             location == db[p].atoms[id]
  <2>1. LogInv(disk) /\ n \in Nat /\ Len(disk) \in Nat
    BY DEF FileInv, StoreInv, DiskInv, LogInv, IsSeq, ContentInv, HandleInv
  <2>2. HasView(p)
    <3>1. DOMAIN EmptyIndex.atoms = {}
      BY DEF EmptyIndex, EmptyMap
    <3>2. ~HasView(p) => db[p] = EmptyIndex
      BY DEF ViewsTold, ViewTold
    <3> QED
      BY <3>1, <3>2
  <2>3. IndexOf(db[p], FramesOf("atom", n), FramesOf("bond", n), FramesOf("root", n),
                FramesOf("commit", n))
    BY <2>1, <2>2, ViewIndex
  <2>4. location \in FramesOf("atom", n) /\ IdentityAt(location) = id
    BY <2>3 DEF IndexOf, AtomsOf
  <2>5. IsCommitted(n)
    BY <2>2 DEF ViewsInv, KnownInv
  <2> HIDE DEF location, n
  <2>6. /\ location \in 1..n /\ n <= Len(disk) /\ disk[location].whole
        /\ FrameAt(location).kind = "atom"
    BY <2>4, <2>5 DEF FramesOf, IsCommitted, CommittedIn
  <2>7. location <= Len(disk) /\ location \in 1..Len(disk)
    BY <2>1, <2>6
  <2>8. FrameAt(location).payload = <<FrameAt(location).payload[1]>>
    BY <2>6, <2>7 DEF ContentInv, SoundLog, FrameSound, FrameAt
  <2>9. id[2] = FrameAt(location).payload[1]
    BY <2>4 DEF IdentityAt, atom_identity
  <2> QED
    BY <2>6, <2>7, <2>8, <2>9 DEF location
<1>2. Spec => []FileInv
  BY SpecFile
<1>3. Spec => []ViewsInv
  BY SpecViews
<1> QED
  BY <1>1, <1>2, <1>3, SpecContent, SpecViewsTold, PTL
=============================================================================
