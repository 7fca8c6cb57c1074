------------------------------- MODULE Facts -------------------------------
(***************************************************************************)
(* What the causal log says, with the bytes left out: identities, frames,  *)
(* cells, the in-memory index a handle builds from frames, how a cell is   *)
(* prepared for the log and how recovery admits each frame it reads.       *)
(*                                                                         *)
(* A digest is the domain and the payload it hashes: SHA-256 is taken to   *)
(* be injective.  Digests are tuples <<domain, payload>>, an absent one    *)
(* (Option<Digest>) is None.  Checksums always balance, because the only   *)
(* bytes in the log are those write_frame put there.                       *)
(***************************************************************************)
EXTENDS Integers, Sequences, FiniteSets, Folds, SequencesExt

CONSTANT Rank   \* the order of digests, in which a BTreeMap iterates

None == <<"none">>

atom_identity(bytes) == <<"atom", bytes>>
bond_identity(bond) == <<"bond", bond>>

(* A RootChange is <<name, previous_version, previous, target>>. *)
ChangeIdentity(change) == <<"root", change>>

compute_cell_identity(atoms, bonds, roots) == <<"cell", <<atoms, bonds, roots>>>>

-----------------------------------------------------------------------------
(* BTreeMaps: functions with a finite domain, iterated in digest order. *)

EmptyMap == [key \in {} |-> None]

Insert(map, key, value) ==
    [k \in DOMAIN map \cup {key} |-> IF k = key THEN value ELSE map[k]]

Without(map, key) == [k \in DOMAIN map \ {key} |-> map[k]]

Get(map, key, default) == IF key \in DOMAIN map THEN map[key] ELSE default

(* The members of a finite set in digest order. *)
InOrder(S) ==
    [i \in 1..Cardinality(S) |->
        CHOOSE x \in S : Cardinality({y \in S : Rank[y] < Rank[x]}) = i - 1]

-----------------------------------------------------------------------------
(* The index a handle keeps in memory.  A Location is the number of the    *)
(* frame whose payload holds the atom.                                     *)

EmptyIndex ==
    [atoms |-> EmptyMap, bonds |-> {}, outgoing |-> EmptyMap,
     roots |-> EmptyMap, root_history |-> EmptyMap,
     committed_cells |-> 0, root_updates |-> 0]

contains_atom(db, id) == id \in DOMAIN db.atoms

contains_fact(db, id) ==
    contains_atom(db, id) \/ \E bond \in db.bonds : id = bond_identity(bond)

(* Mutant: the location is where the frame ends. *)
InsertAtomPast(db, id, location) == [db EXCEPT !.atoms = Insert(@, id, location + 1)]
InsertAtom(db, id, location) == [db EXCEPT !.atoms = Insert(@, id, location)]

(* Mutant: bonds_from forgets the earlier bonds of the source. *)
InsertBondAlone(db, bond) ==
    [db EXCEPT !.bonds = @ \cup {bond}, !.outgoing = Insert(@, bond[1], <<bond>>)]
InsertBond(db, bond) ==
    [db EXCEPT !.bonds = @ \cup {bond},
               !.outgoing = Insert(@, bond[1], Append(Get(@, bond[1], <<>>), bond))]

(* Mutant: the first version instead of the last. *)
FirstVersion(db, name) ==
    LET versions == Get(db.root_history, name, <<>>)
    IN  IF versions = <<>> THEN None ELSE versions[1].identity
LatestVersion(db, name) ==
    LET versions == Get(db.root_history, name, <<>>)
    IN  IF versions = <<>> THEN None ELSE versions[Len(versions)].identity

RootVersion(change, sequence, commit_sequence, cell) ==
    [identity |-> ChangeIdentity(change), sequence |-> sequence,
     commit_sequence |-> commit_sequence, cell |-> cell,
     previous_version |-> change[2], previous |-> change[3], target |-> change[4]]

(* Mutant: a cleared root stays. *)
apply_root_kept(db, change, sequence, commit_sequence, cell) ==
    LET name == change[1]
        version == RootVersion(change, sequence, commit_sequence, cell)
    IN  [db EXCEPT
            !.roots = IF change[4] = None THEN @ ELSE Insert(@, name, change[4]),
            !.root_history = Insert(@, name, Append(Get(@, name, <<>>), version)),
            !.root_updates = @ + 1]

apply_root(db, change, sequence, commit_sequence, cell) ==
    LET name == change[1]
        target == change[4]
        version == RootVersion(change, sequence, commit_sequence, cell)
    IN  [db EXCEPT
            !.roots = IF target = None THEN Without(@, name) ELSE Insert(@, name, target),
            !.root_history = Insert(@, name, Append(Get(@, name, <<>>), version)),
            !.root_updates = @ + 1]

(* The root field as of a sequence: the last version of each root whose    *)
(* cell had committed before it.                                           *)
snapshot_at(db, sequence) ==
    LET visible(name) ==
            {k \in 1..Len(db.root_history[name]) :
                db.root_history[name][k].commit_sequence < sequence}
        current(name) ==
            IF visible(name) = {} THEN None ELSE db.root_history[name][Max(visible(name))].target
    IN  [name \in {n \in DOMAIN db.root_history : current(n) # None} |-> current(name)]

-----------------------------------------------------------------------------
(* Cells: atoms and bonds are sets (of digests, of bonds), roots maps a    *)
(* name to the target it is to have, None to clear it.                     *)

NewAtoms(db, cell) == {id \in cell.atoms : ~contains_atom(db, id)}
NewBonds(db, cell) == cell.bonds \ db.bonds

(* The checks of prepare_cell that can refuse the cell. *)
CellAdmissible(db, cell) ==
    LET atoms == DOMAIN db.atoms \cup cell.atoms
        facts == {bond_identity(bond) : bond \in db.bonds \cup cell.bonds}
    IN  /\ \A bond \in NewBonds(db, cell) : {bond[1], bond[2], bond[3]} \subseteq atoms
        /\ DOMAIN cell.roots \subseteq atoms
        /\ \A name \in DOMAIN cell.roots : cell.roots[name] \in atoms \cup facts \cup {None}

prepare_cell(db, cell) ==
    LET moved == {name \in DOMAIN cell.roots :
                    Get(db.roots, name, None) # cell.roots[name]}
        names == InOrder(moved)
        atoms == InOrder(NewAtoms(db, cell))
        ids   == InOrder({bond_identity(bond) : bond \in NewBonds(db, cell)})
        roots == [i \in 1..Cardinality(moved) |->
                    <<names[i], LatestVersion(db, names[i]),
                      Get(db.roots, names[i], None), cell.roots[names[i]]>>]
    IN  [identity |-> compute_cell_identity(NewAtoms(db, cell), NewBonds(db, cell),
                                            {ChangeIdentity(roots[i]) : i \in 1..Cardinality(moved)}),
         atoms |-> atoms, bonds |-> ids, roots |-> roots]

IsEmptyCell(prepared) ==
    prepared.atoms = <<>> /\ prepared.bonds = <<>> /\ prepared.roots = <<>>

-----------------------------------------------------------------------------
(* Frames, as write_frame numbers them. *)

Frame(sequence, kind, payload) == [sequence |-> sequence, kind |-> kind, payload |-> payload]

CellMeta(prepared) ==
    <<prepared.identity, Len(prepared.atoms), Len(prepared.bonds), Len(prepared.roots)>>

(* Begin membrane, atoms, bonds, root transitions, commit membrane. *)
CellFrames(prepared, sequence) ==
    LET a == Len(prepared.atoms)
        b == Len(prepared.bonds)
        r == Len(prepared.roots)
    IN  [i \in 1..(a + b + r + 2) |->
            IF i = 1 THEN Frame(sequence, "begin", CellMeta(prepared))
            ELSE IF i <= a + 1
                 THEN Frame(sequence + i - 1, "atom", <<prepared.atoms[i - 1][2]>>)
            ELSE IF i <= a + b + 1
                 THEN Frame(sequence + i - 1, "bond", prepared.bonds[i - 1 - a][2])
            ELSE IF i <= a + b + r + 1
                 THEN Frame(sequence + i - 1, "root", prepared.roots[i - 1 - a - b])
            ELSE Frame(sequence + i - 1, "commit", CellMeta(prepared))]

(* The memory of the writer once a cell is durable: the loops after the    *)
(* write of commit_cell.  at is the number of frames before the cell.      *)
ApplyCommitted(db, frames, at) ==
    LET commit == frames[Len(frames)]
        step(acc, i) ==
            LET f == frames[i] IN
            CASE f.kind = "atom" -> InsertAtom(acc, atom_identity(f.payload[1]), at + i)
              [] f.kind = "bond" -> InsertBond(acc, f.payload)
              [] f.kind = "root" -> apply_root(acc, f.payload, f.sequence,
                                               commit.sequence, commit.payload[1])
              [] f.kind = "commit" -> [acc EXCEPT !.committed_cells = @ + 1]
              [] OTHER -> acc
    IN  FoldLeftDomain(step, db, frames)

-----------------------------------------------------------------------------
(* Recovery: what one frame does to the index and to the open cell. *)

NoCell == [open |-> FALSE, start |-> 0, meta |-> <<>>,
           atoms |-> EmptyMap, bonds |-> <<>>, roots |-> <<>>]

validate_bond_members(db, bond, atoms) ==
    \A i \in 1..3 : contains_atom(db, bond[i]) \/ bond[i] \in atoms

(* Every check validate_and_apply_cell makes before it touches the index. *)
CellBalances(db, cell) ==
    LET known == DOMAIN db.atoms \cup DOMAIN cell.atoms
        n == Len(cell.roots)
        change(i) == cell.roots[i].change
    IN  /\ <<Cardinality(DOMAIN cell.atoms), Len(cell.bonds), n>> =
               <<cell.meta[2], cell.meta[3], cell.meta[4]>>
        /\ \A i \in DOMAIN cell.bonds :
               validate_bond_members(db, cell.bonds[i], DOMAIN cell.atoms)
        /\ \A i \in 1..n :
               /\ i > 1 => Rank[change(i - 1)[1]] < Rank[change(i)[1]]
               /\ change(i)[1] \in known
               /\ \/ change(i)[4] = None
                  \/ change(i)[4] \in known
                  \/ contains_fact(db, change(i)[4])
                  \/ \E j \in DOMAIN cell.bonds : change(i)[4] = bond_identity(cell.bonds[j])
               /\ Get(db.roots, change(i)[1], None) = change(i)[3]
               /\ LatestVersion(db, change(i)[1]) = change(i)[2]
        /\ compute_cell_identity(DOMAIN cell.atoms, ToSet(cell.bonds),
                                 {ChangeIdentity(change(i)) : i \in 1..n}) = cell.meta[1]

(* Adding the facts of a cell, and then its roots, to the index. *)
AddCell(db, cell, root(_, _)) ==
    LET with_atoms == [db EXCEPT !.atoms = [id \in DOMAIN @ \cup DOMAIN cell.atoms |->
                                              IF id \in DOMAIN cell.atoms
                                              THEN cell.atoms[id] ELSE @[id]]]
        with_bonds == FoldLeft(InsertBond, with_atoms, cell.bonds)
    IN  [FoldLeft(root, with_bonds, cell.roots) EXCEPT !.committed_cells = @ + 1]

(* Mutant: a root counts from its own frame on. *)
ApplyCellEarly(db, cell, commit_sequence) ==
    LET root(acc, r) == apply_root(acc, r.change, r.sequence, r.sequence, cell.meta[1])
    IN  AddCell(db, cell, root)
ApplyCell(db, cell, commit_sequence) ==
    LET root(acc, r) == apply_root(acc, r.change, r.sequence, commit_sequence, cell.meta[1])
    IN  AddCell(db, cell, root)

(* The frame is acceptable after the frames read so far. *)
FrameBalances(db, cell, frame) ==
    \/ /\ frame.kind = "atom"
       /\ ~contains_atom(db, atom_identity(frame.payload[1]))
       /\ atom_identity(frame.payload[1]) \notin DOMAIN cell.atoms
    \/ /\ frame.kind = "bond"
       /\ frame.payload \notin db.bonds
       /\ IF cell.open THEN frame.payload \notin ToSet(cell.bonds)
          ELSE validate_bond_members(db, frame.payload, {})
    \/ frame.kind = "begin" /\ ~cell.open
    \/ frame.kind = "root" /\ cell.open
    \/ /\ frame.kind = "commit"
       /\ cell.open
       /\ frame.payload = cell.meta
       /\ CellBalances(db, cell)

(* The index after an acceptable frame, the number-th of the log: single   *)
(* facts enter at once, those of a cell when it commits.  Mutant: all      *)
(* facts enter at once.                                                    *)
IndexAfterOpen(db, cell, frame, number) ==
    IF frame.kind = "commit" THEN ApplyCell(db, cell, frame.sequence)
    ELSE IF frame.kind = "atom" THEN InsertAtom(db, atom_identity(frame.payload[1]), number)
    ELSE IF frame.kind = "bond" THEN InsertBond(db, frame.payload)
    ELSE db
IndexAfter(db, cell, frame, number) ==
    IF frame.kind = "commit" THEN ApplyCell(db, cell, frame.sequence)
    ELSE IF cell.open THEN db
    ELSE IF frame.kind = "atom" THEN InsertAtom(db, atom_identity(frame.payload[1]), number)
    ELSE IF frame.kind = "bond" THEN InsertBond(db, frame.payload)
    ELSE db

(* The open cell after it. *)
CellAfter(cell, frame, number) ==
    IF frame.kind = "begin"
    THEN [NoCell EXCEPT !.open = TRUE, !.start = number - 1, !.meta = frame.payload]
    ELSE IF frame.kind = "commit" THEN NoCell
    ELSE IF ~cell.open THEN cell
    ELSE IF frame.kind = "atom"
    THEN [cell EXCEPT !.atoms = Insert(@, atom_identity(frame.payload[1]), number)]
    ELSE IF frame.kind = "bond" THEN [cell EXCEPT !.bonds = Append(@, frame.payload)]
    ELSE [cell EXCEPT !.roots = Append(@, [change |-> frame.payload,
                                           sequence |-> frame.sequence])]
=============================================================================
