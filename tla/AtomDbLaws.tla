----------------------------- MODULE AtomDbLaws -----------------------------
(***************************************************************************)
(* What is to hold of the store file and of the handles on it.             *)
(***************************************************************************)
EXTENDS AtomDb

(* The handle has an index: it is open and not in its first scan. *)
HasView(p) ==
    /\ pc[p] \notin {"closed", "magic"}
    /\ pc[p] = "scan" => cursor[p].refresh

FrameAt(i) == disk[i].frame

(* The first n chunks are whole frames and close every cell they open. *)
CommittedIn(d, n) ==
    /\ n <= Len(d)
    /\ \A i \in 1..n : d[i].whole
    /\ \A i \in 1..n : d[i].frame.kind = "begin" => \E j \in i..n : d[j].frame.kind = "commit"
IsCommitted(n) == CommittedIn(disk, n)

-----------------------------------------------------------------------------
(* Types of the variables, to the depth the other properties need. *)
TypeOK ==
    /\ magic \in {"none", "torn", "cached", "durable"}
    /\ \A i \in 1..Len(disk) :
          /\ DOMAIN disk[i] = {"frame", "whole", "need"}
          /\ FrameAt(i).kind \in {"atom", "bond", "begin", "root", "commit"}
    /\ synced \in 0..Len(disk)
    /\ lease \in Proc \cup {Nobody}
    /\ pc \in [Proc -> {"closed", "magic", "scan", "ready", "write", "payload", "sync", "rollback"}]
    /\ mode \in [Proc -> {"none", "reader", "writer"}]
    /\ next_sequence \in [Proc -> Nat]
    /\ provisional \in [Proc -> Nat]
    /\ \A p \in Proc : /\ cursor[p].offset \in Nat /\ cursor[p].limit \in Nat
                       /\ cursor[p].cut \in BOOLEAN /\ cursor[p].refresh \in BOOLEAN
                       /\ job[p].written \in 0..Len(job[p].frames)

(* Sequence numbers in the file are contiguous from 0, and only the last   *)
(* frame can be torn (README, conservation laws 5 and 7): whoever wrote,   *)
(* crashed, repaired or rolled back before, the next frame takes the       *)
(* number after the last whole frame.                                      *)
SequencesContiguous ==
    \A i \in 1..Len(disk) : /\ FrameAt(i).sequence = i - 1
                            /\ i < Len(disk) => disk[i].whole

(* A write that was acknowledged is in the file, unchanged, ever after:    *)
(* across rollbacks, repairs, crashes of any process and power losses.     *)
AcknowledgedSurvives == IsPrefix(acked, disk)

(* The recovery scan of open and refresh never calls a log corrupt that    *)
(* was only written by this program, as far as the scan did not race with  *)
(* a truncation.                                                           *)
ScansBalance ==
    \A p \in Proc : LET c == cursor[p] IN
        /\ pc[p] = "scan" /\ ~Moved(c)
        /\ c.offset < c.limit
        => Readable(c) /\ Acceptable(c)

FramesOf(kind, n) == {i \in 1..n : FrameAt(i).kind = kind}

(* The versions of a name are what the root frames of the first n chunks   *)
(* say of it, in their order.                                              *)
VersionsTold(known, name, n) ==
    /\ {known[k].sequence + 1 : k \in 1..Len(known)} =
           {i \in FramesOf("root", n) : FrameAt(i).payload[1] = name}
    /\ \A k \in 1..Len(known) :
          /\ k > 1 => known[k - 1].sequence < known[k].sequence
          /\ known[k].identity = ChangeIdentity(FrameAt(known[k].sequence + 1).payload)
          /\ known[k].commit_sequence + 1 \in FramesOf("commit", n)

(* Every index is exactly what the first next_sequence frames say, and     *)
(* these are committed: no fact of an open cell is visible, no committed   *)
(* fact is missing, and an atom's location holds its bytes.  This is one   *)
(* claim about three ways to build an index - live updates after a write,  *)
(* recovery, refresh - and about writers going on under an observer.       *)
IndexTold(view, n) ==
    LET atoms == FramesOf("atom", n) IN
    /\ DOMAIN view.atoms = {atom_identity(FrameAt(i).payload[1]) : i \in atoms}
    /\ \A id \in DOMAIN view.atoms :
          /\ view.atoms[id] \in atoms
          /\ atom_identity(FrameAt(view.atoms[id]).payload[1]) = id
    /\ view.bonds = {FrameAt(i).payload : i \in FramesOf("bond", n)}
    /\ view.committed_cells = Cardinality(FramesOf("commit", n))
    /\ \A name \in DOMAIN view.root_history : VersionsTold(view.root_history[name], name, n)
    /\ \A i \in FramesOf("root", n) : FrameAt(i).payload[1] \in DOMAIN view.root_history
ViewsAreCommitted ==
    \A p \in Proc : HasView(p) =>
        IsCommitted(next_sequence[p]) /\ IndexTold(db[p], next_sequence[p])

(* At most one process has a writable handle, it is the one that holds the *)
(* lock, and nobody else is between the steps of a write or a repair       *)
(* (OBSERVER-LEASES, laws 1 and 2).                                        *)
SingleWriter ==
    \A p, q \in Proc :
        /\ mode[p] = "writer" => lease = p
        /\ p # q /\ pc[p] \in {"magic", "write", "payload", "sync", "rollback"}
            => mode[q] # "writer"

(* A ready writer knows the whole file: nothing is behind its frontier.    *)
WriterAtFrontier ==
    \A p \in Proc : ReadyWriter(p) => next_sequence[p] = Len(disk)

-----------------------------------------------------------------------------
(* Each index is closed under reference: bonds name atoms of the index,    *)
(* roots are named by atoms and name facts, bonds_from lists each bond     *)
(* once, and each root is the target of its last version.                  *)
ClosedUnderReference(view) ==
    /\ \A bond \in view.bonds : validate_bond_members(view, bond, {})
    /\ \A source \in DOMAIN view.outgoing :
          LET out == view.outgoing[source] IN
          /\ ToSet(out) = {bond \in view.bonds : bond[1] = source}
          /\ Len(out) = Cardinality(ToSet(out))
    /\ \A bond \in view.bonds : bond[1] \in DOMAIN view.outgoing
    /\ \A name \in DOMAIN view.roots :
          contains_atom(view, name) /\ contains_fact(view, view.roots[name])
    /\ \A name \in DOMAIN view.root_history :
          LET versions == view.root_history[name] IN
          Get(view.roots, name, None) = versions[Len(versions)].target
IndexClosed == \A p \in Proc : ClosedUnderReference(db[p])

(* The versions of a root form a chain: each names the version and the     *)
(* target before it, and no identity comes twice even when targets cycle   *)
(* (ATOMIC-CELLS, local laws 7 and 8).                                     *)
Chained(versions) ==
    \A k \in 1..Len(versions) :
        /\ versions[k].previous_version = IF k = 1 THEN None ELSE versions[k - 1].identity
        /\ versions[k].previous = IF k = 1 THEN None ELSE versions[k - 1].target
        /\ versions[k].target # versions[k].previous
Distinct(versions) ==
    \A k \in 1..Len(versions) : \A j \in 1..(k - 1) : versions[j].identity # versions[k].identity
RootChains ==
    \A p \in Proc : \A name \in DOMAIN db[p].root_history :
        Chained(db[p].root_history[name]) /\ Distinct(db[p].root_history[name])

(* A snapshot of the past is the same for every handle that has reached    *)
(* it, whatever was committed since and however its index came to be       *)
(* (ATOMIC-CELLS, gate 7).                                                 *)
SnapshotsAgree ==
    \A p, q \in Proc : HasView(p) /\ HasView(q) /\ next_sequence[p] <= next_sequence[q] =>
        \A sequence \in 0..next_sequence[p] :
            snapshot_at(db[p], sequence) = snapshot_at(db[q], sequence)

(* The current roots are the snapshot at the frontier. *)
SnapshotIsCurrent ==
    \A p \in Proc : HasView(p) => snapshot_at(db[p], next_sequence[p]) = db[p].roots

(* A refresh that reports no change has changed nothing, and no refresh    *)
(* takes a fact away: a view of an observer only grows.                    *)
RefreshHonest ==
    [][\A p \in Proc :
        pc[p] = "scan" /\ cursor[p].refresh /\ pc'[p] = "ready" =>
            /\ next_sequence'[p] >= next_sequence[p]
            /\ db[p].bonds \subseteq db'[p].bonds
            /\ reply'[p] # "changed" => db'[p] = db[p]]_vars

(* The file was cut since the scan began, below where it was to end. *)
Overtaken(c) == c.low < Sampled(c)

(* No view is returned that was read while the file was cut under the scan. *)
Undisturbed ==
    [][\A p \in Proc : ScanClean(p) \/ ScanProvisional(p) => ~Overtaken(cursor[p])]_vars

-----------------------------------------------------------------------------
(* Every call returns: the scan ends although a writer keeps appending,    *)
(* because it sampled the length of the file once.                         *)
CallsReturn == \A p \in Proc : pc[p] \notin {"closed", "ready"} ~> pc[p] \in {"closed", "ready"}

-----------------------------------------------------------------------------
(* The log of commits in the first n chunks: the chunks from where the log *)
(* was committed to where it next is.                                      *)
EndsIn(d, n) == {i \in 1..n : CommittedIn(d, i)}
EndAt(ends, k) ==
    IF k = 0 THEN 0 ELSE CHOOSE i \in ends : Cardinality({j \in ends : j <= i}) = k
CommitsIn(d, n) ==
    LET ends == EndsIn(d, n)
        at == [k \in 0..Cardinality(ends) |-> EndAt(ends, k)]
    IN  [k \in 1..Cardinality(ends) |-> SubSeq(d, at[k - 1] + 1, at[k])]
Commits(n) == CommitsIn(disk, n)

Log == INSTANCE CausalLog WITH
    log <- Commits(Len(disk)),
    durable <- Cardinality(EndsIn(disk, synced)),
    handles <- {p \in Proc : HasView(p)},
    view <- [p \in Proc |-> IF HasView(p) THEN Commits(next_sequence[p]) ELSE <<>>]

(* The store implements the append-only log of commits. *)
ImplementsLog == Log!Spec

-----------------------------------------------------------------------------
(* ATOMIC-CELLS, local law 9: a root becomes current only after the commit *)
(* membrane is durable.  Of a writer that is not in a call, one may expect *)
(* it of all it knows, since put_atom, put_bond and commit_cell answer Ok  *)
(* for a fact that is known, and write and sync nothing.                   *)
WriterKnowsOnlyDurable ==
    \A p \in Proc : ReadyWriter(p) => next_sequence[p] <= synced

(* An atom of the index can be read back: its location is that of its frame *)
(* in the file as it is now (read_atom, store.rs).                          *)
AtomsReadBack ==
    \A p \in Proc : \A id \in DOMAIN db[p].atoms :
        LET location == db[p].atoms[id] IN
        /\ location <= Len(disk)
        /\ disk[location].whole
        /\ FrameAt(location).payload = <<id[2]>>
=============================================================================
