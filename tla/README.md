# Verification of atom-db

TLA+ modules for atom-db: an append-only store of atoms and bonds with atomic
cells, versioned roots, one writer and any number of observers; a retriever
that keeps an index of it and answers queries from it; and two
spreading-activation engines. The modules are model-checked with TLC on small
instances. For the store, the retriever, the retrieval field and its packet, the
cognitive engine and the hash's buffering, the main safety properties are
proved with TLAPS for every instance.

Contents: [inventory](#the-system), [plan](#plan), [modules](#modules-and-code),
[runs](#runs), [what the code does differently](#where-the-code-and-its-documents-part),
[proofs](#proofs), [what is left out](#what-is-not-modelled).

## The system

| part | source | state | operations |
|---|---|---|---|
| store | `src/store.rs` | the file (magic, frames), the writer lock, what is synced; per handle: index, `next_sequence`, provisional bytes | `open`, `open_read_only`, `put_atom`, `put_bond`, `commit_cell`, `refresh`, `sync`, drop; inside: `recover`, `repair_tail`, `rollback_write` |
| index, cells, roots | `src/store.rs`, `src/cell.rs` | `atoms`, `bonds`, `outgoing`, `roots`, `root_history` | `prepare_cell`, `apply_root`, `validate_and_apply_cell`, `snapshot_at` |
| retriever | `src/retrieval.rs` | `DerivedIndex`, keyed by the snapshot sequence | `remember`, `reinforce`, `retrieve` |
| retrieval field | `crates/atom-retrieval-field` | one call's states, frontier, expanded lanes | `activate`, `passages_with_overlap`, `terms` |
| cognitive engine | `src/cognitive.rs` | lanes of bond memory, context traces, observation count | `recall`; inside: the spreading loop, `observe_feedback`, `apply_half_life`, `build_context_field` |
| SHA-256 | `src/digest.rs` | one call's block, state and length | `digest` |
| command line | `crates/atom-db-cli` | none | one library call per command |

How they interact. Processes share nothing but the file and its lock. A writer
holds the lock as long as its handle lives; observers take none and read the
page cache while the writer writes, syncs, rolls back or repairs. A handle's
index is built in three ways - live after a write, by recovery, by refresh -
which must agree. A service keeps a retriever that outlives its handles; it
takes a handle by parameter with each call and decides by the handle's sequence
number alone whether its index is current. `reinforce` reads a count from that
index and commits a cell numbered by it. A query turns its known terms into
cues, spreads a field from them over the index and makes a packet of its hits.
The cognitive engine reads the bonds of a handle, and learns in memory only.

What is hard about it:

- *Concurrency*: every interleaving of an observer's scan with the writer's
  two-part frame writes, syncs, rollbacks and repairs, with the file length
  sampled once (`store.rs:765`).
- *Failure*: any write, `sync_data`, `set_len` can fail; a process can die
  between any two of them; a power loss takes what was not synced.
- *Ordering*: frames become visible before they become durable; the index is
  updated after the sync; in both engines a stronger signal replaces the
  predecessor of a node that others may have been reached through.
- *Staleness*: an index cached by a number; roots of the past reconstructed
  from versions.
- *Numbers*: truncating divisions, budgets, bytes of windows and of evidence.

What makes each part correct:

- store: acknowledged frames survive everything; frames are numbered
  contiguously; an index is exactly a committed prefix of the log; one writer;
  no log this program wrote is called corrupt; every call returns;
- index, cells, roots: closed under reference; root versions are chains;
  snapshots of the past are the same for everybody;
- retriever: a cached index is what a rebuild would give; no acknowledged
  reinforcement is lost or counted twice;
- field: exact threads, each lane leaves a node once, and a field that does
  not report exhaustion is complete;
- packet: evidence within its budgets, grounded in the terms it names, and
  answerable exactly when some passage has enough of them;
- passages: windows within their budgets, no sentence lost;
- recall: threads without circles, activation that does not grow at hubs,
  fields within their capacity; the bonds of a found thread are rewarded, and
  no others;
- learning: memory is consistent with what was observed; success
  strengthens, relays do not amplify, failure and half-life inhibit;
- SHA-256: a message is padded as the standard says, however it is divided.

The hazards behind these are listed with their lines in `PROJECT.json`.

## Plan

Done, in this order:

1. `Facts`, `AtomDb`, `AtomDbLaws`: the store with its failures, as everything
   else stands on it.
2. `CausalLog`, the abstract log of commits; `AtomDb` checked to implement it.
3. `AtomDbInvariant`, `AtomDbProofs`: the inductive invariants of the file and
   of what handles have in their indexes, and their proofs.
4. `Retriever`, on `CausalLog` instead of `AtomDb`, so that its own
   interleavings are not drowned by the store's; services and processes of the
   command line.
5. `RetrievalField`, and on it `Packet`: a query from its terms to its packet.
6. `Passages`.
7. `BondGraph`, `CognitiveMemory`, and on them `Recall`: the engine's graph,
   what it may learn as an abstract specification, and the spreading loop that
   implements it; `RecallProofs`.
8. `Sha256` and `Sha256Proofs`.
9. `DataLemmas`: sequences, least numbers, induction over finite sets, folds as
   iterations, sums; on it `RetrieverInvariant`, `RetrieverProofs`,
   `PacketProofs`, `PassagesProofs`, `ReplayProofs`.

Left:

- a finer disk for `AtomDb`: pages of unsynced writes lost out of order.

No module that is proved about declares a RECURSIVE operator; recursion is a
recursive function or a fold.

## Modules and code

### Facts: identities, the index, cells

Pure definitions. An identity is the tuple it digests (`atom_identity(b) =
<<"atom", b>>`), so equal identities mean equal facts: SHA-256 is assumed
injective. `Rank` is an arbitrary order of identities, for the iteration order
of the code's `BTreeMap`s, which decides the order of frames in a cell.
`prepare_cell` deduplicates against the index and chains root changes;
`CellAdmissible` is what makes it return an error. `IndexAfter`, `CellAfter`
and `FrameBalances` are the three things a frame does in `recover`: change the
index, change the pending cell, or be refused. `ApplyCommitted` is what
`commit_cell` does to the index live, separately from `ApplyCell`, which is
what recovery does: that both agree is a property (`SnapshotsAgree`,
`ViewsAreCommitted`), not an assumption.

### AtomDb: the file and its handles

| model | code |
|---|---|
| `magic`, `disk`, `synced`, `lease` | the file as the page cache has it; what is on the medium; `flock` |
| `pc[p]` | where the call of `p` is: `"scan"` in the loop of `recover`, `"write"` and `"payload"` between `write_all`s of `write_frame`, `"sync"` before `sync_data`, `"rollback"` before `set_len` |
| `db`, `next_sequence`, `provisional`, `mode` | fields of the handle |
| `cursor` | locals of `recover`: `offset`, the sampled `file_length`, the pending cell |
| `job` | locals of `commit_cell` and `append` |
| `acked` | history |

A step is one access to the file or the lock. A scan reads one frame per step
(`ScanFrame`); the header and the payload of a frame are written by two steps
(`WriteHeader`, `WritePayload`). Offsets count frames ("chunks"); of a chunk
all bytes, or only some of the first, are there. When a file is cut under a
scan (`CutUnder` records the lowest length since the sample) and something
else is written there, what the scan reads is not aligned with frames any more:
`Misaligned` and `Swallows` then allow both a corrupt header and a length that
covers later frames. Failures are actions of their own: the write of the magic,
a frame write, a sync, `set_len` in a rollback or in a repair, the death of a
process, a power loss. `Failures` is the set of the kinds that happen; each of
these happens any number of times. A power loss keeps the synced prefix and any
further prefix of the log, possibly with a torn last frame.

`AtomDbLaws` has the properties, `AtomDbInvariant` the inductive invariants.

### CausalLog: what the store promises

A log of commits that only the lease holder extends; `durable` of them a power
loss cannot take; each handle holds a prefix that only grows until it is
closed, and an open writer learns of a commit only once it is durable.
`AtomDbLaws!Log` maps the store to it: a commit is a single atom or bond frame,
or the frames from a begin to a commit membrane; frames of an open cell and
torn frames map to nothing. So the many writes of a cell are stutters up to the
one that completes the commit membrane, which is the `Extend` step; a sync, and
a repair or rollback with the sync it ends in, are `Persist`.

### Retriever: derived index and feedback

Extends `CausalLog`: `log` gets commits of facts, with the sequence number
after them. `remember` and `reinforce` run in three steps, as failures and
other processes come between: the commit is in the file (`written`), it is
synced and the index of the handle has it (`committed`), the final
`db.sync()` returns (`Acknowledge`). `Retract` is a failed sync with its
rollback, the one thing `CausalLog` rules out; `SeenMayFail` says whether it
may strike a commit that another service has seen.
`build_index` computes arcs with their conductance, passages, sources, term
counts and feedback from the bonds of a view; `Current` is the cache test
`index.snapshot_sequence != snapshot_sequence` with its rebuild. `receipts` is
history. Some processes are services, which call at any time and keep their
retriever; the others are of the command line: they open a handle, make one
call with a retriever of their own, and exit (`Command`).

### RetrievalField and Packet: a query

`RetrievalField` is one call of `activate` as a state machine: `ExpandNode` is
one turn of the loop over the frontier, with its pending lanes and its arcs;
`EndRound` ranks the candidates, applies frontier capacity and node budget and
merges the chosen into the states. `spent` is the domain of `expanded_signals`
with the activation each lane was expanded with, which the code has at that
moment and does not keep. `reconstruct_thread` follows predecessors as the code
does, up to as many steps as there are nodes.

`Packet` is `retrieve` around it. `Query` makes what `activate` gets: the known
terms become cues, with `cue_activation`. When the field is done, each of its
hits, in the order the field reports them, is skipped or taken as evidence
(`SkipHit`, `TakeEvidence`), until the context is full or no hit is left
(`Answer`). A text is the sequence of the widths of its characters, so that
`excerpt` ends between two. The logarithm of `cue_activation` is a table that
the instance gives, and its base is a thousandth of the code's: activations are
proportional to it, and TLC's integers have 32 bits.

### Passages: `passages_with_overlap`, `split_long_piece`

One step per turn of the outer loop; a sentence is a length and the positions
of its whitespace. The least window, 64 bytes, is scaled down to 9.

### BondGraph, CognitiveMemory, Recall: the cognitive engine

`BondGraph` has the arcs and degrees of a set of bonds and `build_context_field`.

`CognitiveMemory` is what the engine keeps between recalls, and what it may
learn: `observe_feedback` is the whole handler - the lane or guarded trace, the
count, and half-life if its turn has come. As a specification of its own
(`SpecMemory`) it lets a supervised recall have explored any bonds and rewards
any part of them. `unhalved` is history: the lanes before the half-life of the
last step. An engine, that is a configuration with the bonds of its store and
the calls made of it, is chosen in `Init`.

`Recall` is `recall`. `recall(r)` checks its arguments and seeds the cue and
the contexts; `TakeTurn` takes the next atom of the frontier, `FollowArc` one
of its arcs, with the signal that the conductance of the bond in the context
lets through; `EndRound` makes the strongest candidates the next frontier and
their traces, where they are stronger; `Report` follows the thread back from
the target and calls `observe_feedback` with it. `Recall` implements
`SpecMemory`: whatever spreads, the memory changes by one observation that
rewards a part of what was explored, or not at all.

### Sha256: parts, blocks and padding

`digest` for parts of any length: `Extend`, `FillBlock`, `StartBlock`,
`CompressInput` and `KeepRest` are the branches of `update`, `finish` the
padding. The block keeps its old bytes, as the code's does. What `compress`
computes is abstracted to what it was given: `compressed` is the bytes of all
blocks, in order. What they must be is `Padded`.

## Runs

| run | module | what it shows | bounds | distinct states |
|---|---|---|---|---|
| `race` | `AtomDb` | refinement of `CausalLog`; durability, sequence numbers, scans, views, honest refreshes, the single writer at its frontier; the inductive invariant | 2 processes, 4 frames: an atom alone or in a cell, and a cell with its root; failed creations and writes, crashes, power losses | 221406 |
| `roots` | `AtomDb` | index closed, root chains, snapshots of the present and the past | 2 processes, 11 frames, room for three cells that set, clear and set a root again; two bonds of one source and two roots in one cell; single bonds between; no failures | 487039 |
| `returns` | `AtomDb` | calls return | 2 processes, 3 frames, failed writes, syncs, rollbacks and repairs | 133559 |
| `shared` | `Retriever` | the index cache and the reinforcement count; the inductive invariant | 2 processes, each a service or of the command line, 4 commits, a document of two passages | 403502 |
| `field` | `Packet` | threads, completeness or its report, limits, each lane once; evidence within its budget, grounded, and answerable when supported | all graphs of 4 nodes with reinforced and plain conductances, 3 nodes with a loop and conductances 1, 1400, 4000, and indexes of three terms and two passages; up to 2 cues; room for all, and a frontier of 2 with a budget of 3 | 114227 |
| `windows` | `Passages` | window and overlap budgets, hard splits | up to 6 short sentences of 5 lengths, up to 5 mixed ones, long ones with whitespace at any of 5 places | 110539 |
| `recall` | `Recall` | threads, fan-out, fields; memory, relays, what is rewarded; refinement of `CognitiveMemory` | graphs of up to five bonds on five atoms, also with atoms named twice, with frontiers of 12 and 2; related contexts with 4 observations, half-life 2 or 3, 1 or 2 traces; one lane with 110 observations; a global one with 12 and half-life 5; bonds rewarded until activation grows | 200467 |

Why the bounds are enough to be interesting. Two processes are a writer and an
observer, or a writer and the one that takes over. Three frames are a cell with
its membranes, four an atom and then its root in a cell: a torn frame can
follow a commit and a new write follow a repair. Failures are not counted, so
that each can follow any other; each is followed by a recovery that must
restore everything the next could rely on, and `IInv`, checked in `race` and
proved, says so without a bound. Eleven frames fit three changes of a root,
there and back and there. Four commits are a document, two reinforcements and
one that is taken back. Four nodes hold a circle with an exit, the smallest
graph in which a later signal may replace a predecessor behind the front; the
conductances are a passage's own, and the least and the greatest that feedback
gives it. A budget of seven bytes ends within a character of the second text.
Nine bytes leave a tail of up to three. Five atoms have hubs, two rounds and a
replaced trace. Experience stops to count at 100 attempts; the graph whose
conductance was doubled has activation that grows from atom to atom, where a
circle of predecessors would be easiest.

Where the runs are narrower than the code: in `race` no sync fails, for after a
failed sync the rollback takes frames an observer may have indexed, which
`CausalLog` does not know and `AtomsReadBack` rules out; failed syncs are in
`returns` and, as `Retract`, in `shared`. In `shared`, a commit that another
service has read or indexed does not fail to sync (`SeenMayFail = FALSE`);
`stale` shows what happens if it does. `ScansBalance` speaks of scans that no
truncation overtook: one that a rollback and new writes overtake may report
`Corrupt` for a sound log. `SentencesKept` excepts the sentence that `kept` is
about. `EvidenceGrounded` is about passages and terms, not about the excerpt:
the last of the evidence may be cut to nothing, when less than a character of
the budget is left.

CHECK_DEADLOCK is on everywhere: busy opens, refused writes and the end of a
bounded algorithm are steps of the models.

*Fairness.* Only `returns` uses it: `FairSpec` adds, for each process, weak
fairness of the steps of a call that has begun (`SyncMagic`, `Scan`, `Write`).
A call runs synchronously on its thread without waiting for anything (the lock
is taken with a `try` and answers busy), so that it proceeds when the thread is
scheduled. Nothing is assumed of new calls, of other processes, or of faults,
which may go on for ever.

Each property of each passing run has a mutant in `PROJECT.json`: a change of
one mapped definition, as a bug in its code could be, under which TLC finds
that property violated. The mutant definitions stand before the ones they
change and are used by nothing else.

## Where the code and its documents part

Runs that expect a violation, each of one property; `PROJECT.json` has the
quotations.

| run | what TLC shows |
|---|---|
| `law9` | a writer that dies between the write of a cell and its sync leaves a whole cell in the page cache; the next writer has its root as current, and answers Ok for its facts without syncing them (ATOMIC-CELLS, local law 9). An observer that scans between write and sync sees such roots too |
| `rollback` | after a rollback fails, the handle goes on; what it acknowledges is cut off by the next open |
| `stale` | a retriever goes on with the index of a commit that was rolled back, once another commit has reached the same sequence; as the next writer it loses an acknowledged reinforcement |
| `kept` | the sentence after an oversized one is in no passage |
| `capacity` | the field of a context trace outgrows the capacity of a field, as a merge takes the union of two (GUARDED-CONTEXT-RELAY, gate 5) |

Smaller ones met while modelling, which no run is spent on because a line of
arithmetic settles them:

- `lib.rs:317`: cues beyond the capacity of the first frontier are dropped
  without `budget_exhausted` (RETRIEVAL-FIELD law 7).
- `lib.rs:386`: with `minimum_activation` 0, which `validate` admits, a signal
  of 0 enters a lane without a predecessor, so that a reported cue has no
  thread (RETRIEVAL-FIELD law 4).
- `retrieval.rs:279`: the receipt's `effective_delta_per_mille` leaves out the
  reinforcements of the other polarity, which the index applies (comment at
  `retrieval.rs:55`).
- `cognitive.rs:566`: experience adds 4 per attempt, successful or not; from
  the sixteenth failure in a row a failure raises the conductance
  (COGNITIVE-EXPERIMENT law 8).
- `cognitive.rs:486`: halving two attempts and one success gives one and none:
  conductance 837 after 1008, farther from the neutral 1000
  (COGNITIVE-EXPERIMENT law 10).
- `cognitive.rs:608-617`: with `context_field_propagation_per_mille` 1000, which
  `validate` admits, and a bond that names an atom twice, a neighbour of a
  context gets its full weight: of the bond (1, 1, 2), the context 2 and a
  capacity of 1, the field keeps 1, whose digest may be lower, and loses the
  context (GUARDED-CONTEXT-RELAY law 4). Met in the proof of `ContextFieldSound`;
  with any other propagation, or without such bonds, it cannot happen.

## Proofs

| theorem | module | statement |
|---|---|---|
| `SpecInvariant` | `AtomDbProofs` | `IInv` holds while rollbacks work |
| `SpecImplementsLog` | | `AtomDb` implements `CausalLog` while rollbacks and syncs work |
| `SpecAcknowledgedSurvives` | | so does `AcknowledgedSurvives` |
| `SpecSequencesContiguous` | | and `SequencesContiguous` |
| `SpecWriterAtFrontier` | | and `WriterAtFrontier` |
| `SpecSingleWriter` | | `SingleWriter`, whatever fails |
| `SpecIndexClosed`, `SpecRootChains`, `SpecSnapshotIsCurrent` | | every handle's index, whatever fails |
| `SpecTypeOK` | | `TypeOK`, whatever fails |
| `SpecReplay` | `ReplayProofs` | `ReplayInv` holds while rollbacks work: the writer has the index that recovery would build |
| `SpecScansBalance` | | so does `ScansBalance` |
| `SpecViewsTold` | | `ViewsTold` holds while rollbacks and syncs work and no view is read across a cut (`Undisturbed`) |
| `SpecViewsAreCommitted`, `SpecAtomsReadBack`, `SpecSnapshotsAgree`, `SpecRefreshHonest` | | so do these |
| `RetrieverInvariantHolds` | `RetrieverProofs` | `RetrieverInv` holds while no commit is taken back that a service has seen |
| `SpecIndexIsCurrent`, `SpecReinforcementsCounted`, `SpecHistoryIsTheCounter` | | so do these |
| `SpecKeepsCausalLog` | | a step of the retriever is one of `CausalLog`, or a failed sync |
| `SpecFieldIsBounded` | `PacketProofs` | `FieldIsBounded` |
| `SpecPropagatesOnce` | | `PropagatesOnce` |
| `SpecThreadsReconstruct` | | `ThreadsReconstruct`, if the least activation is not 0 |
| `SpecExhaustionObservable` | | `ExhaustionObservable`, if the first frontier holds the cues |
| `SpecContextBounded` | | `ContextBounded` |
| `SpecEvidenceGrounded` | | `EvidenceGrounded`, if the least activation is not 0 |
| `SpecAnswerableIfSupported` | | `AnswerableIfSupported` |
| `SpecWindowsBounded`, `SpecOverlapBounded` | `PassagesProofs` | `WindowsBounded`, `OverlapBounded` |
| `SpecSplitsKeepBytes` | | `SplitsKeepBytes` |
| `SpecSentencesKept` | | `SentencesKept` |
| `LearningIsEarned` | `RecallProofs` | `MemoryIsEarned`, for any recalls |
| `SuccessNeverWeakens` | | `SuccessStrengthens`, for any recalls |
| `SpecPredecessorsTurnFirst` | | `PredecessorsTurnFirst`: no circle of predecessors |
| `SpecFoundHasThread` | | `FoundHasThread`: what is found has a thread to a seed |
| `SpecThreadRewarded` | | `ThreadRewarded`: a success is one of the thread's bonds |
| `RelayBounded` | | `RelayIsBounded`, for any recalls |
| `SpecContextFieldSound` | | `ContextFieldSound`, if the propagation of fields is below 1000 or no bond names an atom twice |
| `SpecFieldFits` | | without this premise: the field is within its capacity and its weights |
| `SpecFanOutDissipates` | | `FanOutDissipates`, whatever was learnt |
| `SpecImplementsLearning` | | `Recall` implements `CognitiveMemory` |
| `SpecMemoryIsEarned`, `SpecSuccessStrengthens`, `SpecRelayIsBounded` | | hence its memory is earned, success strengthens, and relays are bounded |
| `SpecPaddedOnce` | `Sha256Proofs` | a message of any length is padded as FIPS 180 says, for any parts |

They hold for any values of the constants that satisfy the named assumptions,
which TLC evaluates in the runs: any processes, atoms, bonds, cells and number
of frames; any documents; any graphs, cues, texts and configurations that
`validate` admits; any engines. What the assumptions say is what the code makes
sure of before: of the cells, that their maps are finite and keyed by digests
(`CellAssumption`), which are numbers (`RankAssumption`); of documents, graphs
and stores, that they are finite (`DocumentAssumption`, `GraphAssumption`,
`InputAssumption`); of a query, that its terms are different and in the index
(`QueryAssumption`); of configurations, that they passed their `validate`.

### The file and its writer

"While rollbacks work" is the premise `"rollback" \notin Failures`. It cannot
be dropped: run `rollback` is the counterexample. All other failures may
happen, any number of times.

*The invariant.* None of the four properties is inductive. `AcknowledgedSurvives`
can only be kept by a repair if the repair cuts behind what is acknowledged;
for that the scan's cut, `Valid`, must be at or above it, hence a scan must know
that an open cell begins behind the last committed frame; which holds because
acknowledged prefixes close every cell they open and are whole, because a write
starts at the end of such a prefix, because a ready writer stands at the end
of the file. `FileInv` says this for each place a writer can be in:

- `HandlesInv`: the lock names the writer, and only the writer is in a state
  that writes. It is inductive alone, which gives `SingleWriter` without the
  premise.
- `DiskInv`: frames numbered from 0, only the last torn.
- `AckedInv`: what is acknowledged is synced, whole, closed, and in the file.
- `WriterAt(p)`: for the lease holder, a scan (`ScanInv`) over a file nobody
  else moves, with its open cell at the last begin membrane; or a write
  (`JobInv`) that has put a prefix of its frames behind a committed prefix; or
  ready, at the end of a committed file.

*The argument.* First sequences: `Append`, prefixes and completion of the last
chunk preserve a log (`LogAppend`, `LogPrefix`, `LogComplete`). Then cells: the
frames of a prepared cell are numbered on and end in a commit
(`CellFramesShape`). `HandlesStep` goes through `Next` action by action. For
the rest, `Bystander` shows that steps which touch neither the log nor the
writer's state keep `StoreInv`; the others - `ScanFrame`, `Repair`, the write
steps, `Rollback`, `PowerLoss` - are one lemma each. `FileInductive` puts them
together and the temporal theorems follow by `PTL`.

### The log of commits

`SpecImplementsLog` has a second premise, `"sync" \notin Failures`. After a
failed sync of a whole cell, the rollback cuts off a commit that an observer
may have read: `CausalLog` has no such step, and what follows from it is
modelled as `Retract` in `Retriever`. Failed and torn writes, their rollbacks,
failed repairs, crashes and power losses are all allowed.

*The invariant.* A step of the store implements one of `CausalLog` only if no
truncation takes a commit, and no handle knows, or is about to learn, of frames
that are none. `ViewsInv` says so:

- `UnfinishedInv`: the frames a writer is putting into the file commit with
  their last one, and what a rollback is about to cut off is short of it, or
  torn there.
- `KnownInv`: what a handle knows, and what a scan takes for valid, is a
  committed prefix; a refresh (`RefreshInv`) finds at least what its handle
  knew, however often the file was cut under it, because no cut goes below a
  committed prefix.
- `MagicInv`: an unfinished magic means an empty file without a writer.

*The argument.* `Kept(d, e)` is that each prefix committed in `d` is so in
`e`. Appending keeps them (`KeptUpTo`), a rollback cuts off an unfinished write
(`RolledBack`), a repair what lies behind the last commit (`RepairedAway`);
hence all steps but a power loss keep what is known (`KnownKept`). The log of
commits is defined from the places where commits end (`EndsIn`, `EndAt`).
`CommitsPrefix` and `CommitsAgree` say that the log up to a committed place is
a prefix of the log, and the same in a file with the same beginning;
`CommitsStep` that the chunk which commits an open cell adds one entry.

*The steps.* `StepOfLog` goes through `Next`: taking the lock is `Acquire`; the
payload that completes a commit is `Extend`, all other writes stutter; a sync, a
repair and a rollback are `Persist`; the end of a scan is `Observe`; closing,
dying and an open that fails are `Close`; a power loss is one.

### The indexes

There is no premise here: a scan takes no frame that does not balance against
its own index (`FrameBalances`), so that it does not matter what is cut or
written under it. `ContentInv` says what every handle has at each of its places:
an index in order (`IndexInv`); in a scan, an index in order up to the last
commit, and a pending cell whose bonds are new to it (`CursorInv`); in a write,
frames of a cell that was prepared against this index (`Prepared`), which is
what `commit_cell` applies after the sync. `ReachInv` is needed for truncations
alone: what a writer goes back to lies within the file. `IInv`, checked in
`race`, is `FileInv`, `ContentInv` and, while no sync fails, `ViewsInv`.

*Closed under reference.* `ApplyCell` and `ApplyCommitted` are folds, of bonds
and then of root changes. tlapm knows nothing of folds, so `FoldRuns` first
shows, from their definition, that a fold goes through states each of which is
the one before with one effect added (`IsRun`); `BondsKeepIndex` and
`RootsKeepIndex` go along such a run. A bond may name an atom of its cell, which
is in the index by then, as atoms are added first; a root may name a bond of its
cell, as roots come last. The order of the code is what the proof needs.

*Root chains.* That no identity occurs twice in a history is not inductive: a
new version might have the identity of an old one. `VersionsInv` adds that an
identity contains its predecessor's, as `RootVersion` hashes it, and sequence
numbers below the next. If two identities were equal, so would be those of
their predecessors; the least pair has none (`IdentitiesDiffer`).

*Live and recovered.* Recovery takes what balances (`ApplyCellKeepsIndex`). A
live write takes what it wrote itself, unchecked: `PreparedKeepsIndex` shows
that the frames that `prepare_cell` lists by digest contain each new fact and
each moved root once (`InOrderLists`, of an order by an injective rank), and
that what `ApplyCommitted` makes of them keeps the index.

### The replay

That recovery refuses no log of this program (`ScansBalance`) is about scans,
but it rests on what was written: a frame is accepted or not according to the
index and the pending cell that all frames before it have made. So the invariant
has a witness. `Told(h, disk)`: `h` is what recovery has before the first chunk
and after each, and no frame of the log is refused there. `ReplayInv`: there is
such an `h`, and everyone has what it has at their place - the writer's index is
`h` at its frontier (`WriterTold`), a scan that has not come to a cut has `h` at
its offset (`ObserverTold`), and there is a `Plan` for what is being written: a
replay of its frames that ends with the index which the writer will give itself
after the sync.

*Steps.* A truncation leaves the first part of `h` (`ToldCut`); where it cuts
into a pending cell, `h` at the begin of the cell has the index without it
(`Begun`), which is what a repair returns. A header adds the next state of the
plan to `h` (`PlanGrows`). A scan goes one along `h` (`ScanAdvances`), or comes
to a cut, and then the property does not speak of it any more.

*Plans.* This is where `prepare_cell` and recovery meet. `PutAtom` and `PutBond`
write only what the index does not have. For a cell, `OpenCell` says what
recovery has pending after some of its atoms, bonds and roots; that each of its
frames balances against that (`AtomBalances`, `BondBalances`, `CommitBalances`)
needs that `prepare_cell` lists each new fact once, in an order by rank, with
the count and the identity that the two membranes carry. `CellWritten`: what
`ApplyCell` makes of the whole pending cell is what `ApplyCommitted` makes of
its frames one after the other, though recovery inserts all atoms at once and
numbers root versions by the commit.

`RollbackFault` is excluded: what a failed `set_len` leaves behind is the end of
a write that nobody answers for, and the writer goes on after it as if it were
not there (run `rollback`).

### The views

What an index is worth: `ViewsTold` says of every handle that its index is what
the replay has at its frontier, `h[next_sequence + 1]`, whether it was built
live, by recovery or by a refresh. For the writer this is `ReplayInv`. An
observer returns what its scan has at the begin of the pending cell (`Begun`)
or at its end, a committed place (`ViewsInv`). From then on the log changes, but
only behind what the observer knows (`Kept`), and logs with the same first
frames have the same replay of them (`ToldUnique`), so its index stays right
without being touched (`ViewStays`).

*Premises.* Rollbacks and syncs work, as for the log of commits. `Undisturbed`
is about the behaviour: no scan completes that the file was cut under, below the
length the scan sampled (`Overtaken`). Behaviours without it exist and there the
properties are not theorems, though they hold in the runs, within their bounds: an
observer may read a part of a cell, then be overtaken by its rollback, by
another write of the same facts in another cell, and so on; if the frames it
reads of different writes balance, it indexes a cell that was never committed as
one. That takes at least two writes rolled back under one scan, which four
frames have no room for. Recovery of a writer cannot be overtaken, as it holds
the lock, nor can an observer be while no write fails and no writer dies by a
crash or a power loss. The refinement needs no such premise: it speaks of how
much of the log a handle knows, which is a committed prefix either way.

*Agreement.* `SnapshotsAgree` and `RefreshHonest` compare two indexes, which are
two places of one replay. What it has later extends what it had
(`ReplayExtends`): no bond is lost, each history keeps its versions, and the new
ones commit no earlier than the place between (`RootExtends`), so that a
snapshot of the past shows the same of both (`SnapshotsSame`).

*Meaning.* `ViewsAreCommitted` and `AtomsReadBack` say what the frames mean
without a replay. `Tells` goes along it: the index is of the frames before the
pending cell (`IndexOf`), the cell of those from its begin (`CellOf`), and a
commit joins the two (`CellApplied`) - the atoms at once, bonds and roots in the
runs that `CellRuns` found. That root frames of the cell come after all that the
index knows keeps each history in order (`RootTold`). `AtomsReadBack` also needs
that the place of an atom frame is a whole one, which is `IsCommitted`.

`ViewsTold` has a replay for a witness that TLC cannot enumerate; the four
properties that follow from it are checked by `race`, `SnapshotsAgree` by
`roots`.

### The retriever

The premise `~SeenMayFail` is the one of `shared`: a commit that another service
has read does not fail to sync. Run `stale` shows that without it both
`IndexIsCurrent` and `ReinforcementsCounted` fail.

`IndexIsCurrent` compares the cached index with a rebuild when their sequence
numbers are equal. `RetrieverInv` says why they may be compared: an index was
built from some prefix of the log (`BuiltFrom`), commits have growing sequence
numbers, so that equal numbers mean equal prefixes (`IndexCurrent`). The view
of a service is a prefix of the log; the writer knows all of it but for the
commit it has written and not yet synced, and no index was built from that one,
which is what lets `Retract` take it back. `ReinforcementsCounted` needs that
reinforcements of a passage are numbered without a gap (`NoGaps`) in every
prefix of the log, since the writer counts in its own view; that those
acknowledged are in the durable part; and that the number of the one in
progress is above them all.

### The field and the packet

The loops of `activate` are folds over arcs, pending lanes, candidates. Each is
shown to be an iteration over a finite set (`IterationExists`), for which a fact
that one step keeps is a fact of the result (`IterationStays`).

`FieldInv`: states are finite maps, the frontier lists nodes of the field, both
within their budgets, and there is an order, `rank`, of the expanded lanes in
which each predecessor comes before (`Backwards`). A round only adds to the end
of the order: a signal goes only to lanes that were not expanded. Hence a
thread ends within as many steps as there are nodes, which is how often
`reconstruct_thread` goes on (`WalkExists`). `MinimumAssumed` - the least
activation is not 0 - excludes what `lib.rs:386` does with a signal of 0;
`CuesFit` what `lib.rs:317` does with too many cues; both are listed
[above](#where-the-code-and-its-documents-part). `Complete`, for
`ExhaustionObservable`: as long as nothing was cut off, what has been expanded
has sent along all of its arcs, what is active is still to be, and nothing else
has a signal to send.

`QueryInv` adds to it that evidence consists of hits with their texts and cues
(`Taken`), that the bytes are counted and within the budget, and that the first
evidence is the first passage among the hits (`FirstFound`), so that no other
passage has more cues. `answerable` looks at the first evidence only, and that
is why this is enough.

### The passages

Sentences of any length and number, any whitespace, any limit and overlap that
`passages_with_overlap` admits.

`PlacedInv` says of the passages so far that each keeps to the limit; that a
sentence before `start` is in one, unless it follows an oversized one; and of
each window that what it repeats lies in one run of sentences that fits into the
overlap, with a sentence behind it that no window before has. Together with the
place of `start` it is inductive (`PassagesInv`). `OverlapBounded` follows since
a sum over fewer sentences is no larger (`SumCompare`); `Joined` recurses over
the sentences and is shown to be such a sum (`JoinedIs`).

The tail of a window is found by recursion from its end (`TailIs`), how far it
can be filled by recursion from its start (`FitIs`). That the first sentence of
a window fits, which the code does not check, is `FirstFits`: the allowance for
the tail leaves room for it and its blank.

`split_long_piece` advances by the end of a chunk, less the whitespace around
it. `Chunks` says what the chunks from some byte on must be: within the
sentence, no longer than the limit, without a byte missing between them but
whitespace. It is shown for each byte from the end of the sentence down to its
start (`ChunksExist`), with the recursive function defined there as a whole.

### The cognitive engine

*Learning.* `MemoryInv` adds types to `MemoryIsEarned`. What makes it inductive
is that half-life treats a trace and its bonds alike: `observations \div 2` is
at least `attempts \div 2`, and a trace whose bonds are all forgotten goes with
them. `SuccessStrengthens` needs that conductance grows with one more success
in one more attempt: `(s + 2) \div (a + 3)` is at least `(s + 1) \div (a + 2)`
when `s <= a`, which is part of the invariant.

*Threads.* That no replacement of a trace closes a circle (`cognitive.rs:387`)
rests on the order of first turns, `expanded`: a signal goes only to an atom
that has had no turn (`Open`), and comes from one that has. `SpreadInv` says so
of the candidates as well as of the traces (`CandidatesLead`), since a
predecessor waits there for the end of its round. An atom that gets a turn
later does not come before what has had one (`TurnKeepsOrder`). The walk along
predecessors goes down in that order, so it ends at a seed (`ThreadFound`), and
`ThreadBack` finds it: hence `FoundHasThread`, and with it `ThreadRewarded`.

*Relays.* `RelayInv` adds to `MemoryInv` that traces are finite in number,
within their capacity, and their fields finite maps to natural numbers
(`TracesFit`). The quotient of a merge and that of a relay are of sums over
maps: `WeightedSum` bounds a sum of weighted terms by their extremes times the
sum of the weights, and `QuotientBetween` brings this through the truncating
division. `SharedWeight`, the denominator, is at least the sum of the weights,
so that a relay is a mean of what the eligible traces say, drawn towards the
prior (`RelayedBetween`).

*Context fields.* `HopRaises` goes through one hop: weights only grow, and what
a hop adds is below the full weight (`SignalWeakens`), as the signal is divided
by the degree of its source - at least 2 if no bond names an atom twice - or
multiplied by less than 1. So only contexts have the full weight (`FieldIs`),
and the cut to the capacity drops nothing that is ahead of the rest, if that
much fits (`StrongestStay`). `Fades` is the premise;
[above](#where-the-code-and-its-documents-part) is what happens without it.

*Fan-out.* `FanOutDissipates` is not inductive: in the middle of a turn, the
candidates have received what the turn's first arcs carried. `InBudget` adds
what the arcs still to follow may carry (`Owed`): the most each arc may
carry, times their number, is no more than what the atom has to give
(`PerArcIs`), as the division by the degree truncates. A turn moves the
activation of its atom from what is waiting to what is given and owed
(`BudgetOfTurn`), an arc moves its share from what is owed to what is received
(`BudgetOfArc`), and conductance is at most 2000, whatever was learnt
(`ConductanceKept`).

*Refinement.* `StepLearns`: `Report` is a `Learn` step, since `RequestInv` says
that what it hands to `observe_feedback` are the contexts of a call, their
field and bonds of the store; bonds of the thread that were not explored would
not be rewarded (`RewardsAreExplored`). All other steps leave the memory alone.

### The hash

No run has `Sha256`: bytes, blocks of 64 and counters of 64 bits are beyond
TLC, and need no bounds here, as parts are any sequences of bytes.

`BufferInv`: what was compressed, what waits in the block and what is left of
the part that is being added are, one after the other, the message; so far the
compressed bytes are whole blocks. `CopiedPrefix` says what a copy into the
block does to its first bytes, `FilledPrefix` the same of zeros; with them
`finish` comes down to two divisions of 64, one on each side of byte 56.

### How far the prover goes

Proofs by induction are done over sets: the least number without a property
(`LeastNatural`), a largest finite subset with it (`SubsetInduction`); the
library's induction theorems take an operator, which the provers cannot
instantiate. A recursive function is used through its defining equation, a fold
through the run shown to exist for it, each case by case. Limits such as 65536
have names in the models, since the provers are slow with large numerals.

Only model-checked: liveness (`CallsReturn`), which is out of reach.

## What is not modelled

- Errors of reads other than a file that ends early; the statistic of repaired
  bytes; limits of payload sizes.
- Bytes of payloads and encodings, except for equality; what `compress` of
  SHA-256 computes.
- The medium losing pages of unsynced writes out of order.
- A reader that looks at the magic while its eight bytes are half written.
- One retriever used with two different stores.
- `terms` and `to_json`; source labels in a packet, and the measurements it
  copies from the field.
- What the engines report and do not read back: promoted edges and hops, peaks,
  intersections, explanations.
- Characters of more than one byte in hard splits; saturation of counters and
  activations at 2^64.
- The command line's arguments, reports and demonstrations.
