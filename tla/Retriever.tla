----------------------------- MODULE Retriever -----------------------------
(***************************************************************************)
(* The retriever on top of the store: documents remembered as cells, the   *)
(* derived index cached against the snapshot sequence of a handle, and the *)
(* feedback loop, which counts reinforcements by committing one cell for   *)
(* each.  A service keeps one retriever, which outlives its handles; a     *)
(* process of the command line has one for its one command.                *)
(*                                                                         *)
(* The store below is what CausalLog says of it, and AtomDb is shown to    *)
(* implement that: a log of commits, extended, then made durable, and each *)
(* handle's view of it.  What CausalLog leaves out is a commit that is     *)
(* taken back when its sync fails (Retract), as AtomDb's Rollback does.    *)
(*                                                                         *)
(* A digest is the tuple it hashes: <<polarity, count>> is the identity of *)
(* a feedback relation, <<"term", t>> of a term, <<text>> of a text.       *)
(***************************************************************************)
EXTENDS CausalLog, FiniteSets, FiniteSetsExt

CONSTANTS
    Atoms,       \* atoms given to put_atom
    Documents,   \* given to remember: [source, passages], a passage is <<text, terms>>
    MaxCommits,  \* no operation starts that would make the log longer
    SeenMayFail  \* whether a commit that another service has seen may fail to sync

ASSUME SyncAssumption == SeenMayFail \in BOOLEAN
ASSUME ProcAssumption == Nobody \notin Proc
ASSUME DocumentAssumption ==
    \A document \in Documents :
        /\ IsFiniteSet(document.passages)
        /\ \A passage \in document.passages : IsFiniteSet(passage[2])

VARIABLES
    retriever,  \* the derived index of each process
    call,       \* the operation in progress on each handle
    services,   \* the processes that are not of the command line
    spent,      \* processes of the command line that have made their call
    receipts    \* history: the reinforcements that were acknowledged, in order

processes == <<services, spent>>
vars_r == <<vars, retriever, call, processes, receipts>>

Polarity == {"strengthen", "weaken"}

MENTIONS == <<"mentions">>
FROM_SOURCE == <<"from-source">>
FEEDBACK_MARKER == <<"feedback-marker">>
term_identity(term) == <<"term", term>>
feedback_relation(polarity, count) == <<polarity, count>>

STRENGTHEN_DELTA == 250
WEAKEN_DELTA == 400
MENTIONS_BASE == 1400
MAX_CONDUCTANCE == 4000

-----------------------------------------------------------------------------
(* What a handle knows: the facts of the commits in its view, and the      *)
(* sequence number after the last of them.                                 *)

atoms_of(commits) == UNION {commits[i].atoms : i \in 1..Len(commits)}
bonds_of(commits) == UNION {commits[i].bonds : i \in 1..Len(commits)}
next_sequence(commits) == IF commits = <<>> THEN 0 ELSE commits[Len(commits)].next_sequence

-----------------------------------------------------------------------------
(* The derived index *)

(* The numbers of the reinforcements of a passage among the bonds. *)
parse_feedback(bonds, passage, polarity) ==
    {bond[2][2] : bond \in {b \in bonds : b[1] = passage /\ b[2][1] = polarity}}

feedback_count(bonds, passage, polarity) ==
    Max({0} \cup parse_feedback(bonds, passage, polarity))

effective_delta(counts) == counts[1] * STRENGTHEN_DELTA - counts[2] * WEAKEN_DELTA

Clamp(value, low, high) == IF value < low THEN low ELSE IF value > high THEN high ELSE value

Base(bond) ==
    IF bond[2] = MENTIONS THEN MENTIONS_BASE ELSE IF bond[2] = FROM_SOURCE THEN 600 ELSE 900

(* Feedback shifts the arc into the target of a bond, never the reverse.   *)
build_index(bonds, sequence) ==
    LET feedback_bonds == {bond \in bonds : bond[2][1] \in Polarity}
        graph == bonds \ feedback_bonds
        mentions == {bond \in graph : bond[2] = MENTIONS}
        feedback == [passage \in {bond[1] : bond \in feedback_bonds} |->
                        <<feedback_count(bonds, passage, "strengthen"),
                          feedback_count(bonds, passage, "weaken")>>]
        boost(to) == IF to \in DOMAIN feedback THEN effective_delta(feedback[to]) ELSE 0
        into(bond) == [from |-> bond[1], to |-> bond[3], edge |-> bond,
                       conductance |-> Clamp(Base(bond) + boost(bond[3]), 1, MAX_CONDUCTANCE)]
        back(bond) == [from |-> bond[3], to |-> bond[1], edge |-> bond,
                       conductance |-> Base(bond)]
    IN  [snapshot_sequence |-> sequence,
         edges |-> {into(bond) : bond \in graph} \cup {back(bond) : bond \in graph},
         passage_ids |-> {bond[3] : bond \in mentions},
         passage_sources |-> {<<bond[1], bond[3]>> : bond \in {b \in graph : b[2] = FROM_SOURCE}},
         term_passages |-> [term \in {bond[1] : bond \in mentions} |->
                                Cardinality({bond \in mentions : bond[1] = term})],
         feedback |-> feedback]

Rebuilt(p) == build_index(bonds_of(view[p]), next_sequence(view[p]))

(* DerivedIndex::default(). *)
DefaultIndex == build_index({}, 0)

(* The index a query or a reinforcement works with: rebuilt when the       *)
(* snapshot sequence is another.  Mutant: built once and kept.             *)
CurrentOnce(p) ==
    IF retriever[p].snapshot_sequence = 0 THEN Rebuilt(p) ELSE retriever[p]
Current(p) ==
    IF retriever[p].snapshot_sequence # next_sequence(view[p]) THEN Rebuilt(p) ELSE retriever[p]

(* The count of a reinforced passage in an index. *)
CountIn(index, passage, polarity) ==
    IF passage \notin DOMAIN index.feedback THEN 0
    ELSE index.feedback[passage][IF polarity = "strengthen" THEN 1 ELSE 2]

-----------------------------------------------------------------------------
(* Writing.  A call goes through "written" (its commit is in the file),    *)
(* "committed" (and synced) and its answer.                                *)

NoCall == [stage |-> "none"]

InitR ==
    /\ Init
    /\ retriever = [p \in Proc |-> DefaultIndex]
    /\ call = [p \in Proc |-> NoCall]
    /\ services \in SUBSET Proc
    /\ spent = {}
    /\ receipts = <<>>

(* A service calls at any time.  A command of the command line opens a     *)
(* handle, makes one call with a retriever of its own, prints and exits.   *)
Command(p) ==
    IF p \in services THEN UNCHANGED spent
    ELSE p \notin spent /\ spent' = spent \cup {p}

(* A writer whose open has scanned the log. *)
ReadyWriter(p) == lease = p /\ p \in handles /\ call[p] = NoCall

(* commit_cell up to its sync: only facts that are new go into the log, in *)
(* frames of their own between two membranes; nothing new, no commit.      *)
commit_cell(p, atoms, bonds, operation) ==
    LET new_atoms == atoms \ atoms_of(log)
        new_bonds == bonds \ bonds_of(log)
        frames == Cardinality(new_atoms) + Cardinality(new_bonds) + 2
    IN  /\ IF frames = 2
           THEN /\ call' = [call EXCEPT ![p] = [operation EXCEPT !.stage = "committed"]]
                /\ UNCHANGED log
           ELSE /\ Len(log) < MaxCommits
                /\ log' = Append(log, [atoms |-> new_atoms, bonds |-> new_bonds,
                                       next_sequence |-> next_sequence(log) + frames])
                /\ call' = [call EXCEPT ![p] = operation]
        /\ UNCHANGED <<durable, lease, handles, view>>

put_atom(p, id) ==
    /\ ReadyWriter(p)
    /\ id \notin atoms_of(log)
    /\ Len(log) < MaxCommits
    /\ log' = Append(log, [atoms |-> {id}, bonds |-> {}, next_sequence |-> next_sequence(log) + 1])
    /\ call' = [call EXCEPT ![p] = [stage |-> "written", name |-> "put_atom"]]
    /\ UNCHANGED <<durable, lease, handles, view, retriever, receipts>>

(* remember up to the sync of commit_cell. *)
remember(p, document) ==
    LET texts == {passage[1] : passage \in document.passages}
        mentions == UNION {{<<term_identity(t), MENTIONS, passage[1]>> : t \in passage[2]} :
                              passage \in document.passages}
    IN  /\ ReadyWriter(p)
        /\ commit_cell(p,
              {document.source, MENTIONS, FROM_SOURCE} \cup texts \cup {bond[1] : bond \in mentions},
              mentions \cup {<<text, FROM_SOURCE, document.source>> : text \in texts},
              [stage |-> "written", name |-> "remember"])
        /\ UNCHANGED <<retriever, receipts>>

(* The number of a new reinforcement.  Mutants: that of the last one; one  *)
(* is left out.                                                            *)
SameCount(current) == IF current = 0 THEN 1 ELSE current
SkipCount(current) == current + 2
NextCount(current) == current + 1

(* reinforce up to the sync of commit_cell. *)
reinforce(p, passage, polarity) ==
    /\ ReadyWriter(p)
    /\ passage \in atoms_of(view[p])
    /\ LET count == NextCount(CountIn(Current(p), passage, polarity))
           relation == feedback_relation(polarity, count)
       IN  commit_cell(p, {relation, FEEDBACK_MARKER}, {<<passage, relation, FEEDBACK_MARKER>>},
                       [stage |-> "written", name |-> "reinforce", passage |-> passage,
                        polarity |-> polarity, count |-> count])
    /\ retriever' = [retriever EXCEPT ![p] = Current(p)]
    /\ UNCHANGED receipts

(* The sync of the commit succeeds. *)
CommitSynced(p) ==
    /\ call[p].stage = "written"
    /\ Persist
    /\ view' = [view EXCEPT ![p] = log]
    /\ call' = [call EXCEPT ![p] = IF @.name = "put_atom" THEN NoCall
                                   ELSE [@ EXCEPT !.stage = "committed"]]
    /\ UNCHANGED <<retriever, receipts>>

(* No other service has the last commit in its view or in its index. *)
Unseen(p) ==
    \A q \in services \ {p} :
        view[q] # log /\ retriever[q].snapshot_sequence # next_sequence(log)

(* It fails: the commit is taken back. *)
Retract(p) ==
    /\ call[p].stage = "written"
    /\ SeenMayFail \/ Unseen(p)
    /\ log' = view[p]
    /\ durable' = Len(view[p])
    /\ call' = [call EXCEPT ![p] = NoCall]
    /\ UNCHANGED <<lease, handles, view, retriever, receipts>>

(* What reinforce answers. *)
Receipt(c) == [passage |-> c.passage, polarity |-> c.polarity, count |-> c.count]

(* db.sync() at the end of remember and reinforce, and the answer. *)
Acknowledge(p) ==
    /\ call[p].stage = "committed"
    /\ Persist
    /\ UNCHANGED view
    /\ call' = [call EXCEPT ![p] = NoCall]
    /\ receipts' = IF call[p].name = "reinforce"
                   THEN Append(receipts, Receipt(call[p])) ELSE receipts
    /\ UNCHANGED retriever

(* That sync fails: an error for a cell that is committed. *)
AcknowledgeFault(p) ==
    /\ call[p].stage = "committed"
    /\ call' = [call EXCEPT ![p] = NoCall]
    /\ UNCHANGED <<vars, retriever, receipts>>

-----------------------------------------------------------------------------
(* Queries and handles *)

(* A query, or a reinforcement that commit_cell refuses or fails to write. *)
retrieve(p) ==
    /\ p \in handles /\ call[p] = NoCall
    /\ retriever' = [retriever EXCEPT ![p] = Current(p)]
    /\ UNCHANGED <<vars, call, receipts>>

(* open as writer takes the lock and then scans, as open_read_only and     *)
(* refresh do.                                                             *)
Open(p) == p \notin handles /\ Acquire(p) /\ UNCHANGED <<retriever, call, receipts>>

ScanLog(p) ==
    /\ call[p] = NoCall
    /\ p \in handles => p \in services
    /\ handles' = handles \cup {p}
    /\ view' = [view EXCEPT ![p] = log]
    /\ UNCHANGED <<log, durable, lease, retriever, call, receipts>>

CloseHandle(p) ==
    /\ p \in services
    /\ call[p] = NoCall
    /\ Close(p)
    /\ UNCHANGED <<retriever, call, receipts>>

(* The process ends, in a call or not, and its retriever with it. *)
Exit(p) ==
    /\ Close(p)
    /\ retriever' = [retriever EXCEPT ![p] = DefaultIndex]
    /\ call' = [call EXCEPT ![p] = NoCall]
    /\ spent' = spent \ {p}
    /\ UNCHANGED <<services, receipts>>

PowerLossR ==
    /\ PowerLoss
    /\ spent' = {}
    /\ retriever' = [p \in Proc |-> DefaultIndex]
    /\ call' = [p \in Proc |-> NoCall]
    /\ UNCHANGED <<services, receipts>>

(* The operations of the library that a process may call. *)
Operation(p) ==
    \/ retrieve(p)
    \/ \E id \in Atoms : put_atom(p, id)
    \/ \E document \in Documents : remember(p, document)
    \/ \E passage \in Atoms, polarity \in Polarity : reinforce(p, passage, polarity)

NextR ==
    \/ \E p \in Proc :
        \/ Operation(p) /\ Command(p) /\ UNCHANGED services
        \/ /\ \/ Open(p) \/ ScanLog(p) \/ CloseHandle(p)
              \/ CommitSynced(p) \/ Retract(p) \/ Acknowledge(p) \/ AcknowledgeFault(p)
           /\ UNCHANGED processes
        \/ Exit(p)
    \/ PowerLossR

SpecR == InitR /\ [][NextR]_vars_r

-----------------------------------------------------------------------------
(* Properties *)

(* The cache of an index is keyed by the snapshot sequence alone.  Still,  *)
(* an index that would be used without a rebuild is the one a rebuild      *)
(* would make, whatever refreshes, other writers, crashes and new handles  *)
(* came between (STAGE-8: a committed change forces exactly one rebuild).  *)
IndexIsCurrent == \A p \in Proc : Current(p) = Rebuilt(p)

(* No reinforcement is lost or counted twice: two that were acknowledged   *)
(* for the same passage and polarity have different numbers, and every     *)
(* later writer's index counts at least as many (STAGE-9: events never     *)
(* deduplicate away).                                                      *)
ReinforcementsCounted ==
    /\ \A i, j \in 1..Len(receipts) :
          i < j /\ receipts[i].passage = receipts[j].passage
                /\ receipts[i].polarity = receipts[j].polarity
             => receipts[i].count < receipts[j].count
    /\ \A i \in 1..Len(receipts) :
          receipts[i].count
            <= feedback_count(bonds_of(log), receipts[i].passage, receipts[i].polarity)

(* STAGE-9: the append-only history is the counter.  In every view the     *)
(* numbers of a passage and polarity are 1 up to the count, so that a      *)
(* reinforcement taken back or cut off by recovery leaves no gap.          *)
HistoryIsTheCounter ==
    \A p \in Proc : \A bond \in bonds_of(view[p]) : bond[2][1] \in Polarity =>
        parse_feedback(bonds_of(view[p]), bond[1], bond[2][1]) =
            1..feedback_count(bonds_of(view[p]), bond[1], bond[2][1])
=============================================================================
