------------------------- MODULE RetrieverInvariant -------------------------
(***************************************************************************)
(* The inductive invariant behind IndexIsCurrent, ReinforcementsCounted    *)
(* and HistoryIsTheCounter.  It holds as long as a commit that a service   *)
(* has seen is not taken back.                                             *)
(***************************************************************************)
EXTENDS Retriever, DataLemmas

(* What the first n commits say, and the index built from them.            *)
BondsTo(commits, n) == UNION {commits[i].bonds : i \in 1..n}
SequenceTo(commits, n) == IF n = 0 THEN 0 ELSE commits[n].next_sequence
Built(commits, n) == build_index(BondsTo(commits, n), SequenceTo(commits, n))

BuiltFrom(index, commits) == \E n \in 0..Len(commits) : index = Built(commits, n)

Begins(s, t) == Len(s) <= Len(t) /\ \A i \in 1..Len(s) : s[i] = t[i]

(* The reinforcements among the bonds are numbered without a gap.          *)
NoGaps(bonds) ==
    \A bond \in bonds : bond[2][1] \in Polarity =>
        LET count == feedback_count(bonds, bond[1], bond[2][1])
        IN  count \in Nat /\ parse_feedback(bonds, bond[1], bond[2][1]) = 1..count

CommitsInv(commits) ==
    /\ IsSeq(commits)
    /\ \A i \in 1..Len(commits) : commits[i].next_sequence \in Nat \ {0}
    /\ \A i, j \in 1..Len(commits) :
          i < j => commits[i].next_sequence < commits[j].next_sequence
    /\ \A n \in 0..Len(commits) : NoGaps(BondsTo(commits, n))

Calls ==
    {NoCall}
    \cup [stage : {"written", "committed"}, name : {"put_atom", "remember"}]
    \cup [stage : {"written", "committed"}, name : {"reinforce"},
          passage : Atoms, polarity : Polarity, count : Nat]

TypesInv ==
    /\ CommitsInv(log)
    /\ durable \in 0..Len(log)
    /\ lease \in Proc \cup {Nobody}
    /\ handles \subseteq Proc /\ services \subseteq Proc
    /\ view = [p \in Proc |-> view[p]] /\ DOMAIN retriever = Proc
    /\ call \in [Proc -> Calls]

(* A process without a handle knows of no commit.  The index of a service  *)
(* was built from the log, which may have gone on since; a command has its *)
(* view and its index to itself.                                           *)
ViewInv(p) ==
    /\ CommitsInv(view[p])
    /\ p \notin handles => view[p] = <<>>
    /\ p \in services => Begins(view[p], log) /\ BuiltFrom(retriever[p], log)
    /\ p \notin services => BuiltFrom(retriever[p], view[p])

(* Only the writer is in a call, and it knows the whole log but for the    *)
(* commit that it has written and not yet synced.                          *)
WriterInv(p) ==
    /\ call[p] # NoCall => lease = p /\ p \in handles
    /\ lease = p => Begins(view[p], log)
    /\ lease = p /\ p \in handles /\ call[p].stage # "written" => view[p] = log
    /\ call[p].stage = "written" =>
          /\ Len(log) = Len(view[p]) + 1
          /\ durable <= Len(view[p])
          /\ BuiltFrom(retriever[p], view[p])

(* An acknowledged reinforcement is on the medium.  The one in progress is *)
(* in the log and has a number of its own.                                 *)
ReceiptsInv ==
    /\ IsSeq(receipts)
    /\ \A i \in 1..Len(receipts) :
          /\ receipts[i].polarity \in Polarity
          /\ receipts[i].count \in
                parse_feedback(BondsTo(log, durable), receipts[i].passage, receipts[i].polarity)
    /\ \A i, j \in 1..Len(receipts) :
          i < j /\ receipts[i].passage = receipts[j].passage
                /\ receipts[i].polarity = receipts[j].polarity
             => receipts[i].count < receipts[j].count

ReinforceInv(p) ==
    call[p] # NoCall /\ call[p].name = "reinforce" =>
        /\ call[p].count \in parse_feedback(BondsTo(log, Len(log)), call[p].passage, call[p].polarity)
        /\ \A i \in 1..Len(receipts) :
              receipts[i].passage = call[p].passage /\ receipts[i].polarity = call[p].polarity
                 => receipts[i].count < call[p].count

RetrieverInv ==
    /\ TypesInv /\ ReceiptsInv
    /\ \A p \in Proc : ViewInv(p) /\ WriterInv(p) /\ ReinforceInv(p)
=============================================================================
