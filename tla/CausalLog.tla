----------------------------- MODULE CausalLog -----------------------------
(***************************************************************************)
(* What the store promises the programs that use it: one append-only log   *)
(* of commits (a single fact, or a cell as a whole).  Only the holder of   *)
(* the writer lease extends it.  What has been made durable is never lost, *)
(* each handle holds a prefix of the log that only grows, and an open      *)
(* writer knows of a new commit only once it is durable.                   *)
(***************************************************************************)
EXTENDS Integers, Sequences, SequencesExt

CONSTANTS Proc, Nobody

VARIABLES
    log,        \* the commits, in order
    durable,    \* how many of them a power loss cannot take
    lease,      \* who may extend the log
    handles,    \* the processes with an open handle
    view        \* the commits each handle knows, <<>> without a handle

vars == <<log, durable, lease, handles, view>>

Init ==
    /\ log = <<>> /\ durable = 0 /\ lease = Nobody
    /\ handles = {}
    /\ view = [p \in Proc |-> <<>>]

Acquire(p) ==
    /\ lease = Nobody /\ lease' = p
    /\ UNCHANGED <<log, durable, handles, view>>

Extend ==
    /\ lease # Nobody
    /\ UNCHANGED <<lease, handles, durable, view>>
    /\ Len(log') = Len(log) + 1 /\ IsPrefix(log, log')

(* Everything so far is on the medium, and the writer knows it.            *)
Persist ==
    /\ lease # Nobody
    /\ durable' = Len(log)
    /\ \/ UNCHANGED <<handles, view>>
       \/ /\ handles' = handles \cup {lease}
          /\ view' = [view EXCEPT ![lease] = log]
    /\ UNCHANGED <<log, lease>>

(* An observer comes to know more of the log; a writer only as it opens.   *)
Observe(p) ==
    /\ p = lease => p \notin handles
    /\ handles' = handles \cup {p}
    /\ UNCHANGED <<lease, log, durable>>
    /\ \E n \in Len(view[p])..Len(log) : view' = [view EXCEPT ![p] = SubSeq(log, 1, n)]

Close(p) ==
    /\ handles' = handles \ {p}
    /\ lease' = IF lease = p THEN Nobody ELSE lease
    /\ view' = [view EXCEPT ![p] = <<>>]
    /\ UNCHANGED <<log, durable>>

PowerLoss ==
    /\ lease' = Nobody
    /\ handles' = {}
    /\ \E n \in durable..Len(log) : log' = SubSeq(log, 1, n) /\ durable' = n
    /\ view' = [p \in Proc |-> <<>>]

Next ==
    \/ \E p \in Proc : Acquire(p) \/ Observe(p) \/ Close(p)
    \/ Extend \/ Persist \/ PowerLoss

Spec == Init /\ [][Next]_vars
=============================================================================
