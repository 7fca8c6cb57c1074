------------------------------ MODULE MCAtomDb ------------------------------
(* Instances of the store for TLC. *)
EXTENDS AtomDbInvariant

A == <<"atom", "a">>
B == <<"atom", "b">>
AB == <<A, A, B>>
AA == <<A, A, A>>

(* The digests of an instance, in an order a hash may give them. *)
MCRank ==
    (B :> 1) @@ (A :> 2) @@ (<<"bond", AB>> :> 3) @@ (<<"bond", AA>> :> 4)

ACell(atoms, bonds, roots) == [atoms |-> atoms, bonds |-> bonds, roots |-> roots]

(* Two atoms, two bonds from one source and two roots, one of them on a bond. *)
WholeCell == ACell({A, B}, {AB, AA}, (A :> <<"bond", AB>>) @@ (B :> A))
(* Roots that move, are cleared and come back. *)
ToA == ACell({A}, {}, A :> A)
ToB == ACell({A, B}, {}, A :> B)
Clear == ACell({}, {}, A :> None)

RootCells == {WholeCell, ToB, Clear}

MCBonds == {AB}
OneAtom == {ACell({A}, {}, EmptyMap)}
AtomAndRoot == {ToA}
AtomThenRoot == {ACell({A}, {}, EmptyMap), ACell({}, {}, A :> A)}
NoCells == {}

Symmetry == Permutations(Proc)
=============================================================================
