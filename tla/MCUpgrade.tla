------------------------------ MODULE MCUpgrade ------------------------------
(* Instances of Upgrade for TLC.                                           *)
EXTENDS Upgrade, TLC

CONSTANTS kernel, fsys1, fsys2, boots, sum0, pack, single, zero

MCHeader == [i \in Images |->
               CASE i = kernel -> "kr"
                 [] i = boots -> "bs"
                 [] OTHER -> "fs"]

MCContents == [u \in Uploads |->
                 CASE u = pack -> <<boots, kernel, fsys1>>
                   [] u = zero -> <<sum0>>
                   [] OTHER -> <<fsys2>>]

MCSymmetry == Permutations(Operators)
=============================================================================
