---------------------------- MODULE MCInterface ----------------------------
(***************************************************************************)
(* Neighbours and their Ethernet addresses are interchangeable: no         *)
(* operator of InterfaceAlone tells one from another, and no property      *)
(* names one.                                                              *)
(***************************************************************************)
EXTENDS InterfaceAlone, TLC

Interchangeable == Permutations(Hops) \cup Permutations(Ethers)
=============================================================================
