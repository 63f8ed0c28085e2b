---------------------------- MODULE MCTarStream ----------------------------
(***************************************************************************)
(* TarStream on a few shards.                                              *)
(***************************************************************************)
EXTENDS TarStreamInvariants

FiveRecords == << 2, 0, 3 >>
=============================================================================
