----------------------------- MODULE MCVtxoSpend -----------------------------
(***************************************************************************)
(* VtxoSpend for TLC: two requests beside the polling client, with two     *)
(* transactions and two checkpoint sets to choose from.                    *)
(***************************************************************************)
EXTENDS VtxoSpend
=============================================================================
