--------------------------- MODULE MCVoucherStore ---------------------------
(* VoucherStore, for TLC. *)
EXTENDS VoucherStore

Interchangeable == Permutations(Txns) \cup Permutations(Keys)
=============================================================================
