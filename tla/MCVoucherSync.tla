--------------------------- MODULE MCVoucherSync ---------------------------
(* VoucherSync with one post-dated voucher, for TLC. *)
EXTENDS VoucherSync

CONSTANT PostDated \* an object

OwnGuid == [o \in Objects |-> o]
Dates == [o \in Objects |-> IF o = PostDated THEN 1 ELSE 0]
=============================================================================
