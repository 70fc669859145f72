----------------------------- MODULE MCDatabase -----------------------------
(***************************************************************************)
(* Purchase orders of two companies, which may have the same numbers, in   *)
(* one company as well, and the companies themselves, for TLC.             *)
(***************************************************************************)
EXTENDS Database

CONSTANTS c1, c2, p1, p2, p3, k1, k2

Kind ==
    (p1 :> "purchase_order") @@ (p2 :> "purchase_order") @@ (p3 :> "purchase_order")
    @@ (k1 :> "company") @@ (k2 :> "company")

Home == (p1 :> c1) @@ (p2 :> c1) @@ (p3 :> c2) @@ (k1 :> c1) @@ (k2 :> c2)

NamesGiven ==
    (p1 :> {"1"}) @@ (p2 :> {"1", "2"}) @@ (p3 :> {"1"})
    @@ (k1 :> {"first"}) @@ (k2 :> {"second"})

Asked == {<<c1, "purchase_order">>, <<c2, "purchase_order">>, <<c1, "company">>}

Bounds == (c1 :> 2) @@ (c2 :> 1)
=============================================================================
