------------------------------- MODULE Dicts -------------------------------
(***************************************************************************)
(* Partial functions for the dicts and tables of the code, and what a loop *)
(* over a list picks from it.                                              *)
(***************************************************************************)
EXTENDS Naturals, Sequences

Empty == [x \in {} |-> x]

\* dict.update, INSERT ... ON CONFLICT DO UPDATE: the entries of g replace or
\* extend those of f.
Overlay(f, g) ==
    [x \in DOMAIN f \cup DOMAIN g |-> IF x \in DOMAIN g THEN g[x] ELSE f[x]]

\* for x in s: if x is in S: append it.
Among(s, S) ==
    LET among[i \in 0..Len(s)] ==
            IF i = 0 THEN <<>>
            ELSE IF s[i] \in S THEN Append(among[i-1], s[i])
            ELSE among[i-1]
    IN  among[Len(s)]
=============================================================================
