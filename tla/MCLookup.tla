------------------------------ MODULE MCLookup ------------------------------
(* Names with negative and positive bytes, one the prefix of another, some   *)
(* of which collide in a table of three slots.  A char has 2 bits, an int 8, *)
(* an unsigned long 16.                                                      *)
EXTENDS Lookup, Bitwise

MCNames == {<<>>, <<1>>, <<-1>>, <<1, 1>>, <<1, -2>>, <<-2, -2>>}

(* A function, whose arguments are computed once.                            *)
WordXor[a \in Nat, b \in Nat] == a ^^ b

MCXor(a, b) == WordXor[a, b]
=============================================================================
