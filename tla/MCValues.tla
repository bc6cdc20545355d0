------------------------------ MODULE MCValues ------------------------------
(* Two strings of the same bytes, one that starts like them and one that     *)
(* all of them start with; two arrays that were popped, so that both hold    *)
(* NULL, and one that was not.  The other numbers, a half among them, the    *)
(* infinities and NaN come from computing.                                   *)
EXTENDS Values, TLC

MCHeap ==
  "s" :> [kind |-> "string", bytes |-> <<1, 2>>]
    @@ "t" :> [kind |-> "string", bytes |-> <<1, 2>>]
    @@ "u" :> [kind |-> "string", bytes |-> <<1>>]
    @@ "v" :> [kind |-> "string", bytes |-> <<1, 3>>]
    @@ "x" :> [kind |-> "array", len |-> 1, data |-> "NULL"]
    @@ "y" :> [kind |-> "array", len |-> 1, data |-> "NULL"]
    @@ "z" :> [kind |-> "array", len |-> 1, data |-> "z"]
    @@ "f" :> [kind |-> "function"]

MCLiterals ==
  {zynkNull, zynkNumber(One), zynkNumber(Largest), [type |-> "byte", byte |-> 1]}
    \union [type : {"obj"}, obj : DOMAIN MCHeap]
=============================================================================
