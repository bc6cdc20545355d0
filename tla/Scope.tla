------------------------------- MODULE Scope -------------------------------
(***************************************************************************)
(* What README.md (Core Functions of zynk_enviroment) promises of scopes   *)
(* of variables: each is a partial map from names to values.  A name is    *)
(* declared once, assigned only while declared, removed, and a whole scope *)
(* can be emptied; no operation touches another scope or another name.     *)
(* Any request may also be refused, which leaves the maps as they are.     *)
(***************************************************************************)
CONSTANTS
  Envs,      \* the scopes
  Keys,      \* names of variables
  Values,    \* what a variable may hold
  Missing    \* the state of a name that is not declared

VARIABLE vars

Init == vars = [e \in Envs |-> [k \in Keys |-> Missing]]

Declare(e, k, v) ==
  /\ vars[e][k] = Missing
  /\ vars' = [vars EXCEPT ![e][k] = v]

Assign(e, k, v) ==
  /\ vars[e][k] # Missing
  /\ vars' = [vars EXCEPT ![e][k] = v]

Remove(e, k) ==
  /\ vars[e][k] # Missing
  /\ vars' = [vars EXCEPT ![e][k] = Missing]

Empty(e) == vars' = [vars EXCEPT ![e] = [k \in Keys |-> Missing]]

Next ==
  \E e \in Envs :
    \/ \E k \in Keys :
         \/ \E v \in Values : Declare(e, k, v) \/ Assign(e, k, v)
         \/ Remove(e, k)
    \/ Empty(e)

Spec == Init /\ [][Next]_vars
=============================================================================
