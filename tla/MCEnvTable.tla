----------------------------- MODULE MCEnvTable -----------------------------
(* Two names whose probes start at the same slot and, in one instance, the   *)
(* name "".  The tables have fewer slots than the clients insertions, and    *)
(* the arena fewer descriptors, so that slots are reused, tables fill up and *)
(* names can no longer be allocated.                                         *)
EXTENDS EnvTable, TLC

CONSTANTS a, b, c, local, global

MCKeys == {a, b, c}
MCKeysEmpty == {a, b, EmptyKey}
MCHash == [k \in Keys |-> IF k = c THEN 1 ELSE 3]

MCOne == {local}
MCOneEnclosing == [e \in MCOne |-> Missing]

MCTwo == {local, global}
MCTwoEnclosing == [e \in MCTwo |-> IF e = local THEN global ELSE Missing]

ObjSymmetry == Permutations(Objs)
=============================================================================
