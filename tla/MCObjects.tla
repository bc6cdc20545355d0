----------------------------- MODULE MCObjects -----------------------------
(* Two arrays, so that arrays hold each other and themselves, a string and a *)
(* native function.  The indexes are the first one and the last value of the *)
(* word, which stands for -1.                                                *)
EXTENDS Objects

MCTexts == {<<>>}

MCIndexes == {0, Word - 1}

ArraySymmetry == Permutations(Arrays)
=============================================================================
