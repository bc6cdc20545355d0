----------------------------- MODULE MCNatives -----------------------------
(* Two arrays of three values, one for arguments, two strings of at most one *)
(* byte.  The indexes are the first, the one behind the only character, and  *)
(* -1.                                                                       *)
EXTENDS Natives

MCIndexes == {0, 1, Word - 1}

MCTexts == {<<c>> : c \in Chars}

MCPassed ==
  <<Arrays \union Strings, Numbers \union Strings, Strings \union {len}>>

ObjectSymmetry == Permutations(Arrays) \union Permutations(Strings)
=============================================================================
