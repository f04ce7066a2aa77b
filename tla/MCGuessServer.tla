------------------------------ MODULE MCGuessServer ------------------------------
(* Small instances of GuessServer for TLC.                                 *)
EXTENDS GuessServer, TLC

\* An empty file, one whose count is too small, one with a number that is too
\* large, and one with an unreadable token.
MCFiles ==
  {[n |-> 0, tokens |-> <<>>],
   [n |-> 2, tokens |-> <<1, 2, 0>>],
   [n |-> 4, tokens |-> <<2, 3, 0, 1>>],
   [n |-> 4, tokens |-> <<1, 0, Unreadable, 2>>]}

Symmetry == Permutations(Children)
================================================================================
