--------------------------- MODULE MCEngineReceiver ---------------------------
(* Small instances of EngineReceiver for TLC.                               *)
EXTENDS EngineReceiver, TLC

Symmetry == Permutations(Thread) \union Permutations(Run) \union Permutations(Nonce)

=============================================================================
