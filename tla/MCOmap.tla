------------------------------- MODULE MCOmap -------------------------------
(* Object maps with a few pages of two slots.                              *)
EXTENDS Omap, TLC

CONSTANTS h1, h2

\* The last call does not decide what may happen next.
Lasting == <<dir, roots>>

HashSymmetry == Permutations({h1, h2})

=============================================================================
