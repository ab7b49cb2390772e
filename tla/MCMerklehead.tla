---------------------------- MODULE MCMerklehead -----------------------------
(* Instances of Merklehead for TLC.  Binary digits, so a document holds two  *)
(* entries: three addresses that agree in a digit split it twice and more,   *)
(* and folding them leaves tails of different lengths in one document.       *)
EXTENDS Merklehead

ThreeDigits == {<<0, 0, 0>>, <<0, 0, 1>>, <<0, 1, 0>>, <<1, 0, 0>>}

Root3 == <<0, 0, 0>>

=============================================================================
