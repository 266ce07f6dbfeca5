---- MODULE MCAssemblyAIService ----
(* Constants for the runs of AssemblyAIService.                            *)
EXTENDS AssemblyAIService

CONSTANTS reader, closer, nobody, first, second
OneCallback  == {first}
TwoCallbacks == {first, second}
SecondWord   == {2}

(* The transcript that replaces what came before.                          *)
MCRewrites   == {<<2>>}

(* Callbacks differ in nothing but their name.                              *)
Symmetry     == Permutations(TwoCallbacks)
====
