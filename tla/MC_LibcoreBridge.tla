-------------------------- MODULE MC_LibcoreBridge --------------------------
(***************************************************************************)
(* Two Java threads, each making one native call; two language    *)
(* tags and one trace event besides the null jstring.                      *)
(***************************************************************************)
EXTENDS LibcoreBridge, TLC

MCSymmetry == Permutations(Threads)
=============================================================================
