---------------------------- MODULE MCConfigApply ----------------------------
(***************************************************************************)
(* Two workers, two manifests, two duty cycles; no step is bounded.        *)
(***************************************************************************)
EXTENDS ConfigApply

CONSTANTS w1, w2, m1, m2
=============================================================================
