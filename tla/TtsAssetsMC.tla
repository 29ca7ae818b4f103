---------------------------- MODULE TtsAssetsMC -----------------------------
(* Instances of TtsAssets for TLC. *)
EXTENDS TtsAssets
=============================================================================
