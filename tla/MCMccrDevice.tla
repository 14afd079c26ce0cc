---------------------------- MODULE MCMccrDevice ----------------------------
(* Values for model-checking MccrDevice.  The model values of each kind are *)
(* interchangeable in every action and every property.                      *)
EXTENDS MccrDevice, TLC

Interchangeable ==
  Permutations(Devices) \cup Permutations(Clients) \cup Permutations(Contexts)
    \cup Permutations(Handles) \cup Permutations(Reports) \cup Permutations(Paths)
=============================================================================
