---------------------------- MODULE MCGraphUpload ----------------------------
(* GraphUpload with a fragment of 3 units and a simple limit of 2: sources   *)
(* below, at and above both limits, and exact multiples of the fragment.     *)
EXTENDS GraphUpload
=============================================================================
