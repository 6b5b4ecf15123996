-------------------------------- MODULE Missing --------------------------------
(* What the parts of the cockpit share: the value of what is not there, the null  *)
(* and undefined of the browser's state.                                           *)

CONSTANT None
=============================================================================
