--------------------------- MODULE MCDacRegister ---------------------------
(* Two chips of two channels with one-bit values; configurations ask for   *)
(* values beyond that.                                                     *)
EXTENDS DacRegister

MCConfigLists ==
  {<<[ch |-> 1, v |-> 2]>>,
   <<[ch |-> 3, v |-> 1], [ch |-> 0, v |-> 2]>>,
   <<[ch |-> 0, v |-> 1], [ch |-> 3, v |-> 1]>>}

=============================================================================
