----------------------------- MODULE MCFraming -----------------------------
(* A uint16_t of 4 bits and a buffer of as many bytes.  The lengths leave no  *)
(* padding, one byte of it and three, and the last one fills the buffer.      *)
EXTENDS Framing
=============================================================================
