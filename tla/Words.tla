-------------------------------- MODULE Words --------------------------------
(* How many values a byte, a half word and three bytes have.                 *)
EXTENDS Integers

BYTE == 256
HALF == 65536
BYTE3 == 16777216
==============================================================================
