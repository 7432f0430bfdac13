----------------------------- MODULE MCMtServer -----------------------------
(* A small instance of MtServer for TLC.  Buffers hold two bytes; one file  *)
(* is shorter than that, one a multiple of it, one neither.  A request that *)
(* arrives in two pieces is cut to the name of another file.                *)
EXTENDS MtServer

CONSTANTS c1, c2, a, b, newline, x, y

MCChars    == {a, b, newline}
MCRequests == {<<a, b, newline>>, <<b, a, newline>>, <<newline>>}
MCRefused  == {<<a, b>>}
MCFiles    == {<<a>>, <<b>>, <<b, a>>}
MCContent  == [f \in MCFiles |-> IF f = <<a>>    THEN <<x, y, y, x>>
                                 ELSE IF f = <<b>> THEN <<y>>
                                 ELSE <<y, x, x>>]
=============================================================================
