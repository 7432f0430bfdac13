--------------------------- MODULE MCFileExchange ---------------------------
(* Values for the constants of FileExchange that a .cfg cannot write. *)
EXTENDS FileExchange

\* "get" is the bare word, too short for a path.  Two lines "long" are too long,
\* and one of them asks for a file, or after an empty line for an empty one.
\* What follows the bare word is a path as a whole.
MCLength     == [line \in Lines |-> CASE line = "empty" -> 2
                                      [] line = "other" -> 5
                                      [] line = "get"   -> 9
                                      [] line = "long"  -> 40]
MCFiles      == {<<9, "long">>, <<7, "long">>, <<0, "other">>}
MCEmptyFiles == {<<7, "long">>}

\* A tcp_client sends one line before the user's
MCMaxLines   == [p \in Programs |-> IF p \in Clients THEN 3 ELSE 2]
=============================================================================
