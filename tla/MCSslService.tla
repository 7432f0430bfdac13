---------------------------- MODULE MCSslService ----------------------------
(* Small instances of SslService for TLC *)
EXTENDS SslService

CONSTANTS c1, c2, f1, known, unknown
=============================================================================
