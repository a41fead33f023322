---------------------------- MODULE MCSearchPages ----------------------------
(* Small instances of SearchPages for TLC.                                  *)
EXTENDS SearchPages
=============================================================================
