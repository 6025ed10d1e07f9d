---------------------------- MODULE MCCliAccount ----------------------------
(* Two creates through one or two drivers of a binary, and a stray machine. *)
EXTENDS CliAccount
=============================================================================
