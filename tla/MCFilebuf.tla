----------------------------- MODULE MCFilebuf -----------------------------
(* TLC instance of Filebuf.                                                *)
EXTENDS Filebuf
=============================================================================
