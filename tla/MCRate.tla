------------------------------- MODULE MCRate -------------------------------
(* Every query about amounts up to MaxAmount stroops.                      *)
EXTENDS Rate
=============================================================================
