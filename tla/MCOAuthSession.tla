--------------------------- MODULE MCOAuthSession ---------------------------
(***************************************************************************)
(* OAuthSession for TLC: the processes are interchangeable.                *)
(***************************************************************************)
EXTENDS OAuthSession, TLC

Interchangeable == Permutations(Procs)
=============================================================================
