----------------------------- MODULE MCMapDelta -----------------------------
(***************************************************************************)
(* Two commands that may overlap.                                          *)
(***************************************************************************)
EXTENDS MapDelta

MCCommands == [r \in Runs |->
    IF r = "r1" THEN {"delta"} ELSE {"artifacts", "download-maps", "delta-only"}]
=============================================================================
