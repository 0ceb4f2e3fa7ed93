----------------------------- MODULE MCConsole -----------------------------
(***************************************************************************)
(* The three runtime commands of the console, in their order.              *)
(***************************************************************************)
EXTENDS Console

MCRank == [c \in Children |->
    CASE c = "viewer-server" -> 1 [] c = "live-poll" -> 2 [] c = "mqtt-listen" -> 3]
=============================================================================
