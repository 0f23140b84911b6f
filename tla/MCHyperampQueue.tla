--------------------------- MODULE MCHyperampQueue ---------------------------
(***************************************************************************)
(* HyperampQueue with a message of two chunks, a message of one, and one   *)
(* that does not fit a block.                                              *)
(***************************************************************************)
EXTENDS HyperampQueue

MCMessage == {"long", "short", "oversized"}
MCSize == [m \in MCMessage |->
             CASE m = "long" -> 2 [] m = "short" -> 1 [] m = "oversized" -> 3]
=============================================================================
