-------------------------- MODULE MCBlockDownload --------------------------
(***************************************************************************)
(* An honest outbound peer with the chain 0-1-2-3 and a second peer that   *)
(* knows 1-2-3 and the fork 1-2x and does what it likes.                   *)
(***************************************************************************)
EXTENDS BlockDownload

MCBlocks == {"0", "1", "2", "3", "2x"}
MCParent == [b \in MCBlocks |->
    CASE b = "1" -> "0" [] b = "2" -> "1" [] b = "3" -> "2" [] b = "2x" -> "1" [] OTHER -> NoBlock]
MCAnnounces == [p \in Peers |-> {"3"}]
MCSends == [p \in Peers |-> IF p \in Honest THEN {"3"} ELSE {"2x"}]
=============================================================================
