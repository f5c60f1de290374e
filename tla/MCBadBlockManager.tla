------------------------ MODULE MCBadBlockManager ------------------------
(* Model values of BadBlockManager for TLC: see the cfg of each run.      *)
EXTENDS BadBlockManager

CONSTANTS Blocks, Maps, Marks, Powers, Formats

MCBudget == [block |-> Blocks, map |-> Maps, mark |-> Marks, power |-> Powers,
             format |-> Formats]
==========================================================================
