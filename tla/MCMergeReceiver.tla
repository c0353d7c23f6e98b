-------------------------- MODULE MCMergeReceiver --------------------------
(* One slot; what takes several is checked on the mergers alone.            *)
EXTENDS MergeReceiver

MCLevelValues == {<<1>>, <<2>>}
MCPapValues == {<<2>>}
=============================================================================
