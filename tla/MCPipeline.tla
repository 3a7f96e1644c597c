----------------------------- MODULE MCPipeline -----------------------------
(***************************************************************************)
(* TightPipeline with video of high priority and audio of low priority:    *)
(* clear_outbound spares the one in the send queue and the other in the    *)
(* encode queue.                                                           *)
(***************************************************************************)
EXTENDS TightPipeline

MCKinds == {<<0, 1>>, <<1, 0>>}
=============================================================================
