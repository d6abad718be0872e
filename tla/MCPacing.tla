------------------------------ MODULE MCPacing ------------------------------
(***************************************************************************)
(* The instance of the paced sender: a caller lowers the rates and stops   *)
(* padding, or raises the media rate; an audio and a video module, both    *)
(* able to pad, the video module by resending payload.                     *)
(***************************************************************************)
EXTENDS TaskQueuePacedSender

MCInitialModules == <<"audio", "video">>

MCRates == {<<1, 0>>, <<3, 1>>}

=============================================================================
