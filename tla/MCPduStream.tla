---------------------------- MODULE MCPduStream -----------------------------
(***************************************************************************)
(* TLC instance of PduStream: four messages of three lengths, cut          *)
(* anywhere.                                                               *)
(***************************************************************************)
EXTENDS PduStream
=============================================================================
