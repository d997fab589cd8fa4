---------------------------- MODULE MCSSEParser ----------------------------
(* Instances of SSEParser for TLC.                                         *)
EXTENDS SSEParser
=============================================================================
