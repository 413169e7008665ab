----------------------------- MODULE MCSockets -----------------------------
(***************************************************************************)
(* Two connections, two dialers and one url to dial.  The known nodes are  *)
(* explored apart: all that MaxSteps operations reach.                     *)
(***************************************************************************)
EXTENDS Sockets

MCMinScore == -1
=============================================================================
