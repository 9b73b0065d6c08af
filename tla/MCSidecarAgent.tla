-------------------------- MODULE MCSidecarAgent --------------------------
(* A small instance of SidecarAgent for TLC.                              *)
EXTENDS SidecarAgent
=============================================================================
