-------------------------- MODULE HostTransportMC --------------------------
(***************************************************************************)
(* Small instances of HostTransport for TLC.                                *)
(***************************************************************************)
EXTENDS HostTransport, TLC

Symmetry == Permutations(Peer) \cup Permutations(Endpoint)

=============================================================================
