---------------------------- MODULE MCUdpGateway ----------------------------
(* Two descriptors and two getaddrinfo results: enough for a second       *)
(* socket() while the first is still open, and for a failed address to be *)
(* followed by one that works.                                             *)
EXTENDS UdpGateway

MCFds == {3, 4}
=============================================================================
