------------------------------- MODULE MCProxy -------------------------------
(* Instances of DnsProxy for TLC. *)
EXTENDS DnsProxy

CONSTANTS u1, u2, t1

UdpOnes == {u1, u2}
TcpOnes == {t1}
=============================================================================
