---------------------------- MODULE MCUdpStream ----------------------------
(* UdpStream for TLC: a file of two packets, numbers of two values, so that *)
(* they wrap, and one group.                                               *)
EXTENDS UdpStream

MCDatagrams == Packets
=============================================================================
