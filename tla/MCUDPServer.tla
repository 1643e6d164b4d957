---------------------------- MODULE MCUDPServer ----------------------------
\* UDPServer on small instances.
EXTENDS UDPServer, TLC

MCSymmetry == Permutations(Clients)
=============================================================================
