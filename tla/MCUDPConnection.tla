-------------------------- MODULE MCUDPConnection --------------------------
\* UDPConnection on small instances: values for its constants.
EXTENDS UDPConnection, TLC

\* An injective hash that is not the identity.
MCHash(t) == (17 * t + 5) % 101
Ciphered == {<<TRUE, TRUE>>}
Plain == {<<FALSE, FALSE>>}
MCSymmetry == Permutations(Payloads)
=============================================================================
