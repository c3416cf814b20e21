-------------------------- MODULE MC_UnusedPort --------------------------
EXTENDS UnusedPort

\* Six user ports before the ephemeral range: 1024..1027 byte-swap to ports
\* below 1024, 1028 to itself, 1029 to 1284, 1030 to 1540.
MCMinEphemeral == 1030

\* Ports other processes may hold: the ones the calls return or probe.
MCTakenChoices == {1024, 1028, 1284}

=============================================================================
