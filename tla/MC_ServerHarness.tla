------------------------- MODULE MC_ServerHarness -------------------------
EXTENDS ServerHarness

\* As for MC_UnusedPort: six user ports before the ephemeral range.  Other
\* processes may hold the ports the two calls probe (1024, 1028, 1284) and
\* the ones the gRPC call may return (1025 as root, 1029 otherwise).
MCHarnessMinEphemeral == 1030
MCHarnessTaken == {1024, 1025, 1028, 1029, 1284}

\* Another HTTP server may answer a GET with any status.
MCForeignReplies == {[res |-> TRUE, status |-> c] : c \in {200, 400, 403, 404, 500}}

=============================================================================
