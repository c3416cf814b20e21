------------------------ MODULE MC_PeriodicFunction ------------------------
EXTENDS PeriodicFunction

CONSTANTS p1, p2

MCInstances == {p1, p2}

MCKinds == {"default", "test"}

=============================================================================
