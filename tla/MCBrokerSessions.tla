-------------------------- MODULE MCBrokerSessions --------------------------
(* Instances of BrokerSessions for TLC.                                    *)
EXTENDS BrokerSessions, TLC

CONSTANTS c1, c2, c3, f

MCClients == {c1, c2, c3}
MCSymmetry == Permutations(MCClients)
MCOneClient == {c1}
MCFilters == {f}
MCIntervals == {1}
MCDowntimes == {0, 1}
=============================================================================
