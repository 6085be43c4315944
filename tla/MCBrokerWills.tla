---------------------------- MODULE MCBrokerWills ----------------------------
(* Instances of BrokerWills for TLC.                                       *)
EXTENDS BrokerWills

CONSTANTS c1

MCOneClient == {c1}
MCIntervals == {0, 1}
MCTerms == {<<1, 0>>, <<1, 2>>}
MCDowntimes == {1}
=============================================================================
