-------------------------- MODULE MCTunnelManager --------------------------
(* Instances of TunnelManager for TLC. *)
EXTENDS TunnelManager

CONSTANTS c1, c2, k1, k2, a, b

OneClient  == {c1}
TwoClients == {c1, c2}
TwoKeys    == {k1, k2}
TwoNames   == {a, b}

NoRename  == {}
OneRename == {<<a, b>>}

Offer(k, x, r) == [key |-> k, vm |-> a, exposed |-> x, auto |-> r]

\* One exposed tunnel and one on loopback, both reopened after a restart.
MixedOffers == {Offer(k1, TRUE, TRUE), Offer(k2, FALSE, TRUE)}
\* One exposed tunnel that is reopened and one on loopback that is not.
PartlyRestored == {Offer(k1, TRUE, TRUE), Offer(k2, FALSE, FALSE)}
=============================================================================
