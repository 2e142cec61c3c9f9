---------------------------- MODULE MCLifecycle ----------------------------
(* Small instances of Lifecycle.                                            *)
EXTENDS Lifecycle

MCField   == {"syn_flood_rate", "udp_flood_rate"}
MCDefault == [f \in MCField |-> IF f = "syn_flood_rate" THEN 2 ELSE 4]
\* Below the smallest integer of its width, to which it is cut.
MCGiven   == {-50}
MCInterface == {"eth0", "eth1"}
MCNative    == {"eth1"}
=============================================================================
