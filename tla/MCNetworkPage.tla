---------------------------- MODULE MCNetworkPage ----------------------------
(* Instances of NetworkPage for TLC.                                       *)
EXTENDS NetworkPage, TLC

(* As factory_default has it: DHCP, an address in reserve, and two servers. *)
MCFactory == [line |-> "D", ip |-> "ip1", dns |-> "dns1", dns_s |-> "dns2"]

MCLeases == {<<"dns1">>, <<>>}

MCSymmetry == Permutations(Operators)
=============================================================================
