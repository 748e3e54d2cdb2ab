----------------------------- MODULE MCHostCtrl -----------------------------
(* Hosts and messages for HostCtrl: the controller is subnet 1 and the     *)
(* device subnet 0, as in the code.                                        *)
EXTENDS HostCtrl, TLC

CONSTANTS h1, h2

TwoHosts == {h1, h2}
HostSymmetry == Permutations(Host)

ToModule  == [type |-> "D", dest |-> [subnet |-> 1, local |-> 1]]
ToDevice  == [type |-> "D", dest |-> [subnet |-> 0, local |-> 1]]
AddrTraffic == {Req("DIADDR_REQUEST", 0), Req("DIADDR_RELEASE", 0), ToModule}
GwTraffic   == {Req("GW_REGISTER", 0), Req("GW_UNREGISTER", 0), ToDevice}

RegularTraffic == AddrTraffic \cup GwTraffic
AllTraffic == AddrTraffic \cup {Req("GW_REGISTER", 0), Req("UNKNOWN", 0), Junk}
=============================================================================
