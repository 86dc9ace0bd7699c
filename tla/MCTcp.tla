-------------------------------- MODULE MCTcp --------------------------------
(* Two clients with different ports for Tcp.                                *)
EXTENDS Tcp

CONSTANTS alice, bob

MCClients == {alice, bob}
MCPort == [c \in MCClients |-> IF c = alice THEN 1 ELSE 2]
==============================================================================
