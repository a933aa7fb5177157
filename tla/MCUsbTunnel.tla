----------------------------- MODULE MCUsbTunnel -----------------------------
(* Datagrams whose bytes look like headers, so that a lost alignment shows. *)
EXTENDS UsbTunnel

BothWays == [r \in Relays |-> IF r = "pc" THEN <<<<1>>, <<2, 0>>>> ELSE <<<<0>>, <<1, 0>>>>]
=============================================================================
