-------------------------------- MODULE MCTcp --------------------------------
(* Tcp for TLC.  The sequence numbers of client1 wrap in its second byte, *)
(* those of the server in its first.                                       *)
EXTENDS Tcp

CONSTANTS client1, client2

Isns == [x \in Clients |-> IF x = client1 THEN 13 ELSE 3]

Load(clients, from_c, to_c, probing, n, fins) ==
    [clients |-> clients, probing |-> probing, opens |-> n, fins |-> fins,
     closing |-> n > 1,
     bytes |-> [e \in Ends |-> CASE e = <<client1, "c">> -> from_c [] e = <<client1, "s">> -> to_c [] OTHER -> 0]]

(* A stream in one direction; bytes both ways, with probes from the        *)
(* server; probes from the client and FINs sent again; clients that        *)
(* compete for the backlog of a listener that is closed and opened again.  *)
Some == {Load({client1}, 3, 0, {}, 1, 1),
         Load({client1}, 1, 1, {<<client1, "s">>}, 1, 1),
         Load({client1}, 1, 0, {<<client1, "c">>}, 1, 2),
         Load({client1, client2}, 0, 0, {}, 3, 0)}
=============================================================================
