----------------------------- MODULE MCThreads -----------------------------
EXTENDS Threads

Fine == [tcp |-> 1, udp |-> 1, e131 |-> 2, leds |-> 2, demo |-> FALSE,
         taken |-> {}, sockets |-> TRUE, spi |-> TRUE, joinable |-> 2]

(* All there is to have; the demo beside OPC over TCP, with too many LEDs   *)
(* for a datagram and the E1.31 port taken; no device, and one port for both*)
(* receivers of datagrams; the TCP port taken; no sockets.                  *)
MCWorlds == {Fine,
  [Fine EXCEPT !.demo = TRUE, !.leds = 9, !.taken = {<<"udp", 2>>}],
  [Fine EXCEPT !.spi = FALSE, !.e131 = 1],
  [Fine EXCEPT !.taken = {<<"tcp", 1>>}, !.leds = 9],
  [Fine EXCEPT !.sockets = FALSE]}
=============================================================================
