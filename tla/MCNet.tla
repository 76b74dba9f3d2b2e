------------------------------- MODULE MCNet -------------------------------
(* Model-checking instance of NetServer.                                    *)
EXTENDS NetServer

CONSTANTS byte1, byte2

(* No card; one at either end of the bus; two, in either order of slot.     *)
Places == {{}, {<<0, 3>>}, {<<255, 31>>}, {<<0, 31>>, <<1, 0>>}, {<<2, 7>>, <<2, 5>>}}

Packets == {<<byte1>>, <<byte2, byte1>>}
=============================================================================
