------------------------- MODULE MCWebSocketProvider -------------------------
(* A page that opens up to four sockets and is mounted up to three times,   *)
(* with two tries that throw on the way.                                    *)
EXTENDS WebSocketProvider
=============================================================================
