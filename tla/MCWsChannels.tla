---------------------------- MODULE MCWsChannels ----------------------------
(* A small instance of WsChannels for TLC.                                  *)
EXTENDS WsChannels

MCContents == {"request"}
MCBursts == {<<>>, <<"request">>}
=============================================================================
