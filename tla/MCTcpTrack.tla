----------------------------- MODULE MCTcpTrack -----------------------------
(* TcpTrack with two addresses of one host and one of another.             *)
EXTENDS TcpTrack

CONSTANTS i1, i2

MCDests == {<<i1, 80>>, <<i1, 443>>, <<i2, 80>>}
=============================================================================
