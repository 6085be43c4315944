---------------------------- MODULE MCQuicStreams ----------------------------
(* A TLC instance of QuicStreams: writes of three bytes and reads of one,   *)
(* so that the buffer of six keeps bytes that were read; windows of six     *)
(* bytes, of which the connection's grows; limits that reach the largest    *)
(* varint; and a second stream that needs the first one's slot.             *)
EXTENDS QuicStreams

MCDataSizes == <<9, 3>>
=============================================================================
