---------------------------- MODULE MCRemoteReceive ----------------------------
\* The constants of the run of RemoteReceive.
EXTENDS RemoteReceive

\* An encoder step whose data is the CRC of its type, and a press of a button
\* whose number is.
MCCmd == {<<1, 7>>, <<3, 9, 1>>}

\* The heartbeat, and a HELLO (a shorter one).
MCOther == {<<242>>, <<240, 77>>}

\* The start bytes, lengths (0 and one too long among them), types, and the CRC
\* of a heartbeat.
MCNoise == {170, 187, 0, 1, 5, 253, CRC8(<<242>>)}
================================================================================
