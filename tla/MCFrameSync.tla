---------------------------- MODULE MCFrameSync ----------------------------
(* Small instances of FrameSync for TLC.                                   *)
EXTENDS FrameSync

\* Four dibits that match no shift of themselves in more than one place.
Word == <<1, 3, 1, 1>>

\* A unit of each fixed length, one shorter and one longer than the sync word;
\* a TSDU holds up to two blocks; a packet is taken to hold one data block.
Lengths == [ldu |-> 7, tdu |-> 3, tsdu |-> 12, pdu |-> 13]

Short(d)   == [duid |-> d, nac |-> 0, blocks |-> 0]
TSDU(n)    == [duid |-> "tsdu", nac |-> 0, blocks |-> n]
PDU(n)     == [duid |-> "pdu", nac |-> 0, blocks |-> n]
Quiet      == {0}
OneNAC     == {0}
TwoNACs    == {0, 1}
AllUnits   == {Short("ldu"), [Short("tdu") EXCEPT !.nac = 1], TSDU(1), TSDU(2), PDU(2)}
ShortPDU   == {PDU(0)}
=============================================================================
