-------------------------- MODULE MCSensorGateway ---------------------------
(* A gateway with a queue of two entries and a heap of two blocks.          *)
EXTENDS SensorGateway

CONSTANTS b1, b2

MCBlocks == {b1, b2}
MCOrientations == {1, 3, 4}     \* normal, upside down, out of range
MCButtonStates == {1}           \* pressed
MCData == [type : {"THINGY_ORIENTATION"}, val : MCOrientations]
            \cup [type : {"THINGY_BUTTON"}, val : MCButtonStates]
            \cup [type : {"GPS_POSITION"}, val : 1 .. TagModulus - 1]
=============================================================================
