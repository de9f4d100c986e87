------------------------------ MODULE MCDHFwk ------------------------------
EXTENDS DHFwk, TLC
CONSTANT Slots   \* the number of task objects alive at a time
MCTaskId == 1 .. Slots
=============================================================================
