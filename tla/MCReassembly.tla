---------------------------- MODULE MCReassembly ----------------------------
\* A stream of seven different bytes through a capacity of four: the window
\* opens in the middle of the stream, and a byte out of place is told apart.
EXTENDS StreamReassembly
MCStream == <<11, 12, 13, 14, 15, 16, 17>>
=============================================================================
