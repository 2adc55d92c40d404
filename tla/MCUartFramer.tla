---------------------------- MODULE MCUartFramer ----------------------------
\* The UART framer with a header of 2 bytes (length, magic), packets of up to 4
\* bytes, announced lengths from 2 to 5 (one too long) and pieces of up to 4.
EXTENDS UartFramer
=============================================================================
