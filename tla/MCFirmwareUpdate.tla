-------------------------- MODULE MCFirmwareUpdate --------------------------
\* Slots of 3 sectors of 3 bytes, a header of 2 bytes, chunks of up to 3, files
\* of 3 bytes (a whole sector) and 4, and announced lengths that are right for
\* one of them or too short.
EXTENDS FirmwareUpdate
=============================================================================
