--------------------------- MODULE MCPosixBackend ---------------------------
\* Small instances of PosixBackend for TLC.
EXTENDS PosixBackend

Focused == {TRUE}  \* the held page is checked in MCPtyOutput
=============================================================================
