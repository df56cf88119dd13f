---------------------------- MODULE MCPtyOutput ----------------------------
\* Small instances of PtyOutput for TLC.
EXTENDS PtyOutput

Focused == {TRUE}             \* has_priority() always says yes
AnyPriority == {TRUE, FALSE}  \* the focus comes and goes
=============================================================================
