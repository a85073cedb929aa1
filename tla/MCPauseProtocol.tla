--------------------------- MODULE MCPauseProtocol ---------------------------
\* Instance of PauseProtocol for TLC.
EXTENDS PauseProtocol

\* No limit, one the first block reaches, and one the second reaches.
MCLimits == {0, 1, 2}

=============================================================================
