--------------------------- MODULE MCReleaseLine ---------------------------
\* A line that crosses the first two-digit major and minor and the last doc
\* value the encoding holds.
EXTENDS ReleaseLine

MCFirst    == Release(0, 9, 8, 8)
MCLimit    == Release(0, 11, 11, 10)
MCPinnable == {Release(0, 9, 10, 1), Release(0, 10, 0, 9), Release(0, 11, 10, 0)}
=============================================================================
