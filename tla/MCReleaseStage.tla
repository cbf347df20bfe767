--------------------------- MODULE MCReleaseStage ---------------------------
\* common and avclock, which imports it, are released in this cycle; hdmicec
\* imports common too and keeps its snapshot; avclock now imports ringbuffer
\* as well, which has no release.
EXTENDS ReleaseStage

MCComponents == {"avclock", "common", "hdmicec", "ringbuffer"}
MCOrder      == <<"avclock", "common", "hdmicec", "ringbuffer">>
MCImports    == [c \in MCComponents |->
                    CASE c = "avclock" -> {"common", "ringbuffer"}
                      [] c = "hdmicec" -> {"common"}
                      [] OTHER -> {}]
MCReleasing  == MCComponents \ {"hdmicec"}
MCFirst      == {"ringbuffer"}
=============================================================================
