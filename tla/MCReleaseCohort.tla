-------------------------- MODULE MCReleaseCohort --------------------------
\* Three released components of the repository's import graph, a chain in which
\* the hash order matters: avbuffer imports videodecoder, which imports common.
EXTENDS ReleaseCohort

MCComponents == {"avbuffer", "common", "videodecoder"}
MCOrder      == <<"avbuffer", "common", "videodecoder">>
MCImports    == [avbuffer |-> {"videodecoder"}, common |-> {},
                 videodecoder |-> {"common"}]
MCReleased   == [avbuffer |-> Release(0, 1, 0, 8), common |-> Release(0, 1, 3, 0),
                 videodecoder |-> Release(0, 2, 0, 0)]
MCPreStaged  == [c \in MCComponents |-> NotReleased]
NoPins       == [c \in MCComponents |-> NoPin]
MCPins       == {NoPins,
                 [NoPins EXCEPT !["common"] = PinVersion(Release(0, 1, 4, 0)),
                                !["avbuffer"] = PinClass(Minor_)]}
=============================================================================
