-------------------------- MODULE MCReleaseClosure --------------------------
\* First releases: broadcast is released and now imports ringbuffer, which is
\* new and imports avbuffer, new too but with a snapshot already committed;
\* avbuffer imports ffv, which has no interface.yaml and was never released.
EXTENDS ReleaseCohort

MCComponents == {"avbuffer", "broadcast", "ffv", "ringbuffer"}
MCOrder      == <<"avbuffer", "broadcast", "ffv", "ringbuffer">>
MCBuildable  == MCComponents \ {"ffv"}
MCImports    == [c \in MCComponents |->
                    CASE c = "broadcast"  -> {"ringbuffer"}
                      [] c = "ringbuffer" -> {"avbuffer"}
                      [] c = "avbuffer"   -> {"ffv"}
                      [] OTHER            -> {}]
MCReleased   == [c \in MCComponents |->
                    IF c = "broadcast" THEN Release(0, 1, 0, 0) ELSE NotReleased]
MCPreStaged  == [c \in MCComponents |->
                    IF c = "avbuffer" THEN Release(0, 2, 0, 0) ELSE NotReleased]
NoPins       == [c \in MCComponents |-> NoPin]
MCPins       == {NoPins} \cup
                {[NoPins EXCEPT !["broadcast"] = PinVersion(v)] :
                    v \in {Release(0, 2, 0, 0), Release(0, 0, 9, 0)}}
=============================================================================
