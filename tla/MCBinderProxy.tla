--------------------------- MODULE MCBinderProxy ---------------------------
EXTENDS BinderProxy, TLC

CONSTANTS t1, t2

MCThreads == {t1, t2}

\* The client's own release, a later minor of its major, the next major, a
\* development build and a server that registered an empty hash.
MCServers ==
    {[version |-> v, hash |-> "frozen"] : v \in {3000, 3010, 4000}}
        \cup {[version |-> 1, hash |-> "notfrozen"],
              [version |-> 3000, hash |-> ""]}

MCClientVersion == 3000
=============================================================================
