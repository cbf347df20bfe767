----------------------------- MODULE HalCompat -----------------------------
(***************************************************************************)
(* The version arithmetic of common/current/halcompat.h: the positional    *)
(* encoding of a release e.g.m.b as one int32, the field accessors and the *)
(* predicate a client uses to accept or refuse a server.  Pure operators;  *)
(* BinderProxy and the release model use them.                             *)
(***************************************************************************)
EXTENDS Integers

\* C++ integer division truncates towards zero; TLA+ \div rounds down.
CDiv(a, b) == IF a >= 0 THEN a \div b ELSE -((-a) \div b)

CRem(a, b) == a - b * CDiv(a, b)

Version(era, major, minor, bugfix) ==
    era * 100000 + major * 1000 + minor * 10 + bugfix

Era(v)    == CDiv(v, 100000)
Major(v)  == CRem(CDiv(v, 1000), 100)
Minor(v)  == CRem(CDiv(v, 10), 100)
Bugfix(v) == CRem(v, 10)

\* What a getInterfaceVersion() that could not reach its server returns.
NoVersion == -1

\* mutant: the major is compared from era 1 on instead of within era 0
IsCompatibleErasSwapped(client, server) ==
    IF Era(server) = 0 /\ Era(client) = 0
    THEN server >= client
    ELSE /\ Era(server) = Era(client)
         /\ Major(server) = Major(client)
         /\ server >= client

\* detail::isCompatible: plain order from era 1 on, one major within era 0.
IsCompatible(client, server) ==
    IF Era(server) >= 1 /\ Era(client) >= 1
    THEN server >= client
    ELSE /\ Era(server) = Era(client)
         /\ Major(server) = Major(client)
         /\ server >= client

=============================================================================
