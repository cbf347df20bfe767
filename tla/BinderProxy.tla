---------------------------- MODULE BinderProxy ----------------------------
(***************************************************************************)
(* A client process whose threads share one generated proxy (BpXxx) of a   *)
(* HAL service and ask halcompat::isCompatible about it.                   *)
(*                                                                         *)
(* The proxy caches the server's interface version and hash, each with the *)
(* sentinel -1: the hash under a mutex held across the transaction, the    *)
(* version with no synchronisation at all.  The server may die between two *)
(* transactions and be replaced by another release; a proxy never follows  *)
(* the replacement, the client has to look the service up again.           *)
(***************************************************************************)
EXTENDS HalCompat, FiniteSets

CONSTANTS
    Threads,         \* threads of the client process
    Servers,         \* [version, hash] of the builds that may be installed
    ClientVersion,   \* I::VERSION the client was compiled against
    MaxLookups       \* bound: getService() calls of one behaviour

Hashes == {"frozen", "notfrozen", "", "-1"}

ASSUME ConfigAssumption ==
    /\ Servers # {}
    /\ \A s \in Servers : /\ s.version \in Nat
                          /\ s.hash \in Hashes \ {"-1"}
    /\ ClientVersion \in Nat
    /\ MaxLookups \in Nat \ {0}

NoThread == "none"
ASSUME NoThreadAssumption == NoThread \notin Threads

VARIABLES
    peer,            \* the build behind the proxy's binder
    alive,           \* whether that process still runs
    cachedVersion,   \* BpXxx::cached_version_
    cachedHash,      \* BpXxx::cached_hash_
    hashMutex,       \* holder of BpXxx::cached_hash_mutex_
    pc,              \* where each thread is inside isCompatible()
    allowUnfrozen,   \* argument of the call in progress
    seen,            \* cached_version_ as the thread last held it
    verdict,         \* outcome of the thread's latest finished call
    lookups,         \* getService() calls made so far
    accepted,        \* history: a finished call accepted this proxy's server
    lateStart        \* history: the call began after such an acceptance

vars == <<peer, alive, cachedVersion, cachedHash, hashMutex, pc, allowUnfrozen,
          seen, verdict, lookups, accepted, lateStart>>

Steps == {"idle", "lockHash", "testHash", "callHash", "returnHash",
          "testVersion", "callVersion", "returnVersion"}

Verdicts == {"none", "yes", "no"}

Init ==
    /\ peer \in Servers
    /\ alive = TRUE
    /\ cachedVersion = NoVersion
    /\ cachedHash = "-1"
    /\ hashMutex = NoThread
    /\ pc = [t \in Threads |-> "idle"]
    /\ allowUnfrozen = [t \in Threads |-> FALSE]
    /\ seen = [t \in Threads |-> NoVersion]
    /\ verdict = [t \in Threads |-> "none"]
    /\ lookups = 1
    /\ accepted = FALSE
    /\ lateStart = [t \in Threads |-> FALSE]

Goto(t, step) == pc' = [pc EXCEPT ![t] = step]

\* isCompatible(service, allow) is entered with a non-null service.
Call(t, allow) ==
    /\ pc[t] = "idle"
    /\ Goto(t, "lockHash")
    /\ allowUnfrozen' = [allowUnfrozen EXCEPT ![t] = allow]
    /\ verdict' = [verdict EXCEPT ![t] = "none"]
    /\ lateStart' = [lateStart EXCEPT ![t] = accepted]
    /\ UNCHANGED <<peer, alive, cachedVersion, cachedHash, hashMutex, seen,
                   lookups, accepted>>

\* std::lock_guard in getInterfaceHash().
LockHash(t) ==
    /\ pc[t] = "lockHash"
    /\ hashMutex = NoThread
    /\ hashMutex' = t
    /\ Goto(t, "testHash")
    /\ UNCHANGED <<peer, alive, cachedVersion, cachedHash, allowUnfrozen, seen,
                   verdict, lookups, accepted, lateStart>>

TestHash(t) ==
    /\ pc[t] = "testHash"
    /\ Goto(t, IF cachedHash = "-1" THEN "callHash" ELSE "returnHash")
    /\ UNCHANGED <<peer, alive, cachedVersion, cachedHash, hashMutex,
                   allowUnfrozen, seen, verdict, lookups, accepted, lateStart>>

\* The transaction either fails (dead object, transport error) and leaves the
\* cache alone, or brings the peer's HASH constant.
CallHash(t) ==
    /\ pc[t] = "callHash"
    /\ \/ UNCHANGED cachedHash
       \/ alive /\ cachedHash' = peer.hash
    /\ Goto(t, "returnHash")
    /\ UNCHANGED <<peer, alive, cachedVersion, hashMutex, allowUnfrozen, seen,
                   verdict, lookups, accepted, lateStart>>

\* Every return of isCompatible().
Finish(t, answer) ==
    /\ Goto(t, "idle")
    /\ verdict' = [verdict EXCEPT ![t] = IF answer THEN "yes" ELSE "no"]
    /\ accepted' = (accepted \/ answer)

\* Mutant: a failed hash transaction is not told from an answer.
ReturnHashUnchecked(t) ==
    /\ pc[t] = "returnHash"
    /\ hashMutex' = NoThread
    /\ \/ /\ cachedHash = "notfrozen"
          /\ Finish(t, allowUnfrozen[t])
       \/ /\ cachedHash # "notfrozen"
          /\ Goto(t, "testVersion")
          /\ UNCHANGED <<verdict, accepted>>
    /\ UNCHANGED <<peer, alive, cachedVersion, cachedHash, allowUnfrozen, seen,
                   lookups, lateStart>>

\* Mutant: the early return for a failed transaction leaves the mutex held.
ReturnHashLocked(t) ==
    /\ pc[t] = "returnHash"
    /\ \/ /\ cachedHash \in {"", "-1"}
          /\ UNCHANGED hashMutex
          /\ Finish(t, FALSE)
       \/ /\ cachedHash = "notfrozen"
          /\ hashMutex' = NoThread
          /\ Finish(t, allowUnfrozen[t])
       \/ /\ cachedHash \notin {"", "-1", "notfrozen"}
          /\ hashMutex' = NoThread
          /\ Goto(t, "testVersion")
          /\ UNCHANGED <<verdict, accepted>>
    /\ UNCHANGED <<peer, alive, cachedVersion, cachedHash, allowUnfrozen, seen,
                   lookups, lateStart>>

\* The hash is returned, the lock_guard released, and isCompatible() decides
\* whether the version is needed at all.
ReturnHash(t) ==
    /\ pc[t] = "returnHash"
    /\ hashMutex' = NoThread
    /\ \/ /\ cachedHash \in {"", "-1"}
          /\ Finish(t, FALSE)
       \/ /\ cachedHash = "notfrozen"
          /\ Finish(t, allowUnfrozen[t])
       \/ /\ cachedHash \notin {"", "-1", "notfrozen"}
          /\ Goto(t, "testVersion")
          /\ UNCHANGED <<verdict, accepted>>
    /\ UNCHANGED <<peer, alive, cachedVersion, cachedHash, allowUnfrozen, seen,
                   lookups, lateStart>>

TestVersion(t) ==
    /\ pc[t] = "testVersion"
    /\ seen' = [seen EXCEPT ![t] = cachedVersion]
    /\ Goto(t, IF cachedVersion = NoVersion THEN "callVersion"
                                            ELSE "returnVersion")
    /\ UNCHANGED <<peer, alive, cachedVersion, cachedHash, hashMutex,
                   allowUnfrozen, verdict, lookups, accepted, lateStart>>

\* Mutant: the status of a failed transaction is stored as the version.
CallVersionStoresError(t) ==
    /\ pc[t] = "callVersion"
    /\ \/ cachedVersion' = -32 /\ seen' = [seen EXCEPT ![t] = -32]
       \/ /\ alive
          /\ cachedVersion' = peer.version
          /\ seen' = [seen EXCEPT ![t] = peer.version]
    /\ Goto(t, "returnVersion")
    /\ UNCHANGED <<peer, alive, cachedHash, hashMutex, allowUnfrozen, verdict,
                   lookups, accepted, lateStart>>

\* Mutant: the answer is returned without being cached.
CallVersionUncached(t) ==
    /\ pc[t] = "callVersion"
    /\ \/ UNCHANGED seen
       \/ alive /\ seen' = [seen EXCEPT ![t] = peer.version]
    /\ Goto(t, "returnVersion")
    /\ UNCHANGED <<peer, alive, cachedVersion, cachedHash, hashMutex,
                   allowUnfrozen, verdict, lookups, accepted, lateStart>>

\* Mutant: a failed transaction resets the cache to its sentinel.
CallVersionResets(t) ==
    /\ pc[t] = "callVersion"
    /\ \/ cachedVersion' = NoVersion /\ UNCHANGED seen
       \/ /\ alive
          /\ cachedVersion' = peer.version
          /\ seen' = [seen EXCEPT ![t] = peer.version]
    /\ Goto(t, "returnVersion")
    /\ UNCHANGED <<peer, alive, cachedHash, hashMutex, allowUnfrozen, verdict,
                   lookups, accepted, lateStart>>

\* Mutant: a failed transaction is tried again at once.
CallVersionRetries(t) ==
    /\ pc[t] = "callVersion"
    /\ \/ UNCHANGED <<cachedVersion, seen, pc>>
       \/ /\ alive
          /\ cachedVersion' = peer.version
          /\ seen' = [seen EXCEPT ![t] = peer.version]
          /\ Goto(t, "returnVersion")
    /\ UNCHANGED <<peer, alive, cachedHash, hashMutex, allowUnfrozen, verdict,
                   lookups, accepted, lateStart>>

CallVersion(t) ==
    /\ pc[t] = "callVersion"
    /\ \/ UNCHANGED <<cachedVersion, seen>>
       \/ /\ alive
          /\ cachedVersion' = peer.version
          /\ seen' = [seen EXCEPT ![t] = peer.version]
    /\ Goto(t, "returnVersion")
    /\ UNCHANGED <<peer, alive, cachedHash, hashMutex, allowUnfrozen, verdict,
                   lookups, accepted, lateStart>>

\* The unsynchronised field is read again for the return, or the build keeps
\* the value it already holds in a register: the race admits both.
ReturnVersion(t) ==
    /\ pc[t] = "returnVersion"
    /\ \E v \in {seen[t], cachedVersion} :
          Finish(t, IsCompatible(ClientVersion, v))
    /\ UNCHANGED <<peer, alive, cachedVersion, cachedHash, hashMutex,
                   allowUnfrozen, seen, lookups, lateStart>>

\* The server process dies; transactions on this proxy fail from now on.
ServerDies ==
    /\ alive
    /\ alive' = FALSE
    /\ UNCHANGED <<peer, cachedVersion, cachedHash, hashMutex, pc,
                   allowUnfrozen, seen, verdict, lookups, accepted, lateStart>>

\* getService(): the client drops its proxy and builds a fresh one on whatever
\* build is registered now.
Lookup ==
    /\ \A t \in Threads : pc[t] = "idle"
    /\ lookups < MaxLookups
    /\ lookups' = lookups + 1
    /\ peer' \in (IF alive THEN {peer} ELSE Servers)
    /\ alive' = TRUE
    /\ cachedVersion' = NoVersion
    /\ cachedHash' = "-1"
    /\ verdict' = [t \in Threads |-> "none"]
    /\ seen' = [t \in Threads |-> NoVersion]
    /\ accepted' = FALSE
    /\ lateStart' = [t \in Threads |-> FALSE]
    /\ UNCHANGED <<hashMutex, pc, allowUnfrozen>>

Inside(t) ==
    \/ LockHash(t) \/ TestHash(t) \/ CallHash(t) \/ ReturnHash(t)
    \/ TestVersion(t) \/ CallVersion(t) \/ ReturnVersion(t)

Next ==
    \/ \E t \in Threads : Inside(t) \/ \E allow \in BOOLEAN : Call(t, allow)
    \/ ServerDies
    \/ Lookup

\* A thread that entered isCompatible() keeps being scheduled and every
\* transaction returns; nothing makes a client call or a server die.
Fairness == \A t \in Threads : WF_vars(Inside(t))

Spec == Init /\ [][Next]_vars /\ Fairness

-----------------------------------------------------------------------------
TypeOK ==
    /\ peer \in Servers
    /\ alive \in BOOLEAN
    /\ cachedVersion \in Nat \cup {NoVersion}
    /\ cachedHash \in Hashes
    /\ hashMutex \in Threads \cup {NoThread}
    /\ pc \in [Threads -> Steps]
    /\ allowUnfrozen \in [Threads -> BOOLEAN]
    /\ seen \in [Threads -> Nat \cup {NoVersion}]
    /\ verdict \in [Threads -> Verdicts]
    /\ lookups \in 1 .. MaxLookups
    /\ accepted \in BOOLEAN
    /\ lateStart \in [Threads -> BOOLEAN]

\* A "yes" is never given on a half-failed exchange: whatever mix of failed
\* transactions, deaths and racing threads, an accepted server is a frozen one
\* the predicate accepts, or a development build the caller opted in to
\* (halcompat.h isCompatible over the racy caches of the proxy).
AcceptedIsCompatible ==
    \A t \in Threads :
        verdict[t] = "yes" =>
            \/ peer.hash = "notfrozen" /\ allowUnfrozen[t]
            \/ peer.hash = "frozen" /\ IsCompatible(ClientVersion, peer.version)

\* Once any thread accepted this proxy's server, a call that starts later is
\* not refused for want of a transaction, even when the server has died since:
\* the acceptance lives in the two caches, not in the link.
AcceptanceSticks ==
    \A t \in Threads :
        (verdict[t] = "no" /\ lateStart[t]) =>
            peer.hash = "notfrozen" /\ ~allowUnfrozen[t]

\* A value learned from the peer is never forgotten or changed while the proxy
\* lives, whichever thread's transaction fails later (cached_version_ is
\* written by racing threads without a lock).
CachesOnlyFill ==
    [][/\ cachedVersion # NoVersion /\ lookups' = lookups
            => cachedVersion' = cachedVersion
       /\ cachedHash # "-1" /\ lookups' = lookups
            => cachedHash' = cachedHash]_vars

\* The mutex held across the hash transaction is always given back.
HashMutexReleased == (hashMutex # NoThread) ~> (hashMutex = NoThread)

\* A thread that passed the mutex gets an answer, whatever the server does.
PastMutexReturns ==
    \A t \in Threads :
        (pc[t] \notin {"idle", "lockHash"}) ~> (pc[t] = "idle")
=============================================================================
