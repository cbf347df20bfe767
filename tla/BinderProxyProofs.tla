-------------------------- MODULE BinderProxyProofs --------------------------
(***************************************************************************)
(* Proofs about BinderProxy, for any set of threads, any set of installed  *)
(* builds, any client version and any number of lookups.                   *)
(***************************************************************************)
EXTENDS BinderProxy, TLAPS

\* What the two caches and the racy register may hold, and how far a thread
\* can have got for a given peer: the facts the verdict rests on.
CacheInv ==
    /\ cachedVersion \in {NoVersion, peer.version}
    /\ cachedHash \in {"-1", peer.hash}
    /\ \A t \in Threads :
          /\ seen[t] \in {NoVersion, cachedVersion}
          /\ pc[t] \in {"testVersion", "callVersion", "returnVersion"} =>
                /\ peer.hash = "frozen"
                /\ cachedHash = "frozen"

\* What a past acceptance left behind, and what a later call finds.
StickInv ==
    /\ accepted =>
          /\ cachedHash = peer.hash
          /\ peer.hash \in {"frozen", "notfrozen"}
          /\ peer.hash = "frozen" =>
                /\ cachedVersion = peer.version
                /\ IsCompatible(ClientVersion, peer.version)
    /\ \A t \in Threads :
          lateStart[t] =>
             /\ accepted
             /\ pc[t] # "callVersion"
             /\ pc[t] = "returnVersion" => seen[t] = peer.version

IInv == TypeOK /\ CacheInv /\ AcceptedIsCompatible /\ StickInv
            /\ AcceptanceSticks

\* The predicate refuses the sentinel of a version that was never fetched.
LEMMA NoVersionRefused == ~IsCompatible(ClientVersion, NoVersion)
BY ConfigAssumption DEF IsCompatible, NoVersion

LEMMA InitIInv == Init => IInv
<1> SUFFICES ASSUME Init PROVE IInv
    OBVIOUS
<1>1. TypeOK
  <2>1. seen \in [Threads -> Nat \cup {NoVersion}]
      BY DEF Init
  <2>2. lookups \in 1 .. MaxLookups
      BY ConfigAssumption DEF Init
  <2> QED
      BY <2>1, <2>2 DEF Init, TypeOK, Hashes, Steps, Verdicts
<1>2. CacheInv
    BY DEF Init, CacheInv
<1>3. AcceptedIsCompatible /\ StickInv /\ AcceptanceSticks
    BY DEF Init, AcceptedIsCompatible, StickInv, AcceptanceSticks
<1> QED
    BY <1>1, <1>2, <1>3 DEF IInv

LEMMA NextIInv == IInv /\ [Next]_vars => IInv'
<1> SUFFICES ASSUME IInv, [Next]_vars PROVE IInv'
    OBVIOUS
<1> USE DEF IInv
<1>p. peer.version \in Nat /\ peer.hash \in Hashes \ {"-1"}
    BY ConfigAssumption DEF TypeOK
<1>n. NoVersion \notin Nat
    BY DEF NoVersion
<1>1. ASSUME NEW t \in Threads, NEW allow \in BOOLEAN, Call(t, allow)
      PROVE  IInv'
    BY <1>1, <1>p DEF Call, Goto, TypeOK, CacheInv, AcceptedIsCompatible,
       StickInv, AcceptanceSticks, Steps, Verdicts
<1>2. ASSUME NEW t \in Threads, LockHash(t) PROVE IInv'
    BY <1>2, <1>p DEF LockHash, Goto, TypeOK, CacheInv, AcceptedIsCompatible,
       StickInv, AcceptanceSticks, Steps, Verdicts
<1>3. ASSUME NEW t \in Threads, TestHash(t) PROVE IInv'
    BY <1>3, <1>p DEF TestHash, Goto, TypeOK, CacheInv, AcceptedIsCompatible,
       StickInv, AcceptanceSticks, Steps, Verdicts
<1>4. ASSUME NEW t \in Threads, CallHash(t) PROVE IInv'
    BY <1>4, <1>p DEF CallHash, Goto, TypeOK, CacheInv, AcceptedIsCompatible,
       StickInv, AcceptanceSticks, Steps, Verdicts, Hashes
<1>5. ASSUME NEW t \in Threads, ReturnHash(t) PROVE IInv'
  <2>1. TypeOK'
      BY <1>5 DEF ReturnHash, Finish, Goto, TypeOK, Steps, Verdicts
  <2>2. CacheInv'
      BY <1>5, <1>p DEF ReturnHash, Finish, Goto, TypeOK, CacheInv, Hashes
  <2>3. AcceptedIsCompatible'
      BY <1>5, <1>p DEF ReturnHash, Finish, TypeOK, CacheInv,
         AcceptedIsCompatible
  <2>4. StickInv'
    <3>1. /\ UNCHANGED <<peer, cachedVersion, cachedHash, seen, lateStart>>
          /\ (accepted' = accepted) \/ (accepted' /\ cachedHash = "notfrozen")
          /\ accepted => accepted'
          /\ \A u \in Threads :
                pc'[u] = "returnVersion" \/ pc'[u] = "callVersion"
                    => pc'[u] = pc[u]
        BY <1>5 DEF ReturnHash, Finish, Goto, TypeOK
    <3>2. cachedHash = "notfrozen" => peer.hash = "notfrozen"
        BY <1>p DEF CacheInv
    <3> QED
        BY <3>1, <3>2 DEF StickInv
  <2>5. AcceptanceSticks'
      BY <1>5, <1>p DEF ReturnHash, Finish, TypeOK, CacheInv, StickInv,
         AcceptanceSticks
  <2> QED
      BY <2>1, <2>2, <2>3, <2>4, <2>5
<1>6. ASSUME NEW t \in Threads, TestVersion(t) PROVE IInv'
  <2>1. TypeOK'
    <3>1. seen' \in [Threads -> Nat \cup {NoVersion}]
      <4>1. cachedVersion \in Nat \cup {NoVersion}
          BY DEF TypeOK
      <4>2. seen \in [Threads -> Nat \cup {NoVersion}]
          BY DEF TypeOK
      <4>3. seen' = [seen EXCEPT ![t] = cachedVersion]
          BY <1>6 DEF TestVersion
      <4> QED
          BY <4>1, <4>2, <4>3
    <3>2. pc' \in [Threads -> Steps]
        BY <1>6 DEF TestVersion, Goto, TypeOK, Steps
    <3> QED
        BY <1>6, <3>1, <3>2 DEF TestVersion, TypeOK
  <2>2. CacheInv'
      BY <1>6, <1>p DEF TestVersion, Goto, TypeOK, CacheInv
  <2>3. StickInv'
      BY <1>6, <1>p, <1>n DEF TestVersion, Goto, TypeOK, CacheInv, StickInv
  <2>4. AcceptedIsCompatible' /\ AcceptanceSticks'
      BY <1>6 DEF TestVersion, AcceptedIsCompatible, AcceptanceSticks
  <2> QED
      BY <2>1, <2>2, <2>3, <2>4
<1>7. ASSUME NEW t \in Threads, CallVersion(t) PROVE IInv'
    BY <1>7, <1>p, <1>n DEF CallVersion, Goto, TypeOK, CacheInv,
       AcceptedIsCompatible, StickInv, AcceptanceSticks, Steps, Verdicts
<1>8. ASSUME NEW t \in Threads, ReturnVersion(t) PROVE IInv'
    BY <1>8, <1>p, <1>n, NoVersionRefused DEF ReturnVersion, Finish, Goto,
       TypeOK, CacheInv, AcceptedIsCompatible, StickInv, AcceptanceSticks,
       Steps, Verdicts
<1>9. CASE ServerDies
    BY <1>9, <1>p DEF ServerDies, TypeOK, CacheInv, AcceptedIsCompatible,
       StickInv, AcceptanceSticks
<1>10. CASE Lookup
  <2>1. TypeOK'
    <3>1. seen' \in [Threads -> Nat \cup {NoVersion}]
        BY <1>10 DEF Lookup
    <3>2. lookups' \in 1 .. MaxLookups
        BY <1>10, ConfigAssumption DEF Lookup, TypeOK
    <3>3. verdict' \in [Threads -> Verdicts] /\ peer' \in Servers
        BY <1>10 DEF Lookup, TypeOK, Verdicts
    <3> QED
        BY <1>10, <3>1, <3>2, <3>3 DEF Lookup, TypeOK, Hashes
  <2>2. CacheInv'
      BY <1>10 DEF Lookup, CacheInv, TypeOK
  <2>3. AcceptedIsCompatible' /\ StickInv' /\ AcceptanceSticks'
      BY <1>10 DEF Lookup, AcceptedIsCompatible, StickInv, AcceptanceSticks,
         TypeOK
  <2> QED
      BY <2>1, <2>2, <2>3
<1>11. CASE UNCHANGED vars
    BY <1>11 DEF vars, TypeOK, CacheInv, AcceptedIsCompatible, StickInv,
       AcceptanceSticks
<1> QED
    BY <1>1, <1>2, <1>3, <1>4, <1>5, <1>6, <1>7, <1>8, <1>9, <1>10, <1>11
       DEF Next, Inside

\* Every behaviour keeps the inductive invariant.
THEOREM Invariance == Spec => []IInv
BY InitIInv, NextIInv, PTL DEF Spec

\* Type correctness.
THEOREM TypeCorrect == Spec => []TypeOK
BY Invariance, PTL DEF IInv

\* halcompat::isCompatible never accepts a server on the strength of a failed
\* or half-finished exchange, for any number of racing threads.
THEOREM AcceptanceSound == Spec => []AcceptedIsCompatible
BY Invariance, PTL DEF IInv

\* Once accepted, a proxy's server is not refused later for want of a
\* transaction, even after it died.
THEOREM AcceptanceStable == Spec => []AcceptanceSticks
BY Invariance, PTL DEF IInv

\* What the proxy learned from its server it never loses or changes, however
\* its threads race and its transactions fail.
THEOREM LearnedIsKept == Spec => CachesOnlyFill
<1>1. IInv /\ IInv' /\ [Next]_vars =>
        /\ cachedVersion # NoVersion /\ lookups' = lookups
             => cachedVersion' = cachedVersion
        /\ cachedHash # "-1" /\ lookups' = lookups
             => cachedHash' = cachedHash
  <2> SUFFICES ASSUME IInv, IInv', [Next]_vars, lookups' = lookups
               PROVE  /\ cachedVersion # NoVersion => cachedVersion' = cachedVersion
                      /\ cachedHash # "-1" => cachedHash' = cachedHash
    OBVIOUS
  <2>1. /\ cachedVersion \in {NoVersion, peer.version}
        /\ cachedHash \in {"-1", peer.hash}
    BY DEF IInv, CacheInv
  <2>2. CASE Lookup
    BY <2>2 DEF Lookup, IInv, TypeOK
  <2>3. ASSUME NEW t \in Threads, CallHash(t) \/ CallVersion(t)
        PROVE  /\ cachedVersion # NoVersion => cachedVersion' = cachedVersion
               /\ cachedHash # "-1" => cachedHash' = cachedHash
    BY <2>1, <2>3 DEF CallHash, CallVersion
  <2>4. \/ Lookup \/ \E t \in Threads : CallHash(t) \/ CallVersion(t)
        \/ cachedVersion' = cachedVersion /\ cachedHash' = cachedHash
    BY Zenon DEF Next, Inside, Call, LockHash, TestHash, ReturnHash,
       TestVersion, ReturnVersion, ServerDies, vars
  <2> QED
    BY <2>2, <2>3, <2>4
<1> QED
  BY <1>1, Invariance, PTL DEF Spec, CachesOnlyFill
=============================================================================
