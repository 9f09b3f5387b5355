------------------------- MODULE TokenCacheProofs -------------------------
(***************************************************************************)
(* Proofs about TokenCache, for every set of tokens and handlers and every *)
(* TTL and review timeout: type correctness, and that a token is           *)
(* recognised for a bounded time after it was last vouched for.            *)
(***************************************************************************)
EXTENDS TokenCache, TLAPS

(* The type invariant is inductive as it stands.                           *)
LEMMA InitTypeOK == Init => TypeOK
  BY TokenAssumption, TimeAssumption
  DEF Init, TypeOK, Free, None, Expiry, StaleCap

(* A handler that goes on with the same token keeps the types.             *)
LEMMA GotoType ==
    ASSUME TypeOK, NEW h \in Handlers, handler[h] \notin Free,
           NEW place \in {"check", "evict", "review", "set"}, Goto(h, place)
    PROVE  /\ handler' \in [Handlers -> Free \cup {"check", "evict", "review", "set"}]
           /\ \A g \in Handlers : handler'[g] \notin Free => token[g] \in Tokens
  BY DEF TypeOK, Goto

(* A handler that leaves ValidateToken keeps the types.                    *)
LEMMA LeaveType ==
    ASSUME TypeOK, NEW h \in Handlers, NEW place \in Free, Leave(h, place)
    PROVE  /\ handler' \in [Handlers -> Free \cup {"check", "evict", "review", "set"}]
           /\ token' \in [Handlers -> Tokens \cup {NoToken}]
           /\ copy' \in [Handlers -> 0..Expiry]
           /\ transit' \in [Handlers -> 0..ReviewTimeout]
           /\ \A g \in Handlers : handler'[g] \notin Free => token'[g] \in Tokens
  BY TimeAssumption DEF TypeOK, Leave, Goto, Expiry

(* An age grows by one, or stays where it is capped.                       *)
LEMMA OlderBounds ==
    ASSUME NEW bound \in Nat, NEW age \in None..bound
    PROVE  /\ Older(age, bound) \in None..bound
           /\ age = None <=> Older(age, bound) = None
           /\ age # None /\ age < bound => Older(age, bound) = age + 1
           /\ age = bound => Older(age, bound) = bound
           /\ age = None => Older(age, bound) = None
  BY DEF Older, None

LEMMA NextTypeOK == TypeOK /\ [Next]_vars => TypeOK'
<1> SUFFICES ASSUME TypeOK, [Next]_vars PROVE TypeOK'
  OBVIOUS
<1> USE TimeAssumption DEF TypeOK
<1>a. /\ Expiry \in Nat /\ StaleCap \in Nat
      /\ 0 \in None..Expiry /\ None \in None..Expiry /\ 0 \in None..StaleCap
      /\ 0 \in 0..ReviewTimeout
  BY DEF Expiry, StaleCap, None
<1>1. ASSUME NEW h \in Handlers, NEW t \in Tokens, Lookup(h, t) PROVE TypeOK'
  <2>1. entry[t] # None => entry[t] \in 0..Expiry
    BY <1>a DEF None
  <2> QED
    BY <1>1, <2>1 DEF Lookup, Goto, Free
<1>2. ASSUME NEW h \in Handlers, Hit(h) PROVE TypeOK'
  BY <1>2, LeaveType DEF Hit, Free
<1>3. ASSUME NEW h \in Handlers, Stale(h) PROVE TypeOK'
  BY <1>3, GotoType DEF Stale, At, Free
<1>4. ASSUME NEW h \in Handlers, Evict(h) PROVE TypeOK'
  BY <1>4, <1>a, GotoType DEF Evict, At, Free
<1>5. ASSUME NEW h \in Handlers, Authenticate(h) PROVE TypeOK'
  BY <1>5, <1>a, GotoType DEF Authenticate, At, Free
<1>6. ASSUME NEW h \in Handlers, Deny(h) PROVE TypeOK'
  BY <1>6, LeaveType DEF Deny, Free
<1>7. ASSUME NEW h \in Handlers, Set(h) PROVE TypeOK'
  BY <1>7, <1>a, LeaveType DEF Set, Free
<1>8. CASE Sweep
  BY <1>8, <1>a DEF Sweep
<1>9. CASE Tick
  <2>1. entry' \in [Tokens -> None..Expiry]
    BY <1>9, <1>a, OlderBounds DEF Tick
  <2>2. vouched' \in [Tokens -> None..StaleCap]
    BY <1>9, <1>a, OlderBounds DEF Tick
  <2>3. copy' \in [Handlers -> 0..Expiry]
    BY <1>9, <1>a DEF Tick, Older
  <2>4. transit' \in [Handlers -> 0..ReviewTimeout]
    BY <1>9 DEF Tick
  <2> QED
    BY <1>9, <2>1, <2>2, <2>3, <2>4 DEF Tick
<1>10. CASE UNCHANGED vars
  BY <1>10 DEF vars
<1> QED
  BY <1>1, <1>2, <1>3, <1>4, <1>5, <1>6, <1>7, <1>8, <1>9, <1>10 DEF Next

(* Every variable keeps its type: ages stay below their caps, no answer is *)
(* on its way for longer than the client waits, and a handler inside       *)
(* ValidateToken holds a token.                                            *)
THEOREM TokenTypesCorrect == Spec => []TypeOK
  BY InitTypeOK, NextTypeOK, PTL DEF Spec

-----------------------------------------------------------------------------
(* EntriesAuthenticated is not inductive: set stores what a handler holds.  *)
(* What get has copied was authenticated like the entry it is a copy of;    *)
(* an answer on its way was true when it was given.                         *)
HeldInv ==
    \A h \in Handlers :
        /\ At(h, "check") => vouched[token[h]] \in 0..(copy[h] + ReviewTimeout)
        /\ At(h, "set") => vouched[token[h]] \in 0..transit[h]

TokenInv == TypeOK /\ EntriesAuthenticated /\ HeldInv

LEMMA InitTokenInv == Init => TokenInv
  BY InitTypeOK DEF Init, TokenInv, HeldInv, EntriesAuthenticated, At

(* Where a handler leaves and the API server has said nothing new, what     *)
(* the others hold is not touched.                                          *)
LEMMA LeaveHeld ==
    ASSUME TypeOK, HeldInv, NEW h \in Handlers, NEW place \in Free,
           Leave(h, place), UNCHANGED vouched
    PROVE  HeldInv'
  BY DEF TypeOK, HeldInv, Leave, Goto, At, Free

LEMMA NextTokenInv == TokenInv /\ [Next]_vars => TokenInv'
<1> SUFFICES ASSUME TokenInv, [Next]_vars
             PROVE  EntriesAuthenticated' /\ HeldInv'
  BY NextTypeOK DEF TokenInv
<1> USE TimeAssumption DEF TokenInv
<1>1. ASSUME NEW h \in Handlers, NEW t \in Tokens, Lookup(h, t)
      PROVE  EntriesAuthenticated' /\ HeldInv'
  <2>1. EntriesAuthenticated'
    BY <1>1 DEF Lookup, EntriesAuthenticated
  <2>2. HeldInv'
    BY <1>1 DEF Lookup, Goto, At, HeldInv, EntriesAuthenticated, TypeOK
  <2> QED
    BY <2>1, <2>2
<1>2. ASSUME NEW h \in Handlers, Hit(h)
      PROVE  EntriesAuthenticated' /\ HeldInv'
  BY <1>2, LeaveHeld DEF Hit, Free, EntriesAuthenticated
<1>3. ASSUME NEW h \in Handlers, Stale(h)
      PROVE  EntriesAuthenticated' /\ HeldInv'
  BY <1>3 DEF Stale, Goto, At, HeldInv, EntriesAuthenticated, TypeOK
<1>4. ASSUME NEW h \in Handlers, Evict(h)
      PROVE  EntriesAuthenticated' /\ HeldInv'
  <2>1. EntriesAuthenticated'
    BY <1>4 DEF Evict, EntriesAuthenticated, TypeOK
  <2>2. HeldInv'
    BY <1>4 DEF Evict, Goto, At, HeldInv, TypeOK
  <2> QED
    BY <2>1, <2>2
<1>5. ASSUME NEW h \in Handlers, Authenticate(h)
      PROVE  EntriesAuthenticated' /\ HeldInv'
  <2>1. \A t \in Tokens : vouched'[t] = vouched[t] \/ vouched'[t] = 0
    BY <1>5 DEF Authenticate, TypeOK
  <2>2. EntriesAuthenticated'
    <3> SUFFICES ASSUME NEW t \in Tokens, entry[t] # None
                 PROVE  vouched'[t] \in 0..(entry[t] + ReviewTimeout)
      BY <1>5 DEF Authenticate, EntriesAuthenticated
    <3>1. /\ vouched[t] \in 0..(entry[t] + ReviewTimeout)
          /\ entry[t] \in None..Expiry
      BY DEF EntriesAuthenticated, TypeOK
    <3>2. 0 \in 0..(entry[t] + ReviewTimeout)
      BY <3>1 DEF None
    <3> QED
      BY <2>1, <3>1, <3>2
  <2>3. ASSUME NEW g \in Handlers, At(g, "check")'
        PROVE  vouched'[token'[g]] \in 0..(copy'[g] + ReviewTimeout)
    <3>1. At(g, "check") /\ token[g] \in Tokens
      BY <1>5, <2>3 DEF Authenticate, Goto, At, TypeOK, Free
    <3>2. /\ vouched[token[g]] \in 0..(copy[g] + ReviewTimeout)
          /\ copy[g] \in 0..Expiry
      BY <3>1 DEF HeldInv, TypeOK
    <3>3. 0 \in 0..(copy[g] + ReviewTimeout)
      BY <3>2
    <3> QED
      BY <1>5, <2>1, <3>1, <3>2, <3>3 DEF Authenticate
  <2>4. ASSUME NEW g \in Handlers, At(g, "set")'
        PROVE  vouched'[token'[g]] \in 0..transit'[g]
    <3>1. token[g] \in Tokens /\ token' = token
      BY <1>5, <2>4 DEF Authenticate, Goto, At, TypeOK, Free
    <3>2. CASE g = h
      BY <1>5, <3>1, <3>2 DEF Authenticate, TypeOK
    <3>3. CASE g # h
      <4>1. At(g, "set") /\ transit'[g] = transit[g]
        BY <1>5, <2>4, <3>3 DEF Authenticate, Goto, At, TypeOK
      <4>2. /\ vouched[token[g]] \in 0..transit[g]
            /\ transit[g] \in 0..ReviewTimeout
        BY <4>1 DEF HeldInv, TypeOK
      <4>3. 0 \in 0..transit[g]
        BY <4>2
      <4> QED
        BY <2>1, <3>1, <4>1, <4>2, <4>3
    <3> QED
      BY <3>2, <3>3
  <2> QED
    BY <2>2, <2>3, <2>4 DEF HeldInv
<1>6. ASSUME NEW h \in Handlers, Deny(h)
      PROVE  EntriesAuthenticated' /\ HeldInv'
  BY <1>6, LeaveHeld DEF Deny, Free, EntriesAuthenticated
<1>7. ASSUME NEW h \in Handlers, Set(h)
      PROVE  EntriesAuthenticated' /\ HeldInv'
  <2>1. token[h] \in Tokens
    BY <1>7 DEF Set, At, TypeOK, Free
  <2>2. /\ transit[h] \in 0..ReviewTimeout
        /\ vouched[token[h]] \in 0..transit[h]
    BY <1>7, <2>1 DEF Set, At, HeldInv, TypeOK
  <2>3. vouched[token[h]] \in 0..(0 + ReviewTimeout)
    BY <2>2
  <2>4. EntriesAuthenticated'
    BY <1>7, <2>1, <2>3 DEF Set, EntriesAuthenticated, TypeOK
  <2>5. HeldInv'
    BY <1>7, LeaveHeld DEF Set, Free
  <2> QED
    BY <2>4, <2>5
<1>8. CASE Sweep
  <2>1. EntriesAuthenticated'
    BY <1>8 DEF Sweep, EntriesAuthenticated, TypeOK
  <2>2. HeldInv'
    BY <1>8 DEF Sweep, At, HeldInv
  <2> QED
    BY <2>1, <2>2
<1>9. CASE Tick
  <2>a. Expiry \in Nat /\ StaleCap \in Nat /\ StaleCap = Expiry + ReviewTimeout
    BY DEF Expiry, StaleCap
  <2>1. \A t \in Tokens : vouched[t] \in 0..StaleCap =>
            /\ vouched'[t] \in 0..StaleCap
            /\ vouched'[t] \in {vouched[t], vouched[t] + 1}
    BY <1>9, <2>a DEF Tick, Older, TypeOK
  <2>b. \A t \in Tokens : vouched[t] \in None..StaleCap
    BY DEF TypeOK
  <2>2. EntriesAuthenticated'
    <3> SUFFICES ASSUME NEW t \in Tokens, entry'[t] # None
                 PROVE  vouched'[t] \in 0..(entry'[t] + ReviewTimeout)
      BY DEF EntriesAuthenticated
    <3>1. entry[t] \in None..Expiry /\ entry'[t] = Older(entry[t], Expiry)
      BY <1>9 DEF Tick, TypeOK
    <3>2. entry[t] # None /\ vouched[t] \in 0..(entry[t] + ReviewTimeout)
      BY <3>1, <2>a, OlderBounds DEF EntriesAuthenticated
    <3>3. entry'[t] = entry[t] + 1 \/ entry'[t] = Expiry
      BY <3>1, <3>2, <2>a, OlderBounds DEF None
    <3>4. vouched[t] \in 0..StaleCap /\ entry[t] \in Int
      BY <2>b, <3>1, <3>2 DEF None
    <3> QED
      BY <3>2, <3>3, <3>4, <2>1, <2>a
  <2>3. ASSUME NEW h \in Handlers, At(h, "check")'
        PROVE  vouched'[token'[h]] \in 0..(copy'[h] + ReviewTimeout)
    <3>1. At(h, "check") /\ token' = token /\ token[h] \in Tokens
      BY <1>9, <2>3 DEF Tick, At, TypeOK, Free
    <3>2. copy'[h] = copy[h] + 1 \/ copy'[h] = Expiry
      BY <1>9, <3>1, <2>a DEF Tick, Older, TypeOK
    <3>3. vouched[token[h]] \in 0..(copy[h] + ReviewTimeout) /\ copy[h] \in Int
      BY <3>1, <2>a DEF HeldInv, TypeOK
    <3>4. vouched[token[h]] \in 0..StaleCap
      BY <2>b, <3>1, <3>3 DEF None
    <3> QED
      BY <3>1, <3>2, <3>3, <3>4, <2>1, <2>a
  <2>4. ASSUME NEW h \in Handlers, At(h, "set")'
        PROVE  vouched'[token'[h]] \in 0..transit'[h]
    <3>1. At(h, "set") /\ token' = token /\ token[h] \in Tokens
      BY <1>9, <2>4 DEF Tick, At, TypeOK, Free
    <3>2. /\ transit'[h] = transit[h] + 1 /\ transit[h] \in Int
          /\ vouched[token[h]] \in 0..transit[h]
      BY <1>9, <3>1 DEF Tick, HeldInv, TypeOK
    <3>3. vouched[token[h]] \in 0..StaleCap
      BY <2>b, <3>1, <3>2 DEF None
    <3> QED
      BY <3>1, <3>2, <3>3, <2>1
  <2> QED
    BY <2>2, <2>3, <2>4 DEF HeldInv
<1>10. CASE UNCHANGED vars
  BY <1>10 DEF vars, EntriesAuthenticated, HeldInv, At
<1> QED
  BY <1>1, <1>2, <1>3, <1>4, <1>5, <1>6, <1>7, <1>8, <1>9, <1>10 DEF Next

LEMMA TokenInvCorrect == Spec => []TokenInv
  BY InitTokenInv, NextTokenInv, PTL DEF Spec

(* An entry is never younger than the answer it stands for allows: races    *)
(* between handlers, evictions and sweeps lose entries but never renew them. *)
THEOREM EntriesAreAuthenticated == Spec => []EntriesAuthenticated
  BY TokenInvCorrect, PTL DEF TokenInv

(* The step that admits a token: from a copy that has not expired, or from  *)
(* an answer that has just arrived.                                         *)
LEMMA AdmittingStep ==
    ASSUME TokenInv, Next, NEW h \in Handlers,
           ~ At(h, "admitted"), handler'[h] = "admitted"
    PROVE  vouched[token[h]] \in 0..(TTL + ReviewTimeout)
<1> USE TimeAssumption DEF TokenInv
<1>1. \/ Hit(h)
      \/ Set(h)
  BY DEF Next, Lookup, Hit, Stale, Evict, Authenticate, Deny, Set, Sweep,
         Tick, Leave, Goto, At, TypeOK, Free
<1>2. CASE Hit(h)
  <2>1. /\ At(h, "check") /\ copy[h] \in 0..Expiry /\ copy[h] # Expiry
        /\ token[h] \in Tokens
    BY <1>2 DEF Hit, At, IsExpired, TypeOK, Free
  <2>2. vouched[token[h]] \in 0..(copy[h] + ReviewTimeout)
    BY <2>1 DEF HeldInv
  <2>3. copy[h] \in Nat /\ copy[h] + ReviewTimeout <= TTL + ReviewTimeout
    BY <2>1 DEF Expiry
  <2>4. \A n \in 0..(copy[h] + ReviewTimeout) : n \in 0..(TTL + ReviewTimeout)
    BY <2>3
  <2> QED
    BY <2>2, <2>4
<1>3. CASE Set(h)
  <2>1. At(h, "set") /\ transit[h] \in 0..ReviewTimeout /\ token[h] \in Tokens
    BY <1>3 DEF Set, At, TypeOK, Free
  <2>2. vouched[token[h]] \in 0..transit[h]
    BY <2>1 DEF HeldInv
  <2> QED
    BY <2>1, <2>2
<1> QED
  BY <1>1, <1>2, <1>3

(* A token is recognised for at most the TTL and the review timeout after   *)
(* the API server last vouched for it, and never if it has not, however     *)
(* many handlers validate it at once.                                       *)
THEOREM StalenessIsBounded == Spec => StalenessBounded
<1>1. TokenInv /\ [Next]_vars =>
        [\A h \in Handlers :
           ~ At(h, "admitted") /\ handler'[h] = "admitted"
              => vouched[token[h]] \in 0..(TTL + ReviewTimeout)]_vars
  BY AdmittingStep
<1> QED
  BY <1>1, TokenInvCorrect, PTL DEF Spec, StalenessBounded
=============================================================================
