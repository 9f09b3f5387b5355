---------------------------- MODULE TokenCache ----------------------------
(***************************************************************************)
(* Authentication of /run requests in Kubernetes mode: the cached token    *)
(* validator and the token reviews behind it.                              *)
(*   internal/auth/auth_cache.go  tokenCache, CachedTokenValidator         *)
(*   internal/auth/auth.go        ValidateToken                            *)
(*                                                                         *)
(* Request handlers share the cache.  get reads an entry under the read    *)
(* lock, looks at its expiry with no lock, and evicts under the write      *)
(* lock; a review is a call to the API server, which may answer as it      *)
(* likes: a token may be revoked at any time, or never have been one.      *)
(* Which service accounts may run commands (IsRequiredSA) is a comparison  *)
(* of names that changes nothing here, and is left out: to be admitted     *)
(* means to be recognised.                                                 *)
(***************************************************************************)
EXTENDS Integers

CONSTANTS
    Tokens,         \* the tokens that callers present
    Handlers,       \* the goroutines that serve /run requests
    TTL,            \* the TTL given to NewCachedTokenValidator
    ReviewTimeout,  \* the timeout of the in-cluster HTTP client
    NoToken         \* what a handler that is not serving holds

ASSUME TokenAssumption == NoToken \notin Tokens

ASSUME TimeAssumption == TTL \in Nat /\ ReviewTimeout \in Nat

VARIABLES
    entry,      \* time since set for each cached token, None if not cached
    handler,    \* where each handler is in ValidateToken, or how it left it
    token,      \* the token each handler validates
    copy,       \* time since set of the entry that get has read
    transit,    \* time since the API server answered the handler's review
    vouched     \* history: time since the API server last vouched for each
                \* token, None if it never has

vars == <<entry, handler, token, copy, transit, vouched>>

None == -1

Expiry == TTL + 1                       \* the age at which After first holds

StaleCap == TTL + ReviewTimeout + 1     \* older than any answer should be

Free == {"idle", "admitted", "denied"}

TypeOK ==
    /\ entry \in [Tokens -> None..Expiry]
    /\ handler \in [Handlers -> Free \cup {"check", "evict", "review", "set"}]
    /\ token \in [Handlers -> Tokens \cup {NoToken}]
    /\ copy \in [Handlers -> 0..Expiry]
    /\ transit \in [Handlers -> 0..ReviewTimeout]
    /\ vouched \in [Tokens -> None..StaleCap]
    /\ \A h \in Handlers : handler[h] \notin Free => token[h] \in Tokens

Init ==
    /\ entry = [t \in Tokens |-> None]
    /\ handler = [h \in Handlers |-> "idle"]
    /\ token = [h \in Handlers |-> NoToken]
    /\ copy = [h \in Handlers |-> 0]
    /\ transit = [h \in Handlers |-> 0]
    /\ vouched = [t \in Tokens |-> None]

IsExpired(age) == age = Expiry

-----------------------------------------------------------------------------
At(h, place) == handler[h] = place

Goto(h, place) == handler' = [handler EXCEPT ![h] = place]

(* ValidateToken returns: what the handler held does not matter any more.  *)
Leave(h, place) ==
    /\ Goto(h, place)
    /\ token' = [token EXCEPT ![h] = NoToken]
    /\ copy' = [copy EXCEPT ![h] = 0]
    /\ transit' = [transit EXCEPT ![h] = 0]

(* The entry used without asking whether there is one.                     *)
FaultyLookup(h, t) ==
    /\ handler[h] \in Free
    /\ token' = [token EXCEPT ![h] = t]
    /\ Goto(h, "check")
    /\ copy' = [copy EXCEPT ![h] = entry[t]]
    /\ UNCHANGED <<entry, transit, vouched>>

(* get, under the read lock: the entry is copied.                          *)
Lookup(h, t) ==
    /\ handler[h] \in Free
    /\ token' = [token EXCEPT ![h] = t]
    /\ \/ /\ entry[t] = None
          /\ Goto(h, "review")
          /\ copy' = copy
       \/ /\ entry[t] # None
          /\ Goto(h, "check")
          /\ copy' = [copy EXCEPT ![h] = entry[t]]
    /\ UNCHANGED <<entry, transit, vouched>>

(* A hit that also renews the entry.                                       *)
FaultyHit(h) ==
    /\ At(h, "check") /\ ~ IsExpired(copy[h])
    /\ entry' = [entry EXCEPT ![token[h]] = 0]
    /\ Leave(h, "admitted")
    /\ UNCHANGED vouched

(* get, with no lock: the expiry of the copy.  What is in the cache by now *)
(* may be another entry, or none.                                          *)
Hit(h) ==
    /\ At(h, "check") /\ ~ IsExpired(copy[h])
    /\ Leave(h, "admitted")
    /\ UNCHANGED <<entry, vouched>>

Stale(h) ==
    /\ At(h, "check") /\ IsExpired(copy[h])
    /\ Goto(h, "evict")
    /\ UNCHANGED <<entry, token, copy, transit, vouched>>

(* The write lock taken while the read lock is still held.                 *)
FaultyEvict(h) ==
    /\ At(h, "evict")
    /\ \A g \in Handlers \ {h} : handler[g] \notin {"check", "evict"}
    /\ entry' = [entry EXCEPT ![token[h]] = None]
    /\ Goto(h, "review")
    /\ UNCHANGED <<token, copy, transit, vouched>>

(* get, under the write lock: whatever entry there is goes.                *)
Evict(h) ==
    /\ At(h, "evict")
    /\ entry' = [entry EXCEPT ![token[h]] = None]
    /\ Goto(h, "review")
    /\ UNCHANGED <<token, copy, transit, vouched>>

(* The API server answers that the token is authenticated; the answer is   *)
(* on its way from now on.                                                 *)
Authenticate(h) ==
    /\ At(h, "review")
    /\ Goto(h, "set")
    /\ transit' = [transit EXCEPT ![h] = 0]
    /\ vouched' = [vouched EXCEPT ![token[h]] = 0]
    /\ UNCHANGED <<entry, token, copy>>

(* An answer stored although it says that the token is not authenticated.  *)
FaultyDeny(h) ==
    /\ At(h, "review")
    /\ Goto(h, "set")
    /\ UNCHANGED <<entry, token, copy, transit, vouched>>

(* A negative answer, a failed or cancelled call, an HTTP error, a body    *)
(* that does not decode: nothing is cached.                                *)
Deny(h) ==
    /\ handler[h] \in {"review", "set"}
    /\ Leave(h, "denied")
    /\ UNCHANGED <<entry, vouched>>

(* The answer has arrived: set, under the write lock.                      *)
Set(h) ==
    /\ At(h, "set")
    /\ entry' = [entry EXCEPT ![token[h]] = 0]
    /\ Leave(h, "admitted")
    /\ UNCHANGED vouched

(* A sweep that keeps what is expired and drops what is not.               *)
FaultySweep ==
    /\ \E t \in Tokens : IsExpired(entry[t])
    /\ entry' = [t \in Tokens |-> IF IsExpired(entry[t]) THEN entry[t] ELSE None]
    /\ UNCHANGED <<handler, token, copy, transit, vouched>>

(* deleteExpired, at a tick of the sweeper.                                *)
Sweep ==
    /\ \E t \in Tokens : IsExpired(entry[t])
    /\ entry' = [t \in Tokens |-> IF IsExpired(entry[t]) THEN None ELSE entry[t]]
    /\ UNCHANGED <<handler, token, copy, transit, vouched>>

-----------------------------------------------------------------------------
(* The clock.                                                              *)

Older(age, bound) == IF age \in 0..(bound - 1) THEN age + 1 ELSE age

(* An answer that takes longer than the HTTP client waits is never used:   *)
(* time does not pass the timeout while one is on its way.                 *)
Tick ==
    /\ \A h \in Handlers : At(h, "set") => transit[h] < ReviewTimeout
    /\ entry' = [t \in Tokens |-> Older(entry[t], Expiry)]
    /\ copy' = [h \in Handlers |-> IF At(h, "check") THEN Older(copy[h], Expiry)
                                                     ELSE copy[h]]
    /\ transit' = [h \in Handlers |-> IF At(h, "set") THEN transit[h] + 1
                                                      ELSE transit[h]]
    /\ vouched' = [t \in Tokens |-> Older(vouched[t], StaleCap)]
    /\ <<entry, copy, transit, vouched>>' # <<entry, copy, transit, vouched>>
    /\ UNCHANGED <<handler, token>>

Next ==
    \/ \E h \in Handlers :
         \/ \E t \in Tokens : Lookup(h, t)
         \/ Hit(h)
         \/ Stale(h)
         \/ Evict(h)
         \/ Authenticate(h)
         \/ Deny(h)
         \/ Set(h)
    \/ Sweep
    \/ Tick

Spec == Init /\ [][Next]_vars

(* The sweeper's ticker fires and its goroutine runs; a review ends at the  *)
(* latest by the timeout of its client; the other steps do not block.      *)
Fairness ==
    /\ WF_vars(Sweep)
    /\ \A h \in Handlers :
         WF_vars(Hit(h) \/ Stale(h) \/ Evict(h) \/ Authenticate(h)
                     \/ Deny(h) \/ Set(h))

FairSpec == Spec /\ Fairness

-----------------------------------------------------------------------------
(* Nobody is recognised whom the API server has not vouched for, for this  *)
(* very token, within the TTL and the time an answer may be on its way:    *)
(* a token that it has revoked is of no use after that, and a forged one   *)
(* never, whichever way lookups, reviews, evictions and sweeps of several  *)
(* handlers interleave.  (auth_cache.go ValidateToken: the TTL starts when *)
(* the answer is stored, not when the API server gave it.)                 *)
StalenessBounded ==
    [][\A h \in Handlers :
         ~ At(h, "admitted") /\ handler'[h] = "admitted"
            => vouched[token[h]] \in 0..(TTL + ReviewTimeout)]_vars

(* What is in the cache was authenticated by the API server no longer ago  *)
(* than the age of the entry and the time the answer was on its way: no    *)
(* race makes an entry younger than what it says.  (auth_cache.go set)     *)
EntriesAuthenticated ==
    \A t \in Tokens :
        entry[t] # None => vouched[t] \in 0..(entry[t] + ReviewTimeout)

(* An expired entry leaves the cache, or is replaced by a fresh one, also  *)
(* when its token is never presented again.  (auth_cache.go sweep)         *)
ExpiredEntriesGo ==
    \A t \in Tokens : IsExpired(entry[t]) ~> ~ IsExpired(entry[t])

(* Every request is recognised or denied: neither a busy cache nor an      *)
(* eviction by another handler keeps a handler in ValidateToken.           *)
(* (auth_cache.go ValidateToken: one lookup, at most one review)           *)
EveryTokenDecided ==
    \A h \in Handlers : handler[h] \notin Free ~> handler[h] \in Free
=============================================================================
