----------------------------- MODULE RateLimiter ------------------------------
(***************************************************************************)
(* internal/httpx/middleware.go, rateLimiter: token buckets that are       *)
(* refilled when they are used, and a sweep, at most once per period, that *)
(* forgets buckets which have refilled.  allow runs under a mutex, so a    *)
(* call is one step.  Tokens are counted in parts small enough that Rate   *)
(* per unit of time is whole; a request costs Cost of them.                *)
(***************************************************************************)
EXTENDS Integers

CONSTANTS
  Keys,        \* client addresses
  Burst,       \* 40 tokens in the code
  Cost,        \* one token
  Rate,        \* 5 tokens per second in the code
  SweepEvery,  \* one minute
  NoBucket,    \* no entry in the map
  NoReply,
  MaxTime      \* bound: last clock value

ASSUME LimiterAssumption ==
  /\ Cost \in Nat \ {0} /\ Burst \in Nat /\ Burst >= Cost
  /\ Rate \in Nat /\ SweepEvery \in Nat /\ MaxTime \in Nat
  /\ NoBucket \notin [tokens : Int, last : Int]

VARIABLES
  buckets,     \* key -> bucket or NoBucket
  lastSweep,
  now,
  reply,       \* the last answer, NoReply once the clock has moved
  since,       \* history: the start of the observed window
  admitted     \* history: requests admitted in it, per key

vars == <<buckets, lastSweep, now, reply, since, admitted>>

\* lastSweep is the zero time at first, so the first call sweeps.
Init ==
  /\ buckets = [k \in Keys |-> NoBucket]
  /\ lastSweep = 0
  /\ now = SweepEvery
  /\ reply = NoReply
  /\ since = now
  /\ admitted = [k \in Keys |-> 0]

-----------------------------------------------------------------------------
Earned(b) == b.tokens + (now - b.last) * Rate

\* Mutant: the bucket is not capped.
UncappedTokens(b) == Earned(b)

\* The tokens after the refill at the top of allow.
Tokens(b) == IF Earned(b) > Burst THEN Burst ELSE Earned(b)

\* Mutant: buckets are dropped when idle, refilled or not.
IdleSinceUse(b) == now > b.last

\* A bucket the sweep drops.
Refilled(b) == Earned(b) >= Burst

SweepDue == now - lastSweep >= SweepEvery

Swept == [k \in Keys |->
  IF SweepDue /\ buckets[k] # NoBucket /\ Refilled(buckets[k]) THEN NoBucket ELSE buckets[k]]

\* What allow has for the key after its sweep and its refill.
Available(k) == IF Swept[k] = NoBucket THEN Burst ELSE Tokens(Swept[k])

\* allow, and what the middleware makes of its answer.
Answer(k, ok, left) ==
  /\ buckets' = [Swept EXCEPT ![k] = [tokens |-> left, last |-> now]]
  /\ lastSweep' = IF SweepDue THEN now ELSE lastSweep
  /\ reply' = [key |-> k, ok |-> ok]
  /\ UNCHANGED <<now, since>>

\* A client without a bucket is never refused.
Exhausted(k) == Swept[k] # NoBucket /\ Tokens(Swept[k]) < Cost

\* A new client, or one with a token left.
Allow(k) ==
  /\ ~Exhausted(k)
  /\ Answer(k, TRUE, Available(k) - Cost)
  /\ admitted' = [admitted EXCEPT ![k] = @ + 1]

Deny(k) ==
  /\ Exhausted(k)
  /\ Answer(k, FALSE, Available(k))
  /\ UNCHANGED admitted

Tick ==
  /\ now < MaxTime
  /\ now' = now + 1
  /\ reply' = NoReply
  /\ UNCHANGED <<buckets, lastSweep, since, admitted>>

\* The observer starts a new window.
Observe ==
  /\ since' = now
  /\ admitted' = [k \in Keys |-> 0]
  /\ UNCHANGED <<buckets, lastSweep, now, reply>>

Next == Tick \/ Observe \/ \E k \in Keys : Allow(k) \/ Deny(k)

Spec == Init /\ [][Next]_vars

-----------------------------------------------------------------------------
(* Properties.                                                             *)

\* The type invariant: balances stay within the bucket and times in the past.
TypeOK ==
  /\ buckets \in [Keys -> [tokens : 0 .. Burst, last : Nat] \cup {NoBucket}]
  /\ \A k \in Keys : buckets[k] # NoBucket => buckets[k].last <= now
  /\ lastSweep \in Nat /\ now \in Nat /\ since \in Nat
  /\ lastSweep <= now /\ since <= now
  /\ admitted \in [Keys -> Nat]

\* In any window a client is admitted at most its burst plus what the window's
\* length earns, however the sweep and the client's requests are interleaved.
AdmittedBounded ==
  \A k \in Keys : admitted[k] * Cost <= Burst + (now - since) * Rate

\* What a client could spend now.
LevelOf(k) == IF buckets[k] = NoBucket THEN Burst ELSE Tokens(buckets[k])

Bucket == INSTANCE TokenBucket WITH level <- [k \in Keys |-> LevelOf(k)]

\* Refilling late and forgetting "buckets that have fully refilled" is invisible:
\* every answer is the one a continuously refilled bucket would have given.
BucketSpec == Bucket!Spec
=============================================================================
