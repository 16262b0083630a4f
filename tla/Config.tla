-------------------------------- MODULE Config --------------------------------
(***************************************************************************)
(* internal/config and cmd/server/validate.go: from the TON_* environment  *)
(* to a configuration, and the production gates.  An unset variable is     *)
(* None; so is one whose text atoiDef or boolDef cannot parse, which has   *)
(* the same effect.  A set number or boolean is Some(value).  A network's  *)
(* name and a webhook's scheme stand for their upper and lower case        *)
(* spellings, which the code does not tell apart.  Listening address, data *)
(* directory, toncenter's URL and key and the CORS origins are passed on   *)
(* as they are and left out; so are the pending caps, which are constants  *)
(* of InvoiceService.                                                      *)
(*                                                                         *)
(* Durations are int64 nanoseconds.  The word and the second are scaled    *)
(* down together: a product wraps around at the same relative places.      *)
(***************************************************************************)
EXTENDS Integers

CONSTANTS
  Second,              \* nanoseconds in a second (10^9 in the code)
  MaxInt,              \* the largest int64 (2^63 - 1 in the code)
  DefaultTTLSeconds,   \* 900
  MaxTTLSeconds,       \* 86400
  PollSeconds,         \* 10
  PollWorkers          \* 4

ASSUME ConfigAssumption ==
  /\ Second \in Nat \ {0} /\ MaxInt \in Nat
  /\ \A s \in {DefaultTTLSeconds, MaxTTLSeconds, PollSeconds} :
       s \in Nat \ {0} /\ s * Second <= MaxInt
  /\ PollWorkers \in Nat \ {0}

None    == << >>
Some(v) == <<v>>

\* atoiDef and boolDef.
orDefault(text, def) == IF text = None THEN def ELSE text[1]

Ints == -(MaxInt + 1) .. MaxInt

\* Arithmetic on int64 wraps around.
Int64(n) == ((n + MaxInt + 1) % (2 * (MaxInt + 1))) - (MaxInt + 1)

\* time.Duration(n) * time.Second.
Seconds(n) == Int64(n * Second)

-----------------------------------------------------------------------------
Load(env) ==
  [env           |-> IF env.TON_ENV = None THEN "dev" ELSE env.TON_ENV[1],
   databaseURL   |-> env.TON_DATABASE_URL,
   receiving     |-> env.TON_RECEIVING_ADDRESS,
   network       |-> IF env.TON_NETWORK = None THEN "mainnet" ELSE env.TON_NETWORK[1],
   trustProxy    |-> orDefault(env.TON_TRUST_PROXY, FALSE),
   defaultTTL    |-> Seconds(orDefault(env.TON_DEFAULT_TTL_SECONDS, DefaultTTLSeconds)),
   maxTTL        |-> Seconds(orDefault(env.TON_MAX_TTL_SECONDS, MaxTTLSeconds)),
   createKey     |-> env.TON_CREATE_API_KEY,
   pollEnabled   |-> orDefault(env.TON_POLL_ENABLED, TRUE),
   pollInterval  |-> Seconds(orDefault(env.TON_POLL_INTERVAL_SECONDS, PollSeconds)),
   pollWorkers   |-> orDefault(env.TON_POLL_CONCURRENCY, PollWorkers),
   webhookURL    |-> env.TON_WEBHOOK_URL,
   webhookSecret |-> env.TON_WEBHOOK_SECRET]

\* Mutant: only the short name.
IsProdShort(cfg) == cfg.env = "prod"

IsProd(cfg) == cfg.env \in {"prod", "production"}

IsTestnet(cfg) == cfg.network = "testnet"

\* May the process go on?  Only production is gated.
validate(cfg, allowFileStore) ==
  IsProd(cfg) =>
    /\ cfg.receiving # None \/ cfg.createKey # None
    /\ cfg.databaseURL # None \/ allowFileStore
    /\ cfg.webhookURL # None => cfg.webhookSecret # None /\ cfg.webhookURL[1] = "https"
=============================================================================
