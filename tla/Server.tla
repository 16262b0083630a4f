-------------------------------- MODULE Server --------------------------------
(***************************************************************************)
(* One server process from its environment to its answers: main's start-up *)
(* sequence (cmd/server), the middleware and handlers of internal/httpx,   *)
(* and the choice of verifier (internal/wallet).  The pending caps, the    *)
(* memo loop, the settlement's races and the store's failures are those of *)
(* InvoiceService: here a call of the service is one step, with the        *)
(* outcomes a handler can tell apart.  The rate limiter is the TokenBucket *)
(* that RateLimiter implements.                                            *)
(***************************************************************************)
EXTENDS Sequences, FiniteSetsExt, Config, TonAddress

CONSTANTS
  Environments,     \* the environments the process may be started in
  Ids,              \* invoices
  Bodies,           \* POST bodies: payTo, amountNano and ttlSeconds
  ApiKeys,          \* keys a request may present, None included
  Peers,            \* remote addresses of connections
  Forwarded,        \* contents of X-Forwarded-For, None included
  Burst, Rate,      \* the limiter's tokens, and tokens per unit of time
  MockPolls,        \* NewMockVerifier's argument (2 in the code)
  Decimals,         \* decimals of a TON: money.Nano is 10^9
  Sizes,            \* QR sizes asked for, 0 when absent or not a number
  NoInvoice, NoReply,
  MaxElapsed        \* bound: time observed

ASSUME ServerAssumption ==
  /\ Burst \in Nat \ {0} /\ Rate \in Nat /\ MaxElapsed \in Nat
  /\ \A b \in Bodies : b.amount \in Int /\ b.seconds \in Ints
  /\ None \in ApiKeys /\ None \in Forwarded
  /\ MockPolls \in Int /\ Decimals \in 1 .. 9 /\ Sizes \subseteq Int

\* The variables hold what atoiDef can return, and texts.
ASSUME EnvironmentAssumption ==
  /\ \A e \in Environments :
       /\ \A x \in {e.TON_DEFAULT_TTL_SECONDS, e.TON_MAX_TTL_SECONDS,
                    e.TON_POLL_INTERVAL_SECONDS, e.TON_POLL_CONCURRENCY} :
            x = None \/ \E n \in Ints : x = Some(n)
       /\ e.TON_ENV # None => e.TON_ENV = Some(e.TON_ENV[1])
       /\ e.TON_RECEIVING_ADDRESS # None => IsText(e.TON_RECEIVING_ADDRESS[1])
  /\ \A b \in Bodies : b.payTo # None => IsText(b.payTo[1])

VARIABLES
  env,        \* the environment
  phase,      \* how far main has come
  cfg,        \* the configuration, once loaded
  svc,        \* the service and the poller, once wired
  invoices,   \* id -> invoice (and, as history, its request) or NoInvoice
  ledger,     \* the invoices that were really paid, on chain
  polls,      \* MockVerifier.polls
  level,      \* the limiter's balance per client key
  reply,      \* the limiter's answer in this step, if any
  response,   \* the response sent in this step, if any
  elapsed,    \* time since the process started to serve
  work        \* history: per peer, its requests the limiter let through

vars == <<env, phase, cfg, svc, invoices, ledger, polls, level, reply, response,
          elapsed, work>>
startVars  == <<env, phase, cfg, svc>>

Keys == Peers \cup {f[1] : f \in Forwarded \ {None}}

Bucket == INSTANCE TokenBucket WITH Cost <- 1

NoAmount   == [whole |-> 0, digits |-> << >>]
NoResponse == [code |-> 0, key |-> None, view |-> NoInvoice, amount |-> NoAmount, size |-> 0]

Init ==
  /\ env \in Environments
  /\ phase = "load"
  /\ cfg = None /\ svc = None
  /\ invoices = [i \in Ids |-> NoInvoice]
  /\ ledger = {}
  /\ polls = [i \in Ids |-> 0]
  /\ Bucket!Init
  /\ response = NoResponse
  /\ elapsed = 0
  /\ work = [p \in Peers |-> 0]

-----------------------------------------------------------------------------
(* main, up to serving.                                                    *)

Goto(p) == phase' = p
Refuse  == Goto("refused")      \* log.Fatalf

\* What main leaves alone until it serves.
running == <<invoices, ledger, polls, level, reply, work, response, elapsed>>

LoadConfig ==
  /\ phase = "load"
  /\ cfg' = Load(env)
  /\ Goto("validate")
  /\ UNCHANGED <<env, svc, running>>

Validate ==
  /\ phase = "validate"
  /\ IF validate(cfg, env.TON_ALLOW_FILE_STORE) THEN Goto("store") ELSE Refuse
  /\ UNCHANGED <<env, cfg, svc, running>>

\* Postgres or the file store; either may fail to open.
OpenStore ==
  /\ phase = "store"
  /\ Goto("address") \/ Refuse
  /\ UNCHANGED <<env, cfg, svc, running>>

\* Mutant: a bad receiving address is only warned about, in production too.
WarnOnly ==
  /\ phase = "address"
  /\ Goto("wire")
  /\ LET norm == IF cfg.receiving = None THEN Invalid
                 ELSE NormalizeOnNetwork(cfg.receiving[1], IsTestnet(cfg))
     IN  cfg' = [cfg EXCEPT !.receiving = IF norm = Invalid THEN @ ELSE Some(norm)]
  /\ UNCHANGED <<env, svc, running>>

\* The default receiving address is normalized; a bad one is fatal in production
\* and kept as it is elsewhere.
CheckAddress ==
  LET norm == IF cfg.receiving = None THEN Invalid
              ELSE NormalizeOnNetwork(cfg.receiving[1], IsTestnet(cfg))
  IN  /\ phase = "address"
      /\ IF cfg.receiving # None /\ norm = Invalid /\ IsProd(cfg)
         THEN Refuse /\ UNCHANGED cfg
         ELSE /\ Goto("wire")
              /\ cfg' = [cfg EXCEPT !.receiving = IF norm = Invalid THEN @ ELSE Some(norm)]
      /\ UNCHANGED <<env, svc, running>>

\* Mutant: the interval is passed on as it is.
IntervalAsIs(d) == d

\* poller.New's interval,
Interval(d) == IF d <= 0 THEN PollSeconds * Second ELSE d

\* and its concurrency.
Concurrency(n) == IF n < 1 THEN 4 ELSE n

\* service.New and SetLimits, the verifier, the webhook and the poller.
NewService ==
  [verifier    |-> IF IsProd(cfg) THEN "ton" ELSE "mock",
   payTo       |-> cfg.receiving,
   defaultTTL  |-> IF cfg.defaultTTL <= 0 THEN DefaultTTLSeconds * Second ELSE cfg.defaultTTL,
   maxTTL      |-> IF cfg.maxTTL > 0 THEN cfg.maxTTL ELSE MaxTTLSeconds * Second,
   testnet     |-> IsTestnet(cfg),
   webhook     |-> cfg.webhookURL,
   interval    |-> Interval(cfg.pollInterval),
   concurrency |-> Concurrency(cfg.pollWorkers)]

Wire ==
  /\ phase = "wire"
  /\ svc' = Some(NewService)
  /\ Goto("serving")
  /\ UNCHANGED <<env, cfg, running>>

service == svc[1]

-----------------------------------------------------------------------------
(* What the handlers are wrapped in.                                       *)

\* Mutant: the header is always believed.
clientIPForwarded(peer, xff) == IF xff # None THEN xff[1] ELSE peer

clientIP(peer, xff) == IF cfg.trustProxy /\ xff # None THEN xff[1] ELSE peer

Respond(code, key, view, amount, size) ==
  response' = [code |-> code, key |-> key, view |-> view, amount |-> amount, size |-> size]

Error(code, key) == Respond(code, key, NoInvoice, NoAmount, 0)

\* Steps that do not pass the limiter, and steps that answer nobody.
Unlimited == reply' = NoReply /\ UNCHANGED <<level, work>>
Silent    == response' = NoResponse

\* wrap: over the limit the handler does not run.
Admitted(peer, xff) ==
  /\ Bucket!Admit(clientIP(peer, xff))
  /\ work' = [work EXCEPT ![peer] = @ + 1]

Limited(peer, xff, key) ==
  /\ phase = "serving"
  /\ Bucket!Refuse(clientIP(peer, xff))
  /\ Error(429, key)
  /\ UNCHANGED <<startVars, invoices, ledger, polls, elapsed, work>>

\* Mutant: a request without a key is not compared.
authorizedIfMissing(key) == key = None \/ key = cfg.createKey

authorized(key) == cfg.createKey = None \/ key = cfg.createKey

-----------------------------------------------------------------------------
(* What a response shows of an invoice.                                    *)

Nano == 10 ^ Decimals

\* The digits of "%09d" of the fraction.
Padded(n) == [k \in 1 .. Decimals |-> ((n % Nano) \div 10 ^ (Decimals - k)) % 10]

\* The positions of the digits that are not zero.
Significant(n) == {k \in 1 .. Decimals : Padded(n)[k] # 0}

\* Mutant: "%d" instead of "%09d".
Unpadded(n) ==
  [whole  |-> n \div Nano,
   digits |-> IF n % Nano = 0 THEN << >>
              ELSE SubSeq(Padded(n), Min(Significant(n)), Max(Significant(n)))]

\* A positive amount as text: the whole TON, and the fraction's digits with the
\* trailing zeros, and then an idle point, trimmed.
NanoToTONString(n) ==
  [whole  |-> n \div Nano,
   digits |-> IF n % Nano = 0 THEN << >> ELSE SubSeq(Padded(n), 1, Max(Significant(n)))]

invoiceView(key, code, inv) == Respond(code, key, inv, NanoToTONString(inv.amount), 0)

\* deeplink.PNG's size in pixels.
PNGSize(size) == CASE size < 64 -> 256 [] size > 1024 -> 1024 [] OTHER -> size

-----------------------------------------------------------------------------
(* CreateInvoice.                                                          *)

\* Mutant: the cap is compared with the seconds.
LifetimeUncapped(seconds) ==
  IF Seconds(seconds) <= 0 THEN service.defaultTTL
  ELSE IF seconds > service.maxTTL THEN service.maxTTL ELSE Seconds(seconds)

\* The handler's product, which may wrap around, then CreateInvoice's limits.
Lifetime(seconds) ==
  LET ttl == IF Seconds(seconds) <= 0 THEN service.defaultTTL ELSE Seconds(seconds)
  IN  Min({ttl, service.maxTTL})

\* The receiving address: the request's, checked, or else the default.
Receiver(payTo) ==
  IF payTo # None THEN NormalizeOnNetwork(payTo[1], service.testnet)
  ELSE IF service.payTo # None THEN service.payTo[1]
  ELSE Invalid

NewInvoice(body) ==
  [payTo |-> Receiver(body.payTo), amount |-> body.amount,
   lifetime |-> Lifetime(body.seconds), status |-> "pending", body |-> body]

\* The handler runs: no key, a request that is not stored, or a new invoice.  Any
\* request may be refused: bad JSON, metadata over its bounds, a cap that is
\* reached, a store or an entropy source that fails; a panic is answered by
\* recoverMW.
createInvoice(peer, xff, key, i, body) ==
  /\ phase = "serving"
  /\ Admitted(peer, xff)
  /\ \/ /\ ~authorized(key)
        /\ Error(401, key)
        /\ UNCHANGED invoices
     \/ /\ authorized(key)
        /\ \E code \in {400, 500} : Error(code, key)
        /\ UNCHANGED invoices
     \/ /\ authorized(key)
        /\ body.amount > 0 /\ Receiver(body.payTo) # Invalid
        /\ invoices[i] = NoInvoice
        /\ invoices' = [invoices EXCEPT ![i] = NewInvoice(body)]
        /\ invoiceView(key, 201, invoices'[i])
  /\ UNCHANGED <<startVars, ledger, polls, elapsed>>

-----------------------------------------------------------------------------
(* Reading and checking.                                                   *)

\* auth, then the lookup, which reports a failed query as "not found".
Outcomes(key, i, mayFail) ==
  IF ~authorized(key) THEN {401}
  ELSE IF invoices[i] = NoInvoice THEN {404}
  ELSE {200} \cup (IF mayFail THEN {404} ELSE {})

MayMiss == cfg.databaseURL # None

\* GetInvoice and its picture, behind auth and not limited.
getInvoice(key, i) ==
  /\ phase = "serving"
  /\ \E code \in Outcomes(key, i, MayMiss) :
       IF code = 200 THEN invoiceView(key, 200, invoices[i]) ELSE Error(code, key)
  /\ Unlimited
  /\ UNCHANGED <<startVars, invoices, ledger, polls, elapsed>>

invoiceQR(key, i, size) ==
  /\ phase = "serving"
  /\ \E code \in Outcomes(key, i, MayMiss) :
       IF code = 200
       THEN Respond(200, key, invoices[i], NoAmount, PNGSize(size)) \/ Error(500, key)
       ELSE Error(code, key)
  /\ Unlimited
  /\ UNCHANGED <<startVars, invoices, ledger, polls, elapsed>>

healthz ==
  /\ phase = "serving"
  /\ Error(200, None)
  /\ Unlimited
  /\ UNCHANGED <<startVars, invoices, ledger, polls, elapsed>>

MockAfter == IF MockPolls < 1 THEN 1 ELSE MockPolls

\* MockVerifier.Verify counts its calls; the real verifier reads the ledger, and
\* its failure counts as unpaid.
Verdict(i) ==
  IF service.verifier = "mock"
  THEN IF polls[i] + 1 >= MockAfter THEN {"paid"} ELSE {"unpaid"}
  ELSE IF i \in ledger THEN {"paid", "unpaid"} ELSE {"unpaid"}

\* Counted up to the threshold, past which a higher count changes nothing.
Counted(i) ==
  IF service.verifier = "mock" THEN [polls EXCEPT ![i] = Min({@ + 1, MockAfter})] ELSE polls

\* CheckStatus of a pending invoice: paid, expired because it is overdue, or left,
\* as it is when the store fails.
Checked(i) ==
  \E verdict \in Verdict(i) :
    /\ polls' = Counted(i)
    /\ \E status \in {"pending", IF verdict = "paid" THEN "paid" ELSE "expired"} :
         invoices' = [invoices EXCEPT ![i].status = status]

IsPending(i) == invoices[i] # NoInvoice /\ invoices[i].status = "pending"

\* Mutant: the check runs before the key is asked for.
invoiceStatusUnasked(peer, xff, key, i) ==
  /\ phase = "serving"
  /\ Admitted(peer, xff)
  /\ IF IsPending(i) THEN Checked(i) ELSE UNCHANGED <<invoices, polls>>
  /\ \E code \in Outcomes(key, i, MayMiss \/ IsPending(i)) :
       IF code = 200 THEN invoiceView(key, 200, invoices'[i]) ELSE Error(code, key)
  /\ UNCHANGED <<startVars, ledger, elapsed>>

\* The status endpoint; an invoice that is not pending is only read.  Any error
\* of CheckStatus is "not found".
invoiceStatus(peer, xff, key, i) ==
  /\ phase = "serving"
  /\ Admitted(peer, xff)
  /\ IF authorized(key) /\ IsPending(i)
     THEN Checked(i) ELSE UNCHANGED <<invoices, polls>>
  /\ \E code \in Outcomes(key, i, MayMiss \/ IsPending(i)) :
       IF code = 200 THEN invoiceView(key, 200, invoices'[i]) ELSE Error(code, key)
  /\ UNCHANGED <<startVars, ledger, elapsed>>

\* The poller, when it is enabled, checks a pending invoice.
Poll(i) ==
  /\ phase = "serving" /\ cfg.pollEnabled
  /\ IsPending(i)
  /\ Checked(i)
  /\ Unlimited /\ Silent
  /\ UNCHANGED <<startVars, ledger, elapsed>>

-----------------------------------------------------------------------------
(* Environment.                                                            *)

Pay(i) ==
  /\ invoices[i] # NoInvoice
  /\ i \notin ledger
  /\ ledger' = ledger \cup {i}
  /\ Unlimited /\ Silent
  /\ UNCHANGED <<startVars, invoices, polls, elapsed>>

Tick ==
  /\ phase = "serving" /\ elapsed < MaxElapsed
  /\ elapsed' = elapsed + 1
  /\ Bucket!Refill
  /\ Silent
  /\ UNCHANGED <<startVars, invoices, ledger, polls, work>>

-----------------------------------------------------------------------------
StartUp == LoadConfig \/ Validate \/ OpenStore \/ CheckAddress \/ Wire

Request ==
  \/ healthz
  \/ \E key \in ApiKeys :
       \/ \E i \in Ids : getInvoice(key, i)
       \/ \E i \in Ids, size \in Sizes : invoiceQR(key, i, size)
       \/ \E peer \in Peers, xff \in Forwarded :
            \/ Limited(peer, xff, key)
            \/ \E i \in Ids : invoiceStatus(peer, xff, key, i)
            \/ \E i \in Ids, body \in Bodies : createInvoice(peer, xff, key, i, body)

Next ==
  \/ StartUp
  \/ Request
  \/ \E i \in Ids : Poll(i) \/ Pay(i)
  \/ Tick

Spec == Init /\ [][Next]_vars

-----------------------------------------------------------------------------
(* Properties.                                                             *)

Prod == env.TON_ENV \in {Some("prod"), Some("production")}
Stored == {i \in Ids : invoices[i] # NoInvoice}

\* Whatever numbers the environment holds, junk, negative ones and ones whose
\* nanoseconds do not fit an int64 included, the poller's ticker, its slots and
\* the lifetimes are wired with values they can run with.
WiringSane ==
  phase = "serving" =>
    /\ service.defaultTTL > 0 /\ service.maxTTL > 0
    /\ service.interval > 0 /\ service.concurrency >= 1

\* main.go:67 "we must never fall back to the mock (which auto-confirms payments)
\* in prod": a production server calls an invoice paid only if it was.
ProdPaidMeansPaid ==
  Prod => \A i \in Stored : invoices[i].status = "paid" => i \in ledger

\* tonaddr.go:10 "a receiving address pasted in the wrong form, or with a corrupted
\* checksum, must be rejected at the boundary": every address a production server
\* puts into an invoice comes from a well-formed text and names the account that
\* text named; and on mainnet the server accepts it back and stores the very same
\* text, so that one uniqueness key stands for it.
ProdAddressesCanonical ==
  Prod => \A i \in Stored :
    LET inv == invoices[i]
        named == IF inv.body.payTo # None THEN inv.body.payTo[1] ELSE env.TON_RECEIVING_ADDRESS[1]
    IN  /\ {named, inv.payTo} \subseteq Spellings
        /\ Account(inv.payTo) = Account(named)
        /\ ~service.testnet => NormalizeOnNetwork(inv.payTo, FALSE) = inv.payTo

\* A lifetime is positive and within the cap, although the handler's product can
\* wrap around and the cap and the default come from the environment; one that
\* does not wrap is what was asked for, up to the cap.
LifetimeWithinCap ==
  \A i \in Stored :
    LET inv   == invoices[i]
        asked == inv.body.seconds * Second
    IN  /\ 0 < inv.lifetime /\ inv.lifetime <= service.maxTTL
        /\ 0 < asked /\ asked <= MaxInt => inv.lifetime = Min({asked, service.maxTTL})

\* What a reader makes of an amount: the fraction's digits are taken one after the
\* other, and the places that are not written count as zeros.
ReadBack(text) ==
  LET total[k \in 0 .. Len(text.digits)] ==
        IF k = 0 THEN text.whole ELSE 10 * total[k - 1] + text.digits[k]
  IN  total[Len(text.digits)] * 10 ^ (Decimals - Len(text.digits))

\* The amount in words is the amount to pay (NanoToTONString pads, then trims), in
\* every response that shows an invoice but for its picture.
AmountReadsBack ==
  response.view # NoInvoice /\ response.size = 0 =>
    response.view.amount = ReadBack(response.amount)

\* With a key configured, nobody learns of an invoice without presenting it:
\* server.go:53 "an invoice ID is an unguessable token, not an authorization".
KeyGuardsInvoices ==
  response.view # NoInvoice /\ cfg.createKey # None => response.key = cfg.createKey

\* server.go:55 "no unauthenticated, status-triggered toncenter round-trips": a
\* request that is over the limit or does not present the key creates, settles and
\* expires nothing, and does not even count as a poll of the mock.
RefusedHasNoEffect ==
  [][response'.code \in {401, 429} => UNCHANGED <<invoices, polls, ledger>>]_vars

\* middleware.go:165 "a directly-reachable server must not let any client forge the
\* header to mint a fresh rate-limit bucket per request": without a trusted proxy
\* a peer's admitted requests stay within its burst and what time has earned it.
WorkPerPeerBounded ==
  phase = "serving" /\ ~cfg.trustProxy =>
    \A p \in Peers : work[p] <= Burst + elapsed * Rate
=============================================================================
