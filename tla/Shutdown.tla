------------------------------- MODULE Shutdown -------------------------------
(***************************************************************************)
(* The goroutines of one server process from serving to exit: main's       *)
(* shutdown sequence (cmd/server/main.go), the poller's loop and its sweep *)
(* (internal/poller), status requests, and webhook deliveries              *)
(* (internal/webhook).  CheckStatus is reduced to what the others see of   *)
(* it: a read, the verdict, and an expiry or a claim followed by Fire, each*)
(* store call a step with a connection of the pool from its beginning to   *)
(* its end; InvoiceService has the whole of it.                            *)
(*                                                                         *)
(* Durations are left out: a time limit may run out at any moment.         *)
(***************************************************************************)
EXTENDS Naturals, FiniteSets

CONSTANTS
  Ids,            \* invoices, pending in the store when the process starts
  Workers,        \* the poller's slots: its semaphore's capacity
  Handlers,       \* concurrent status requests
  Retries,        \* delivery attempts (5 in the code)
  MaxDeliveries,  \* the delivery semaphore's capacity (32 in the code)
  PollEnabled,    \* TON_POLL_ENABLED
  UsesPostgres,   \* a connection pool to close, and a database others use too
  NoId

ASSUME ShutdownAssumption ==
  /\ Retries \in Nat \ {0} /\ MaxDeliveries \in Nat \ {0}
  /\ PollEnabled \in BOOLEAN /\ UsesPostgres \in BOOLEAN
  /\ Workers \cap Handlers = {} /\ NoId \notin Ids

VARIABLES
  main,       \* where main is in its shutdown sequence
  timedOut,   \* which of main's two time limits ran out: "server", "drain"
  quiet,      \* history: had the poller stopped when main began to drain?
  cancelled,  \* pollCtx
  poller,     \* "wait" in Run's select, "list" and "sweep" in tick, "stopped"
  todo,       \* the invoices tick has not handed to a worker yet
  go,         \* per worker and handler: its place in CheckStatus and its id
  status,     \* the stored status
  won,        \* history: the invoices whose claim was answered with "claimed"
  store,      \* "open", or "closed" once the pool takes no more calls
  delivery,   \* per invoice: where its delivery goroutine is, and its attempts
  sem,        \* the deliveries that hold a place in Sender.sem
  received    \* how many times the receiver got the invoice

vars == <<main, timedOut, quiet, cancelled, poller, todo, go, status, won, store,
          delivery, sem, received>>
mainVars     == <<main, timedOut, quiet, cancelled, store>>
pollerVars   == <<poller, todo>>
settledVars  == <<status, won>>
deliveryVars == <<delivery, sem, received>>

Idle      == [pc |-> "idle", id |-> NoId]
Active(g) == go[g] # Idle
Alive     == main # "exited"

Init ==
  /\ main = "serving"
  /\ timedOut = {}
  /\ quiet = FALSE
  /\ cancelled = FALSE
  /\ poller = IF PollEnabled THEN "wait" ELSE "stopped"
  /\ todo = {}
  /\ go = [g \in Workers \cup Handlers |-> Idle]
  /\ status = [i \in Ids |-> "pending"]
  /\ won = {}
  /\ store = "open"
  /\ delivery = [i \in Ids |-> [pc |-> "none", tries |-> 0]]
  /\ sem = {}
  /\ received = [i \in Ids |-> 0]

-----------------------------------------------------------------------------
(* The poller.                                                             *)

\* What ListPending returns: a failed query is an empty list, and a connection
\* lost between two rows just ends the list early (rows.Err is not consulted).
Listed ==
  LET pending == {i \in Ids : status[i] = "pending"}
  IN  IF UsesPostgres THEN SUBSET pending ELSE {pending}

\* The ticker fires, also when the context is already cancelled: select picks
\* any ready case.  tick calls ListPending, which a closed pool refuses.
Tick ==
  /\ Alive /\ poller = "wait" /\ store = "open"
  /\ poller' = "list"
  /\ UNCHANGED <<mainVars, todo, go, settledVars, deliveryVars>>

\* ListPending returns, and tick with it if there is nothing to do.
List ==
  /\ Alive /\ poller = "list"
  /\ todo' \in Listed
  /\ poller' = IF todo' = {} THEN "wait" ELSE "sweep"
  /\ UNCHANGED <<mainVars, go, settledVars, deliveryVars>>

\* CheckStatus begins with a read; a closed pool answers "not found" at once.
Begun(i) == IF store = "open" THEN [pc |-> "read", id |-> i] ELSE Idle

\* A place in tick's semaphore: a goroutine for the next invoice.
Spawn(w) ==
  /\ Alive /\ poller = "sweep" /\ ~Active(w)
  /\ \E i \in todo :
       /\ go' = [go EXCEPT ![w] = Begun(i)]
       /\ todo' = todo \ {i}
  /\ UNCHANGED <<mainVars, poller, settledVars, deliveryVars>>

\* tick sees the cancellation before its next semaphore place.
Abandon ==
  /\ Alive /\ poller = "sweep" /\ cancelled
  /\ todo # {}
  /\ todo' = {}
  /\ UNCHANGED <<mainVars, poller, go, settledVars, deliveryVars>>

\* Mutant: tick returns without waiting for its goroutines.
JoinNobody ==
  /\ Alive /\ poller = "sweep" /\ todo = {}
  /\ poller' = "wait"
  /\ UNCHANGED <<mainVars, todo, go, settledVars, deliveryVars>>

\* wg.Wait, on both ways out of tick.
Join ==
  /\ Alive /\ poller = "sweep" /\ todo = {}
  /\ \A w \in Workers : ~Active(w)
  /\ poller' = "wait"
  /\ UNCHANGED <<mainVars, todo, go, settledVars, deliveryVars>>

PollerStops ==
  /\ Alive /\ poller = "wait" /\ cancelled
  /\ poller' = "stopped"
  /\ UNCHANGED <<mainVars, todo, go, settledVars, deliveryVars>>

-----------------------------------------------------------------------------
(* CheckStatus, in a worker or in a request's handler.                     *)

\* Requests begin until srv.Shutdown has seen every connection idle, and when its
\* time limit ran out first, on the connections it left.
Accepts ==
  main \in {"serving", "signalled", "stopping"} \/ (Alive /\ "server" \in timedOut)

Request(h, i) ==
  /\ Accepts /\ ~Active(h)
  /\ go' = [go EXCEPT ![h] = Begun(i)]
  /\ UNCHANGED <<mainVars, pollerVars, settledVars, deliveryVars>>

\* Mutant: a worker's place in the semaphore is never given back.
LeakSlot(g) ==
  go' = [go EXCEPT ![g] = IF g \in Workers THEN [pc |-> "gone", id |-> NoId] ELSE Idle]

\* The goroutine ends: its semaphore place and its WaitGroup count go with it.
Finish(g) == go' = [go EXCEPT ![g] = Idle]

\* The next store call, refused if the pool is closed.
CallStore(g, call) ==
  go' = [go EXCEPT ![g] = IF store = "open" THEN [@ EXCEPT !.pc = call] ELSE Idle]

\* The first GetInvoice: a terminal invoice, or a read that fails, ends the call.
Read(g) ==
  /\ Alive /\ go[g].pc = "read"
  /\ \/ status[go[g].id] = "pending" /\ go' = [go EXCEPT ![g].pc = "verify"]
     \/ (status[go[g].id] # "pending" \/ UsesPostgres) /\ Finish(g)
  /\ UNCHANGED <<mainVars, pollerVars, settledVars, deliveryVars>>

\* The verifier's answer and the deadline.
Verify(g, verdict) ==
  /\ Alive /\ go[g].pc = "verify"
  /\ CASE verdict = "unpaid"  -> Finish(g)
       [] verdict = "overdue" -> CallStore(g, "expire")
       [] verdict = "paid"    -> CallStore(g, "claim")
  /\ UNCHANGED <<mainVars, pollerVars, settledVars, deliveryVars>>

\* An invoice's new status, if the guarded update finds it pending.
Updated(i, to) == IF status[i] = "pending" THEN [status EXCEPT ![i] = to] ELSE status

\* The statuses after an update that answered with an error: it had no effect or,
\* with PostgreSQL, it committed and its reply was lost.
Failed(i, to) == {status} \cup (IF UsesPostgres THEN {Updated(i, to)} ELSE {})

\* expire: whatever the answer is, the call ends.
Expire(g, reply) ==
  /\ Alive /\ go[g].pc = "expire"
  /\ status' \in IF reply = "error" THEN Failed(go[g].id, "expired")
                 ELSE {Updated(go[g].id, "expired")}
  /\ Finish(g)
  /\ UNCHANGED <<mainVars, pollerVars, won, deliveryVars>>

\* settle's error return.
ClaimFails(g) ==
  /\ status' \in Failed(go[g].id, "paid")
  /\ Finish(g)
  /\ UNCHANGED won

ClaimWins(g) ==
  /\ status' = [status EXCEPT ![go[g].id] = "paid"]
  /\ won' = won \cup {go[g].id}
  /\ go' = [go EXCEPT ![g].pc = "fire"]

\* Mutant: the claim does not ask whether the invoice is still pending.
ClaimAnyway(g, reply) ==
  /\ Alive /\ go[g].pc = "claim"
  /\ CASE reply = "ok"    -> ClaimWins(g)
       [] reply = "no"    -> FALSE
       [] reply = "error" -> ClaimFails(g)
  /\ UNCHANGED <<mainVars, pollerVars, deliveryVars>>

\* The mutex, the re-read under it and settle's claim, with the read after a lost
\* race: the claim wins and Fire follows, or the call ends because somebody else was
\* first or the store answers with an error.
Claim(g, reply) ==
  /\ Alive /\ go[g].pc = "claim"
  /\ CASE reply = "ok"    -> status[go[g].id] = "pending" /\ ClaimWins(g)
       [] reply = "no"    -> /\ status[go[g].id] # "pending"
                             /\ Finish(g)
                             /\ UNCHANGED settledVars
       [] reply = "error" -> ClaimFails(g)
  /\ UNCHANGED <<mainVars, pollerVars, deliveryVars>>

\* Fire: count the delivery in the WaitGroup and start its goroutine.
Fire(g) ==
  /\ Alive /\ go[g].pc = "fire"
  /\ delivery' = [delivery EXCEPT ![go[g].id].pc = "queued"]
  /\ Finish(g)
  /\ UNCHANGED <<mainVars, pollerVars, settledVars, sem, received>>

\* The database executes an update of another process, or a late one of this
\* process whose caller was told of an error before.
Elsewhere(i, to) ==
  /\ Alive /\ UsesPostgres /\ status[i] = "pending"
  /\ status' = Updated(i, to)
  /\ UNCHANGED <<mainVars, pollerVars, go, won, deliveryVars>>

-----------------------------------------------------------------------------
(* Deliveries.                                                             *)

Acquire(i) ==
  /\ Alive /\ delivery[i].pc = "queued"
  /\ Cardinality(sem) < MaxDeliveries
  /\ sem' = sem \cup {i}
  /\ delivery' = [delivery EXCEPT ![i].pc = "sending"]
  /\ UNCHANGED <<mainVars, pollerVars, go, settledVars, received>>

\* Mutants: one attempt too many, and a place in sem that is not given back.
OneMoreTry(i, delivered) ==
  LET tries == delivery[i].tries + 1
      last  == delivered \/ delivery[i].tries = Retries
  IN  /\ delivery' = [delivery EXCEPT ![i] =
                        [pc |-> IF last THEN "ended" ELSE "sending", tries |-> tries]]
      /\ sem' = IF last THEN sem \ {i} ELSE sem
KeepPlace(i, delivered) ==
  LET tries == delivery[i].tries + 1
      last  == delivered \/ tries = Retries
  IN  /\ delivery' = [delivery EXCEPT ![i] =
                        [pc |-> IF last THEN "ended" ELSE "sending", tries |-> tries]]
      /\ UNCHANGED sem

\* After an attempt: return if it was acknowledged or the last one (giving back
\* the place in sem and the WaitGroup count), else back off and try again.
AfterTry(i, delivered) ==
  LET tries == delivery[i].tries + 1
      last  == delivered \/ tries = Retries
  IN  /\ delivery' = [delivery EXCEPT ![i] =
                        [pc |-> IF last THEN "ended" ELSE "sending", tries |-> tries]]
      /\ sem' = IF last THEN sem \ {i} ELSE sem

\* One attempt.  The receiver may get the request although the reply is lost.
Attempt(i, arrives, acknowledged) ==
  /\ Alive /\ delivery[i].pc = "sending"
  /\ acknowledged => arrives
  /\ received' = [received EXCEPT ![i] = @ + IF arrives THEN 1 ELSE 0]
  /\ AfterTry(i, acknowledged)
  /\ UNCHANGED <<mainVars, pollerVars, go, settledVars>>

-----------------------------------------------------------------------------
(* main.                                                                   *)

\* The signal arrives and main stops the poller, without waiting for it.
Signal ==
  /\ main = "serving"
  /\ main' = "signalled"
  /\ cancelled' = TRUE
  /\ UNCHANGED <<timedOut, quiet, store, pollerVars, go, settledVars, deliveryVars>>

\* srv.Shutdown closes the listeners and begins to wait for the handlers.
StopServer ==
  /\ main = "signalled"
  /\ main' = "stopping"
  /\ UNCHANGED <<timedOut, quiet, cancelled, store, pollerVars, go, settledVars, deliveryVars>>

\* Mutant: no wait for the handlers.
AnyHandlers == TRUE

NoHandlers == \A h \in Handlers : ~Active(h)

\* Handlers are gone, or 10 s are over.
ServerStopped ==
  /\ main = "stopping"
  /\ main' = "draining"
  /\ \/ NoHandlers /\ UNCHANGED timedOut
     \/ timedOut' = timedOut \cup {"server"}
  /\ quiet' = (poller = "stopped")
  /\ UNCHANGED <<cancelled, store, pollerVars, go, settledVars, deliveryVars>>

\* The counter of Sender.wg is zero.
NoDeliveries == \A i \in Ids : delivery[i].pc \in {"none", "ended"}

\* Mutant: the wait for the deliveries has no time limit.
DrainedOnly ==
  /\ main = "draining" /\ NoDeliveries
  /\ main' = "closing"
  /\ UNCHANGED <<timedOut, quiet, cancelled, store, pollerVars, go, settledVars, deliveryVars>>

\* Sender.Wait has returned, or 5 s are over.
Drained ==
  /\ main = "draining"
  /\ main' = "closing"
  /\ \/ NoDeliveries /\ UNCHANGED timedOut
     \/ timedOut' = timedOut \cup {"drain"}
  /\ UNCHANGED <<quiet, cancelled, store, pollerVars, go, settledVars, deliveryVars>>

\* pgxpool's Close refuses further calls and begins to wait for those under way.
ClosePool ==
  /\ main = "closing"
  /\ main' = "releasing"
  /\ store' = IF UsesPostgres THEN "closed" ELSE store
  /\ UNCHANGED <<timedOut, quiet, cancelled, pollerVars, go, settledVars, deliveryVars>>

\* A goroutine inside a store call, or the poller inside ListPending, has a
\* connection.
InStore(g) == go[g].pc \in {"read", "claim", "expire"}
Released == UsesPostgres => poller # "list" /\ \A g \in Workers \cup Handlers : ~InStore(g)

\* Close has all connections back and main returns: whatever still runs is gone.
Exit ==
  /\ main = "releasing" /\ Released
  /\ main' = "exited"
  /\ UNCHANGED <<timedOut, quiet, cancelled, store, pollerVars, go, settledVars, deliveryVars>>

-----------------------------------------------------------------------------
Verdicts == {"unpaid", "overdue", "paid"}
Replies  == {"ok", "no", "error"}

\* The end of a store call.
StoreStep(g) == Read(g) \/ \E r \in Replies : Expire(g, r) \/ Claim(g, r)

CallStep(g) == StoreStep(g) \/ (\E v \in Verdicts : Verify(g, v)) \/ Fire(g)

DeliveryStep(i) ==
  Acquire(i) \/ \E arrives, acknowledged \in BOOLEAN : Attempt(i, arrives, acknowledged)

MainStep == StopServer \/ ServerStopped \/ Drained \/ ClosePool \/ Exit

PollerStep == Tick \/ List \/ (\E w \in Workers : Spawn(w)) \/ Abandon \/ Join \/ PollerStops

Next ==
  \/ Signal \/ MainStep
  \/ PollerStep
  \/ \E h \in Handlers, i \in Ids : Request(h, i)
  \/ \E g \in Workers \cup Handlers : CallStep(g)
  \/ \E i \in Ids : DeliveryStep(i) \/ \E to \in {"paid", "expired"} : Elsewhere(i, to)

Spec == Init /\ [][Next]_vars

\* A store call under way ends: each is bounded by its context (postgres.go:50).
StoreReturns == List \/ \E g \in Workers \cup Handlers : StoreStep(g)

\* main runs and its two time limits run out; the wait for the pool has none of its
\* own and needs the store calls to end.  Nothing is assumed of anyone else.
ExitFair == Spec /\ WF_vars(MainStep) /\ WF_vars(StoreReturns)

\* The goroutines of the poller run, and their verifier and store calls are
\* bounded by timeouts; the lists are not always cut short before the same row.
PollerFairness ==
  /\ WF_vars(PollerStep)
  /\ \A w \in Workers : WF_vars(CallStep(w))
  /\ \A i \in Ids : SF_vars(List /\ i \in todo')

\* A delivery runs, each attempt bounded by the client's timeout, and a goroutine
\* blocked on the semaphore's channel is served in turn.
DeliveryFairness == \A i \in Ids : WF_vars(DeliveryStep(i)) /\ SF_vars(Acquire(i))

-----------------------------------------------------------------------------
(* Properties.                                                             *)

\* The type invariant of the process.
TypeOK ==
  /\ main \in {"serving", "signalled", "stopping", "draining", "closing",
               "releasing", "exited"}
  /\ timedOut \subseteq {"server", "drain"} /\ quiet \in BOOLEAN /\ cancelled \in BOOLEAN
  /\ poller \in {"wait", "list", "sweep", "stopped"}
  /\ todo \subseteq Ids
  /\ go \in [Workers \cup Handlers ->
               [pc : {"read", "verify", "claim", "expire", "fire"}, id : Ids] \cup {Idle}]
  /\ status \in [Ids -> {"pending", "paid", "expired"}]
  /\ won \subseteq Ids
  /\ store \in {"open", "closed"}
  /\ delivery \in [Ids -> [pc : {"none", "queued", "sending", "ended"}, tries : 0 .. Retries]]
  /\ sem \subseteq Ids
  /\ received \in [Ids -> 0 .. Retries]

\* The poller never has two workers on one invoice, since a sweep ends only when
\* its workers have, and a stopped poller has no workers left, whichever way the
\* cancelled sweep was left.
SweepsDoNotOverlap ==
  /\ \A v, w \in Workers : Active(v) /\ v # w => go[v].id # go[w].id
  /\ poller # "sweep" => \A w \in Workers : ~Active(w)

\* The receiver hears of an invoice only if it is paid, at most Retries times,
\* and a delivery that ended unheard used up its retries; sem's places are held
\* exactly by the deliveries that are sending.
DeliveriesAccounted ==
  /\ \A i \in Ids :
       /\ received[i] <= delivery[i].tries /\ delivery[i].tries <= Retries
       /\ delivery[i].pc # "none" => status[i] = "paid"
       /\ delivery[i].pc = "ended" /\ received[i] = 0 => delivery[i].tries = Retries
  /\ sem = {i \in Ids : delivery[i].pc = "sending"}

\* The invoices this process has to announce: those whose claim it was told it won.
\* In memory these are all paid ones; with PostgreSQL an invoice may also be paid by
\* another process, or by a claim of this one whose reply was lost.
Owed == {i \in Ids : status[i] = "paid" /\ (UsesPostgres => i \in won)}

\* Between its claim and its delivery an invoice that is owed a webhook is with one
\* goroutine, a worker or a handler, and at no other time with any: requests and
\* sweeps that race for an invoice, with each other and with other processes, start
\* one delivery, whichever of them wins and however long it waits between settle's
\* claim and Fire.
OneNotifier ==
  \A i \in Ids :
    Cardinality({g \in Workers \cup Handlers : go[g].pc = "fire" /\ go[g].id = i}) =
      IF i \in Owed /\ delivery[i].pc = "none" THEN 1 ELSE 0

\* A shutdown that ran into no time limit, after the poller's last sweep, has
\* finished every delivery: no invoice that is owed a webhook is left with it
\* unfired, waiting or half tried.
DrainLosesNothing ==
  main = "exited" /\ timedOut = {} /\ quiet =>
    \A i \in Owed : delivery[i].pc = "ended"

\* Once the signal has arrived the process exits, however slow the verifier and the
\* webhook's receiver are and although the pool's Close waits for calls under way:
\* none begins behind it.
ShutdownTerminates == main = "signalled" ~> main = "exited"

\* A fired webhook is delivered or given up, unless the process exits first: a
\* delivery never waits for ever for its place in sem.
DeliveriesEnd ==
  DeliveryFairness => \A i \in Ids :
    delivery[i].pc # "none" ~> delivery[i].pc = "ended" \/ ~Alive

\* Every pending invoice is looked at again until it is settled or expired, or
\* the process is told to stop: tick leaves none out and its slots come back,
\* whatever the requests and the webhook's receiver do meanwhile.
PendingRechecked ==
  PollerFairness => \A i \in Ids :
    status[i] = "pending" ~>
      \/ \E w \in Workers : go[w].id = i
      \/ status[i] # "pending" \/ cancelled

-----------------------------------------------------------------------------
(* What the repository's documents say and the code does not keep.         *)

\* main.go:124 "Drain in-flight webhooks": main does not wait for the poller, so
\* a sweep that is still going can settle an invoice behind the drain.
DrainCoversSettled ==
  main = "exited" /\ timedOut = {} => \A i \in Owed : delivery[i].pc = "ended"
=============================================================================
