---------------------------- MODULE ShutdownProofs ----------------------------
(***************************************************************************)
(* Proofs about Shutdown, for any number of invoices, workers, handlers and*)
(* retries: sweeps do not overlap, deliveries are accounted for, and an    *)
(* undisturbed shutdown loses none of them.                                *)
(***************************************************************************)
EXTENDS Shutdown, FiniteSetTheorems, TLAPS

Goroutines == Workers \cup Handlers

\* A sweep's invoices are each with one worker, or still to be handed out; outside
\* a sweep there are neither.
SweepOK ==
  /\ SweepsDoNotOverlap
  /\ poller # "sweep" => todo = {}
  /\ \A w \in Workers : Active(w) => go[w].id \notin todo

\* An invoice whose claim was won is paid; until its delivery begins, one that is
\* owed a webhook is with one goroutine, the one whose claim won.
FireOK ==
  /\ \A i \in won : status[i] = "paid"
  /\ \A g \in Goroutines : go[g].pc = "fire" =>
       go[g].id \in won /\ delivery[go[g].id].pc = "none"
  /\ \A g, h \in Goroutines :
       go[g].pc = "fire" /\ go[h].pc = "fire" /\ go[g].id = go[h].id => g = h
  /\ \A i \in Owed : delivery[i].pc = "none" =>
       \E g \in Goroutines : go[g].pc = "fire" /\ go[g].id = i

\* Attempts are counted from none, and a delivery that is sending has one left.
DeliveryOK ==
  /\ DeliveriesAccounted
  /\ \A i \in Ids :
       /\ delivery[i].pc \in {"none", "queued"} => delivery[i].tries = 0
       /\ delivery[i].pc = "sending" => delivery[i].tries < Retries

\* No more deliveries are sending than sem has places.
SemBounded == IsFiniteSet(sem) /\ Cardinality(sem) <= MaxDeliveries

\* What main has waited for stays gone: a stopped poller, the handlers once no
\* connection is left to begin one on and, with both gone, the deliveries.
DrainOK ==
  /\ quiet => poller = "stopped"
  /\ main \in {"draining", "closing", "releasing", "exited"} /\ "server" \notin timedOut =>
       NoHandlers
  /\ main \in {"closing", "releasing", "exited"} /\ timedOut = {} /\ quiet => NoDeliveries

\* The inductive invariant.
IInv ==
  /\ TypeOK
  /\ SweepOK
  /\ FireOK
  /\ DeliveryOK
  /\ SemBounded
  /\ DrainOK

-----------------------------------------------------------------------------
(* Goroutines.                                                             *)

Calling == {"read", "verify", "claim", "expire"}
Running == Calling \cup {"fire"}

LEMMA GoTyped ==
  ASSUME TypeOK, NEW g \in Goroutines
  PROVE  /\ Active(g) <=> go[g].pc \in Running
         /\ Active(g) => /\ go[g] \in [pc : Running, id : Ids]
                         /\ go[g].id \in Ids
         /\ ~Active(g) => go[g].pc = "idle"
<1>1. go[g] \in [pc : Running, id : Ids] \cup {Idle}
  BY DEF TypeOK, Goroutines, Running, Calling
<1>2. CASE go[g] = Idle
  BY <1>2 DEF Idle, Active, Running, Calling
<1>3. CASE go[g] \in [pc : Running, id : Ids]
  <2>1. go[g].pc \in Running /\ go[g].id \in Ids
    BY <1>3
  <2>2. Idle.pc \notin Running
    BY DEF Idle, Running, Calling
  <2> QED BY <1>3, <2>1, <2>2 DEF Active, Running
<1> QED BY <1>1, <1>2, <1>3

\* What a change of one goroutine's entry does to go.
LEMMA GoExcept ==
  ASSUME TypeOK, NEW g \in Goroutines, NEW r \in [pc : Running, id : Ids] \cup {Idle},
         go' = [go EXCEPT ![g] = r]
  PROVE  /\ go' \in [Workers \cup Handlers -> [pc : Running, id : Ids] \cup {Idle}]
         /\ \A h \in Goroutines : go'[h] = IF h = g THEN r ELSE go[h]
         /\ \A h \in Goroutines : Active(h)' <=> IF h = g THEN r # Idle ELSE Active(h)
<1>1. go \in [Goroutines -> [pc : Running, id : Ids] \cup {Idle}]
  BY DEF TypeOK, Goroutines, Running, Calling
<1>2. /\ go' \in [Goroutines -> [pc : Running, id : Ids] \cup {Idle}]
      /\ \A h \in Goroutines : go'[h] = IF h = g THEN r ELSE go[h]
  BY <1>1
<1>3. \A h \in Goroutines : Active(h)' <=> IF h = g THEN r # Idle ELSE Active(h)
  BY <1>2 DEF Active
<1> QED BY <1>2, <1>3 DEF Goroutines, Running

LEMMA IdleFacts == Idle.pc = "idle" /\ Idle.id = NoId
BY DEF Idle

-----------------------------------------------------------------------------
(* Every step keeps the invariant.                                         *)

LEMMA InitIInv == Init => IInv
<1> SUFFICES ASSUME Init PROVE IInv
  OBVIOUS
<1>1. TypeOK
  <2>1. go \in [Workers \cup Handlers -> [pc : Running, id : Ids] \cup {Idle}]
    BY DEF Init
  <2>2. 0 \in 0 .. Retries
    BY ShutdownAssumption
  <2>3. /\ delivery \in [Ids -> [pc : {"none", "queued", "sending", "ended"}, tries : 0 .. Retries]]
        /\ received \in [Ids -> 0 .. Retries]
    BY <2>2 DEF Init
  <2>4. poller \in {"wait", "list", "sweep", "stopped"}
    BY DEF Init
  <2> QED BY <2>1, <2>3, <2>4 DEF Init, TypeOK, Running, Calling
<1>2. \A g \in Goroutines : go[g] = Idle /\ ~Active(g) /\ go[g].pc = "idle"
  BY IdleFacts DEF Init, Active, Goroutines
<1>3. SweepOK
  BY <1>2 DEF Init, SweepOK, SweepsDoNotOverlap, Goroutines
<1>4. FireOK
  BY <1>2 DEF Init, FireOK, Owed
<1>5. DeliveryOK
  BY ShutdownAssumption DEF Init, DeliveryOK, DeliveriesAccounted
<1>6. SemBounded
  BY ShutdownAssumption, FS_EmptySet DEF Init, SemBounded
<1>7. DrainOK
  BY DEF Init, DrainOK
<1> QED BY <1>1, <1>3, <1>4, <1>5, <1>6, <1>7 DEF IInv

\* main's steps change neither the goroutines nor the deliveries.
LEMMA MainKeeps ==
  ASSUME IInv, Signal \/ MainStep
  PROVE  IInv'
<1>1. UNCHANGED <<poller, todo, go, status, won, delivery, sem, received>>
  BY DEF Signal, MainStep, StopServer, ServerStopped, Drained, ClosePool, Exit,
         pollerVars, settledVars, deliveryVars
<1>2. TypeOK'
  <2>1. /\ main' \in {"serving", "signalled", "stopping", "draining", "closing",
                      "releasing", "exited"}
        /\ timedOut' \subseteq {"server", "drain"} /\ quiet' \in BOOLEAN /\ cancelled' \in BOOLEAN
        /\ store' \in {"open", "closed"}
    BY DEF Signal, MainStep, StopServer, ServerStopped, Drained, ClosePool, Exit, IInv, TypeOK
  <2> QED BY <1>1, <2>1 DEF IInv, TypeOK
<1>3. SweepOK'
  BY <1>1 DEF IInv, SweepOK, SweepsDoNotOverlap, Active, Idle
<1>4. FireOK'
  BY <1>1 DEF IInv, FireOK, Owed
<1>5. DeliveryOK' /\ SemBounded'
  BY <1>1 DEF IInv, DeliveryOK, DeliveriesAccounted, SemBounded
<1>6. (NoHandlers' <=> NoHandlers) /\ (NoDeliveries' <=> NoDeliveries)
  BY <1>1 DEF NoHandlers, NoDeliveries, Active, Idle
<1>7. DrainOK'
  <2>1. CASE Signal \/ StopServer
    BY <1>1, <2>1 DEF Signal, StopServer, IInv, DrainOK
  <2>2. CASE ServerStopped
    BY <1>1, <1>6, <2>2 DEF ServerStopped, DrainOK
  <2>3. CASE Drained
    BY <1>1, <1>6, <2>3 DEF Drained, IInv, DrainOK
  <2>4. CASE ClosePool \/ Exit
    BY <1>1, <1>6, <2>4 DEF ClosePool, Exit, IInv, DrainOK
  <2> QED BY <2>1, <2>2, <2>3, <2>4 DEF MainStep
<1> QED BY <1>2, <1>3, <1>4, <1>5, <1>7 DEF IInv

\* The poller's steps that start no goroutine.
LEMMA SweepKeeps ==
  ASSUME IInv, Tick \/ List \/ Abandon \/ Join \/ PollerStops
  PROVE  IInv'
<1>1. UNCHANGED <<mainVars, go, settledVars, deliveryVars>>
  BY DEF Tick, List, Abandon, Join, PollerStops
<1>2. /\ UNCHANGED <<main, timedOut, quiet, cancelled, store, go, status, won, delivery, sem, received>>
      /\ \A g \in Goroutines : Active(g)' <=> Active(g)
  BY <1>1 DEF mainVars, settledVars, deliveryVars, Active, Idle
<1>3. poller' \in {"wait", "list", "sweep", "stopped"} /\ todo' \subseteq Ids
  BY DEF Tick, List, Listed, Abandon, Join, PollerStops, IInv, TypeOK
<1>4. TypeOK'
  BY <1>2, <1>3 DEF IInv, TypeOK
<1>5. SweepOK'
  <2>1. CASE Tick \/ List
    <3>1. /\ poller \in {"wait", "list"}
          /\ poller' # "sweep" => todo' = {}
      BY <2>1 DEF Tick, List, IInv, SweepOK
    <3>2. \A w \in Workers : ~Active(w)'
      BY <1>2, <3>1 DEF IInv, SweepOK, SweepsDoNotOverlap, Goroutines
    <3> QED BY <3>1, <3>2 DEF SweepOK, SweepsDoNotOverlap
  <2>2. CASE Abandon
    <3>1. poller = "sweep" /\ poller' = "sweep" /\ todo' = {}
      BY <2>2 DEF Abandon
    <3> QED BY <1>2, <3>1 DEF IInv, SweepOK, SweepsDoNotOverlap, Goroutines
  <2>3. CASE Join
    <3>1. todo' = {} /\ \A w \in Workers : ~Active(w)'
      BY <1>2, <2>3 DEF Join, Goroutines
    <3> QED BY <3>1 DEF SweepOK, SweepsDoNotOverlap
  <2>4. CASE PollerStops
    <3>1. todo' = {} /\ \A w \in Workers : ~Active(w)'
      BY <1>2, <2>4 DEF PollerStops, IInv, SweepOK, SweepsDoNotOverlap, Goroutines
    <3> QED BY <3>1 DEF SweepOK, SweepsDoNotOverlap
  <2> QED BY <2>1, <2>2, <2>3, <2>4
<1>6. FireOK' /\ DeliveryOK' /\ SemBounded'
  BY <1>2 DEF IInv, FireOK, Owed, DeliveryOK, DeliveriesAccounted, SemBounded
<1>7. DrainOK'
  <2>1. poller = "stopped" => poller' = "stopped"
    BY DEF Tick, List, Abandon, Join, PollerStops
  <2>2. (NoHandlers' <=> NoHandlers) /\ (NoDeliveries' <=> NoDeliveries)
    BY <1>2 DEF NoHandlers, NoDeliveries, Goroutines
  <2> QED BY <1>2, <2>1, <2>2 DEF IInv, DrainOK
<1> QED BY <1>4, <1>5, <1>6, <1>7 DEF IInv

\* The steps that settle or expire an invoice without a claim that was won.
StatusMoves ==
  /\ status' \in [Ids -> {"pending", "paid", "expired"}]
  /\ \A i \in Ids : status'[i] # status[i] =>
       status[i] = "pending" /\ (status'[i] = "expired" \/ UsesPostgres)

\* They leave what this process owes as it is.
LEMMA OwedStays ==
  ASSUME IInv, StatusMoves, UNCHANGED won
  PROVE  /\ \A i \in Ids : i \in Owed' <=> i \in Owed
         /\ \A i \in won' : status'[i] = "paid"
<1>1. \A i \in won : i \in Ids /\ status[i] = "paid"
  BY DEF IInv, TypeOK, FireOK
<1> QED BY <1>1 DEF StatusMoves, Owed

\* A goroutine that goes on, ends or begins, without a claim that was won: what the
\* deliveries and main have is as before.
LEMMA OthersStay ==
  ASSUME IInv, UNCHANGED <<mainVars, won, deliveryVars>>,
         NEW g \in Goroutines, NEW r \in [pc : Calling, id : Ids] \cup {Idle},
         go[g].pc # "fire", go' = [go EXCEPT ![g] = r], StatusMoves,
         NoHandlers => NoHandlers' \/ Accepts,
         poller = "stopped" => poller' = "stopped"
  PROVE  FireOK' /\ DeliveryOK' /\ SemBounded' /\ DrainOK'
<1>1. UNCHANGED <<main, timedOut, quiet, cancelled, store, delivery, sem, received>>
  BY DEF mainVars, deliveryVars
<1>2. \A h \in Goroutines : go'[h] = IF h = g THEN r ELSE go[h]
  BY GoExcept DEF IInv, Running
<1>3. r.pc # "fire"
  BY IdleFacts DEF Calling
<1>4. \A h \in Goroutines : go'[h].pc = "fire" <=> go[h].pc = "fire"
  BY <1>2, <1>3
<1>5. \A h \in Goroutines : go[h].pc = "fire" => go'[h] = go[h]
  BY <1>2
<1>6. FireOK'
  <2>1. \A h \in Goroutines : go'[h].pc = "fire" =>
          go'[h].id \in won' /\ delivery'[go'[h].id].pc = "none"
    BY <1>1, <1>4, <1>5 DEF IInv, FireOK
  <2>2. \A h, k \in Goroutines :
          go'[h].pc = "fire" /\ go'[k].pc = "fire" /\ go'[h].id = go'[k].id => h = k
    BY <1>4, <1>5 DEF IInv, FireOK
  <2>3. \A i \in Owed' : delivery'[i].pc = "none" =>
          \E h \in Goroutines : go'[h].pc = "fire" /\ go'[h].id = i
    <3> SUFFICES ASSUME NEW i \in Owed', delivery'[i].pc = "none"
                 PROVE  \E h \in Goroutines : go'[h].pc = "fire" /\ go'[h].id = i
      OBVIOUS
    <3>1. i \in Ids
      BY DEF Owed
    <3>2. i \in Owed /\ delivery[i].pc = "none"
      BY <1>1, <3>1, OwedStays
    <3>3. PICK h \in Goroutines : go[h].pc = "fire" /\ go[h].id = i
      BY <3>2 DEF IInv, FireOK
    <3> QED BY <1>5, <3>3
  <2> QED BY <2>1, <2>2, <2>3, OwedStays DEF FireOK
<1>7. DeliveryOK' /\ SemBounded'
  <2>1. \A i \in Ids : delivery[i].pc # "none" => status'[i] = "paid"
    BY DEF StatusMoves, IInv, DeliveryOK, DeliveriesAccounted
  <2> QED BY <1>1, <2>1 DEF IInv, DeliveryOK, DeliveriesAccounted, SemBounded
<1>8. DrainOK'
  <2>1. NoDeliveries' <=> NoDeliveries
    BY <1>1 DEF NoDeliveries
  <2>2. Accepts => ~(main \in {"draining", "closing", "releasing", "exited"} /\ "server" \notin timedOut)
    BY DEF Accepts, Alive
  <2> QED BY <1>1, <2>1, <2>2 DEF IInv, DrainOK
<1> QED BY <1>6, <1>7, <1>8

LEMMA SpawnKeeps ==
  ASSUME IInv, NEW w \in Workers, Spawn(w)
  PROVE  IInv'
<1>1. PICK i \in todo : /\ go' = [go EXCEPT ![w] = Begun(i)]
                        /\ todo' = todo \ {i}
  BY DEF Spawn
<1> DEFINE r == Begun(i)
<1>2. /\ poller = "sweep" /\ ~Active(w) /\ w \in Goroutines /\ i \in Ids
      /\ UNCHANGED <<mainVars, poller, settledVars, deliveryVars>>
  BY <1>1 DEF Spawn, Goroutines, IInv, TypeOK
<1>3. /\ r \in [pc : Calling, id : Ids] \cup {Idle} /\ r \in [pc : Running, id : Ids] \cup {Idle}
      /\ r # Idle => r.id = i
  BY <1>2 DEF Begun, Calling, Running
<1> HIDE DEF r
<1>4. /\ go' \in [Workers \cup Handlers -> [pc : Running, id : Ids] \cup {Idle}]
      /\ \A h \in Goroutines : go'[h] = IF h = w THEN r ELSE go[h]
      /\ \A h \in Goroutines : Active(h)' <=> IF h = w THEN r # Idle ELSE Active(h)
  <2>1. go' = [go EXCEPT ![w] = r]
    BY <1>1 DEF r
  <2> QED BY <1>2, <1>3, <2>1, GoExcept DEF IInv
<1>5. TypeOK'
  BY <1>1, <1>2, <1>4 DEF IInv, TypeOK, mainVars, settledVars, deliveryVars, Running, Calling
<1>6. SweepOK'
  <2>1. \A v \in Workers : Active(v)' /\ v # w => Active(v) /\ go'[v].id = go[v].id
    BY <1>4 DEF Goroutines
  <2>2. \A v \in Workers : v # w /\ Active(v)' => go'[v].id \notin todo
    BY <2>1 DEF IInv, SweepOK
  <2>3. Active(w)' => go'[w].id = i
    BY <1>2, <1>3, <1>4
  <2>4. \A v \in Workers : Active(v)' => go'[v].id \in Ids
    <3> SUFFICES ASSUME NEW v \in Workers, Active(v)' PROVE go'[v].id \in Ids
      OBVIOUS
    <3>1. CASE v = w
      BY <1>2, <2>3, <3>1
    <3>2. CASE v # w
      BY <2>1, <3>2, GoTyped DEF IInv, Goroutines
    <3> QED BY <3>1, <3>2
  <2>5. \A v \in Workers : ~Active(v)' => go'[v].id = NoId
    BY IdleFacts DEF Active
  <2>6. \A v, u \in Workers : Active(v)' /\ v # u => go'[v].id # go'[u].id
    <3> SUFFICES ASSUME NEW v \in Workers, NEW u \in Workers, Active(v)', v # u
                 PROVE  go'[v].id # go'[u].id
      OBVIOUS
    <3>1. CASE ~Active(u)'
      BY <2>4, <2>5, <3>1, ShutdownAssumption
    <3>2. CASE Active(u)' /\ v = w
      BY <1>1, <2>2, <2>3, <3>2
    <3>3. CASE Active(u)' /\ u = w
      BY <1>1, <2>2, <2>3, <3>3
    <3>4. CASE v # w /\ u # w
      BY <1>4, <2>1, <3>4 DEF IInv, SweepOK, SweepsDoNotOverlap, Goroutines
    <3> QED BY <3>1, <3>2, <3>3, <3>4
  <2>7. \A v \in Workers : Active(v)' => go'[v].id \notin todo'
    BY <1>1, <2>2, <2>3
  <2> QED BY <1>2, <2>6, <2>7 DEF SweepOK, SweepsDoNotOverlap
<1>7. FireOK' /\ DeliveryOK' /\ SemBounded' /\ DrainOK'
  <2>1. NoHandlers => NoHandlers'
    BY <1>4, ShutdownAssumption DEF NoHandlers, Goroutines
  <2>2. go[w].pc # "fire"
    BY <1>2, GoTyped DEF IInv
  <2>3. StatusMoves /\ UNCHANGED <<mainVars, won, deliveryVars>>
    BY <1>2 DEF StatusMoves, settledVars, IInv, TypeOK
  <2>4. go' = [go EXCEPT ![w] = r]
    BY <1>1 DEF r
  <2> QED BY <1>2, <1>3, <2>1, <2>2, <2>3, <2>4, OthersStay
<1> QED BY <1>5, <1>6, <1>7 DEF IInv

\* A worker that goes on with its invoice or ends, and whatever a handler does.
LEMMA SweepStays ==
  ASSUME IInv, UNCHANGED <<poller, todo>>,
         NEW g \in Goroutines, NEW r \in [pc : Running, id : Ids] \cup {Idle},
         go' = [go EXCEPT ![g] = r],
         g \in Workers => Active(g) /\ (r = Idle \/ r.id = go[g].id)
  PROVE  SweepOK'
<1>1. \A h \in Workers : /\ go'[h] = IF h = g THEN r ELSE go[h]
                         /\ Active(h)' <=> IF h = g THEN r # Idle ELSE Active(h)
  BY GoExcept DEF IInv, Goroutines
<1>2. \A h \in Workers : Active(h)' => Active(h) /\ go'[h].id = go[h].id /\ go[h].id \in Ids
  BY <1>1, GoTyped DEF IInv, Goroutines
<1>3. \A h \in Workers : ~Active(h)' => go'[h].id = NoId
  BY <1>1, IdleFacts DEF Active
<1>4. \A v, w \in Workers : Active(v)' /\ v # w => go'[v].id # go'[w].id
  BY <1>2, <1>3, ShutdownAssumption DEF IInv, SweepOK, SweepsDoNotOverlap
<1> QED BY <1>2, <1>4 DEF IInv, SweepOK, SweepsDoNotOverlap

LEMMA RequestKeeps ==
  ASSUME IInv, NEW h \in Handlers, NEW i \in Ids, Request(h, i)
  PROVE  IInv'
<1> DEFINE r == Begun(i)
<1>1. /\ Accepts /\ ~Active(h) /\ go' = [go EXCEPT ![h] = r]
      /\ UNCHANGED <<mainVars, pollerVars, settledVars, deliveryVars>>
      /\ h \in Goroutines /\ h \notin Workers
  BY ShutdownAssumption DEF Request, Goroutines
<1>2. /\ r \in [pc : Calling, id : Ids] \cup {Idle} /\ r \in [pc : Running, id : Ids] \cup {Idle}
  BY DEF Begun, Calling, Running
<1> HIDE DEF r
<1>3. TypeOK'
  <2>1. go' \in [Workers \cup Handlers -> [pc : Running, id : Ids] \cup {Idle}]
    BY <1>1, <1>2, GoExcept DEF IInv
  <2> QED BY <1>1, <2>1 DEF IInv, TypeOK, mainVars, pollerVars, settledVars, deliveryVars,
             Running, Calling
<1>4. SweepOK'
  BY <1>1, <1>2, SweepStays DEF pollerVars
<1>5. FireOK' /\ DeliveryOK' /\ SemBounded' /\ DrainOK'
  <2>1. go[h].pc # "fire"
    BY <1>1, GoTyped DEF IInv
  <2>2. StatusMoves /\ UNCHANGED <<mainVars, won, deliveryVars>>
    BY <1>1 DEF StatusMoves, settledVars, IInv, TypeOK
  <2>3. poller = "stopped" => poller' = "stopped"
    BY <1>1 DEF pollerVars
  <2> QED BY <1>1, <1>2, <2>1, <2>2, <2>3, OthersStay
<1> QED BY <1>3, <1>4, <1>5 DEF IInv

\* A handler that goes on or ends was there before.
LEMMA HandlersStay ==
  ASSUME TypeOK, NEW g \in Goroutines, Active(g),
         NEW r \in [pc : Running, id : Ids] \cup {Idle}, go' = [go EXCEPT ![g] = r]
  PROVE  NoHandlers => NoHandlers'
BY GoExcept DEF NoHandlers, Goroutines

\* A goroutine in CheckStatus goes on to its next call or ends, without having won a
\* claim.
LEMMA CallStays ==
  ASSUME IInv, UNCHANGED <<mainVars, pollerVars, won, deliveryVars>>, StatusMoves,
         NEW g \in Goroutines, go[g].pc \in Calling,
         NEW r \in [pc : Calling, id : Ids] \cup {Idle},
         go' = [go EXCEPT ![g] = r], r = Idle \/ r.id = go[g].id
  PROVE  IInv'
<1>1. Active(g) /\ go[g].pc # "fire"
  BY GoTyped DEF IInv, Running, Calling
<1>2. r \in [pc : Running, id : Ids] \cup {Idle}
  BY DEF Running
<1>3. TypeOK'
  <2>1. go' \in [Workers \cup Handlers -> [pc : Running, id : Ids] \cup {Idle}]
    BY <1>2, GoExcept DEF IInv
  <2> QED BY <2>1 DEF IInv, TypeOK, StatusMoves, mainVars, pollerVars, deliveryVars,
             Running, Calling
<1>4. SweepOK'
  BY <1>1, <1>2, SweepStays DEF pollerVars
<1>5. FireOK' /\ DeliveryOK' /\ SemBounded' /\ DrainOK'
  <2>1. NoHandlers => NoHandlers'
    BY <1>1, <1>2, HandlersStay DEF IInv
  <2> QED BY <1>1, <2>1, OthersStay DEF pollerVars
<1> QED BY <1>3, <1>4, <1>5 DEF IInv

\* The next call of a goroutine, as an entry of go.
LEMMA NextCall ==
  ASSUME IInv, NEW g \in Goroutines, go[g].pc \in Calling, NEW call \in Running
  PROVE  /\ [go[g] EXCEPT !.pc = call] = [pc |-> call, id |-> go[g].id]
         /\ [go EXCEPT ![g].pc = call] = [go EXCEPT ![g] = [pc |-> call, id |-> go[g].id]]
         /\ go[g].id \in Ids
<1>1. go[g] \in [pc : Running, id : Ids] /\ go[g].id \in Ids
  BY GoTyped DEF IInv, Running
<1>2. [go[g] EXCEPT !.pc = call] = [pc |-> call, id |-> go[g].id]
  BY <1>1
<1> QED BY <1>1, <1>2

LEMMA ReadKeeps ==
  ASSUME IInv, NEW g \in Goroutines, Read(g)
  PROVE  IInv'
<1>1. /\ go[g].pc = "read" /\ UNCHANGED <<mainVars, pollerVars, won, deliveryVars>>
      /\ StatusMoves /\ go[g].pc \in Calling
  BY DEF Read, settledVars, StatusMoves, IInv, TypeOK, Calling
<1>2. CASE go' = [go EXCEPT ![g].pc = "verify"]
  <2> DEFINE r == [pc |-> "verify", id |-> go[g].id]
  <2>1. go' = [go EXCEPT ![g] = r] /\ go[g].id \in Ids
    BY <1>1, <1>2, NextCall DEF Running, Calling
  <2>2. r \in [pc : Calling, id : Ids] /\ r.id = go[g].id
    BY <2>1 DEF Calling
  <2> HIDE DEF r
  <2> QED BY <1>1, <2>1, <2>2, CallStays
<1>3. CASE go' = [go EXCEPT ![g] = Idle]
  BY <1>1, <1>3, CallStays
<1> QED BY <1>2, <1>3 DEF Read, Finish

LEMMA VerifyKeeps ==
  ASSUME IInv, NEW g \in Goroutines, NEW v \in Verdicts, Verify(g, v)
  PROVE  IInv'
<1>1. /\ go[g].pc = "verify" /\ UNCHANGED <<mainVars, pollerVars, won, deliveryVars>>
      /\ StatusMoves /\ go[g].pc \in Calling
  BY DEF Verify, settledVars, StatusMoves, IInv, TypeOK, Calling
<1>2. CASE go' = [go EXCEPT ![g] = Idle]
  BY <1>1, <1>2, CallStays
<1>3. ASSUME NEW call \in {"expire", "claim"}, CallStore(g, call) PROVE IInv'
  <2> DEFINE r == IF store = "open" THEN [pc |-> call, id |-> go[g].id] ELSE Idle
  <2>1. call \in Running /\ call \in Calling
    BY DEF Running, Calling
  <2>2. [go[g] EXCEPT !.pc = call] = [pc |-> call, id |-> go[g].id] /\ go[g].id \in Ids
    BY <1>1, <2>1, NextCall
  <2>3. go' = [go EXCEPT ![g] = r]
    BY <1>3, <2>2 DEF CallStore
  <2>4. r \in [pc : Calling, id : Ids] \cup {Idle} /\ (r = Idle \/ r.id = go[g].id)
    BY <2>1, <2>2
  <2> HIDE DEF r
  <2> QED BY <1>1, <2>3, <2>4, CallStays
<1>4. \/ go' = [go EXCEPT ![g] = Idle]
      \/ CallStore(g, "expire") \/ CallStore(g, "claim")
  BY DEF Verify, Verdicts, Finish
<1> QED BY <1>2, <1>3, <1>4

\* A guarded update, of this process or of another.
LEMMA UpdateMoves ==
  ASSUME IInv, NEW i \in Ids, NEW to \in {"paid", "expired"}, to = "paid" => UsesPostgres,
         status' = status \/ status' = Updated(i, to)
  PROVE  StatusMoves
<1>1. CASE status' = status
  BY <1>1 DEF StatusMoves, IInv, TypeOK
<1>2. CASE status' = Updated(i, to)
  BY <1>2 DEF StatusMoves, Updated, IInv, TypeOK
<1> QED BY <1>1, <1>2

LEMMA ExpireKeeps ==
  ASSUME IInv, NEW g \in Goroutines, NEW reply \in Replies, Expire(g, reply)
  PROVE  IInv'
<1>1. /\ go[g].pc = "expire" /\ UNCHANGED <<mainVars, pollerVars, won, deliveryVars>>
      /\ go[g].pc \in Calling /\ go' = [go EXCEPT ![g] = Idle]
      /\ status' = status \/ status' = Updated(go[g].id, "expired")
  BY DEF Expire, Failed, Finish, Calling
<1>2. go[g].id \in Ids
  BY <1>1, GoTyped DEF IInv, Running
<1>3. StatusMoves
  BY <1>1, <1>2, UpdateMoves
<1> QED BY <1>1, <1>3, CallStays

LEMMA ClaimKeeps ==
  ASSUME IInv, NEW g \in Goroutines, NEW reply \in Replies, Claim(g, reply)
  PROVE  IInv'
<1> DEFINE i == go[g].id
<1>1. /\ go[g].pc = "claim" /\ UNCHANGED <<mainVars, pollerVars, deliveryVars>>
      /\ go[g].pc \in Calling
  BY DEF Claim, Calling
<1>2. /\ Active(g) /\ i \in Ids
  BY <1>1, GoTyped DEF IInv, Running
<1>3. CASE reply = "no"
  <2>1. go' = [go EXCEPT ![g] = Idle] /\ UNCHANGED <<status, won>>
    BY <1>3 DEF Claim, Finish, settledVars
  <2>2. StatusMoves
    BY <2>1 DEF StatusMoves, IInv, TypeOK
  <2> QED BY <1>1, <2>1, <2>2, CallStays
<1>4. CASE reply = "error"
  <2>1. go' = [go EXCEPT ![g] = Idle] /\ UNCHANGED won
    BY <1>4 DEF Claim, ClaimFails, Finish
  <2>2. status' = status \/ (UsesPostgres /\ status' = Updated(i, "paid"))
    BY <1>4 DEF Claim, ClaimFails, Failed
  <2>3. StatusMoves
    BY <1>2, <2>2, UpdateMoves DEF StatusMoves, IInv, TypeOK
  <2> QED BY <1>1, <2>1, <2>3, CallStays
<1>5. CASE reply = "ok"
  <2> DEFINE r == [pc |-> "fire", id |-> i]
  <2>1. /\ go' = [go EXCEPT ![g].pc = "fire"] /\ status' = [status EXCEPT ![i] = "paid"]
        /\ status[i] = "pending" /\ won' = won \cup {i}
    BY <1>5 DEF Claim, ClaimWins
  <2>2. go' = [go EXCEPT ![g] = r] /\ r \in [pc : Running, id : Ids]
    BY <1>1, <1>2, <2>1, NextCall DEF Running
  <2>3. /\ go' \in [Workers \cup Handlers -> [pc : Running, id : Ids] \cup {Idle}]
        /\ \A h \in Goroutines : go'[h] = IF h = g THEN r ELSE go[h]
    BY <2>2, GoExcept DEF IInv
  <2>4. \A j \in Ids : status'[j] = IF j = i THEN "paid" ELSE status[j]
    BY <1>2, <2>1 DEF IInv, TypeOK
  <2>5. UNCHANGED <<main, timedOut, quiet, cancelled, store, poller, todo, delivery, sem, received>>
    BY <1>1 DEF mainVars, pollerVars, deliveryVars
  <2>6. TypeOK'
    BY <1>2, <2>1, <2>3, <2>5 DEF IInv, TypeOK, Running, Calling
  <2>7. SweepOK'
    BY <1>2, <2>2, <2>5, SweepStays
  <2>8. delivery[i].pc = "none" /\ i \notin won
    BY <1>2, <2>1 DEF IInv, FireOK, DeliveryOK, DeliveriesAccounted
  <2>9. FireOK'
    <3>1. \A h \in Goroutines : go[h].pc = "fire" => go'[h] = go[h] /\ go[h].id # i
      BY <1>1, <2>3, <2>8 DEF IInv, FireOK
    <3>2. \A h \in Goroutines : go'[h].pc = "fire" => h = g \/ go[h].pc = "fire"
      BY <2>3
    <3>3. go'[g].pc = "fire" /\ go'[g].id = i
      BY <2>3
    <3>4. \A j \in won' : status'[j] = "paid"
      BY <1>2, <2>1, <2>4 DEF IInv, FireOK, TypeOK
    <3>5. \A h \in Goroutines : go'[h].pc = "fire" =>
            go'[h].id \in won' /\ delivery'[go'[h].id].pc = "none"
      BY <2>1, <2>5, <2>8, <3>1, <3>2, <3>3 DEF IInv, FireOK
    <3>6. \A h, k \in Goroutines :
            go'[h].pc = "fire" /\ go'[k].pc = "fire" /\ go'[h].id = go'[k].id => h = k
      BY <3>1, <3>2, <3>3 DEF IInv, FireOK
    <3>7. \A j \in Owed' : delivery'[j].pc = "none" =>
            \E h \in Goroutines : go'[h].pc = "fire" /\ go'[h].id = j
      <4> SUFFICES ASSUME NEW j \in Owed', delivery'[j].pc = "none", j # i
                   PROVE  \E h \in Goroutines : go'[h].pc = "fire" /\ go'[h].id = j
        BY <3>3
      <4>1. j \in Owed /\ delivery[j].pc = "none"
        BY <2>1, <2>4, <2>5 DEF Owed
      <4>2. PICK h \in Goroutines : go[h].pc = "fire" /\ go[h].id = j
        BY <4>1 DEF IInv, FireOK
      <4> QED BY <3>1, <4>2
    <3> QED BY <3>4, <3>5, <3>6, <3>7 DEF FireOK
  <2>10. DeliveryOK' /\ SemBounded'
    BY <2>4, <2>5 DEF IInv, DeliveryOK, DeliveriesAccounted, SemBounded
  <2>11. DrainOK'
    <3>1. NoHandlers => NoHandlers'
      BY <1>2, <2>2, HandlersStay DEF IInv
    <3> QED BY <2>5, <3>1 DEF IInv, DrainOK, NoDeliveries
  <2> QED BY <2>6, <2>7, <2>9, <2>10, <2>11 DEF IInv
<1> QED BY <1>3, <1>4, <1>5 DEF Replies

\* What other processes do, and late statements, concern no delivery of this process.
LEMMA ElsewhereKeeps ==
  ASSUME IInv, NEW i \in Ids, NEW to \in {"paid", "expired"}, Elsewhere(i, to)
  PROVE  IInv'
<1>1. UNCHANGED <<main, timedOut, quiet, cancelled, poller, todo, go, won, store,
                  delivery, sem, received>>
  BY DEF Elsewhere, mainVars, pollerVars, deliveryVars
<1>2. StatusMoves
  BY UpdateMoves DEF Elsewhere
<1>3. \A g \in Goroutines : Active(g)' <=> Active(g)
  BY <1>1 DEF Active, Idle
<1>4. TypeOK'
  BY <1>1, <1>2 DEF StatusMoves, IInv, TypeOK
<1>5. SweepOK'
  BY <1>1, <1>3 DEF IInv, SweepOK, SweepsDoNotOverlap, Goroutines
<1>6. FireOK'
  <2>1. \A j \in Owed' : j \in Owed
    BY <1>1, <1>2, OwedStays DEF Owed
  <2> QED BY <1>1, <1>2, <2>1, OwedStays DEF IInv, FireOK
<1>7. DeliveryOK' /\ SemBounded'
  <2>1. \A j \in Ids : delivery[j].pc # "none" => status'[j] = "paid"
    BY <1>2 DEF StatusMoves, IInv, DeliveryOK, DeliveriesAccounted
  <2> QED BY <1>1, <2>1 DEF IInv, DeliveryOK, DeliveriesAccounted, SemBounded
<1>8. DrainOK'
  BY <1>1, <1>3 DEF IInv, DrainOK, NoHandlers, NoDeliveries, Goroutines
<1> QED BY <1>4, <1>5, <1>6, <1>7, <1>8 DEF IInv

\* Once main has waited for everyone there is nobody left to fire.
LEMMA NobodyFires ==
  ASSUME IInv, NEW g \in Goroutines, Active(g)
  PROVE  ~(main \in {"closing", "releasing", "exited"} /\ timedOut = {} /\ quiet)
BY DEF IInv, DrainOK, NoHandlers, SweepOK, SweepsDoNotOverlap, Goroutines

LEMMA FireKeeps ==
  ASSUME IInv, NEW g \in Goroutines, Fire(g)
  PROVE  IInv'
<1> DEFINE i == go[g].id
<1>1. /\ go[g].pc = "fire" /\ go' = [go EXCEPT ![g] = Idle]
      /\ delivery' = [delivery EXCEPT ![i].pc = "queued"]
      /\ UNCHANGED <<mainVars, pollerVars, settledVars, sem, received>>
  BY DEF Fire, Finish
<1>2. Active(g) /\ i \in Ids
  BY <1>1, GoTyped DEF IInv, Running
<1>3. UNCHANGED <<main, timedOut, quiet, cancelled, store, poller, todo, status, won, sem, received>>
  BY <1>1 DEF mainVars, pollerVars, settledVars
<1>4. /\ go' \in [Workers \cup Handlers -> [pc : Running, id : Ids] \cup {Idle}]
      /\ \A h \in Goroutines : go'[h] = IF h = g THEN Idle ELSE go[h]
  BY <1>1, GoExcept DEF IInv
<1>5. i \in won /\ status[i] = "paid" /\ delivery[i].pc = "none" /\ delivery[i].tries = 0
  BY <1>1, <1>2 DEF IInv, FireOK, DeliveryOK
<1>6. \A j \in Ids : /\ delivery'[j].tries = delivery[j].tries
                     /\ delivery'[j].pc = IF j = i THEN "queued" ELSE delivery[j].pc
  BY <1>1, <1>2 DEF IInv, TypeOK
<1>7. TypeOK'
  <2>1. delivery' \in [Ids -> [pc : {"none", "queued", "sending", "ended"}, tries : 0 .. Retries]]
    BY <1>1, <1>2 DEF IInv, TypeOK
  <2> QED BY <1>3, <1>4, <2>1 DEF IInv, TypeOK, Running, Calling
<1>8. SweepOK'
  BY <1>1, <1>2, <1>3, SweepStays
<1>9. FireOK'
  <2>1. \A h \in Goroutines : go'[h].pc = "fire" =>
          h # g /\ go'[h] = go[h] /\ go[h].pc = "fire" /\ go[h].id # i /\ go[h].id \in Ids
    BY <1>1, <1>4, IdleFacts, GoTyped DEF IInv, FireOK, Running
  <2>2. \A h \in Goroutines : h # g => go'[h] = go[h]
    BY <1>4
  <2>3. \A h \in Goroutines : go'[h].pc = "fire" =>
          go'[h].id \in won' /\ delivery'[go'[h].id].pc = "none"
    BY <1>3, <1>6, <2>1 DEF IInv, FireOK
  <2>4. \A h, k \in Goroutines :
          go'[h].pc = "fire" /\ go'[k].pc = "fire" /\ go'[h].id = go'[k].id => h = k
    BY <2>1 DEF IInv, FireOK
  <2>5. \A j \in Owed' : delivery'[j].pc = "none" =>
          \E h \in Goroutines : go'[h].pc = "fire" /\ go'[h].id = j
    <3> SUFFICES ASSUME NEW j \in Owed', delivery'[j].pc = "none"
                 PROVE  \E h \in Goroutines : go'[h].pc = "fire" /\ go'[h].id = j
      OBVIOUS
    <3>1. j # i /\ j \in Owed /\ delivery[j].pc = "none"
      BY <1>3, <1>6 DEF Owed
    <3>2. PICK h \in Goroutines : go[h].pc = "fire" /\ go[h].id = j
      BY <3>1 DEF IInv, FireOK
    <3> QED BY <2>2, <3>1, <3>2
  <2>6. \A j \in won' : status'[j] = "paid"
    BY <1>3 DEF IInv, FireOK
  <2> QED BY <2>3, <2>4, <2>5, <2>6 DEF FireOK
<1>10. DeliveryOK' /\ SemBounded'
  <2>1. DeliveriesAccounted'
    BY <1>3, <1>5, <1>6 DEF IInv, DeliveryOK, DeliveriesAccounted
  <2> QED BY <1>3, <1>5, <1>6, <2>1 DEF IInv, DeliveryOK, SemBounded
<1>11. DrainOK'
  <2>1. NoHandlers => NoHandlers'
    BY <1>1, <1>2, HandlersStay DEF IInv
  <2> QED BY <1>2, <1>3, <2>1, NobodyFires DEF IInv, DrainOK
<1> QED BY <1>7, <1>8, <1>9, <1>10, <1>11 DEF IInv

\* The steps of a delivery leave the goroutines that may fire alone.
LEMMA DeliveryStays ==
  ASSUME IInv, UNCHANGED <<mainVars, pollerVars, go, settledVars>>, NEW i \in Ids,
         delivery[i].pc \in {"queued", "sending"}, delivery'[i].pc # "none",
         \A j \in Ids \ {i} : delivery'[j] = delivery[j]
  PROVE  SweepOK' /\ FireOK' /\ DrainOK'
<1>1. /\ UNCHANGED <<main, timedOut, quiet, cancelled, store, poller, todo, go, status, won>>
      /\ \A g \in Goroutines : Active(g)' <=> Active(g)
  BY DEF mainVars, pollerVars, settledVars, Active, Idle
<1>2. \A j \in Ids : delivery'[j].pc = "none" <=> delivery[j].pc = "none"
  OBVIOUS
<1>3. SweepOK'
  BY <1>1 DEF IInv, SweepOK, SweepsDoNotOverlap, Goroutines
<1>4. FireOK'
  <2>1. \A g \in Goroutines : go[g].pc = "fire" => go[g].id \in Ids
    BY GoTyped DEF IInv, Running
  <2>2. \A j \in Owed' : j \in Owed /\ j \in Ids
    BY <1>1 DEF Owed
  <2> QED BY <1>1, <1>2, <2>1, <2>2 DEF IInv, FireOK
<1>5. DrainOK'
  <2>1. ~NoDeliveries
    BY DEF NoDeliveries
  <2>2. NoHandlers' <=> NoHandlers
    BY <1>1 DEF NoHandlers, Goroutines
  <2> QED BY <1>1, <2>1, <2>2 DEF IInv, DrainOK
<1> QED BY <1>3, <1>4, <1>5

LEMMA AcquireKeeps ==
  ASSUME IInv, NEW i \in Ids, Acquire(i)
  PROVE  IInv'
<1>1. /\ delivery[i].pc = "queued" /\ Cardinality(sem) < MaxDeliveries
      /\ sem' = sem \cup {i} /\ delivery' = [delivery EXCEPT ![i].pc = "sending"]
      /\ UNCHANGED <<mainVars, pollerVars, go, settledVars, received>>
  BY DEF Acquire
<1>2. \A j \in Ids : /\ delivery'[j].tries = delivery[j].tries
                     /\ delivery'[j].pc = IF j = i THEN "sending" ELSE delivery[j].pc
                     /\ j # i => delivery'[j] = delivery[j]
  BY <1>1 DEF IInv, TypeOK
<1>3. TypeOK'
  <2>1. delivery' \in [Ids -> [pc : {"none", "queued", "sending", "ended"}, tries : 0 .. Retries]]
    BY <1>1 DEF IInv, TypeOK
  <2> QED BY <1>1, <2>1 DEF IInv, TypeOK, mainVars, pollerVars, settledVars
<1>4. SweepOK' /\ FireOK' /\ DrainOK'
  BY <1>1, <1>2, DeliveryStays
<1>5. DeliveryOK'
  <2>1. delivery[i].tries = 0 /\ 0 < Retries
    BY <1>1, ShutdownAssumption DEF IInv, DeliveryOK
  <2>2. DeliveriesAccounted'
    BY <1>1, <1>2 DEF settledVars, IInv, DeliveryOK, DeliveriesAccounted
  <2> QED BY <1>2, <2>1, <2>2 DEF IInv, DeliveryOK
<1>6. SemBounded'
  <2>1. IsFiniteSet(sem) /\ Cardinality(sem) \in Nat
    BY FS_CardinalityType DEF IInv, SemBounded
  <2>2. IsFiniteSet(sem') /\ Cardinality(sem') \in {Cardinality(sem), Cardinality(sem) + 1}
    BY <1>1, <2>1, FS_AddElement
  <2> QED BY <1>1, <2>1, <2>2, ShutdownAssumption DEF SemBounded
<1> QED BY <1>3, <1>4, <1>5, <1>6 DEF IInv

LEMMA AttemptKeeps ==
  ASSUME IInv, NEW i \in Ids, NEW arrives \in BOOLEAN, NEW acknowledged \in BOOLEAN,
         Attempt(i, arrives, acknowledged)
  PROVE  IInv'
<1> DEFINE tries == delivery[i].tries + 1
           last  == acknowledged \/ tries = Retries
           one   == IF arrives THEN 1 ELSE 0
<1>1. /\ delivery[i].pc = "sending" /\ (acknowledged => arrives)
      /\ received' = [received EXCEPT ![i] = received[i] + one]
      /\ delivery' = [delivery EXCEPT ![i] =
                        [pc |-> IF last THEN "ended" ELSE "sending", tries |-> tries]]
      /\ sem' = IF last THEN sem \ {i} ELSE sem
      /\ UNCHANGED <<mainVars, pollerVars, go, settledVars>>
  BY DEF Attempt, AfterTry
<1>2. /\ delivery[i].tries \in Nat /\ delivery[i].tries < Retries
      /\ received[i] \in Nat /\ received[i] <= delivery[i].tries
      /\ Retries \in Nat /\ one \in {0, 1} /\ (acknowledged => one = 1)
  BY <1>1, ShutdownAssumption DEF IInv, TypeOK, DeliveryOK, DeliveriesAccounted
<1>3. /\ delivery'[i].tries = tries /\ delivery'[i].pc = IF last THEN "ended" ELSE "sending"
      /\ received'[i] = received[i] + one
      /\ \A j \in Ids \ {i} : delivery'[j] = delivery[j] /\ received'[j] = received[j]
  BY <1>1 DEF IInv, TypeOK
<1> HIDE DEF one
<1>4. tries \in 0 .. Retries /\ received[i] + one \in 0 .. Retries
  BY <1>2
<1>5. TypeOK'
  <2>1. delivery' \in [Ids -> [pc : {"none", "queued", "sending", "ended"}, tries : 0 .. Retries]]
    BY <1>1, <1>4 DEF IInv, TypeOK
  <2>2. received' \in [Ids -> 0 .. Retries]
    BY <1>1, <1>4 DEF IInv, TypeOK
  <2>3. sem' \subseteq Ids
    BY <1>1 DEF IInv, TypeOK
  <2> QED BY <1>1, <2>1, <2>2, <2>3 DEF IInv, TypeOK, mainVars, pollerVars, settledVars
<1>6. SweepOK' /\ FireOK' /\ DrainOK'
  BY <1>1, <1>3, DeliveryStays
<1>7. DeliveryOK'
  <2>1. ASSUME NEW j \in Ids
        PROVE  /\ received'[j] <= delivery'[j].tries /\ delivery'[j].tries <= Retries
               /\ delivery'[j].pc # "none" => status'[j] = "paid"
               /\ delivery'[j].pc = "ended" /\ received'[j] = 0 => delivery'[j].tries = Retries
               /\ delivery'[j].pc \in {"none", "queued"} => delivery'[j].tries = 0
               /\ delivery'[j].pc = "sending" => delivery'[j].tries < Retries
    <3>1. CASE j # i
      BY <1>1, <1>3, <3>1 DEF settledVars, IInv, DeliveryOK, DeliveriesAccounted
    <3>2. CASE j = i
      <4>1. status'[i] = "paid"
        BY <1>1 DEF settledVars, IInv, DeliveryOK, DeliveriesAccounted
      <4>2. received'[i] <= delivery'[i].tries /\ delivery'[i].tries <= Retries
        BY <1>2, <1>3
      <4>3. delivery'[i].pc = "ended" /\ received'[i] = 0 => delivery'[i].tries = Retries
        BY <1>2, <1>3
      <4>4. delivery'[i].pc = "sending" => delivery'[i].tries < Retries
        BY <1>2, <1>3
      <4> QED BY <1>1, <1>3, <3>2, <4>1, <4>2, <4>3, <4>4
    <3> QED BY <3>1, <3>2
  <2>2. sem' = {j \in Ids : delivery'[j].pc = "sending"}
    <3>1. sem = {j \in Ids : delivery[j].pc = "sending"}
      BY DEF IInv, DeliveryOK, DeliveriesAccounted
    <3> HIDE DEF last
    <3> QED BY <1>1, <1>3, <3>1
  <2> QED BY <2>1, <2>2 DEF DeliveryOK, DeliveriesAccounted
<1>8. SemBounded'
  <2>1. sem' \subseteq sem
    BY <1>1
  <2>2. IsFiniteSet(sem') /\ Cardinality(sem') <= Cardinality(sem)
    BY <2>1, FS_Subset DEF IInv, SemBounded
  <2>3. Cardinality(sem') \in Nat /\ Cardinality(sem) \in Nat
    BY <2>2, FS_CardinalityType DEF IInv, SemBounded
  <2> QED BY <2>2, <2>3, ShutdownAssumption DEF IInv, SemBounded
<1> QED BY <1>5, <1>6, <1>7, <1>8 DEF IInv

LEMMA IInvInductive == IInv /\ [Next]_vars => IInv'
<1> SUFFICES ASSUME IInv, [Next]_vars PROVE IInv'
  OBVIOUS
<1>1. CASE Signal \/ MainStep
  BY <1>1, MainKeeps
<1>2. CASE PollerStep
  BY <1>2, SweepKeeps, SpawnKeeps DEF PollerStep
<1>3. ASSUME NEW h \in Handlers, NEW i \in Ids, Request(h, i) PROVE IInv'
  BY <1>3, RequestKeeps
<1>4. ASSUME NEW g \in Goroutines, CallStep(g) PROVE IInv'
  BY <1>4, ReadKeeps, VerifyKeeps, ExpireKeeps, ClaimKeeps, FireKeeps DEF CallStep, StoreStep
<1>5. ASSUME NEW i \in Ids, DeliveryStep(i) PROVE IInv'
  BY <1>5, AcquireKeeps, AttemptKeeps DEF DeliveryStep
<1>6. ASSUME NEW i \in Ids, NEW to \in {"paid", "expired"}, Elsewhere(i, to) PROVE IInv'
  BY <1>6, ElsewhereKeeps
<1>7. CASE UNCHANGED vars
  <2>1. /\ UNCHANGED <<main, timedOut, quiet, cancelled, poller, todo, go, status, won, store,
                       delivery, sem, received>>
        /\ \A g \in Goroutines : Active(g)' <=> Active(g)
    BY <1>7 DEF vars, Active, Idle
  <2>2. TypeOK'
    BY <2>1 DEF IInv, TypeOK
  <2>3. SweepOK'
    BY <2>1 DEF IInv, SweepOK, SweepsDoNotOverlap, Goroutines
  <2>4. FireOK'
    BY <2>1 DEF IInv, FireOK, Owed
  <2>5. DeliveryOK' /\ SemBounded'
    BY <2>1 DEF IInv, DeliveryOK, DeliveriesAccounted, SemBounded
  <2>6. DrainOK'
    BY <2>1 DEF IInv, DrainOK, NoHandlers, NoDeliveries, Goroutines
  <2> QED BY <2>2, <2>3, <2>4, <2>5, <2>6 DEF IInv
<1> QED BY <1>1, <1>2, <1>3, <1>4, <1>5, <1>6, <1>7 DEF Next, Goroutines

LEMMA ProcessInvariant == Spec => []IInv
BY InitIInv, IInvInductive, PTL DEF Spec

-----------------------------------------------------------------------------
(* The properties.                                                         *)

\* The type invariant of the process (main.go, poller.go, webhook.go).
THEOREM ShutdownTypeCorrect == Spec => []TypeOK
<1>1. IInv => TypeOK
  BY DEF IInv
<1> QED BY <1>1, ProcessInvariant, PTL

\* Two workers never have the same invoice, and outside a sweep there are none:
\* tick's WaitGroup is waited for on both ways out (poller.go).
THEOREM SweepsApart == Spec => []SweepsDoNotOverlap
<1>1. IInv => SweepsDoNotOverlap
  BY DEF IInv, SweepOK
<1> QED BY <1>1, ProcessInvariant, PTL

\* The receiver hears only of paid invoices, at most Retries times, and is given up
\* only after the last retry; sem holds exactly the deliveries that are
\* sending (webhook.go's deliver).
THEOREM DeliveriesAreAccounted == Spec => []DeliveriesAccounted
<1>1. IInv => DeliveriesAccounted
  BY DEF IInv, DeliveryOK
<1> QED BY <1>1, ProcessInvariant, PTL

\* Every invoice this process owes a webhook - all paid ones in memory, with PostgreSQL
\* those whose claim it was told it won - is with exactly one goroutine until that
\* starts the one delivery, and no other invoice is with any (settle's claim, its error
\* return included, and Fire, called by requests and by the poller's workers).
THEOREM OneNotifierPerPayment == Spec => []OneNotifier
<1>1. IInv => OneNotifier
  <2> SUFFICES ASSUME IInv, NEW i \in Ids
               PROVE  Cardinality({g \in Goroutines : go[g].pc = "fire" /\ go[g].id = i}) =
                        IF i \in Owed /\ delivery[i].pc = "none" THEN 1 ELSE 0
    BY DEF OneNotifier, Goroutines
  <2> DEFINE Firing == {g \in Goroutines : go[g].pc = "fire" /\ go[g].id = i}
  <2>1. CASE i \in Owed /\ delivery[i].pc = "none"
    <3>1. PICK g \in Goroutines : go[g].pc = "fire" /\ go[g].id = i
      BY <2>1 DEF IInv, FireOK
    <3>2. Firing = {g}
      BY <3>1 DEF IInv, FireOK
    <3> QED BY <2>1, <3>2, FS_Singleton
  <2>2. CASE ~(i \in Owed /\ delivery[i].pc = "none")
    <3>1. Firing = {}
      BY <2>2 DEF IInv, FireOK, Owed
    <3> QED BY <2>2, <3>1, FS_EmptySet
  <2> QED BY <2>1, <2>2
<1> QED BY <1>1, ProcessInvariant, PTL

\* No more than MaxDeliveries deliveries are sending at a time (Sender.sem).
THEOREM DeliveriesBounded == Spec => []SemBounded
<1>1. IInv => SemBounded
  BY DEF IInv
<1> QED BY <1>1, ProcessInvariant, PTL

\* A shutdown that met no time limit, begun after the poller's last sweep, leaves no
\* invoice that is owed a webhook without its finished delivery (main.go's shutdown
\* sequence).
THEOREM DrainIsComplete == Spec => []DrainLosesNothing
<1>1. IInv => DrainLosesNothing
  <2> SUFFICES ASSUME IInv, main = "exited", timedOut = {}, quiet, NEW i \in Owed
               PROVE  delivery[i].pc = "ended"
    BY DEF DrainLosesNothing
  <2>1. delivery[i].pc \in {"none", "ended"}
    BY DEF IInv, DrainOK, NoDeliveries, Owed
  <2>2. \A g \in Goroutines : ~Active(g)
    BY NobodyFires
  <2>3. delivery[i].pc # "none"
    BY <2>2, GoTyped DEF IInv, FireOK, Running
  <2> QED BY <2>1, <2>3
<1> QED BY <1>1, ProcessInvariant, PTL
=============================================================================
