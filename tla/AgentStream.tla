----------------------------- MODULE AgentStream -----------------------------
(***************************************************************************)
(* One agent's event stream: the messages published on bus:events:<agent>, *)
(* the production consumer group with its pending-entries list (PEL), the  *)
(* workers that serve it (worker/base.py), the idempotency keys they guard *)
(* a step with, and the recovery sweeper that salvages what dead workers   *)
(* left behind (orchestrator/recovery_sweeper.py).                         *)
(*                                                                         *)
(* Time is a count of ticks of the Redis server's clock, which both the    *)
(* expiry of a key and the idle time of a pending entry follow.            *)
(***************************************************************************)
EXTENDS Integers, Sequences, FiniteSets

CONSTANTS
    Traces,       \* the (trace_id, step_id) pairs an idempotency key names
    Workers,      \* the processes that consume the group
    LockTTL,      \* expiry of a PROCESSING key
    DoneTTL,      \* expiry of a COMPLETED key
    IdleTime,     \* idle_time_ms of the sweeper
    MaxRetries,   \* max_retries of the sweeper
    MaxStall,     \* bound: ticks a worker takes from delivery to SET NX
    MaxHold,      \* bound: ticks a worker takes from SET NX to its last call
    Mishaps,      \* the kinds of failure considered
    MaxMishaps    \* bound: how many failures happen in a behaviour

MishapKinds == {"worker_crash", "worker_redis", "sweeper_crash", "sweeper_redis"}

ASSUME BusAssumption ==
    /\ LockTTL \in Nat \ {0}
    /\ DoneTTL \in Nat \ {0}
    /\ IdleTime \in Nat \ {0}
    /\ MaxRetries \in Nat
    /\ MaxStall \in Nat
    /\ MaxHold \in Nat
    /\ MaxMishaps \in Nat
    /\ Mishaps \subseteq MishapKinds

VARIABLES
    stream,         \* the entries added so far; an entry's id is its index
    lastDelivered,  \* the group's last-delivered id
    pel,            \* idle time of each pending entry, by id
    lock,           \* the idempotency key of each trace
    settled,        \* traces a handler has answered
    dlq,            \* ids copied to bus:events:dlq
    wpc,            \* where each worker is in _process_raw_message
    wmsg,           \* the entry each worker works on
    wage,           \* ticks since the worker's delivery, then since its lock
    spc,            \* where the sweeper is in _process_zombie_message
    batch,          \* claimed entries the sweep has still to process
    mishaps,        \* failures so far
    takenFor,       \* history: the entry whose delivery set the key of each trace
    dropped         \* history: traces whose message was acknowledged unanswered,
                    \* as a duplicate of a recovered delivery or without its copy

busVars == <<stream, lastDelivered, pel, lock, settled, dlq>>
workerVars == <<wpc, wmsg, wage>>
sweeperVars == <<spc, batch>>
history == <<takenFor, dropped>>
vars == <<busVars, workerVars, sweeperVars, mishaps, history>>

-----------------------------------------------------------------------------
Entry == [trace : Traces, retry : 0 .. MaxRetries]
Key == [value : {"none", "PROCESSING", "COMPLETED"}, ttl : Nat]
NoLock == [value |-> "none", ttl |-> 0]
Lock(value, ttl) == [value |-> value, ttl |-> ttl]
WorkerStates == {"idle", "got", "duplicate", "handling", "replying", "acking",
                 "completing", "failing", "down"}
Holding == {"handling", "replying", "acking", "completing", "failing"}

Ids == 1 .. Len(stream)
Pending == DOMAIN pel
TraceOf(i) == stream[i].trace
Published(t) == \E i \in Ids : TraceOf(i) = t
Dead(t) == \E i \in dlq : TraceOf(i) = t

\* The zombie the sweeper works on, and whether its copy is written already.
FirstZombie(i) == i \in batch /\ \A j \in batch : i <= j
Salvaged(i) == spc \in {"ack", "errack"} /\ FirstZombie(i)

\* Mutant of Acked: XACK with the wrong group.
AckedNot(i) == pel
Acked(i) == [j \in Pending \ {i} |-> pel[j]]

\* A failure of kind k: a process that dies, or a Redis call that raises.
Mishap(k) == /\ k \in Mishaps
             /\ mishaps < MaxMishaps
             /\ mishaps' = mishaps + 1

Init == /\ stream = << >>
        /\ lastDelivered = 0
        /\ pel = [i \in {} |-> 0]
        /\ lock = [t \in Traces |-> NoLock]
        /\ settled = {}
        /\ dlq = {}
        /\ wpc = [w \in Workers |-> "idle"]
        /\ wmsg = [w \in Workers |-> 0]
        /\ wage = [w \in Workers |-> 0]
        /\ spc = "idle"
        /\ batch = {}
        /\ mishaps = 0
        /\ takenFor = [t \in Traces |-> 0]
        /\ dropped = {}

-----------------------------------------------------------------------------
(* The producer: a gateway, the planner or an earlier step adds an event.  *)

Dispatch(t) ==
    /\ ~Published(t)
    /\ stream' = Append(stream, [trace |-> t, retry |-> 0])
    /\ UNCHANGED <<lastDelivered, pel, lock, settled, dlq, workerVars, sweeperVars, mishaps, history>>

-----------------------------------------------------------------------------
(* A worker.                                                               *)

Goto(w, state) == wpc' = [wpc EXCEPT ![w] = state]

\* XREADGROUP ">" count 1: the next entry nobody was given.
Read(w) ==
    /\ wpc[w] = "idle"
    /\ lastDelivered < Len(stream)
    /\ lastDelivered' = lastDelivered + 1
    /\ pel' = [i \in Pending \cup {lastDelivered + 1} |->
                  IF i = lastDelivered + 1 THEN 0 ELSE pel[i]]
    /\ wmsg' = [wmsg EXCEPT ![w] = lastDelivered + 1]
    /\ wage' = [wage EXCEPT ![w] = 0]
    /\ Goto(w, "got")
    /\ UNCHANGED <<stream, lock, settled, dlq, sweeperVars, mishaps, history>>

\* Mutants of Free: SET without NX, and a barrier that looks for PROCESSING only.
FreeAlways(t) == TRUE
FreeUnlessProcessing(t) == lock[t].value # "PROCESSING"
Free(t) == lock[t] = NoLock

Taken(i) == /\ lock' = [lock EXCEPT ![TraceOf(i)] = Lock("PROCESSING", LockTTL)]
            /\ takenFor' = [takenFor EXCEPT ![TraceOf(i)] = i]

\* The key of t is that of a delivery the sweeper has replaced already.
Stale(t) == /\ lock[t].value = "PROCESSING"
            /\ takenFor[t] \notin Pending \/ Salvaged(takenFor[t])

\* History: the message of a task nobody has answered is given up.
GiveUp(t) == dropped' = dropped \cup ({t} \ settled)

\* SET key PROCESSING NX EX: the winner handles the event, a loser drops it.
TakeLock(w) ==
    LET t == TraceOf(wmsg[w])
    IN  /\ wpc[w] = "got"
        /\ \/ /\ Free(t)
              /\ Taken(wmsg[w])
              /\ wage' = [wage EXCEPT ![w] = 0]
              /\ Goto(w, "handling")
              /\ UNCHANGED <<mishaps, dropped>>
           \/ /\ ~Free(t)
              /\ Goto(w, "duplicate")
              /\ IF Stale(t) THEN GiveUp(t) ELSE UNCHANGED dropped
              /\ UNCHANGED <<lock, wage, mishaps, takenFor>>
           \/ /\ Mishap("worker_redis")
              /\ \/ Free(t) /\ Taken(wmsg[w])
                 \/ UNCHANGED <<lock, takenFor>>
              /\ wage' = [wage EXCEPT ![w] = 0]
              /\ Goto(w, "failing")
              /\ UNCHANGED dropped
        /\ UNCHANGED <<stream, lastDelivered, pel, settled, dlq, wmsg, sweeperVars>>

\* The idempotency barrier acknowledges the duplicate.
DropDuplicate(w) ==
    /\ wpc[w] = "duplicate"
    /\ \/ /\ pel' = Acked(wmsg[w])
          /\ Goto(w, "idle")
          /\ UNCHANGED <<wage, mishaps>>
       \/ /\ Mishap("worker_redis")
          /\ pel' \in {pel, Acked(wmsg[w])}
          /\ wage' = [wage EXCEPT ![w] = 0]
          /\ Goto(w, "failing")
    /\ UNCHANGED <<stream, lastDelivered, lock, settled, dlq, wmsg, sweeperVars, history>>

\* handle_event returns a payload, returns nothing, or raises.
HandleEvent(w) ==
    /\ wpc[w] = "handling"
    /\ \/ Goto(w, "replying") /\ UNCHANGED settled
       \/ Goto(w, "acking") /\ settled' = settled \cup {TraceOf(wmsg[w])}
       \/ Goto(w, "failing") /\ UNCHANGED settled
    /\ UNCHANGED <<stream, lastDelivered, pel, lock, dlq, wmsg, wage, sweeperVars, mishaps, history>>

\* The result is published: to the source of the event or to the next step.
RouteReply(w) ==
    LET answered == settled \cup {TraceOf(wmsg[w])}
    IN  /\ wpc[w] = "replying"
        /\ \/ /\ settled' = answered
              /\ Goto(w, "acking")
              /\ UNCHANGED mishaps
           \/ /\ Mishap("worker_redis")
              /\ settled' \in {settled, answered}
              /\ Goto(w, "failing")
        /\ UNCHANGED <<stream, lastDelivered, pel, lock, dlq, wmsg, wage, sweeperVars, history>>

Ack(w) ==
    /\ wpc[w] = "acking"
    /\ \/ /\ pel' = Acked(wmsg[w])
          /\ Goto(w, "completing")
          /\ UNCHANGED mishaps
       \/ /\ Mishap("worker_redis")
          /\ pel' \in {pel, Acked(wmsg[w])}
          /\ Goto(w, "failing")
    /\ UNCHANGED <<stream, lastDelivered, lock, settled, dlq, wmsg, wage, sweeperVars, history>>

MarkCompleted(w) ==
    LET done == [lock EXCEPT ![TraceOf(wmsg[w])] = Lock("COMPLETED", DoneTTL)]
    IN  /\ wpc[w] = "completing"
        /\ \/ /\ lock' = done
              /\ Goto(w, "idle")
              /\ UNCHANGED mishaps
           \/ /\ Mishap("worker_redis")
              /\ lock' \in {lock, done}
              /\ Goto(w, "failing")
        /\ UNCHANGED <<stream, lastDelivered, pel, settled, dlq, wmsg, wage, sweeperVars, history>>

\* The except branch: DEL key, whoever set it; its own failure is swallowed.
ReleaseLock(w) ==
    LET released == [lock EXCEPT ![TraceOf(wmsg[w])] = NoLock]
    IN  /\ wpc[w] = "failing"
        /\ \/ lock' = released /\ UNCHANGED mishaps
           \/ Mishap("worker_redis") /\ lock' \in {lock, released}
        /\ Goto(w, "idle")
        /\ UNCHANGED <<stream, lastDelivered, pel, settled, dlq, wmsg, wage, sweeperVars, history>>

\* Death, cancellation, or an exception outside the try (XREADGROUP, parsing).
WorkerCrash(w) ==
    /\ wpc[w] # "down"
    /\ Mishap("worker_crash")
    /\ Goto(w, "down")
    /\ UNCHANGED <<busVars, wmsg, wage, sweeperVars, history>>

\* A new process of the same version; it reads ">" only, never its own PEL.
WorkerRestart(w) ==
    /\ wpc[w] = "down"
    /\ Goto(w, "idle")
    /\ UNCHANGED <<busVars, wmsg, wage, sweeperVars, mishaps, history>>

WorkerStep(w) ==
    \/ Read(w) \/ TakeLock(w) \/ DropDuplicate(w) \/ HandleEvent(w) \/ RouteReply(w)
    \/ Ack(w) \/ MarkCompleted(w) \/ ReleaseLock(w) \/ WorkerRestart(w)

-----------------------------------------------------------------------------
(* The recovery sweeper.                                                   *)

Zombies == {i \in Pending : pel[i] >= IdleTime}

\* Mutant of Claimed: the sweeper takes its zombies out of the PEL at once.
ClaimedAcked == [i \in Pending \ Zombies |-> pel[i]]
Claimed == [i \in Pending |-> IF i \in Zombies THEN 0 ELSE pel[i]]

\* XAUTOCLAIM takes over every entry idle long enough and restarts its clock.
SweepClaim ==
    /\ spc = "idle"
    /\ Zombies # {}
    /\ pel' = Claimed
    /\ \/ batch' = Zombies /\ spc' = "add" /\ UNCHANGED mishaps
       \/ Mishap("sweeper_redis") /\ UNCHANGED sweeperVars
    /\ UNCHANGED <<stream, lastDelivered, lock, settled, dlq, workerVars, history>>

\* Mutant of Retriable: one retry too many.
RetriableOnceMore(i) == stream[i].retry <= MaxRetries
Retriable(i) == stream[i].retry < MaxRetries

\* Mutant of Salvage: what is out of retries is not copied to the DLQ.
SalvageForgets(i) ==
    \/ /\ Retriable(i)
       /\ stream' = Append(stream, [stream[i] EXCEPT !.retry = @ + 1])
       /\ UNCHANGED dlq
    \/ /\ ~Retriable(i)
       /\ UNCHANGED <<stream, dlq>>

\* XADD of the zombie: back to its stream, or to the DLQ after MaxRetries.
Salvage(i) ==
    \/ /\ Retriable(i)
       /\ stream' = Append(stream, [stream[i] EXCEPT !.retry = @ + 1])
       /\ UNCHANGED dlq
    \/ /\ ~Retriable(i)
       /\ dlq' = dlq \cup {i}
       /\ UNCHANGED stream

SweepAdd ==
    /\ spc = "add"
    /\ \E i \in batch :
          /\ FirstZombie(i)
          /\ \/ /\ Salvage(i)
                /\ spc' = "ack"
                /\ UNCHANGED mishaps
             \/ /\ Mishap("sweeper_redis")
                /\ \/ Salvage(i) /\ spc' = "errack"
                   \/ UNCHANGED <<stream, dlq>> /\ spc' = "blind"
    /\ UNCHANGED <<lastDelivered, pel, lock, settled, workerVars, batch, history>>

\* XACK, then the next zombie of the batch.
SweepAckHead(i) ==
    /\ FirstZombie(i)
    /\ pel' = Acked(i)
    /\ batch' = batch \ {i}
    /\ spc' = IF batch = {i} THEN "idle" ELSE "add"

SweepAck ==
    /\ spc = "ack"
    /\ \/ /\ \E i \in batch : SweepAckHead(i)
          /\ UNCHANGED mishaps
       \/ /\ Mishap("sweeper_redis")
          /\ \E i \in batch : FirstZombie(i) /\ pel' \in {pel, Acked(i)}
          /\ spc' = "errack"
          /\ UNCHANGED batch
    /\ UNCHANGED <<stream, lastDelivered, lock, settled, dlq, workerVars, history>>

\* History: an XACK of the except branch when the XADD never happened.
Forsake(i) == IF spc = "blind" THEN GiveUp(TraceOf(i)) ELSE UNCHANGED dropped

\* The XACK of the except branch, whether or not the copy was written; if it
\* raises too the batch is abandoned.
SweepErrorAck ==
    /\ spc \in {"errack", "blind"}
    /\ \/ /\ \E i \in batch : SweepAckHead(i) /\ Forsake(i)
          /\ UNCHANGED mishaps
       \/ /\ Mishap("sweeper_redis")
          /\ \E i \in batch : /\ FirstZombie(i)
                              /\ \/ pel' = Acked(i) /\ Forsake(i)
                                 \/ UNCHANGED <<pel, dropped>>
          /\ spc' = "idle"
          /\ batch' = {}
    /\ UNCHANGED <<stream, lastDelivered, lock, settled, dlq, workerVars, takenFor>>

SweeperCrash ==
    /\ spc # "idle"
    /\ Mishap("sweeper_crash")
    /\ spc' = "idle"
    /\ batch' = {}
    /\ UNCHANGED <<busVars, workerVars, history>>

SweeperStep == SweepClaim \/ SweepAdd \/ SweepAck \/ SweepErrorAck

-----------------------------------------------------------------------------
(* One tick of Redis's clock: keys run out, pending entries grow idle.     *)

Aged(w) == wpc[w] = "got" \/ wpc[w] \in Holding

Expire(k) == IF k.ttl <= 1 THEN NoLock ELSE [k EXCEPT !.ttl = @ - 1]

Tick ==
    /\ \A w \in Workers : /\ wpc[w] = "got" => wage[w] < MaxStall
                          /\ wpc[w] \in Holding => wage[w] < MaxHold
    /\ pel' = [i \in Pending |-> IF pel[i] < IdleTime THEN pel[i] + 1 ELSE pel[i]]
    /\ lock' = [t \in Traces |-> Expire(lock[t])]
    /\ wage' = [w \in Workers |-> IF Aged(w) THEN wage[w] + 1 ELSE wage[w]]
    /\ UNCHANGED <<stream, lastDelivered, settled, dlq, wpc, wmsg, sweeperVars, mishaps, history>>

-----------------------------------------------------------------------------
Next == \/ \E t \in Traces : Dispatch(t)
        \/ \E w \in Workers : WorkerStep(w) \/ WorkerCrash(w)
        \/ SweeperStep \/ SweeperCrash
        \/ Tick

Spec == Init /\ [][Next]_vars

\* Processes run, handle_event ends, dead containers are restarted, the
\* sweeper patrols and time passes; nothing is promised about failures.
Fairness == /\ \A w \in Workers : WF_vars(WorkerStep(w))
            /\ WF_vars(SweeperStep)
            /\ WF_vars(Tick)

FairSpec == Spec /\ Fairness

-----------------------------------------------------------------------------
(* What must hold.                                                         *)

Active(w) == wpc[w] \notin {"idle", "down"}

TypeOK ==
    /\ stream \in Seq(Entry)
    /\ lastDelivered \in 0 .. Len(stream)
    /\ Pending \subseteq 1 .. lastDelivered
    /\ pel \in [Pending -> 0 .. IdleTime]
    /\ lock \in [Traces -> Key]
    /\ settled \subseteq Traces
    /\ dlq \subseteq 1 .. lastDelivered
    /\ wpc \in [Workers -> WorkerStates]
    /\ wmsg \in [Workers -> 0 .. lastDelivered]
    /\ \A w \in Workers : Active(w) => wmsg[w] >= 1
    /\ wage \in [Workers -> Nat]
    /\ spc \in {"idle", "add", "ack", "errack", "blind"}
    /\ batch \subseteq 1 .. lastDelivered
    /\ mishaps \in 0 .. MaxMishaps
    /\ takenFor \in [Traces -> 0 .. lastDelivered]
    /\ dropped \subseteq Traces

\* An entry the group will still deliver, or that the sweeper can salvage.
Carrier(i) == i \in Ids /\ (i > lastDelivered \/ i \in Pending)

\* A message is lost in two ways only: a published task has been answered, or is
\* in the dead letter queue, or some entry still carries it, unless the barrier
\* dropped it for the key of a delivery already recovered, or the sweeper's
\* except branch acknowledged it uncopied. Whatever else crashes, raises,
\* expires or is dropped as a duplicate loses nothing.
NoLoss == \A t \in Traces :
    Published(t) => \/ t \in settled
                    \/ Dead(t)
                    \/ \E i \in Ids : Carrier(i) /\ TraceOf(i) = t
                    \/ t \in dropped

Busy(w) == wpc[w] \in Holding

\* Two workers are never inside the guarded part of _process_raw_message for
\* the same task: the idempotency key is a mutual exclusion.
NoOverlap == \A v, w \in Workers :
    (v # w /\ Busy(v) /\ Busy(w)) => TraceOf(wmsg[v]) # TraceOf(wmsg[w])

\* A handler that fails never removes the COMPLETED mark another delivery of
\* the task left: the mark goes only when its hour is over.
CompletedStays == [][\A t \in Traces :
    (lock[t].value = "COMPLETED" /\ lock'[t].value # "COMPLETED") => lock[t].ttl = 1]_vars

\* The sweeper moves a message and does not multiply it: beside the zombie that
\* waits for its XACK one entry carries a task, and one more for each failure.
Copies(t) == {i \in Ids : Carrier(i) /\ TraceOf(i) = t
                          /\ ~Salvaged(i)}
CopiesBounded == \A t \in Traces : Cardinality(Copies(t)) <= 1 + mishaps

\* The documentation's "zero message loss": a task that is neither answered nor
\* dead is at least still carried by an entry or in the hands of a worker.
ZeroMessageLoss == \A t \in Traces :
    Published(t) => \/ t \in settled
                    \/ Dead(t)
                    \/ \E i \in Ids : Carrier(i) /\ TraceOf(i) = t
                    \/ \E w \in Workers : Active(w) /\ TraceOf(wmsg[w]) = t

-----------------------------------------------------------------------------
(* Why no message is lost: the inductive strengthening of NoLoss.          *)

\* A copy that will be acknowledged without its task being handled.
Doomed(i) == \/ \E w \in Workers : wpc[w] = "duplicate" /\ wmsg[w] = i
             \/ Salvaged(i)

Vital(i) == Carrier(i) /\ ~Doomed(i)

Distinct == \A v, w \in Workers :
    (v # w /\ Active(v) /\ Active(w)) => wmsg[v] # wmsg[w]

Answered == \A w \in Workers :
    wpc[w] \in {"acking", "completing"} => TraceOf(wmsg[w]) \in settled

KeysLive == \A t \in Traces : lock[t].value = "none" <=> lock[t].ttl = 0

\* A COMPLETED key belongs to an answered task. A PROCESSING key was set for a
\* delivered entry that no worker is about to drop.
KeyOwner == \A t \in Traces :
    /\ lock[t].value = "COMPLETED" => t \in settled
    /\ lock[t].value = "PROCESSING" =>
          /\ takenFor[t] \in Ids
          /\ TraceOf(takenFor[t]) = t
          /\ \A w \in Workers : wmsg[w] = takenFor[t] => wpc[w] \notin {"got", "duplicate"}

SweeperState == spc = "idle" <=> batch = {}

Saved == \A t \in Traces :
    Published(t) => \/ t \in settled
                    \/ Dead(t)
                    \/ \E i \in Ids : Vital(i) /\ TraceOf(i) = t
                    \/ t \in dropped

NoLossInv == /\ TypeOK
             /\ Distinct
             /\ Answered
             /\ KeysLive
             /\ KeyOwner
             /\ SweeperState
             /\ Saved

-----------------------------------------------------------------------------
(* Why the idempotency key excludes: the strengthening of NoOverlap.       *)

\* A busy worker's key outlives what is left of the time it may take.
Held == \A w \in Workers : Busy(w) =>
    LET k == lock[TraceOf(wmsg[w])]
    IN  /\ k.value = "PROCESSING"
        /\ k.ttl + wage[w] >= LockTTL
        /\ wage[w] <= MaxHold

MutexInv == TypeOK /\ KeysLive /\ Held /\ NoOverlap

\* What it takes: handlers end before their key does, and no worker reaches its
\* except branch without owning the key that it deletes there.
QuickHandlers == MaxHold < LockTTL
OwnersRelease == "worker_redis" \notin Mishaps

-----------------------------------------------------------------------------
(* The bus implements its promise.                                         *)

Promise == INSTANCE AtLeastOnce WITH
    Tasks <- Traces,
    excused <- dropped,
    submitted <- {t \in Traces : Published(t)},
    carried <- {t \in Traces : \E i \in Ids : Vital(i) /\ TraceOf(i) = t},
    dead <- {t \in Traces : Dead(t)}

PromiseSafe == Promise!Safe
KeepsPromise == Promise!ASpec

=============================================================================
