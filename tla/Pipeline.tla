------------------------------ MODULE Pipeline ------------------------------
(***************************************************************************)
(* One goal carried through a pipeline: the planner (agents/planner)       *)
(* breaks it into tasks and writes them to the hash pipeline:<trace>, and  *)
(* each worker that completes a step moves the hash on and publishes the   *)
(* next task (WorkerBase._advance_pipeline), until the last one answers.   *)
(*                                                                         *)
(* The bus under it delivers at least once (AgentStream models it call by  *)
(* call): a message whose worker failed is published again while it has    *)
(* retries left, and the idempotency key stops copies while it is held.    *)
(***************************************************************************)
EXTENDS Integers, Sequences, Functions

CONSTANTS
    Plans,        \* what the LLM may plan: sequences of tasks
    Workers,      \* processes; each serves the streams of every agent here
    Shadow,       \* the workers started with is_shadow=True
    MaxRetries,   \* max_retries of the sweeper
    Mishaps,      \* the kinds of failure considered
    MaxMishaps    \* bound: how many failures happen in a behaviour

MishapKinds == {"crash_handling", "crash_advancing", "slow"}

ASSUME PipelineAssumption ==
    /\ \A p \in Plans : /\ p \in Seq([agent_type : STRING, step_id : Nat \ {0}])
                        /\ p # << >>
    /\ Shadow \subseteq Workers
    /\ MaxRetries \in Nat
    /\ MaxMishaps \in Nat
    /\ Mishaps \subseteq MishapKinds

VARIABLES
    msgs,      \* the messages published for this trace, in order
    given,     \* messages each consumer group has been delivered
    pending,   \* those it has not acknowledged
    key,       \* idempotency keys of each group's version
    dlq,       \* messages given up
    hash,      \* pipeline:<session>:<trace>
    replies,   \* answers published for this trace
    done,      \* steps whose handler has returned a result
    wpc,       \* where each worker is
    wmsg,      \* the message it works on
    seen,      \* its copy of the hash
    late,      \* the workers that are slow with their message
    mishaps    \* the failures so far

busVars == <<msgs, given, pending, key, dlq>>
workerVars == <<wpc, wmsg, seen, late>>
vars == <<busVars, hash, replies, done, workerVars, mishaps>>

-----------------------------------------------------------------------------
PlannerTask == [agent_type |-> "planner", step_id |-> 0]   \* no step_id: "single"
Tasks == {PlannerTask} \cup UNION {Range(p) : p \in Plans}
Groups == {"prod", "shadow"}
Group(w) == IF w \in Shadow THEN "shadow" ELSE "prod"
Ids == 1 .. Len(msgs)
Hashes == [status : {"none", "RUNNING", "SUCCESS"}, current_step : Nat, tasks : Plans \cup {<< >>}]
NoHash == [status |-> "none", current_step |-> 0, tasks |-> << >>]
WorkerStates == {"idle", "handling", "dispatching", "reading", "moving", "sending",
                 "finishing", "answering", "refusing", "acking", "completing", "failing"}

Task(w) == msgs[wmsg[w]].task
Goto(w, state) == wpc' = [wpc EXCEPT ![w] = state]
SetKey(g, t, value) == key' = [key EXCEPT ![g][t] = value]
Rest(w) == /\ Goto(w, "idle")
           /\ wmsg' = [wmsg EXCEPT ![w] = 0]
           /\ seen' = [seen EXCEPT ![w] = NoHash]
           /\ late' = late \ {w}
Publish(t, retry) == msgs' = Append(msgs, [task |-> t, retry |-> retry])

Mishap(k) == /\ k \in Mishaps
             /\ Len(mishaps) < MaxMishaps
             /\ mishaps' = Append(mishaps, k)

Init == /\ msgs = << >>
        /\ given = [g \in Groups |-> {}]
        /\ pending = [g \in Groups |-> {}]
        /\ key = [g \in Groups |-> [t \in Tasks |-> "none"]]
        /\ dlq = {}
        /\ hash = NoHash
        /\ replies = << >>
        /\ done = {}
        /\ wpc = [w \in Workers |-> "idle"]
        /\ wmsg = [w \in Workers |-> 0]
        /\ seen = [w \in Workers |-> NoHash]
        /\ late = {}
        /\ mishaps = << >>

-----------------------------------------------------------------------------
(* The goal, and a worker that takes the oldest message of a stream.       *)

Submit == /\ msgs = << >>
          /\ Publish(PlannerTask, 0)
          /\ UNCHANGED <<given, pending, key, dlq, hash, replies, done, workerVars, mishaps>>

OldestOf(g, i) == /\ i \notin given[g]
                  /\ \A j \in 1 .. i - 1 :
                        msgs[j].task.agent_type = msgs[i].task.agent_type => j \in given[g]

Free(g, t) == key[g][t] = "none"

\* XREADGROUP and SET NX; a message whose key is held is acknowledged and dropped.
Take(w) ==
    LET g == Group(w)
    IN  /\ wpc[w] = "idle"
        /\ \E i \in Ids :
              /\ OldestOf(g, i)
              /\ given' = [given EXCEPT ![g] = @ \cup {i}]
              /\ \/ /\ Free(g, msgs[i].task)
                    /\ SetKey(g, msgs[i].task, "PROCESSING")
                    /\ pending' = [pending EXCEPT ![g] = @ \cup {i}]
                    /\ wmsg' = [wmsg EXCEPT ![w] = i]
                    /\ Goto(w, "handling")
                 \/ /\ ~Free(g, msgs[i].task)
                    /\ UNCHANGED <<pending, key, wpc, wmsg>>
        /\ UNCHANGED <<msgs, dlq, hash, replies, done, seen, late, mishaps>>

-----------------------------------------------------------------------------
(* handle_event of the planner: a new plan replaces what the hash held.    *)

MakePlan(w) ==
    /\ wpc[w] = "handling"
    /\ Task(w) = PlannerTask
    /\ \/ \E p \in Plans :
             /\ hash' = [status |-> "RUNNING", current_step |-> 1, tasks |-> p]
             /\ seen' = [seen EXCEPT ![w] = hash']
             /\ Goto(w, "dispatching")
       \/ Goto(w, "refusing") /\ UNCHANGED <<hash, seen>>    \* empty goal, bad token
       \/ Goto(w, "failing") /\ UNCHANGED <<hash, seen>>     \* the LLM call raises
    /\ UNCHANGED <<busVars, replies, done, wmsg, late, mishaps>>

\* Mutant of FirstTask: the last task of the plan goes out first.
FirstTaskLast(p) == p[Len(p)]
FirstTask(p) == p[1]

DispatchStep(w) ==
    /\ wpc[w] = "dispatching"
    /\ Publish(FirstTask(seen[w].tasks), 0)
    /\ seen' = [seen EXCEPT ![w] = NoHash]
    /\ Goto(w, "acking")
    /\ UNCHANGED <<given, pending, key, dlq, hash, replies, done, wmsg, late, mishaps>>

-----------------------------------------------------------------------------
(* A step: its handler, then _advance_pipeline.                            *)

RunStep(w) ==
    /\ wpc[w] = "handling"
    /\ Task(w) # PlannerTask
    /\ \/ Goto(w, "reading") /\ done' = done \cup {Task(w).step_id}
       \/ Goto(w, "refusing") /\ UNCHANGED done     \* status "error"
       \/ Goto(w, "failing") /\ UNCHANGED done      \* handle_event raises
    /\ UNCHANGED <<busVars, hash, replies, wmsg, seen, late, mishaps>>

\* Mutant of IsLast: the comparison is off by one.
IsLastEarly(h) == h.current_step >= Len(h.tasks) - 1
IsLast(h) == h.current_step >= Len(h.tasks)

\* The first task in the plan with the next step's number.
IsNext(h, i) == /\ i \in DOMAIN h.tasks
                /\ h.tasks[i].step_id = h.current_step + 1
                /\ \A j \in 1 .. i - 1 : h.tasks[j].step_id # h.current_step + 1
HasNext(h) == \E i \in DOMAIN h.tasks : IsNext(h, i)

\* HGETALL; a hash that lacks the next step ends the pipeline without a word.
ReadHash(w) ==
    /\ wpc[w] = "reading"
    /\ \/ IsLast(hash) /\ Goto(w, "finishing") /\ UNCHANGED seen
       \/ /\ ~IsLast(hash) /\ HasNext(hash)
          /\ seen' = [seen EXCEPT ![w] = hash]
          /\ Goto(w, "moving")
       \/ ~IsLast(hash) /\ ~HasNext(hash) /\ Goto(w, "acking") /\ UNCHANGED seen
    /\ UNCHANGED <<busVars, hash, replies, done, wmsg, late, mishaps>>

\* Mutant of Moved: the pipeline does not remember where it is.
MovedNot(w) == hash
Moved(w) == [hash EXCEPT !.current_step = seen[w].current_step + 1]

MoveOn(w) ==
    /\ wpc[w] = "moving"
    /\ hash' = Moved(w)
    /\ Goto(w, "sending")
    /\ UNCHANGED <<busVars, replies, done, wmsg, seen, late, mishaps>>

SendNext(w) ==
    /\ wpc[w] = "sending"
    /\ \E i \in DOMAIN seen[w].tasks :
          IsNext(seen[w], i) /\ Publish(seen[w].tasks[i], 0)
    /\ seen' = [seen EXCEPT ![w] = NoHash]
    /\ Goto(w, "acking")
    /\ UNCHANGED <<given, pending, key, dlq, hash, replies, done, wmsg, late, mishaps>>

\* Mutant of Finished: the hash is made ready for the next goal at once.
FinishedReset == [hash EXCEPT !.status = "SUCCESS", !.current_step = 1]
Finished == [hash EXCEPT !.status = "SUCCESS"]

Finish(w) ==
    /\ wpc[w] = "finishing"
    /\ hash' = Finished
    /\ Goto(w, "answering")
    /\ UNCHANGED <<busVars, replies, done, wmsg, seen, late, mishaps>>

Reply(to, status, w) == [to |-> to, status |-> status, step |-> Task(w).step_id]

\* The final answer is built with is_shadow=False, whoever gives it.
Answer(w) ==
    /\ wpc[w] = "answering"
    /\ replies' = Append(replies, Reply("gateway", "success", w))
    /\ Goto(w, "acking")
    /\ UNCHANGED <<busVars, hash, done, wmsg, seen, late, mishaps>>

\* _route_reply of an error: to the gateway, a shadow's to the evaluation queue.
Refuse(w) ==
    /\ wpc[w] = "refusing"
    /\ replies' = Append(replies,
                    Reply(IF w \in Shadow THEN "shadow_eval" ELSE "gateway", "error", w))
    /\ Goto(w, "acking")
    /\ UNCHANGED <<busVars, hash, done, wmsg, seen, late, mishaps>>

-----------------------------------------------------------------------------
(* What every message ends with, and what failures do.                     *)

Ack(w) ==
    /\ wpc[w] = "acking"
    /\ pending' = [pending EXCEPT ![Group(w)] = @ \ {wmsg[w]}]
    /\ Goto(w, "completing")
    /\ UNCHANGED <<msgs, given, key, dlq, hash, replies, done, wmsg, seen, late, mishaps>>

MarkCompleted(w) ==
    /\ wpc[w] = "completing"
    /\ SetKey(Group(w), Task(w), "COMPLETED")
    /\ Rest(w)
    /\ UNCHANGED <<msgs, given, pending, dlq, hash, replies, done, mishaps>>

ReleaseLock(w) ==
    /\ wpc[w] = "failing"
    /\ SetKey(Group(w), Task(w), "none")
    /\ Rest(w)
    /\ UNCHANGED <<msgs, given, pending, dlq, hash, replies, done, mishaps>>

\* A worker dies while handle_event runs, or after it; a replica replaces it.
Crash(w) ==
    /\ \/ wpc[w] \in {"handling", "reading"} /\ Mishap("crash_handling")
       \/ /\ wpc[w] \notin {"idle", "handling", "reading"}
          /\ Mishap("crash_advancing")
    /\ Rest(w)
    /\ UNCHANGED <<busVars, hash, replies, done>>

\* A worker that has not finished a minute after its message was delivered.
FallBehind(w) ==
    /\ wpc[w] # "idle"
    /\ w \notin late
    /\ Mishap("slow")
    /\ late' = late \cup {w}
    /\ UNCHANGED <<busVars, hash, replies, done, wpc, wmsg, seen>>

Punctual(g) == {w \in Workers \ late : Group(w) = g /\ wpc[w] # "idle"}
WorkedOn(g, t) == \E w \in Punctual(g) : Task(w) = t
HeldBy(g, i) == \E w \in Punctual(g) : wmsg[w] = i

\* A PROCESSING key runs out: that of a dead worker, or under a slow one.
ExpireKey(g, t) ==
    /\ key[g][t] = "PROCESSING"
    /\ ~WorkedOn(g, t)
    /\ SetKey(g, t, "none")
    /\ UNCHANGED <<msgs, given, pending, dlq, hash, replies, done, workerVars, mishaps>>

\* Mutant of Retriable: one retry too many.
RetriableOnceMore(i) == msgs[i].retry <= MaxRetries
Retriable(i) == msgs[i].retry < MaxRetries

\* The sweeper looks at no key: 60000 ms after its delivery a message is idle, and the
\* key, set for 60 s after the delivery, may still be there to stop the copy.
Sweep(g, i) ==
    /\ i \in pending[g]
    /\ ~HeldBy(g, i)
    /\ pending' = [pending EXCEPT ![g] = @ \ {i}]
    /\ \/ /\ Retriable(i)
          /\ Publish(msgs[i].task, msgs[i].retry + 1)
          /\ UNCHANGED dlq
       \/ /\ ~Retriable(i)
          /\ dlq' = dlq \cup {i}
          /\ UNCHANGED msgs
    /\ UNCHANGED <<given, key, hash, replies, done, workerVars, mishaps>>

-----------------------------------------------------------------------------
WorkerStep(w) ==
    \/ Take(w) \/ MakePlan(w) \/ DispatchStep(w) \/ RunStep(w) \/ ReadHash(w)
    \/ MoveOn(w) \/ SendNext(w) \/ Finish(w) \/ Answer(w) \/ Refuse(w)
    \/ Ack(w) \/ MarkCompleted(w) \/ ReleaseLock(w)

Recover == \E g \in Groups : \/ \E t \in Tasks : ExpireKey(g, t)
                             \/ \E i \in Ids : Sweep(g, i)

Next == \/ Submit
        \/ \E w \in Workers : WorkerStep(w) \/ Crash(w) \/ FallBehind(w)
        \/ Recover

Spec == Init /\ [][Next]_vars

\* Workers run, keys expire and the sweeper patrols; failures owe nothing.
Fairness == /\ \A w \in Workers : WF_vars(WorkerStep(w))
            /\ WF_vars(Recover)

FairSpec == Spec /\ Fairness

-----------------------------------------------------------------------------
(* What must hold.                                                         *)

TypeOK ==
    /\ msgs \in Seq([task : Tasks, retry : 0 .. MaxRetries])
    /\ given \in [Groups -> SUBSET Ids]
    /\ pending \in [Groups -> SUBSET Nat] /\ \A g \in Groups : pending[g] \subseteq given[g]
    /\ key \in [Groups -> [Tasks -> {"none", "PROCESSING", "COMPLETED"}]]
    /\ dlq \subseteq Ids
    /\ hash \in Hashes
    /\ replies \in Seq([to : {"gateway", "shadow_eval"}, status : {"success", "error"}, step : Nat])
    /\ done \subseteq Nat
    /\ wpc \in [Workers -> WorkerStates]
    /\ wmsg \in [Workers -> 0 .. Len(msgs)]
    /\ seen \in [Workers -> Hashes]
    /\ late \subseteq Workers
    /\ mishaps \in Seq(Mishaps)

\* A plan as the planner's prompt asks for it: steps 1 .. n, the first one first.
WellFormed(p) == /\ p # << >>
                 /\ {p[i].step_id : i \in DOMAIN p} = 1 .. Len(p)
                 /\ p[1].step_id = 1

\* So far handlers have failed, and workers died in them, and nothing worse: no
\* worker died or lost its key once the pipeline was being moved on.
Orderly == Range(mishaps) \subseteq {"crash_handling"}

Earlier(s) == 1 .. s - 1

\* Steps run in the order of the plan: no handler is given a step before every
\* earlier one has returned its result, whatever is retried in between.
StepsInOrder == \A w \in Workers :
    (Orderly /\ wpc[w] = "handling" /\ WellFormed(hash.tasks)) =>
        Earlier(Task(w).step_id) \subseteq done

\* The log line "Pipeline executed completely": a hash that says SUCCESS had
\* every step of its plan executed.
ExecutedCompletely ==
    (hash.status = "SUCCESS" /\ WellFormed(hash.tasks)) => 1 .. Len(hash.tasks) \subseteq done

\* A successful answer is the last step's, and comes after every other step's.
AnswerIsLast == \A r \in Range(replies) :
    (Orderly /\ r.status = "success" /\ WellFormed(hash.tasks)) =>
        r.step = Len(hash.tasks) /\ ExecutedCompletely

\* Redelivered steps never take the pipeline back: its step number only grows.
CurrentStepGrows == [][
    (Orderly /\ hash.status # "none" /\ hash'.tasks = hash.tasks) =>
        hash'.current_step >= hash.current_step]_vars

\* All that is left of a step is the key of a worker that died with it: its copy came
\* before that key ran out, and was acknowledged as a duplicate.
Forgotten == \E g \in Groups, t \in Tasks :
    /\ key[g][t] = "PROCESSING" /\ ~WorkedOn(g, t)
    /\ \A i \in Ids : msgs[i].task = t => i \in given[g] \ pending[g]

\* "Ensuring recovery": as long as handlers fail, or their workers die, and nothing
\* worse happens, a goal whose plan is well formed is answered, or a message of it is
\* given up, or the sweeper's copy of a dead worker's step met that worker's key.
OrderlyGoalEnds == <>(msgs # << >>) =>
    <>(\/ replies # << >> \/ dlq # {} \/ ~Orderly
       \/ Forgotten
       \/ hash.status # "none" /\ ~WellFormed(hash.tasks))

\* The documentation's shadow mode: results of shadow workers are evaluated and
\* never returned to the user; the user's answer has production steps only.
ShadowSilent == [][\A w \in Shadow :
    (wpc[w] \in {"answering", "refusing"} /\ wpc'[w] = "acking") =>
        replies'[Len(replies')].to # "gateway"]_vars

=============================================================================
