---------------------------- MODULE ShadowRouting ----------------------------
(***************************************************************************)
(* A request's way through the supervisor to an agent, each with a         *)
(* production worker and perhaps a shadow worker that reads the same stream*)
(* in a consumer group of its own (worker/base.py, orchestrator/), and what*)
(* comes back: answers on the gateway's stream, results of shadow workers  *)
(* on bus:events:shadow_eval, which the evaluator reads                    *)
(* (utils/shadow_eval.py).  The shadow mark of a message, not the worker,  *)
(* decides where a result goes.                                            *)
(*                                                                         *)
(* What several workers do in one group, and what an outlasted key does, is*)
(* AgentStream's business: here a group has one worker, and a message whose*)
(* worker fails or dies is pending, with its key gone, until the sweeper   *)
(* takes it.                                                               *)
(***************************************************************************)
EXTENDS Naturals

CONSTANTS
    Requests,      \* trace_ids
    Desks,         \* workers of the supervisor
    Nodes,         \* workers of the agent
    Shadows,       \* the workers that are started with is_shadow=True
    MaxRetries,    \* max_retries of the sweeper
    MaxMishaps     \* bound: failures of workers and of Redis calls

Workers == Nodes \cup Desks

ASSUME RoutingAssumption ==
    /\ Nodes \cap Desks = {}
    /\ Shadows \subseteq Workers
    /\ MaxRetries \in Nat /\ MaxMishaps \in Nat

VARIABLES
    deployed,  \* the workers there are
    asked,     \* requests the gateway has sent
    todo,      \* messages a worker's group has still to deliver
    at,        \* where a worker is with its message
    hand,      \* the message it handles
    pending,   \* messages whose worker failed
    idemp,     \* requests for which a worker's idempotency key exists
    answers,   \* replies of a request on the gateway's stream
    leaked,    \* requests answered with something a shadow worker had a part in
    results,   \* on the stream shadow_eval: whose result for which request
    evaluated, \* of these, what the evaluator has shown
    stuck,     \* what stays pending there for ever
    dead,      \* the dead letter queue: requests given up, and by which group
    repeats,   \* failures of production workers after their reply was sent
    mishaps    \* failures so far

work == <<todo, at, hand, pending, idemp>>
ends == <<answers, leaked, results, evaluated, stuck, dead, repeats>>
vars == <<deployed, asked, work, ends, mishaps>>

NoMessage == [req |-> "none"]
Names == {"agent", "supervisor", "nobody"}     \* what an LLM may answer

Mishap == mishaps < MaxMishaps /\ mishaps' = mishaps + 1

Init == /\ deployed \in {(Workers \ Shadows) \cup W : W \in SUBSET Shadows}
        /\ asked = {}
        /\ todo = [w \in Workers |-> {}]
        /\ at = [w \in Workers |-> "idle"]
        /\ hand = [w \in Workers |-> NoMessage]
        /\ pending = [w \in Workers |-> {}]
        /\ idemp = [w \in Workers |-> {}]
        /\ answers = [r \in Requests |-> 0]
        /\ leaked = {} /\ results = {} /\ evaluated = {} /\ stuck = {} /\ dead = {}
        /\ repeats = 0 /\ mishaps = 0

\* XADD: every group of the stream is given the message.
Publish(group, m) ==
    todo' = [w \in Workers |-> IF w \in group \cap deployed THEN todo[w] \cup {m}
                                                           ELSE todo[w]]

GroupOf(w) == IF w \in Desks THEN Desks ELSE Nodes
At(w, l) == at' = [at EXCEPT ![w] = l]

Ask(r) == /\ r \notin asked
          /\ asked' = asked \cup {r}
          /\ Publish(Desks, [req |-> r, mark |-> FALSE, shadow |-> FALSE,
                             retries |-> 0, via |-> "gateway"])
          /\ UNCHANGED <<deployed, at, hand, pending, idemp, ends, mishaps>>

-----------------------------------------------------------------------------
(* A worker: _process_raw_message.                                         *)

\* Mutants of KeyHolders: no key, or one without the version.
KeyHoldersNone(w) == {}
KeyHolders(w) == {w}       \* the key has the worker's version

Marked(w, m) == [m EXCEPT !.mark = @ \/ w \in Shadows,
                          !.shadow = @ \/ w \in Shadows]

Take(w) ==
    /\ at[w] = "idle"
    /\ \E m \in todo[w] :
           /\ todo' = [todo EXCEPT ![w] = @ \ {m}]
           /\ \/ /\ m.req \notin idemp[w]
                 /\ idemp' = [v \in Workers |->
                                  IF v \in KeyHolders(w) THEN idemp[v] \cup {m.req}
                                                         ELSE idemp[v]]
                 /\ hand' = [hand EXCEPT ![w] = m]
                 /\ At(w, "handling")
              \/ /\ m.req \in idemp[w]                       \* a duplicate
                 /\ UNCHANGED <<idemp, hand, at>>
    /\ UNCHANGED <<deployed, asked, pending, ends, mishaps>>

\* Mutant of ToEvaluator: where a result goes depends on the worker.
ToEvaluatorWorker(w, m) == w \in Shadows
ToEvaluator(w, m) == m.mark

\* _route_reply.
Reply(w) ==
    LET m == Marked(w, hand[w]) IN
    /\ IF ToEvaluator(w, m)
       THEN results' = results \cup {<<m.req, w>>} /\ UNCHANGED <<answers, leaked>>
       ELSE /\ answers' = [answers EXCEPT ![m.req] = @ + 1]
            /\ leaked' = IF m.shadow THEN leaked \cup {m.req} ELSE leaked
            /\ UNCHANGED results
    /\ At(w, "replied")
    /\ UNCHANGED <<deployed, asked, todo, hand, pending, idemp, evaluated,
                   stuck, dead, repeats, mishaps>>

Target(name) == IF name \in {"agent", "supervisor"} THEN name ELSE "supervisor"

\* A desk: no agent fits, also when the LLM fails or invents a name ...
Decline(w) == /\ w \in Desks /\ at[w] = "handling"
              /\ \E name \in Names : Target(name) = "supervisor"
              /\ Reply(w)

\* ... or the message goes on to the agent, with its source and its mark.
Forward(w) ==
    /\ w \in Desks /\ at[w] = "handling"
    /\ \E name \in Names :
           /\ Target(name) # "supervisor"
           /\ Publish(IF Target(name) = "agent" THEN Nodes ELSE {},
                      [Marked(w, hand[w]) EXCEPT !.retries = 0, !.via = w])
    /\ At(w, "replied")
    /\ UNCHANGED <<deployed, asked, hand, pending, idemp, ends, mishaps>>

Serve(w) == /\ w \in Nodes /\ at[w] = "handling"
            /\ Reply(w)

Finish(w) == /\ at[w] = "replied"
             /\ At(w, "idle")
             /\ hand' = [hand EXCEPT ![w] = NoMessage]
             /\ UNCHANGED <<deployed, asked, todo, pending, idemp, ends,
                            mishaps>>

\* The handler or a call raises, or the process dies: the message stays pending and
\* its key goes, deleted by the except branch or expired.
Fail(w) ==
    /\ at[w] # "idle"
    /\ Mishap
    /\ pending' = [pending EXCEPT ![w] = @ \cup {hand[w]}]
    /\ idemp' = [v \in Workers |->
                     IF v \in KeyHolders(w) THEN idemp[v] \ {hand[w].req} ELSE idemp[v]]
    /\ hand' = [hand EXCEPT ![w] = NoMessage]
    /\ At(w, "idle")
    /\ repeats' = repeats + (IF at[w] = "replied" /\ w \notin Shadows THEN 1 ELSE 0)
    /\ UNCHANGED <<deployed, asked, todo, answers, leaked, results, evaluated, stuck,
                   dead>>

-----------------------------------------------------------------------------
(* The sweeper, for every registered group: a copy goes to the stream, and *)
(* so to all groups of it.                                                 *)

\* Mutant of Spent: one more.
SpentLater(m) == m.retries > MaxRetries
Spent(m) == m.retries >= MaxRetries

Sweep(w) ==
    /\ \E m \in pending[w] :
           /\ pending' = [pending EXCEPT ![w] = @ \ {m}]
           /\ \/ /\ Spent(m)
                 /\ dead' = dead \cup {<<m.req, w>>}
                 /\ UNCHANGED todo
              \/ /\ ~Spent(m)
                 /\ Publish(GroupOf(w), [m EXCEPT !.retries = @ + 1, !.via = w])
                 /\ UNCHANGED dead
    /\ UNCHANGED <<deployed, asked, at, hand, idemp, answers, leaked, results,
                   evaluated, stuck, repeats, mishaps>>

-----------------------------------------------------------------------------
(* The evaluator.                                                          *)

\* A result is shown, then acknowledged; one whose XACK raises stays pending.
Evaluate ==
    /\ \E x \in results \ evaluated :
           /\ evaluated' = evaluated \cup {x}
           /\ \/ UNCHANGED <<stuck, mishaps>>
              \/ Mishap /\ stuck' = stuck \cup {x}
    /\ UNCHANGED <<deployed, asked, work, answers, leaked, results, dead,
                   repeats>>

Step(w) == Take(w) \/ Decline(w) \/ Forward(w) \/ Serve(w) \/ Finish(w)

Next == \/ \E r \in Requests : Ask(r)
        \/ \E w \in Workers : Step(w) \/ Fail(w) \/ Sweep(w)
        \/ Evaluate

Spec == Init /\ [][Next]_vars

\* Processes go on with what they have begun, and are started again when they end.
FairSpec == /\ Spec
            /\ \A w \in Workers : WF_vars(Step(w)) /\ WF_vars(Sweep(w))
            /\ WF_vars(Evaluate)

-----------------------------------------------------------------------------
(* Properties.                                                             *)

Messages == [req : Requests, mark : BOOLEAN, shadow : BOOLEAN,
             retries : 0 .. MaxRetries, via : Workers \cup {"gateway"}]

TypeOK == /\ deployed \subseteq Workers
          /\ asked \subseteq Requests
          /\ todo \in [Workers -> SUBSET Messages]
          /\ at \in [Workers -> {"idle", "handling", "replied"}]
          /\ hand \in [Workers -> Messages \cup {NoMessage}]
          /\ pending \in [Workers -> SUBSET Messages]
          /\ idemp \in [Workers -> SUBSET Requests]
          /\ answers \in [Requests -> Nat]
          /\ leaked \subseteq Requests
          /\ results \subseteq Requests \X Workers
          /\ evaluated \subseteq results
          /\ stuck \subseteq evaluated
          /\ dead \subseteq Requests \X Workers
          /\ repeats \in 0 .. MaxMishaps
          /\ mishaps \in 0 .. MaxMishaps

\* What a shadow worker had a part in, as the desk that forwarded it or as the
\* agent that handled it, never reaches the gateway's stream (README 96, "never
\* returned to the user"), through all retries and copies: the mark goes with the
\* message (supervisor.py 64) and decides the stream of the result (base.py 227).
ShadowHidden == leaked = {}

\* A shadow worker that fails has its message copied to the stream all groups
\* read: the production worker is given it again, and answers no second time.
\* Only its own failures after a reply repeat an answer.
AnsweredOnce == \A r \in Requests : answers[r] <= 1 + repeats


=============================================================================
