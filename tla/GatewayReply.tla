---------------------------- MODULE GatewayReply ----------------------------
(***************************************************************************)
(* A gateway instance between HTTP and the bus: dispatch_and_wait hangs a  *)
(* future in the FuturePool, publishes the request and waits for it with a *)
(* hard timeout; one background coroutine, _listen_for_replies, reads the  *)
(* instance's return stream and wakes the future a reply belongs to.       *)
(*                                                                         *)
(* All of it runs in one event loop: a step of this model is what happens  *)
(* between two awaits, or what the Redis server does during one.  Replies  *)
(* come from workers that may answer a request more than once.             *)
(***************************************************************************)
EXTENDS Integers, Sequences, FiniteSets

CONSTANTS
    Requests,      \* HTTP requests, named by their trace_id
    Receipts,      \* trace_ids of SSE and WebSocket tasks of this instance
    MaxReplies,    \* bound: length of the return stream
    BatchSize,     \* count of XREADGROUP
    Mishaps,       \* the Redis calls that may raise
    MaxMishaps     \* bound: how many do

MishapKinds == {"add", "read", "parse", "ack"}

ASSUME GatewayAssumption ==
    /\ Requests \cap Receipts = {}
    /\ MaxReplies \in Nat
    /\ BatchSize \in Nat \ {0}
    /\ MaxMishaps \in Nat
    /\ Mishaps \subseteq MishapKinds

VARIABLES
    rpc,       \* where each dispatch_and_wait is
    pool,      \* FuturePool._pool: trace_ids with a future
    future,    \* each request's future: none, pending, cancelled or its reply
    sent,      \* requests on their agent's stream
    replies,   \* the return stream: the trace_id of each reply
    read,      \* the listener's group: last-delivered id
    pel,       \* replies delivered and not acknowledged
    lpc,       \* where the listener is
    batch,     \* replies of its last read, still to handle
    mishaps    \* failures so far

requestVars == <<rpc, pool, future, sent>>
streamVars == <<replies, read, pel>>
listenerVars == <<lpc, batch>>
vars == <<requestVars, streamVars, listenerVars, mishaps>>

-----------------------------------------------------------------------------
RequestStates == {"new", "sending", "waiting", "expired", "failing",
                  "answered", "timeout", "failed"}
Over == {"answered", "timeout", "failed"}
Ids == 1 .. Len(replies)

None == -2
Pending == -1
Cancelled == 0
Result(r) == future[r] \in Nat \ {0}      \* the id of the reply it holds

Goto(r, state) == rpc' = [rpc EXCEPT ![r] = state]
Mishap(k) == /\ k \in Mishaps
             /\ mishaps < MaxMishaps
             /\ mishaps' = mishaps + 1

Init == /\ rpc = [r \in Requests |-> "new"]
        /\ pool = {}
        /\ future = [r \in Requests |-> None]
        /\ sent = {}
        /\ replies = << >>
        /\ read = 0
        /\ pel = {}
        /\ lpc = "reading"
        /\ batch = << >>
        /\ mishaps = 0

-----------------------------------------------------------------------------
(* dispatch_and_wait.                                                      *)

\* The hook is in the pool before the request is on its way.
Dispatch(r) ==
    /\ rpc[r] = "new"
    /\ pool' = pool \cup {r}
    /\ future' = [future EXCEPT ![r] = Pending]
    /\ Goto(r, "sending")
    /\ UNCHANGED <<sent, streamVars, listenerVars, mishaps>>

\* XADD; a connection that breaks may have carried the request or not.
Send(r) ==
    /\ rpc[r] = "sending"
    /\ \/ /\ sent' = sent \cup {r}
          /\ Goto(r, "waiting")
          /\ UNCHANGED mishaps
       \/ /\ Mishap("add")
          /\ sent' \in {sent, sent \cup {r}}
          /\ Goto(r, "failing")
    /\ UNCHANGED <<pool, future, streamVars, listenerVars>>

\* The coroutine resumes with the reply its future holds.
Return(r) ==
    /\ rpc[r] = "waiting"
    /\ Result(r)
    /\ Goto(r, "answered")
    /\ UNCHANGED <<pool, future, sent, streamVars, listenerVars, mishaps>>

\* Mutant of TimerFires: the request waits without a timeout.
TimerFiresNever(r) == FALSE

\* The timer of wait_for cancels the coroutine, and the future if it is pending;
\* a result that arrived just before is lost with the coroutine (Python 3.12).
TimerFires(r) ==
    /\ rpc[r] = "waiting"
    /\ future' = [future EXCEPT ![r] = IF @ = Pending THEN Cancelled ELSE @]
    /\ Goto(r, "expired")
    /\ UNCHANGED <<pool, sent, streamVars, listenerVars, mishaps>>

\* Mutant of RemoveFuture: the pool is left to the reply that may still come.
RemoveFutureNot(r) == pool
RemoveFuture(r) == pool \ {r}

GiveUp(r) ==
    /\ rpc[r] = "expired"
    /\ pool' = RemoveFuture(r)
    /\ Goto(r, "timeout")
    /\ UNCHANGED <<future, sent, streamVars, listenerVars, mishaps>>

Fail(r) ==
    /\ rpc[r] = "failing"
    /\ pool' = RemoveFuture(r)
    /\ Goto(r, "failed")
    /\ UNCHANGED <<future, sent, streamVars, listenerVars, mishaps>>

-----------------------------------------------------------------------------
(* Workers answer what was sent, once or more; streaming tasks send their   *)
(* final receipt to the same stream.                                       *)

Reply(t) ==
    /\ t \in sent \cup Receipts
    /\ Len(replies) < MaxReplies
    /\ replies' = Append(replies, t)
    /\ UNCHANGED <<requestVars, read, pel, listenerVars, mishaps>>

-----------------------------------------------------------------------------
(* _listen_for_replies.                                                    *)

NextBatch == IF Len(replies) - read <= BatchSize THEN Len(replies) ELSE read + BatchSize

\* XREADGROUP; an exception here ends the coroutine, and nothing starts another.
ReadReplies ==
    /\ lpc = "reading"
    /\ \/ /\ read < Len(replies)
          /\ read' = NextBatch
          /\ pel' = pel \cup (read + 1 .. NextBatch)
          /\ batch' = [i \in 1 .. NextBatch - read |-> read + i]
          /\ lpc' = "resolving"
          /\ UNCHANGED mishaps
       \/ /\ Mishap("read")
          /\ lpc' = "dead"
          /\ UNCHANGED <<read, pel, batch>>
    /\ UNCHANGED <<requestVars, replies>>

\* Mutants of ResolveFuture: the reply goes to whoever waits; the future gets the
\* id of the reply after this one.
ResolveFutureAny(t, i) ==
    /\ future' = [r \in Requests |->
                     IF r \in pool /\ future[r] = Pending THEN i ELSE future[r]]
    /\ pool' = {}
ResolveFutureGone(t, i) == /\ future' = [future EXCEPT ![t] = Len(replies) + 1]
                           /\ pool' = pool \ {t}
ResolveFuture(t, i) ==
    /\ future' = IF t \in pool /\ future[t] = Pending
                 THEN [future EXCEPT ![t] = i] ELSE future
    /\ pool' = pool \ {t}

\* Mutant of Handled: the listener breaks off after the first reply of a batch.
HandledAll == /\ batch' = << >>
              /\ lpc' = "reading"
Handled == /\ batch' = Tail(batch)
           /\ lpc' = IF Len(batch) = 1 THEN "reading" ELSE "resolving"

\* resolve_future; a reply that cannot be parsed is logged and left pending.
Resolve ==
    /\ lpc = "resolving"
    /\ LET t == replies[Head(batch)]
       IN  \/ /\ t \in Requests
              /\ ResolveFuture(t, Head(batch))
              /\ lpc' = "acking"
              /\ UNCHANGED <<batch, mishaps>>
           \/ /\ t \in Receipts
              /\ lpc' = "acking"
              /\ UNCHANGED <<pool, future, batch, mishaps>>
           \/ /\ Mishap("parse")
              /\ Handled
              /\ UNCHANGED <<pool, future>>
    /\ UNCHANGED <<rpc, sent, streamVars>>

Acked == pel \ {Head(batch)}

AckReply ==
    /\ lpc = "acking"
    /\ \/ /\ pel' = Acked
          /\ UNCHANGED mishaps
       \/ /\ Mishap("ack")
          /\ pel' \in {pel, Acked}
    /\ Handled
    /\ UNCHANGED <<requestVars, replies, read>>

Listen == ReadReplies \/ Resolve \/ AckReply

-----------------------------------------------------------------------------
Coroutine(r) == Send(r) \/ Return(r) \/ TimerFires(r) \/ GiveUp(r) \/ Fail(r)

Next == \/ \E r \in Requests : Dispatch(r) \/ Coroutine(r)
        \/ \E t \in Requests \cup Receipts : Reply(t)
        \/ Listen

Spec == Init /\ [][Next]_vars

\* The event loop runs every coroutine that is ready, and timers fire; no
\* worker is obliged to answer, and nothing is obliged to fail.
Fairness == /\ \A r \in Requests : WF_vars(Coroutine(r))
            /\ WF_vars(Listen /\ UNCHANGED mishaps)

FairSpec == Spec /\ Fairness

-----------------------------------------------------------------------------
(* What must hold.                                                         *)

TypeOK ==
    /\ rpc \in [Requests -> RequestStates]
    /\ pool \subseteq Requests
    /\ future \in [Requests -> {None, Pending, Cancelled} \cup Ids]
    /\ sent \subseteq Requests
    /\ replies \in Seq(Requests \cup Receipts)
    /\ read \in 0 .. Len(replies)
    /\ pel \subseteq 1 .. read
    /\ lpc \in {"reading", "resolving", "acking", "dead"}
    /\ batch \in Seq(1 .. read)
    /\ lpc \in {"resolving", "acking"} <=> batch # << >>
    /\ mishaps \in 0 .. MaxMishaps

\* "Prevent memory leak / OOM caused by pending futures": the pool holds no
\* future of a request that is over, however timeouts, failures and late or
\* repeated replies interleave.
NoLeak == \A r \in pool : rpc[r] \notin Over \cup {"new"}

\* The future of a request in flight is in the pool, where its reply finds it, or
\* holds the reply: no timeout or second reply takes the hook of a live request.
Reachable == \A r \in Requests : rpc[r] \in {"sending", "waiting"} =>
    (future[r] = Pending /\ r \in pool) \/ Result(r)

\* A request is answered with a reply to its own trace_id.
OwnReply == \A r \in Requests : Result(r) => replies[future[r]] = r

\* The listener never acknowledges a reply before the future it belongs to has
\* been resolved, given up or was already answered.
Settled(i) == replies[i] \in Requests =>
    \/ future[replies[i]] \notin {None, Pending}
    \/ rpc[replies[i]] \in {"failing", "failed"}
AckedIsHandled == \A i \in 1 .. read : i \notin pel => Settled(i)

\* The first reply wins: what a future holds never changes.
FirstReplyWins == [][\A r \in Requests :
    (Result(r) \/ future[r] = Cancelled) => future'[r] = future[r]]_vars

\* Every request ends, with an answer, 504 or 500, even when the listener died.
EveryRequestEnds == \A r \in Requests : (rpc[r] = "sending") ~> (rpc[r] \in Over)

\* A reply that was published is handled and acknowledged, and does not rest in
\* the pending entries that nobody reads again, unless a Redis call raises.
RepliesAreHandled == \A i \in 1 .. MaxReplies :
    (i \in Ids) ~> (mishaps > 0 \/ (i <= read /\ i \notin pel))

-----------------------------------------------------------------------------
(* Why: the inductive strengthening of the invariants above.               *)

\* A request has a future from the moment it begins, and is sent after that.
Begun == \A r \in Requests :
    /\ rpc[r] = "new" <=> future[r] = None
    /\ rpc[r] = "new" => r \notin pool /\ r \notin sent

\* The pool holds every future that waits, but for a request that failed, and
\* none that has its reply; no future waits once the timer has fired.
Hooked == \A r \in Requests :
    /\ Result(r) => r \notin pool
    /\ future[r] = Pending => r \in pool \/ rpc[r] = "failed"
    /\ future[r] = Pending => rpc[r] \notin {"expired", "timeout"}

Asked == \A i \in Ids : replies[i] \in sent \cup Receipts

HeadSettled == lpc = "acking" => Settled(Head(batch))

\* All of it, from step to step: a future is in the pool exactly as long as a
\* reply may find it, and a reply at hand belongs to a request that was sent.
ReplyInv == /\ TypeOK
            /\ Begun
            /\ Hooked
            /\ Asked
            /\ HeadSettled
            /\ NoLeak
            /\ Reachable
            /\ OwnReply
            /\ AckedIsHandled

=============================================================================
