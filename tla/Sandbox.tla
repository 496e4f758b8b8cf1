------------------------------- MODULE Sandbox -------------------------------
(***************************************************************************)
(* The coder agent's processes (agents/coder/agent.py) and the containers  *)
(* in which they run generated code (worker/sandbox.py).  A process keeps a*)
(* pool of warm containers.  An execution is bound to its session, or to   *)
(* its trace when the caller names no session: the key                     *)
(* session_sandbox:<bind> leads the next execution of the same bind, in any*)
(* process, to the same container.  Nothing makes the GET, the connection, *)
(* the acquisition and the SET of one execution atomic.                    *)
(***************************************************************************)
EXTENDS Naturals, FiniteSets

CONSTANTS
    Nodes,         \* processes of the coder agent
    Sessions,      \* binds whose container is kept
    Traces,        \* binds whose container is destroyed at the end
    NoBind,
    PoolSize,      \* max_idle of the pool
    MaxTries,      \* attempts to get a container from the pool: 60 in the code
    SandboxTTL,    \* life of an acquired container: 30 minutes
    KeyTTL,        \* life of the key: 1 hour
    MaxBoxes,      \* bound: containers created
    Mishaps,       \* the failures considered
    MaxMishaps     \* bound: how many there are

MishapKinds == {"crash", "redis", "sandbox"}
Binds == Sessions \cup Traces
Boxes == 1 .. MaxBoxes
NoBox == 0

ASSUME SandboxAssumption ==
    /\ PoolSize \in Nat /\ MaxTries \in Nat /\ MaxBoxes \in Nat
    /\ SandboxTTL \in Nat \ {0} /\ KeyTTL \in Nat /\ SandboxTTL <= KeyTTL
    /\ Sessions \cap Traces = {}
    /\ NoBind \notin Binds
    /\ Mishaps \subseteq MishapKinds /\ MaxMishaps \in Nat

VARIABLES
    life,      \* the pool of a process: "closed", "open", or "stopped" by stop()
    pool,      \* its idle containers
    ex,        \* its execute(): the next call, the bind, is_final_step, the
               \* container it has, attempts to acquire one
    key,       \* session_sandbox:<bind>: the container and the time left
    left,      \* time a container has left; 0: none, or destroyed
    made,      \* containers created so far
    ran,       \* history: the binds whose code a running container has run
    strayed,   \* history: executions of one bind overlapped
    mishaps    \* failures so far

warm == <<life, pool>>
boxes == <<left, made, ran>>
vars == <<warm, ex, key, boxes, strayed, mishaps>>

PCs == {"idle", "connect", "forget", "acquire", "bind", "run", "kill", "unbind"}
Resting == [pc |-> "idle", bind |-> NoBind, final |-> TRUE, box |-> NoBox, tries |-> 0]
NoKey == [box |-> NoBox, left |-> 0]
Warm == UNION {pool[n] : n \in Nodes}

Init == /\ life = [n \in Nodes |-> "closed"]
        /\ pool = [n \in Nodes |-> {}]
        /\ ex = [n \in Nodes |-> Resting]
        /\ key = [x \in Binds |-> NoKey]
        /\ left = [b \in Boxes |-> 0]
        /\ made = 0
        /\ ran = [b \in Boxes |-> {}]
        /\ strayed = FALSE
        /\ mishaps = 0

Mishap(k) == /\ k \in Mishaps
             /\ mishaps < MaxMishaps
             /\ mishaps' = mishaps + 1

\* Mutant of BindId: the key is the same for all.
BindIdSame(x) == CHOOSE y \in Binds : TRUE
BindId(x) == x

Then(n, e) == ex' = [ex EXCEPT ![n] = e]
Goto(n, l) == Then(n, [ex[n] EXCEPT !.pc = l])
SetKey(n, k) == key' = [key EXCEPT ![BindId(ex[n].bind)] = k]

\* Containers that end, with what was run in them.
Ended(bs) == /\ left' = [b \in Boxes |-> IF b \in bs THEN 0 ELSE left[b]]
             /\ ran' = [b \in Boxes |-> IF b \in bs THEN {} ELSE ran[b]]

-----------------------------------------------------------------------------
(* The pool.                                                               *)

\* The SDK keeps max_idle warm containers while the pool is open.
Refill(n) == /\ life[n] = "open"
             /\ Cardinality(pool[n]) < PoolSize
             /\ made < MaxBoxes
             /\ made' = made + 1
             /\ pool' = [pool EXCEPT ![n] = @ \cup {made'}]
             /\ left' = [left EXCEPT ![made'] = SandboxTTL]
             /\ UNCHANGED <<life, ex, key, ran, strayed, mishaps>>

Open(n) == life' = [life EXCEPT ![n] = "open"]

\* CoderAgent.setup.
Start(n) == /\ life[n] = "closed"
            /\ Open(n)
            /\ UNCHANGED <<pool, ex, key, boxes, strayed, mishaps>>

\* CoderAgent.stop.  The read loop goes on.  Assumed of the SDK, whose code is not in
\* the repository: shutdown(graceful=True) ends the containers idle in the pool.
Stop(n) == /\ life[n] = "open"
           /\ life' = [life EXCEPT ![n] = "stopped"]
           /\ pool' = [pool EXCEPT ![n] = {}]
           /\ Ended(pool[n])
           /\ UNCHANGED <<ex, key, made, strayed, mishaps>>

\* What a process held in memory is lost with it; its containers live on.
Crash(n) == /\ Mishap("crash")
            /\ life' = [life EXCEPT ![n] = "closed"]
            /\ pool' = [pool EXCEPT ![n] = {}]
            /\ Then(n, Resting)
            /\ UNCHANGED <<key, boxes, strayed>>

-----------------------------------------------------------------------------
(* execute().                                                              *)

\* Starts the pool again if it was stopped, and asks for the key.  A call that
\* raises here leaves all as it was: the message is delivered again.
Execute(n) ==
    /\ ex[n].pc = "idle"
    /\ Open(n)
    /\ \E x \in Binds, final \in BOOLEAN :
           LET b == key[BindId(x)].box IN
           /\ x \in Sessions => final
           /\ Then(n, [pc |-> IF b = NoBox THEN "acquire" ELSE "connect",
                       bind |-> x, final |-> final, box |-> b, tries |-> 0])
           /\ strayed' = (strayed \/ \E m \in Nodes : ex[m].bind = x)
    /\ UNCHANGED <<pool, key, left, made, ran, mishaps>>

Renewed(k) == IF k = NoKey THEN NoKey ELSE [k EXCEPT !.left = KeyTTL]

\* Connects to the container of the key and renews the key; whatever raises, the
\* connection is given up.
Connect(n) ==
    /\ ex[n].pc = "connect"
    /\ \/ /\ left[ex[n].box] > 0
          /\ SetKey(n, Renewed(key[BindId(ex[n].bind)]))
          /\ Goto(n, "run")
          /\ UNCHANGED mishaps
       \/ /\ \/ left[ex[n].box] = 0 /\ UNCHANGED mishaps
             \/ Mishap("sandbox")
             \/ Mishap("redis")
          /\ Then(n, [ex[n] EXCEPT !.pc = "forget", !.box = NoBox])
          /\ UNCHANGED key
    /\ UNCHANGED <<warm, boxes, strayed>>

Forget(n) ==       \* DELETE, of whatever the key holds by now
    /\ ex[n].pc = "forget"
    /\ \/ /\ SetKey(n, NoKey)
          /\ Goto(n, "acquire")
          /\ UNCHANGED mishaps
       \/ /\ Mishap("redis")
          /\ SetKey(n, NoKey) \/ UNCHANGED key
          /\ Then(n, Resting)
    /\ UNCHANGED <<warm, boxes, strayed>>

Acquire(n) ==
    /\ ex[n].pc = "acquire" /\ ex[n].tries < MaxTries
    /\ \E b \in pool[n] :
           /\ pool' = [pool EXCEPT ![n] = @ \ {b}]
           /\ Then(n, [ex[n] EXCEPT !.pc = "bind", !.box = b, !.tries = 0])
    /\ UNCHANGED <<life, key, boxes, strayed, mishaps>>

\* Mutants of Tried: the attempts are not counted, or counted twice.
TriedNot(t) == t
TriedTwice(t) == t + 2
Tried(t) == t + 1

\* An empty pool: once more a second later.
Wait(n) == /\ ex[n].pc = "acquire" /\ ex[n].tries < MaxTries
           /\ life[n] = "open" /\ pool[n] = {}
           /\ Then(n, [ex[n] EXCEPT !.tries = Tried(@)])
           /\ UNCHANGED <<warm, key, boxes, strayed, mishaps>>

\* "The container pool is full", a pool that was closed, or any other exception.
GiveUp(n) == /\ ex[n].pc = "acquire"
             /\ \/ ex[n].tries = MaxTries /\ UNCHANGED mishaps
                \/ life[n] # "open" /\ UNCHANGED mishaps
                \/ Mishap("sandbox")
             /\ Then(n, Resting)
             /\ UNCHANGED <<warm, key, boxes, strayed>>

\* Mutant of Finally: a step that succeeds keeps its container, the last too.
FinallyKeeps(n, success) ==
    IF ex[n].bind \in Sessions \/ success
    THEN Then(n, Resting)
    ELSE Goto(n, "kill")

\* finally: the container of a session stays, that of a trace stays after a step
\* that succeeded and was not the last.
Finally(n, success) ==
    IF ex[n].bind \in Sessions \/ (success /\ ~ex[n].final)
    THEN Then(n, Resting)
    ELSE Goto(n, "kill")

\* Mutant of Lease: the key lives shorter than the container.
LeaseShort == SandboxTTL - 1
Lease == KeyTTL

Bind(n) ==         \* SET
    /\ ex[n].pc = "bind"
    /\ \/ /\ SetKey(n, [box |-> ex[n].box, left |-> Lease])
          /\ Goto(n, "run")
          /\ UNCHANGED mishaps
       \/ /\ Mishap("redis")
          /\ SetKey(n, [box |-> ex[n].box, left |-> Lease]) \/ UNCHANGED key
          /\ Finally(n, FALSE)
    /\ UNCHANGED <<warm, boxes, strayed>>

\* Files, interpreter, code: in the container, as long as that lives.
Run(n) ==
    /\ ex[n].pc = "run" /\ left[ex[n].box] > 0
    /\ ran' = [ran EXCEPT ![ex[n].box] = @ \cup {ex[n].bind}]
    /\ \E success \in BOOLEAN : Finally(n, success)
    /\ UNCHANGED <<warm, key, left, made, strayed, mishaps>>

Lost(n) ==
    /\ ex[n].pc = "run" /\ left[ex[n].box] = 0
    /\ Finally(n, FALSE)
    /\ UNCHANGED <<warm, key, boxes, strayed, mishaps>>

Kill(n) ==         \* what has run out may refuse, and then keeps its key
    /\ ex[n].pc = "kill"
    /\ \/ Ended({ex[n].box}) /\ Goto(n, "unbind") /\ UNCHANGED mishaps
       \/ /\ Mishap("sandbox") \/ (left[ex[n].box] = 0 /\ UNCHANGED mishaps)
          /\ Then(n, Resting) /\ UNCHANGED <<left, ran>>
    /\ UNCHANGED <<warm, key, made, strayed>>

Unbind(n) ==       \* DELETE
    /\ ex[n].pc = "unbind"
    /\ \/ SetKey(n, NoKey) /\ UNCHANGED mishaps
       \/ Mishap("redis") /\ UNCHANGED key
    /\ Then(n, Resting)
    /\ UNCHANGED <<warm, boxes, strayed>>

-----------------------------------------------------------------------------
Aged(k) == IF k.left <= 1 THEN NoKey ELSE [k EXCEPT !.left = @ - 1]

\* Half an hour: keys, and containers that are not idle in a pool, run out.
Tick == LET running == {b \in Boxes \ Warm : left[b] > 0} IN
        /\ left' = [b \in Boxes |-> IF b \in running THEN left[b] - 1 ELSE left[b]]
        /\ ran' = [b \in Boxes |-> IF left'[b] = 0 THEN {} ELSE ran[b]]
        /\ key' = [x \in Binds |-> Aged(key[x])]
        /\ UNCHANGED <<warm, ex, made, strayed, mishaps>>

Step(n) == \/ Connect(n) \/ Forget(n) \/ Acquire(n) \/ Wait(n) \/ GiveUp(n)
           \/ Bind(n) \/ Lost(n) \/ Kill(n) \/ Unbind(n)

Next == \/ Tick
        \/ \E n \in Nodes : \/ Start(n) \/ Stop(n) \/ Crash(n) \/ Refill(n)
                            \/ Execute(n) \/ Run(n) \/ Step(n)

Spec == Init /\ [][Next]_vars

\* What a process has begun it goes on with, and time passes.  Code that runs
\* may never end by itself, and the pool need not be refilled.
FairSpec == /\ Spec
            /\ WF_vars(Tick)
            /\ \A n \in Nodes : WF_vars(Step(n))

-----------------------------------------------------------------------------
(* Properties.                                                             *)

TypeOK == /\ life \in [Nodes -> {"closed", "open", "stopped"}]
          /\ pool \in [Nodes -> SUBSET Boxes]
          /\ ex \in [Nodes -> [pc : PCs, bind : Binds \cup {NoBind}, final : BOOLEAN,
                              box : Boxes \cup {NoBox}, tries : 0 .. MaxTries]]
          /\ key \in [Binds -> [box : Boxes \cup {NoBox}, left : 0 .. KeyTTL]]
          /\ left \in [Boxes -> 0 .. SandboxTTL]
          /\ made \in 0 .. MaxBoxes
          /\ ran \in [Boxes -> SUBSET Binds]
          /\ strayed \in BOOLEAN
          /\ mishaps \in 0 .. MaxMishaps

\* The code of two sessions, or of two traces, never runs in one container
\* (core/envelope.py 36, "precise isolation of sandbox memory"): under any overlap
\* of executions, expiry of keys and containers, failing call, stop and crash.
Isolation == \A b \in Boxes : \A x, y \in ran[b] : x = y

\* No container is left running that nobody can find: it is idle in the pool of
\* a process, or held by an execution, or bound by a key, which never runs out
\* before the container.  Two things break it, as the code has it: a call that
\* raises or a process that dies, and two executions of one session at a time.
NoOrphan == (mishaps = 0 /\ ~strayed) =>
                \A b \in Boxes : left[b] > 0 =>
                    \/ b \in Warm
                    \/ \E n \in Nodes : ex[n].box = b
                    \/ \E x \in Binds : key[x].box = b

\* A trace leaves no container behind: when its execution ends, the one it had and
\* the one its key names are gone, or else it succeeded before the last step and
\* keeps both (lines 220-232), whether its container was found, refused or lost.
TraceLeavesNothing ==
    [][\A n \in Nodes :
          LET e == ex[n]
              Gone(b) == b = NoBox \/ left'[b] = 0
              kept == e.pc = "run" /\ ~e.final /\ left[e.box] > 0
          IN  (e.bind \in Traces /\ ex'[n] = Resting /\ mishaps' = 0 /\ ~strayed')
                 => kept \/ (Gone(e.box) /\ Gone(key'[e.bind].box))]_vars

\* Every execution ends: with an empty pool after its last attempt, with code that
\* never ends when its container's half hour is over.
ExecutionEnds == \A n \in Nodes : ex[n].pc # "idle" ~> ex[n].pc = "idle"
=============================================================================
