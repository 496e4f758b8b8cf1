------------------------- MODULE ShadowRoutingProofs -------------------------
(***************************************************************************)
(* Proofs about the shadow mark: for any number of requests, supervisors,  *)
(* agents, shadow workers, retries and failures.                           *)
(***************************************************************************)
EXTENDS ShadowRouting, TLAPS

USE RoutingAssumption DEF RoutingAssumption

\* A busy worker has a message, and every repetition was a mishap.
Typed == /\ TypeOK
         /\ \A w \in Workers : at[w] # "idle" => hand[w] \in Messages
         /\ repeats <= mishaps

\* XADD puts messages where messages belong.
LEMMA PublishType == ASSUME TypeOK, NEW group, NEW m \in Messages, Publish(group, m)
                     PROVE  todo' \in [Workers -> SUBSET Messages]
  BY DEF TypeOK, Publish

\* A message with other retries and from elsewhere is a message.
LEMMA CopyType == ASSUME NEW w \in Workers, NEW m \in Messages, NEW n \in 0 .. MaxRetries
                  PROVE  [m EXCEPT !.retries = n, !.via = w] \in Messages
<1>1. [m EXCEPT !.retries = n] \in Messages
  BY DEF Messages
<1>2. [[m EXCEPT !.retries = n] EXCEPT !.via = w] \in Messages
  BY <1>1 DEF Messages
<1>3. [[m EXCEPT !.retries = n] EXCEPT !.via = w] = [m EXCEPT !.retries = n, !.via = w]
  OBVIOUS
<1> QED
  BY <1>2, <1>3

\* What a handler reads of its message, and what the sweeper makes of a copy.
LEMMA MessageType == ASSUME NEW w \in Workers, NEW m \in Messages
                     PROVE  /\ m.req \in Requests /\ m.shadow \in BOOLEAN
                            /\ Marked(w, m) \in Messages
                            /\ Marked(w, m).req = m.req
                            /\ [Marked(w, m) EXCEPT !.retries = 0, !.via = w] \in Messages
                            /\ ~Spent(m) => [m EXCEPT !.retries = @ + 1, !.via = w] \in Messages
<1>1. /\ m.req \in Requests /\ m.shadow \in BOOLEAN /\ m.mark \in BOOLEAN
      /\ m.retries \in 0 .. MaxRetries /\ m.via \in Workers \cup {"gateway"}
  BY DEF Messages
<1>2. (m.mark \/ w \in Shadows) \in BOOLEAN /\ (m.shadow \/ w \in Shadows) \in BOOLEAN
  BY Zenon
<1>3. Marked(w, m) \in Messages /\ Marked(w, m).req = m.req
  BY <1>1, <1>2 DEF Marked, Messages
<1>4. [Marked(w, m) EXCEPT !.retries = 0, !.via = w] \in Messages
  <2>1. 0 \in 0 .. MaxRetries
    OBVIOUS
  <2> QED
    BY <1>3, <2>1, CopyType
<1>5. ~Spent(m) => [m EXCEPT !.retries = @ + 1, !.via = w] \in Messages
  <2>1. ~Spent(m) => m.retries + 1 \in 0 .. MaxRetries
    BY <1>1 DEF Spent
  <2>2. [m EXCEPT !.retries = @ + 1, !.via = w] = [m EXCEPT !.retries = m.retries + 1, !.via = w]
    BY DEF Messages
  <2> QED
    BY <2>1, <2>2, CopyType
<1> QED
  BY <1>1, <1>3, <1>4, <1>5

LEMMA TypedInit == Init => Typed
  BY DEF Init, Typed, TypeOK, Messages, NoMessage

\* What holds of the queues and of the workers.
Flow == /\ todo \in [Workers -> SUBSET Messages]
        /\ pending \in [Workers -> SUBSET Messages]
        /\ at \in [Workers -> {"idle", "handling", "replied"}]
        /\ hand \in [Workers -> Messages \cup {NoMessage}]
        /\ idemp \in [Workers -> SUBSET Requests]
        /\ \A w \in Workers : at[w] # "idle" => hand[w] \in Messages

\* What holds of the results.
Yield == /\ answers \in [Requests -> Nat]
         /\ leaked \subseteq Requests
         /\ results \subseteq Requests \X Workers
         /\ evaluated \subseteq results
         /\ stuck \subseteq evaluated
         /\ dead \subseteq Requests \X Workers

Counts == /\ repeats \in 0 .. MaxMishaps
          /\ mishaps \in 0 .. MaxMishaps
          /\ repeats <= mishaps

LEMMA Parts == Typed <=> deployed \subseteq Workers /\ asked \subseteq Requests /\ Flow /\ Yield /\ Counts
  BY DEF Typed, TypeOK, Flow, Yield, Counts

LEMMA FlowStep == ASSUME Typed, [Next]_vars PROVE Flow'
<1>0. Flow /\ TypeOK
  BY Parts DEF Typed
<1>1. ASSUME NEW r \in Requests, Ask(r) PROVE Flow'
  <2>1. [req |-> r, mark |-> FALSE, shadow |-> FALSE, retries |-> 0, via |-> "gateway"] \in Messages
    BY DEF Messages
  <2> QED
    BY <1>0, <1>1, <2>1, PublishType DEF Ask, Flow
<1>2. ASSUME NEW w \in Workers, Take(w) PROVE Flow'
  <2>1. PICK m \in todo[w] : Take(w)!2!(m)
    BY <1>2 DEF Take
  <2>2. m \in Messages /\ m.req \in Requests
    BY <1>0, <2>1, MessageType DEF Flow
  <2> QED
    BY <1>0, <1>2, <2>1, <2>2 DEF Take, Flow, At
<1>3. ASSUME NEW w \in Workers, Reply(w), at[w] = "handling" PROVE Flow'
  BY <1>0, <1>3 DEF Reply, Flow, At
<1>4. ASSUME NEW w \in Workers, Forward(w) PROVE Flow'
  <2>1. [Marked(w, hand[w]) EXCEPT !.retries = 0, !.via = w] \in Messages
    BY <1>0, <1>4, MessageType DEF Flow, Forward
  <2>2. todo' \in [Workers -> SUBSET Messages]
    BY <1>0, <1>4, <2>1, PublishType DEF Forward
  <2> QED
    BY <1>0, <1>4, <2>2 DEF Forward, Flow, At
<1>5. ASSUME NEW w \in Workers, Finish(w) PROVE Flow'
  BY <1>0, <1>5 DEF Finish, Flow, At
<1>6. ASSUME NEW w \in Workers, Fail(w) PROVE Flow'
  BY <1>0, <1>6 DEF Fail, Flow, At
<1>7. ASSUME NEW w \in Workers, Sweep(w) PROVE Flow'
  <2>1. PICK m \in pending[w] : Sweep(w)!1!(m)
    BY <1>7 DEF Sweep
  <2>2. m \in Messages
    BY <1>0, <2>1 DEF Flow
  <2>3. todo' \in [Workers -> SUBSET Messages]
    BY <1>0, <2>1, <2>2, MessageType, PublishType DEF Flow
  <2> QED
    BY <1>0, <1>7, <2>1, <2>3 DEF Sweep, Flow
<1>8. CASE Evaluate \/ UNCHANGED vars
  BY <1>0, <1>8 DEF Evaluate, vars, work, Flow
<1> QED
  BY <1>1, <1>2, <1>3, <1>4, <1>5, <1>6, <1>7, <1>8 DEF Next, Step, Decline, Serve

LEMMA YieldStep == ASSUME Typed, [Next]_vars PROVE Yield'
<1>0. Flow /\ Yield
  BY Parts
<1>1. ASSUME NEW w \in Workers, Reply(w), at[w] = "handling" PROVE Yield'
  <2>1. hand[w] \in Messages
    BY <1>0, <1>1 DEF Flow
  <2>2. Marked(w, hand[w]).req \in Requests
    BY <2>1, MessageType
  <2> QED
    BY <1>0, <1>1, <2>2 DEF Reply, Yield
<1>2. ASSUME NEW w \in Workers, Sweep(w) PROVE Yield'
  <2>1. PICK m \in pending[w] : Sweep(w)!1!(m)
    BY <1>2 DEF Sweep
  <2>2. m.req \in Requests
    BY <1>0, <2>1, MessageType DEF Flow
  <2> QED
    BY <1>0, <1>2, <2>1, <2>2 DEF Sweep, Yield
<1>3. CASE Evaluate
  BY <1>0, <1>3 DEF Evaluate, Yield
<1>4. CASE UNCHANGED ends
  BY <1>0, <1>4 DEF ends, Yield
<1>5. ASSUME NEW w \in Workers, Take(w) \/ Forward(w) \/ Finish(w) \/ Fail(w) PROVE Yield'
  BY <1>0, <1>5 DEF Take, Forward, Finish, Fail, ends, Yield
<1> QED
  BY <1>1, <1>2, <1>3, <1>4, <1>5 DEF Next, Step, Decline, Serve, Ask, vars, ends

LEMMA CountsStep == ASSUME Typed, [Next]_vars PROVE Counts'
<1>1. \/ UNCHANGED <<repeats, mishaps>>
      \/ Mishap /\ UNCHANGED repeats
      \/ Mishap /\ \E w \in Workers :
             repeats' = repeats + (IF at[w] = "replied" /\ w \notin Shadows THEN 1 ELSE 0)
  BY Zenon DEF Next, Step, vars, ends, Ask, Take, Decline, Forward, Serve, Reply, Finish, Fail, Sweep,
     Evaluate
<1> QED
  BY <1>1, Parts DEF Counts, Mishap

LEMMA TypedStep == Typed /\ [Next]_vars => Typed'
<1> SUFFICES ASSUME Typed, [Next]_vars PROVE Typed'
  OBVIOUS
<1>1. deployed' = deployed
  BY Zenon DEF Next, Step, vars, Ask, Take, Decline, Forward, Serve, Reply, Finish, Fail, Sweep, Evaluate
<1>2. asked' \subseteq Requests
  <2>1. UNCHANGED asked \/ \E r \in Requests : asked' = asked \cup {r}
    BY Zenon DEF Next, Step, vars, Ask, Take, Decline, Forward, Serve, Reply, Finish, Fail, Sweep, Evaluate
  <2> QED
    BY <2>1, Parts
<1>3. deployed \subseteq Workers
  BY Parts
<1> QED
  BY <1>1, <1>2, <1>3, FlowStep, YieldStep, CountsStep DEF Typed, TypeOK, Flow, Yield, Counts

THEOREM AlwaysTyped == Spec => []Typed
  BY TypedInit, TypedStep, PTL DEF Spec

\* Every variable of the shadow routing keeps its type.
THEOREM TypeCorrect == Spec => []TypeOK
<1>1. Typed => TypeOK
  BY DEF Typed
<1> QED
  BY <1>1, AlwaysTyped, PTL

-----------------------------------------------------------------------------
\* Wherever a message is that a shadow worker had a part in, it is marked.
Branded == /\ \A w \in Workers : \A m \in todo[w] \cup pending[w] : m.shadow => m.mark
           /\ \A w \in Workers : at[w] # "idle" => (hand[w].shadow => hand[w].mark)
           /\ leaked = {}

\* A worker marks the message when it has a part in it, and neither a retry nor a
\* copy takes the mark away.
LEMMA MarkKept == ASSUME NEW w \in Workers, NEW m \in Messages, m.shadow => m.mark
                  PROVE  /\ Marked(w, m).shadow => Marked(w, m).mark
                         /\ LET c == [Marked(w, m) EXCEPT !.retries = 0, !.via = w]
                            IN  c.shadow => c.mark
                         /\ LET c == [m EXCEPT !.retries = @ + 1, !.via = w]
                            IN  c.shadow => c.mark
  BY DEF Marked, Messages

LEMMA BrandedStep == Typed /\ Branded /\ [Next]_vars => Branded'
<1> SUFFICES ASSUME Typed, Branded, [Next]_vars PROVE Branded'
  OBVIOUS
<1>0. Flow
  BY Parts
<1>1. ASSUME NEW r \in Requests, Ask(r) PROVE Branded'
  BY <1>0, <1>1 DEF Ask, Publish, ends, Branded, Flow
<1>2. ASSUME NEW w \in Workers, Take(w) PROVE Branded'
  BY <1>0, <1>2 DEF Take, At, ends, Branded, Flow
<1>3. ASSUME NEW w \in Workers, Reply(w), at[w] = "handling" PROVE Branded'
  <2>1. Marked(w, hand[w]).shadow => Marked(w, hand[w]).mark
    BY <1>0, <1>3, MarkKept DEF Branded, Flow
  <2>2. leaked' = {}
    BY <1>3, <2>1 DEF Reply, ToEvaluator, Branded
  <2> QED
    BY <1>0, <1>3, <2>2 DEF Reply, At, Branded, Flow
<1>4. ASSUME NEW w \in Workers, Forward(w) PROVE Branded'
  <2> DEFINE c == [Marked(w, hand[w]) EXCEPT !.retries = 0, !.via = w]
  <2>1. c.shadow => c.mark
    BY <1>0, <1>4, MarkKept DEF Forward, Branded, Flow
  <2>2. \A v \in Workers : todo'[v] \subseteq todo[v] \cup {c}
    BY <1>4 DEF Forward, Publish
  <2> HIDE DEF c
  <2> QED
    BY <1>0, <1>4, <2>1, <2>2 DEF Forward, At, ends, Branded, Flow
<1>5. ASSUME NEW w \in Workers, Finish(w) PROVE Branded'
  BY <1>0, <1>5 DEF Finish, At, ends, Branded, Flow
<1>6. ASSUME NEW w \in Workers, Fail(w) PROVE Branded'
  BY <1>0, <1>6 DEF Fail, At, Branded, Flow
<1>7. ASSUME NEW w \in Workers, Sweep(w) PROVE Branded'
  <2>1. PICK m \in pending[w] : Sweep(w)!1!(m)
    BY <1>7 DEF Sweep
  <2> DEFINE c == [m EXCEPT !.retries = @ + 1, !.via = w]
  <2>2. c.shadow => c.mark
    BY <1>0, <2>1, MarkKept DEF Branded, Flow
  <2>3. \A v \in Workers : todo'[v] \subseteq todo[v] \cup {c}
    BY <1>0, <2>1 DEF Publish, Flow
  <2> HIDE DEF c
  <2> QED
    BY <1>0, <1>7, <2>1, <2>2, <2>3 DEF Sweep, Branded, Flow
<1>8. CASE Evaluate \/ UNCHANGED vars
  BY <1>0, <1>8 DEF Evaluate, vars, work, ends, Branded, Flow
<1> QED
  BY <1>1, <1>2, <1>3, <1>4, <1>5, <1>6, <1>7, <1>8 DEF Next, Step, Decline, Serve

\* Nothing a shadow worker had a part in reaches the user, whatever is forwarded,
\* fails, is copied and is delivered again.
THEOREM NothingLeaks == Spec => []ShadowHidden
<1>1. Init => Branded
  BY DEF Init, Branded
<1>2. Branded => ShadowHidden
  BY DEF Branded, ShadowHidden
<1> QED
  BY <1>1, <1>2, BrandedStep, AlwaysTyped, PTL DEF Spec

-----------------------------------------------------------------------------
(* How often a request is answered.  A group has one production worker;    *)
(* what it still may answer is counted together with what it has.          *)

OneEach == /\ \A v, w \in Desks \ Shadows : v = w
           /\ \A v, w \in Nodes \ Shadows : v = w

\* A worker may still answer r: it has no key of it, or is about to answer.
Left(w, r) == r \notin idemp[w] \/ (at[w] = "handling" /\ hand[w].req = r)

\* An agent, in production or not, has a message of r that leads to the gateway.
Real(m, r) == m.req = r /\ ~m.mark
Waiting(r) == \E w \in Nodes : \/ \E m \in todo[w] \cup pending[w] : Real(m, r)
                               \/ at[w] # "idle" /\ Real(hand[w], r)

DeskMay(r) == \E w \in Desks \ Shadows : Left(w, r)
NodeMay(r) == Waiting(r) /\ \E w \in Nodes \ Shadows : Left(w, r)
Chances(r) == answers[r] + (IF DeskMay(r) THEN 1 ELSE 0) + (IF NodeMay(r) THEN 1 ELSE 0)

Keyed == \A w \in Workers : at[w] # "idle" => hand[w].req \in idemp[w]

OnceInv == /\ Keyed
           /\ \A r \in Requests : Chances(r) <= 1 + repeats

\* The ways a step keeps the count: nobody gains; a worker that answers, or a desk
\* that forwards, has no more chance; a failure after a reply pays for a new one.
Paid(r) ==
    \/ /\ answers'[r] = answers[r] /\ repeats' >= repeats
       /\ (DeskMay(r)' => DeskMay(r)) /\ (NodeMay(r)' => NodeMay(r))
    \/ /\ answers'[r] = answers[r] + 1 /\ repeats' = repeats
       /\ \/ DeskMay(r) /\ ~DeskMay(r)' /\ (NodeMay(r)' => NodeMay(r))
          \/ NodeMay(r) /\ ~NodeMay(r)' /\ (DeskMay(r)' => DeskMay(r))
    \/ /\ answers'[r] = answers[r] /\ repeats' = repeats
       /\ DeskMay(r) /\ ~DeskMay(r)'
    \/ /\ answers'[r] = answers[r] /\ repeats' = repeats + 1
       /\ (DeskMay(r)' => DeskMay(r)) \/ (NodeMay(r)' => NodeMay(r))

LEMMA CountKept == ASSUME Typed, Typed', NEW r \in Requests, Chances(r) <= 1 + repeats, Paid(r)
                   PROVE  Chances(r)' <= 1 + repeats'
<1> DEFINE D == IF DeskMay(r) THEN 1 ELSE 0
           N == IF NodeMay(r) THEN 1 ELSE 0
<1>1. /\ answers[r] \in Nat /\ answers'[r] \in Nat /\ repeats \in Nat /\ repeats' \in Nat
      /\ Chances(r) = answers[r] + D + N /\ Chances(r)' = answers'[r] + D' + N'
  BY DEF Typed, TypeOK, Chances
<1>2. /\ D \in {0, 1} /\ (DeskMay(r) => D = 1) /\ (~DeskMay(r) => D = 0)
      /\ D' \in {0, 1} /\ (DeskMay(r)' => D' = 1) /\ (~DeskMay(r)' => D' = 0)
      /\ N \in {0, 1} /\ (NodeMay(r) => N = 1) /\ (~NodeMay(r) => N = 0)
      /\ N' \in {0, 1} /\ (NodeMay(r)' => N' = 1) /\ (~NodeMay(r)' => N' = 0)
  BY Zenon
<1> HIDE DEF D, N
<1>3. answers'[r] + D' + N' <= 1 + repeats'
  BY <1>1, <1>2 DEF Paid
<1> QED
  BY <1>1, <1>3

LEMMA KeyedStep == ASSUME Typed, Keyed, [Next]_vars
                   PROVE  Keyed'
<1>0. Flow
  BY Parts
<1>1. ASSUME NEW w \in Workers, Take(w)
      PROVE  Keyed'
  BY <1>0, <1>1 DEF Take, KeyHolders, At, Keyed, Flow
<1>2. ASSUME NEW w \in Workers, at[w] = "handling", At(w, "replied"), UNCHANGED <<hand, idemp>>
      PROVE  Keyed'
  BY <1>0, <1>2 DEF At, Keyed, Flow
<1>3. ASSUME NEW w \in Workers, Finish(w)
      PROVE  Keyed'
  BY <1>0, <1>3 DEF Finish, At, Keyed, Flow
<1>4. ASSUME NEW w \in Workers, Fail(w)
      PROVE  Keyed'
  BY <1>0, <1>4 DEF Fail, KeyHolders, At, Keyed, Flow
<1>5. CASE UNCHANGED <<at, hand, idemp>>
  BY <1>5 DEF Keyed
<1>6. ASSUME NEW w \in Workers, Decline(w) \/ Serve(w) \/ Forward(w)
      PROVE  Keyed'
  BY <1>2, <1>6, Zenon DEF Decline, Serve, Forward, Reply
<1> QED
  BY <1>1, <1>3, <1>4, <1>5, <1>6, Zenon DEF Next, Step, Ask, Sweep, Evaluate, work, vars

\* A step of w leaves the other workers' chances alone.
LEMMA OthersLeft == ASSUME NEW r, NEW w \in Workers,
                           \A v \in Workers \ {w} : UNCHANGED <<at[v], hand[v], idemp[v]>>
                    PROVE  \A v \in Workers \ {w} : Left(v, r)' <=> Left(v, r)
  BY DEF Left

\* ... and if it gains no chance itself, and no agent a message, nobody gains.
LEMMA NobodyGains == ASSUME NEW r, NEW w \in Workers, w \notin Shadows => (Left(w, r)' => Left(w, r)),
                            \A v \in Workers \ {w} : Left(v, r)' <=> Left(v, r)
                     PROVE  /\ DeskMay(r)' => DeskMay(r)
                            /\ (Waiting(r)' => Waiting(r)) => (NodeMay(r)' => NodeMay(r))
  BY DEF DeskMay, NodeMay, Workers

LEMMA AskPays == ASSUME Typed, NEW q \in Requests, Ask(q), NEW r \in Requests
                 PROVE  Paid(r)
<1>0. Flow /\ repeats \in Nat
  BY Parts DEF Counts
<1>1. UNCHANGED <<at, hand, pending, idemp, answers, repeats>>
  BY <1>0 DEF Ask, ends
<1>2. \A v \in Nodes : todo'[v] = todo[v]
  BY DEF Ask, Publish, Workers
<1> QED
  BY <1>0, <1>1, <1>2 DEF Paid, DeskMay, NodeMay, Waiting, Left

LEMMA TakePays == ASSUME Typed, NEW w \in Workers, Take(w), NEW r \in Requests
                  PROVE  Paid(r)
<1>0. Flow /\ repeats \in Nat
  BY Parts DEF Counts
<1>1. UNCHANGED <<pending, answers, repeats>>
  BY DEF Take, ends
<1>2. PICK m \in todo[w] : Take(w)!2!(m)
  BY DEF Take
<1>3. \A v \in Workers \ {w} : UNCHANGED <<at[v], hand[v], idemp[v], todo[v]>>
  BY <1>0, <1>2 DEF Flow, At, KeyHolders
<1>4. Left(w, r)' => Left(w, r)
  BY <1>0, <1>2 DEF Left, Flow, At, KeyHolders, Take
<1>5. Waiting(r)' => Waiting(r)
  <2>1. /\ at[w] = "idle" /\ todo'[w] = todo[w] \ {m} /\ m \in todo[w]
        /\ hand'[w] = m \/ at'[w] = "idle"
    BY <1>0, <1>2 DEF Flow, Take, At
  <2> QED
    BY <1>1, <1>3, <2>1 DEF Waiting, Workers
<1> QED
  BY <1>0, <1>1, <1>3, <1>4, <1>5, OthersLeft, NobodyGains DEF Paid

\* After its reply a worker has no chance left.
LEMMA NoChanceLeft == ASSUME Typed, Keyed, NEW w \in Workers, at[w] = "handling", At(w, "replied"),
                             UNCHANGED <<hand, idemp>>, NEW r \in Requests
                      PROVE  /\ Left(w, r)' => Left(w, r)
                             /\ r = hand[w].req => Left(w, r) /\ ~Left(w, r)'
                             /\ \A v \in Workers \ {w} : Left(v, r)' <=> Left(v, r)
<1>0. Flow
  BY Parts
<1>1. at'[w] = "replied" /\ \A v \in Workers \ {w} : at'[v] = at[v]
  BY <1>0 DEF Flow, At
<1> QED
  BY <1>1 DEF Left, Keyed

LEMMA ReplyPays == ASSUME Typed, Keyed, OneEach, NEW w \in Workers, Reply(w), at[w] = "handling",
                          NEW r \in Requests
                   PROVE  Paid(r)
<1>0. Flow /\ Yield /\ repeats \in Nat
  BY Parts DEF Counts
<1>1. At(w, "replied") /\ UNCHANGED <<hand, idemp, todo, pending, repeats>>
  BY DEF Reply
<1>2. /\ Left(w, r)' => Left(w, r)
      /\ r = hand[w].req => Left(w, r) /\ ~Left(w, r)'
      /\ \A v \in Workers \ {w} : Left(v, r)' <=> Left(v, r)
  BY <1>1, NoChanceLeft
<1>3. Waiting(r)' => Waiting(r)
  BY <1>0, <1>1 DEF Flow, At, Waiting, Workers
<1>4. (DeskMay(r)' => DeskMay(r)) /\ (NodeMay(r)' => NodeMay(r))
  BY <1>2, <1>3, NobodyGains
<1>5. CASE answers'[r] = answers[r]
  BY <1>0, <1>1, <1>4, <1>5 DEF Paid
<1>6. CASE answers'[r] # answers[r]
  <2>1. hand[w] \in Messages /\ Marked(w, hand[w]).req = hand[w].req
    BY <1>0, MessageType DEF Flow
  <2>2. Marked(w, hand[w]).mark = (hand[w].mark \/ w \in Shadows)
    BY <2>1 DEF Marked, Messages
  <2>3. /\ ~Marked(w, hand[w]).mark
        /\ answers' = [answers EXCEPT ![hand[w].req] = @ + 1]
    BY <1>6, <2>1, Zenon DEF Reply, ToEvaluator
  <2>4. r = hand[w].req /\ answers'[r] = answers[r] + 1
    BY <1>0, <1>6, <2>3 DEF Yield
  <2>5. w \notin Shadows /\ ~hand[w].mark
    BY <2>2, <2>3, Zenon
  <2>6. CASE w \in Desks
    <3>1. DeskMay(r) /\ ~DeskMay(r)'
      BY <1>2, <2>4, <2>5, <2>6 DEF DeskMay, OneEach
    <3> QED
      BY <1>1, <1>4, <2>4, <3>1 DEF Paid
  <2>7. CASE w \in Nodes
    <3>1. Waiting(r)
      BY <2>4, <2>5, <2>7 DEF Waiting, Real
    <3>2. NodeMay(r) /\ ~NodeMay(r)'
      BY <1>2, <2>4, <2>5, <2>7, <3>1 DEF NodeMay, OneEach
    <3> QED
      BY <1>1, <1>4, <2>4, <3>2 DEF Paid
  <2> QED
    BY <2>6, <2>7 DEF Workers
<1> QED
  BY <1>5, <1>6

LEMMA ForwardPays == ASSUME Typed, Keyed, OneEach, NEW w \in Workers, Forward(w), NEW r \in Requests
                     PROVE  Paid(r)
<1>0. Flow /\ repeats \in Nat
  BY Parts DEF Counts
<1>1. /\ At(w, "replied") /\ UNCHANGED <<hand, idemp, pending, answers, repeats>>
      /\ w \in Desks /\ at[w] = "handling" /\ hand[w] \in Messages
  BY <1>0 DEF Forward, ends, Flow
<1>2. /\ Left(w, r)' => Left(w, r)
      /\ r = hand[w].req => Left(w, r) /\ ~Left(w, r)'
      /\ \A v \in Workers \ {w} : Left(v, r)' <=> Left(v, r)
  BY <1>1, NoChanceLeft
<1>3. CASE r = hand[w].req /\ w \notin Shadows
  <2>1. DeskMay(r) /\ ~DeskMay(r)'
    BY <1>1, <1>2, <1>3 DEF DeskMay, OneEach, Workers
  <2> QED
    BY <1>1, <2>1 DEF Paid
<1>4. CASE r # hand[w].req \/ w \in Shadows
  <2> DEFINE c == [Marked(w, hand[w]) EXCEPT !.retries = 0, !.via = w]
  <2>1. c.req = hand[w].req /\ (w \in Shadows => c.mark)
    BY <1>1 DEF Marked, Messages
  <2>2. \A v \in Workers : todo'[v] \subseteq todo[v] \cup {c}
    BY DEF Forward, Publish
  <2> HIDE DEF c
  <2>3. Waiting(r)' => Waiting(r)
    <3>1. ~Real(c, r)
      BY <1>4, <2>1 DEF Real
    <3>2. \A v \in Workers : at'[v] # "idle" => at[v] # "idle"
      BY <1>0, <1>1 DEF Flow, At
    <3> QED
      BY <1>1, <2>2, <3>1, <3>2 DEF Waiting, Workers
  <2> QED
    BY <1>0, <1>1, <1>2, <2>3, NobodyGains DEF Paid
<1> QED
  BY <1>3, <1>4

LEMMA FinishPays == ASSUME Typed, NEW w \in Workers, Finish(w), NEW r \in Requests
                    PROVE  Paid(r)
<1>0. Flow /\ repeats \in Nat
  BY Parts DEF Counts
<1>1. /\ UNCHANGED <<todo, pending, idemp, answers, repeats>> /\ at'[w] = "idle"
      /\ \A v \in Workers \ {w} : UNCHANGED <<at[v], hand[v], idemp[v]>>
  BY <1>0 DEF Finish, At, ends, Flow
<1>2. Left(w, r)' => Left(w, r)
  BY <1>1 DEF Left
<1>3. Waiting(r)' => Waiting(r)
  BY <1>1 DEF Waiting, Workers
<1> QED
  BY <1>0, <1>1, <1>2, <1>3, OthersLeft, NobodyGains DEF Paid

LEMMA FailPays == ASSUME Typed, Keyed, NEW w \in Workers, Fail(w), NEW r \in Requests
                  PROVE  Paid(r)
<1>0. Flow /\ repeats \in Nat
  BY Parts DEF Counts
<1>1. /\ UNCHANGED <<todo, answers>> /\ at'[w] = "idle" /\ at[w] # "idle"
      /\ pending'[w] = pending[w] \cup {hand[w]} /\ idemp'[w] = idemp[w] \ {hand[w].req}
      /\ \A v \in Workers \ {w} : UNCHANGED <<at[v], hand[v], idemp[v], pending[v]>>
  BY <1>0 DEF Fail, At, KeyHolders, Flow
<1>2. Waiting(r)' => Waiting(r)
  BY <1>1 DEF Waiting, Workers
<1>3. \A v \in Workers \ {w} : Left(v, r)' <=> Left(v, r)
  BY <1>1, OthersLeft
<1>4. CASE at[w] = "replied" /\ w \notin Shadows
  <2>1. repeats' = repeats + 1
    BY <1>4 DEF Fail
  <2>2. w \in Nodes => (DeskMay(r)' => DeskMay(r))
    BY <1>3 DEF DeskMay, Workers
  <2>3. w \in Desks => (NodeMay(r)' => NodeMay(r))
    BY <1>2, <1>3 DEF NodeMay, Workers
  <2> QED
    BY <1>1, <2>1, <2>2, <2>3 DEF Paid, Workers
<1>5. CASE at[w] = "handling" \/ w \in Shadows
  <2>1. repeats' = repeats
    <3>1. ~(at[w] = "replied" /\ w \notin Shadows)
      BY <1>5
    <3>2. repeats' = repeats + 0
      BY <3>1, Zenon DEF Fail
    <3> QED
      BY <1>0, <3>2
  <2>2. w \notin Shadows => (Left(w, r)' => Left(w, r))
    BY <1>1, <1>5 DEF Left
  <2> QED
    BY <1>0, <1>1, <1>2, <1>3, <2>1, <2>2, NobodyGains DEF Paid
<1> QED
  BY <1>0, <1>1, <1>4, <1>5 DEF Flow

LEMMA SweepPays == ASSUME Typed, NEW w \in Workers, Sweep(w), NEW r \in Requests
                   PROVE  Paid(r)
<1>0. Flow /\ repeats \in Nat
  BY Parts DEF Counts
<1>1. UNCHANGED <<at, hand, idemp, answers, repeats>>
  BY DEF Sweep
<1>2. PICK m \in pending[w] : Sweep(w)!1!(m)
  BY DEF Sweep
<1>3. m \in Messages /\ pending'[w] = pending[w] \ {m} /\ \A v \in Workers \ {w} : pending'[v] = pending[v]
  BY <1>0, <1>2 DEF Flow
<1> DEFINE c == [m EXCEPT !.retries = @ + 1, !.via = w]
<1>4. Real(c, r) <=> Real(m, r)
  BY <1>3 DEF Messages, Real
<1>5. \A v \in Workers : todo'[v] \subseteq todo[v] \cup (IF v \in GroupOf(w) THEN {c} ELSE {})
  BY <1>0, <1>2 DEF Publish, Flow
<1> HIDE DEF c
<1>6. Waiting(r)' => Waiting(r)
  <2>1. CASE w \in Nodes
    BY <1>1, <1>2, <1>3, <1>4, <1>5, <2>1 DEF Waiting, Workers
  <2>2. CASE w \in Desks
    <3>1. \A v \in Nodes : todo'[v] \subseteq todo[v] /\ pending'[v] = pending[v]
      BY <1>3, <1>5, <2>2 DEF GroupOf, Workers
    <3> QED
      BY <1>1, <3>1 DEF Waiting
  <2> QED
    BY <2>1, <2>2 DEF Workers
<1> QED
  BY <1>0, <1>1, <1>6 DEF Paid, DeskMay, NodeMay, Left

LEMMA OnceStep == ASSUME OneEach, Typed, OnceInv, [Next]_vars
                  PROVE  OnceInv'
<1>1. Keyed'
  BY KeyedStep DEF OnceInv
<1>2. ASSUME NEW r \in Requests
      PROVE  Paid(r)
  <2>0. Keyed
    BY DEF OnceInv
  <2>1. ASSUME NEW q \in Requests, Ask(q)
        PROVE  Paid(r)
    BY <2>1, AskPays
  <2>2. ASSUME NEW w \in Workers, Take(w) \/ Finish(w) \/ Fail(w) \/ Sweep(w) \/ Forward(w)
        PROVE  Paid(r)
    BY <2>0, <2>2, TakePays, FinishPays, FailPays, SweepPays, ForwardPays
  <2>3. ASSUME NEW w \in Workers, Decline(w) \/ Serve(w)
        PROVE  Paid(r)
    BY <2>0, <2>3, ReplyPays DEF Decline, Serve
  <2>4. CASE Evaluate \/ UNCHANGED vars
    <3>1. UNCHANGED <<todo, at, hand, pending, idemp, answers, repeats>>
      BY <2>4, Zenon DEF Evaluate, vars, work, ends
    <3>2. repeats \in Nat
      BY Parts DEF Counts
    <3> QED
      BY <3>1, <3>2 DEF Paid, DeskMay, NodeMay, Waiting, Left
  <2> QED
    BY <2>1, <2>2, <2>3, <2>4 DEF Next, Step
<1>3. Typed'
  BY TypedStep
<1> QED
  BY <1>1, <1>2, <1>3, CountKept DEF OnceInv

\* With one production worker in a group a request has one answer, and one more at
\* most for each failure of such a worker after its reply, whatever shadow workers
\* do, and however often the sweeper copies the messages they fail on.
THEOREM AnsweredOnlyOnce == ASSUME OneEach
                            PROVE  Spec => []AnsweredOnce
<1>1. Init => OnceInv
  <2>1. ASSUME Init, NEW r \in Requests
        PROVE  Chances(r) <= 1 + repeats
    <3>1. answers[r] = 0 /\ repeats = 0 /\ ~Waiting(r)
      BY <2>1 DEF Init, Waiting, Workers
    <3>2. ~NodeMay(r)
      BY <3>1 DEF NodeMay
    <3>3. (IF DeskMay(r) THEN 1 ELSE 0) \in {0, 1} /\ (IF NodeMay(r) THEN 1 ELSE 0) = 0
      BY <3>2, Zenon
    <3> QED
      BY <3>1, <3>3 DEF Chances
  <2> QED
    BY <2>1 DEF Init, OnceInv, Keyed
<1>2. Typed /\ OnceInv => AnsweredOnce
  <2>1. ASSUME Typed, OnceInv, NEW r \in Requests
        PROVE  answers[r] <= 1 + repeats
    <3>1. (IF DeskMay(r) THEN 1 ELSE 0) \in {0, 1} /\ (IF NodeMay(r) THEN 1 ELSE 0) \in {0, 1}
      BY Zenon
    <3>2. answers[r] \in Nat /\ repeats \in Nat /\ Chances(r) <= 1 + repeats
      BY <2>1 DEF Typed, TypeOK, OnceInv
    <3> QED
      BY <3>1, <3>2 DEF Chances
  <2> QED
    BY <2>1 DEF AnsweredOnce
<1> QED
  BY <1>1, <1>2, OnceStep, AlwaysTyped, PTL DEF Spec
=============================================================================
