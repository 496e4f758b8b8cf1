---------------------------- MODULE PipelineProofs ----------------------------
(***************************************************************************)
(* Proofs about one goal carried through its pipeline: type correctness,   *)
(* and, for production workers whose handlers may fail or die, the order of*)
(* the steps, for any plans, any number of workers and any retries.        *)
(***************************************************************************)
EXTENDS Pipeline, SequenceTheorems, TLAPS

USE PipelineAssumption DEF PipelineAssumption

-----------------------------------------------------------------------------
(* Types.                                                                  *)

Msg == [task : Tasks, retry : 0 .. MaxRetries]
Answers == [to : {"gateway", "shadow_eval"}, status : {"success", "error"}, step : Nat]

\* A worker that is not idle has a message; one that dispatches has a plan.
Busy == \A w \in Workers : /\ wpc[w] # "idle" => wmsg[w] \in Ids
                           /\ wpc[w] = "dispatching" => seen[w].tasks \in Plans

KeyStates == {"none", "PROCESSING", "COMPLETED"}

\* The type invariant but for late, which the order of the steps does not depend on.
Types == /\ msgs \in Seq(Msg)
         /\ given \in [Groups -> SUBSET Ids]
         /\ pending \in [Groups -> SUBSET Nat]
         /\ \A g \in Groups : pending[g] \subseteq given[g]
         /\ key \in [Groups -> [Tasks -> KeyStates]]
         /\ dlq \subseteq Ids
         /\ hash \in Hashes
         /\ replies \in Seq(Answers)
         /\ done \subseteq Nat
         /\ wpc \in [Workers -> WorkerStates]
         /\ wmsg \in [Workers -> 0 .. Len(msgs)]
         /\ seen \in [Workers -> Hashes]
         /\ mishaps \in Seq(Mishaps)

Typed == Types /\ Busy

LEMMA PlanFacts == ASSUME NEW p \in Plans
                   PROVE  /\ Len(p) \in Nat /\ Len(p) >= 1 /\ DOMAIN p = 1 .. Len(p)
                          /\ \A i \in DOMAIN p : p[i] \in Tasks /\ p[i].step_id \in Nat \ {0}
<1>1. p \in Seq([agent_type : STRING, step_id : Nat \ {0}]) /\ p # << >>
  OBVIOUS
<1>2. ASSUME NEW i \in DOMAIN p
      PROVE  p[i] \in Tasks /\ p[i].step_id \in Nat \ {0}
  <2> DEFINE S == [agent_type : STRING, step_id : Nat \ {0}]
  <2> HIDE DEF S
  <2>1. p \in [1 .. Len(p) -> S]
    BY <1>1, LenProperties DEF S
  <2>2. p[i] \in S
    BY <1>2, <2>1
  <2>3. p[i] \in Range(p)
    BY <1>2 DEF Range
  <2> QED
    BY <2>2, <2>3 DEF Tasks, S
<1>3. Len(p) \in Nat \ {0} /\ DOMAIN p = 1 .. Len(p)
  BY <1>1, EmptySeq, LenProperties
<1> QED
  BY <1>2, <1>3

LEMMA TaskFacts == /\ PlannerTask \in Tasks /\ PlannerTask.step_id = 0
                   /\ \A t \in Tasks : t.step_id \in Nat /\ (t # PlannerTask => t.step_id \in Nat \ {0})
<1>1. ASSUME NEW t \in Tasks, t # PlannerTask PROVE t.step_id \in Nat \ {0}
  <2>1. PICK p \in Plans : t \in Range(p)
    BY <1>1 DEF Tasks
  <2>2. PICK i \in DOMAIN p : t = p[i]
    BY <2>1 DEF Range
  <2> QED
    BY <2>2, PlanFacts
<1>2. PlannerTask \in Tasks /\ PlannerTask.step_id = 0
  BY DEF Tasks, PlannerTask
<1> QED
  BY <1>1, <1>2

LEMMA MsgFacts == ASSUME Typed
                  PROVE  /\ Len(msgs) \in Nat /\ Ids = 1 .. Len(msgs)
                         /\ \A i \in Ids : msgs[i] \in Msg /\ msgs[i].task \in Tasks
                                           /\ msgs[i].task.step_id \in Nat
<1>1. msgs \in Seq(Msg)
  BY DEF Typed, Types
<1>2. Len(msgs) \in Nat /\ \A i \in 1 .. Len(msgs) : msgs[i] \in Msg
  BY <1>1, LenProperties, ElementOfSeq
<1>3. \A m \in Msg : m.task \in Tasks
  BY DEF Msg
<1> QED
  BY <1>2, <1>3, TaskFacts DEF Ids

LEMMA WorkerFacts == ASSUME Typed, NEW w \in Workers, wpc[w] # "idle"
                     PROVE  /\ wmsg[w] \in Ids /\ Task(w) \in Tasks /\ Task(w).step_id \in Nat
                            /\ seen[w] \in Hashes
  BY MsgFacts DEF Typed, Types, Busy, Task

\* A message more: the ids of the others, and what they bear, stay.
LEMMA Published == ASSUME Typed, NEW t \in Tasks, NEW r \in 0 .. MaxRetries, Publish(t, r)
                   PROVE  /\ msgs' \in Seq(Msg)
                          /\ Len(msgs') = Len(msgs) + 1
                          /\ Ids' = Ids \cup {Len(msgs')} /\ Len(msgs') \notin Ids
                          /\ \A i \in Ids : msgs'[i] = msgs[i]
                          /\ msgs'[Len(msgs')] = [task |-> t, retry |-> r]
<1> DEFINE m == [task |-> t, retry |-> r]
<1>1. m \in Msg
  BY DEF Msg
<1>2. msgs \in Seq(Msg) /\ msgs' = Append(msgs, m)
  BY DEF Typed, Types, Publish
<1> HIDE DEF m
<1>3. /\ msgs' \in Seq(Msg) /\ Len(msgs') = Len(msgs) + 1 /\ Len(msgs) \in Nat
      /\ \A i \in 1 .. Len(msgs) : msgs'[i] = msgs[i]
      /\ msgs'[Len(msgs) + 1] = m
  BY <1>1, <1>2
<1> QED
  BY <1>3 DEF Ids, m

LEMMA MishapTypes == ASSUME Typed, UNCHANGED mishaps \/ \E k \in MishapKinds : Mishap(k)
                     PROVE  mishaps' \in Seq(Mishaps)
<1>1. mishaps \in Seq(Mishaps)
  BY DEF Typed, Types
<1>2. ASSUME NEW k \in MishapKinds, Mishap(k) PROVE mishaps' \in Seq(Mishaps)
  <2>1. k \in Mishaps /\ mishaps' = Append(mishaps, k)
    BY <1>2 DEF Mishap
  <2> QED
    BY <1>1, <2>1, AppendProperties
<1> QED
  BY <1>1, <1>2

LEMMA TypedInit == Init => Typed
  BY DEF Init, Typed, Types, KeyStates, Busy, NoHash, Hashes, WorkerStates, Ids, Msg, Answers

\* What is typed, and what it takes to be typed after a step.
LEMMA Before == ASSUME Typed
                PROVE  /\ msgs \in Seq(Msg)
                       /\ given \in [Groups -> SUBSET Ids]
                       /\ pending \in [Groups -> SUBSET Nat]
                       /\ \A g \in Groups : pending[g] \subseteq given[g]
                       /\ key \in [Groups -> [Tasks -> KeyStates]]
                       /\ dlq \subseteq Ids
                       /\ hash \in Hashes
                       /\ replies \in Seq(Answers)
                       /\ done \subseteq Nat
                       /\ wpc \in [Workers -> WorkerStates]
                       /\ wmsg \in [Workers -> 0 .. Len(msgs)]
                       /\ seen \in [Workers -> Hashes]
                       /\ mishaps \in Seq(Mishaps)
  BY DEF Typed, Types

LEMMA TypesIf ==
    ASSUME msgs' \in Seq(Msg),
           given' \in [Groups -> SUBSET Ids'],
           pending' \in [Groups -> SUBSET Nat],
           \A g \in Groups : pending'[g] \subseteq given'[g],
           key' \in [Groups -> [Tasks -> KeyStates]],
           dlq' \subseteq Ids',
           hash' \in Hashes,
           replies' \in Seq(Answers),
           done' \subseteq Nat,
           wpc' \in [Workers -> WorkerStates],
           wmsg' \in [Workers -> 0 .. Len(msgs')],
           seen' \in [Workers -> Hashes],
           mishaps' \in Seq(Mishaps),
           Busy'
    PROVE  Typed'
  BY DEF Typed, Types

LEMMA GroupOf == \A w \in Workers : Group(w) \in Groups
  BY DEF Group, Groups

LEMMA HashFacts == /\ NoHash \in Hashes
                   /\ \A p \in Plans : [status |-> "RUNNING", current_step |-> 1, tasks |-> p] \in Hashes
                   /\ \A h \in Hashes : /\ [h EXCEPT !.status = "SUCCESS"] \in Hashes
                                        /\ h.current_step \in Nat
                                        /\ h.tasks \in Plans \cup {<< >>}
                   /\ \A h \in Hashes, n \in Nat : [h EXCEPT !.current_step = n] \in Hashes
  BY DEF Hashes, NoHash

\* A worker that goes on, or rests, keeps or drops its message.
LEMMA GoesOn == ASSUME Typed, NEW w \in Workers, NEW l \in WorkerStates \ {"idle", "dispatching"},
                       wpc[w] # "idle", Goto(w, l), UNCHANGED <<wmsg, seen, msgs>>
                PROVE  wpc' \in [Workers -> WorkerStates] /\ Busy'
  BY Before DEF Goto, Busy, Typed, Ids

LEMMA GoesOnPublishing ==
    ASSUME Typed, NEW w \in Workers, wpc[w] # "idle", Goto(w, "acking"),
           UNCHANGED wmsg, seen' = [seen EXCEPT ![w] = NoHash],
           NEW t \in Tasks, Publish(t, 0)
    PROVE  /\ wpc' \in [Workers -> WorkerStates] /\ Busy'
           /\ wmsg' \in [Workers -> 0 .. Len(msgs')]
           /\ seen' \in [Workers -> Hashes]
           /\ Ids \subseteq Ids' /\ msgs' \in Seq(Msg)
<1>1. msgs' \in Seq(Msg) /\ Ids \subseteq Ids' /\ Len(msgs') = Len(msgs) + 1 /\ Len(msgs) \in Nat
  <2>1. 0 \in 0 .. MaxRetries
    OBVIOUS
  <2> QED
    BY <2>1, Published, MsgFacts
<1>2. wmsg' \in [Workers -> 0 .. Len(msgs')]
  BY <1>1, Before
<1>3. wpc' \in [Workers -> WorkerStates]
  BY Before DEF Goto, WorkerStates
<1>4. Busy'
  BY <1>1, Before DEF Goto, Busy, Typed
<1>5. seen' \in [Workers -> Hashes]
  BY Before, HashFacts
<1> QED
  BY <1>1, <1>2, <1>3, <1>4, <1>5

LEMMA Rests == ASSUME Typed, NEW w \in Workers, Rest(w), UNCHANGED msgs
               PROVE  /\ wpc' \in [Workers -> WorkerStates] /\ Busy'
                      /\ wmsg' \in [Workers -> 0 .. Len(msgs')]
                      /\ seen' \in [Workers -> Hashes]
<1>1. wpc' \in [Workers -> WorkerStates]
  BY Before DEF Rest, Goto, WorkerStates
<1>2. wmsg' \in [Workers -> 0 .. Len(msgs')]
  BY Before, MsgFacts DEF Rest
<1>3. seen' \in [Workers -> Hashes]
  BY Before, HashFacts DEF Rest
<1>4. Busy'
  BY Before DEF Rest, Goto, Busy, Typed, Ids
<1> QED
  BY <1>1, <1>2, <1>3, <1>4

LEMMA KeyIsSet == ASSUME Typed, NEW g \in Groups, NEW t, NEW v \in KeyStates, SetKey(g, t, v)
                  PROVE  key' \in [Groups -> [Tasks -> KeyStates]]
  BY Before DEF SetKey

LEMMA RepliesGrow == ASSUME Typed, NEW a \in Answers, replies' = Append(replies, a)
                     PROVE  /\ replies' \in Seq(Answers)
                            /\ Range(replies') = Range(replies) \cup {a}
<1>1. replies \in Seq(Answers)
  BY Before
<1>2. /\ replies' \in Seq(Answers) /\ Len(replies') = Len(replies) + 1 /\ Len(replies) \in Nat
      /\ DOMAIN replies = 1 .. Len(replies) /\ DOMAIN replies' = 1 .. Len(replies')
      /\ \A i \in 1 .. Len(replies) : replies'[i] = replies[i]
      /\ replies'[Len(replies) + 1] = a
  BY <1>1, AppendProperties, LenProperties
<1>3. DOMAIN replies' = DOMAIN replies \cup {Len(replies) + 1}
  BY <1>2
<1> QED
  BY <1>2, <1>3 DEF Range

LEMMA TypedSubmit == ASSUME Typed, Submit PROVE Typed'
<1>1. Publish(PlannerTask, 0) /\ 0 \in 0 .. MaxRetries
  BY DEF Submit
<1>2. msgs' \in Seq(Msg) /\ Ids \subseteq Ids' /\ Len(msgs') = Len(msgs) + 1 /\ Len(msgs) \in Nat
  BY <1>1, Published, MsgFacts, TaskFacts
<1>3. UNCHANGED <<given, pending, key, dlq, hash, replies, done, wpc, wmsg, seen, mishaps>>
  BY DEF Submit, workerVars
<1>4. given' \in [Groups -> SUBSET Ids'] /\ dlq' \subseteq Ids'
  BY <1>2, <1>3, Before
<1>5. wmsg' \in [Workers -> 0 .. Len(msgs')]
  BY <1>2, <1>3, Before
<1>6. Busy'
  BY <1>2, <1>3 DEF Busy, Typed
<1> QED
  BY <1>2, <1>3, <1>4, <1>5, <1>6, Before, TypesIf

LEMMA TypedTake == ASSUME Typed, NEW w \in Workers, Take(w) PROVE Typed'
<1> DEFINE g == Group(w)
<1>1. g \in Groups
  BY GroupOf
<1> HIDE DEF g
<1>2. PICK i \in Ids :
          /\ given' = [given EXCEPT ![g] = @ \cup {i}]
          /\ \/ /\ SetKey(g, msgs[i].task, "PROCESSING")
                /\ pending' = [pending EXCEPT ![g] = @ \cup {i}]
                /\ wmsg' = [wmsg EXCEPT ![w] = i]
                /\ Goto(w, "handling")
             \/ UNCHANGED <<pending, key, wpc, wmsg>>
  BY DEF Take, g
<1>3. UNCHANGED <<msgs, dlq, hash, replies, done, seen, mishaps>>
  BY DEF Take
<1>4. Ids' = Ids
  BY <1>3 DEF Ids
<1>5. given' \in [Groups -> SUBSET Ids'] /\ \A h \in Groups : given[h] \subseteq given'[h]
  BY <1>1, <1>2, <1>4, Before
<1>6. CASE UNCHANGED <<pending, key, wpc, wmsg>>
  <2>1. Busy'
    BY <1>3, <1>4, <1>6 DEF Busy, Typed
  <2>2. \A h \in Groups : pending'[h] \subseteq given'[h]
    BY <1>5, <1>6, Before
  <2> QED
    BY <1>3, <1>4, <1>5, <1>6, <2>1, <2>2, Before, TypesIf
<1>7. CASE /\ SetKey(g, msgs[i].task, "PROCESSING")
           /\ pending' = [pending EXCEPT ![g] = @ \cup {i}]
           /\ wmsg' = [wmsg EXCEPT ![w] = i]
           /\ Goto(w, "handling")
  <2>1. key' \in [Groups -> [Tasks -> KeyStates]]
    <3>1. "PROCESSING" \in KeyStates
      BY DEF KeyStates
    <3> QED
      BY <1>1, <1>7, <3>1, KeyIsSet
  <2>2. \A h \in Groups : pending'[h] \subseteq given'[h]
    <3> SUFFICES ASSUME NEW h \in Groups, NEW j \in pending'[h] PROVE j \in given'[h]
      OBVIOUS
    <3>1. CASE h # g
      BY <1>1, <1>5, <1>7, <3>1, Before DEF Typed, Types
    <3>2. CASE h = g
      <4>1. j \in pending[g] \/ j = i
        BY <1>1, <1>7, <3>2 DEF Typed, Types
      <4> QED
        BY <1>1, <1>2, <1>5, <3>2, <4>1, Before
    <3> QED
      BY <3>1, <3>2
  <2>3. wpc' \in [Workers -> WorkerStates] /\ wmsg' \in [Workers -> 0 .. Len(msgs')]
    BY <1>3, <1>7, Before, MsgFacts DEF Goto, WorkerStates
  <2>4. Busy'
    BY <1>2, <1>3, <1>4, <1>7, Before DEF Busy, Typed, Goto
  <2>5. pending' \in [Groups -> SUBSET Nat]
    <3>1. i \in Nat
      BY MsgFacts
    <3> QED
      BY <1>7, <3>1, Before
  <2> QED
    BY <1>3, <1>4, <1>5, <2>1, <2>2, <2>3, <2>4, <2>5, Before, TypesIf
<1> QED
  BY <1>2, <1>6, <1>7


\* A step after which the worker goes on to l, and which changes no message.
LEMMA TypedGoesOn ==
    ASSUME Typed, NEW w \in Workers, NEW l \in WorkerStates \ {"idle", "dispatching"},
           wpc[w] # "idle", Goto(w, l), UNCHANGED <<busVars, wmsg, seen, mishaps>>,
           hash' \in Hashes, replies' \in Seq(Answers), done' \subseteq Nat
    PROVE  Typed'
<1>1. UNCHANGED <<msgs, given, pending, key, dlq, wmsg, seen, mishaps>> /\ Ids' = Ids
  BY DEF busVars, Ids
<1>2. wpc' \in [Workers -> WorkerStates] /\ Busy'
  BY <1>1, GoesOn
<1> QED
  BY <1>1, <1>2, Before, TypesIf

\* The same when the worker copies the hash.
LEMMA TypedCopies ==
    ASSUME Typed, NEW w \in Workers, NEW l \in WorkerStates \ {"idle"},
           wpc[w] # "idle", Goto(w, l), UNCHANGED <<busVars, wmsg, mishaps, replies, done>>,
           NEW h \in Hashes, seen' = [seen EXCEPT ![w] = h],
           l = "dispatching" => h.tasks \in Plans,
           hash' \in Hashes
    PROVE  Typed'
<1>1. UNCHANGED <<msgs, given, pending, key, dlq, wmsg, mishaps, replies, done>> /\ Ids' = Ids
  BY DEF busVars, Ids
<1>2. seen' \in [Workers -> Hashes] /\ wpc' \in [Workers -> WorkerStates]
  BY Before DEF Goto
<1>3. Busy'
  BY <1>1, Before DEF Busy, Typed, Goto
<1> QED
  BY <1>1, <1>2, <1>3, Before, TypesIf

LEMMA TypedPlanner ==
    ASSUME Typed, NEW w \in Workers, MakePlan(w) \/ DispatchStep(w)
    PROVE  Typed'
<1> USE DEF WorkerStates
<1>1. CASE MakePlan(w)
  <2>1. wpc[w] # "idle" /\ UNCHANGED <<busVars, replies, done, wmsg, mishaps>>
    BY <1>1 DEF MakePlan
  <2>2. ASSUME NEW p \in Plans,
               hash' = [status |-> "RUNNING", current_step |-> 1, tasks |-> p],
               seen' = [seen EXCEPT ![w] = hash'],
               Goto(w, "dispatching")
        PROVE  Typed'
    <3>1. hash' \in Hashes /\ hash'.tasks \in Plans
      BY <2>2, HashFacts
    <3> QED
      BY <2>1, <2>2, <3>1, TypedCopies
  <2>3. ASSUME Goto(w, "refusing") \/ Goto(w, "failing"), UNCHANGED <<hash, seen>>
        PROVE  Typed'
    BY <2>1, <2>3, Before, TypedGoesOn
  <2> QED
    BY <1>1, <2>2, <2>3 DEF MakePlan
<1>2. CASE DispatchStep(w)
  <2>1. /\ wpc[w] = "dispatching" /\ Publish(FirstTask(seen[w].tasks), 0)
        /\ seen' = [seen EXCEPT ![w] = NoHash] /\ Goto(w, "acking")
        /\ UNCHANGED <<given, pending, key, dlq, hash, replies, done, wmsg, mishaps>>
    BY <1>2 DEF DispatchStep
  <2>2. FirstTask(seen[w].tasks) \in Tasks
    <3>1. seen[w].tasks \in Plans
      BY <2>1 DEF Typed, Busy
    <3> QED
      BY <3>1, PlanFacts DEF FirstTask
  <2>3. /\ wpc' \in [Workers -> WorkerStates] /\ Busy'
        /\ wmsg' \in [Workers -> 0 .. Len(msgs')]
        /\ seen' \in [Workers -> Hashes]
        /\ Ids \subseteq Ids' /\ msgs' \in Seq(Msg)
    BY <2>1, <2>2, GoesOnPublishing
  <2> QED
    BY <2>1, <2>3, Before, TypesIf
<1> QED
  BY <1>1, <1>2

LEMMA TypedRunning ==
    ASSUME Typed, NEW w \in Workers, RunStep(w) \/ ReadHash(w) \/ MoveOn(w)
    PROVE  Typed'
<1> USE DEF WorkerStates
<1>1. CASE RunStep(w)
  <2>1. wpc[w] # "idle" /\ UNCHANGED <<busVars, hash, replies, wmsg, seen, mishaps>>
    BY <1>1 DEF RunStep
  <2>2. done' \subseteq Nat
    <3>1. Task(w).step_id \in Nat /\ done \subseteq Nat
      BY <2>1, Before, WorkerFacts
    <3> QED
      BY <1>1, <3>1 DEF RunStep
  <2>3. Goto(w, "reading") \/ Goto(w, "refusing") \/ Goto(w, "failing")
    BY <1>1 DEF RunStep
  <2> QED
    BY <2>1, <2>2, <2>3, Before, TypedGoesOn
<1>2. CASE ReadHash(w)
  <2>1. wpc[w] # "idle" /\ UNCHANGED <<busVars, hash, replies, done, wmsg, mishaps>>
    BY <1>2 DEF ReadHash
  <2>2. \/ (Goto(w, "finishing") \/ Goto(w, "acking")) /\ UNCHANGED seen
        \/ Goto(w, "moving") /\ seen' = [seen EXCEPT ![w] = hash]
    BY <1>2 DEF ReadHash
  <2>3. CASE (Goto(w, "finishing") \/ Goto(w, "acking")) /\ UNCHANGED seen
    BY <2>1, <2>3, Before, TypedGoesOn
  <2>4. CASE Goto(w, "moving") /\ seen' = [seen EXCEPT ![w] = hash]
    <3>1. hash \in Hashes /\ hash' = hash /\ UNCHANGED <<busVars, wmsg, mishaps, replies, done>>
      BY <2>1, Before
    <3>2. "moving" \in WorkerStates \ {"idle"} /\ "moving" # "dispatching"
      OBVIOUS
    <3> QED
      BY <2>1, <2>4, <3>1, <3>2, TypedCopies
  <2> QED
    BY <2>2, <2>3, <2>4
<1>3. CASE MoveOn(w)
  <2>1. /\ wpc[w] # "idle" /\ UNCHANGED <<busVars, replies, done, wmsg, seen, mishaps>>
        /\ Goto(w, "sending") /\ hash' = Moved(w)
    BY <1>3 DEF MoveOn
  <2>2. hash' \in Hashes
    <3>1. seen[w] \in Hashes
      BY Before
    <3>2. seen[w].current_step \in Nat
      BY <3>1, HashFacts
    <3>3. seen[w].current_step + 1 \in Nat
      BY <3>2
    <3> QED
      BY <2>1, <3>3, Before, HashFacts DEF Moved
  <2> QED
    BY <2>1, <2>2, Before, TypedGoesOn
<1> QED
  BY <1>1, <1>2, <1>3

LEMMA TypedSend == ASSUME Typed, NEW w \in Workers, SendNext(w) PROVE Typed'
<1>1. /\ wpc[w] = "sending"
      /\ seen' = [seen EXCEPT ![w] = NoHash] /\ Goto(w, "acking")
      /\ UNCHANGED <<given, pending, key, dlq, hash, replies, done, wmsg, mishaps>>
  BY DEF SendNext
<1>2. PICK i \in DOMAIN seen[w].tasks : Publish(seen[w].tasks[i], 0)
  BY DEF SendNext
<1>3. seen[w].tasks[i] \in Tasks
  <2>1. seen[w].tasks \in Plans \cup {<< >>}
    BY Before, HashFacts
  <2>2. CASE seen[w].tasks \in Plans
    BY <2>2, PlanFacts
  <2>3. CASE seen[w].tasks = << >>
    BY <2>3
  <2> QED
    BY <2>1, <2>2, <2>3
<1>4. /\ wpc' \in [Workers -> WorkerStates] /\ Busy'
      /\ wmsg' \in [Workers -> 0 .. Len(msgs')]
      /\ seen' \in [Workers -> Hashes]
      /\ Ids \subseteq Ids' /\ msgs' \in Seq(Msg)
  BY <1>1, <1>2, <1>3, GoesOnPublishing
<1> QED
  BY <1>1, <1>4, Before, TypesIf

LEMMA TypedAnswers ==
    ASSUME Typed, NEW w \in Workers, Finish(w) \/ Answer(w) \/ Refuse(w)
    PROVE  Typed'
<1> USE DEF WorkerStates
<1>1. CASE Finish(w)
  <2>1. hash' \in Hashes
    BY <1>1, Before, HashFacts DEF Finish, Finished
  <2> QED
    BY <1>1, <2>1, Before, TypedGoesOn DEF Finish
<1>2. CASE Answer(w) \/ Refuse(w)
  <2>1. /\ wpc[w] # "idle" /\ Goto(w, "acking")
        /\ UNCHANGED <<busVars, hash, done, wmsg, seen, mishaps>>
    BY <1>2 DEF Answer, Refuse
  <2>2. PICK to \in {"gateway", "shadow_eval"}, status \in {"success", "error"} :
            replies' = Append(replies, Reply(to, status, w))
    BY <1>2 DEF Answer, Refuse
  <2>3. Reply(to, status, w) \in Answers
    BY <2>1, WorkerFacts DEF Reply, Answers
  <2>4. replies' \in Seq(Answers)
    BY <2>2, <2>3, RepliesGrow
  <2> QED
    BY <2>1, <2>4, Before, TypedGoesOn
<1> QED
  BY <1>1, <1>2

\* A worker whose message is done with, or which died, rests.
LEMMA TypedRests ==
    ASSUME Typed, NEW w \in Workers, Rest(w),
           UNCHANGED <<msgs, given, pending, dlq, hash, replies, done>>,
           key' \in [Groups -> [Tasks -> KeyStates]],
           mishaps' \in Seq(Mishaps)
    PROVE  Typed'
<1>1. Ids' = Ids
  BY DEF Ids
<1>2. /\ wpc' \in [Workers -> WorkerStates] /\ Busy'
      /\ wmsg' \in [Workers -> 0 .. Len(msgs')]
      /\ seen' \in [Workers -> Hashes]
  BY Rests
<1> QED
  BY <1>1, <1>2, Before, TypesIf

LEMMA TypedEnds ==
    ASSUME Typed, NEW w \in Workers,
           Ack(w) \/ MarkCompleted(w) \/ ReleaseLock(w) \/ Crash(w)
    PROVE  Typed'
<1>1. CASE Ack(w)
  <2>1. /\ wpc[w] # "idle" /\ Goto(w, "completing")
        /\ pending' = [pending EXCEPT ![Group(w)] = @ \ {wmsg[w]}]
        /\ UNCHANGED <<msgs, given, key, dlq, hash, replies, done, wmsg, seen, mishaps>>
    BY <1>1 DEF Ack
  <2>2. wpc' \in [Workers -> WorkerStates] /\ Busy'
    BY <2>1, GoesOn DEF WorkerStates
  <2>3. \A g \in Groups : pending'[g] \subseteq given'[g]
    BY <2>1, GroupOf, Before DEF Typed, Types
  <2>4. Ids' = Ids
    BY <2>1 DEF Ids
  <2> QED
    BY <2>1, <2>2, <2>3, <2>4, Before, TypesIf
<1>2. CASE MarkCompleted(w) \/ ReleaseLock(w)
  <2>1. PICK v \in KeyStates : SetKey(Group(w), Task(w), v)
    BY <1>2 DEF MarkCompleted, ReleaseLock, KeyStates
  <2>2. key' \in [Groups -> [Tasks -> KeyStates]]
    BY <2>1, GroupOf, KeyIsSet
  <2> QED
    BY <1>2, <2>2, Before, TypedRests DEF MarkCompleted, ReleaseLock
<1>3. CASE Crash(w)
  <2>1. mishaps' \in Seq(Mishaps)
    BY <1>3, MishapTypes DEF Crash, MishapKinds
  <2>2. Rest(w) /\ UNCHANGED <<msgs, given, pending, key, dlq, hash, replies, done>>
    BY <1>3 DEF Crash, busVars
  <2> QED
    BY <2>1, <2>2, Before, TypedRests
<1> QED
  BY <1>1, <1>2, <1>3

LEMMA TypedExpiry ==
    ASSUME Typed, NEW g \in Groups, NEW t \in Tasks, ExpireKey(g, t)
    PROVE  Typed'
<1>1. /\ SetKey(g, t, "none")
      /\ UNCHANGED <<msgs, given, pending, dlq, hash, replies, done, wpc, wmsg, seen, mishaps>>
  BY DEF ExpireKey, workerVars
<1>2. key' \in [Groups -> [Tasks -> KeyStates]]
  BY <1>1, KeyIsSet DEF KeyStates
<1>3. Ids' = Ids /\ Busy'
  BY <1>1 DEF Ids, Busy, Typed
<1> QED
  BY <1>1, <1>2, <1>3, Before, TypesIf

LEMMA TypedDelay == ASSUME Typed, NEW w \in Workers, FallBehind(w) PROVE Typed'
<1>1. UNCHANGED <<msgs, given, pending, key, dlq, hash, replies, done, wpc, wmsg, seen>>
  BY DEF FallBehind, busVars
<1>2. mishaps' \in Seq(Mishaps)
  BY MishapTypes DEF FallBehind, MishapKinds
<1>3. Ids' = Ids /\ Busy'
  BY <1>1 DEF Ids, Busy, Typed
<1> QED
  BY <1>1, <1>2, <1>3, Before, TypesIf

LEMMA TypedSweep == ASSUME Typed, NEW g \in Groups, NEW i \in Ids, Sweep(g, i) PROVE Typed'
<1>1. /\ pending' = [pending EXCEPT ![g] = @ \ {i}]
      /\ UNCHANGED <<given, key, hash, replies, done, wpc, wmsg, seen, mishaps>>
  BY DEF Sweep, workerVars
<1>2. \A h \in Groups : pending'[h] \subseteq given'[h]
  BY <1>1, Before DEF Typed, Types
<1>3. /\ msgs' \in Seq(Msg) /\ Ids \subseteq Ids' /\ Len(msgs') \in Nat
      /\ Len(msgs) \in Nat /\ Len(msgs') >= Len(msgs)
  <2>1. CASE Retriable(i) /\ Publish(msgs[i].task, msgs[i].retry + 1)
    <3>1. msgs[i] \in Msg /\ msgs[i].retry \in 0 .. MaxRetries /\ msgs[i].task \in Tasks
      BY MsgFacts DEF Msg
    <3>2. msgs[i].retry + 1 \in 0 .. MaxRetries
      BY <2>1, <3>1 DEF Retriable
    <3>3. /\ msgs' \in Seq(Msg) /\ Len(msgs') = Len(msgs) + 1
          /\ Ids' = Ids \cup {Len(msgs')}
      BY <2>1, <3>1, <3>2, Published
    <3> QED
      BY <3>3, MsgFacts
  <2>2. CASE UNCHANGED msgs
    BY <2>2, MsgFacts, Before DEF Ids
  <2> QED
    BY <2>1, <2>2 DEF Sweep
<1>4. dlq' \subseteq Ids'
  BY <1>3, Before DEF Sweep
<1>5. wmsg' \in [Workers -> 0 .. Len(msgs')]
  BY <1>1, <1>3, Before
<1>6. Busy'
  BY <1>1, <1>3 DEF Busy, Typed
<1>7. given' \in [Groups -> SUBSET Ids']
  BY <1>1, <1>3, Before
<1> QED
  BY <1>1, <1>2, <1>3, <1>4, <1>5, <1>6, <1>7, Before, TypesIf

LEMMA TypedStep == Typed /\ [Next]_vars => Typed'
<1> SUFFICES ASSUME Typed, [Next]_vars PROVE Typed'
  OBVIOUS
<1>1. CASE Submit
  BY <1>1, TypedSubmit
<1>2. ASSUME NEW w \in Workers, WorkerStep(w) \/ Crash(w) \/ FallBehind(w) PROVE Typed'
  BY <1>2, TypedTake, TypedPlanner, TypedRunning, TypedSend, TypedAnswers, TypedEnds,
     TypedDelay DEF WorkerStep
<1>3. CASE Recover
  BY <1>3, TypedExpiry, TypedSweep DEF Recover
<1>4. CASE UNCHANGED vars
  <2>1. UNCHANGED <<msgs, given, pending, key, dlq, hash, replies, done, wpc, wmsg, seen, mishaps>>
    BY <1>4 DEF vars, busVars, workerVars
  <2>2. Ids' = Ids /\ Busy'
    BY <2>1 DEF Ids, Busy, Typed
  <2> QED
    BY <2>1, <2>2, Before, TypesIf
<1> QED
  BY <1>1, <1>2, <1>3, <1>4 DEF Next

\* How late changes: a worker falls behind, which is a mishap, or rests again.
LEMMA LateStep ==
    [Next]_vars => \/ late' \subseteq late
                   \/ Mishap("slow") /\ \E w \in Workers : late' = late \cup {w}
  BY DEF Next, WorkerStep, Recover, Submit, Take, MakePlan, DispatchStep, RunStep, ReadHash, MoveOn,
     SendNext, Finish, Answer, Refuse, Ack, MarkCompleted, ReleaseLock, Crash, Rest, ExpireKey,
     FallBehind, Sweep, vars, workerVars

\* Type correctness, for every set of plans, of workers and of failures.
THEOREM TypeCorrect == Spec => []TypeOK
<1>1. Typed /\ late \subseteq Workers => TypeOK
  BY DEF Typed, Types, TypeOK, Msg, Answers, KeyStates
<1>2. Init => late \subseteq Workers
  BY DEF Init
<1>3. late \subseteq Workers /\ [Next]_vars => (late \subseteq Workers)'
  BY LateStep
<1> QED
  BY TypedInit, TypedStep, <1>1, <1>2, <1>3, PTL DEF Spec

-----------------------------------------------------------------------------
(* The bus under an orderly pipeline: one message at most is still to do.  *)

Active(w) == wpc[w] \notin {"idle", "acking", "completing"}

\* A message whose handling is over, and one that some worker is still to handle.
Passed(i) == \E w \in Workers : wmsg[w] = i /\ wpc[w] \in {"acking", "completing"}
Live(i) == i \notin given["prod"] \/ (i \in pending["prod"] /\ ~Passed(i))

\* What a worker holds: its message was delivered, and its task's key is taken.
Started(w) ==
    /\ wpc[w] # "idle" => wmsg[w] \in given["prod"] /\ key["prod"][Task(w)] = "PROCESSING"
    /\ Active(w) => wmsg[w] \in pending["prod"]
    /\ wpc[w] = "completing" => wmsg[w] \notin pending["prod"]

Apart == \A w, v \in Workers :
            (w # v /\ wpc[w] # "idle" /\ wpc[v] # "idle") => Task(w) # Task(v)

Solo == \A i, j \in Ids : Live(i) /\ Live(j) => i = j

Bus == /\ pending["shadow"] = {}
       /\ \A w \in Workers : Started(w)
       /\ Apart
       /\ Solo

LEMMA Alone == ASSUME Bus, NEW w \in Workers, NEW v \in Workers,
                      wpc[w] # "idle", wpc[v] # "idle", wmsg[w] = wmsg[v]
               PROVE  w = v
  BY DEF Bus, Apart, Task

LEMMA ActiveLive == ASSUME Typed, Bus, NEW w \in Workers, Active(w)
                    PROVE  /\ wpc[w] # "idle" /\ wmsg[w] \in Ids
                           /\ Live(wmsg[w])
                           /\ \A j \in Ids : Live(j) => j = wmsg[w]
<1>1. wpc[w] # "idle" /\ wmsg[w] \in Ids
  BY DEF Active, Typed, Busy
<1>2. ~Passed(wmsg[w])
  BY <1>1, Alone DEF Passed, Active
<1>3. Live(wmsg[w])
  BY <1>2 DEF Live, Bus, Started
<1> QED
  BY <1>1, <1>3 DEF Bus, Solo

LEMMA SoleActive == ASSUME Typed, Bus, NEW w \in Workers, NEW v \in Workers, Active(w), Active(v)
                    PROVE  w = v
  BY ActiveLive, Alone

LEMMA Prod == ASSUME Shadow = {}, NEW w \in Workers PROVE Group(w) = "prod"
  BY DEF Group

\* A worker that goes on with its message leaves the bus alone.
LEMMA BusGoesOn ==
    ASSUME Typed, Bus, NEW w \in Workers, Active(w),
           NEW l \in WorkerStates \ {"idle", "completing"}, Goto(w, l),
           UNCHANGED <<msgs, given, pending, key, wmsg>>
    PROVE  Bus' /\ Ids' = Ids /\ \A j \in Ids : Live(j)' => Live(j)
<1>1. /\ wpc'[w] = l /\ \A v \in Workers \ {w} : wpc'[v] = wpc[v]
      /\ Ids' = Ids /\ wpc[w] # "idle"
  BY Before DEF Goto, Ids, Active
<1>2. \A v \in Workers : Task(v)' = Task(v)
  BY DEF Task
<1>3. \A j \in Ids : Live(j)' => Live(j)
  BY <1>1 DEF Live, Passed, Active
<1>4. \A v \in Workers : Started(v)'
  BY <1>1, <1>2 DEF Bus, Started, Active
<1>5. Apart'
  BY <1>1, <1>2 DEF Bus, Apart
<1>6. Solo'
  BY <1>1, <1>3 DEF Bus, Solo
<1> QED
  BY <1>1, <1>3, <1>4, <1>5, <1>6 DEF Bus

\* A worker that has published the next task passes the turn to it.
LEMMA BusHandsOn ==
    ASSUME Typed, Bus, NEW w \in Workers, Active(w), Goto(w, "acking"),
           NEW t \in Tasks, Publish(t, 0), UNCHANGED <<given, pending, key, wmsg>>
    PROVE  Bus' /\ \A j \in Ids' : Live(j)' => j = Len(msgs')
<1>1. /\ wpc'[w] = "acking" /\ \A v \in Workers \ {w} : wpc'[v] = wpc[v]
      /\ wpc[w] # "idle" /\ wmsg[w] \in Ids
  BY Before, ActiveLive DEF Goto
<1>2. /\ Ids' = Ids \cup {Len(msgs')} /\ Len(msgs') \notin Ids
      /\ \A i \in Ids : msgs'[i] = msgs[i]
  <2>1. 0 \in 0 .. MaxRetries
    OBVIOUS
  <2> QED
    BY <2>1, Published
<1>3. \A v \in Workers : wpc[v] # "idle" => Task(v)' = Task(v)
  BY <1>2 DEF Task, Typed, Busy
<1>4. ASSUME NEW j \in Ids', Live(j)' PROVE j = Len(msgs')
  <2> SUFFICES ASSUME j \in Ids PROVE FALSE
    BY <1>2
  <2>1. Live(j)
    BY <1>1, <1>4 DEF Live, Passed, Active
  <2>2. j = wmsg[w]
    BY <2>1, ActiveLive
  <2>3. Passed(j)' /\ j \in given["prod"]
    BY <1>1, <2>2 DEF Passed, Bus, Started
  <2> QED
    BY <1>4, <2>3 DEF Live
<1>5. \A v \in Workers : Started(v)'
  BY <1>1, <1>3 DEF Bus, Started, Active
<1>6. Apart'
  BY <1>1, <1>3 DEF Bus, Apart
<1>7. Solo'
  BY <1>4 DEF Solo
<1> QED
  BY <1>4, <1>5, <1>6, <1>7 DEF Bus

LEMMA BusSubmit == ASSUME Typed, Bus, Submit
                   PROVE  Bus' /\ \A j \in Ids' : Live(j)' => j = Len(msgs')
<1>1. /\ Publish(PlannerTask, 0) /\ msgs = << >> /\ 0 \in 0 .. MaxRetries
      /\ UNCHANGED <<given, pending, key, wpc, wmsg>>
  BY DEF Submit, workerVars
<1>2. Ids = {} /\ Ids' = {Len(msgs')}
  <2>1. Ids = {}
    BY <1>1 DEF Ids
  <2> QED
    BY <1>1, <2>1, Published, TaskFacts
<1>3. \A v \in Workers : wpc'[v] = "idle"
  BY <1>1, <1>2 DEF Typed, Busy
<1> QED
  BY <1>1, <1>2, <1>3 DEF Bus, Started, Apart, Solo, Active

\* A delivery: the message was live before, and is handled by one worker or dropped.
LEMMA BusTake ==
    ASSUME Shadow = {}, Typed, Bus, NEW w \in Workers, Take(w)
    PROVE  /\ Bus' /\ Ids' = Ids /\ \A j \in Ids : Live(j)' => Live(j)
           /\ wpc'[w] # "idle" =>
                 /\ wpc'[w] = "handling" /\ Live(wmsg'[w]) /\ wmsg'[w] \in Ids
                 /\ \A v \in Workers : wpc[v] # "idle" => wmsg[v] # wmsg'[w]
<1>1. UNCHANGED msgs /\ Ids' = Ids /\ wpc[w] = "idle"
  BY DEF Take, Ids
<1>2. PICK i \in Ids :
          /\ OldestOf("prod", i)
          /\ given' = [given EXCEPT !["prod"] = @ \cup {i}]
          /\ \/ /\ Free("prod", msgs[i].task)
                /\ SetKey("prod", msgs[i].task, "PROCESSING")
                /\ pending' = [pending EXCEPT !["prod"] = @ \cup {i}]
                /\ wmsg' = [wmsg EXCEPT ![w] = i]
                /\ Goto(w, "handling")
             \/ UNCHANGED <<pending, key, wpc, wmsg>>
  BY Prod DEF Take
<1>3. i \notin given["prod"] /\ Live(i) /\ i \notin pending["prod"]
  BY <1>2, Before DEF OldestOf, Live, Groups
<1>4. given'["prod"] = given["prod"] \cup {i}
  BY <1>2, Before DEF Groups
<1>5. \A v \in Workers : wpc[v] # "idle" => wmsg[v] # i
  BY <1>3 DEF Bus, Started
<1>6. CASE UNCHANGED <<pending, key, wpc, wmsg>>
  <2>1. \A j \in Ids : Live(j)' => Live(j)
    BY <1>3, <1>4, <1>6 DEF Live, Passed
  <2>2. \A v \in Workers : Started(v)'
    BY <1>1, <1>4, <1>6 DEF Bus, Started, Active, Task
  <2>3. Apart' /\ Solo'
    BY <1>1, <1>6, <2>1 DEF Bus, Apart, Solo, Task
  <2> QED
    BY <1>1, <1>6, <2>1, <2>2, <2>3 DEF Bus
<1>7. CASE /\ Free("prod", msgs[i].task)
           /\ SetKey("prod", msgs[i].task, "PROCESSING")
           /\ pending' = [pending EXCEPT !["prod"] = @ \cup {i}]
           /\ wmsg' = [wmsg EXCEPT ![w] = i]
           /\ Goto(w, "handling")
  <2>1. /\ wpc'[w] = "handling" /\ \A v \in Workers \ {w} : wpc'[v] = wpc[v]
        /\ wmsg'[w] = i /\ \A v \in Workers \ {w} : wmsg'[v] = wmsg[v]
    BY <1>7, Before DEF Goto
  <2>2. /\ pending'["prod"] = pending["prod"] \cup {i}
        /\ pending'["shadow"] = {}
    BY <1>7, Before DEF Bus, Groups
  <2>3. /\ key["prod"][msgs[i].task] = "none" /\ key'["prod"][msgs[i].task] = "PROCESSING"
        /\ \A t \in Tasks : t # msgs[i].task => key'["prod"][t] = key["prod"][t]
    BY <1>7, Before, MsgFacts DEF SetKey, Free, Groups
  <2>4. Task(w)' = msgs[i].task /\ \A v \in Workers \ {w} : Task(v)' = Task(v)
    BY <1>1, <2>1 DEF Task
  <2>5. \A j \in Ids : Live(j)' => Live(j)
    BY <1>1, <1>3, <1>4, <2>1, <2>2 DEF Live, Passed
  <2>6. ASSUME NEW v \in Workers PROVE Started(v)'
    <3>1. CASE v = w
      BY <1>4, <2>1, <2>2, <2>3, <2>4, <3>1 DEF Started
    <3>2. CASE v # w /\ wpc[v] # "idle"
      <4>1. Started(v) /\ Task(v) \in Tasks
        BY <3>2, WorkerFacts DEF Bus
      <4> QED
        BY <1>4, <1>5, <2>1, <2>2, <2>3, <2>4, <3>2, <4>1 DEF Started, Active
    <3>3. CASE v # w /\ wpc[v] = "idle"
      BY <2>1, <3>3 DEF Started, Active
    <3> QED
      BY <3>1, <3>2, <3>3
  <2>7. \A v \in Workers \ {w} : wpc[v] # "idle" => Task(v) # msgs[i].task
    BY <2>3 DEF Bus, Started
  <2>8. Apart'
    BY <2>1, <2>4, <2>7 DEF Bus, Apart
  <2>9. Solo'
    BY <1>1, <2>5 DEF Bus, Solo
  <2> QED
    BY <1>1, <1>3, <1>5, <2>1, <2>2, <2>5, <2>6, <2>8, <2>9 DEF Bus
<1> QED
  BY <1>2, <1>6, <1>7

LEMMA BusAck ==
    ASSUME Shadow = {}, Typed, Bus, NEW w \in Workers, Ack(w)
    PROVE  Bus' /\ Ids' = Ids /\ \A j \in Ids : Live(j)' => Live(j)
<1>1. /\ wpc[w] = "acking" /\ Goto(w, "completing")
      /\ pending' = [pending EXCEPT !["prod"] = @ \ {wmsg[w]}]
      /\ UNCHANGED <<msgs, given, key, wmsg>> /\ Ids' = Ids
  BY Prod DEF Ack, Ids
<1>2. wpc'[w] = "completing" /\ \A v \in Workers \ {w} : wpc'[v] = wpc[v]
  BY <1>1, Before DEF Goto
<1>3. pending'["prod"] = pending["prod"] \ {wmsg[w]} /\ pending'["shadow"] = {}
  BY <1>1, Before DEF Bus, Groups
<1>4. \A v \in Workers : Task(v)' = Task(v)
  BY <1>1 DEF Task
<1>5. \A j \in Ids : Live(j)' => Live(j)
  BY <1>1, <1>2, <1>3 DEF Live, Passed
<1>6. \A v \in Workers \ {w} : wpc[v] # "idle" => wmsg[v] # wmsg[w]
  BY <1>1, Alone
<1>7. \A v \in Workers : Started(v)'
  BY <1>1, <1>2, <1>3, <1>4, <1>6 DEF Bus, Started, Active
<1>8. Apart' /\ Solo'
  BY <1>1, <1>2, <1>4, <1>5 DEF Bus, Apart, Solo
<1> QED
  BY <1>1, <1>3, <1>5, <1>7, <1>8 DEF Bus

\* A worker rests; only the key of its own task may have changed.
LEMMA BusRests ==
    ASSUME Shadow = {}, Typed, Bus, NEW w \in Workers, Rest(w),
           UNCHANGED <<msgs, given, pending>>,
           wpc[w] # "idle", wpc[w] # "acking",
           UNCHANGED key \/ \E v \in KeyStates : SetKey("prod", Task(w), v)
    PROVE  Bus' /\ Ids' = Ids /\ \A j \in Ids : Live(j)' => Live(j)
<1>1. /\ wpc'[w] = "idle" /\ \A v \in Workers \ {w} : wpc'[v] = wpc[v]
      /\ \A v \in Workers \ {w} : wmsg'[v] = wmsg[v]
  BY Before DEF Rest, Goto
<1>2. Ids' = Ids /\ \A v \in Workers \ {w} : Task(v)' = Task(v)
  BY <1>1 DEF Ids, Task
<1>3. \A t \in Tasks : t # Task(w) => key'["prod"][t] = key["prod"][t]
  BY WorkerFacts, Before DEF SetKey, Groups
<1>4. wpc[w] = "completing" => wmsg[w] \notin pending["prod"] /\ wmsg[w] \in given["prod"]
  BY DEF Bus, Started
<1>5. \A j \in Ids : Live(j)' => Live(j)
  BY <1>1, <1>4 DEF Live, Passed
<1>6. ASSUME NEW v \in Workers PROVE Started(v)'
  <2>1. CASE v = w \/ wpc[v] = "idle"
    BY <1>1, <2>1 DEF Started, Active
  <2>2. CASE v # w /\ wpc[v] # "idle"
    <3>1. Started(v) /\ Task(v) \in Tasks /\ Task(v) # Task(w)
      BY <2>2, WorkerFacts DEF Bus, Apart
    <3> QED
      BY <1>1, <1>2, <1>3, <2>2, <3>1 DEF Started, Active
  <2> QED
    BY <2>1, <2>2
<1>7. Apart' /\ Solo'
  BY <1>1, <1>2, <1>5 DEF Bus, Apart, Solo
<1> QED
  BY <1>2, <1>5, <1>6, <1>7 DEF Bus

LEMMA BusExpiry ==
    ASSUME Shadow = {}, Typed, Bus, late = {}, NEW g \in Groups, NEW t \in Tasks,
           ExpireKey(g, t)
    PROVE  Bus' /\ Ids' = Ids /\ \A j \in Ids : Live(j)' => Live(j)
<1>1. /\ SetKey(g, t, "none") /\ ~WorkedOn(g, t)
      /\ UNCHANGED <<msgs, given, pending, wpc, wmsg>>
  BY DEF ExpireKey, workerVars
<1>2. Ids' = Ids /\ \A v \in Workers : Task(v)' = Task(v)
  BY <1>1 DEF Ids, Task
<1>3. \A j \in Ids : Live(j)' => Live(j)
  BY <1>1 DEF Live, Passed
<1>4. ASSUME NEW v \in Workers PROVE Started(v)'
  <2>1. CASE wpc[v] = "idle"
    BY <1>1, <2>1 DEF Started, Active
  <2>2. CASE wpc[v] # "idle"
    <3>1. Started(v) /\ Task(v) \in Tasks
      BY <2>2, WorkerFacts DEF Bus
    <3>2. g # "prod" \/ Task(v) # t
      BY <1>1, <2>2, Prod DEF WorkedOn, Punctual
    <3>3. key'["prod"][Task(v)] = key["prod"][Task(v)]
      BY <1>1, <3>1, <3>2, Before DEF SetKey, Groups
    <3> QED
      BY <1>1, <1>2, <3>1, <3>3 DEF Started, Active
  <2> QED
    BY <2>1, <2>2
<1>5. Apart' /\ Solo'
  BY <1>1, <1>2, <1>3 DEF Bus, Apart, Solo
<1> QED
  BY <1>1, <1>2, <1>3, <1>4, <1>5 DEF Bus

\* The sweeper takes only a message nobody works on: the live one. Its copy, if it
\* gets one, takes its place.
LEMMA BusSweep ==
    ASSUME Shadow = {}, Typed, Bus, late = {}, NEW g \in Groups, NEW i \in Ids, Sweep(g, i)
    PROVE  /\ Bus' /\ Live(i)
           /\ \A v \in Workers : wpc[v] # "idle" => wmsg[v] # i
           /\ \/ /\ Publish(msgs[i].task, msgs[i].retry + 1)
                 /\ msgs[i].task \in Tasks /\ msgs[i].retry + 1 \in 0 .. MaxRetries
                 /\ \A j \in Ids' : Live(j)' => j = Len(msgs')
              \/ UNCHANGED msgs /\ \A j \in Ids : Live(j)' => Live(j)
<1>1. g = "prod" /\ i \in pending["prod"] /\ ~HeldBy("prod", i)
  BY DEF Sweep, Bus, Groups
<1>2. /\ pending' = [pending EXCEPT !["prod"] = @ \ {i}]
      /\ UNCHANGED <<given, key, wpc, wmsg>>
  BY <1>1 DEF Sweep, workerVars
<1>3. pending'["prod"] = pending["prod"] \ {i} /\ pending'["shadow"] = {}
  BY <1>2, Before DEF Bus, Groups
<1>4. \A v \in Workers : wpc[v] # "idle" => wmsg[v] # i
  BY <1>1, Prod DEF HeldBy, Punctual
<1>5. Live(i) /\ i \in given["prod"]
  BY <1>1, <1>4, Before DEF Live, Passed, Groups
<1>6. /\ Ids \subseteq Ids' /\ \A j \in Ids : msgs'[j] = msgs[j]
      /\ \/ /\ Publish(msgs[i].task, msgs[i].retry + 1)
            /\ msgs[i].task \in Tasks /\ msgs[i].retry + 1 \in 0 .. MaxRetries
            /\ Ids' = Ids \cup {Len(msgs')}
         \/ UNCHANGED msgs /\ Ids' = Ids
  <2>1. CASE Retriable(i) /\ Publish(msgs[i].task, msgs[i].retry + 1)
    <3>1. msgs[i] \in Msg /\ msgs[i].retry \in 0 .. MaxRetries /\ msgs[i].task \in Tasks
      BY MsgFacts DEF Msg
    <3>2. msgs[i].retry + 1 \in 0 .. MaxRetries
      BY <2>1, <3>1 DEF Retriable
    <3>3. /\ Ids' = Ids \cup {Len(msgs')} /\ \A j \in Ids : msgs'[j] = msgs[j]
      BY <2>1, <3>1, <3>2, Published
    <3> QED
      BY <2>1, <3>1, <3>2, <3>3
  <2>2. CASE UNCHANGED msgs
    BY <2>2 DEF Ids
  <2> QED
    BY <2>1, <2>2 DEF Sweep
<1>7. \A j \in Ids : ~Live(j)'
  <2> SUFFICES ASSUME NEW j \in Ids, Live(j)' PROVE FALSE
    OBVIOUS
  <2>1. Live(j)
    BY <1>2, <1>3 DEF Live, Passed
  <2>2. j = i
    BY <1>5, <2>1 DEF Bus, Solo
  <2> QED
    BY <1>2, <1>3, <1>5, <2>2 DEF Live
<1>8. \A v \in Workers : wpc[v] # "idle" => Task(v)' = Task(v)
  BY <1>2, <1>6 DEF Task, Typed, Busy
<1>9. \A v \in Workers : Started(v)'
  BY <1>2, <1>3, <1>4, <1>8 DEF Bus, Started, Active
<1>10. Apart'
  BY <1>2, <1>8 DEF Bus, Apart
<1>11. Solo'
  BY <1>6, <1>7 DEF Solo
<1>12. Bus'
  BY <1>3, <1>9, <1>10, <1>11 DEF Bus
<1> QED
  BY <1>4, <1>5, <1>6, <1>7, <1>12

-----------------------------------------------------------------------------
(* The plan under an orderly pipeline: hash, workers and messages agree.   *)

PassesOn(w) == wpc[w] \in {"dispatching", "sending"}
Handed(i) == \E w \in Workers : wmsg[w] = i /\ PassesOn(w)

Planning == hash.status = "none" =>
    /\ hash = NoHash
    /\ \A i \in Ids : msgs[i].task = PlannerTask
    /\ \A w \in Workers : wpc[w] \notin {"dispatching", "reading", "moving", "sending",
                                        "finishing", "answering"}
    /\ \A r \in Range(replies) : r.status = "error"

Planned == hash.status # "none" =>
    /\ hash.tasks \in Plans
    /\ msgs # << >>
    /\ \A i \in Ids : Live(i) /\ msgs[i].task = PlannerTask => Handed(i)
    /\ \A w \in Workers : wpc[w] = "handling" => Task(w) # PlannerTask

\* What a worker remembers of the hash is what the hash holds, or held a step ago.
Copied(w) == /\ wpc[w] = "dispatching" => seen[w].tasks = hash.tasks
             /\ wpc[w] = "moving" => seen[w] = hash
             /\ wpc[w] = "sending" => /\ seen[w].tasks = hash.tasks
                                      /\ seen[w].current_step + 1 = hash.current_step

Ordered == hash.status # "none" /\ WellFormed(hash.tasks)

Stage(w) ==
    /\ wpc[w] = "dispatching" => hash.current_step = 1
    /\ wpc[w] \in {"reading", "moving", "finishing", "answering"} => hash.current_step \in done
    /\ wpc[w] = "moving" => hash.current_step < Len(hash.tasks)
    /\ wpc[w] \in {"finishing", "answering"} => hash.current_step = Len(hash.tasks)

\* The hash's step is the one to do: the earlier ones are done, and the live message
\* is its message, unless a worker is about to send that.
Steps ==
    /\ hash.current_step \in 1 .. Len(hash.tasks)
    /\ 1 .. hash.current_step - 1 \subseteq done
    /\ \A i \in Ids : Live(i) => msgs[i].task.step_id = hash.current_step \/ Handed(i)
    /\ hash.status = "SUCCESS" => 1 .. Len(hash.tasks) \subseteq done
    /\ \A r \in Range(replies) : r.status = "success" => r.step = Len(hash.tasks)

Course == /\ Planning
          /\ Planned
          /\ \A w \in Workers : Copied(w)
          /\ Ordered => Steps /\ \A w \in Workers : Stage(w)

\* The message of a worker that does not pass it on bears the hash's step.
LEMMA OwnStep ==
    ASSUME Typed, Bus, Course, NEW w \in Workers, Active(w), ~PassesOn(w)
    PROVE  /\ ~Handed(wmsg[w])
           /\ Ordered => Task(w).step_id = hash.current_step
           /\ \A i \in Ids : Live(i) => ~Handed(i)
<1>1. wpc[w] # "idle" /\ wmsg[w] \in Ids /\ Live(wmsg[w]) /\ \A j \in Ids : Live(j) => j = wmsg[w]
  BY ActiveLive
<1>2. ~Handed(wmsg[w])
  BY <1>1, Alone DEF Handed, PassesOn
<1> QED
  BY <1>1, <1>2 DEF Course, Steps, Task

\* A step that changes neither messages nor hash, by a worker that is not passing on.
LEMMA CourseKept ==
    ASSUME Typed, Bus, Course, NEW w \in Workers, UNCHANGED <<msgs, hash>>,
           \A j \in Ids : Live(j)' => Live(j),
           \A v \in Workers \ {w} : wpc'[v] = wpc[v] /\ wmsg'[v] = wmsg[v] /\ seen'[v] = seen[v],
           ~PassesOn(w), wpc'[w] \notin {"dispatching", "sending"},
           wpc'[w] \in {"reading", "moving", "finishing", "answering"} => hash.status # "none",
           wpc'[w] = "handling" /\ hash.status # "none" => Task(w)' # PlannerTask,
           wpc'[w] = "moving" => seen'[w] = hash,
           Ordered => Stage(w)',
           done \subseteq done',
           \A r \in Range(replies') \ Range(replies) :
               /\ hash.status = "none" => r.status = "error"
               /\ Ordered /\ r.status = "success" => r.step = Len(hash.tasks)
    PROVE  Course'
<1>1. Ids' = Ids /\ \A v \in Workers \ {w} : Task(v)' = Task(v)
  BY DEF Ids, Task
<1>2. \A i \in Ids : Handed(i) => Handed(i)'
  BY DEF Handed, PassesOn
<1>3. Planning'
  BY <1>1 DEF Course, Planning
<1>4. Planned'
  BY <1>1, <1>2 DEF Course, Planned
<1>5. \A v \in Workers : Copied(v)'
  BY DEF Course, Copied
<1>6. Ordered' <=> Ordered
  BY DEF Ordered
<1>7. ASSUME Ordered PROVE Steps'
  BY <1>1, <1>2, <1>7 DEF Course, Steps
<1>8. ASSUME Ordered, NEW v \in Workers PROVE Stage(v)'
  BY <1>8 DEF Course, Stage
<1> QED
  BY <1>3, <1>4, <1>5, <1>6, <1>7, <1>8 DEF Course

\* A message is published, and is the only one left to do.
LEMMA CoursePublished ==
    ASSUME Typed, Bus, Course, NEW t \in Tasks, NEW r \in 0 .. MaxRetries, Publish(t, r),
           UNCHANGED <<hash, done, replies, wmsg>>,
           \A j \in Ids' : Live(j)' => j = Len(msgs'),
           hash.status = "none" => t = PlannerTask,
           hash.status # "none" => t # PlannerTask,
           Ordered => t.step_id = hash.current_step,
           \A v \in Workers : \/ wpc'[v] = wpc[v] /\ seen'[v] = seen[v]
                              \/ wpc'[v] = "acking"
    PROVE  Course'
<1>1. /\ Ids' = Ids \cup {Len(msgs')} /\ \A i \in Ids : msgs'[i] = msgs[i]
      /\ msgs'[Len(msgs')].task = t /\ msgs' # << >>
  <2>1. /\ Ids' = Ids \cup {Len(msgs')} /\ \A i \in Ids : msgs'[i] = msgs[i]
        /\ msgs'[Len(msgs')] = [task |-> t, retry |-> r] /\ Len(msgs') = Len(msgs) + 1
    BY Published
  <2>2. Len(msgs) \in Nat
    BY MsgFacts
  <2>3. msgs' # << >>
    BY <2>1, <2>2
  <2> QED
    BY <2>1, <2>3
<1>2. \A v \in Workers : wpc[v] # "idle" => Task(v)' = Task(v)
  BY <1>1 DEF Task, Typed, Busy
<1>3. Planning'
  BY <1>1 DEF Course, Planning
<1>4. Planned'
  BY <1>1, <1>2 DEF Course, Planned
<1>5. \A v \in Workers : Copied(v)'
  BY DEF Course, Copied
<1>6. Ordered' <=> Ordered
  BY DEF Ordered
<1>7. ASSUME Ordered PROVE Steps'
  BY <1>1, <1>7 DEF Course, Steps
<1>8. ASSUME Ordered, NEW v \in Workers PROVE Stage(v)'
  BY <1>8 DEF Course, Stage
<1> QED
  BY <1>3, <1>4, <1>5, <1>6, <1>7, <1>8 DEF Course

LEMMA Goes == ASSUME Typed, NEW w \in Workers, NEW l \in WorkerStates, Goto(w, l)
              PROVE  wpc'[w] = l /\ \A v \in Workers \ {w} : wpc'[v] = wpc[v]
  BY Before DEF Goto

LEMMA Copies == ASSUME Typed, NEW w \in Workers, NEW h, seen' = [seen EXCEPT ![w] = h]
                PROVE  seen'[w] = h /\ \A v \in Workers \ {w} : seen'[v] = seen[v]
  BY Before

\* What a step keeps: the bus as it must be, and the course of the plan.
Kept == Bus' /\ Course'

LEMMA KeptSubmit == ASSUME Typed, Bus, Course, Submit PROVE Kept
<1>1. Bus' /\ \A j \in Ids' : Live(j)' => j = Len(msgs')
  BY BusSubmit
<1>2. /\ Publish(PlannerTask, 0) /\ 0 \in 0 .. MaxRetries /\ PlannerTask \in Tasks
      /\ UNCHANGED <<hash, done, replies, wpc, wmsg, seen>>
  BY TaskFacts DEF Submit, workerVars
<1>3. hash.status = "none"
  BY DEF Submit, Course, Planned
<1> QED
  BY <1>1, <1>2, <1>3, CoursePublished DEF Kept, Ordered

LEMMA KeptTake ==
    ASSUME Shadow = {}, Typed, Bus, Course, NEW w \in Workers, Take(w) PROVE Kept
<1>1. /\ Bus' /\ Ids' = Ids /\ \A j \in Ids : Live(j)' => Live(j)
      /\ wpc'[w] # "idle" =>
            /\ wpc'[w] = "handling" /\ Live(wmsg'[w]) /\ wmsg'[w] \in Ids
            /\ \A v \in Workers : wpc[v] # "idle" => wmsg[v] # wmsg'[w]
  BY BusTake
<1>2. /\ wpc[w] = "idle" /\ UNCHANGED <<msgs, hash, replies, done, seen>>
      /\ \A v \in Workers \ {w} : wpc'[v] = wpc[v] /\ wmsg'[v] = wmsg[v]
  BY Before DEF Take, Goto
<1>3. ASSUME wpc'[w] = "handling", hash.status # "none" PROVE Task(w)' # PlannerTask
  <2>1. ~Handed(wmsg'[w])
    BY <1>1, <1>3 DEF Handed, PassesOn
  <2>2. msgs[wmsg'[w]].task # PlannerTask
    BY <1>1, <1>3, <2>1 DEF Course, Planned
  <2> QED
    BY <1>2, <2>2 DEF Task
<1>4. Stage(w)'
  BY <1>1 DEF Stage
<1>5. ~PassesOn(w) /\ wpc'[w] \in {"idle", "handling"}
  BY <1>1, <1>2 DEF PassesOn
<1> QED
  BY <1>1, <1>2, <1>3, <1>4, <1>5, CourseKept DEF Kept

\* The planner finds no plan there: it is the first to make one for this trace.
LEMMA KeptMakePlan ==
    ASSUME Typed, Bus, Course, NEW w \in Workers, MakePlan(w) PROVE Kept
<1>1. /\ wpc[w] = "handling" /\ Active(w) /\ Task(w) = PlannerTask /\ ~PassesOn(w)
      /\ UNCHANGED <<msgs, given, pending, key, replies, done, wmsg>>
  BY DEF MakePlan, Active, PassesOn, busVars
<1>2. hash.status = "none" /\ hash = NoHash
  BY <1>1 DEF Course, Planned, Planning
<1>3. \A v \in Workers \ {w} : ~Active(v)
  BY <1>1, SoleActive
<1>4. CASE (Goto(w, "refusing") \/ Goto(w, "failing")) /\ UNCHANGED <<hash, seen>>
  <2>1. PICK l \in {"refusing", "failing"} : Goto(w, l)
    BY <1>4
  <2>2. l \in WorkerStates \ {"idle", "completing"}
    BY DEF WorkerStates
  <2>3. wpc'[w] = l /\ \A v \in Workers \ {w} : wpc'[v] = wpc[v]
    BY <2>1, <2>2, Goes
  <2>4. Bus' /\ Ids' = Ids /\ \A j \in Ids : Live(j)' => Live(j)
    BY <1>1, <2>1, <2>2, BusGoesOn
  <2>5. Stage(w)'
    BY <2>3 DEF Stage
  <2> QED
    BY <1>1, <1>4, <2>3, <2>4, <2>5, CourseKept DEF Kept
<1>5. ASSUME NEW p \in Plans,
             hash' = [status |-> "RUNNING", current_step |-> 1, tasks |-> p],
             seen' = [seen EXCEPT ![w] = hash'],
             Goto(w, "dispatching")
      PROVE  Kept
  <2>1. "dispatching" \in WorkerStates \ {"idle", "completing"}
    BY DEF WorkerStates
  <2>2. wpc'[w] = "dispatching" /\ \A v \in Workers \ {w} : wpc'[v] = wpc[v]
    BY <1>5, <2>1, Goes
  <2>3. Bus' /\ Ids' = Ids /\ \A j \in Ids : Live(j)' => Live(j)
    BY <1>1, <1>5, <2>1, BusGoesOn
  <2>4. hash'.status = "RUNNING" /\ hash'.current_step = 1 /\ hash'.tasks = p /\ seen'[w] = hash'
    BY <1>5, Copies
  <2>5. /\ \A j \in Ids : Live(j)' => Handed(j)'
        /\ msgs' # << >>
    <3>1. \A j \in Ids : Live(j) => j = wmsg[w]
      BY <1>1, ActiveLive
    <3>2. wmsg[w] \in Ids
      BY <1>1, ActiveLive
    <3>3. msgs # << >>
      BY <3>2 DEF Ids
    <3> QED
      BY <1>1, <2>2, <2>3, <3>1, <3>3 DEF Handed, PassesOn
  <2>6. Planning' /\ Planned'
    BY <1>1, <1>3, <2>2, <2>3, <2>4, <2>5 DEF Planning, Planned, Active
  <2>7. \A v \in Workers : Copied(v)' /\ Stage(v)'
    BY <1>3, <2>2, <2>4 DEF Copied, Stage, Active
  <2>8. ASSUME Ordered' PROVE Steps'
    <3>1. Len(hash'.tasks) \in Nat /\ Len(hash'.tasks) >= 1
      BY <2>4, PlanFacts
    <3>2. \A r \in Range(replies) : r.status = "error"
      BY <1>2 DEF Course, Planning
    <3> QED
      BY <1>1, <2>3, <2>4, <2>5, <3>1, <3>2 DEF Steps
  <2> QED
    BY <2>3, <2>6, <2>7, <2>8 DEF Kept, Course
<1> QED
  BY <1>4, <1>5 DEF MakePlan

\* The next task goes out: it is the hash's step.
LEMMA KeptHandsOn ==
    ASSUME Typed, Bus, Course, NEW w \in Workers, DispatchStep(w) \/ SendNext(w) PROVE Kept
<1>1. /\ Active(w) /\ wpc[w] \in {"dispatching", "sending"} /\ Goto(w, "acking")
      /\ seen' = [seen EXCEPT ![w] = NoHash]
      /\ UNCHANGED <<given, pending, key, hash, replies, done, wmsg>>
  BY DEF DispatchStep, SendNext, Active
<1>2. hash.status # "none" /\ hash.tasks \in Plans /\ seen[w].tasks = hash.tasks
  BY <1>1 DEF Course, Planning, Planned, Copied
<1>3. PICK i \in DOMAIN hash.tasks :
          /\ Publish(hash.tasks[i], 0)
          /\ Ordered => hash.tasks[i].step_id = hash.current_step
  <2>1. CASE DispatchStep(w)
    <3>1. Publish(hash.tasks[1], 0) /\ wpc[w] = "dispatching"
      BY <1>2, <2>1 DEF DispatchStep, FirstTask
    <3>2. 1 \in DOMAIN hash.tasks
      BY <1>2, PlanFacts
    <3>3. Ordered => hash.tasks[1].step_id = hash.current_step
      BY <3>1 DEF Course, Stage, Ordered, WellFormed
    <3> QED
      BY <3>1, <3>2, <3>3
  <2>2. CASE SendNext(w)
    <3>1. PICK i \in DOMAIN seen[w].tasks : IsNext(seen[w], i) /\ Publish(seen[w].tasks[i], 0)
      BY <2>2 DEF SendNext
    <3>2. seen[w].current_step + 1 = hash.current_step
      BY <2>2 DEF SendNext, Course, Copied
    <3> QED
      BY <1>2, <3>1, <3>2 DEF IsNext
  <2> QED
    BY <2>1, <2>2
<1>4. hash.tasks[i] \in Tasks /\ hash.tasks[i] # PlannerTask
  BY <1>2, PlanFacts, TaskFacts
<1>5. Bus' /\ \A j \in Ids' : Live(j)' => j = Len(msgs')
  BY <1>1, <1>3, <1>4, BusHandsOn
<1>6. \A v \in Workers : (wpc'[v] = wpc[v] /\ seen'[v] = seen[v]) \/ wpc'[v] = "acking"
  BY <1>1, Before DEF Goto
<1>7. 0 \in 0 .. MaxRetries
  OBVIOUS
<1> QED
  BY <1>1, <1>2, <1>3, <1>4, <1>5, <1>6, <1>7, CoursePublished DEF Kept

\* A worker that goes on without publishing or touching the hash.
LEMMA KeptGoesOn ==
    ASSUME Typed, Bus, Course, NEW w \in Workers, Active(w), ~PassesOn(w),
           NEW l \in {"reading", "moving", "finishing", "refusing", "failing", "acking"},
           Goto(w, l), UNCHANGED <<msgs, given, pending, key, wmsg, hash>>,
           \A v \in Workers \ {w} : seen'[v] = seen[v],
           hash.status = "none" => l \in {"refusing", "failing", "acking"},
           l = "moving" => seen'[w] = hash,
           Ordered => Stage(w)',
           done \subseteq done',
           \A r \in Range(replies') \ Range(replies) :
               /\ hash.status = "none" => r.status = "error"
               /\ Ordered /\ r.status = "success" => r.step = Len(hash.tasks)
    PROVE  Kept
<1>1. l \in WorkerStates \ {"idle", "completing"}
  BY DEF WorkerStates
<1>2. wpc'[w] = l /\ \A v \in Workers \ {w} : wpc'[v] = wpc[v]
  BY <1>1, Goes
<1>3. Bus' /\ Ids' = Ids /\ \A j \in Ids : Live(j)' => Live(j)
  BY <1>1, BusGoesOn
<1> QED
  BY <1>2, <1>3, CourseKept DEF Kept

LEMMA KeptRunStep ==
    ASSUME Typed, Bus, Course, NEW w \in Workers, RunStep(w) PROVE Kept
<1>1. /\ wpc[w] = "handling" /\ Active(w) /\ ~PassesOn(w) /\ Task(w) # PlannerTask
      /\ wmsg[w] \in Ids
      /\ UNCHANGED <<msgs, given, pending, key, hash, replies, wmsg, seen>>
  BY DEF RunStep, Active, PassesOn, busVars, Typed, Busy
<1>2. hash.status # "none"
  BY <1>1 DEF Course, Planning, Task
<1>3. PICK l \in {"reading", "refusing", "failing"} :
          /\ Goto(w, l) /\ done \subseteq done'
          /\ l = "reading" => Task(w).step_id \in done'
  BY DEF RunStep
<1>4. wpc'[w] = l
  BY <1>3, Goes DEF WorkerStates
<1>5. Ordered => Stage(w)'
  BY <1>1, <1>3, <1>4, OwnStep DEF Stage
<1> QED
  BY <1>1, <1>2, <1>3, <1>5, KeptGoesOn

LEMMA KeptReadHash ==
    ASSUME Typed, Bus, Course, NEW w \in Workers, ReadHash(w) PROVE Kept
<1>1. /\ wpc[w] = "reading" /\ Active(w) /\ ~PassesOn(w)
      /\ UNCHANGED <<msgs, given, pending, key, hash, replies, done, wmsg>>
  BY DEF ReadHash, Active, PassesOn, busVars
<1>2. hash.status # "none"
  BY <1>1 DEF Course, Planning
<1>3. PICK l \in {"finishing", "moving", "acking"} :
          /\ Goto(w, l)
          /\ l = "finishing" => IsLast(hash)
          /\ l = "moving" => ~IsLast(hash) /\ seen' = [seen EXCEPT ![w] = hash]
          /\ l # "moving" => UNCHANGED seen
  BY DEF ReadHash
<1>4. wpc'[w] = l
  BY <1>3, Goes DEF WorkerStates
<1>5. (l = "moving" => seen'[w] = hash) /\ \A v \in Workers \ {w} : seen'[v] = seen[v]
  BY <1>3, Copies
<1>6. ASSUME Ordered PROVE Stage(w)'
  <2>1. hash.current_step \in done
    BY <1>1, <1>6 DEF Course, Stage
  <2>2. hash.tasks \in Plans
    BY <1>2 DEF Course, Planned
  <2>3. Len(hash.tasks) \in Nat /\ hash.current_step \in 1 .. Len(hash.tasks)
    BY <1>6, <2>2, PlanFacts DEF Course, Steps
  <2>4. IsLast(hash) <=> hash.current_step = Len(hash.tasks)
    BY <2>3 DEF IsLast
  <2>5. ~IsLast(hash) => hash.current_step < Len(hash.tasks)
    BY <2>3 DEF IsLast
  <2> QED
    BY <1>1, <1>3, <1>4, <2>1, <2>4, <2>5 DEF Stage
<1> QED
  BY <1>1, <1>2, <1>3, <1>5, <1>6, KeptGoesOn

\* The answer of the worker that finishes the plan is that of the last step.
LEMMA KeptAnswers ==
    ASSUME Typed, Bus, Course, NEW w \in Workers, Answer(w) \/ Refuse(w) PROVE Kept
<1>1. /\ wpc[w] \in {"answering", "refusing"} /\ Active(w) /\ ~PassesOn(w) /\ Goto(w, "acking")
      /\ UNCHANGED <<msgs, given, pending, key, hash, done, wmsg, seen>>
  BY DEF Answer, Refuse, Active, PassesOn, busVars
<1>2. PICK to \in {"gateway", "shadow_eval"}, status \in {"success", "error"} :
          /\ replies' = Append(replies, Reply(to, status, w))
          /\ status = "success" => wpc[w] = "answering"
  BY DEF Answer, Refuse
<1>3. wpc[w] # "idle"
  BY <1>1
<1>4. Reply(to, status, w) \in Answers
  BY <1>3, WorkerFacts DEF Reply, Answers
<1>5. Range(replies') = Range(replies) \cup {Reply(to, status, w)}
  BY <1>2, <1>4, RepliesGrow
<1>6. Reply(to, status, w).status = status /\ Reply(to, status, w).step = Task(w).step_id
  BY DEF Reply
<1>7. hash.status = "none" => status = "error"
  BY <1>2 DEF Course, Planning
<1>8. Ordered /\ status = "success" => Task(w).step_id = Len(hash.tasks)
  BY <1>1, <1>2, OwnStep DEF Course, Stage
<1>9. Stage(w)'
  <2>1. wpc'[w] = "acking"
    BY <1>1, Goes DEF WorkerStates
  <2> QED
    BY <2>1 DEF Stage
<1> QED
  BY <1>1, <1>5, <1>6, <1>7, <1>8, <1>9, KeptGoesOn

\* The hash moves to the next step under the one worker that is active.
LEMMA KeptMoveOn ==
    ASSUME Typed, Bus, Course, NEW w \in Workers, MoveOn(w)
    PROVE  /\ Kept
           /\ hash'.tasks = hash.tasks /\ hash'.current_step = hash.current_step + 1
<1>1. /\ wpc[w] = "moving" /\ Active(w) /\ Goto(w, "sending") /\ hash' = Moved(w)
      /\ UNCHANGED <<msgs, given, pending, key, replies, done, wmsg, seen>>
  BY DEF MoveOn, Active, busVars
<1>2. wpc'[w] = "sending" /\ \A v \in Workers \ {w} : wpc'[v] = wpc[v]
  BY <1>1, Goes DEF WorkerStates
<1>3. Bus' /\ Ids' = Ids /\ \A j \in Ids : Live(j)' => Live(j)
  BY <1>1, BusGoesOn DEF WorkerStates
<1>4. hash.status # "none" /\ hash.tasks \in Plans /\ seen[w] = hash
  BY <1>1 DEF Course, Planning, Planned, Copied
<1>5. /\ hash'.status = hash.status /\ hash'.tasks = hash.tasks
      /\ hash'.current_step = hash.current_step + 1
  BY <1>1, <1>4, Before DEF Moved, Hashes
<1>6. \A v \in Workers \ {w} : ~Active(v)
  BY <1>1, SoleActive
<1>7. \A j \in Ids : Live(j)' => Handed(j)'
  BY <1>1, <1>2, <1>3, ActiveLive DEF Handed, PassesOn
<1>8. Planning' /\ Planned'
  <2>1. \A v \in Workers : wpc'[v] # "handling"
    BY <1>2, <1>6 DEF Active
  <2> QED
    BY <1>1, <1>3, <1>4, <1>5, <1>7, <2>1 DEF Course, Planning, Planned
<1>9. \A v \in Workers : Copied(v)'
  BY <1>1, <1>2, <1>4, <1>5, <1>6 DEF Copied, Active
<1>10. Ordered' => Ordered
  BY <1>5 DEF Ordered
<1>11. ASSUME Ordered PROVE Steps' /\ \A v \in Workers : Stage(v)'
  <2>1. hash.current_step < Len(hash.tasks) /\ hash.current_step \in done
    BY <1>1, <1>11 DEF Course, Stage
  <2>2. Len(hash.tasks) \in Nat /\ hash.current_step \in 1 .. Len(hash.tasks)
    BY <1>4, <1>11, PlanFacts DEF Course, Steps
  <2>3. \A v \in Workers : Stage(v)'
    BY <1>2, <1>6 DEF Stage, Active
  <2>4. Steps'
    BY <1>1, <1>3, <1>5, <1>7, <1>11, <2>1, <2>2 DEF Course, Steps
  <2> QED
    BY <2>3, <2>4
<1> QED
  BY <1>3, <1>5, <1>8, <1>9, <1>10, <1>11 DEF Kept, Course

\* The hash says SUCCESS when the last step, and so every step, is done.
LEMMA KeptFinish ==
    ASSUME Typed, Bus, Course, NEW w \in Workers, Finish(w)
    PROVE  /\ Kept
           /\ hash'.tasks = hash.tasks /\ hash'.current_step = hash.current_step
<1>1. /\ wpc[w] = "finishing" /\ Active(w) /\ Goto(w, "answering") /\ hash' = Finished
      /\ UNCHANGED <<msgs, given, pending, key, replies, done, wmsg, seen>> /\ ~PassesOn(w)
  BY DEF Finish, Active, busVars, PassesOn
<1>2. wpc'[w] = "answering" /\ \A v \in Workers \ {w} : wpc'[v] = wpc[v]
  BY <1>1, Goes DEF WorkerStates
<1>3. Bus' /\ Ids' = Ids /\ \A j \in Ids : Live(j)' => Live(j)
  BY <1>1, BusGoesOn DEF WorkerStates
<1>4. hash.status # "none" /\ hash.tasks \in Plans
  BY <1>1 DEF Course, Planning, Planned
<1>5. /\ hash'.status = "SUCCESS" /\ hash'.tasks = hash.tasks
      /\ hash'.current_step = hash.current_step
  BY <1>1, Before DEF Finished, Hashes
<1>6. \A v \in Workers \ {w} : ~Active(v)
  BY <1>1, SoleActive
<1>7. \A j \in Ids : Live(j)' => ~Handed(j)
  BY <1>1, <1>3, OwnStep
<1>8. Planning' /\ Planned'
  <2>1. \A v \in Workers : wpc'[v] # "handling"
    BY <1>2, <1>6 DEF Active
  <2> QED
    BY <1>1, <1>3, <1>4, <1>5, <1>7, <2>1 DEF Course, Planning, Planned
<1>9. \A v \in Workers : Copied(v)'
  BY <1>2, <1>6 DEF Copied, Active
<1>10. Ordered' => Ordered
  BY <1>4, <1>5 DEF Ordered
<1>11. ASSUME Ordered PROVE Steps' /\ \A v \in Workers : Stage(v)'
  <2>1. hash.current_step = Len(hash.tasks) /\ hash.current_step \in done
    BY <1>1, <1>11 DEF Course, Stage
  <2>2. Len(hash.tasks) \in Nat /\ 1 .. hash.current_step - 1 \subseteq done
    BY <1>4, <1>11, PlanFacts DEF Course, Steps
  <2>3. \A v \in Workers : Stage(v)'
    BY <1>1, <1>2, <1>5, <1>6, <2>1 DEF Stage, Active
  <2>4. 1 .. Len(hash.tasks) \subseteq done
    BY <2>1, <2>2
  <2>5. Steps'
    BY <1>1, <1>3, <1>5, <1>7, <1>11, <2>4 DEF Course, Steps
  <2> QED
    BY <2>3, <2>5
<1> QED
  BY <1>3, <1>5, <1>8, <1>9, <1>10, <1>11 DEF Kept, Course

\* The end of a message, and the death of a worker in its handler.
LEMMA KeptEnds ==
    ASSUME Shadow = {}, Typed, Bus, Course, NEW w \in Workers,
           \/ Ack(w) \/ MarkCompleted(w) \/ ReleaseLock(w)
           \/ Crash(w) /\ ~Mishap("crash_advancing")
    PROVE  Kept
<1>1. CASE Ack(w)
  <2>1. /\ wpc[w] = "acking" /\ ~PassesOn(w) /\ Goto(w, "completing")
        /\ UNCHANGED <<msgs, hash, replies, done, wmsg, seen>>
    BY <1>1 DEF Ack, PassesOn
  <2>2. wpc'[w] = "completing" /\ \A v \in Workers \ {w} : wpc'[v] = wpc[v]
    BY <2>1, Goes DEF WorkerStates
  <2>3. Bus' /\ Ids' = Ids /\ \A j \in Ids : Live(j)' => Live(j)
    BY <1>1, BusAck
  <2>4. Stage(w)'
    BY <2>2 DEF Stage
  <2> QED
    BY <2>1, <2>2, <2>3, <2>4, CourseKept DEF Kept
<1>2. CASE MarkCompleted(w) \/ ReleaseLock(w) \/ (Crash(w) /\ ~Mishap("crash_advancing"))
  <2>1. /\ Rest(w) /\ UNCHANGED <<msgs, given, pending, hash, replies, done>>
        /\ wpc[w] \in {"completing", "failing", "handling", "reading"}
        /\ UNCHANGED key \/ \E v \in KeyStates : SetKey("prod", Task(w), v)
    BY <1>2, Prod DEF MarkCompleted, ReleaseLock, Crash, KeyStates, busVars
  <2>2. /\ wpc[w] # "idle" /\ wpc[w] # "acking" /\ ~PassesOn(w)
    BY <2>1 DEF PassesOn
  <2>3. Bus' /\ Ids' = Ids /\ \A j \in Ids : Live(j)' => Live(j)
    BY <2>1, <2>2, BusRests
  <2>4. wpc'[w] = "idle" /\ \A v \in Workers \ {w} : wpc'[v] = wpc[v]
    BY <2>1, Before DEF Rest, Goto
  <2>5. \A v \in Workers \ {w} : wmsg'[v] = wmsg[v] /\ seen'[v] = seen[v]
    BY <2>1, Before DEF Rest
  <2>6. Stage(w)'
    BY <2>4 DEF Stage
  <2> QED
    BY <2>1, <2>2, <2>3, <2>4, <2>5, <2>6, CourseKept DEF Kept
<1> QED
  BY <1>1, <1>2

\* A step that leaves messages, hash, workers and answers alone.
LEMMA CourseSame ==
    ASSUME Course, UNCHANGED <<msgs, hash, replies, done, wpc, wmsg, seen>>,
           \A j \in Ids : Live(j)' => Live(j)
    PROVE  Course'
<1>1. Ids' = Ids /\ \A v \in Workers : Task(v)' = Task(v)
  BY DEF Ids, Task
<1>2. \A i \in Ids : Handed(i)' <=> Handed(i)
  BY DEF Handed, PassesOn
<1>3. Planning' /\ Planned' /\ \A v \in Workers : Copied(v)' /\ (Stage(v) => Stage(v)')
  BY <1>1, <1>2 DEF Course, Planning, Planned, Copied, Stage
<1>4. Ordered' => Ordered
  BY DEF Ordered
<1>5. Ordered => Steps'
  BY <1>1, <1>2 DEF Course, Steps
<1> QED
  BY <1>3, <1>4, <1>5 DEF Course

LEMMA KeptExpiry ==
    ASSUME Shadow = {}, Typed, Bus, Course, late = {}, NEW g \in Groups, NEW t \in Tasks,
           ExpireKey(g, t)
    PROVE  Kept
<1>1. UNCHANGED <<msgs, hash, replies, done, wpc, wmsg, seen>>
  BY DEF ExpireKey, workerVars
<1> QED
  BY <1>1, BusExpiry, CourseSame DEF Kept

LEMMA KeptSweep ==
    ASSUME Shadow = {}, Typed, Bus, Course, late = {}, NEW g \in Groups, NEW i \in Ids,
           Sweep(g, i)
    PROVE  Kept
<1>1. UNCHANGED <<hash, replies, done, wpc, wmsg, seen>>
  BY DEF Sweep, workerVars
<1>2. /\ Bus' /\ Live(i)
      /\ \A v \in Workers : wpc[v] # "idle" => wmsg[v] # i
      /\ \/ /\ Publish(msgs[i].task, msgs[i].retry + 1)
            /\ msgs[i].task \in Tasks /\ msgs[i].retry + 1 \in 0 .. MaxRetries
            /\ \A j \in Ids' : Live(j)' => j = Len(msgs')
         \/ UNCHANGED msgs /\ \A j \in Ids : Live(j)' => Live(j)
  BY BusSweep
<1>3. ~Handed(i)
  BY <1>2 DEF Handed, PassesOn
<1>4. /\ hash.status = "none" => msgs[i].task = PlannerTask
      /\ hash.status # "none" => msgs[i].task # PlannerTask
      /\ Ordered => msgs[i].task.step_id = hash.current_step
  BY <1>2, <1>3 DEF Course, Planning, Planned, Steps
<1> QED
  BY <1>1, <1>2, <1>4, CoursePublished, CourseSame DEF Kept

-----------------------------------------------------------------------------
(* The inductive invariant, and what follows from it.                      *)

OrderInv == Typed /\ (Orderly => Bus /\ Course /\ late = {})

\* Mishaps are remembered, so what was not orderly stays so.
LEMMA Remembered ==
    ASSUME Typed, UNCHANGED mishaps \/ \E k \in MishapKinds : Mishap(k)
    PROVE  /\ Range(mishaps) \subseteq Range(mishaps')
           /\ \A k \in MishapKinds : Mishap(k) => k \in Range(mishaps')
<1>1. ASSUME NEW k \in MishapKinds, Mishap(k)
      PROVE  Range(mishaps) \subseteq Range(mishaps') /\ k \in Range(mishaps')
  <2>1. mishaps \in Seq(Mishaps) /\ k \in Mishaps /\ mishaps' = Append(mishaps, k)
    BY <1>1, Before DEF Mishap
  <2>2. /\ mishaps' \in Seq(Mishaps) /\ Len(mishaps') = Len(mishaps) + 1 /\ Len(mishaps) \in Nat
        /\ DOMAIN mishaps = 1 .. Len(mishaps) /\ DOMAIN mishaps' = 1 .. Len(mishaps')
        /\ \A i \in 1 .. Len(mishaps) : mishaps'[i] = mishaps[i]
        /\ mishaps'[Len(mishaps) + 1] = k
    BY <2>1, AppendProperties, LenProperties
  <2>3. DOMAIN mishaps' = DOMAIN mishaps \cup {Len(mishaps) + 1}
    BY <2>2
  <2> QED
    BY <2>2, <2>3 DEF Range
<1> QED
  BY <1>1

LEMMA OrderInit == Init => OrderInv
<1> SUFFICES ASSUME Init PROVE OrderInv
  OBVIOUS
<1>1. Typed
  BY TypedInit
<1>2. /\ Ids = {} /\ hash = NoHash /\ pending["shadow"] = {} /\ Range(replies) = {} /\ late = {}
      /\ \A w \in Workers : wpc[w] = "idle"
  BY DEF Init, Ids, Groups, Range
<1>3. Bus
  BY <1>2 DEF Bus, Started, Active, Apart, Solo
<1>4. hash.status = "none"
  BY <1>2 DEF NoHash
<1>5. Course
  BY <1>2, <1>4 DEF Course, Planning, Planned, Copied, Ordered
<1> QED
  BY <1>1, <1>2, <1>3, <1>5 DEF OrderInv

LEMMA OrderStep == ASSUME Shadow = {}, OrderInv, [Next]_vars PROVE OrderInv'
<1>1. Typed /\ Typed'
  BY TypedStep DEF OrderInv
<1>2. SUFFICES ASSUME Orderly' PROVE Kept /\ late' = {}
  BY <1>1 DEF OrderInv, Kept
<1>3. UNCHANGED mishaps \/ \E k \in MishapKinds : Mishap(k)
  BY DEF Next, WorkerStep, Recover, Submit, Take, MakePlan, DispatchStep, RunStep, ReadHash, MoveOn,
     SendNext, Finish, Answer, Refuse, Ack, MarkCompleted, ReleaseLock, Crash, ExpireKey, FallBehind,
     Sweep, vars, MishapKinds
<1>4. Orderly
  BY <1>1, <1>2, <1>3, Remembered DEF Orderly
<1>5. ~Mishap("crash_advancing") /\ ~Mishap("slow")
  BY <1>1, <1>2, <1>3, Remembered DEF Orderly, MishapKinds
<1>6. Bus /\ Course /\ late = {}
  BY <1>4 DEF OrderInv
<1>7. late' = {}
  BY <1>5, <1>6, LateStep
<1>8. CASE Submit
  BY <1>1, <1>6, <1>7, <1>8, KeptSubmit
<1>9. ASSUME NEW w \in Workers, WorkerStep(w) \/ Crash(w) PROVE Kept
  BY <1>1, <1>5, <1>6, <1>9, KeptTake, KeptMakePlan, KeptHandsOn, KeptRunStep, KeptReadHash,
     KeptMoveOn, KeptFinish, KeptAnswers, KeptEnds DEF WorkerStep
<1>10. CASE Recover
  BY <1>1, <1>6, <1>7, <1>10, KeptExpiry, KeptSweep DEF Recover
<1>11. CASE UNCHANGED vars
  <2>1. UNCHANGED <<msgs, given, pending, key, hash, replies, done, wpc, wmsg, seen>>
    BY <1>11 DEF vars, busVars, workerVars
  <2>2. \A j \in Ids : Live(j)' => Live(j)
    BY <2>1 DEF Live, Passed
  <2>3. Bus'
    BY <1>6, <2>1 DEF Bus, Started, Active, Apart, Solo, Live, Passed, Task, Ids
  <2> QED
    BY <1>6, <1>7, <2>1, <2>2, <2>3, CourseSame DEF Kept
<1> QED
  BY <1>5, <1>7, <1>8, <1>9, <1>10, <1>11 DEF Next, FallBehind

LEMMA OrderImplies == OrderInv => StepsInOrder /\ AnswerIsLast
<1> SUFFICES ASSUME OrderInv, Orderly PROVE StepsInOrder /\ AnswerIsLast
  BY DEF StepsInOrder, AnswerIsLast
<1>1. Typed /\ Bus /\ Course
  BY DEF OrderInv
<1>2. WellFormed(hash.tasks) => Ordered
  BY <1>1 DEF Course, Planning, Ordered, NoHash, WellFormed
<1>3. ASSUME NEW w \in Workers, wpc[w] = "handling", WellFormed(hash.tasks)
      PROVE  Earlier(Task(w).step_id) \subseteq done
  <2>1. Active(w) /\ ~PassesOn(w)
    BY <1>3 DEF Active, PassesOn
  <2>2. Task(w).step_id = hash.current_step
    BY <1>1, <1>2, <1>3, <2>1, OwnStep
  <2> QED
    BY <1>1, <1>2, <1>3, <2>2 DEF Course, Steps, Earlier
<1>4. ASSUME NEW r \in Range(replies), r.status = "success", WellFormed(hash.tasks)
      PROVE  r.step = Len(hash.tasks) /\ ExecutedCompletely
  BY <1>1, <1>2, <1>4 DEF Course, Steps, ExecutedCompletely
<1> QED
  BY <1>3, <1>4 DEF StepsInOrder, AnswerIsLast

\* With production workers only, whatever their number, whatever is planned, and
\* however often handlers fail or die and are retried, no handler is given a step
\* before every earlier step of the plan has returned its result.
THEOREM OrderIsKept == ASSUME Shadow = {} PROVE Spec => []StepsInOrder
<1>1. OrderInv /\ [Next]_vars => OrderInv'
  BY OrderStep
<1>2. OrderInv => StepsInOrder
  BY OrderImplies
<1> QED
  BY OrderInit, <1>1, <1>2, PTL DEF Spec

\* In the same system a successful answer is the last step's, and the hash says
\* SUCCESS only when every step was done.
THEOREM LastAnswers == ASSUME Shadow = {} PROVE Spec => []AnswerIsLast
<1>1. OrderInv /\ [Next]_vars => OrderInv'
  BY OrderStep
<1>2. OrderInv => AnswerIsLast
  BY OrderImplies
<1> QED
  BY OrderInit, <1>1, <1>2, PTL DEF Spec

\* In the same system the step number of a plan never goes back: one worker moves
\* the hash, and it moves what it has read.
THEOREM NeverBack == ASSUME Shadow = {} PROVE Spec => CurrentStepGrows
<1>1. OrderInv /\ [Next]_vars => OrderInv'
  BY OrderStep
<1> DEFINE Grows == (Orderly /\ hash.status # "none" /\ hash'.tasks = hash.tasks) =>
                        hash'.current_step >= hash.current_step
<1>2. OrderInv /\ [Next]_vars => [Grows]_vars
  <2> SUFFICES ASSUME OrderInv, Next, Orderly, hash.status # "none"
               PROVE  hash'.current_step >= hash.current_step
    OBVIOUS
  <2>1. Typed /\ Bus /\ Course /\ hash.current_step \in Nat
    BY Before, HashFacts DEF OrderInv
  <2>2. ASSUME NEW w \in Workers, WorkerStep(w) \/ Crash(w)
        PROVE  hash'.current_step >= hash.current_step
    <3>1. CASE MakePlan(w)
      <4>1. hash' = hash
        BY <2>1, <3>1 DEF MakePlan, Course, Planned
      <4> QED
        BY <2>1, <4>1
    <3>2. CASE MoveOn(w)
      <4>1. hash'.current_step = hash.current_step + 1
        BY <2>1, <3>2, KeptMoveOn
      <4> QED
        BY <2>1, <4>1
    <3>3. CASE Finish(w)
      <4>1. hash'.current_step = hash.current_step
        BY <2>1, <3>3, KeptFinish
      <4> QED
        BY <2>1, <4>1
    <3>4. CASE UNCHANGED hash
      BY <2>1, <3>4
    <3> QED
      BY <2>2, <3>1, <3>2, <3>3, <3>4
      DEF WorkerStep, Take, DispatchStep, RunStep, ReadHash, SendNext, Answer, Refuse, Ack,
          MarkCompleted, ReleaseLock, Crash
  <2>3. CASE UNCHANGED hash
    BY <2>1, <2>3
  <2> QED
    BY <2>2, <2>3 DEF Next, Submit, Recover, ExpireKey, Sweep, FallBehind
<1> QED
  BY OrderInit, <1>1, <1>2, PTL DEF Spec, CurrentStepGrows
=============================================================================
