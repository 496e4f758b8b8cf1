-------------------------- MODULE AgentStreamProofs --------------------------
(***************************************************************************)
(* What holds of the bus for every set of traces and workers and for every *)
(* choice of timeouts: type correctness, that a message is lost in the two *)
(* ways of NoLoss only, mutual exclusion by the idempotency key, that      *)
(* copies are bounded by failures, and that the bus implements AtLeastOnce.*)
(***************************************************************************)
EXTENDS AgentStream, FiniteSetTheorems, TLAPS

USE BusAssumption DEF BusAssumption, Pending, Active, Free, Claimed, Salvaged, Taken

LEMMA EntryType == ASSUME TypeOK, NEW i \in Ids
                   PROVE  stream[i] \in Entry
  BY DEF TypeOK, Ids

LEMMA TraceType == ASSUME TypeOK, NEW i \in Ids
                   PROVE  TraceOf(i) \in Traces
  BY EntryType DEF Entry, TraceOf

LEMMA MsgType == ASSUME TypeOK, NEW w \in Workers, Active(w)
                 PROVE  /\ wmsg[w] \in Ids
                        /\ wmsg[w] \in 1 .. lastDelivered
                        /\ TraceOf(wmsg[w]) \in Traces
<1>1. wmsg[w] \in 0 .. lastDelivered /\ wmsg[w] >= 1 /\ lastDelivered \in 0 .. Len(stream)
  BY DEF TypeOK
<1>2. Len(stream) \in Nat
  BY DEF TypeOK
<1>3. wmsg[w] \in Ids /\ wmsg[w] \in 1 .. lastDelivered
  BY <1>1, <1>2 DEF Ids
<1> QED
  BY <1>3, TraceType

LEMMA KeyType == /\ NoLock \in Key
                 /\ Lock("PROCESSING", LockTTL) \in Key
                 /\ Lock("COMPLETED", DoneTTL) \in Key
                 /\ \A k \in Key : Expire(k) \in Key
  BY DEF NoLock, Lock, Key, Expire

LEMMA BatchType == ASSUME TypeOK, NEW i \in batch
                   PROVE  i \in Ids
  BY DEF TypeOK, Ids

LEMMA MishapType == ASSUME TypeOK, NEW k, Mishap(k)
                    PROVE  mishaps' \in 0 .. MaxMishaps
  BY DEF TypeOK, Mishap

LEMMA PelType == ASSUME TypeOK, NEW i, pel' = pel \/ pel' = Acked(i)
                 PROVE  /\ Pending' \subseteq Pending
                        /\ pel' \in [Pending' -> 0 .. IdleTime]
  BY DEF TypeOK, Acked

LEMMA PendingType == ASSUME TypeOK, NEW i \in Pending
                     PROVE  i \in Ids
  BY DEF TypeOK, Ids

LEMMA TypeInit == Init => TypeOK
  BY KeyType DEF Init, TypeOK, WorkerStates

LEMMA HistoryType == ASSUME TypeOK, [Next]_vars
                     PROVE  /\ takenFor' \in [Traces -> 0 .. lastDelivered']
                            /\ dropped' \subseteq Traces
<1>1. /\ lastDelivered \in Nat
      /\ UNCHANGED lastDelivered \/ lastDelivered' = lastDelivered + 1
  <2>1. UNCHANGED lastDelivered \/ lastDelivered' = lastDelivered + 1
    BY Zenon DEF Next, WorkerStep, SweeperStep, vars, busVars, Dispatch, Read, TakeLock,
         DropDuplicate, HandleEvent, RouteReply, Ack, MarkCompleted, ReleaseLock, WorkerCrash,
         WorkerRestart, SweepClaim, SweepAdd, SweepAck, SweepErrorAck, SweeperCrash, Tick
  <2> QED
    BY <2>1 DEF TypeOK
<1>2. ASSUME UNCHANGED history
      PROVE  takenFor' \in [Traces -> 0 .. lastDelivered'] /\ dropped' \subseteq Traces
  BY <1>1, <1>2 DEF TypeOK, history
<1>3. ASSUME NEW w \in Workers, TakeLock(w)
      PROVE  takenFor' \in [Traces -> 0 .. lastDelivered'] /\ dropped' \subseteq Traces
  <2>1. wmsg[w] \in 0 .. lastDelivered /\ TraceOf(wmsg[w]) \in Traces
    BY <1>3, MsgType DEF TakeLock, TypeOK
  <2>2. UNCHANGED takenFor \/ takenFor' = [takenFor EXCEPT ![TraceOf(wmsg[w])] = wmsg[w]]
    BY <1>3 DEF TakeLock
  <2>3. UNCHANGED dropped \/ dropped' = dropped \cup ({TraceOf(wmsg[w])} \ settled)
    BY <1>3 DEF TakeLock, GiveUp
  <2>4. takenFor \in [Traces -> 0 .. lastDelivered] /\ dropped \subseteq Traces
    BY DEF TypeOK
  <2>5. takenFor' \in [Traces -> 0 .. lastDelivered]
    BY <2>1, <2>2, <2>4
  <2>6. takenFor' \in [Traces -> 0 .. lastDelivered']
    BY <1>1, <2>5
  <2>7. dropped' \subseteq Traces
    BY <2>1, <2>3, <2>4
  <2> QED
    BY <2>6, <2>7
<1>4. ASSUME SweepErrorAck
      PROVE  takenFor' \in [Traces -> 0 .. lastDelivered'] /\ dropped' \subseteq Traces
  <2>1. \A i \in batch : TraceOf(i) \in Traces
    BY BatchType, TraceType
  <2>2. UNCHANGED dropped \/ \E i \in batch : dropped' = dropped \cup ({TraceOf(i)} \ settled)
    BY <1>4 DEF SweepErrorAck, Forsake, GiveUp
  <2>3. UNCHANGED <<takenFor, lastDelivered>>
    BY <1>4 DEF SweepErrorAck
  <2> QED
    BY <2>1, <2>2, <2>3 DEF TypeOK
<1>5. UNCHANGED history \/ SweepErrorAck \/ \E w \in Workers : TakeLock(w)
  BY Zenon DEF Next, WorkerStep, SweeperStep, vars, Dispatch, Read, DropDuplicate, HandleEvent,
         RouteReply, Ack, MarkCompleted, ReleaseLock, WorkerCrash, WorkerRestart, SweepClaim,
         SweepAdd, SweepAck, SweeperCrash, Tick
<1> QED
  BY <1>2, <1>3, <1>4, <1>5

LEMMA TypeStep == TypeOK /\ [Next]_vars => TypeOK'
<1> SUFFICES ASSUME TypeOK, [Next]_vars PROVE TypeOK'
  OBVIOUS
<1>0. takenFor' \in [Traces -> 0 .. lastDelivered'] /\ dropped' \subseteq Traces
  BY HistoryType
<1>1. ASSUME NEW t \in Traces, Dispatch(t) PROVE TypeOK'
  <2>1. [trace |-> t, retry |-> 0] \in Entry
    BY DEF Entry
  <2>2. stream \in Seq(Entry) /\ lastDelivered \in 0 .. Len(stream)
    BY DEF TypeOK
  <2>3. stream' \in Seq(Entry) /\ lastDelivered \in 0 .. Len(stream')
    BY <1>1, <2>1, <2>2 DEF Dispatch
  <2> QED
    BY <1>0, <1>1, <2>3 DEF TypeOK, Dispatch, workerVars, sweeperVars
<1>2. ASSUME NEW w \in Workers, Read(w) PROVE TypeOK'
  BY <1>0, <1>2 DEF TypeOK, Read, Goto, WorkerStates, sweeperVars
<1>3. ASSUME NEW w \in Workers, TakeLock(w) PROVE TypeOK'
  <2>1. lock' \in [Traces -> Key]
    BY <1>3, MsgType, KeyType DEF TypeOK, TakeLock
  <2>2. mishaps' \in 0 .. MaxMishaps
    BY <1>3, MishapType DEF TypeOK, TakeLock
  <2>3. wpc' \in [Workers -> WorkerStates]
    BY <1>3 DEF TypeOK, TakeLock, Goto, WorkerStates
  <2>5. wage' \in [Workers -> Nat]
    <3>1. wage' = wage \/ wage' = [wage EXCEPT ![w] = 0]
      BY <1>3 DEF TakeLock
    <3>2. wage \in [Workers -> Nat]
      BY DEF TypeOK
    <3> QED
      BY <3>1, <3>2
  <2>4. \A v \in Workers : Active(v)' => wmsg[v] >= 1
    BY <1>3 DEF TypeOK, TakeLock, Goto
  <2> QED
    BY <1>0, <2>1, <2>2, <2>3, <2>4, <2>5, <1>3 DEF TypeOK, TakeLock, sweeperVars
<1>4. ASSUME NEW w \in Workers, DropDuplicate(w) PROVE TypeOK'
  <2>1. Pending' \subseteq Pending /\ pel' \in [Pending' -> 0 .. IdleTime]
    BY <1>4, PelType DEF DropDuplicate
  <2>2. mishaps' \in 0 .. MaxMishaps
    BY <1>4, MishapType DEF TypeOK, DropDuplicate
  <2>3. wpc' \in [Workers -> WorkerStates]
    BY <1>4 DEF TypeOK, DropDuplicate, Goto, WorkerStates
  <2>5. wage' \in [Workers -> Nat]
    BY <1>4 DEF TypeOK, DropDuplicate
  <2>4. \A v \in Workers : Active(v)' => wmsg[v] >= 1
    BY <1>4 DEF TypeOK, DropDuplicate, Goto
  <2> QED
    BY <1>0, <2>1, <2>2, <2>3, <2>4, <2>5, <1>4 DEF TypeOK, DropDuplicate, sweeperVars
<1>5. ASSUME NEW w \in Workers, HandleEvent(w) PROVE TypeOK'
  BY <1>0, <1>5, MsgType DEF TypeOK, HandleEvent, Goto, WorkerStates, sweeperVars
<1>6. ASSUME NEW w \in Workers, RouteReply(w) PROVE TypeOK'
  <2>1. settled' \subseteq Traces
    <3>1. TraceOf(wmsg[w]) \in Traces
      BY <1>6, MsgType DEF RouteReply
    <3>2. settled' \subseteq settled \cup {TraceOf(wmsg[w])}
      BY <1>6 DEF RouteReply
    <3> QED
      BY <3>1, <3>2 DEF TypeOK
  <2>2. mishaps' \in 0 .. MaxMishaps
    BY <1>6, MishapType DEF TypeOK, RouteReply
  <2>3. wpc' \in [Workers -> WorkerStates]
    BY <1>6 DEF TypeOK, RouteReply, Goto, WorkerStates
  <2>4. \A v \in Workers : Active(v)' => wmsg[v] >= 1
    BY <1>6 DEF TypeOK, RouteReply, Goto
  <2> QED
    BY <1>0, <2>1, <2>2, <2>3, <2>4, <1>6 DEF TypeOK, RouteReply, sweeperVars
<1>7. ASSUME NEW w \in Workers, Ack(w) PROVE TypeOK'
  <2>1. Pending' \subseteq Pending /\ pel' \in [Pending' -> 0 .. IdleTime]
    BY <1>7, PelType DEF Ack
  <2>2. mishaps' \in 0 .. MaxMishaps
    BY <1>7, MishapType DEF TypeOK, Ack
  <2>3. wpc' \in [Workers -> WorkerStates]
    BY <1>7 DEF TypeOK, Ack, Goto, WorkerStates
  <2>4. \A v \in Workers : Active(v)' => wmsg[v] >= 1
    BY <1>7 DEF TypeOK, Ack, Goto
  <2> QED
    BY <1>0, <2>1, <2>2, <2>3, <2>4, <1>7 DEF TypeOK, Ack, sweeperVars
<1>8. ASSUME NEW w \in Workers, MarkCompleted(w) PROVE TypeOK'
  <2>1. lock' \in [Traces -> Key]
    BY <1>8, MsgType, KeyType DEF TypeOK, MarkCompleted
  <2>2. mishaps' \in 0 .. MaxMishaps
    BY <1>8, MishapType DEF TypeOK, MarkCompleted
  <2>3. wpc' \in [Workers -> WorkerStates]
    BY <1>8 DEF TypeOK, MarkCompleted, Goto, WorkerStates
  <2>4. \A v \in Workers : Active(v)' => wmsg[v] >= 1
    BY <1>8 DEF TypeOK, MarkCompleted, Goto
  <2> QED
    BY <1>0, <2>1, <2>2, <2>3, <2>4, <1>8 DEF TypeOK, MarkCompleted, sweeperVars
<1>9. ASSUME NEW w \in Workers, ReleaseLock(w) PROVE TypeOK'
  <2>1. lock' \in [Traces -> Key]
    BY <1>9, MsgType, KeyType DEF TypeOK, ReleaseLock
  <2>2. mishaps' \in 0 .. MaxMishaps
    BY <1>9, MishapType DEF TypeOK, ReleaseLock
  <2>3. wpc' \in [Workers -> WorkerStates]
    BY <1>9 DEF TypeOK, ReleaseLock, Goto, WorkerStates
  <2>4. \A v \in Workers : Active(v)' => wmsg[v] >= 1
    BY <1>9 DEF TypeOK, ReleaseLock, Goto
  <2> QED
    BY <1>0, <2>1, <2>2, <2>3, <2>4, <1>9 DEF TypeOK, ReleaseLock, sweeperVars
<1>10. ASSUME NEW w \in Workers, WorkerCrash(w) PROVE TypeOK'
  BY <1>0, <1>10 DEF TypeOK, WorkerCrash, Goto, WorkerStates, busVars, sweeperVars, Mishap
<1>11. ASSUME NEW w \in Workers, WorkerRestart(w) PROVE TypeOK'
  BY <1>0, <1>11 DEF TypeOK, WorkerRestart, Goto, WorkerStates, busVars, sweeperVars
<1>12. CASE SweepClaim
  BY <1>0, <1>12 DEF TypeOK, SweepClaim, Zombies, workerVars, sweeperVars, Mishap
<1>13. CASE SweepAdd
  <2>1. stream' \in Seq(Entry) /\ Len(stream) <= Len(stream')
    <3>1. ASSUME NEW i \in batch, Salvage(i)
          PROVE  stream' \in Seq(Entry) /\ Len(stream) <= Len(stream')
      <4>1. stream[i] \in Entry
        BY BatchType, EntryType
      <4>2. stream[i].retry < MaxRetries => [stream[i] EXCEPT !.retry = @ + 1] \in Entry
        BY <4>1 DEF Entry
      <4>3. \A e \in Entry : /\ Append(stream, e) \in Seq(Entry)
                              /\ Len(stream) <= Len(Append(stream, e))
        BY DEF TypeOK
      <4>4. UNCHANGED stream \/ \E e \in Entry : stream' = Append(stream, e)
        BY <3>1, <4>2 DEF Salvage, Retriable
      <4>5. CASE UNCHANGED stream
        BY <4>5 DEF TypeOK
      <4> QED
        BY <4>3, <4>4, <4>5
    <3> QED
      BY <1>13, <3>1 DEF SweepAdd, TypeOK
  <2>2. dlq' \subseteq 1 .. lastDelivered
    BY <1>13 DEF TypeOK, SweepAdd, Salvage, Retriable
  <2>3. mishaps' \in 0 .. MaxMishaps
    BY <1>13, MishapType DEF TypeOK, SweepAdd
  <2> QED
    BY <1>0, <2>1, <2>2, <2>3, <1>13 DEF TypeOK, SweepAdd, workerVars
<1>14. CASE SweepAck
  <2>1. Pending' \subseteq Pending /\ pel' \in [Pending' -> 0 .. IdleTime]
    BY <1>14, PelType DEF SweepAck, SweepAckHead
  <2>2. batch' \subseteq batch
    BY <1>14 DEF SweepAck, SweepAckHead
  <2>3. mishaps' \in 0 .. MaxMishaps
    BY <1>14, MishapType DEF TypeOK, SweepAck
  <2> QED
    BY <1>0, <2>1, <2>2, <2>3, <1>14 DEF TypeOK, SweepAck, SweepAckHead, workerVars
<1>15. CASE SweepErrorAck
  <2>1. Pending' \subseteq Pending /\ pel' \in [Pending' -> 0 .. IdleTime]
    BY <1>15, PelType DEF SweepErrorAck, SweepAckHead
  <2>2. batch' \subseteq batch
    BY <1>15 DEF SweepErrorAck, SweepAckHead
  <2>3. mishaps' \in 0 .. MaxMishaps
    BY <1>15, MishapType DEF TypeOK, SweepErrorAck
  <2> QED
    BY <1>0, <2>1, <2>2, <2>3, <1>15 DEF TypeOK, SweepErrorAck, SweepAckHead, workerVars
<1>16. CASE SweeperCrash
  BY <1>0, <1>16 DEF TypeOK, SweeperCrash, busVars, workerVars, Mishap
<1>17. CASE Tick
  BY <1>0, <1>17, KeyType DEF TypeOK, Tick, Aged, sweeperVars
<1>18. CASE UNCHANGED vars
  BY <1>0, <1>18 DEF TypeOK, vars, busVars, workerVars, sweeperVars
<1> QED
  BY <1>1, <1>2, <1>3, <1>4, <1>5, <1>6, <1>7, <1>8, <1>9, <1>10, <1>11,
     <1>12, <1>13, <1>14, <1>15, <1>16, <1>17, <1>18
     DEF Next, WorkerStep, SweeperStep

\* Type correctness: every variable of the bus keeps its type, for any constants.
THEOREM TypeCorrect == Spec => []TypeOK
  BY TypeInit, TypeStep, PTL DEF Spec

-----------------------------------------------------------------------------
(* No message is lost.                                                     *)

LEMMA NoLossInit == Init => NoLossInv
  BY TypeInit DEF Init, NoLossInv, Distinct, Answered, KeysLive, KeyOwner,
                  SweeperState, Saved, NoLock, Published, Ids

LEMMA SweeperStateStep == ASSUME NoLossInv, [Next]_vars
                          PROVE  SweeperState'
<1> USE DEF NoLossInv, SweeperState
<1>1. CASE UNCHANGED sweeperVars
  BY <1>1 DEF sweeperVars
<1>2. CASE SweepClaim
  BY <1>2 DEF SweepClaim, sweeperVars
<1>3. CASE SweepAdd
  BY <1>3 DEF SweepAdd
<1>4. CASE SweepAck
  BY <1>4 DEF SweepAck, SweepAckHead
<1>5. CASE SweepErrorAck
  BY <1>5 DEF SweepErrorAck, SweepAckHead
<1>6. CASE SweeperCrash
  BY <1>6 DEF SweeperCrash
<1> QED
  BY <1>1, <1>2, <1>3, <1>4, <1>5, <1>6
     DEF Next, WorkerStep, SweeperStep, vars, Dispatch, Read, TakeLock, DropDuplicate,
         HandleEvent, RouteReply, Ack, MarkCompleted, ReleaseLock, WorkerCrash,
         WorkerRestart, Tick

LEMMA DistinctStep == ASSUME NoLossInv, [Next]_vars
                      PROVE  Distinct'
<1> USE DEF NoLossInv, TypeOK, Distinct, Goto
<1>1. CASE UNCHANGED <<wpc, wmsg>>
  BY <1>1
<1>2. ASSUME NEW w \in Workers, Read(w) PROVE Distinct'
  BY <1>2 DEF Read
<1>3. ASSUME NEW w \in Workers, Active(w), UNCHANGED wmsg, NEW s, Goto(w, s)
      PROVE  Distinct'
  BY <1>3
<1>4. ASSUME NEW w \in Workers, WorkerCrash(w) \/ WorkerRestart(w) PROVE Distinct'
  BY <1>4 DEF WorkerCrash, WorkerRestart
<1>5. ASSUME NEW w \in Workers,
             TakeLock(w) \/ DropDuplicate(w) \/ HandleEvent(w) \/ RouteReply(w)
               \/ Ack(w) \/ MarkCompleted(w) \/ ReleaseLock(w)
      PROVE  /\ Active(w)
             /\ UNCHANGED wmsg
             /\ \E s \in WorkerStates : Goto(w, s)
  BY <1>5 DEF TakeLock, DropDuplicate, HandleEvent, RouteReply, Ack, MarkCompleted,
              ReleaseLock, WorkerStates
<1> QED
  BY <1>1, <1>2, <1>3, <1>4, <1>5
     DEF Next, WorkerStep, SweeperStep, vars, workerVars, Dispatch, SweepClaim, SweepAdd,
         SweepAck, SweepErrorAck, SweeperCrash, Tick

\* History only grows: entries keep their trace, answers and dead letters stay.
LEMMA Grows == ASSUME TypeOK, [Next]_vars
               PROVE  /\ \A i \in Ids : i \in Ids' /\ TraceOf(i)' = TraceOf(i)
                      /\ lastDelivered <= lastDelivered'
                      /\ settled \subseteq settled'
                      /\ dlq \subseteq dlq'
                      /\ dropped \subseteq dropped'
<1>1. \A e : \A i \in Ids : /\ i \in 1 .. Len(Append(stream, e))
                            /\ Append(stream, e)[i] = stream[i]
  BY DEF TypeOK, Ids
<1>2. /\ UNCHANGED stream \/ \E e : stream' = Append(stream, e)
      /\ UNCHANGED lastDelivered \/ lastDelivered' = lastDelivered + 1
      /\ settled \subseteq settled'
      /\ dlq \subseteq dlq'
      /\ dropped \subseteq dropped'
  BY DEF history, GiveUp, Forsake, Next, WorkerStep, SweeperStep, vars, busVars, Dispatch, Read, TakeLock,
         DropDuplicate, HandleEvent, RouteReply, Ack, MarkCompleted, ReleaseLock, WorkerCrash,
         WorkerRestart, SweepClaim, SweepAdd, Salvage, Retriable, SweepAck, SweepErrorAck, SweeperCrash, Tick
<1>3. \A i \in Ids : i \in Ids' /\ TraceOf(i)' = TraceOf(i)
  BY <1>1, <1>2 DEF Ids, TraceOf
<1> QED
  BY <1>2, <1>3 DEF TypeOK

LEMMA AnsweredStep == ASSUME NoLossInv, [Next]_vars
                      PROVE  Answered'
<1> DEFINE Late(v) == wpc[v] \in {"acking", "completing"}
           Task(v) == TraceOf(wmsg[v])
<1>1. SUFFICES ASSUME NEW v \in Workers, Late(v)' PROVE Task(v)' \in settled'
  BY DEF Answered
<1>2. \/ Late(v) /\ UNCHANGED wmsg
      \/ \E w \in Workers : w = v /\ HandleEvent(w) /\ settled' = settled \cup {TraceOf(wmsg[w])}
      \/ \E w \in Workers : w = v /\ RouteReply(w) /\ settled' = settled \cup {TraceOf(wmsg[w])}
      \/ Late(v) /\ \E w \in Workers : w # v /\ Read(w)
  BY <1>1 DEF NoLossInv, TypeOK, Goto, Next, WorkerStep, SweeperStep, vars, workerVars, Dispatch,
         Read, TakeLock, DropDuplicate,
         HandleEvent, RouteReply, Ack, MarkCompleted, ReleaseLock, WorkerCrash,
         WorkerRestart, SweepClaim, SweepAdd, SweepAck, SweepErrorAck, SweeperCrash, Tick
<1>3. wmsg'[v] = wmsg[v] /\ Active(v)
  BY <1>2 DEF NoLossInv, TypeOK, Read, HandleEvent, RouteReply
<1>4. Task(v)' = Task(v)
  BY <1>3, MsgType, Grows DEF NoLossInv
<1> QED
  BY <1>2, <1>3, <1>4, Grows DEF NoLossInv, Answered

\* How the keys change: they are taken, marked, released or grow older.
LEMMA KeysLiveStep == ASSUME TypeOK, KeysLive, [Next]_vars
                      PROVE  KeysLive'
<1> DEFINE Shape(k) == k.value = "none" <=> k.ttl = 0
<1>1. /\ Shape(NoLock)
      /\ Shape(Lock("PROCESSING", LockTTL))
      /\ Shape(Lock("COMPLETED", DoneTTL))
      /\ \A k \in Key : Shape(k) => Shape(Expire(k))
  BY DEF NoLock, Lock, Expire, Key
<1>2. lock \in [Traces -> Key] /\ \A t \in Traces : Shape(lock[t])
  BY DEF TypeOK, KeysLive
<1>3. \/ UNCHANGED lock
      \/ lock' = [t \in Traces |-> Expire(lock[t])]
      \/ \E u \in Traces, k \in {NoLock, Lock("PROCESSING", LockTTL), Lock("COMPLETED", DoneTTL)} :
            lock' = [lock EXCEPT ![u] = k]
  <2>1. ASSUME NEW w \in Workers, TakeLock(w) \/ MarkCompleted(w) \/ ReleaseLock(w)
        PROVE  TraceOf(wmsg[w]) \in Traces
    BY <2>1, MsgType DEF TakeLock, MarkCompleted, ReleaseLock
  <2> QED
    BY <2>1 DEF Next, WorkerStep, SweeperStep, vars, busVars, Dispatch, Read, TakeLock,
         DropDuplicate, HandleEvent, RouteReply, Ack, MarkCompleted, ReleaseLock, WorkerCrash,
         WorkerRestart, SweepClaim, SweepAdd, SweepAck, SweepErrorAck, SweeperCrash, Tick
<1> HIDE DEF Shape
<1>4. \A t \in Traces : Shape(lock'[t])
  BY <1>1, <1>2, <1>3
<1> QED
  BY <1>4 DEF Shape, KeysLive

LEMMA KeyOwnerStep == ASSUME NoLossInv, [Next]_vars
                      PROVE  KeyOwner'
<1> DEFINE Dropping(v) == wpc[v] \in {"got", "duplicate"}
           Owner(t) == /\ takenFor[t] \in Ids
                       /\ TraceOf(takenFor[t]) = t
                       /\ \A v \in Workers : wmsg[v] = takenFor[t] => ~Dropping(v)
           Ok(t) == /\ lock[t].value = "COMPLETED" => t \in settled
                    /\ lock[t].value = "PROCESSING" => Owner(t)
           Started(v) == Dropping(v)' => Dropping(v) /\ wmsg'[v] = wmsg[v]
<1> USE DEF NoLossInv
<1> SUFFICES ASSUME NEW t \in Traces PROVE Ok(t)'
  BY DEF KeyOwner
<1>0. Ok(t)
  BY DEF KeyOwner
\* The entry a key was set for stays that of its task.
<1>1. ASSUME lock'[t] = lock[t] \/ lock'[t].value = "none", takenFor'[t] = takenFor[t],
             \A v \in Workers : Started(v)
      PROVE  Ok(t)'
  BY <1>0, <1>1, Grows
<1> HIDE DEF Ok, Owner
<1>2. ASSUME NEW w \in Workers, Read(w) PROVE Ok(t)'
  <2>1. UNCHANGED <<stream, lock, takenFor, settled>> /\ takenFor[t] # lastDelivered + 1
    BY <1>2 DEF Read, history, TypeOK
  <2>2. \A v \in Workers : wmsg'[v] = takenFor[t] /\ Dropping(v)' => wmsg[v] = takenFor[t] /\ Dropping(v)
    BY <1>2, <2>1 DEF Read, Goto, TypeOK
  <2> QED
    BY <1>0, <2>1, <2>2 DEF Ok, Owner, Ids, TraceOf
<1>3. ASSUME NEW w \in Workers, TakeLock(w) PROVE Ok(t)'
  <2>0. PICK u \in Traces : u = TraceOf(wmsg[w]) /\ wmsg[w] \in Ids
    BY <1>3, MsgType DEF TakeLock
  <2>1. /\ UNCHANGED <<stream, wmsg, settled>>
        /\ wpc[w] = "got"
        /\ \A v \in Workers \ {w} : wpc'[v] = wpc[v]
    BY <1>3 DEF TypeOK, TakeLock, Goto
  <2>2. \A v \in Workers : Started(v)
    BY <2>1
  <2>3. CASE UNCHANGED <<lock, takenFor>>
    BY <1>1, <2>2, <2>3
  <2>4. CASE Taken(wmsg[w]) /\ t # u
    BY <1>1, <2>0, <2>2, <2>4 DEF TypeOK
  <2>5. CASE Taken(wmsg[w]) /\ t = u /\ ~UNCHANGED <<lock, takenFor>>
    <3>1. lock'[t] = Lock("PROCESSING", LockTTL) /\ takenFor'[t] = wmsg[w]
      BY <2>0, <2>5 DEF TypeOK
    <3>2. wpc'[w] \in {"handling", "failing"}
      BY <1>3, <2>5 DEF TakeLock, Goto, TypeOK
    <3>3. \A v \in Workers : wmsg'[v] = wmsg[w] => ~Dropping(v)'
      BY <2>1, <3>2 DEF Distinct
    <3>4. takenFor'[t] \in Ids' /\ TraceOf(takenFor[t])' = t
      BY <2>0, <2>1, <2>5, <3>1 DEF Ids, TraceOf
    <3>5. Owner(t)'
      BY <3>1, <3>3, <3>4 DEF Owner
    <3> QED
      BY <3>1, <3>5 DEF Ok, Lock
  <2> QED
    BY <1>3, <2>0, <2>3, <2>4, <2>5 DEF TakeLock
<1>4. ASSUME NEW w \in Workers, MarkCompleted(w) \/ ReleaseLock(w) PROVE Ok(t)'
  <2>0. PICK u \in Traces : u = TraceOf(wmsg[w])
    BY <1>4, MsgType DEF MarkCompleted, ReleaseLock
  <2>1. /\ UNCHANGED <<wmsg, takenFor, settled>>
        /\ \A v \in Workers : Started(v)
    BY <1>4 DEF TypeOK, MarkCompleted, ReleaseLock, Goto, history
  <2>2. CASE UNCHANGED lock
    BY <1>1, <2>1, <2>2
  <2>3. ASSUME NEW k \in Key, lock' = [lock EXCEPT ![u] = k], t # u PROVE Ok(t)'
    BY <1>1, <2>1, <2>3 DEF TypeOK
  <2>4. CASE lock' = [lock EXCEPT ![u] = Lock("COMPLETED", DoneTTL)] /\ MarkCompleted(w) /\ t = u
    BY <2>0, <2>1, <2>4 DEF Ok, Lock, TypeOK, Answered, MarkCompleted
  <2>5. CASE lock' = [lock EXCEPT ![u] = NoLock] /\ t = u
    BY <2>5 DEF Ok, NoLock, TypeOK
  <2> QED
    BY <1>4, <2>0, <2>2, <2>3, <2>4, <2>5, KeyType DEF MarkCompleted, ReleaseLock
<1>5. ASSUME NEW w \in Workers, DropDuplicate(w) \/ HandleEvent(w) \/ RouteReply(w) \/ Ack(w)
                \/ WorkerCrash(w) \/ WorkerRestart(w)
      PROVE  Ok(t)'
  <2>1. UNCHANGED <<wmsg, lock, takenFor>>
    BY <1>5, Zenon DEF DropDuplicate, HandleEvent, RouteReply, Ack, WorkerCrash, WorkerRestart,
           busVars, history
  <2>2. \A v \in Workers : Started(v)
    BY <1>5, <2>1 DEF TypeOK, DropDuplicate, HandleEvent, RouteReply, Ack, WorkerCrash,
           WorkerRestart, Goto
  <2> QED
    BY <1>1, <2>1, <2>2
<1>6. CASE Tick
  <2>1. lock'[t] = Expire(lock[t]) /\ lock[t] \in Key /\ UNCHANGED <<wpc, wmsg, takenFor>>
    BY <1>6 DEF Tick, TypeOK, history
  <2>2. lock'[t].value = "none" \/ lock'[t].value = lock[t].value
    BY <2>1 DEF Expire, NoLock, Key
  <2>3. lock'[t].value # "none" => (Ok(t) => Ok(t)')
    <3>1. UNCHANGED <<stream, settled>>
      BY <1>6 DEF Tick
    <3> QED
      BY <2>1, <2>2, <3>1 DEF Ok, Owner, Ids, TraceOf
  <2> QED
    BY <1>0, <1>1, <2>1, <2>3
<1>7. ASSUME UNCHANGED <<wpc, wmsg, lock, takenFor>> PROVE Ok(t)'
  BY <1>1, <1>7
<1> QED
  BY <1>2, <1>3, <1>4, <1>5, <1>6, <1>7
     DEF Next, WorkerStep, SweeperStep, vars, busVars, workerVars, history, Dispatch, SweepClaim,
         SweepAdd, SweepAck, SweepErrorAck, SweeperCrash

LEMMA SavedStep == ASSUME NoLossInv, [Next]_vars
                   PROVE  Saved'
<1> DEFINE Over(t) == t \in settled \/ Dead(t) \/ t \in dropped
           Carried(t) == \E i \in Ids : Vital(i) /\ TraceOf(i) = t
           Kept == \A i \in Ids : Vital(i) => Vital(i)' \/ TraceOf(i) \in settled
           SameTasks == \A t \in Traces : Published(t)' => Published(t)
<1> USE DEF NoLossInv
\* What is over stays over.
<1>1. \A t \in Traces : Over(t) => Over(t)'
  <2>1. \A i \in dlq : TraceOf(i)' = TraceOf(i)
    BY Grows DEF TypeOK, Ids
  <2> QED
    BY <2>1, Grows DEF Dead
<1>2. ASSUME Kept, SameTasks PROVE Saved'
  BY <1>1, <1>2, Grows DEF Saved
<1>3. ASSUME UNCHANGED stream PROVE SameTasks
  BY <1>3 DEF Published, TraceOf, Ids
<1>4. ASSUME NEW t \in Traces, Dispatch(t) PROVE Saved'
  <2>1. Kept
    BY <1>4, Grows DEF TypeOK, Dispatch, Vital, Carrier, Doomed, FirstZombie, workerVars,
           sweeperVars
  <2>0. PICK n : n = Len(stream) + 1
    OBVIOUS
  <2>2. n \in Ids' /\ TraceOf(n)' = t
    <3>1. stream'[n] = [trace |-> t, retry |-> 0] /\ Len(stream') = n /\ n \in Nat \ {0}
      BY <1>4, <2>0 DEF TypeOK, Dispatch
    <3> QED
      BY <3>1 DEF Ids, TraceOf
  <2>3. Vital(n)'
    <3>1. UNCHANGED <<lastDelivered, wmsg, batch>>
      BY <1>4 DEF Dispatch, workerVars, sweeperVars
    <3>2. n > lastDelivered /\ n \notin batch /\ \A w \in Workers : wmsg[w] # n
      BY <2>0 DEF TypeOK
    <3> QED
      BY <2>2, <3>1, <3>2 DEF Vital, Carrier, Doomed, FirstZombie
  <2>4. \A u \in Traces \ {t} : Published(u)' => Published(u)
    BY <1>4 DEF TypeOK, Dispatch, Published, Ids, TraceOf
  <2>5. \A u \in Traces \ {t} : Published(u)' => Over(u)' \/ Carried(u)'
    BY <1>1, <2>1, <2>4, Grows DEF Saved
  <2> QED
    BY <2>2, <2>3, <2>5 DEF Saved
<1>5. ASSUME NEW w \in Workers, Read(w) PROVE Saved'
  <2>1. /\ UNCHANGED <<stream, spc, batch>>
        /\ Pending' = Pending \cup {lastDelivered'}
        /\ lastDelivered' = lastDelivered + 1
    BY <1>5 DEF Read, sweeperVars
  <2>2. \A v \in Workers : wpc'[v] = "duplicate" => wpc[v] = "duplicate" /\ wmsg'[v] = wmsg[v]
    BY <1>5 DEF TypeOK, Read, Goto
  <2>3. \A i \in Ids : Carrier(i) => Carrier(i)'
    BY <2>1 DEF TypeOK, Carrier, Ids
  <2>4. \A i \in Ids : Doomed(i)' => Doomed(i)
    BY <2>1, <2>2 DEF Doomed, FirstZombie
  <2> QED
    BY <1>2, <1>3, <2>1, <2>3, <2>4 DEF Vital
<1>6. ASSUME NEW w \in Workers, TakeLock(w) PROVE Saved'
  <2>0. PICK u \in Traces : u = TraceOf(wmsg[w])
    BY <1>6, MsgType DEF TakeLock
  <2>1. /\ UNCHANGED <<stream, lastDelivered, pel, wmsg, spc, batch>>
        /\ wpc[w] = "got"
        /\ \A v \in Workers \ {w} : wpc'[v] = wpc[v]
    BY <1>6 DEF TypeOK, TakeLock, Goto, sweeperVars
  <2>2. \A i \in Ids : Vital(i) => Vital(i)' \/ (i = wmsg[w] /\ wpc'[w] = "duplicate")
    BY <2>1 DEF Vital, Carrier, Doomed, FirstZombie, Ids
  <2>3. CASE wpc'[w] # "duplicate"
    BY <1>2, <1>3, <2>1, <2>2, <2>3
  \* The barrier drops this copy: its task is over, or the entry the key was set
  \* for still carries it, or the key is a stale one and the task is given up.
  <2>4. CASE wpc'[w] = "duplicate"
    <3>1. /\ lock[u] # NoLock
          /\ IF Stale(u) THEN GiveUp(u) ELSE UNCHANGED dropped
      BY <1>6, <2>0, <2>1, <2>4 DEF TakeLock, Goto, TypeOK
    <3>2. lock[u].value \in {"PROCESSING", "COMPLETED"}
      BY <3>1 DEF TypeOK, KeysLive, Key, NoLock
    <3>3. ASSUME lock[u].value = "COMPLETED" PROVE Over(u)'
      BY <1>1, <2>0, <3>3 DEF KeyOwner
    <3>4. ASSUME lock[u].value = "PROCESSING", Stale(u) PROVE Over(u)'
      <4>1. u \in dropped' \cup settled'
        BY <2>0, <3>1, <3>4, Grows DEF GiveUp
      <4> QED
        BY <4>1
    <3>8. ASSUME lock[u].value = "PROCESSING", ~Stale(u) PROVE Carried(u)'
      <4>1. PICK i : i = takenFor[u]
        OBVIOUS
      <4>2. /\ i \in Pending /\ i \in Ids /\ ~Salvaged(i) /\ TraceOf(i) = u
            /\ \A v \in Workers : wmsg[v] = i => wpc[v] \notin {"got", "duplicate"}
        BY <2>0, <3>8, <4>1 DEF KeyOwner, Stale
      <4>3. i # wmsg[w] /\ Vital(i)
        BY <2>1, <4>2 DEF Vital, Carrier, Doomed
      <4>4. Vital(i)' /\ i \in Ids' /\ TraceOf(i)' = u
        BY <2>2, <4>2, <4>3, Grows
      <4> QED
        BY <4>4
    <3>5. Over(u)' \/ Carried(u)'
      BY <3>2, <3>3, <3>4, <3>8
    <3>6. \A t \in Traces \ {u} : Over(t) \/ Carried(t) => Over(t)' \/ Carried(t)'
      BY <1>1, <2>0, <2>2, Grows
    <3> QED
      BY <1>3, <2>1, <3>5, <3>6 DEF Saved
  <2> QED
    BY <2>3, <2>4
<1>7. ASSUME NEW w \in Workers, DropDuplicate(w) PROVE Saved'
  <2>1. Kept
    BY <1>7 DEF TypeOK, DropDuplicate, Goto, Acked, Vital, Carrier, Doomed, FirstZombie, Ids,
           sweeperVars
  <2> QED
    BY <1>2, <1>3, <1>7, <2>1 DEF DropDuplicate
<1>8. ASSUME NEW w \in Workers, Ack(w) PROVE Saved'
  <2>1. Kept
    BY <1>8 DEF TypeOK, Ack, Goto, Acked, Answered, Vital, Carrier, Doomed, FirstZombie, Ids,
           sweeperVars
  <2> QED
    BY <1>2, <1>3, <1>8, <2>1 DEF Ack
<1>9. ASSUME NEW w \in Workers, HandleEvent(w) \/ RouteReply(w) \/ MarkCompleted(w)
                \/ ReleaseLock(w) \/ WorkerCrash(w) \/ WorkerRestart(w)
      PROVE  Saved'
  <2>1. UNCHANGED <<stream, lastDelivered, pel, wmsg, spc, batch>>
    BY <1>9 DEF HandleEvent, RouteReply, MarkCompleted, ReleaseLock, WorkerCrash,
                WorkerRestart, busVars, sweeperVars
  <2>2. \A v \in Workers : wpc'[v] = "duplicate" => wpc[v] = "duplicate"
    BY <1>9 DEF TypeOK, HandleEvent, RouteReply, MarkCompleted, ReleaseLock, WorkerCrash,
                WorkerRestart, Goto
  <2>3. Kept
    BY <2>1, <2>2 DEF Vital, Carrier, Doomed, FirstZombie, Ids
  <2> QED
    BY <1>2, <1>3, <2>1, <2>3
<1>10. CASE SweepClaim
  <2>1. Kept
    BY <1>10 DEF SweepClaim, SweeperState, sweeperVars, Vital, Carrier, Doomed, FirstZombie, Ids, workerVars
  <2> QED
    BY <1>2, <1>3, <1>10, <2>1 DEF SweepClaim
<1>11. CASE SweepAdd
  <2>1. PICK i \in batch : FirstZombie(i) /\ (Salvage(i) \/ UNCHANGED <<stream, dlq>>)
                          /\ (~Salvage(i) => spc' = "blind")
    BY <1>11, Zenon DEF SweepAdd
  <2>2. UNCHANGED <<lastDelivered, pel, wpc, wmsg, batch>> /\ spc = "add" /\ i \in Ids
    BY <1>11, BatchType DEF SweepAdd, workerVars
  <2>0. CASE ~Salvage(i)
    <3>1. Kept
      BY <2>0, <2>1, <2>2 DEF Vital, Carrier, Doomed, FirstZombie, Ids
    <3> QED
      BY <1>2, <1>3, <2>0, <2>1, <3>1
  <2>3. \A j \in Ids : Vital(j) => Vital(j)' \/ j = i
    BY <2>1, <2>2, Grows DEF TypeOK, Vital, Carrier, Doomed, FirstZombie
  <2>4. CASE dlq' = dlq \cup {i} /\ UNCHANGED stream
    <3>1. Dead(TraceOf(i))'
      BY <2>4 DEF Dead, TraceOf
    <3>2. \A t \in Traces : Over(t) \/ Carried(t) => Over(t)' \/ Carried(t)'
      BY <1>1, <2>3, <3>1, Grows
    <3> QED
      BY <1>3, <2>4, <3>2 DEF Saved
  <2>5. CASE stream' = Append(stream, [stream[i] EXCEPT !.retry = @ + 1])
    <3>0. PICK n : n = Len(stream) + 1
      OBVIOUS
    <3>1. n \in Ids' /\ TraceOf(n)' = TraceOf(i)
      <4>1. stream[i] \in Entry
        BY <2>2, EntryType
      <4>2. stream'[n] = [stream[i] EXCEPT !.retry = @ + 1] /\ Len(stream') = n /\ n \in Nat \ {0}
        BY <2>5, <3>0 DEF TypeOK
      <4> QED
        BY <4>1, <4>2 DEF Ids, TraceOf, Entry
    <3>2. Vital(n)'
      <4>1. n > lastDelivered /\ n \notin batch /\ \A w \in Workers : wmsg[w] # n
        BY <3>0 DEF TypeOK
      <4> QED
        BY <2>2, <3>1, <4>1 DEF Vital, Carrier, Doomed, FirstZombie
    <3>3. \A t \in Traces : Over(t) \/ Carried(t) => Over(t)' \/ Carried(t)'
      BY <1>1, <2>3, <3>1, <3>2, Grows
    <3>4. SameTasks
      <4>1. \A j \in Ids' : j = n \/ j \in Ids
        BY <2>5, <3>0 DEF Ids, TypeOK
      <4> QED
        BY <2>2, <3>1, <4>1, Grows DEF Published
    <3> QED
      BY <3>3, <3>4 DEF Saved
  <2> QED
    BY <2>0, <2>4, <2>5 DEF Salvage, Retriable
<1>12. ASSUME SweepAck \/ SweepErrorAck PROVE Saved'
  <2>0. \A i, j : FirstZombie(i) /\ FirstZombie(j) => i = j
    BY DEF FirstZombie, TypeOK
  <2>1. PICK i \in batch : FirstZombie(i) /\ (pel' = pel \/ pel' = Acked(i))
    BY <1>12 DEF SweepAck, SweepErrorAck, SweepAckHead
  <2>2. UNCHANGED <<stream, lastDelivered, wpc, wmsg>> /\ i \in Ids
    BY <1>12, BatchType DEF SweepAck, SweepErrorAck, workerVars
  <2>3. (spc' = "errack" /\ UNCHANGED batch) \/ spc' \in {"idle", "add"}
    BY <1>12 DEF SweepAck, SweepErrorAck, SweepAckHead
  <2>4. \A j \in Ids : Vital(j) /\ j # i => Vital(j)'
    <3>1. \A j \in Ids : j # i /\ j \in Pending => j \in Pending'
      BY <2>1 DEF Acked
    <3>2. \A j \in Ids : j # i => ~Salvaged(j)'
      BY <2>0, <2>1, <2>3 DEF FirstZombie
    <3> QED
      BY <2>2, <3>1, <3>2 DEF Vital, Carrier, Doomed, Ids
  \* Its copy is written, or its XADD failed and the task is given up.
  <2>5. Salvaged(i) \/ pel' = pel \/ GiveUp(TraceOf(i))
    <3>1. CASE spc \in {"ack", "errack"}
      BY <2>1, <3>1
    <3>2. CASE spc = "blind" /\ SweepErrorAck
      <4>1. PICK k \in batch : FirstZombie(k) /\ (Forsake(k) \/ UNCHANGED pel)
        BY <3>2 DEF SweepErrorAck, SweepAckHead
      <4>2. k = i
        BY <2>0, <2>1, <4>1
      <4> QED
        BY <3>2, <4>1, <4>2 DEF Forsake
    <3> QED
      BY <1>12, <3>1, <3>2 DEF SweepAck, SweepErrorAck
  <2>6. CASE Salvaged(i)
    <3>1. ~Vital(i)
      BY <2>6 DEF Vital, Doomed
    <3>2. Kept
      BY <2>4, <3>1
    <3> QED
      BY <1>2, <1>3, <2>2, <3>2
  <2>7. CASE ~Salvaged(i) /\ pel' = pel
    <3>1. Vital(i) => Vital(i)'
      <4>1. ~Salvaged(i)'
        <5>1. spc' \in {"idle", "add"}
          BY <1>12, <2>1, <2>7 DEF SweepAck, SweepErrorAck, SweepAckHead
        <5> QED
          BY <5>1
      <4> QED
        BY <2>2, <2>7, <4>1 DEF Vital, Carrier, Doomed, Ids
    <3>2. Kept
      BY <2>4, <3>1
    <3> QED
      BY <1>2, <1>3, <2>2, <3>2
  <2>8. CASE GiveUp(TraceOf(i))
    <3>1. TraceOf(i) \in settled' \cup dropped' /\ TraceOf(i) \in Traces
      BY <2>2, <2>8, TraceType, Grows DEF GiveUp
    <3>2. \A t \in Traces : Over(t) \/ Carried(t) => Over(t)' \/ Carried(t)'
      BY <1>1, <2>4, <3>1, Grows
    <3>3. SameTasks
      BY <1>3, <2>2
    <3> QED
      BY <3>2, <3>3 DEF Saved
  <2> QED
    BY <2>5, <2>6, <2>7, <2>8
<1>14. CASE SweeperCrash
  <2>1. Kept
    BY <1>14 DEF SweeperCrash, Vital, Carrier, Doomed, FirstZombie, Ids, busVars, workerVars
  <2> QED
    BY <1>2, <1>3, <1>14, <2>1 DEF SweeperCrash, busVars
<1>15. CASE Tick
  <2>1. Kept
    BY <1>15 DEF Tick, Vital, Carrier, Doomed, FirstZombie, Ids, sweeperVars
  <2> QED
    BY <1>2, <1>3, <1>15, <2>1 DEF Tick
<1>16. CASE UNCHANGED vars
  <2>1. Kept
    BY <1>16 DEF vars, busVars, workerVars, sweeperVars, Vital, Carrier, Doomed, FirstZombie, Ids
  <2> QED
    BY <1>2, <1>3, <1>16, <2>1 DEF vars, busVars
<1> QED
  BY <1>4, <1>5, <1>6, <1>7, <1>8, <1>9, <1>10, <1>11, <1>12, <1>14, <1>15, <1>16
     DEF Next, WorkerStep, SweeperStep

LEMMA NoLossStep == NoLossInv /\ [Next]_vars => NoLossInv'
<1> SUFFICES ASSUME NoLossInv, [Next]_vars PROVE NoLossInv'
  OBVIOUS
<1>1. TypeOK'
  BY TypeStep DEF NoLossInv
<1> QED
  BY <1>1, DistinctStep, AnsweredStep, KeysLiveStep, KeyOwnerStep, SweeperStateStep, SavedStep
     DEF NoLossInv

\* The strengthening of NoLoss holds of every behaviour of the bus, whatever the
\* clocks, and whichever calls of the workers and of the sweeper raise.
THEOREM NoLossInvariant == Spec => []NoLossInv
  BY NoLossInit, NoLossStep, PTL DEF Spec

\* For any clocks, tasks, workers, retries and failures there are two ways to
\* lose a message and no third: the barrier drops the recovered copy for the key
\* of the delivery it replaces, or the sweeper's except branch acknowledges an
\* entry whose XADD did not happen.
THEOREM NoMessageIsLost == Spec => []NoLoss
<1>1. NoLossInv => NoLoss
  BY DEF NoLossInv, Saved, Vital, NoLoss
<1> QED
  BY <1>1, NoLossInvariant, PTL

-----------------------------------------------------------------------------
(* The idempotency key is a mutual exclusion, and the mark it turns into   *)
(* stays, as long as handlers are quicker than the key's expiry and no     *)
(* Redis call of a worker raises.                                          *)

LEMMA MutexInit == Init => MutexInv
  BY TypeInit DEF Init, MutexInv, KeysLive, Held, NoOverlap, Busy, Holding, NoLock

LEMMA WorkerCalls == ASSUME OwnersRelease PROVE ~Mishap("worker_redis")
  BY DEF OwnersRelease, Mishap

\* Entries keep their trace, so a worker that keeps its entry keeps its task.
LEMMA TaskKept == ASSUME TypeOK, [Next]_vars, NEW w \in Workers, Busy(w), wmsg'[w] = wmsg[w]
                  PROVE  TraceOf(wmsg[w])' = TraceOf(wmsg[w])
  BY MsgType, Grows DEF TraceOf, Busy, Holding

LEMMA HeldStep == ASSUME MutexInv, TypeOK', [Next]_vars, QuickHandlers, OwnersRelease
                  PROVE  Held'
<1> DEFINE Owns(k, age) == /\ k.value = "PROCESSING"
                           /\ k.ttl + age >= LockTTL
                           /\ age <= MaxHold
<1> USE DEF MutexInv
<1> SUFFICES ASSUME NEW v \in Workers, Busy(v)'
             PROVE  Owns(lock[TraceOf(wmsg[v])], wage[v])'
  BY DEF Held
<1>0. Busy(v) => /\ Owns(lock[TraceOf(wmsg[v])], wage[v])
                 /\ TraceOf(wmsg[v]) \in Traces
  BY MsgType DEF Held, Busy, Holding
<1> HIDE DEF Owns
\* Nobody else's step touches the key of a busy worker.
<1>1. ASSUME Busy(v), wmsg'[v] = wmsg[v], wage'[v] = wage[v],
             lock'[TraceOf(wmsg[v])] = lock[TraceOf(wmsg[v])]
      PROVE  Owns(lock[TraceOf(wmsg[v])], wage[v])'
  BY <1>0, <1>1, TaskKept
<1>2. ASSUME NEW w \in Workers, Read(w) PROVE Owns(lock[TraceOf(wmsg[v])], wage[v])'
  <2>1. v # w /\ Busy(v) /\ UNCHANGED lock
    BY <1>2 DEF TypeOK, Read, Goto, Busy, Holding
  <2>2. wmsg'[v] = wmsg[v] /\ wage'[v] = wage[v]
    BY <1>2, <2>1 DEF TypeOK, Read
  <2> QED
    BY <1>1, <2>1, <2>2
<1>3. ASSUME NEW w \in Workers, TakeLock(w) PROVE Owns(lock[TraceOf(wmsg[v])], wage[v])'
  <2>0. PICK u \in Traces : u = TraceOf(wmsg[w])
    BY <1>3, MsgType DEF TakeLock
  <2>1. CASE v # w
    <3>1. Busy(v) /\ wmsg'[v] = wmsg[v] /\ wage'[v] = wage[v]
      <4>1. wpc'[v] = wpc[v]
        BY <1>3, <2>1 DEF TypeOK, TakeLock, Goto
      <4>2. UNCHANGED wage \/ wage' = [wage EXCEPT ![w] = 0]
        BY <1>3 DEF TakeLock
      <4> QED
        BY <1>3, <2>1, <4>1, <4>2 DEF TypeOK, TakeLock, Busy
    <3>2. UNCHANGED lock \/ (lock[u] = NoLock /\ \E k : lock' = [lock EXCEPT ![u] = k])
      BY <1>3, <2>0, WorkerCalls DEF TakeLock
    <3>3. lock[TraceOf(wmsg[v])] # NoLock
      BY <1>0, <3>1 DEF Owns, NoLock
    <3>4. lock'[TraceOf(wmsg[v])] = lock[TraceOf(wmsg[v])]
      BY <1>0, <3>1, <3>2, <3>3 DEF TypeOK
    <3> QED
      BY <1>1, <3>1, <3>4
  <2>2. CASE v = w
    <3>1. /\ lock' = [lock EXCEPT ![u] = Lock("PROCESSING", LockTTL)]
          /\ wage' = [wage EXCEPT ![w] = 0]
          /\ UNCHANGED <<stream, wmsg>>
      BY <1>3, <2>0, <2>2, WorkerCalls DEF TypeOK, TakeLock, Goto, Busy, Holding
    <3>2. TraceOf(wmsg[v])' = u
      BY <2>0, <2>2, <3>1 DEF TraceOf
    <3>3. lock'[u] = Lock("PROCESSING", LockTTL) /\ wage'[v] = 0
      BY <2>2, <3>1 DEF TypeOK
    <3> QED
      BY <3>2, <3>3 DEF Owns, Lock
  <2> QED
    BY <2>1, <2>2
<1>4. ASSUME NEW w \in Workers, MarkCompleted(w) \/ ReleaseLock(w)
      PROVE  Owns(lock[TraceOf(wmsg[v])], wage[v])'
  <2>0. PICK u \in Traces : u = TraceOf(wmsg[w])
    BY <1>4, MsgType DEF MarkCompleted, ReleaseLock
  <2>1. v # w /\ Busy(v) /\ Busy(w)
    BY <1>4, WorkerCalls DEF TypeOK, MarkCompleted, ReleaseLock, Goto, Busy, Holding
  <2>2. TraceOf(wmsg[v]) # u
    BY <2>0, <2>1 DEF NoOverlap
  <2>3. \E k : lock' = [lock EXCEPT ![u] = k]
    BY <1>4, <2>0, WorkerCalls DEF MarkCompleted, ReleaseLock
  <2>4. lock'[TraceOf(wmsg[v])] = lock[TraceOf(wmsg[v])]
    BY <1>0, <2>1, <2>2, <2>3 DEF TypeOK
  <2> QED
    BY <1>1, <1>4, <2>1, <2>4 DEF MarkCompleted, ReleaseLock
<1>5. ASSUME NEW w \in Workers, DropDuplicate(w) \/ HandleEvent(w) \/ RouteReply(w) \/ Ack(w)
                \/ WorkerCrash(w) \/ WorkerRestart(w)
      PROVE  Owns(lock[TraceOf(wmsg[v])], wage[v])'
  <2>1. UNCHANGED <<wmsg, wage, lock>>
    BY <1>5, WorkerCalls DEF DropDuplicate, HandleEvent, RouteReply, Ack, WorkerCrash,
                             WorkerRestart, busVars
  <2>2. Busy(v)
    BY <1>5, WorkerCalls DEF TypeOK, DropDuplicate, HandleEvent, RouteReply, Ack, WorkerCrash,
                             WorkerRestart, Goto, Busy, Holding
  <2> QED
    BY <1>1, <2>1, <2>2
<1>6. CASE Tick
  <2>0. PICK u \in Traces : u = TraceOf(wmsg[v])
    BY <1>0, <1>6 DEF Tick, Busy
  <2>1. Busy(v) /\ UNCHANGED <<stream, wmsg>> /\ wage[v] < MaxHold
    BY <1>6 DEF Tick, Busy
  <2>2. lock'[u] = Expire(lock[u]) /\ wage'[v] = wage[v] + 1
    BY <1>6, <2>1 DEF Tick, Aged, Busy, TypeOK
  <2>3. lock[u] \in Key /\ wage[v] \in Nat
    BY DEF TypeOK
  <2>4. lock[u].ttl > 1
    BY <1>0, <2>0, <2>1, <2>3 DEF Owns, Key, QuickHandlers
  <2>5. TraceOf(wmsg[v])' = u
    BY <2>0, <2>1 DEF TraceOf
  <2> QED
    BY <1>0, <2>0, <2>1, <2>2, <2>3, <2>4, <2>5 DEF Owns, Expire, Key
<1>7. ASSUME UNCHANGED <<wpc, wmsg, wage, lock>>
      PROVE  Owns(lock[TraceOf(wmsg[v])], wage[v])'
  BY <1>1, <1>7 DEF Busy
<1> QED
  BY <1>2, <1>3, <1>4, <1>5, <1>6, <1>7
     DEF Next, WorkerStep, SweeperStep, vars, busVars, workerVars, Dispatch, SweepClaim,
         SweepAdd, SweepAck, SweepErrorAck, SweeperCrash

LEMMA NoOverlapStep == ASSUME MutexInv, [Next]_vars, OwnersRelease
                       PROVE  NoOverlap'
<1> USE DEF MutexInv
<1> SUFFICES ASSUME NEW v \in Workers, NEW w \in Workers, v # w, Busy(v)', Busy(w)'
             PROVE  TraceOf(wmsg[v])' # TraceOf(wmsg[w])'
  BY DEF NoOverlap
\* The only way to become busy is to win the key.
<1>1. \A x \in Workers : Busy(x)' =>
         /\ wmsg'[x] = wmsg[x]
         /\ Busy(x) \/ (TakeLock(x) /\ lock[TraceOf(wmsg[x])] = NoLock /\ UNCHANGED stream)
  <2> DEFINE Won(x) == /\ wmsg'[x] = wmsg[x]
                       /\ \/ Busy(x)
                          \/ TakeLock(x) /\ lock[TraceOf(wmsg[x])] = NoLock /\ UNCHANGED stream
  <2> SUFFICES ASSUME NEW x \in Workers, Busy(x)' PROVE Won(x)
    OBVIOUS
  <2>1. CASE UNCHANGED <<wpc, wmsg>>
    BY <2>1 DEF Busy
  <2>2. ASSUME NEW y \in Workers, Read(y) PROVE Won(x)
    BY <2>2 DEF TypeOK, Read, Goto, Busy, Holding
  <2>3. ASSUME NEW y \in Workers, TakeLock(y) PROVE Won(x)
    <3>1. UNCHANGED <<stream, wmsg>> /\ (x # y => wpc'[x] = wpc[x])
      BY <2>3 DEF TypeOK, TakeLock, Goto
    <3>2. x = y => lock[TraceOf(wmsg[x])] = NoLock
      BY <2>3, WorkerCalls DEF TypeOK, TakeLock, Goto, Busy, Holding
    <3> QED
      BY <2>3, <3>1, <3>2 DEF Busy
  <2>4. ASSUME NEW y \in Workers, DropDuplicate(y) \/ HandleEvent(y) \/ RouteReply(y) \/ Ack(y)
                  \/ MarkCompleted(y) \/ ReleaseLock(y) \/ WorkerCrash(y) \/ WorkerRestart(y)
        PROVE  Won(x)
    <3>1. UNCHANGED wmsg
      BY <2>4 DEF DropDuplicate, HandleEvent, RouteReply, Ack, MarkCompleted, ReleaseLock,
                  WorkerCrash, WorkerRestart
    <3>2. Busy(x)
      BY <2>4, WorkerCalls
         DEF TypeOK, DropDuplicate, HandleEvent, RouteReply, Ack, MarkCompleted, ReleaseLock,
             WorkerCrash, WorkerRestart, Goto, Busy, Holding
    <3> QED
      BY <3>1, <3>2
  <2> QED
    BY <2>1, <2>2, <2>3, <2>4
       DEF Next, WorkerStep, SweeperStep, vars, workerVars, Dispatch, SweepClaim, SweepAdd,
           SweepAck, SweepErrorAck, SweeperCrash, Tick
<1>2. \A x \in Workers : Busy(x)' => TraceOf(wmsg[x])' = TraceOf(wmsg[x])
  BY <1>1, TaskKept DEF TraceOf
<1>3. CASE Busy(v) /\ Busy(w)
  BY <1>2, <1>3 DEF NoOverlap
<1>4. ASSUME NEW x \in Workers, NEW y \in Workers, Busy(x), ~Busy(y), Busy(y)'
      PROVE  TraceOf(wmsg[x]) # TraceOf(wmsg[y])
  BY <1>1, <1>4 DEF Held, NoLock
<1>5. Busy(v) \/ Busy(w)
  <2>1. \A x \in Workers : TakeLock(x) => \A y \in Workers \ {x} : wpc'[y] = wpc[y]
    BY DEF TypeOK, TakeLock, Goto
  <2> QED
    BY <1>1, <2>1 DEF Busy
<1> QED
  BY <1>2, <1>3, <1>4, <1>5

LEMMA MutexStep == ASSUME QuickHandlers, OwnersRelease
                   PROVE  MutexInv /\ [Next]_vars => MutexInv'
<1> SUFFICES ASSUME MutexInv, [Next]_vars PROVE MutexInv'
  OBVIOUS
<1>1. TypeOK'
  BY TypeStep DEF MutexInv
<1> QED
  BY <1>1, KeysLiveStep, HeldStep, NoOverlapStep DEF MutexInv

\* A task is inside at most one worker's guarded section, for any number of
\* tasks and workers, if every handler ends before its key expires and the
\* workers' Redis calls do not raise; the sweeper and crashes may do anything.
THEOREM Exclusive == ASSUME QuickHandlers, OwnersRelease
                     PROVE  Spec => []NoOverlap
<1>1. MutexInv => NoOverlap
  BY DEF MutexInv
<1> QED
  BY <1>1, MutexInit, MutexStep, PTL DEF Spec

LEMMA MarkStep == ASSUME MutexInv, [Next]_vars, OwnersRelease, NEW t \in Traces,
                         lock[t].value = "COMPLETED", lock'[t].value # "COMPLETED"
                  PROVE  lock[t].ttl = 1
<1> USE DEF MutexInv
<1>1. lock[t] \in Key /\ lock[t].ttl # 0
  BY DEF TypeOK, KeysLive
<1>2. CASE Tick
  BY <1>1, <1>2 DEF TypeOK, Tick, Expire, Key
<1>3. ASSUME NEW w \in Workers, TakeLock(w) PROVE FALSE
  <2>1. UNCHANGED lock \/ (lock[TraceOf(wmsg[w])] = NoLock
                           /\ \E k : lock' = [lock EXCEPT ![TraceOf(wmsg[w])] = k])
    BY <1>3, WorkerCalls DEF TakeLock
  <2>2. lock \in [Traces -> Key]
    BY DEF TypeOK
  <2> QED
    BY <2>1, <2>2 DEF NoLock
<1>4. ASSUME NEW w \in Workers, MarkCompleted(w) PROVE FALSE
  <2>1. lock' = [lock EXCEPT ![TraceOf(wmsg[w])] = Lock("COMPLETED", DoneTTL)]
    BY <1>4, WorkerCalls DEF MarkCompleted
  <2> QED
    BY <2>1 DEF TypeOK, Lock
\* A failing worker owns its key, so it is not a mark.
<1>5. ASSUME NEW w \in Workers, ReleaseLock(w) PROVE FALSE
  <2>1. lock[TraceOf(wmsg[w])].value = "PROCESSING"
    BY <1>5 DEF ReleaseLock, Held, Busy, Holding
  <2>2. lock' = [lock EXCEPT ![TraceOf(wmsg[w])] = NoLock]
    BY <1>5, WorkerCalls DEF ReleaseLock
  <2> QED
    BY <2>1, <2>2 DEF TypeOK
<1> QED
  BY <1>2, <1>3, <1>4, <1>5
     DEF Next, WorkerStep, SweeperStep, vars, busVars, workerVars, Dispatch, Read, DropDuplicate,
         HandleEvent, RouteReply, Ack, WorkerCrash, WorkerRestart, SweepClaim, SweepAdd, SweepAck,
         SweepErrorAck, SweeperCrash

\* Under the same conditions a COMPLETED mark goes only when its time is over:
\* no failing handler of another delivery removes it.
THEOREM MarkStays == ASSUME QuickHandlers, OwnersRelease
                     PROVE  Spec => CompletedStays
<1>1. MutexInv /\ [Next]_vars
        => [\A t \in Traces : (lock[t].value = "COMPLETED" /\ lock'[t].value # "COMPLETED")
                                 => lock[t].ttl = 1]_vars
  BY MarkStep
<1> QED
  BY <1>1, MutexInit, MutexStep, PTL DEF Spec, CompletedStays

-----------------------------------------------------------------------------
(* How many copies there are.                                              *)

\* What can still be delivered or salvaged, and so be copied; the zombie that
\* waits for its XACK has been.
Potential(t) == {i \in Ids : /\ TraceOf(i) = t
                             /\ i > lastDelivered \/ i \in Pending \/ i \in batch
                             /\ ~Salvaged(i)}
PotentialBounded == \A t \in Traces : Cardinality(Potential(t)) <= 1 + mishaps

LEMMA FewPotential == ASSUME TypeOK, NEW t
                      PROVE  IsFiniteSet(Potential(t)) /\ Cardinality(Potential(t)) \in Nat
<1>1. Len(stream) \in Nat
  BY DEF TypeOK
<1>2. IsFiniteSet(1 .. Len(stream)) /\ Potential(t) \subseteq 1 .. Len(stream)
  BY <1>1, FS_Interval DEF Potential, Ids
<1> QED
  BY <1>2, FS_Subset, FS_CardinalityType

\* No copy of t is added.
LEMMA NoneGained == ASSUME TypeOK, PotentialBounded, mishaps' \in Nat, NEW t \in Traces,
                           mishaps <= mishaps', Potential(t)' \subseteq Potential(t)
                    PROVE  Cardinality(Potential(t)') <= 1 + mishaps'
<1>1. Cardinality(Potential(t)') <= Cardinality(Potential(t)) /\ Cardinality(Potential(t)') \in Nat
  BY FewPotential, FS_Subset, FS_CardinalityType
<1>2. Cardinality(Potential(t)) <= 1 + mishaps /\ Cardinality(Potential(t)) \in Nat /\ mishaps \in Nat
  BY FewPotential DEF PotentialBounded, TypeOK
<1> QED
  BY <1>1, <1>2

\* The entry n replaces the zombie i.
LEMMA OneReplaced == ASSUME TypeOK, PotentialBounded, mishaps' \in Nat, NEW t \in Traces,
                            mishaps <= mishaps', NEW n, NEW i \in Potential(t),
                            Potential(t)' \subseteq (Potential(t) \ {i}) \cup {n}
                     PROVE  Cardinality(Potential(t)') <= 1 + mishaps'
<1> DEFINE P == Potential(t)
           R == P \ {i}
<1>1. IsFiniteSet(P) /\ Cardinality(P) \in Nat /\ Cardinality(P) <= 1 + mishaps /\ mishaps \in Nat
  BY FewPotential DEF PotentialBounded, TypeOK
<1>2. IsFiniteSet(R) /\ Cardinality(R) = Cardinality(P) - 1
  BY <1>1, FS_RemoveElement
<1>3. /\ IsFiniteSet(R \cup {n})
      /\ Cardinality(R \cup {n}) = Cardinality(R) \/ Cardinality(R \cup {n}) = Cardinality(R) + 1
  BY <1>2, FS_AddElement
<1>4. Cardinality(Potential(t)') <= Cardinality(R \cup {n}) /\ Cardinality(Potential(t)') \in Nat
  BY <1>3, FS_Subset, FS_CardinalityType
<1> HIDE DEF P, R
<1> QED
  BY <1>1, <1>2, <1>3, <1>4

\* A failure brings one entry back.
LEMMA OneGained == ASSUME TypeOK, PotentialBounded, NEW t \in Traces, mishaps' = mishaps + 1,
                          NEW i, Potential(t)' \subseteq Potential(t) \cup {i}
                   PROVE  Cardinality(Potential(t)') <= 1 + mishaps'
<1> DEFINE P == Potential(t)
<1>1. IsFiniteSet(P) /\ Cardinality(P) \in Nat /\ Cardinality(P) <= 1 + mishaps /\ mishaps \in Nat
  BY FewPotential DEF PotentialBounded, TypeOK
<1>2. /\ IsFiniteSet(P \cup {i})
      /\ Cardinality(P \cup {i}) = Cardinality(P) \/ Cardinality(P \cup {i}) = Cardinality(P) + 1
  BY <1>1, FS_AddElement
<1>3. Cardinality(Potential(t)') <= Cardinality(P \cup {i}) /\ Cardinality(Potential(t)') \in Nat
  BY <1>2, FS_Subset, FS_CardinalityType
<1> HIDE DEF P
<1> QED
  BY <1>1, <1>2, <1>3

LEMMA MishapsGrow == ASSUME TypeOK, [Next]_vars
                     PROVE  mishaps <= mishaps' /\ mishaps' \in Nat
<1>1. mishaps \in Nat /\ mishaps' \in Nat
  BY TypeStep DEF TypeOK
<1>2. mishaps' = mishaps \/ mishaps' = mishaps + 1
  BY Zenon DEF Next, Dispatch, WorkerStep, WorkerCrash, SweeperStep, SweeperCrash, Tick, Read,
         TakeLock,
         DropDuplicate, HandleEvent, RouteReply, Ack, MarkCompleted, ReleaseLock, WorkerRestart,
         SweepClaim, SweepAdd, SweepAck, SweepErrorAck, Mishap, vars
<1> QED
  BY <1>1, <1>2

\* A worker's step: an entry is delivered, or acknowledged, or neither.
LEMMA WorkerPotential == ASSUME TypeOK, NEW t, NEW w \in Workers,
                                WorkerStep(w) \/ WorkerCrash(w) \/ Tick \/ UNCHANGED vars
                         PROVE  Potential(t)' \subseteq Potential(t)
<1>1. CASE Read(w)
  <2>1. /\ UNCHANGED <<stream, spc, batch>> /\ lastDelivered' = lastDelivered + 1
        /\ DOMAIN pel' = DOMAIN pel \cup {lastDelivered + 1}
    BY <1>1 DEF Read, sweeperVars
  <2>2. lastDelivered \in Int /\ Ids \subseteq Int
    BY DEF TypeOK, Ids
  <2> QED
    BY <2>1, <2>2 DEF Potential, Ids, TraceOf, FirstZombie
<1>2. CASE ~Read(w)
  <2>1. UNCHANGED <<stream, lastDelivered, spc, batch>>
    BY <1>2, Zenon DEF WorkerStep, WorkerCrash, Tick, TakeLock, DropDuplicate, HandleEvent,
           RouteReply, Ack,
         MarkCompleted, ReleaseLock, WorkerRestart, busVars, sweeperVars, vars
  <2>2. DOMAIN pel' \subseteq DOMAIN pel
    <3>1. pel' = pel \/ pel' = Acked(wmsg[w]) \/ DOMAIN pel' = DOMAIN pel
      BY <1>2 DEF WorkerStep, WorkerCrash, Tick, TakeLock, DropDuplicate, HandleEvent, RouteReply,
             Ack,
         MarkCompleted, ReleaseLock, WorkerRestart, busVars, sweeperVars, vars
    <3> QED
      BY <3>1 DEF Acked
  <2> QED
    BY <2>1, <2>2 DEF Potential, Ids, TraceOf, FirstZombie
<1> QED
  BY <1>1, <1>2

LEMMA BoundedStep == ASSUME TypeOK, PotentialBounded, [Next]_vars
                     PROVE  PotentialBounded'
<1>1. mishaps <= mishaps' /\ mishaps' \in Nat /\ mishaps \in Nat
  BY MishapsGrow DEF TypeOK
<1>2. SUFFICES ASSUME NEW t \in Traces
               PROVE  Cardinality(Potential(t)') <= 1 + mishaps'
  BY DEF PotentialBounded
<1>3. ASSUME Potential(t)' \subseteq Potential(t)
      PROVE  Cardinality(Potential(t)') <= 1 + mishaps'
  BY <1>1, <1>3, NoneGained
<1>4. /\ stream \in Seq(Entry) /\ Len(stream) \in Nat /\ lastDelivered \in 0 .. Len(stream)
      /\ batch \subseteq 1 .. lastDelivered /\ DOMAIN pel \subseteq 1 .. lastDelivered
      /\ Ids = 1 .. Len(stream) /\ \A i \in batch : i \in Int
  BY DEF TypeOK, Ids
<1>5. ASSUME NEW u \in Traces, Dispatch(u)
      PROVE  Cardinality(Potential(t)') <= 1 + mishaps'
  <2>1. /\ Len(stream') = Len(stream) + 1 /\ \A i \in Ids : stream'[i] = stream[i]
        /\ stream'[Len(stream) + 1].trace = u /\ UNCHANGED <<lastDelivered, pel, spc, batch>>
    BY <1>4, <1>5 DEF Dispatch, sweeperVars
  <2>2. CASE u = t
    <3>1. Potential(t)' \subseteq {Len(stream) + 1}
      <4>1. \A i \in Ids : stream'[i].trace # t
        BY <1>5, <2>1, <2>2 DEF Dispatch, Published, TraceOf
      <4>2. Ids' = Ids \cup {Len(stream) + 1}
        BY <1>4, <2>1 DEF Ids
      <4> QED
        BY <4>1, <4>2 DEF Potential, TraceOf
    <3>2. IsFiniteSet({Len(stream) + 1}) /\ Cardinality({Len(stream) + 1}) = 1
      BY FS_Singleton
    <3>3. Cardinality(Potential(t)') <= 1 /\ Cardinality(Potential(t)') \in Nat
      BY <3>1, <3>2, FS_Subset, FS_CardinalityType
    <3> QED
      BY <1>1, <3>3
  <2>3. CASE u # t
    <3>1. Ids' = Ids \cup {Len(stream) + 1}
      BY <1>4, <2>1 DEF Ids
    <3> QED
      BY <1>3, <2>1, <2>3, <3>1 DEF Potential, TraceOf, FirstZombie
  <2> QED
    BY <2>2, <2>3
<1>6. ASSUME NEW w \in Workers, WorkerStep(w) \/ WorkerCrash(w)
      PROVE  Cardinality(Potential(t)') <= 1 + mishaps'
  BY <1>3, <1>6, WorkerPotential
<1>7. CASE SweepClaim
  <2>1. /\ UNCHANGED <<stream, lastDelivered>> /\ DOMAIN pel' = DOMAIN pel /\ spc = "idle"
        /\ (batch' = Zombies /\ spc' = "add") \/ UNCHANGED <<batch, spc>>
    BY <1>7 DEF SweepClaim, sweeperVars
  <2>2. Zombies \subseteq DOMAIN pel
    BY DEF Zombies
  <2> QED
    BY <1>3, <2>1, <2>2 DEF Potential, Ids, TraceOf, FirstZombie
<1>8. CASE SweepAdd
  <2>1. PICK i \in batch :
           /\ FirstZombie(i) /\ spc = "add" /\ UNCHANGED <<lastDelivered, pel, batch>>
           /\ \/ Salvage(i) /\ spc' \in {"ack", "errack"}
              \/ UNCHANGED <<stream, dlq>> /\ spc' = "blind"
    BY <1>8 DEF SweepAdd
  <2>2. CASE UNCHANGED stream
    BY <1>3, <2>1, <2>2 DEF Potential, Ids, TraceOf, FirstZombie
  <2>3. CASE stream' = Append(stream, [stream[i] EXCEPT !.retry = @ + 1])
               /\ spc' \in {"ack", "errack"}
    <3>1. i \in Ids /\ stream[i] \in Entry
      BY <1>4
    <3>2. /\ Len(stream') = Len(stream) + 1 /\ \A j \in Ids : stream'[j] = stream[j]
          /\ stream'[Len(stream) + 1] = [stream[i] EXCEPT !.retry = @ + 1]
      BY <1>4, <2>3
    <3>3. stream'[Len(stream) + 1].trace = stream[i].trace
      BY <3>1, <3>2 DEF Entry
    <3>4. Ids' = Ids \cup {Len(stream) + 1}
      BY <1>4, <3>2 DEF Ids
    <3>5. CASE TraceOf(i) = t
      <4>1. i \in Potential(t)
        BY <2>1, <3>1, <3>5 DEF Potential
      <4>2. Potential(t)' \subseteq (Potential(t) \ {i}) \cup {Len(stream) + 1}
        BY <2>1, <3>2, <3>4 DEF Potential, TraceOf, FirstZombie
      <4> QED
        BY <1>1, <4>1, <4>2, OneReplaced
    <3>6. CASE TraceOf(i) # t
      BY <1>3, <2>1, <3>2, <3>3, <3>4, <3>6 DEF Potential, TraceOf, FirstZombie
    <3> QED
      BY <3>5, <3>6
  <2> QED
    BY <2>1, <2>2, <2>3 DEF Salvage
<1>9. ASSUME NEW i \in batch, SweepAckHead(i), spc # "idle", UNCHANGED <<stream, lastDelivered>>
      PROVE  Cardinality(Potential(t)') <= 1 + mishaps'
  <2>1. /\ FirstZombie(i) /\ DOMAIN pel' = DOMAIN pel \ {i} /\ batch' = batch \ {i}
        /\ spc' \in {"idle", "add"} /\ \A j \in Ids : j = i => ~(j > lastDelivered)
    BY <1>4, <1>9 DEF SweepAckHead, Acked
  <2>2. \A j \in batch : FirstZombie(j) => j = i
    BY <1>4, <2>1 DEF FirstZombie
  <2>3. \A j : FirstZombie(j) => j \in batch
    BY DEF FirstZombie
  <2> QED
    BY <1>3, <1>9, <2>1, <2>2, <2>3 DEF Potential, Ids, TraceOf
<1>10. ASSUME NEW i \in batch, FirstZombie(i), pel' \in {pel, Acked(i)}, spc # "idle",
              UNCHANGED <<stream, lastDelivered>>, Mishap("sweeper_redis"),
              \/ spc' = "errack" /\ UNCHANGED batch /\ spc = "ack"
              \/ spc' = "idle" /\ batch' = {}
       PROVE  Cardinality(Potential(t)') <= 1 + mishaps'
  <2>1. DOMAIN pel' \subseteq DOMAIN pel /\ mishaps' = mishaps + 1
    BY <1>10 DEF Acked, Mishap
  <2>2. \A j : FirstZombie(j) => j = i
    BY <1>4, <1>10 DEF FirstZombie
  <2>3. Potential(t)' \subseteq Potential(t) \cup {i}
    BY <1>10, <2>1, <2>2 DEF Potential, Ids, TraceOf
  <2> QED
    BY <2>1, <2>3, OneGained
<1>11. CASE SweepAck
  <2>1. CASE \E i \in batch : SweepAckHead(i)
    BY <1>9, <1>11, <2>1 DEF SweepAck
  <2>2. CASE ~\E i \in batch : SweepAckHead(i)
    BY <1>10, <1>11, <2>2 DEF SweepAck
  <2> QED
    BY <2>1, <2>2
<1>12. CASE SweepErrorAck
  <2>1. CASE \E i \in batch : SweepAckHead(i)
    BY <1>9, <1>12, <2>1 DEF SweepErrorAck
  <2>2. CASE ~\E i \in batch : SweepAckHead(i)
    BY <1>10, <1>12, <2>2 DEF SweepErrorAck
  <2> QED
    BY <2>1, <2>2
<1>13. CASE SweeperCrash
  <2>1. UNCHANGED <<stream, lastDelivered, pel>> /\ batch' = {} /\ spc' = "idle" /\ mishaps' = mishaps + 1
    BY <1>13 DEF SweeperCrash, busVars, Mishap
  <2>2. \A i, j : FirstZombie(i) /\ FirstZombie(j) => i = j
    BY <1>4 DEF FirstZombie
  <2>3. CASE \E i : FirstZombie(i)
    <3>1. PICK i : FirstZombie(i)
      BY <2>3
    <3>2. Potential(t)' \subseteq Potential(t) \cup {i}
      BY <2>1, <2>2, <3>1 DEF Potential, Ids, TraceOf
    <3> QED
      BY <2>1, <3>2, OneGained
  <2>4. CASE ~\E i : FirstZombie(i)
    BY <1>3, <2>1, <2>4 DEF Potential, Ids, TraceOf
  <2> QED
    BY <2>3, <2>4
<1>14. CASE Tick \/ UNCHANGED vars
  <2>1. Potential(t)' \subseteq Potential(t)
    <3>1. UNCHANGED <<stream, lastDelivered, spc, batch>>
      BY <1>14, Zenon DEF Tick, busVars, sweeperVars, vars
    <3>2. DOMAIN pel' = DOMAIN pel
      BY <1>14 DEF Tick, busVars, vars
    <3> QED
      BY <3>1, <3>2 DEF Potential, Ids, TraceOf, FirstZombie
  <2> QED
    BY <1>3, <2>1
<1> QED
  BY <1>5, <1>6, <1>7, <1>8, <1>11, <1>12, <1>13, <1>14 DEF Next, SweeperStep

\* The sweeper moves a message and does not multiply it, for any numbers of tasks,
\* workers, retries and failures: every copy beyond the first is paid for by a
\* failure, since only a failure makes a zombie that was added again come back.
THEOREM CopiesAreBounded == Spec => []CopiesBounded
<1>1. Init => PotentialBounded
  <2>1. Init => mishaps = 0 /\ \A t \in Traces : Potential(t) = {}
    BY DEF Init, Potential, Ids
  <2> QED
    BY <2>1, FS_EmptySet DEF PotentialBounded
<1>2. TypeOK /\ PotentialBounded => CopiesBounded
  <2>1. ASSUME TypeOK, PotentialBounded, NEW t \in Traces
        PROVE  Cardinality(Copies(t)) <= 1 + mishaps
    <3>1. Copies(t) \subseteq Potential(t)
      BY DEF Copies, Potential, Carrier
    <3>2. Cardinality(Copies(t)) <= Cardinality(Potential(t)) /\ Cardinality(Copies(t)) \in Nat
      BY <2>1, <3>1, FewPotential, FS_Subset, FS_CardinalityType
    <3>3. Cardinality(Potential(t)) <= 1 + mishaps /\ Cardinality(Potential(t)) \in Nat /\ mishaps \in Nat
      BY <2>1, FewPotential DEF PotentialBounded, TypeOK
    <3> QED
      BY <3>2, <3>3
  <2> QED
    BY <2>1 DEF CopiesBounded
<1>3. TypeOK /\ PotentialBounded /\ [Next]_vars => PotentialBounded'
  BY BoundedStep
<1>4. Spec => [](TypeOK /\ PotentialBounded)
  <2>1. Spec => []TypeOK
    BY TypeCorrect
  <2> QED
    BY <1>1, <1>3, <2>1, PTL DEF Spec
<1> QED
  BY <1>2, <1>4, PTL

-----------------------------------------------------------------------------
(* The bus implements AtLeastOnce: every step is a step of the abstract    *)
(* specification, or none, under the mapping of Promise.                   *)

Submitted == {t \in Traces : Published(t)}
Carried == {t \in Traces : \E i \in Ids : Vital(i) /\ TraceOf(i) = t}
Buried == {t \in Traces : Dead(t)}
PromiseStep == [Promise!ANext]_(Promise!avars)

\* Whatever a step does to the copies of one task is a Linger of the promise:
\* the task of NoLossInv that is not carried is over.
LEMMA LingerStep == ASSUME NoLossInv, NoLossInv', NEW u \in Traces,
                           UNCHANGED <<Submitted, settled, Buried, dropped>>, u \in Submitted,
                           Carried' \in {Carried, Carried \ {u}, Carried \cup {u}}
                    PROVE  PromiseStep
<1>1. CASE UNCHANGED Carried
  BY <1>1 DEF PromiseStep, Promise!avars, Submitted, Carried, Buried
<1>2. CASE ~UNCHANGED Carried
  <2>1. u \in settled \cup Buried \cup dropped
    BY <1>2 DEF NoLossInv, Saved, Submitted, Carried, Buried
  <2>2. Promise!Linger(u)
    BY <2>1 DEF Promise!Linger, Submitted, Carried, Buried
  <2> QED
    BY <2>2 DEF PromiseStep, Promise!ANext
<1> QED
  BY <1>1, <1>2

\* A step that changes what at most one entry m is good for.
LEMMA OneCopyStep == ASSUME NoLossInv, NoLossInv', UNCHANGED <<stream, settled, dlq, dropped>>, NEW m,
                            \A i \in Ids : i # m => (Vital(i)' <=> Vital(i))
                     PROVE  PromiseStep
<1>1. UNCHANGED <<Submitted, settled, Buried, dropped>>
  BY DEF Submitted, Buried, Published, Dead, TraceOf, Ids
<1>2. \A i \in Ids : i \in Ids' /\ TraceOf(i)' = TraceOf(i)
  BY DEF TraceOf, Ids
<1>3. CASE m \in Ids
  <2>1. PICK u \in Traces : u = TraceOf(m)
    BY <1>3, TraceType DEF NoLossInv
  <2>2. u \in Submitted
    BY <1>3, <2>1 DEF Submitted, Published
  <2>3. Carried' \in {Carried, Carried \ {u}, Carried \cup {u}}
    BY <1>2, <2>1 DEF Carried, Ids
  <2> QED
    BY <1>1, <2>2, <2>3, LingerStep
<1>4. CASE m \notin Ids
  <2>1. UNCHANGED Carried
    BY <1>2, <1>4 DEF Carried, Ids
  <2> QED
    BY <1>1, <2>1 DEF PromiseStep, Promise!avars, Submitted, Carried, Buried
<1> QED
  BY <1>3, <1>4

\* A step that gives the task of entry m up, and at most makes m useless.
LEMMA ExcuseStep == ASSUME NoLossInv, UNCHANGED <<stream, settled, dlq>>,
                           NEW m \in Ids, TraceOf(m) \notin settled,
                           dropped' = dropped \cup {TraceOf(m)},
                           \A i \in Ids : i # m => (Vital(i)' <=> Vital(i)),
                           Vital(m)' => Vital(m)
                    PROVE  PromiseStep
<1>1. UNCHANGED <<Submitted, settled, Buried>>
  BY DEF Submitted, Buried, Published, Dead, TraceOf, Ids
<1>2. \A i \in Ids : i \in Ids' /\ TraceOf(i)' = TraceOf(i)
  BY DEF TraceOf, Ids
<1>3. PICK u \in Traces : u = TraceOf(m)
  BY TraceType DEF NoLossInv
<1>4. Carried' \in {Carried, Carried \ {u}}
  BY <1>2, <1>3 DEF Carried, Ids
<1>5. u \in Carried \cup Buried \cup dropped
  BY <1>3 DEF NoLossInv, Saved, Carried, Buried, Published
<1>6. Promise!Excuse(u)
  BY <1>1, <1>3, <1>4, <1>5 DEF Promise!Excuse, Submitted, Carried, Buried
<1> QED
  BY <1>6 DEF PromiseStep, Promise!ANext

\* A step that gives up the task of entry m, unless somebody answered it.
LEMMA GiveUpStep == ASSUME NoLossInv, NoLossInv', UNCHANGED <<stream, settled, dlq>>,
                           NEW m \in Ids, GiveUp(TraceOf(m)) \/ UNCHANGED dropped,
                           \A i \in Ids : i # m => (Vital(i)' <=> Vital(i)),
                           Vital(m)' => Vital(m)
                    PROVE  PromiseStep
<1>1. CASE UNCHANGED dropped
  BY <1>1, OneCopyStep
<1>2. CASE ~UNCHANGED dropped
  BY <1>2, ExcuseStep DEF GiveUp
<1> QED
  BY <1>1, <1>2

\* An answer settles its task and leaves the copies alone.
LEMMA AnswerStep == ASSUME NoLossInv, NEW w \in Workers, HandleEvent(w) \/ RouteReply(w)
                    PROVE  PromiseStep
<1>1. PICK u \in Traces : u = TraceOf(wmsg[w]) /\ u \in Submitted
  BY MsgType DEF NoLossInv, HandleEvent, RouteReply, Submitted, Published
<1>2. settled' = settled \/ settled' = settled \cup {u}
  BY <1>1 DEF HandleEvent, RouteReply
<1>3. /\ UNCHANGED <<stream, lastDelivered, pel, wmsg, spc, batch, dlq, dropped>>
      /\ \A v \in Workers : wpc'[v] = "duplicate" <=> wpc[v] = "duplicate"
  BY DEF NoLossInv, TypeOK, HandleEvent, RouteReply, Goto, sweeperVars, history
<1>4. \A i \in Ids : Vital(i)' <=> Vital(i)
  BY <1>3 DEF Vital, Carrier, Doomed, FirstZombie, Ids
<1>5. UNCHANGED <<Submitted, Carried, Buried, dropped>>
  BY <1>3, <1>4 DEF Submitted, Carried, Buried, Published, Dead, TraceOf, Ids
<1>6. CASE settled' = settled
  BY <1>5, <1>6 DEF PromiseStep, Promise!avars, Submitted, Carried, Buried
<1>7. CASE settled' = settled \cup {u}
  <2>1. Promise!Settle(u)
    BY <1>1, <1>5, <1>7 DEF Promise!Settle, Submitted, Carried, Buried
  <2> QED
    BY <2>1 DEF PromiseStep, Promise!ANext
<1> QED
  BY <1>2, <1>6, <1>7

LEMMA DispatchStep == ASSUME NoLossInv, NoLossInv', NEW t \in Traces, Dispatch(t)
                      PROVE  PromiseStep
<1>1. t \notin Submitted
      /\ UNCHANGED <<settled, dlq, lastDelivered, pel, wpc, wmsg, spc, batch, dropped>>
  BY DEF Dispatch, Submitted, workerVars, sweeperVars, history
<1>2. PICK n : n = Len(stream) + 1
  OBVIOUS
<1>3. /\ n \in Ids' \ Ids
      /\ \A i \in Ids' : i \in Ids \/ i = n
      /\ \A i \in Ids : i \in Ids' /\ TraceOf(i)' = TraceOf(i)
      /\ TraceOf(n)' = t
  <2>1. /\ stream'[n] = [trace |-> t, retry |-> 0] /\ Len(stream') = n /\ n \in Nat \ {0}
        /\ \A i \in Ids : stream'[i] = stream[i]
    BY <1>2 DEF NoLossInv, TypeOK, Dispatch, Ids
  <2> QED
    BY <1>2, <2>1 DEF NoLossInv, TypeOK, Ids, TraceOf
<1>4. Submitted' = Submitted \cup {t}
  BY <1>3 DEF Submitted, Published
<1>5. Buried' = Buried
  BY <1>1, <1>3 DEF NoLossInv, TypeOK, Buried, Dead, Ids
<1>6. \A i \in Ids : Vital(i)' <=> Vital(i)
  BY <1>1, <1>3 DEF Vital, Carrier, Doomed, FirstZombie
<1>7. Carried' = Carried \cup {t}
  <2>1. Vital(n)'
    <3>1. n > lastDelivered /\ n \notin batch /\ \A w \in Workers : wmsg[w] # n
      BY <1>2 DEF NoLossInv, TypeOK
    <3> QED
      BY <1>1, <1>3, <3>1 DEF Vital, Carrier, Doomed, FirstZombie
  <2> QED
    BY <1>3, <1>6, <2>1 DEF Carried
<1>8. Promise!Submit(t)
  BY <1>1, <1>4, <1>5, <1>7 DEF Promise!Submit, Submitted, Carried, Buried
<1> QED
  BY <1>8 DEF PromiseStep, Promise!ANext

LEMMA SalvageStep == ASSUME NoLossInv, NoLossInv', NEW i \in batch, FirstZombie(i), Salvage(i),
                            SweepAdd, spc' \in {"ack", "errack"}
                     PROVE  PromiseStep
<1>2. /\ UNCHANGED <<settled, lastDelivered, pel, wpc, wmsg, batch, dropped>> /\ spc = "add"
      /\ i \in Ids
  BY BatchType DEF NoLossInv, SweepAdd, workerVars, history
<1>3. PICK u \in Traces : u = TraceOf(i) /\ u \in Submitted
  BY <1>2, TraceType DEF NoLossInv, Submitted, Published
<1>4. CASE dlq' = dlq \cup {i} /\ UNCHANGED stream
  <2>1. Buried' = Buried \cup {u} /\ Submitted' = Submitted
    BY <1>3, <1>4 DEF Buried, Dead, Submitted, Published, TraceOf, Ids
  <2>2. \A j \in Ids : j # i => (Vital(j)' <=> Vital(j))
    BY <1>2, <1>4 DEF NoLossInv, TypeOK, Vital, Carrier, Doomed, FirstZombie, Ids
  <2>3. Carried' \in {Carried, Carried \ {u}}
    <3>1. ~Vital(i)'
      BY <1>2 DEF Vital, Doomed, FirstZombie
    <3> QED
      BY <1>3, <1>4, <2>2, <3>1 DEF Carried, Ids, TraceOf
  \* Before, this task was carried or over, or it is already buried.
  <2>4. u \in Carried \cup settled \cup dropped \cup Buried
    BY <1>3 DEF NoLossInv, Saved, Submitted, Carried, Buried
  <2>5. CASE u \in Carried \cup settled \cup dropped
    <3>1. Promise!Bury(u)
      BY <1>2, <2>1, <2>3, <2>5 DEF Promise!Bury, Submitted, Carried, Buried
    <3> QED
      BY <3>1 DEF PromiseStep, Promise!ANext
  <2>6. CASE u \in Buried
    BY <1>2, <1>3, <2>1, <2>3, <2>6, LingerStep
  <2> QED
    BY <2>4, <2>5, <2>6
<1>5. CASE stream' = Append(stream, [stream[i] EXCEPT !.retry = @ + 1]) /\ UNCHANGED dlq
  <2>0. PICK n : n = Len(stream) + 1
    OBVIOUS
  <2>1. /\ n \in Ids' \ Ids
        /\ \A j \in Ids' : j \in Ids \/ j = n
        /\ \A j \in Ids : j \in Ids' /\ TraceOf(j)' = TraceOf(j)
        /\ TraceOf(n)' = u
    <3>1. stream[i] \in Entry
      BY <1>2, EntryType DEF NoLossInv
    <3>2. /\ stream'[n] = [stream[i] EXCEPT !.retry = @ + 1]
          /\ Len(stream') = n
          /\ n \in Nat \ {0}
          /\ \A j \in Ids : stream'[j] = stream[j]
      BY <1>5, <2>0 DEF NoLossInv, TypeOK, Ids
    <3>3. n \in Ids' \ Ids /\ \A j \in Ids' : j \in Ids \/ j = n
      BY <2>0, <3>2 DEF NoLossInv, TypeOK, Ids
    <3>4. \A j \in Ids : j \in Ids' /\ TraceOf(j)' = TraceOf(j)
      BY <2>0, <3>2 DEF NoLossInv, TypeOK, Ids, TraceOf
    <3>5. TraceOf(n)' = u
      BY <1>3, <3>1, <3>2 DEF TraceOf, Entry
    <3> QED
      BY <3>3, <3>4, <3>5
  <2>2. Submitted' = Submitted /\ Buried' = Buried
    <3>1. Submitted' = Submitted
      BY <1>3, <2>1 DEF Submitted, Published
    <3>2. \A j \in dlq : j \in Ids
      BY DEF NoLossInv, TypeOK, Ids
    <3> QED
      BY <1>5, <2>1, <3>1, <3>2 DEF Buried, Dead
  <2>3. \A j \in Ids : j # i => (Vital(j)' <=> Vital(j))
    BY <1>2, <2>1 DEF Vital, Carrier, Doomed, FirstZombie, NoLossInv, TypeOK
  <2>4. Carried' \in {Carried, Carried \ {u}, Carried \cup {u}}
    BY <1>3, <2>1, <2>3 DEF Carried
  <2> QED
    BY <1>2, <2>2, <2>4, <1>3, LingerStep
<1> QED
  BY <1>4, <1>5 DEF Salvage, Retriable

LEMMA PromiseSimulated == ASSUME NoLossInv, NoLossInv', [Next]_vars
                          PROVE  PromiseStep
<1> DEFINE OneCopy == \E m : \A i \in Ids : i # m => (Vital(i)' <=> Vital(i))
<1>1. ASSUME UNCHANGED <<stream, settled, dlq, dropped>>, OneCopy PROVE PromiseStep
  BY <1>1, OneCopyStep
<1>2. ASSUME NEW w \in Workers, Read(w) PROVE PromiseStep
  <2>1. /\ UNCHANGED <<stream, settled, dlq, dropped, spc, batch>>
        /\ lastDelivered' = lastDelivered + 1
        /\ Pending' = Pending \cup {lastDelivered'}
    BY <1>2 DEF Read, sweeperVars, history
  <2>2. \A v \in Workers : /\ wpc'[v] = "duplicate" <=> wpc[v] = "duplicate"
                           /\ wpc[v] = "duplicate" => wmsg'[v] = wmsg[v]
    BY <1>2 DEF NoLossInv, TypeOK, Read, Goto
  <2>3. \A i \in Ids : Carrier(i)' <=> Carrier(i)
    BY <2>1 DEF NoLossInv, TypeOK, Carrier, Ids
  <2>4. \A i \in Ids : Doomed(i)' <=> Doomed(i)
    BY <2>1, <2>2 DEF Doomed, FirstZombie
  <2> QED
    BY <1>1, <2>1, <2>3, <2>4 DEF Vital
<1>3. ASSUME NEW w \in Workers, MarkCompleted(w) \/ ReleaseLock(w) \/ WorkerCrash(w)
                \/ WorkerRestart(w)
      PROVE  PromiseStep
  <2>1. UNCHANGED <<stream, settled, dlq, lastDelivered, pel, wmsg, spc, batch, dropped>>
    BY <1>3 DEF MarkCompleted, ReleaseLock, WorkerCrash, WorkerRestart, busVars, sweeperVars,
           history
  <2>2. \A v \in Workers \ {w} : wpc'[v] = wpc[v]
    BY <1>3 DEF NoLossInv, TypeOK, MarkCompleted, ReleaseLock, WorkerCrash, WorkerRestart, Goto
  <2>3. \A i \in Ids : i # wmsg[w] => (Vital(i)' <=> Vital(i))
    BY <2>1, <2>2 DEF Vital, Carrier, Doomed, FirstZombie, Ids
  <2> QED
    BY <1>1, <2>1, <2>3
<1>10. ASSUME NEW w \in Workers, TakeLock(w) PROVE PromiseStep
  <2>0. wmsg[w] \in Ids
    BY <1>10, MsgType DEF NoLossInv, TakeLock
  <2>1. /\ UNCHANGED <<stream, settled, dlq, lastDelivered, pel, wmsg, spc, batch>>
        /\ GiveUp(TraceOf(wmsg[w])) \/ UNCHANGED dropped
        /\ wpc[w] = "got"
    BY <1>10 DEF TakeLock, sweeperVars
  <2>2. \A v \in Workers \ {w} : wpc'[v] = wpc[v]
    BY <1>10 DEF NoLossInv, TypeOK, TakeLock, Goto
  <2>3. \A i \in Ids : i # wmsg[w] => (Vital(i)' <=> Vital(i))
    BY <2>1, <2>2 DEF Vital, Carrier, Doomed, FirstZombie, Ids
  <2>4. Vital(wmsg[w])' => Vital(wmsg[w])
    BY <2>0, <2>1, <2>2 DEF Vital, Carrier, Doomed, FirstZombie, Ids
  <2> QED
    BY <2>0, <2>1, <2>3, <2>4, GiveUpStep
<1>4. ASSUME NEW w \in Workers, DropDuplicate(w) \/ Ack(w) PROVE PromiseStep
  <2>1. UNCHANGED <<stream, settled, dlq, lastDelivered, wmsg, spc, batch, dropped>>
    BY <1>4 DEF DropDuplicate, Ack, sweeperVars, history
  <2>2. \A v \in Workers \ {w} : wpc'[v] = wpc[v]
    BY <1>4 DEF NoLossInv, TypeOK, DropDuplicate, Ack, Goto
  <2>3. \A i \in Ids : i # wmsg[w] => (i \in Pending' <=> i \in Pending)
    BY <1>4 DEF DropDuplicate, Ack, Acked
  <2>4. \A i \in Ids : i # wmsg[w] => (Vital(i)' <=> Vital(i))
    BY <2>1, <2>2, <2>3 DEF Vital, Carrier, Doomed, FirstZombie, Ids
  <2> QED
    BY <1>1, <2>1, <2>4
<1>5. CASE SweepClaim
  <2>1. UNCHANGED <<stream, settled, dlq, lastDelivered, wpc, wmsg, Pending, dropped>>
    BY <1>5 DEF SweepClaim, workerVars, history
  <2>2. spc = "idle" /\ spc' \in {"idle", "add"}
    BY <1>5 DEF SweepClaim, sweeperVars
  <2>3. \A i \in Ids : Vital(i)' <=> Vital(i)
    BY <2>1, <2>2 DEF Vital, Carrier, Doomed, Ids
  <2> QED
    BY <1>1, <2>1, <2>3
<1>6. CASE SweepAdd
  <2>1. PICK i \in batch : /\ FirstZombie(i)
                          /\ \/ Salvage(i) /\ spc' \in {"ack", "errack"}
                             \/ UNCHANGED <<stream, dlq>> /\ spc = "add" /\ spc' = "blind"
    BY <1>6, Zenon DEF SweepAdd
  <2>2. CASE Salvage(i) /\ spc' \in {"ack", "errack"}
    BY <1>6, <2>1, <2>2, SalvageStep
  <2>3. CASE UNCHANGED <<stream, dlq>> /\ spc = "add" /\ spc' = "blind"
    <3>1. UNCHANGED <<settled, lastDelivered, wpc, wmsg, pel, batch, dropped>>
      BY <1>6 DEF SweepAdd, workerVars, history
    <3>2. \A j \in Ids : Vital(j)' <=> Vital(j)
      BY <2>3, <3>1 DEF Vital, Carrier, Doomed, Ids
    <3> QED
      BY <1>1, <2>3, <3>1, <3>2
  <2> QED
    BY <2>1, <2>2, <2>3
<1>7. ASSUME SweepAck \/ SweepErrorAck \/ SweeperCrash PROVE PromiseStep
  <2>0. /\ \A i, j : FirstZombie(i) /\ FirstZombie(j) => i = j
        /\ \A i : FirstZombie(i) => i \in Ids
    BY BatchType DEF FirstZombie, NoLossInv, TypeOK
  <2>1. UNCHANGED <<stream, settled, dlq, lastDelivered, wpc, wmsg>>
    BY <1>7 DEF SweepAck, SweepErrorAck, SweeperCrash, busVars, workerVars
  <2>2. \/ spc' \in {"idle", "add"}
        \/ spc' = "errack" /\ spc = "ack" /\ UNCHANGED batch
    BY <1>7 DEF SweepAck, SweepErrorAck, SweepAckHead, SweeperCrash
  <2>3. PICK m : \A i : FirstZombie(i) => i = m
    BY <2>0
  <2>4. \A i \in Ids : i # m => (i \in Pending' <=> i \in Pending)
    <3>1. UNCHANGED pel \/ \E i : FirstZombie(i) /\ pel' = Acked(i)
      BY <1>7 DEF SweepAck, SweepErrorAck, SweepAckHead, SweeperCrash, busVars
    <3>2. CASE UNCHANGED pel
      BY <3>2
    <3>3. ASSUME NEW k, FirstZombie(k), pel' = Acked(k) PROVE DOMAIN pel' = DOMAIN pel \ {m}
      BY <2>3, <3>3 DEF Acked
    <3> QED
      BY <3>1, <3>2, <3>3
  <2>5. \A i \in Ids : i # m => (Vital(i)' <=> Vital(i))
    <3>1. \A i \in Ids : i # m => ~Salvaged(i) /\ ~Salvaged(i)'
      BY <2>2, <2>3 DEF FirstZombie
    <3> QED
      BY <2>1, <2>4, <3>1 DEF Vital, Carrier, Doomed, Ids
  <2>6. CASE UNCHANGED dropped
    BY <1>1, <2>1, <2>5, <2>6
  <2>7. CASE ~UNCHANGED dropped
    <3>1. SweepErrorAck /\ spc = "blind"
      BY <1>7, <2>7 DEF SweepAck, SweepErrorAck, SweeperCrash, Forsake, history
    <3>2. PICK k \in batch : FirstZombie(k) /\ pel' = Acked(k) /\ Forsake(k)
      BY <2>7, <3>1 DEF SweepErrorAck, SweepAckHead
    <3>3. k = m /\ m \in Ids /\ GiveUp(TraceOf(m))
      BY <2>0, <2>3, <3>1, <3>2 DEF Forsake
    <3>4. Vital(m)' => Vital(m)
      BY <2>1, <3>1, <3>2, <3>3 DEF Vital, Carrier, Doomed, Acked, Ids
    <3> QED
      BY <2>1, <2>5, <3>3, <3>4, GiveUpStep
  <2> QED
    BY <2>6, <2>7
<1>8. CASE Tick
  <2>1. UNCHANGED <<stream, settled, dlq, lastDelivered, wpc, wmsg, spc, batch, Pending, dropped>>
    BY <1>8 DEF Tick, sweeperVars, history
  <2>2. \A i \in Ids : Vital(i)' <=> Vital(i)
    BY <2>1 DEF Vital, Carrier, Doomed, FirstZombie, Ids
  <2> QED
    BY <1>1, <2>1, <2>2
<1>9. CASE UNCHANGED vars
  <2>1. UNCHANGED <<stream, settled, dlq, lastDelivered, wpc, wmsg, spc, batch, pel, dropped>>
    BY <1>9 DEF vars, busVars, workerVars, sweeperVars, history
  <2>2. \A i \in Ids : Vital(i)' <=> Vital(i)
    BY <2>1 DEF Vital, Carrier, Doomed, FirstZombie, Ids
  <2> QED
    BY <1>1, <2>1, <2>2
<1> QED
  BY <1>2, <1>3, <1>4, <1>5, <1>6, <1>7, <1>8, <1>9, <1>10, AnswerStep, DispatchStep
     DEF Next, WorkerStep, SweeperStep

LEMMA PromiseInit == Init => Promise!AInit
  BY DEF Init, Promise!AInit, Published, Dead, Ids

\* The bus implements at-least-once delivery for any constants: a task is
\* submitted once, is carried by a copy until a handler answers it, the sweeper
\* buries it or the bus gives it up in one of the two ways of NoLoss, and is
\* never answered or buried without having been.
THEOREM PromiseIsKept == Spec => PromiseSafe
<1>1. NoLossInv /\ NoLossInv' /\ [Next]_vars => PromiseStep
  BY PromiseSimulated
<1> QED
  BY <1>1, PromiseInit, NoLossInvariant, PTL DEF Spec, PromiseSafe, Promise!Safe, PromiseStep

=============================================================================
