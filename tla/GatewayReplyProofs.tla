-------------------------- MODULE GatewayReplyProofs --------------------------
(***************************************************************************)
(* What holds of a gateway's replies for any number of requests, any batch *)
(* size and any failures of its Redis calls.                               *)
(***************************************************************************)
EXTENDS GatewayReply, SequenceTheorems, TLAPS

USE GatewayAssumption DEF GatewayAssumption

LEMMA ReplyInit == Init => ReplyInv
  BY DEF Init, ReplyInv, TypeOK, Begun, Hooked, Asked, HeadSettled, NoLeak, Reachable,
         OwnReply, AckedIsHandled, Settled, RequestStates, Over, Ids, None, Pending,
         Cancelled, Result

LEMMA FunctionIsSeq == ASSUME NEW n \in Nat, NEW S, NEW f \in [1 .. n -> S]
                       PROVE  f \in Seq(S)
  OBVIOUS

LEMMA NoElement == ASSUME NEW S, NEW s \in Seq(S)
                   PROVE  Len(s) = 0 <=> s = << >>
<1>1. Len(s) = 0 => s = << >>
  OBVIOUS
<1> QED
  BY <1>1, EmptySeq

\* The first element of a batch is a reply that was read; the rest is a batch.
LEMMA BatchHead == ASSUME TypeOK, batch # << >>
                   PROVE  /\ Head(batch) \in 1 .. read
                          /\ Head(batch) \in Ids
                          /\ replies[Head(batch)] \in Requests \cup Receipts
                          /\ Tail(batch) \in Seq(1 .. read)
                          /\ Len(batch) = 1 <=> Tail(batch) = << >>
<1>1. /\ Head(batch) \in 1 .. read
      /\ Tail(batch) \in Seq(1 .. read)
      /\ Len(batch) = 1 <=> Tail(batch) = << >>
  <2>1. batch \in Seq(1 .. read)
    BY DEF TypeOK
  <2>2. /\ Head(batch) \in 1 .. read
        /\ Tail(batch) \in Seq(1 .. read)
        /\ Len(Tail(batch)) = Len(batch) - 1
    BY <2>1, HeadTailProperties
  <2>3. Len(batch) \in Nat
    BY <2>1, LenProperties
  <2>4. Len(batch) = 1 <=> Tail(batch) = << >>
    <3>1. Len(Tail(batch)) = 0 <=> Tail(batch) = << >>
      BY <2>2, NoElement
    <3> QED
      BY <2>2, <2>3, <3>1
  <2> QED
    BY <2>2, <2>4
<1>2. Head(batch) \in Ids
  BY <1>1 DEF TypeOK, Ids
<1>3. replies[Head(batch)] \in Requests \cup Receipts
  BY <1>2 DEF TypeOK, Ids
<1> QED
  BY <1>1, <1>2, <1>3

LEMMA TypeStep == ASSUME TypeOK, [Next]_vars PROVE TypeOK'
<1>1. ASSUME NEW r \in Requests, Dispatch(r) PROVE TypeOK'
  BY <1>1 DEF TypeOK, Dispatch, Goto, RequestStates, streamVars, listenerVars, Ids
<1>2. ASSUME NEW r \in Requests, Send(r) PROVE TypeOK'
  BY <1>2 DEF TypeOK, Send, Goto, Mishap, RequestStates, streamVars, listenerVars, Ids
<1>3. ASSUME NEW r \in Requests, Return(r) PROVE TypeOK'
  BY <1>3 DEF TypeOK, Return, Goto, RequestStates, streamVars, listenerVars, Ids
<1>4. ASSUME NEW r \in Requests, TimerFires(r) PROVE TypeOK'
  BY <1>4 DEF TypeOK, TimerFires, Goto, RequestStates, streamVars, listenerVars, Ids
<1>5. ASSUME NEW r \in Requests, GiveUp(r) \/ Fail(r) PROVE TypeOK'
  BY <1>5 DEF TypeOK, GiveUp, Fail, RemoveFuture, Goto, RequestStates, streamVars, listenerVars, Ids
<1>6. ASSUME NEW t \in Requests \cup Receipts, Reply(t) PROVE TypeOK'
  <2>1. /\ replies' \in Seq(Requests \cup Receipts)
        /\ Len(replies') = Len(replies) + 1
    BY <1>6 DEF TypeOK, Reply
  <2>2. future' \in [Requests -> {None, Pending, Cancelled} \cup 1 .. Len(replies')]
    BY <1>6, <2>1 DEF TypeOK, Reply, requestVars, Ids
  <2> QED
    BY <1>6, <2>1, <2>2 DEF TypeOK, Reply, requestVars, listenerVars, Ids
<1>7. CASE ReadReplies
  <2>1. CASE Mishap("read") /\ UNCHANGED <<read, pel, batch>> /\ lpc' = "dead" /\ lpc = "reading"
    BY <1>7, <2>1 DEF TypeOK, ReadReplies, Mishap, requestVars, Ids
  <2>2. CASE /\ read < Len(replies)
             /\ read' = NextBatch
             /\ pel' = pel \cup (read + 1 .. NextBatch)
             /\ batch' = [i \in 1 .. NextBatch - read |-> read + i]
             /\ lpc' = "resolving"
             /\ UNCHANGED mishaps
    <3>1. NextBatch \in read + 1 .. Len(replies)
      BY <2>2 DEF TypeOK, NextBatch
    <3>2. batch' \in Seq(1 .. read') /\ batch' # << >>
      <4> DEFINE n == NextBatch - read
      <4>1. n \in Nat \ {0}
        BY <3>1 DEF TypeOK
      <4>2. batch' \in [1 .. n -> 1 .. read']
        BY <2>2, <3>1 DEF TypeOK
      <4> HIDE DEF n
      <4>3. batch' \in Seq(1 .. read')
        BY <4>1, <4>2, FunctionIsSeq
      <4>4. batch' # << >>
        BY <4>1, <4>2
      <4> QED
        BY <4>3, <4>4
    <3> QED
      BY <1>7, <2>2, <3>1, <3>2 DEF TypeOK, ReadReplies, requestVars, Ids
  <2> QED
    BY <1>7, <2>1, <2>2 DEF ReadReplies
<1>8. CASE Resolve
  <2>1. batch # << >>
    BY <1>8 DEF Resolve, TypeOK
  <2>2. lpc' \in {"reading", "resolving", "acking"} /\ batch' \in {batch, Tail(batch)}
    BY <1>8 DEF Resolve, Handled
  <2>3. batch' \in Seq(1 .. read) /\ (lpc' \in {"resolving", "acking"} <=> batch' # << >>)
    BY <1>8, <2>1, BatchHead DEF Resolve, Handled, TypeOK
  <2>4. pool' \subseteq Requests /\ future' \in [Requests -> {None, Pending, Cancelled} \cup Ids]
    BY <1>8, <2>1, BatchHead DEF Resolve, ResolveFuture, TypeOK
  <2>5. mishaps' \in 0 .. MaxMishaps
    BY <1>8 DEF Resolve, Mishap, TypeOK
  <2> QED
    BY <1>8, <2>2, <2>3, <2>4, <2>5 DEF Resolve, TypeOK, streamVars, Ids
<1>9. CASE AckReply
  <2>1. batch # << >>
    BY <1>9 DEF AckReply, TypeOK
  <2>2. /\ lpc' \in {"reading", "resolving"}
        /\ batch' \in Seq(1 .. read)
        /\ lpc' \in {"resolving", "acking"} <=> batch' # << >>
    BY <1>9, <2>1, BatchHead DEF AckReply, Handled
  <2>3. pel' \subseteq pel /\ mishaps' \in 0 .. MaxMishaps
    BY <1>9 DEF AckReply, Acked, Mishap, TypeOK
  <2> QED
    BY <1>9, <2>2, <2>3 DEF AckReply, TypeOK, requestVars, Ids
<1>10. CASE UNCHANGED vars
  BY <1>10 DEF vars, requestVars, streamVars, listenerVars, TypeOK, Ids
<1> QED
  BY <1>1, <1>2, <1>3, <1>4, <1>5, <1>6, <1>7, <1>8, <1>9, <1>10 DEF Next, Coroutine, Listen

\* What a step of the listener does to the futures and the pool: nothing, or it
\* resolves the future of the reply at the head of its batch.
LEMMA ListenerFutures ==
  ASSUME ReplyInv, Listen
  PROVE  /\ UNCHANGED <<rpc, sent, replies>>
         /\ \/ UNCHANGED <<future, pool>>
            \/ /\ Resolve
               /\ replies[Head(batch)] \in Requests
               /\ Head(batch) \in Ids
               /\ ResolveFuture(replies[Head(batch)], Head(batch))
<1>1. CASE ReadReplies
  BY <1>1 DEF ReadReplies, requestVars
<1>2. CASE Resolve
  <2>1. Head(batch) \in Ids
    BY <1>2, BatchHead DEF Resolve, ReplyInv, TypeOK
  <2> QED
    BY <1>2, <2>1 DEF Resolve, streamVars
<1>3. CASE AckReply
  BY <1>3 DEF AckReply, requestVars
<1> QED
  BY <1>1, <1>2, <1>3 DEF Listen

LEMMA BegunStep == ASSUME ReplyInv, [Next]_vars PROVE Begun'
<1> USE DEF None, Pending, Cancelled, Goto
<1>1. ASSUME NEW r \in Requests, Dispatch(r) PROVE Begun'
  BY <1>1 DEF Dispatch, ReplyInv, TypeOK, Begun
<1>2. ASSUME NEW r \in Requests, Send(r) PROVE Begun'
  BY <1>2 DEF Send, ReplyInv, TypeOK, Begun
<1>3. ASSUME NEW r \in Requests, Return(r) PROVE Begun'
  BY <1>3 DEF Return, ReplyInv, TypeOK, Begun
<1>4. ASSUME NEW r \in Requests, TimerFires(r) PROVE Begun'
  BY <1>4 DEF TimerFires, ReplyInv, TypeOK, Begun
<1>5. ASSUME NEW r \in Requests, GiveUp(r) \/ Fail(r) PROVE Begun'
  BY <1>5 DEF GiveUp, Fail, RemoveFuture, ReplyInv, TypeOK, Begun
<1>6. ASSUME NEW t \in Requests \cup Receipts, Reply(t) PROVE Begun'
  BY <1>6 DEF Reply, requestVars, ReplyInv, Begun
<1>7. CASE Listen
  BY <1>7, ListenerFutures DEF ResolveFuture, ReplyInv, TypeOK, Begun, Ids
<1>8. CASE UNCHANGED vars
  BY <1>8 DEF vars, requestVars, ReplyInv, Begun
<1> QED
  BY <1>1, <1>2, <1>3, <1>4, <1>5, <1>6, <1>7, <1>8 DEF Next, Coroutine

LEMMA HookedStep == ASSUME ReplyInv, [Next]_vars PROVE Hooked'
<1> USE DEF None, Pending, Cancelled, Goto, Result
<1>1. ASSUME NEW r \in Requests, Dispatch(r) PROVE Hooked'
  BY <1>1 DEF Dispatch, ReplyInv, TypeOK, Hooked
<1>2. ASSUME NEW r \in Requests, Send(r) PROVE Hooked'
  BY <1>2 DEF Send, ReplyInv, TypeOK, Hooked
<1>3. ASSUME NEW r \in Requests, Return(r) PROVE Hooked'
  BY <1>3 DEF Return, ReplyInv, TypeOK, Hooked
<1>4. ASSUME NEW r \in Requests, TimerFires(r) PROVE Hooked'
  BY <1>4 DEF TimerFires, ReplyInv, TypeOK, Hooked
<1>5. ASSUME NEW r \in Requests, GiveUp(r) \/ Fail(r) PROVE Hooked'
  BY <1>5 DEF GiveUp, Fail, RemoveFuture, ReplyInv, TypeOK, Hooked
<1>6. ASSUME NEW t \in Requests \cup Receipts, Reply(t) PROVE Hooked'
  BY <1>6 DEF Reply, requestVars, ReplyInv, Hooked
<1>7. CASE Listen
  BY <1>7, ListenerFutures DEF ResolveFuture, ReplyInv, TypeOK, Hooked, Ids
<1>8. CASE UNCHANGED vars
  BY <1>8 DEF vars, requestVars, ReplyInv, Hooked
<1> QED
  BY <1>1, <1>2, <1>3, <1>4, <1>5, <1>6, <1>7, <1>8 DEF Next, Coroutine

LEMMA AskedStep == ASSUME ReplyInv, [Next]_vars PROVE Asked'
<1>1. ASSUME sent \subseteq sent', UNCHANGED replies PROVE Asked'
  BY <1>1 DEF ReplyInv, Asked, Ids
<1>2. ASSUME NEW t \in Requests \cup Receipts, Reply(t) PROVE Asked'
  <2> SUFFICES ASSUME NEW i \in Ids' PROVE replies'[i] \in sent' \cup Receipts
    BY DEF Asked
  <2>1. /\ Len(replies') = Len(replies) + 1
        /\ i = Len(replies) + 1 => replies'[i] = t
        /\ i # Len(replies) + 1 => i \in Ids /\ replies'[i] = replies[i]
    BY <1>2 DEF Reply, ReplyInv, TypeOK, Ids
  <2> QED
    BY <1>2, <2>1 DEF Reply, requestVars, ReplyInv, Asked
<1>3. CASE Listen
  BY <1>1, <1>3, ListenerFutures
<1>4. ASSUME NEW r \in Requests, Dispatch(r) \/ Coroutine(r) PROVE Asked'
  BY <1>1, <1>4 DEF Dispatch, Coroutine, Send, Return, TimerFires, GiveUp, Fail, streamVars
<1>5. CASE UNCHANGED vars
  BY <1>1, <1>5 DEF vars, requestVars, streamVars
<1> QED
  BY <1>2, <1>3, <1>4, <1>5 DEF Next

LEMMA NoLeakStep == ASSUME ReplyInv, [Next]_vars PROVE NoLeak'
<1> USE DEF Goto, Over
<1>1. ASSUME NEW r \in Requests, Dispatch(r) \/ Send(r) PROVE NoLeak'
  BY <1>1 DEF Dispatch, Send, ReplyInv, TypeOK, NoLeak
<1>2. ASSUME NEW r \in Requests, Return(r) PROVE NoLeak'
  BY <1>2 DEF Return, ReplyInv, TypeOK, Hooked, NoLeak
<1>3. ASSUME NEW r \in Requests, TimerFires(r) PROVE NoLeak'
  BY <1>3 DEF TimerFires, ReplyInv, TypeOK, NoLeak
<1>4. ASSUME NEW r \in Requests, GiveUp(r) \/ Fail(r) PROVE NoLeak'
  BY <1>4 DEF GiveUp, Fail, RemoveFuture, ReplyInv, TypeOK, NoLeak
<1>5. ASSUME NEW t \in Requests \cup Receipts, Reply(t) PROVE NoLeak'
  BY <1>5 DEF Reply, requestVars, ReplyInv, NoLeak
<1>6. CASE Listen
  BY <1>6, ListenerFutures DEF ResolveFuture, ReplyInv, NoLeak
<1>7. CASE UNCHANGED vars
  BY <1>7 DEF vars, requestVars, ReplyInv, NoLeak
<1> QED
  BY <1>1, <1>2, <1>3, <1>4, <1>5, <1>6, <1>7 DEF Next, Coroutine

LEMMA ReachableStep == ASSUME ReplyInv, [Next]_vars PROVE Reachable'
<1> USE DEF None, Pending, Cancelled, Goto, Result
<1>1. ASSUME NEW r \in Requests, Dispatch(r) \/ Send(r) PROVE Reachable'
  BY <1>1 DEF Dispatch, Send, ReplyInv, TypeOK, Reachable
<1>2. ASSUME NEW r \in Requests, Return(r) PROVE Reachable'
  BY <1>2 DEF Return, ReplyInv, TypeOK, Reachable
<1>3. ASSUME NEW r \in Requests, TimerFires(r) PROVE Reachable'
  BY <1>3 DEF TimerFires, ReplyInv, TypeOK, Reachable
<1>4. ASSUME NEW r \in Requests, GiveUp(r) \/ Fail(r) PROVE Reachable'
  BY <1>4 DEF GiveUp, Fail, RemoveFuture, ReplyInv, TypeOK, Reachable
<1>5. ASSUME NEW t \in Requests \cup Receipts, Reply(t) PROVE Reachable'
  BY <1>5 DEF Reply, requestVars, ReplyInv, Reachable
<1>6. CASE Listen
  BY <1>6, ListenerFutures DEF ResolveFuture, ReplyInv, TypeOK, Reachable, Ids
<1>7. CASE UNCHANGED vars
  BY <1>7 DEF vars, requestVars, ReplyInv, Reachable
<1> QED
  BY <1>1, <1>2, <1>3, <1>4, <1>5, <1>6, <1>7 DEF Next, Coroutine

LEMMA OwnReplyStep == ASSUME ReplyInv, [Next]_vars PROVE OwnReply'
<1> USE DEF None, Pending, Cancelled, Goto, Result
<1>1. ASSUME NEW r \in Requests, Dispatch(r) PROVE OwnReply'
  BY <1>1 DEF Dispatch, streamVars, ReplyInv, TypeOK, OwnReply
<1>2. ASSUME NEW r \in Requests, TimerFires(r) PROVE OwnReply'
  BY <1>2 DEF TimerFires, streamVars, ReplyInv, TypeOK, OwnReply
<1>3. ASSUME NEW r \in Requests, Send(r) \/ Return(r) \/ GiveUp(r) \/ Fail(r)
      PROVE OwnReply'
  BY <1>3 DEF Send, Return, GiveUp, Fail, streamVars, ReplyInv, OwnReply
<1>4. ASSUME NEW t \in Requests \cup Receipts, Reply(t) PROVE OwnReply'
  <2>1. \A i \in Ids : replies'[i] = replies[i]
    BY <1>4 DEF Reply, ReplyInv, TypeOK, Ids
  <2>2. \A r \in Requests : Result(r) => future[r] \in Ids
    BY DEF ReplyInv, TypeOK
  <2> QED
    BY <1>4, <2>1, <2>2 DEF Reply, requestVars, ReplyInv, OwnReply
<1>5. CASE Listen
  BY <1>5, ListenerFutures DEF ResolveFuture, ReplyInv, TypeOK, OwnReply, Ids
<1>6. CASE UNCHANGED vars
  BY <1>6 DEF vars, requestVars, streamVars, ReplyInv, OwnReply
<1> QED
  BY <1>1, <1>2, <1>3, <1>4, <1>5, <1>6 DEF Next, Coroutine

\* What a future holds, a reply or a cancellation, stays.
LEMMA FutureStays ==
  ASSUME ReplyInv, [Next]_vars, NEW r \in Requests, future[r] \notin {None, Pending}
  PROVE  future'[r] = future[r]
<1> USE DEF None, Pending, Cancelled, Goto
<1>1. ASSUME NEW q \in Requests, Dispatch(q) PROVE future'[r] = future[r]
  BY <1>1 DEF Dispatch, ReplyInv, TypeOK, Begun
<1>2. ASSUME NEW q \in Requests, TimerFires(q) PROVE future'[r] = future[r]
  BY <1>2 DEF TimerFires, ReplyInv, TypeOK
<1>3. ASSUME NEW q \in Requests, Send(q) \/ Return(q) \/ GiveUp(q) \/ Fail(q)
      PROVE future'[r] = future[r]
  BY <1>3 DEF Send, Return, GiveUp, Fail
<1>4. ASSUME NEW t \in Requests \cup Receipts, Reply(t) PROVE future'[r] = future[r]
  BY <1>4 DEF Reply, requestVars
<1>5. CASE Listen
  BY <1>5, ListenerFutures DEF ResolveFuture, ReplyInv, TypeOK
<1>6. CASE UNCHANGED vars
  BY <1>6 DEF vars, requestVars
<1> QED
  BY <1>1, <1>2, <1>3, <1>4, <1>5, <1>6 DEF Next, Coroutine

\* A request that failed stays so.
LEMMA FailedStays ==
  ASSUME ReplyInv, [Next]_vars, NEW r \in Requests, rpc[r] \in {"failing", "failed"}
  PROVE  rpc'[r] \in {"failing", "failed"}
<1>1. ASSUME NEW q \in Requests, Dispatch(q) \/ Coroutine(q)
      PROVE  rpc'[r] \in {"failing", "failed"}
  BY <1>1 DEF Dispatch, Coroutine, Send, Return, TimerFires, GiveUp, Fail, Goto,
              ReplyInv, TypeOK
<1>2. ASSUME NEW t \in Requests \cup Receipts, Reply(t) PROVE UNCHANGED rpc
  BY <1>2 DEF Reply, requestVars
<1>3. CASE Listen
  BY <1>3, ListenerFutures
<1>4. CASE UNCHANGED vars
  BY <1>4 DEF vars, requestVars
<1> QED
  BY <1>1, <1>2, <1>3, <1>4 DEF Next

LEMMA SettledStays ==
  ASSUME ReplyInv, [Next]_vars, NEW i \in Ids, Settled(i)
  PROVE  Settled(i)'
<1>1. replies'[i] = replies[i]
  <2>1. ASSUME NEW t \in Requests \cup Receipts, Reply(t) PROVE replies'[i] = replies[i]
    BY <2>1 DEF Reply, ReplyInv, TypeOK, Ids
  <2>2. ASSUME NEW r \in Requests, Dispatch(r) \/ Coroutine(r) PROVE UNCHANGED replies
    BY <2>2 DEF Dispatch, Coroutine, Send, Return, TimerFires, GiveUp, Fail, streamVars
  <2>3. Listen => UNCHANGED replies
    BY ListenerFutures
  <2>4. UNCHANGED vars => UNCHANGED replies
    BY DEF vars, streamVars
  <2> QED
    BY <2>1, <2>2, <2>3, <2>4 DEF Next
<1>2. CASE replies[i] \notin Requests
  BY <1>1, <1>2 DEF Settled
<1>3. CASE replies[i] \in Requests /\ future[replies[i]] \notin {None, Pending}
  BY <1>1, <1>3, FutureStays DEF Settled
<1>4. CASE replies[i] \in Requests /\ rpc[replies[i]] \in {"failing", "failed"}
  BY <1>1, <1>4, FailedStays DEF Settled
<1> QED
  BY <1>2, <1>3, <1>4 DEF Settled

\* Handling a reply settles it, whatever the future it belongs to has become.
LEMMA ResolveSettles ==
  ASSUME ReplyInv, Resolve, lpc' = "acking"
  PROVE  batch' = batch /\ Settled(Head(batch))'
<1> USE DEF None, Pending, Cancelled
<1> DEFINE h == Head(batch)
           t == replies[h]
<1>1. /\ h \in Ids
      /\ t \in Requests \cup Receipts
      /\ Len(batch) = 1 <=> Tail(batch) = << >>
  BY BatchHead DEF Resolve, ReplyInv, TypeOK
<1>2. /\ batch' = batch
      /\ UNCHANGED <<rpc, replies>>
      /\ t \in Receipts \/ (t \in Requests /\ ResolveFuture(t, h))
  BY DEF Resolve, Handled, streamVars
<1>3. CASE t \in Receipts
  BY <1>2, <1>3 DEF Settled
<1>4. CASE t \in Requests /\ ResolveFuture(t, h)
  <2>1. t \in sent
    BY <1>1, <1>4 DEF ReplyInv, Asked
  <2>2. future[t] # None
    BY <1>4, <2>1 DEF ReplyInv, Begun
  <2>3. future[t] = Pending => t \in pool \/ rpc[t] = "failed"
    BY <1>4 DEF ReplyInv, Hooked
  <2>4. future'[t] \notin {None, Pending} \/ rpc[t] = "failed"
    BY <1>1, <1>4, <2>2, <2>3 DEF ResolveFuture, ReplyInv, TypeOK, Ids
  <2> QED
    BY <1>2, <2>4 DEF Settled
<1> QED
  BY <1>2, <1>3, <1>4

LEMMA HeadSettledStep == ASSUME ReplyInv, [Next]_vars PROVE HeadSettled'
<1> SUFFICES ASSUME lpc' = "acking" PROVE Settled(Head(batch))'
  BY DEF HeadSettled
<1>1. CASE Resolve
  BY <1>1, ResolveSettles DEF Settled
<1>2. CASE UNCHANGED listenerVars
  <2>1. lpc = "acking" /\ batch' = batch
    BY <1>2 DEF listenerVars
  <2>2. Head(batch) \in Ids /\ Settled(Head(batch))
    BY <2>1, BatchHead DEF ReplyInv, TypeOK, HeadSettled
  <2> QED
    BY <2>1, <2>2, SettledStays DEF Settled
<1>3. CASE ReadReplies \/ AckReply
  BY <1>3 DEF ReadReplies, AckReply, Handled
<1> QED
  BY <1>1, <1>2, <1>3 DEF Next, Listen, Coroutine, Dispatch, Send, Return, TimerFires,
                          GiveUp, Fail, Reply, vars

LEMMA AckedStep == ASSUME ReplyInv, [Next]_vars PROVE AckedIsHandled'
<1> SUFFICES ASSUME NEW i \in 1 .. read', i \notin pel' PROVE Settled(i)'
  BY DEF AckedIsHandled
<1>1. CASE i \in 1 .. read /\ i \notin pel
  <2>1. i \in Ids
    BY <1>1 DEF ReplyInv, TypeOK, Ids
  <2> QED
    BY <1>1, <2>1, SettledStays DEF ReplyInv, AckedIsHandled
<1>2. CASE UNCHANGED <<read, pel>>
  BY <1>1, <1>2
<1>3. CASE ReadReplies
  <2>1. CASE UNCHANGED <<read, pel>>
    BY <1>2, <2>1
  <2>2. CASE read' = NextBatch /\ pel' = pel \cup (read + 1 .. NextBatch)
    <3>1. read \in Nat /\ NextBatch \in Int
      BY DEF NextBatch, ReplyInv, TypeOK
    <3>2. i \in 1 .. read /\ i \notin pel
      BY <2>2, <3>1
    <3> QED
      BY <1>1, <3>2
  <2> QED
    BY <1>3, <2>1, <2>2 DEF ReadReplies
<1>4. CASE AckReply
  <2>1. i \in 1 .. read /\ (i \notin pel \/ i = Head(batch))
    BY <1>4 DEF AckReply, Acked
  <2>2. Head(batch) \in Ids /\ Settled(Head(batch))
    BY <1>4, BatchHead DEF AckReply, ReplyInv, TypeOK, HeadSettled
  <2> QED
    BY <1>1, <2>1, <2>2, SettledStays
<1> QED
  BY <1>2, <1>3, <1>4 DEF Next, Listen, Resolve, Coroutine, Dispatch, Send, Return,
                          TimerFires, GiveUp, Fail, Reply, vars, streamVars

-----------------------------------------------------------------------------
LEMMA ReplyStep == ReplyInv /\ [Next]_vars => ReplyInv'
<1> SUFFICES ASSUME ReplyInv, [Next]_vars PROVE ReplyInv'
  OBVIOUS
<1>1. TypeOK'
  BY TypeStep DEF ReplyInv
<1> QED
  BY <1>1, BegunStep, HookedStep, AskedStep, NoLeakStep, ReachableStep, OwnReplyStep,
     HeadSettledStep, AckedStep DEF ReplyInv

\* The strengthening is inductive, so it holds in every reachable state.
THEOREM Strengthened == Spec => []ReplyInv
  BY ReplyInit, ReplyStep, PTL DEF Spec

\* Every variable of the gateway keeps its type.
THEOREM TypeCorrect == Spec => []TypeOK
<1>1. ReplyInv => TypeOK
  BY DEF ReplyInv
<1> QED
  BY <1>1, Strengthened, PTL

\* The pool never holds the future of a request that is over: dispatch_and_wait
\* and resolve_future together leave nothing behind, for any number of requests.
THEOREM NothingLeaks == Spec => []NoLeak
<1>1. ReplyInv => NoLeak
  BY DEF ReplyInv
<1> QED
  BY <1>1, Strengthened, PTL

\* The future of a request in flight is always found by its reply, or holds it.
THEOREM RepliesReach == Spec => []Reachable
<1>1. ReplyInv => Reachable
  BY DEF ReplyInv
<1> QED
  BY <1>1, Strengthened, PTL

\* No request is answered with the reply to another.
THEOREM OwnReplies == Spec => []OwnReply
<1>1. ReplyInv => OwnReply
  BY DEF ReplyInv
<1> QED
  BY <1>1, Strengthened, PTL

\* A reply leaves the pending entries only after its future was settled.
THEOREM HandledBeforeAck == Spec => []AckedIsHandled
<1>1. ReplyInv => AckedIsHandled
  BY DEF ReplyInv
<1> QED
  BY <1>1, Strengthened, PTL

\* A future is settled once: no second reply, timeout or failure changes it.
THEOREM FirstReplyStays == Spec => FirstReplyWins
<1>1. ASSUME ReplyInv, [Next]_vars
      PROVE  [\A r \in Requests :
                (Result(r) \/ future[r] = Cancelled) => future'[r] = future[r]]_vars
  BY <1>1, FutureStays DEF Result, None, Pending, Cancelled
<1> QED
  BY <1>1, Strengthened, PTL DEF Spec, FirstReplyWins

=============================================================================
