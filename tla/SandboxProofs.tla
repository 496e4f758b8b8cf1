---------------------------- MODULE SandboxProofs ----------------------------
(***************************************************************************)
(* Proofs about the containers of the coder: for any number of processes,  *)
(* sessions, traces and containers, any pool size and any times to live.   *)
(***************************************************************************)
EXTENDS Sandbox, TLAPS

USE SandboxAssumption DEF SandboxAssumption

-----------------------------------------------------------------------------
(* Types.                                                                  *)

Executions == [pc : PCs, bind : Binds \cup {NoBind}, final : BOOLEAN,
               box : Boxes \cup {NoBox}, tries : 0 .. MaxTries]

Keys == [box : Boxes \cup {NoBox}, left : 0 .. KeyTTL]

\* An execution has a container from the moment it is given one to its end.
Consistent(e) == /\ e.pc = "idle" => e.bind = NoBind
                 /\ e.pc # "idle" => e.bind \in Binds
                 /\ e.pc \in {"idle", "forget", "acquire"} => e.box = NoBox
                 /\ e.pc \in {"connect", "bind", "run", "kill", "unbind"} => e.box \in Boxes

Typed == TypeOK /\ \A n \in Nodes : Consistent(ex[n])

LEMMA Numbers == /\ NoBox \notin Boxes
                 /\ \A b \in Boxes : b \in Nat
                 /\ 0 \in 0 .. MaxTries
                 /\ SandboxTTL \in 0 .. SandboxTTL
                 /\ KeyTTL \in 0 .. KeyTTL
                 /\ SandboxTTL <= KeyTTL
  BY DEF NoBox, Boxes

\* The records an execution goes through.
LEMMA Goes == ASSUME NEW e \in Executions, NEW l \in PCs
              PROVE  LET d == [e EXCEPT !.pc = l] IN
                     /\ d \in Executions /\ d.pc = l
                     /\ d.bind = e.bind /\ d.box = e.box /\ d.tries = e.tries
  BY DEF Executions

LEMMA Tries == ASSUME NEW e \in Executions, NEW k \in 0 .. MaxTries
               PROVE  LET d == [e EXCEPT !.tries = k] IN
                      /\ d \in Executions /\ d.pc = e.pc
                      /\ d.bind = e.bind /\ d.box = e.box
  BY DEF Executions

LEMMA Gets == ASSUME NEW e \in Executions, NEW l, NEW b, NEW d,
                     d = [e EXCEPT !.pc = l, !.box = b]
              PROVE  d = [pc |-> l, bind |-> e.bind, final |-> e.final, box |-> b, tries |-> e.tries]
  BY DEF Executions

LEMMA Rests == Resting \in Executions /\ Consistent(Resting)
  BY Numbers DEF Resting, Executions, Consistent, PCs

\* Only the execution of the process that moves changes.
LEMMA ThenType == ASSUME Typed, NEW n \in Nodes, NEW e \in Executions, Consistent(e), Then(n, e)
                  PROVE  /\ ex' \in [Nodes -> Executions]
                         /\ \A m \in Nodes : Consistent(ex'[m])
                         /\ ex'[n] = e
                         /\ \A m \in Nodes \ {n} : ex'[m] = ex[m]
  BY DEF Typed, TypeOK, Then, Executions

LEMMA Moves == ASSUME Typed, NEW n \in Nodes, NEW l \in PCs, Goto(n, l),
                      Consistent([ex[n] EXCEPT !.pc = l])
               PROVE  /\ ex' \in [Nodes -> Executions]
                      /\ \A m \in Nodes : Consistent(ex'[m])
                      /\ ex'[n].pc = l /\ ex'[n].bind = ex[n].bind /\ ex'[n].box = ex[n].box
                      /\ \A m \in Nodes \ {n} : ex'[m] = ex[m]
<1> DEFINE d == [ex[n] EXCEPT !.pc = l]
<1>1. ex[n] \in Executions
  BY DEF Typed, TypeOK, Executions
<1>2. d \in Executions /\ d.pc = l /\ d.bind = ex[n].bind /\ d.box = ex[n].box
  BY <1>1, Goes
<1>3. Then(n, d) /\ Consistent(d)
  BY DEF Goto
<1> HIDE DEF d
<1> QED
  BY <1>2, <1>3, ThenType

\* The key that is set.
LEMMA SetKeyType == ASSUME Typed, NEW n \in Nodes, NEW k \in Keys, SetKey(n, k), ex[n].bind \in Binds
                    PROVE  /\ key' \in [Binds -> Keys]
                           /\ key'[ex[n].bind] = k
                           /\ \A x \in Binds \ {ex[n].bind} : key'[x] = key[x]
  BY DEF Typed, TypeOK, SetKey, BindId, Keys

LEMMA KeyTypes == /\ NoKey \in Keys /\ NoKey.box = NoBox
                  /\ \A b \in Boxes : [box |-> b, left |-> Lease] \in Keys
                  /\ \A k \in Keys : /\ Renewed(k) \in Keys /\ Renewed(k).box = k.box
                                     /\ Aged(k) \in Keys
                                     /\ k.left <= 1 => Aged(k) = NoKey
                                     /\ k.left > 1 => Aged(k).box = k.box /\ Aged(k).left = k.left - 1
  BY Numbers DEF NoKey, Keys, Lease, Renewed, Aged

-----------------------------------------------------------------------------
(* What each step of an execution does.                                    *)

\* Only n's execution changes, and well.
Only(n) == /\ ex' \in [Nodes -> Executions]
           /\ \A m \in Nodes : Consistent(ex'[m])
           /\ \A m \in Nodes \ {n} : ex'[m] = ex[m]

\* n's execution moves to l with what it has.
Keeps(n, l) == Only(n) /\ ex'[n].pc = l /\ ex'[n].bind = ex[n].bind /\ ex'[n].box = ex[n].box

Rested(n) == Only(n) /\ ex'[n] = Resting

\* Only n's key changes, to k.
Keyed(n, k) == /\ key' \in [Binds -> Keys]
               /\ key'[ex[n].bind] = k
               /\ \A x \in Binds \ {ex[n].bind} : key'[x] = key[x]

LEMMA Has == ASSUME Typed, NEW n \in Nodes
             PROVE  /\ ex[n] \in Executions /\ Consistent(ex[n])
                    /\ ex[n].pc \in PCs
                    /\ ex[n].bind \in Binds => key[ex[n].bind] \in Keys
  BY DEF Typed, TypeOK, Executions, Keys

LEMMA KeepsIf == ASSUME Typed, NEW n \in Nodes, NEW l \in PCs \ {"idle"}, Goto(n, l),
                        ex[n].pc # "idle",
                        l \in {"forget", "acquire"} => ex[n].box = NoBox,
                        l \notin {"forget", "acquire"} => ex[n].box \in Boxes
                 PROVE  Keeps(n, l)
<1> DEFINE d == [ex[n] EXCEPT !.pc = l]
<1>1. d.pc = l /\ d.bind = ex[n].bind /\ d.box = ex[n].box
  BY Has, Goes
<1>2. ex[n].bind \in Binds
  BY Has DEF Consistent
<1>3. Consistent(d)
  <2> HIDE DEF d
  <2> QED
    BY <1>1, <1>2 DEF Consistent, PCs
<1> QED
  BY <1>3, Moves DEF Keeps, Only

LEMMA RestedIf == ASSUME Typed, NEW n \in Nodes, Then(n, Resting) PROVE Rested(n)
  BY Rests, ThenType DEF Rested, Only

LEMMA FinallyDoes == ASSUME Typed, NEW n \in Nodes, NEW success, Finally(n, success),
                            ex[n].pc # "idle", ex[n].box \in Boxes
                     PROVE  Rested(n) \/ Keeps(n, "kill")
<1>1. Then(n, Resting) \/ Goto(n, "kill")
  BY DEF Finally
<1> QED
  BY <1>1, RestedIf, KeepsIf DEF PCs

LEMMA ExecuteDoes ==
    ASSUME Typed, NEW n \in Nodes, Execute(n)
    PROVE  /\ Only(n) /\ ex[n].pc = "idle"
           /\ ex'[n].bind \in Binds
           /\ ex'[n].box = key[ex'[n].bind].box
           /\ ex'[n].pc = IF ex'[n].box = NoBox THEN "acquire" ELSE "connect"
           /\ ~strayed' => ~strayed /\ \A m \in Nodes : ex[m].bind # ex'[n].bind
           /\ UNCHANGED <<pool, key, left, made, ran, mishaps>>
<1>1. PICK x \in Binds, final \in BOOLEAN : Execute(n)!3!(x, final)
  BY DEF Execute
<1> DEFINE b == key[x].box
           e == [pc |-> IF b = NoBox THEN "acquire" ELSE "connect",
                 bind |-> x, final |-> final, box |-> b, tries |-> 0]
<1>2. key[x] \in Keys /\ b \in Boxes \cup {NoBox}
  BY DEF Typed, TypeOK, Keys
<1>3. e \in Executions
  BY <1>2, Numbers DEF Executions, PCs
<1>4. Consistent(e)
  BY <1>2 DEF Consistent
<1>5. Then(n, e)
  BY <1>1 DEF BindId
<1>6. ~strayed' => ~strayed /\ \A m \in Nodes : ex[m].bind # x
  BY <1>1, Zenon
<1>7. e.pc = (IF e.box = NoBox THEN "acquire" ELSE "connect") /\ e.bind = x /\ e.box = key[x].box
  OBVIOUS
<1>8. ex[n].pc = "idle" /\ UNCHANGED <<pool, key, left, made, ran, mishaps>>
  BY DEF Execute
<1> HIDE DEF e, b
<1>9. Only(n) /\ ex'[n] = e
  BY <1>3, <1>4, <1>5, ThenType DEF Only
<1> QED
  BY <1>6, <1>7, <1>8, <1>9

LEMMA ConnectDoes ==
    ASSUME Typed, NEW n \in Nodes, Connect(n)
    PROVE  /\ ex[n].pc = "connect" /\ ex[n].bind \in Binds /\ ex[n].box \in Boxes
           /\ \/ /\ Keeps(n, "run")
                 /\ Keyed(n, Renewed(key[ex[n].bind]))
                 /\ left[ex[n].box] > 0
              \/ /\ Only(n)
                 /\ ex'[n].pc = "forget" /\ ex'[n].bind = ex[n].bind /\ ex'[n].box = NoBox
                 /\ left[ex[n].box] = 0 \/ mishaps' = mishaps + 1
                 /\ UNCHANGED key
           /\ UNCHANGED mishaps \/ Mishap("sandbox") \/ Mishap("redis")
           /\ UNCHANGED <<pool, left, made, ran, strayed>>
<1>1. ex[n].pc = "connect" /\ ex[n].bind \in Binds /\ ex[n].box \in Boxes
  BY Has DEF Connect, Consistent
<1>2. CASE Connect(n)!2!1
  <2>1. Keeps(n, "run")
    BY <1>1, <1>2, KeepsIf DEF PCs
  <2>2. Keyed(n, Renewed(key[ex[n].bind]))
    BY <1>1, <1>2, Has, KeyTypes, SetKeyType DEF Keyed, BindId
  <2> QED
    BY <1>1, <1>2, <2>1, <2>2 DEF Connect, warm, boxes
<1>3. CASE Connect(n)!2!2
  <2> DEFINE d == [ex[n] EXCEPT !.pc = "forget", !.box = NoBox]
  <2>0. "forget" \in PCs /\ ex[n] \in Executions /\ NoBox \in Boxes \cup {NoBox}
    BY Has DEF PCs
  <2>1. d \in Executions /\ d.pc = "forget" /\ d.bind = ex[n].bind /\ d.box = NoBox
    <3>1. d = [pc |-> "forget", bind |-> ex[n].bind, final |-> ex[n].final,
               box |-> NoBox, tries |-> ex[n].tries]
      BY <2>0, Gets, Zenon
    <3> HIDE DEF d
    <3> QED
      BY <2>0, <3>1 DEF Executions
  <2>2. Then(n, d)
    BY <1>3
  <2> HIDE DEF d
  <2>3. Consistent(d)
    BY <1>1, <2>1 DEF Consistent
  <2>4. Only(n) /\ ex'[n] = d
    BY <2>1, <2>2, <2>3, ThenType DEF Only
  <2> QED
    BY <1>1, <1>3, <2>1, <2>4 DEF Connect, warm, boxes, Mishap
<1> QED
  BY <1>2, <1>3 DEF Connect

LEMMA ForgetDoes ==
    ASSUME Typed, NEW n \in Nodes, Forget(n)
    PROVE  /\ ex[n].pc = "forget" /\ ex[n].bind \in Binds /\ ex[n].box = NoBox
           /\ \/ Keeps(n, "acquire") /\ Keyed(n, NoKey) /\ UNCHANGED mishaps
              \/ Rested(n) /\ Mishap("redis") /\ (Keyed(n, NoKey) \/ UNCHANGED key)
           /\ UNCHANGED <<pool, left, made, ran, strayed>>
<1>1. ex[n].pc = "forget" /\ ex[n].bind \in Binds /\ ex[n].box = NoBox
  BY Has DEF Forget, Consistent
<1>2. SetKey(n, NoKey) => Keyed(n, NoKey)
  BY <1>1, KeyTypes, SetKeyType DEF Keyed
<1>3. Goto(n, "acquire") => Keeps(n, "acquire")
  BY <1>1, KeepsIf DEF PCs
<1> QED
  BY <1>1, <1>2, <1>3, RestedIf DEF Forget, warm, boxes

LEMMA AcquireDoes ==
    ASSUME Typed, NEW n \in Nodes, Acquire(n)
    PROVE  /\ ex[n].pc = "acquire" /\ ex[n].bind \in Binds /\ Only(n)
           /\ \E b \in pool[n] :
                  /\ pool' = [pool EXCEPT ![n] = @ \ {b}]
                  /\ ex'[n].pc = "bind" /\ ex'[n].bind = ex[n].bind /\ ex'[n].box = b
           /\ UNCHANGED <<key, left, made, ran, strayed, mishaps>>
<1>1. ex[n].pc = "acquire" /\ ex[n].bind \in Binds
  BY Has DEF Acquire, Consistent
<1>2. PICK b \in pool[n] : Acquire(n)!2!(b)
  BY DEF Acquire
<1> DEFINE f == [ex[n] EXCEPT !.pc = "bind", !.box = b]
           d == [ex[n] EXCEPT !.pc = "bind", !.box = b, !.tries = 0]
<1>3. b \in Boxes
  BY DEF Typed, TypeOK
<1>4. f \in Executions /\ f.pc = "bind" /\ f.bind = ex[n].bind /\ f.box = b
  <2>1. "bind" \in PCs /\ ex[n] \in Executions /\ b \in Boxes \cup {NoBox}
    BY <1>3, Has DEF PCs
  <2>2. f = [pc |-> "bind", bind |-> ex[n].bind, final |-> ex[n].final,
             box |-> b, tries |-> ex[n].tries]
    BY <2>1, Gets, Zenon
  <2> HIDE DEF f
  <2> QED
    BY <2>1, <2>2 DEF Executions
<1>5. d = [f EXCEPT !.tries = 0]
  OBVIOUS
<1>6. Then(n, d)
  BY <1>2
<1> HIDE DEF d, f
<1>7. d \in Executions /\ d.pc = "bind" /\ d.bind = ex[n].bind /\ d.box = b
  BY <1>4, <1>5, Tries, Numbers
<1>8. Consistent(d)
  BY <1>1, <1>3, <1>7 DEF Consistent
<1>9. Only(n) /\ ex'[n] = d
  BY <1>6, <1>7, <1>8, ThenType DEF Only
<1>10. UNCHANGED <<key, left, made, ran, strayed, mishaps>>
  BY DEF Acquire, boxes
<1> QED
  BY <1>1, <1>2, <1>7, <1>9, <1>10

LEMMA WaitDoes ==
    ASSUME Typed, NEW n \in Nodes, Wait(n)
    PROVE  ex[n].pc = "acquire" /\ Keeps(n, "acquire") /\ UNCHANGED <<pool, key, boxes, strayed, mishaps>>
<1>1. ex[n].pc = "acquire" /\ ex[n].bind \in Binds /\ ex[n].box = NoBox
  BY Has DEF Wait, Consistent
<1> DEFINE d == [ex[n] EXCEPT !.tries = Tried(ex[n].tries)]
<1>2. Tried(ex[n].tries) \in 0 .. MaxTries
  BY Has DEF Wait, Tried, Executions
<1>3. d \in Executions /\ d.pc = "acquire" /\ d.bind = ex[n].bind /\ d.box = ex[n].box
  BY <1>1, <1>2, Has, Tries
<1>4. Then(n, d)
  BY DEF Wait
<1> HIDE DEF d
<1>5. Consistent(d)
  BY <1>1, <1>3 DEF Consistent
<1> QED
  BY <1>1, <1>3, <1>4, <1>5, ThenType DEF Wait, warm, Keeps, Only

LEMMA GiveUpDoes ==
    ASSUME Typed, NEW n \in Nodes, GiveUp(n)
    PROVE  /\ ex[n].pc = "acquire" /\ ex[n].box = NoBox /\ Rested(n)
           /\ UNCHANGED mishaps \/ Mishap("sandbox")
           /\ UNCHANGED <<pool, key, boxes, strayed>>
  BY Has, RestedIf DEF GiveUp, Consistent, warm

LEMMA BindDoes ==
    ASSUME Typed, NEW n \in Nodes, Bind(n)
    PROVE  /\ ex[n].pc = "bind" /\ ex[n].bind \in Binds /\ ex[n].box \in Boxes
           /\ \/ /\ Keeps(n, "run") /\ Keyed(n, [box |-> ex[n].box, left |-> Lease])
                 /\ UNCHANGED mishaps
              \/ /\ Rested(n) \/ Keeps(n, "kill")
                 /\ Keyed(n, [box |-> ex[n].box, left |-> Lease]) \/ UNCHANGED key
                 /\ Mishap("redis")
           /\ UNCHANGED <<pool, left, made, ran, strayed>>
<1> DEFINE k == [box |-> ex[n].box, left |-> Lease]
<1>1. ex[n].pc = "bind" /\ ex[n].bind \in Binds /\ ex[n].box \in Boxes
  BY Has DEF Bind, Consistent
<1>2. SetKey(n, k) => Keyed(n, k)
  BY <1>1, KeyTypes, SetKeyType DEF Keyed
<1>3. Goto(n, "run") => Keeps(n, "run")
  BY <1>1, KeepsIf DEF PCs
<1>4. Finally(n, FALSE) => Rested(n) \/ Keeps(n, "kill")
  BY <1>1, FinallyDoes
<1> HIDE DEF k
<1>5. /\ \/ SetKey(n, k) /\ Goto(n, "run") /\ UNCHANGED mishaps
         \/ Mishap("redis") /\ (SetKey(n, k) \/ UNCHANGED key) /\ Finally(n, FALSE)
      /\ UNCHANGED <<pool, left, made, ran, strayed>>
  BY DEF Bind, warm, boxes, k
<1>6. /\ \/ Keeps(n, "run") /\ Keyed(n, k) /\ UNCHANGED mishaps
         \/ (Rested(n) \/ Keeps(n, "kill")) /\ (Keyed(n, k) \/ UNCHANGED key) /\ Mishap("redis")
      /\ UNCHANGED <<pool, left, made, ran, strayed>>
  BY <1>2, <1>3, <1>4, <1>5
<1> QED
  BY <1>1, <1>6 DEF k

LEMMA RunDoes ==
    ASSUME Typed, NEW n \in Nodes, Run(n)
    PROVE  /\ ex[n].pc = "run" /\ ex[n].bind \in Binds /\ ex[n].box \in Boxes
           /\ Rested(n) \/ Keeps(n, "kill")
           /\ ran' = [ran EXCEPT ![ex[n].box] = @ \cup {ex[n].bind}]
           /\ UNCHANGED <<pool, key, left, made, strayed, mishaps>>
<1>1. ex[n].pc = "run" /\ ex[n].bind \in Binds /\ ex[n].box \in Boxes
  BY Has DEF Run, Consistent
<1> QED
  BY <1>1, FinallyDoes DEF Run, warm

LEMMA LostDoes ==
    ASSUME Typed, NEW n \in Nodes, Lost(n)
    PROVE  /\ ex[n].pc = "run" /\ ex[n].bind \in Binds /\ ex[n].box \in Boxes
           /\ left[ex[n].box] = 0
           /\ Rested(n) \/ Keeps(n, "kill")
           /\ UNCHANGED <<pool, key, boxes, strayed, mishaps>>
<1>1. ex[n].pc = "run" /\ ex[n].bind \in Binds /\ ex[n].box \in Boxes
  BY Has DEF Lost, Consistent
<1> QED
  BY <1>1, FinallyDoes DEF Lost, warm

LEMMA KillDoes ==
    ASSUME Typed, NEW n \in Nodes, Kill(n)
    PROVE  /\ ex[n].pc = "kill" /\ ex[n].bind \in Binds /\ ex[n].box \in Boxes
           /\ \/ Ended({ex[n].box}) /\ Keeps(n, "unbind") /\ UNCHANGED mishaps
              \/ /\ Mishap("sandbox") \/ (left[ex[n].box] = 0 /\ UNCHANGED mishaps)
                 /\ Rested(n) /\ UNCHANGED <<left, ran>>
           /\ UNCHANGED <<pool, key, made, strayed>>
<1>1. ex[n].pc = "kill" /\ ex[n].bind \in Binds /\ ex[n].box \in Boxes
  BY Has DEF Kill, Consistent
<1>2. Goto(n, "unbind") => Keeps(n, "unbind")
  BY <1>1, KeepsIf DEF PCs
<1> QED
  BY <1>1, <1>2, RestedIf DEF Kill, warm

LEMMA UnbindDoes ==
    ASSUME Typed, NEW n \in Nodes, Unbind(n)
    PROVE  /\ ex[n].pc = "unbind" /\ ex[n].bind \in Binds /\ ex[n].box \in Boxes
           /\ Rested(n)
           /\ \/ Keyed(n, NoKey) /\ UNCHANGED mishaps
              \/ Mishap("redis") /\ UNCHANGED key
           /\ UNCHANGED <<pool, boxes, strayed>>
<1>1. ex[n].pc = "unbind" /\ ex[n].bind \in Binds /\ ex[n].box \in Boxes
  BY Has DEF Unbind, Consistent
<1>2. SetKey(n, NoKey) => Keyed(n, NoKey)
  BY <1>1, KeyTypes, SetKeyType DEF Keyed
<1> QED
  BY <1>1, <1>2, RestedIf DEF Unbind, warm

-----------------------------------------------------------------------------
(* Type correctness.                                                       *)

\* The life of a process, whatever the step.
LEMMA LifeType == ASSUME Typed, [Next]_vars
                  PROVE  life' \in [Nodes -> {"closed", "open", "stopped"}]
<1>1. life \in [Nodes -> {"closed", "open", "stopped"}]
  BY DEF Typed, TypeOK
<1>2. ASSUME NEW n \in Nodes, Start(n) \/ Stop(n) \/ Crash(n) \/ Execute(n)
      PROVE  life' \in [Nodes -> {"closed", "open", "stopped"}]
  BY <1>1, <1>2 DEF Start, Stop, Crash, Execute, Open
<1>3. ASSUME NEW n \in Nodes, Refill(n) \/ Run(n) \/ Step(n)
      PROVE  UNCHANGED life
  BY <1>3 DEF Refill, Run, Step, Connect, Forget, Acquire, Wait, GiveUp, Bind, Lost, Kill,
              Unbind, warm
<1>4. Tick \/ UNCHANGED vars => UNCHANGED life
  BY DEF Tick, vars, warm
<1> QED
  BY <1>1, <1>2, <1>3, <1>4 DEF Next

LEMMA MishapType == ASSUME Typed, UNCHANGED mishaps \/ \E k \in MishapKinds : Mishap(k)
                    PROVE  mishaps' \in 0 .. MaxMishaps
  BY DEF Typed, TypeOK, Mishap

LEMMA EndedType == ASSUME Typed, NEW bs, Ended(bs)
                   PROVE  left' \in [Boxes -> 0 .. SandboxTTL] /\ ran' \in [Boxes -> SUBSET Binds]
  BY DEF Typed, TypeOK, Ended

\* What is typed without more ado.
LEMMA TypesIf ==
    ASSUME Typed,
           life' \in [Nodes -> {"closed", "open", "stopped"}],
           pool' \in [Nodes -> SUBSET Boxes],
           ex' \in [Nodes -> Executions], \A m \in Nodes : Consistent(ex'[m]),
           key' \in [Binds -> Keys],
           left' \in [Boxes -> 0 .. SandboxTTL],
           made' \in 0 .. MaxBoxes,
           ran' \in [Boxes -> SUBSET Binds],
           strayed' \in BOOLEAN,
           mishaps' \in 0 .. MaxMishaps
    PROVE  Typed'
  BY DEF Typed, TypeOK, Executions, Keys

LEMMA Before == ASSUME Typed
                PROVE  /\ pool \in [Nodes -> SUBSET Boxes]
                       /\ ex \in [Nodes -> Executions] /\ \A m \in Nodes : Consistent(ex[m])
                       /\ key \in [Binds -> Keys]
                       /\ left \in [Boxes -> 0 .. SandboxTTL]
                       /\ made \in 0 .. MaxBoxes
                       /\ ran \in [Boxes -> SUBSET Binds]
                       /\ strayed \in BOOLEAN
                       /\ mishaps \in 0 .. MaxMishaps
  BY DEF Typed, TypeOK, Executions, Keys

LEMMA TypedInit == Init => Typed
<1> SUFFICES ASSUME Init PROVE Typed
  OBVIOUS
<1>1. ex \in [Nodes -> Executions] /\ \A n \in Nodes : Consistent(ex[n])
  BY Rests DEF Init
<1>2. key \in [Binds -> Keys]
  BY KeyTypes DEF Init
<1>3. life \in [Nodes -> {"closed", "open", "stopped"}] /\ pool \in [Nodes -> SUBSET Boxes]
  BY DEF Init
<1>4. left \in [Boxes -> 0 .. SandboxTTL] /\ made \in 0 .. MaxBoxes /\ mishaps \in 0 .. MaxMishaps
  BY DEF Init
<1>5. ran \in [Boxes -> SUBSET Binds] /\ strayed \in BOOLEAN
  BY DEF Init
<1> QED
  BY <1>1, <1>2, <1>3, <1>4, <1>5 DEF Typed, TypeOK, Executions, Keys

\* A step that changes the execution of one process, and perhaps its key.
LEMMA TypedStepOfOne ==
    ASSUME Typed, NEW n \in Nodes, [Next]_vars, Step(n)
    PROVE  Typed'
<1> USE Before, LifeType
<1>1. CASE Connect(n)
  <2>1. key' \in [Binds -> Keys] /\ Only(n)
    BY <1>1, ConnectDoes DEF Keyed, Keeps
  <2>2. mishaps' \in 0 .. MaxMishaps
    BY <1>1, ConnectDoes, MishapType DEF MishapKinds
  <2> QED
    BY <1>1, <2>1, <2>2, ConnectDoes, TypesIf DEF Only
<1>2. CASE Forget(n)
  <2>1. key' \in [Binds -> Keys] /\ Only(n)
    BY <1>2, ForgetDoes DEF Keyed, Keeps, Rested
  <2>2. mishaps' \in 0 .. MaxMishaps
    BY <1>2, ForgetDoes, MishapType DEF MishapKinds
  <2> QED
    BY <1>2, <2>1, <2>2, ForgetDoes, TypesIf DEF Only
<1>3. CASE Acquire(n)
  <2>1. pool' \in [Nodes -> SUBSET Boxes]
    BY <1>3, AcquireDoes
  <2> QED
    BY <1>3, <2>1, AcquireDoes, TypesIf DEF Only
<1>4. CASE Wait(n)
  BY <1>4, WaitDoes, TypesIf DEF Only, Keeps, boxes
<1>5. CASE GiveUp(n)
  <2>1. mishaps' \in 0 .. MaxMishaps
    BY <1>5, GiveUpDoes, MishapType DEF MishapKinds
  <2> QED
    BY <1>5, <2>1, GiveUpDoes, TypesIf DEF Only, Rested, boxes
<1>6. CASE Bind(n)
  <2>1. key' \in [Binds -> Keys] /\ Only(n)
    BY <1>6, BindDoes DEF Keyed, Keeps, Rested
  <2>2. mishaps' \in 0 .. MaxMishaps
    BY <1>6, BindDoes, MishapType DEF MishapKinds
  <2> QED
    BY <1>6, <2>1, <2>2, BindDoes, TypesIf DEF Only
<1>7. CASE Lost(n)
  BY <1>7, LostDoes, TypesIf DEF Only, Rested, Keeps, boxes
<1>8. CASE Kill(n)
  <2>1. Only(n)
    BY <1>8, KillDoes DEF Keeps, Rested
  <2>2. mishaps' \in 0 .. MaxMishaps
    BY <1>8, KillDoes, MishapType DEF MishapKinds
  <2>3. left' \in [Boxes -> 0 .. SandboxTTL] /\ ran' \in [Boxes -> SUBSET Binds]
    BY <1>8, KillDoes, EndedType
  <2> QED
    BY <1>8, <2>1, <2>2, <2>3, KillDoes, TypesIf DEF Only
<1>9. CASE Unbind(n)
  <2>1. key' \in [Binds -> Keys] /\ Only(n)
    BY <1>9, UnbindDoes DEF Keyed, Rested
  <2>2. mishaps' \in 0 .. MaxMishaps
    BY <1>9, UnbindDoes, MishapType DEF MishapKinds
  <2> QED
    BY <1>9, <2>1, <2>2, UnbindDoes, TypesIf DEF Only, boxes
<1> QED
  BY <1>1, <1>2, <1>3, <1>4, <1>5, <1>6, <1>7, <1>8, <1>9 DEF Step

LEMMA TypedStep == Typed /\ [Next]_vars => Typed'
<1> SUFFICES ASSUME Typed, [Next]_vars PROVE Typed'
  OBVIOUS
<1> USE Before, LifeType
<1>1. CASE UNCHANGED vars
  BY <1>1, TypesIf DEF vars, warm, boxes
<1>2. CASE Tick
  <2>1. left' \in [Boxes -> 0 .. SandboxTTL]
    BY <1>2 DEF Tick
  <2>2. ran' \in [Boxes -> SUBSET Binds]
    BY <1>2 DEF Tick
  <2>3. key' \in [Binds -> Keys]
    BY <1>2, KeyTypes DEF Tick
  <2> QED
    BY <1>2, <2>1, <2>2, <2>3, TypesIf DEF Tick, warm
<1>3. ASSUME NEW n \in Nodes, Start(n) PROVE Typed'
  BY <1>3, TypesIf DEF Start, boxes
<1>4. ASSUME NEW n \in Nodes, Stop(n) PROVE Typed'
  <2>1. left' \in [Boxes -> 0 .. SandboxTTL] /\ ran' \in [Boxes -> SUBSET Binds]
    BY <1>4, EndedType DEF Stop
  <2>2. pool' \in [Nodes -> SUBSET Boxes]
    BY <1>4 DEF Stop
  <2> QED
    BY <1>4, <2>1, <2>2, TypesIf DEF Stop
<1>5. ASSUME NEW n \in Nodes, Crash(n) PROVE Typed'
  <2>1. Only(n)
    BY <1>5, RestedIf DEF Crash, Rested
  <2>2. pool' \in [Nodes -> SUBSET Boxes]
    BY <1>5 DEF Crash
  <2>3. mishaps' \in 0 .. MaxMishaps
    BY <1>5, MishapType DEF Crash, MishapKinds
  <2> QED
    BY <1>5, <2>1, <2>2, <2>3, TypesIf DEF Crash, boxes, Only
<1>6. ASSUME NEW n \in Nodes, Refill(n) PROVE Typed'
  <2>1. made' \in 0 .. MaxBoxes /\ made' \in Boxes
    BY <1>6 DEF Refill, Boxes
  <2>2. pool' \in [Nodes -> SUBSET Boxes] /\ left' \in [Boxes -> 0 .. SandboxTTL]
    BY <1>6, <2>1, Numbers DEF Refill
  <2> QED
    BY <1>6, <2>1, <2>2, TypesIf DEF Refill
<1>7. ASSUME NEW n \in Nodes, Execute(n) PROVE Typed'
  <2>1. strayed' \in BOOLEAN
    BY <1>7, Zenon DEF Execute
  <2> QED
    BY <1>7, <2>1, ExecuteDoes, TypesIf DEF Only
<1>8. ASSUME NEW n \in Nodes, Run(n) PROVE Typed'
  <2>1. ran' \in [Boxes -> SUBSET Binds] /\ Only(n)
    BY <1>8, RunDoes DEF Rested, Keeps
  <2> QED
    BY <1>8, <2>1, RunDoes, TypesIf DEF Only
<1> QED
  BY <1>1, <1>2, <1>3, <1>4, <1>5, <1>6, <1>7, <1>8, TypedStepOfOne DEF Next

LEMMA AlwaysTyped == Spec => []Typed
  BY TypedInit, TypedStep, PTL DEF Spec

\* Every variable keeps its type: no attempt is counted past the last, no lease is
\* longer than it was given, no container is numbered past those created.
THEOREM TypeCorrect == Spec => []TypeOK
<1>1. Typed => TypeOK
  BY DEF Typed
<1> QED
  BY <1>1, AlwaysTyped, PTL

-----------------------------------------------------------------------------
(* Isolation.  What names a container - a key, an execution, the code that *)
(* has run in it - names it for one bind; and a container is named by      *)
(* nothing as long as it is idle in a pool, or is not created yet.         *)

Claims(x, b) == \/ key[x].box = b
                \/ \E n \in Nodes : ex[n].bind = x /\ ex[n].box = b
                \/ x \in ran[b]

Sole == \A b \in Boxes : \A x, y \in Binds : Claims(x, b) /\ Claims(y, b) => x = y
Created == \A x \in Binds, b \in Boxes : Claims(x, b) => b <= made
PoolFree == \A n \in Nodes : \A b \in pool[n] : b <= made /\ \A x \in Binds : ~Claims(x, b)
PoolsApart == \A m, n \in Nodes : m # n => pool[m] \cap pool[n] = {}

Claimed == Sole /\ Created /\ PoolFree /\ PoolsApart

\* A step that names no container anew, and adds none to a pool.
Less == /\ \A x \in Binds, b \in Boxes : Claims(x, b)' => Claims(x, b)
        /\ \A n \in Nodes : pool'[n] \subseteq pool[n]
        /\ made' = made

LEMMA ClaimedIfLess == ASSUME Typed, Claimed, Less PROVE Claimed'
<1>1. Sole'
  BY DEF Claimed, Less, Sole
<1>2. Created'
  BY DEF Claimed, Less, Created
<1>3. PoolFree'
  <2> SUFFICES ASSUME NEW n \in Nodes, NEW b \in pool'[n]
               PROVE  b <= made' /\ \A x \in Binds : ~Claims(x, b)'
    BY DEF PoolFree
  <2>1. b \in pool[n] /\ b \in Boxes
    BY DEF Less, Typed, TypeOK
  <2> QED
    BY <2>1 DEF Claimed, Less, PoolFree
<1>4. PoolsApart'
  BY DEF Claimed, Less, PoolsApart
<1> QED
  BY <1>1, <1>2, <1>3, <1>4 DEF Claimed

\* Claims do not grow where the keys, the executions and the histories name
\* no container that they did not name.
LEMMA LessIf ==
    ASSUME \A x \in Binds, b \in Boxes : key'[x].box = b => Claims(x, b),
           \A n \in Nodes, x \in Binds, b \in Boxes :
               ex'[n].bind = x /\ ex'[n].box = b => Claims(x, b),
           \A b \in Boxes, x \in Binds : x \in ran'[b] => Claims(x, b),
           \A n \in Nodes : pool'[n] \subseteq pool[n],
           made' = made
    PROVE  Less
<1> SUFFICES ASSUME NEW x \in Binds, NEW b \in Boxes, Claims(x, b)' PROVE Claims(x, b)
  BY DEF Less
<1>1. CASE key'[x].box = b
  BY <1>1
<1>2. CASE \E n \in Nodes : ex'[n].bind = x /\ ex'[n].box = b
  BY <1>2
<1>3. CASE x \in ran'[b]
  BY <1>3
<1> QED
  BY <1>1, <1>2, <1>3 DEF Claims

\* What is named already.
LEMMA Named == /\ \A x \in Binds, b \in Boxes : key[x].box = b => Claims(x, b)
               /\ \A n \in Nodes, x \in Binds, b \in Boxes :
                      ex[n].bind = x /\ ex[n].box = b => Claims(x, b)
               /\ \A b \in Boxes, x \in Binds : x \in ran[b] => Claims(x, b)
  BY DEF Claims

\* The execution of n keeps its container or loses it.
LEMMA ExNamed == ASSUME Typed, NEW n \in Nodes, NEW l, Keeps(n, l) \/ Rested(n)
                 PROVE  \A m \in Nodes, x \in Binds, b \in Boxes :
                            ex'[m].bind = x /\ ex'[m].box = b => Claims(x, b)
<1> SUFFICES ASSUME NEW m \in Nodes, NEW x \in Binds, NEW b \in Boxes,
                    ex'[m].bind = x, ex'[m].box = b
             PROVE  Claims(x, b)
  OBVIOUS
<1>1. ex[m].bind = x /\ ex[m].box = b
  BY Numbers DEF Keeps, Rested, Only, Resting
<1> QED
  BY <1>1, Named

\* A key is dropped, renewed, or set to the container its execution has.
LEMMA KeyNamed == ASSUME Typed, NEW n \in Nodes, NEW k \in Keys,
                         ex[n].bind \in Binds,
                         k.box \in {NoBox, key[ex[n].bind].box, ex[n].box},
                         Keyed(n, k) \/ UNCHANGED key
                  PROVE  \A x \in Binds, b \in Boxes : key'[x].box = b => Claims(x, b)
<1> SUFFICES ASSUME NEW x \in Binds, NEW b \in Boxes, key'[x].box = b PROVE Claims(x, b)
  OBVIOUS
<1>1. CASE key'[x] = key[x]
  BY <1>1, Named
<1>2. CASE x = ex[n].bind /\ key'[x] = k
  BY <1>2, Named, Numbers
<1> QED
  BY <1>1, <1>2 DEF Keyed

LEMMA EndedNamed == ASSUME Typed, NEW bs, Ended(bs)
                    PROVE  \A b \in Boxes, x \in Binds : x \in ran'[b] => Claims(x, b)
  BY Named DEF Ended

LEMMA LessOfOne ==
    ASSUME Typed, NEW n \in Nodes, Step(n), ~Acquire(n)
    PROVE  Less
<1> USE Named
<1>0. \A m \in Nodes : pool'[m] \subseteq pool[m]
  BY DEF Step, Connect, Forget, Wait, GiveUp, Bind, Lost, Kill, Unbind, warm
<1>1. CASE Connect(n)
  <2>1. \A m \in Nodes, x \in Binds, b \in Boxes :
            ex'[m].bind = x /\ ex'[m].box = b => Claims(x, b)
    <3>1. CASE Keeps(n, "run")
      BY <3>1, ExNamed
    <3>2. CASE Only(n) /\ ex'[n].box = NoBox
      BY <3>2, Numbers DEF Only
    <3> QED
      BY <1>1, <3>1, <3>2, ConnectDoes
  <2>2. \A x \in Binds, b \in Boxes : key'[x].box = b => Claims(x, b)
    <3>1. ex[n].bind \in Binds /\ key[ex[n].bind] \in Keys
      BY <1>1, ConnectDoes, Has
    <3>2. /\ Renewed(key[ex[n].bind]) \in Keys
          /\ Renewed(key[ex[n].bind]).box = key[ex[n].bind].box
      BY <3>1, KeyTypes
    <3>3. Keyed(n, Renewed(key[ex[n].bind])) \/ UNCHANGED key
      BY <1>1, ConnectDoes
    <3> QED
      BY <3>1, <3>2, <3>3, KeyNamed
  <2> QED
    BY <1>0, <1>1, <2>1, <2>2, ConnectDoes, LessIf
<1>2. CASE Forget(n)
  <2>1. Keeps(n, "acquire") \/ Rested(n)
    BY <1>2, ForgetDoes
  <2>2. ex[n].bind \in Binds /\ (Keyed(n, NoKey) \/ UNCHANGED key)
    BY <1>2, ForgetDoes
  <2> QED
    BY <1>0, <1>2, <2>1, <2>2, ExNamed, KeyNamed, KeyTypes, ForgetDoes, LessIf
<1>4. CASE Wait(n)
  BY <1>0, <1>4, WaitDoes, ExNamed, LessIf DEF boxes
<1>5. CASE GiveUp(n)
  BY <1>0, <1>5, GiveUpDoes, ExNamed, LessIf DEF boxes
<1>6. CASE Bind(n)
  <2> DEFINE k == [box |-> ex[n].box, left |-> Lease]
  <2>1. ex[n].bind \in Binds /\ k \in Keys /\ k.box = ex[n].box
    BY <1>6, BindDoes, KeyTypes
  <2>2. Keyed(n, k) \/ UNCHANGED key
    BY <1>6, BindDoes
  <2> HIDE DEF k
  <2>3. \A x \in Binds, b \in Boxes : key'[x].box = b => Claims(x, b)
    BY <2>1, <2>2, KeyNamed
  <2>4. \/ Keeps(n, "run") \/ Rested(n)
        \/ Keeps(n, "kill") \/ Rested(n)
    BY <1>6, BindDoes
  <2>5. \A m \in Nodes, x \in Binds, b \in Boxes :
            ex'[m].bind = x /\ ex'[m].box = b => Claims(x, b)
    BY <2>4, ExNamed
  <2> QED
    BY <1>0, <1>6, <2>3, <2>5, BindDoes, LessIf
<1>7. CASE Lost(n)
  BY <1>0, <1>7, LostDoes, ExNamed, LessIf DEF boxes
<1>8. CASE Kill(n)
  <2>1. Keeps(n, "unbind") \/ Rested(n)
    BY <1>8, KillDoes
  <2>2. Ended({ex[n].box}) \/ UNCHANGED ran
    BY <1>8, KillDoes
  <2>3. \A b \in Boxes, x \in Binds : x \in ran'[b] => Claims(x, b)
    BY <2>2, EndedNamed
  <2> QED
    BY <1>0, <1>8, <2>1, <2>3, ExNamed, KillDoes, LessIf
<1>9. CASE Unbind(n)
  <2>1. ex[n].bind \in Binds /\ (Keyed(n, NoKey) \/ UNCHANGED key)
    BY <1>9, UnbindDoes
  <2> QED
    BY <1>0, <1>9, <2>1, ExNamed, KeyNamed, KeyTypes, UnbindDoes, LessIf DEF boxes
<1> QED
  BY <1>1, <1>2, <1>4, <1>5, <1>6, <1>7, <1>8, <1>9 DEF Step

LEMMA ClaimedAcquire == ASSUME Typed, Claimed, NEW n \in Nodes, Acquire(n) PROVE Claimed'
<1>1. PICK c \in pool[n] : /\ pool' = [pool EXCEPT ![n] = @ \ {c}]
                           /\ ex'[n].bind = ex[n].bind /\ ex'[n].box = c
  BY AcquireDoes
<1>2. Only(n) /\ UNCHANGED <<key, ran, made>> /\ ex[n].bind \in Binds
  BY AcquireDoes
<1>3. c \in Boxes /\ c <= made /\ \A x \in Binds : ~Claims(x, c)
  BY DEF Typed, TypeOK, Claimed, PoolFree
<1>4. \A x \in Binds, b \in Boxes : Claims(x, b)' => Claims(x, b) \/ (x = ex[n].bind /\ b = c)
  <2> SUFFICES ASSUME NEW x \in Binds, NEW b \in Boxes, Claims(x, b)',
                      ~(x = ex[n].bind /\ b = c)
               PROVE  Claims(x, b)
    OBVIOUS
  <2>1. ASSUME NEW m \in Nodes, ex'[m].bind = x, ex'[m].box = b
        PROVE  Claims(x, b)
    BY <1>1, <1>2, <2>1, Named DEF Only
  <2> QED
    BY <1>2, <2>1, Named DEF Claims
<1>5. \A m \in Nodes : pool'[m] \subseteq pool[m] /\ c \notin pool'[m]
  BY <1>1 DEF Claimed, PoolsApart, Typed, TypeOK
<1>6. Sole'
  BY <1>3, <1>4 DEF Claimed, Sole
<1>7. Created'
  BY <1>2, <1>3, <1>4 DEF Claimed, Created
<1>8. PoolFree'
  <2> SUFFICES ASSUME NEW m \in Nodes, NEW b \in pool'[m]
               PROVE  b <= made' /\ \A x \in Binds : ~Claims(x, b)'
    BY DEF PoolFree
  <2>1. b \in pool[m] /\ b \in Boxes /\ b # c
    BY <1>5 DEF Typed, TypeOK
  <2> QED
    BY <1>2, <1>4, <2>1 DEF Claimed, PoolFree
<1>9. PoolsApart'
  BY <1>5 DEF Claimed, PoolsApart
<1> QED
  BY <1>6, <1>7, <1>8, <1>9 DEF Claimed

LEMMA ClaimedRefill == ASSUME Typed, Claimed, NEW n \in Nodes, Refill(n) PROVE Claimed'
<1>1. /\ made' = made + 1 /\ made' \in Boxes /\ made \in Nat
      /\ pool' = [pool EXCEPT ![n] = @ \cup {made'}]
      /\ UNCHANGED <<ex, key, ran>>
  BY DEF Refill, Typed, TypeOK, Boxes
<1>2. \A x \in Binds, b \in Boxes : Claims(x, b)' <=> Claims(x, b)
  BY <1>1 DEF Claims
<1>3. \A b \in Boxes : b \in Nat
  BY Numbers
<1>4. Sole'
  BY <1>2 DEF Claimed, Sole
<1>5. Created'
  BY <1>1, <1>2, <1>3 DEF Claimed, Created
<1>6. \A x \in Binds : ~Claims(x, made')
  BY <1>1, <1>3 DEF Claimed, Created
<1>7. PoolFree'
  <2> SUFFICES ASSUME NEW m \in Nodes, NEW b \in pool'[m]
               PROVE  b <= made' /\ \A x \in Binds : ~Claims(x, b)'
    BY DEF PoolFree
  <2>1. b \in pool[m] \/ b = made'
    BY <1>1 DEF Typed, TypeOK
  <2>2. CASE b \in pool[m]
    <3>1. b \in Boxes
      BY <2>2 DEF Typed, TypeOK
    <3>2. b <= made /\ \A x \in Binds : ~Claims(x, b)
      BY <2>2 DEF Claimed, PoolFree
    <3> QED
      BY <1>1, <1>2, <1>3, <3>1, <3>2
  <2>3. CASE b = made'
    BY <1>1, <1>2, <1>6, <2>3
  <2> QED
    BY <2>1, <2>2, <2>3
<1>8. \A m \in Nodes : made' \notin pool[m]
  BY <1>1, <1>3 DEF Claimed, PoolFree
<1>9. PoolsApart'
  <2> SUFFICES ASSUME NEW m \in Nodes, NEW k \in Nodes, m # k
               PROVE  pool'[m] \cap pool'[k] = {}
    BY DEF PoolsApart
  <2>1. pool[m] \cap pool[k] = {} /\ made' \notin pool[m] /\ made' \notin pool[k]
    BY <1>8 DEF Claimed, PoolsApart
  <2>2. pool'[m] = pool[m] \/ (m = n /\ pool'[m] = pool[m] \cup {made'})
    BY <1>1 DEF Typed, TypeOK
  <2>3. pool'[k] = pool[k] \/ (k = n /\ pool'[k] = pool[k] \cup {made'})
    BY <1>1 DEF Typed, TypeOK
  <2> QED
    BY <2>1, <2>2, <2>3
<1> QED
  BY <1>4, <1>5, <1>7, <1>9 DEF Claimed

LEMMA ClaimedInit == Init => Claimed
<1> SUFFICES ASSUME Init PROVE Claimed
  OBVIOUS
<1>1. \A x \in Binds, b \in Boxes : ~Claims(x, b)
  BY Numbers DEF Init, Claims, NoKey, Resting
<1>2. \A n \in Nodes : pool[n] = {}
  BY DEF Init
<1> QED
  BY <1>1, <1>2 DEF Claimed, Sole, Created, PoolFree, PoolsApart

LEMMA ClaimedStep == Typed /\ Claimed /\ [Next]_vars => Claimed'
<1> SUFFICES ASSUME Typed, Claimed, [Next]_vars PROVE Claimed'
  OBVIOUS
<1> USE Named
<1>1. CASE UNCHANGED vars
  BY <1>1, LessIf, ClaimedIfLess DEF vars, warm, boxes
<1>2. CASE Tick
  <2>1. \A x \in Binds, b \in Boxes : key'[x].box = b => Claims(x, b)
    <3> SUFFICES ASSUME NEW x \in Binds, NEW b \in Boxes, key'[x].box = b PROVE key[x].box = b
      OBVIOUS
    <3>1. key[x] \in Keys /\ key'[x] = Aged(key[x])
      BY <1>2, Before DEF Tick
    <3>2. key[x].left \in Nat
      BY <3>1 DEF Keys
    <3>3. ~(key[x].left <= 1)
      BY <3>1, KeyTypes, Numbers
    <3> QED
      BY <3>1, <3>2, <3>3, KeyTypes
  <2>2. \A b \in Boxes, x \in Binds : x \in ran'[b] => x \in ran[b]
    BY <1>2 DEF Tick
  <2> QED
    BY <1>2, <2>1, <2>2, LessIf, ClaimedIfLess DEF Tick, warm
<1>3. ASSUME NEW n \in Nodes, Start(n) PROVE Claimed'
  BY <1>3, LessIf, ClaimedIfLess DEF Start, boxes
<1>4. ASSUME NEW n \in Nodes, Stop(n) PROVE Claimed'
  <2>1. \A m \in Nodes : pool'[m] \subseteq pool[m]
    BY <1>4 DEF Stop, Typed, TypeOK
  <2>2. \A b \in Boxes, x \in Binds : x \in ran'[b] => Claims(x, b)
    BY <1>4, EndedNamed DEF Stop
  <2> QED
    BY <1>4, <2>1, <2>2, LessIf, ClaimedIfLess DEF Stop
<1>5. ASSUME NEW n \in Nodes, Crash(n) PROVE Claimed'
  <2>1. Rested(n)
    BY <1>5, RestedIf DEF Crash
  <2>2. \A m \in Nodes : pool'[m] \subseteq pool[m]
    BY <1>5 DEF Crash, Typed, TypeOK
  <2> QED
    BY <1>5, <2>1, <2>2, ExNamed, LessIf, ClaimedIfLess DEF Crash, boxes
<1>6. ASSUME NEW n \in Nodes, Refill(n) PROVE Claimed'
  BY <1>6, ClaimedRefill
<1>7. ASSUME NEW n \in Nodes, Execute(n) PROVE Claimed'
  <2>1. \A m \in Nodes, x \in Binds, b \in Boxes :
            ex'[m].bind = x /\ ex'[m].box = b => Claims(x, b)
    BY <1>7, ExecuteDoes DEF Only
  <2> QED
    BY <1>7, <2>1, ExecuteDoes, LessIf, ClaimedIfLess
<1>8. ASSUME NEW n \in Nodes, Run(n) PROVE Claimed'
  <2>1. \A b \in Boxes, x \in Binds : x \in ran'[b] => Claims(x, b)
    BY <1>8, RunDoes DEF Typed, TypeOK
  <2>2. Keeps(n, "kill") \/ Rested(n)
    BY <1>8, RunDoes
  <2> QED
    BY <1>8, <2>1, <2>2, RunDoes, ExNamed, LessIf, ClaimedIfLess
<1>9. ASSUME NEW n \in Nodes, Step(n) PROVE Claimed'
  BY <1>9, ClaimedAcquire, LessOfOne, ClaimedIfLess
<1> QED
  BY <1>1, <1>2, <1>3, <1>4, <1>5, <1>6, <1>7, <1>8, <1>9 DEF Next

LEMMA AlwaysClaimed == Spec => []Claimed
  BY TypedInit, TypedStep, ClaimedInit, ClaimedStep, PTL DEF Spec

\* The code of two binds never runs in one container, whatever overlaps, runs out,
\* fails or crashes: a container leaves its pool for one execution, and from then on
\* only what that bind's key, executions and code have named can reach it.
THEOREM OneBindPerContainer == Spec => []Isolation
<1>1. Typed /\ Claimed => Isolation
  BY Named DEF Typed, TypeOK, Claimed, Sole, Isolation
<1> QED
  BY <1>1, AlwaysTyped, AlwaysClaimed, PTL
-----------------------------------------------------------------------------
(* A key never runs out before the container it names: both age alike,     *)
(* since a container that is named is not idle in a pool.                  *)

KeyOutlives == \A x \in Binds : key[x].box \in Boxes => left[key[x].box] <= key[x].left

LEMMA OutlivesIf ==
    ASSUME Typed, Typed', KeyOutlives,
           \A b \in Boxes : left'[b] <= left[b],
           \A x \in Binds : key'[x].box \in Boxes => key'[x] = key[x] \/ key'[x].left = KeyTTL
    PROVE  KeyOutlives'
<1> SUFFICES ASSUME NEW x \in Binds, key'[x].box \in Boxes
             PROVE  left'[key'[x].box] <= key'[x].left
  BY DEF KeyOutlives
<1> DEFINE b == key'[x].box
<1>1. left'[b] \in 0 .. SandboxTTL /\ left[b] \in 0 .. SandboxTTL /\ left'[b] <= left[b]
  BY DEF Typed, TypeOK
<1>2. CASE key'[x].left = KeyTTL
  BY <1>1, <1>2
<1>3. CASE key'[x] = key[x]
  <2>1. left[b] <= key[x].left /\ key[x].left \in Nat
    BY <1>3, Before DEF KeyOutlives, Keys
  <2> QED
    BY <1>1, <1>3, <2>1
<1> QED
  BY <1>2, <1>3

\* No step of a process but the pool's gives a container more time.
LEMMA OlderBoxes ==
    ASSUME Typed, Typed', NEW n \in Nodes,
           Start(n) \/ Stop(n) \/ Crash(n) \/ Execute(n) \/ Run(n) \/ Step(n)
    PROVE  \A b \in Boxes : left'[b] <= left[b]
<1> SUFFICES ASSUME NEW b \in Boxes PROVE left'[b] <= left[b]
  OBVIOUS
<1>1. left[b] \in Nat
  BY DEF Typed, TypeOK
<1>2. left' = left \/ left'[b] = 0 \/ left'[b] = left[b]
  BY DEF Start, Stop, Crash, Execute, Run, Step, Connect, Forget, Acquire, Wait, GiveUp, Bind,
         Lost, Kill, Unbind, boxes, Ended
<1> QED
  BY <1>1, <1>2

LEMMA LongKeys ==
    ASSUME Typed, NEW n \in Nodes, Step(n)
    PROVE  \A x \in Binds : key'[x].box \in Boxes => key'[x] = key[x] \/ key'[x].left = KeyTTL
<1> SUFFICES ASSUME NEW x \in Binds, key'[x].box \in Boxes, key'[x] # key[x]
             PROVE  key'[x].left = KeyTTL
  OBVIOUS
<1>1. CASE Connect(n)
  <2>1. key'[x] = Renewed(key[x])
    BY <1>1, ConnectDoes DEF Keyed
  <2>2. key[x] # NoKey
    BY <2>1 DEF Renewed
  <2>3. key[x] \in Keys
    BY Before
  <2> QED
    BY <2>1, <2>2, <2>3 DEF Renewed, Keys
<1>2. CASE Forget(n) \/ Unbind(n)
  <2>1. key'[x] = NoKey
    BY <1>2, ForgetDoes, UnbindDoes DEF Keyed
  <2> QED
    BY <2>1, KeyTypes, Numbers
<1>3. CASE Bind(n)
  <2>1. key'[x] = [box |-> ex[n].box, left |-> Lease]
    BY <1>3, BindDoes DEF Keyed
  <2> QED
    BY <2>1 DEF Lease
<1>4. CASE Acquire(n) \/ Wait(n) \/ GiveUp(n) \/ Lost(n) \/ Kill(n)
  BY <1>4 DEF Acquire, Wait, GiveUp, Lost, Kill
<1> QED
  BY <1>1, <1>2, <1>3, <1>4 DEF Step

\* What is named is in no pool.
LEMMA NamedNotWarm == ASSUME Typed, Claimed, NEW x \in Binds, NEW b \in Boxes, Claims(x, b)
                      PROVE  b \notin Warm /\ b <= made
  BY DEF Claimed, PoolFree, Created, Warm

LEMMA TickAges == ASSUME Typed, Tick, NEW b \in Boxes
                  PROVE  /\ left[b] \in Nat /\ left'[b] <= left[b]
                         /\ b \notin Warm /\ left'[b] > 0 => left'[b] = left[b] - 1
<1>1. left[b] \in Nat
  BY DEF Typed, TypeOK
<1>2. left'[b] = IF b \in {c \in Boxes \ Warm : left[c] > 0} THEN left[b] - 1 ELSE left[b]
  BY DEF Tick
<1> QED
  BY <1>1, <1>2

\* The key of a container that has time left when time has passed is still there.
LEMMA TickKeeps == ASSUME Typed, Claimed, KeyOutlives, Tick, NEW x \in Binds, key[x].box \in Boxes,
                          left'[key[x].box] > 0
                   PROVE  key'[x].box = key[x].box /\ key'[x].left = key[x].left - 1
<1> DEFINE b == key[x].box
<1>1. b \notin Warm
  BY NamedNotWarm, Named
<1>2. left'[b] = left[b] - 1 /\ left[b] \in Nat
  BY <1>1, TickAges
<1>3. left[b] <= key[x].left /\ key[x] \in Keys /\ key[x].left \in Nat
  BY Before DEF KeyOutlives, Keys
<1>4. key[x].left > 1
  BY <1>2, <1>3
<1> QED
  BY <1>3, <1>4, KeyTypes DEF Tick

LEMMA TickDrops == ASSUME Typed, Tick, NEW x \in Binds
                   PROVE  key'[x].box \in {NoBox, key[x].box}
<1>1. key[x] \in Keys /\ key'[x] = Aged(key[x]) /\ key[x].left \in Nat
  BY Before DEF Tick, Keys
<1> QED
  BY <1>1, KeyTypes

LEMMA OutlivesStep == Typed /\ Typed' /\ Claimed /\ KeyOutlives /\ [Next]_vars => KeyOutlives'
<1> SUFFICES ASSUME Typed, Typed', Claimed, KeyOutlives, [Next]_vars PROVE KeyOutlives'
  OBVIOUS
<1>1. CASE UNCHANGED vars
  BY <1>1 DEF vars, boxes, KeyOutlives
<1>2. CASE Tick
  <2> SUFFICES ASSUME NEW x \in Binds, key'[x].box \in Boxes
               PROVE  left'[key'[x].box] <= key'[x].left
    BY DEF KeyOutlives
  <2>1. key'[x].box = key[x].box
    BY <1>2, TickDrops, Numbers
  <2> DEFINE b == key[x].box
  <2>2. left'[b] \in Nat /\ key'[x].left \in Nat
    <3>1. left'[b] \in 0 .. SandboxTTL
      BY <2>1 DEF Typed, TypeOK
    <3>2. key'[x].left \in 0 .. KeyTTL
      BY DEF Typed, TypeOK
    <3> QED
      BY <3>1, <3>2
  <2>3. CASE left'[b] > 0
    <3>1. b \notin Warm
      BY <2>1, NamedNotWarm, Named
    <3>2. left'[b] = left[b] - 1 /\ left[b] \in Nat
      BY <1>2, <2>1, <2>3, <3>1, TickAges
    <3>3. key'[x].left = key[x].left - 1
      BY <1>2, <2>1, <2>3, TickKeeps
    <3>4. left[b] <= key[x].left /\ key[x].left \in Nat
      BY <2>1, Before DEF KeyOutlives, Keys
    <3> QED
      BY <2>1, <3>2, <3>3, <3>4
  <2> QED
    BY <2>1, <2>2, <2>3
<1>3. ASSUME NEW n \in Nodes, Refill(n) PROVE KeyOutlives'
  <2> SUFFICES ASSUME NEW x \in Binds, key[x].box \in Boxes
               PROVE  left'[key[x].box] <= key[x].left
    BY <1>3 DEF KeyOutlives, Refill
  <2>1. key[x].box <= made /\ made \in Nat
    BY NamedNotWarm, Named DEF Typed, TypeOK
  <2>2. left'[key[x].box] = left[key[x].box]
    BY <1>3, <2>1 DEF Refill, Typed, TypeOK
  <2> QED
    BY <2>2 DEF KeyOutlives
<1>4. ASSUME NEW n \in Nodes, Start(n) \/ Stop(n) \/ Crash(n) \/ Execute(n) \/ Run(n)
      PROVE  KeyOutlives'
  <2>1. UNCHANGED key
    BY <1>4 DEF Start, Stop, Crash, Execute, Run
  <2> QED
    BY <1>4, <2>1, OlderBoxes, OutlivesIf
<1>5. ASSUME NEW n \in Nodes, Step(n) PROVE KeyOutlives'
  BY <1>5, OlderBoxes, LongKeys, OutlivesIf
<1> QED
  BY <1>1, <1>2, <1>3, <1>4, <1>5 DEF Next

LEMMA AlwaysOutlives == Spec => []KeyOutlives
<1>1. Init => KeyOutlives
  BY Numbers DEF Init, KeyOutlives, NoKey
<1> QED
  BY <1>1, AlwaysTyped, AlwaysClaimed, OutlivesStep, PTL DEF Spec

-----------------------------------------------------------------------------
(* As long as nothing fails and nothing overlaps, an execution knows what  *)
(* its key holds, and every running container is known.                    *)

Alone == \A m, n \in Nodes : m # n /\ ex[m].bind \in Binds => ex[m].bind # ex[n].bind

HeldKey(n) ==
    /\ ex[n].pc \in {"connect", "run", "kill"} =>
           /\ key[ex[n].bind].box \in {NoBox, ex[n].box}
           /\ left[ex[n].box] > 0 => key[ex[n].bind].box = ex[n].box
    /\ ex[n].pc \in {"acquire", "bind"} => key[ex[n].bind].box = NoBox
    /\ ex[n].pc \in {"forget", "unbind"} =>
           key[ex[n].bind].box = NoBox \/ left[key[ex[n].bind].box] = 0
    /\ ex[n].pc = "unbind" => left[ex[n].box] = 0

Known(b) == \/ b \in Warm
            \/ \E n \in Nodes : ex[n].box = b
            \/ \E x \in Binds : key[x].box = b

Covered == \A b \in Boxes : left[b] > 0 => Known(b)

Tidy == Alone /\ Covered /\ \A n \in Nodes : HeldKey(n)

Calm == mishaps = 0 /\ ~strayed

\* What a process knows of its key stays true while its execution, its key and the
\* numbering of containers stay as they are and containers only age.
LEMMA HeldStays ==
    ASSUME Typed, Typed', NEW m \in Nodes, HeldKey(m),
           ex'[m] = ex[m],
           ex[m].bind \in Binds => key'[ex[m].bind].box = key[ex[m].bind].box,
           \A b \in Boxes : Claims(ex[m].bind, b) => left'[b] <= left[b]
    PROVE  HeldKey(m)'
<1>1. CASE ex[m].pc = "idle"
  BY <1>1 DEF HeldKey
<1>2. CASE ex[m].pc # "idle"
  <2>1. ex[m].bind \in Binds /\ Consistent(ex[m])
    BY <1>2, Has DEF Consistent
  <2>2. key[ex[m].bind].box \in Boxes \cup {NoBox}
    BY <2>1, Has DEF Keys
  <2>3. \A b \in Boxes : left[b] \in Nat /\ left'[b] \in Nat
    BY DEF Typed, TypeOK
  <2>4. key'[ex'[m].bind].box = key[ex[m].bind].box /\ ex'[m].box = ex[m].box
    BY <2>1
  <2>5. \A b \in Boxes : b \in {ex[m].box, key[ex[m].bind].box} => left'[b] <= left[b]
    BY <2>1, Named
  <2>6. ex[m].box \in Boxes => (left'[ex[m].box] > 0 => left[ex[m].box] > 0)
    BY <2>3, <2>5
  <2>7. ex[m].box \in Boxes => (left[ex[m].box] = 0 => left'[ex[m].box] = 0)
    BY <2>3, <2>5
  <2>8. key[ex[m].bind].box \in Boxes =>
            (left[key[ex[m].bind].box] = 0 => left'[key[ex[m].bind].box] = 0)
    BY <2>3, <2>5
  <2> QED
    BY <2>1, <2>2, <2>4, <2>6, <2>7, <2>8 DEF HeldKey, Consistent
<1> QED
  BY <1>1, <1>2

\* The other executions know what they knew.
LEMMA OthersHold ==
    ASSUME Typed, Typed', Tidy, NEW n \in Nodes, Only(n),
           \A x \in Binds : x # ex[n].bind => key'[x] = key[x],
           \A b \in Boxes : left'[b] <= left[b]
    PROVE  \A m \in Nodes \ {n} : HeldKey(m)'
<1> SUFFICES ASSUME NEW m \in Nodes \ {n} PROVE HeldKey(m)'
  OBVIOUS
<1>1. ex'[m] = ex[m] /\ HeldKey(m)
  BY DEF Only, Tidy
<1>2. ex[m].bind \in Binds => key'[ex[m].bind].box = key[ex[m].bind].box
  BY DEF Tidy, Alone
<1> QED
  BY <1>1, <1>2, HeldStays

LEMMA AloneIf ==
    ASSUME Typed, Alone, NEW n \in Nodes, Only(n),
           \/ ex'[n].bind = ex[n].bind
           \/ ex'[n].bind \notin Binds
           \/ \A m \in Nodes : ex[m].bind # ex'[n].bind
    PROVE  Alone'
  BY DEF Alone, Only

LEMMA CoveredIf ==
    ASSUME Typed, Typed', Covered, NEW n \in Nodes, Only(n),
           \A b \in Boxes : left'[b] <= left[b],
           \A b \in Boxes : left'[b] > 0 =>
               /\ b \in Warm => b \in Warm' \/ ex'[n].box = b
               /\ ex[n].box = b => ex'[n].box = b \/ \E x \in Binds : key'[x].box = b
               /\ \A x \in Binds : key[x].box = b => key'[x].box = b
    PROVE  Covered'
<1> SUFFICES ASSUME NEW b \in Boxes, left'[b] > 0 PROVE Known(b)'
  BY DEF Covered
<1>1. left[b] > 0
  BY DEF Typed, TypeOK
<1>2. CASE b \in Warm
  BY <1>2 DEF Known
<1>3. ASSUME NEW m \in Nodes, ex[m].box = b PROVE Known(b)'
  <2>1. CASE m = n
    BY <1>3, <2>1 DEF Known
  <2>2. CASE m # n
    BY <1>3, <2>2 DEF Known, Only
  <2> QED
    BY <2>1, <2>2
<1>4. ASSUME NEW x \in Binds, key[x].box = b PROVE Known(b)'
  BY <1>4 DEF Known
<1> QED
  BY <1>1, <1>2, <1>3, <1>4 DEF Covered, Known

LEMMA TidyIf ==
    ASSUME Typed, Tidy, NEW n \in Nodes, Alone', Covered', HeldKey(n)',
           \A m \in Nodes \ {n} : HeldKey(m)'
    PROVE  Tidy'
  BY DEF Tidy

LEMMA SameWarm == UNCHANGED pool => Warm' = Warm
  BY DEF Warm

\* A calm step is one in which nothing fails.
LEMMA CalmStep == ASSUME Typed, mishaps' = 0, NEW k, Mishap(k) PROVE FALSE
  BY DEF Mishap, Typed, TypeOK

LEMMA NotYet == \A b \in Boxes : b # NoBox /\ (Typed => left[b] \in Nat)
  BY Numbers DEF Typed, TypeOK

\* A step of n after which it holds what it held, and its key names what it named,
\* or n comes to rest with a container that is gone or keyed.
LEMMA TidyConnect ==
    ASSUME Typed, Typed', Tidy, NEW n \in Nodes, Connect(n), mishaps = 0, mishaps' = 0
    PROVE  Tidy'
<1>1. /\ ex[n].pc = "connect" /\ ex[n].bind \in Binds /\ ex[n].box \in Boxes
      /\ UNCHANGED <<pool, left>>
  BY ConnectDoes
<1>2. /\ key[ex[n].bind].box \in {NoBox, ex[n].box}
      /\ left[ex[n].box] > 0 => key[ex[n].bind].box = ex[n].box
  BY <1>1 DEF Tidy, HeldKey
<1>3. \A b \in Boxes : left'[b] <= left[b]
  BY <1>1, NotYet
<1>4. CASE Keeps(n, "run") /\ Keyed(n, Renewed(key[ex[n].bind]))
  <2>1. \A x \in Binds : key'[x].box = key[x].box
    BY <1>1, <1>4, Has, KeyTypes DEF Keyed
  <2>2. HeldKey(n)'
    BY <1>1, <1>2, <1>4, <2>1 DEF HeldKey, Keeps
  <2>3. \A m \in Nodes \ {n} : HeldKey(m)'
    BY <1>3, <1>4, OthersHold DEF Keeps, Keyed
  <2>4. Covered'
    BY <1>1, <1>3, <1>4, <2>1, SameWarm, CoveredIf DEF Keeps, Tidy
  <2> QED
    BY <1>4, <2>2, <2>3, <2>4, AloneIf, TidyIf DEF Keeps, Tidy
<1>5. CASE /\ Only(n) /\ ex'[n].pc = "forget" /\ ex'[n].bind = ex[n].bind /\ ex'[n].box = NoBox
           /\ left[ex[n].box] = 0 /\ UNCHANGED key
  <2>1. HeldKey(n)'
    BY <1>1, <1>2, <1>5 DEF HeldKey
  <2>2. \A m \in Nodes \ {n} : HeldKey(m)'
    BY <1>3, <1>5, OthersHold
  <2>3. Covered'
    BY <1>1, <1>3, <1>5, SameWarm, CoveredIf DEF Tidy
  <2> QED
    BY <1>5, <2>1, <2>2, <2>3, AloneIf, TidyIf DEF Tidy
<1> QED
  BY <1>4, <1>5, ConnectDoes

LEMMA TidyForget ==
    ASSUME Typed, Typed', Tidy, NEW n \in Nodes, Forget(n), mishaps = 0, mishaps' = 0
    PROVE  Tidy'
<1>1. /\ ex[n].pc = "forget" /\ ex[n].bind \in Binds /\ ex[n].box = NoBox
      /\ Keeps(n, "acquire") /\ Keyed(n, NoKey)
      /\ UNCHANGED <<pool, left>>
  BY ForgetDoes, CalmStep
<1>2. key[ex[n].bind].box = NoBox \/ left[key[ex[n].bind].box] = 0
  BY <1>1 DEF Tidy, HeldKey
<1>3. \A b \in Boxes : left'[b] <= left[b]
  BY <1>1, NotYet
<1>4. HeldKey(n)'
  BY <1>1, KeyTypes DEF HeldKey, Keeps, Keyed
<1>5. \A m \in Nodes \ {n} : HeldKey(m)'
  BY <1>1, <1>3, OthersHold DEF Keeps, Keyed
<1>6. \A b \in Boxes, x \in Binds : left'[b] > 0 /\ key[x].box = b => key'[x].box = b
  BY <1>1, <1>2, NotYet DEF Keyed
<1>7. Covered'
  BY <1>1, <1>3, <1>6, SameWarm, CoveredIf DEF Tidy, Keeps
<1> QED
  BY <1>1, <1>4, <1>5, <1>7, AloneIf, TidyIf DEF Tidy, Keeps

LEMMA TidyAcquire ==
    ASSUME Typed, Typed', Tidy, NEW n \in Nodes, Acquire(n)
    PROVE  Tidy'
<1>1. /\ ex[n].pc = "acquire" /\ ex[n].bind \in Binds /\ Only(n)
      /\ UNCHANGED <<key, left>>
  BY AcquireDoes
<1>2. PICK c \in pool[n] : /\ pool' = [pool EXCEPT ![n] = @ \ {c}]
                           /\ ex'[n].pc = "bind" /\ ex'[n].bind = ex[n].bind /\ ex'[n].box = c
  BY AcquireDoes
<1>3. \A b \in Boxes : left'[b] <= left[b]
  BY <1>1, NotYet
<1>4. ex[n].box = NoBox
  BY <1>1, Has DEF Consistent
<1>5. \A b \in Boxes : b \in Warm => b \in Warm' \/ ex'[n].box = b
  <2> SUFFICES ASSUME NEW b \in Boxes, NEW m \in Nodes, b \in pool[m], b # c
               PROVE  b \in pool'[m]
    BY <1>2 DEF Warm
  <2> QED
    BY <1>2 DEF Typed, TypeOK
<1>6. HeldKey(n)'
  BY <1>1, <1>2 DEF HeldKey, Tidy
<1>7. \A m \in Nodes \ {n} : HeldKey(m)'
  BY <1>1, <1>3, OthersHold
<1>8. Covered'
  BY <1>1, <1>3, <1>4, <1>5, NotYet, CoveredIf DEF Tidy
<1> QED
  BY <1>1, <1>2, <1>6, <1>7, <1>8, AloneIf, TidyIf DEF Tidy

\* An execution that ends leaves its container to its key, or the container is gone;
\* one that waits, or goes on to kill it, keeps it.
LEMMA TidyRests ==
    ASSUME Typed, Typed', Tidy, NEW n \in Nodes, Rested(n), UNCHANGED <<pool, key, left>>,
           \/ ex[n].box = NoBox
           \/ ex[n].box \in Boxes /\ left[ex[n].box] = 0
           \/ ex[n].pc = "run" /\ ex[n].bind \in Binds
    PROVE  Tidy'
<1>1. \A b \in Boxes : left'[b] <= left[b]
  BY NotYet
<1>2. \A b \in Boxes : left'[b] > 0 /\ ex[n].box = b => \E x \in Binds : key'[x].box = b
  BY NotYet DEF Tidy, HeldKey
<1>3. ex'[n].pc = "idle" /\ ex'[n].bind = NoBind /\ Only(n)
  BY DEF Rested, Resting
<1>4. HeldKey(n)'
  BY <1>3 DEF HeldKey
<1>5. \A m \in Nodes \ {n} : HeldKey(m)'
  BY <1>1, <1>3, OthersHold
<1>6. Covered'
  BY <1>1, <1>2, <1>3, SameWarm, CoveredIf DEF Tidy
<1> QED
  BY <1>3, <1>4, <1>5, <1>6, AloneIf, TidyIf DEF Tidy

LEMMA TidyKeeps ==
    ASSUME Typed, Typed', Tidy, NEW n \in Nodes, NEW l, Keeps(n, l),
           UNCHANGED <<pool, key, left>>,
           l = ex[n].pc \/ (ex[n].pc = "run" /\ l = "kill")
    PROVE  Tidy'
<1>1. \A b \in Boxes : left'[b] <= left[b]
  BY NotYet
<1>2. HeldKey(n)'
  BY DEF HeldKey, Keeps, Tidy
<1>3. \A m \in Nodes \ {n} : HeldKey(m)'
  BY <1>1, OthersHold DEF Keeps
<1>4. Covered'
  BY <1>1, SameWarm, CoveredIf DEF Tidy, Keeps
<1> QED
  BY <1>2, <1>3, <1>4, AloneIf, TidyIf DEF Tidy, Keeps

LEMMA TidyBind ==
    ASSUME Typed, Typed', Tidy, NEW n \in Nodes, Bind(n), mishaps = 0, mishaps' = 0
    PROVE  Tidy'
<1> DEFINE k == [box |-> ex[n].box, left |-> Lease]
<1>1. /\ ex[n].pc = "bind" /\ ex[n].bind \in Binds /\ ex[n].box \in Boxes
      /\ Keeps(n, "run") /\ Keyed(n, k)
      /\ UNCHANGED <<pool, left>>
  BY BindDoes, CalmStep
<1>0. k.box = ex[n].box
  OBVIOUS
<1> HIDE DEF k
<1>2. key[ex[n].bind].box = NoBox
  BY <1>1 DEF Tidy, HeldKey
<1>3. \A b \in Boxes : left'[b] <= left[b]
  BY <1>1, NotYet
<1>4. HeldKey(n)'
  BY <1>0, <1>1 DEF HeldKey, Keeps, Keyed
<1>5. \A m \in Nodes \ {n} : HeldKey(m)'
  BY <1>1, <1>3, OthersHold DEF Keeps, Keyed
<1>6. \A b \in Boxes, x \in Binds : key[x].box = b => key'[x].box = b
  BY <1>1, <1>2, NotYet DEF Keyed
<1>7. Covered'
  BY <1>1, <1>3, <1>6, SameWarm, CoveredIf DEF Tidy, Keeps
<1> QED
  BY <1>1, <1>4, <1>5, <1>7, AloneIf, TidyIf DEF Tidy, Keeps

LEMMA TidyKill ==
    ASSUME Typed, Typed', Tidy, NEW n \in Nodes, Kill(n), mishaps = 0, mishaps' = 0
    PROVE  Tidy'
<1>1. /\ ex[n].pc = "kill" /\ ex[n].bind \in Binds /\ ex[n].box \in Boxes
      /\ UNCHANGED <<pool, key>>
  BY KillDoes
<1>2. key[ex[n].bind].box \in {NoBox, ex[n].box}
  BY <1>1 DEF Tidy, HeldKey
<1>3. CASE Ended({ex[n].box}) /\ Keeps(n, "unbind")
  <2>1. \A b \in Boxes : left'[b] <= left[b]
    BY <1>3, NotYet DEF Ended
  <2>2. left'[ex[n].box] = 0
    BY <1>1, <1>3 DEF Ended
  <2>3. HeldKey(n)'
    BY <1>1, <1>2, <1>3, <2>2 DEF HeldKey, Keeps
  <2>4. \A m \in Nodes \ {n} : HeldKey(m)'
    BY <1>1, <1>3, <2>1, OthersHold DEF Keeps
  <2>5. Covered'
    BY <1>1, <1>3, <2>1, SameWarm, CoveredIf DEF Tidy, Keeps
  <2> QED
    BY <1>3, <2>3, <2>4, <2>5, AloneIf, TidyIf DEF Tidy, Keeps
<1>4. CASE left[ex[n].box] = 0 /\ Rested(n) /\ UNCHANGED left
  BY <1>1, <1>4, TidyRests
<1> QED
  BY <1>3, <1>4, KillDoes, CalmStep

LEMMA TidyUnbind ==
    ASSUME Typed, Typed', Tidy, NEW n \in Nodes, Unbind(n), mishaps = 0, mishaps' = 0
    PROVE  Tidy'
<1>1. /\ ex[n].pc = "unbind" /\ ex[n].bind \in Binds /\ ex[n].box \in Boxes
      /\ Rested(n) /\ Keyed(n, NoKey)
      /\ UNCHANGED <<pool, left>>
  BY UnbindDoes, CalmStep DEF boxes
<1>2. /\ key[ex[n].bind].box = NoBox \/ left[key[ex[n].bind].box] = 0
      /\ left[ex[n].box] = 0
  BY <1>1 DEF Tidy, HeldKey
<1>3. \A b \in Boxes : left'[b] <= left[b]
  BY <1>1, NotYet
<1>4. ex'[n].pc = "idle" /\ ex'[n].bind = NoBind /\ Only(n)
  BY <1>1 DEF Rested, Resting
<1>5. HeldKey(n)'
  BY <1>4 DEF HeldKey
<1>6. \A m \in Nodes \ {n} : HeldKey(m)'
  BY <1>1, <1>3, <1>4, OthersHold DEF Keyed
<1>7. \A b \in Boxes : left'[b] > 0 =>
          ex[n].box # b /\ \A x \in Binds : key[x].box = b => key'[x].box = b
  BY <1>1, <1>2, NotYet DEF Keyed
<1>8. Covered'
  BY <1>1, <1>3, <1>4, <1>7, SameWarm, CoveredIf DEF Tidy
<1> QED
  BY <1>4, <1>5, <1>6, <1>8, AloneIf, TidyIf DEF Tidy

LEMMA TidyStepOfOne ==
    ASSUME Typed, Typed', Tidy, NEW n \in Nodes, Step(n), mishaps = 0, mishaps' = 0
    PROVE  Tidy'
<1>1. CASE Wait(n)
  BY <1>1, WaitDoes, TidyKeeps DEF boxes
<1>2. CASE GiveUp(n)
  BY <1>2, GiveUpDoes, TidyRests DEF boxes
<1>3. CASE Lost(n)
  <2>1. /\ ex[n].pc = "run" /\ ex[n].bind \in Binds /\ ex[n].box \in Boxes
        /\ UNCHANGED <<pool, key, left>>
    BY <1>3, LostDoes DEF boxes
  <2>2. Rested(n) \/ Keeps(n, "kill")
    BY <1>3, LostDoes
  <2> QED
    BY <2>1, <2>2, TidyRests, TidyKeeps
<1> QED
  BY <1>1, <1>2, <1>3, TidyConnect, TidyForget, TidyAcquire, TidyBind, TidyKill, TidyUnbind
     DEF Step

LEMMA TidyRun == ASSUME Typed, Typed', Tidy, NEW n \in Nodes, Run(n) PROVE Tidy'
<1>1. /\ ex[n].pc = "run" /\ ex[n].bind \in Binds /\ ex[n].box \in Boxes
      /\ UNCHANGED <<pool, key, left>>
  BY RunDoes
<1>2. Rested(n) \/ Keeps(n, "kill")
  BY RunDoes
<1> QED
  BY <1>1, <1>2, TidyRests, TidyKeeps

LEMMA TidyExecute ==
    ASSUME Typed, Typed', Tidy, NEW n \in Nodes, Execute(n), ~strayed'
    PROVE  Tidy'
<1>1. /\ Only(n) /\ ex[n].pc = "idle" /\ ex[n].bind = NoBind /\ ex[n].box = NoBox
      /\ UNCHANGED <<pool, key, left>>
  BY ExecuteDoes, Has DEF Consistent
<1>2. /\ ex'[n].bind \in Binds /\ ex'[n].box = key[ex'[n].bind].box
      /\ ex'[n].pc = IF ex'[n].box = NoBox THEN "acquire" ELSE "connect"
      /\ \A m \in Nodes : ex[m].bind # ex'[n].bind
  BY ExecuteDoes
<1>3. \A b \in Boxes : left'[b] <= left[b]
  BY <1>1, NotYet
<1>4. HeldKey(n)'
  BY <1>1, <1>2 DEF HeldKey
<1>5. \A m \in Nodes \ {n} : HeldKey(m)'
  BY <1>1, <1>3, OthersHold
<1>6. Covered'
  BY <1>1, <1>3, NotYet, SameWarm, CoveredIf DEF Tidy
<1> QED
  BY <1>1, <1>2, <1>4, <1>5, <1>6, AloneIf, TidyIf DEF Tidy

\* Where no execution changes, each knows what it knew of a container that only ages.
LEMMA HeldByAll ==
    ASSUME Typed, Typed', Tidy, UNCHANGED <<ex, key>>,
           \A x \in Binds, b \in Boxes : Claims(x, b) => left'[b] <= left[b]
    PROVE  Alone' /\ \A m \in Nodes : HeldKey(m)'
<1>1. Alone'
  BY DEF Tidy, Alone
<1>2. ASSUME NEW m \in Nodes PROVE HeldKey(m)'
  <2>1. CASE ex[m].pc = "idle"
    BY <2>1 DEF HeldKey
  <2>2. CASE ex[m].pc # "idle"
    <3>1. ex[m].bind \in Binds
      BY <2>2, Has DEF Consistent
    <3> QED
      BY <3>1, HeldStays DEF Tidy
  <2> QED
    BY <2>1, <2>2
<1> QED
  BY <1>1, <1>2

LEMMA TidyStop == ASSUME Typed, Typed', Tidy, NEW n \in Nodes, Stop(n) PROVE Tidy'
<1>1. UNCHANGED <<ex, key>> /\ Ended(pool[n]) /\ pool' = [pool EXCEPT ![n] = {}]
  BY DEF Stop
<1>2. \A b \in Boxes : left'[b] <= left[b]
  BY OlderBoxes
<1>3. Covered'
  <2> SUFFICES ASSUME NEW b \in Boxes, left'[b] > 0 PROVE Known(b)'
    BY DEF Covered
  <2>1. b \notin pool[n] /\ left[b] > 0
    BY <1>1 DEF Ended
  <2>2. Known(b)
    BY <2>1 DEF Tidy, Covered
  <2>3. b \in Warm => b \in Warm'
    <3> SUFFICES ASSUME NEW m \in Nodes, b \in pool[m] PROVE b \in pool'[m]
      BY DEF Warm
    <3> QED
      BY <1>1, <2>1 DEF Typed, TypeOK
  <2> QED
    BY <1>1, <2>2, <2>3 DEF Known
<1> QED
  BY <1>1, <1>2, <1>3, HeldByAll DEF Tidy

LEMMA TidyRefill ==
    ASSUME Typed, Typed', Claimed, Tidy, NEW n \in Nodes, Refill(n) PROVE Tidy'
<1>1. /\ UNCHANGED <<ex, key>> /\ made' = made + 1 /\ made' \in Boxes /\ made \in Nat
      /\ pool' = [pool EXCEPT ![n] = @ \cup {made'}]
      /\ left' = [left EXCEPT ![made'] = SandboxTTL]
  BY DEF Refill, Typed, TypeOK, Boxes
<1>2. \A b \in Boxes : b # made' => left'[b] = left[b]
  BY <1>1 DEF Typed, TypeOK
<1>3. \A x \in Binds, b \in Boxes : Claims(x, b) => left'[b] <= left[b]
  <2> SUFFICES ASSUME NEW x \in Binds, NEW b \in Boxes, Claims(x, b)
               PROVE  left'[b] <= left[b]
    OBVIOUS
  <2>1. b <= made
    BY NamedNotWarm
  <2> QED
    BY <1>1, <1>2, <2>1, NotYet
<1>4. Covered'
  <2> SUFFICES ASSUME NEW b \in Boxes, left'[b] > 0 PROVE Known(b)'
    BY DEF Covered
  <2>1. CASE b = made'
    <3>1. b \in pool'[n]
      BY <1>1, <2>1 DEF Typed, TypeOK
    <3> QED
      BY <3>1 DEF Known, Warm
  <2>2. CASE b # made'
    <3>1. Known(b)
      BY <1>2, <2>2 DEF Tidy, Covered
    <3>2. b \in Warm => b \in Warm'
      <4> SUFFICES ASSUME NEW m \in Nodes, b \in pool[m] PROVE b \in pool'[m]
        BY DEF Warm
      <4> QED
        BY <1>1 DEF Typed, TypeOK
    <3> QED
      BY <1>1, <3>1, <3>2 DEF Known
  <2> QED
    BY <2>1, <2>2
<1> QED
  BY <1>1, <1>3, <1>4, HeldByAll DEF Tidy

LEMMA TidyTick ==
    ASSUME Typed, Typed', Claimed, KeyOutlives, Tidy, Tick PROVE Tidy'
<1>1. UNCHANGED <<ex, pool>>
  BY DEF Tick, warm
<1>2. \A b \in Boxes : left'[b] <= left[b] /\ left[b] \in Nat /\ left'[b] \in Nat
  BY TickAges DEF Typed, TypeOK
<1>3. \A x \in Binds : key'[x].box \in {NoBox, key[x].box}
  BY TickDrops
<1>4. \A x \in Binds : key[x].box \in Boxes /\ left'[key[x].box] > 0 => key'[x].box = key[x].box
  BY TickKeeps
<1>5. ASSUME NEW m \in Nodes PROVE HeldKey(m)'
  <2>1. CASE ex[m].pc = "idle"
    BY <1>1, <2>1 DEF HeldKey
  <2>2. CASE ex[m].pc # "idle"
    <3>1. ex[m].bind \in Binds /\ Consistent(ex[m]) /\ HeldKey(m)
      BY <2>2, Has DEF Consistent, Tidy
    <3> DEFINE k == key[ex[m].bind].box
               l == key'[ex[m].bind].box
               b == ex[m].box
    <3>2. k \in Boxes \cup {NoBox} /\ l \in {NoBox, k}
      BY <1>3, <3>1, Has DEF Keys
    <3>3. k \in Boxes => (left[k] = 0 => left'[k] = 0) /\ (left'[k] > 0 => left[k] > 0 /\ l = k)
      BY <1>2, <1>4, <3>1
    <3>4. b \in Boxes => (left[b] = 0 => left'[b] = 0) /\ (left'[b] > 0 => left[b] > 0)
      BY <1>2
    <3>5. /\ ex[m].pc \in {"connect", "run", "kill"} =>
                 b \in Boxes /\ k \in {NoBox, b} /\ (left[b] > 0 => k = b)
          /\ ex[m].pc \in {"acquire", "bind"} => k = NoBox
          /\ ex[m].pc \in {"forget", "unbind"} => k = NoBox \/ left[k] = 0
          /\ ex[m].pc = "unbind" => b \in Boxes /\ left[b] = 0
      BY <3>1 DEF HeldKey, Consistent
    <3> HIDE DEF k, b, l
    <3>6. /\ ex[m].pc \in {"connect", "run", "kill"} =>
                 l \in {NoBox, b} /\ (left'[b] > 0 => l = b)
          /\ ex[m].pc \in {"acquire", "bind"} => l = NoBox
          /\ ex[m].pc \in {"forget", "unbind"} => l = NoBox \/ left'[l] = 0
          /\ ex[m].pc = "unbind" => left'[b] = 0
      BY <3>2, <3>3, <3>4, <3>5
    <3> QED
      BY <1>1, <3>6 DEF HeldKey, l, b
  <2> QED
    BY <2>1, <2>2
<1>6. Covered'
  <2> SUFFICES ASSUME NEW b \in Boxes, left'[b] > 0 PROVE Known(b)'
    BY DEF Covered
  <2>1. Known(b)
    BY <1>2 DEF Tidy, Covered
  <2>2. ASSUME NEW x \in Binds, key[x].box = b PROVE Known(b)'
    BY <1>4, <2>2 DEF Known
  <2> QED
    BY <1>1, <2>1, <2>2, SameWarm DEF Known
<1>7. Alone'
  BY <1>1 DEF Tidy, Alone
<1> QED
  BY <1>5, <1>6, <1>7 DEF Tidy

\* What went wrong stays so.
LEMMA CalmBefore == ASSUME Typed, [Next]_vars, Calm' PROVE Calm
<1>1. \/ mishaps' = mishaps \/ mishaps' = mishaps + 1
  BY DEF Next, Step, vars, warm, boxes, Tick, Start, Stop, Crash, Refill, Execute, Run, Connect,
         Forget, Acquire, Wait, GiveUp, Bind, Lost, Kill, Unbind, Mishap
<1>2. ~strayed' => ~strayed
  <2>1. ASSUME NEW n \in Nodes, Execute(n) PROVE ~strayed' => ~strayed
    BY <2>1, ExecuteDoes
  <2> QED
    BY <2>1 DEF Next, Step, vars, Tick, Start, Stop, Crash, Refill, Run, Connect,
         Forget, Acquire, Wait, GiveUp, Bind, Lost, Kill, Unbind
<1> QED
  BY <1>1, <1>2 DEF Calm, Typed, TypeOK

LEMMA TidyStep ==
    Typed /\ Typed' /\ Claimed /\ KeyOutlives /\ (Calm => Tidy) /\ [Next]_vars => (Calm => Tidy)'
<1> SUFFICES ASSUME Typed, Typed', Claimed, KeyOutlives, Calm => Tidy, [Next]_vars, Calm'
             PROVE  Tidy'
  OBVIOUS
<1>1. Tidy /\ mishaps = 0 /\ mishaps' = 0 /\ ~strayed'
  BY CalmBefore DEF Calm
<1>2. CASE UNCHANGED vars
  BY <1>1, <1>2, SameWarm DEF vars, warm, boxes, Tidy, Alone, Covered, Known, HeldKey
<1>3. CASE Tick
  BY <1>1, <1>3, TidyTick
<1>4. ASSUME NEW n \in Nodes, Start(n) PROVE Tidy'
  BY <1>1, <1>4, SameWarm DEF Start, boxes, Tidy, Alone, Covered, Known, HeldKey
<1>5. ASSUME NEW n \in Nodes, Crash(n) PROVE Tidy'
  BY <1>1, <1>5, CalmStep DEF Crash
<1> QED
  BY <1>1, <1>2, <1>3, <1>4, <1>5, TidyStop, TidyRefill, TidyExecute, TidyRun, TidyStepOfOne
     DEF Next

LEMMA TidyInit == Init => Tidy
<1> SUFFICES ASSUME Init PROVE Tidy
  OBVIOUS
<1>1. Alone
  BY DEF Init, Alone, Resting
<1>2. Covered
  BY DEF Init, Covered
<1>3. \A n \in Nodes : HeldKey(n)
  BY DEF Init, HeldKey, Resting
<1> QED
  BY <1>1, <1>2, <1>3 DEF Tidy

\* As long as no call fails and no two executions of one bind overlap, a container
\* with time left is idle in a pool, held by an execution or named by a key: the end
\* of an execution, an expiry or stop() never leaves one running out of reach.
THEOREM NothingOrphaned == Spec => []NoOrphan
<1>1. Init => (Calm => Tidy)
  BY TidyInit
<1>2. Spec => [](Calm => Tidy)
  BY <1>1, TidyStep, AlwaysTyped, AlwaysClaimed, AlwaysOutlives, PTL DEF Spec
<1>3. (Calm => Tidy) => NoOrphan
  BY DEF Calm, Tidy, Covered, Known, NoOrphan
<1> QED
  BY <1>2, <1>3, PTL

-----------------------------------------------------------------------------
(* What the execution of a trace leaves.                                   *)

\* No container, or one whose time is up.
Gone(b) == b = NoBox \/ left'[b] = 0
Kept(n) == ex[n].pc = "run" /\ ~ex[n].final /\ left[ex[n].box] > 0
Cleared(n) == Gone(ex[n].box) /\ Gone(key'[ex[n].bind].box)

\* An execution rests only by a step of its own, or by a crash.
LEMMA WhoRests ==
    ASSUME Typed, NEW n \in Nodes, ex[n].bind \in Binds, ex'[n] = Resting, [Next]_vars, mishaps = 0,
           mishaps' = 0
    PROVE  Run(n) \/ Step(n)
<1>1. ex'[n] # ex[n] /\ ex[n].pc # "idle"
  BY Has DEF Resting, Consistent
<1>2. ~Tick /\ ~(UNCHANGED vars)
  BY <1>1 DEF Tick, vars
<1>3. ASSUME NEW m \in Nodes PROVE ~Start(m) /\ ~Stop(m) /\ ~Refill(m) /\ ~Crash(m)
  BY <1>1, CalmStep DEF Start, Stop, Refill, Crash
<1>4. ~Execute(n)
  BY <1>1 DEF Execute
<1>5. ASSUME NEW m \in Nodes \ {n} PROVE ~Execute(m) /\ ~Run(m) /\ ~Step(m)
  <2>1. ~Only(m)
    BY <1>1, <1>5 DEF Only
  <2> QED
    BY <2>1, ExecuteDoes, RunDoes, ConnectDoes, ForgetDoes, AcquireDoes, WaitDoes, GiveUpDoes,
       BindDoes, LostDoes, KillDoes, UnbindDoes DEF Step, Keeps, Rested
<1> QED
  BY <1>2, <1>3, <1>4, <1>5 DEF Next

LEMMA TraceEnds ==
    ASSUME Typed, Tidy, NEW n \in Nodes, ex[n].bind \in Traces, ex'[n] = Resting, [Next]_vars,
           mishaps = 0, mishaps' = 0
    PROVE  Kept(n) \/ Cleared(n)
<1>1. /\ HeldKey(n) /\ ex[n].bind \in Binds /\ ex[n].bind \notin Sessions
      /\ ex'[n].pc = "idle" /\ NoBind \notin Binds
  BY DEF Tidy, Binds, Resting
<1>2. ~(\E k : Mishap(k))
  BY CalmStep
<1>3. \A l \in PCs \ {"idle"} : ~Keeps(n, l)
  BY <1>1 DEF Keeps
<1>4. Run(n) \/ Step(n)
  BY <1>1, WhoRests
<1>5. CASE Run(n)
  <2>1. ex[n].pc = "run" /\ ex[n].box \in Boxes /\ left[ex[n].box] > 0
    BY <1>5, RunDoes DEF Run
  <2>2. PICK success \in BOOLEAN : Finally(n, success)
    BY <1>5 DEF Run
  <2>3. ~Goto(n, "kill")
    BY <1>3, <2>1, KeepsIf DEF PCs
  <2> QED
    BY <1>1, <2>1, <2>2, <2>3 DEF Finally, Kept
<1>6. ~Connect(n) /\ ~Acquire(n) /\ ~Wait(n) /\ ~Bind(n)
  BY <1>1, <1>2, <1>3, ConnectDoes, AcquireDoes, WaitDoes, BindDoes DEF PCs
<1>7. ~Forget(n)
  BY <1>2, <1>3, ForgetDoes DEF PCs
<1>8. CASE GiveUp(n)
  BY <1>1, <1>8, GiveUpDoes DEF HeldKey, Cleared, Gone
<1>9. ~Lost(n)
  <2>1. ASSUME Lost(n) PROVE Goto(n, "kill")
    BY <1>1, <2>1 DEF Lost, Finally
  <2>2. Lost(n) => ex[n].box \in Boxes /\ ex[n].pc = "run"
    BY LostDoes
  <2> QED
    BY <1>3, <2>1, <2>2, KeepsIf DEF PCs
<1>10. CASE Kill(n)
  BY <1>1, <1>2, <1>3, <1>10, KillDoes DEF HeldKey, Cleared, Gone, PCs
<1>11. CASE Unbind(n)
  BY <1>1, <1>2, <1>11, UnbindDoes, KeyTypes DEF HeldKey, Cleared, Gone, Keyed, boxes
<1> QED
  BY <1>4, <1>5, <1>6, <1>7, <1>8, <1>9, <1>10, <1>11 DEF Step

\* As long as no call fails and no two executions of one bind overlap, the execution
\* of a trace that ends leaves no running container behind, neither its own nor the one
\* its key names, but for a step that succeeded before the last: that keeps both.
THEOREM TraceIsCleared == Spec => TraceLeavesNothing
<1> DEFINE Clears ==
        \A n \in Nodes :
          LET e == ex[n]
              Gone1(b) == b = NoBox \/ left'[b] = 0
              kept == e.pc = "run" /\ ~e.final /\ left[e.box] > 0
          IN  (e.bind \in Traces /\ ex'[n] = Resting /\ mishaps' = 0 /\ ~strayed')
                 => kept \/ (Gone1(e.box) /\ Gone1(key'[e.bind].box))
<1>1. Typed /\ (Calm => Tidy) /\ [Next]_vars => [Clears]_vars
  <2> SUFFICES ASSUME Typed, Calm => Tidy, [Next]_vars, NEW n \in Nodes, ex[n].bind \in Traces,
                      ex'[n] = Resting, mishaps' = 0, ~strayed'
               PROVE  Kept(n) \/ Cleared(n)
    BY DEF Kept, Cleared, Gone
  <2>1. Tidy /\ mishaps = 0
    BY CalmBefore DEF Calm
  <2> QED
    BY <2>1, TraceEnds
<1>2. Spec => [](Calm => Tidy)
  BY TidyInit, TidyStep, AlwaysTyped, AlwaysClaimed, AlwaysOutlives, PTL DEF Spec
<1> QED
  BY <1>1, <1>2, AlwaysTyped, PTL DEF Spec, TraceLeavesNothing
=============================================================================
