---------------------------- MODULE RegistryProofs ----------------------------
(***************************************************************************)
(* Proofs about the list of active agents: for any number of processes of  *)
(* the agent and any number of failures, an agent that nobody serves is off*)
(* the list, unless something failed.                                      *)
(***************************************************************************)
EXTENDS Registry, TLAPS

USE RegistryAssumption DEF RegistryAssumption

\* Init and every step keep the type of every variable; in particular the heart of
\* a process that has begun to leave no longer beats.
LEMMA TypeInit == ASSUME Init PROVE TypeOK
<1>1. member \in BOOLEAN
  BY Zenon DEF Init
<1>2. mishaps \in 0 .. MaxMishaps
  BY SMT DEF Init
<1>3. /\ life \in [Nodes -> Lives]
      /\ heart \in [Nodes -> Hearts]
      /\ \A n \in Nodes : heart[n] # "beating"
  BY SMT DEF Init, Lives, Hearts
<1> QED
  BY <1>1, <1>2, <1>3 DEF TypeOK

\* A step makes of member the same or a truth value, and counts at most one mishap.
LEMMA OthersStep == ASSUME TypeOK, [Next]_vars
                    PROVE  member' \in BOOLEAN /\ mishaps' \in 0 .. MaxMishaps
<1>1. member' \in {member, TRUE, FALSE}
  BY Zenon DEF Next, vars, Start, Beat, Stop, StopRaises, LateBeat, Leave, Exit, Crash, End, Entered
<1>2. member' \in BOOLEAN
  BY <1>1, Zenon DEF TypeOK
<1>3. UNCHANGED mishaps \/ Mishap
  BY Zenon DEF Next, vars, Start, Beat, Stop, StopRaises, LateBeat, Leave, Exit, Crash, End
<1>4. mishaps' \in 0 .. MaxMishaps
  BY <1>3, SMT DEF TypeOK, Mishap
<1> QED
  BY <1>2, <1>4

LEMMA TypeStep == ASSUME TypeOK, [Next]_vars PROVE TypeOK'
<1> DEFINE Processes == /\ life \in [Nodes -> Lives]
                        /\ heart \in [Nodes -> Hearts]
                        /\ \A n \in Nodes : heart[n] = "beating" => life[n] \in {"up", "stopped"}
<1>0. Processes
  BY DEF TypeOK
<1> SUFFICES Processes'
  BY OthersStep DEF TypeOK
<1> USE <1>0 DEF Lives, Hearts
<1>1. ASSUME NEW n \in Nodes, Start(n) PROVE Processes'
  BY <1>1 DEF Start
<1>2. ASSUME NEW n \in Nodes, Beat(n) PROVE Processes'
  BY <1>2 DEF Beat
<1>3. ASSUME NEW n \in Nodes, Stop(n) PROVE Processes'
  BY <1>3 DEF Stop, Cancelled
<1>4. ASSUME NEW n \in Nodes, StopRaises(n) \/ Leave(n) PROVE Processes'
  BY <1>4 DEF StopRaises, Leave
<1>5. ASSUME NEW n \in Nodes, LateBeat(n) PROVE Processes'
  BY <1>5 DEF LateBeat
<1>6. ASSUME NEW n \in Nodes, Exit(n) \/ Crash(n) PROVE Processes'
  BY <1>6 DEF Exit, Crash, End
<1>7. CASE UNCHANGED vars
  BY <1>7 DEF vars
<1> HIDE DEF Processes
<1> QED
  BY <1>1, <1>2, <1>3, <1>4, <1>5, <1>6, <1>7 DEF Next

\* Every variable of the registry keeps its type.
THEOREM TypeCorrect == Spec => []TypeOK
<1>1. TypeOK /\ [Next]_vars => TypeOK'
  BY TypeStep
<1> QED
  BY <1>1, TypeInit, PTL DEF Spec

-----------------------------------------------------------------------------
\* Without a failure a heart beats exactly while its process is up, and an agent on
\* the list has a process that is up or still has to take it off.
Attended == mishaps = 0 =>
    /\ \A n \in Nodes : heart[n] = IF life[n] = "up" THEN "beating" ELSE "off"
    /\ member => \E n \in Nodes : life[n] \in {"up", "leaving"}

LEMMA AttendedStep == ASSUME TypeOK, Attended, [Next]_vars PROVE Attended'
<1> SUFFICES ASSUME mishaps' = 0 PROVE Attended'
  BY DEF Attended
<1>1. mishaps = 0 /\ ~Mishap
  <2>1. UNCHANGED mishaps \/ Mishap
    BY Zenon DEF Next, vars, Start, Beat, Stop, StopRaises, LateBeat, Leave, Exit, Crash, End
  <2> QED
    BY <2>1 DEF TypeOK, Mishap
<1> USE <1>1 DEF TypeOK, Attended
<1>2. ASSUME NEW n \in Nodes, Start(n) PROVE Attended'
  BY <1>2 DEF Start
<1>3. ASSUME NEW n \in Nodes, Beat(n) PROVE Attended'
  BY <1>3 DEF Beat
<1>4. ASSUME NEW n \in Nodes, Stop(n) PROVE Attended'
  BY <1>4 DEF Stop, Cancelled
<1>5. ASSUME NEW n \in Nodes, LateBeat(n) PROVE Attended'
  BY <1>5 DEF LateBeat
<1>6. ASSUME NEW n \in Nodes, Leave(n) PROVE Attended'
  BY <1>6 DEF Leave
<1>7. ASSUME NEW n \in Nodes, Exit(n) PROVE Attended'
  BY <1>7 DEF Exit, End
<1>8. CASE UNCHANGED vars
  BY <1>8 DEF vars
<1> QED
  BY <1>1, <1>2, <1>3, <1>4, <1>5, <1>6, <1>7, <1>8 DEF Next, StopRaises, Crash

\* An agent that nobody serves is off the list, however many processes join, beat
\* and stop in whatever order, as long as nothing failed.
THEOREM NobodyLeft == Spec => []NoGhost
<1>1. Init => Attended
  BY DEF Init, Attended
<1>2. TypeOK /\ Attended /\ [Next]_vars => Attended'
  BY AttendedStep
<1>3. Attended => NoGhost
  BY DEF Attended, NoGhost
<1> QED
  BY <1>1, <1>2, <1>3, TypeCorrect, PTL DEF Spec
=============================================================================
