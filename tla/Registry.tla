------------------------------ MODULE Registry ------------------------------
(***************************************************************************)
(* The processes that serve one agent and the agent's place in the registry*)
(* (worker/base.py): its name in the Redis set system:active_agents, which *)
(* the planner reads.  Every process of the agent, a replica or a shadow   *)
(* worker, adds the same name, and stop() of any of them removes it.  (The *)
(* key heartbeat:<agent> beside it is written and never read: left out.)   *)
(***************************************************************************)
EXTENDS Naturals

CONSTANTS
    Nodes,         \* worker processes of the agent
    MaxMishaps     \* bound: failing calls, processes that die, late beats

ASSUME RegistryAssumption == MaxMishaps \in Nat

VARIABLES
    life,      \* where a process is between its start and its end
    heart,     \* its heartbeat task
    member,    \* whether the agent is in system:active_agents
    mishaps    \* failures so far

vars == <<life, heart, member, mishaps>>

\* "stopped": stop() has returned; the read loop goes on until the process ends.
Lives == {"down", "up", "leaving", "stopped"}
Hearts == {"off", "beating", "failed", "sent"}

Mishap == mishaps < MaxMishaps /\ mishaps' = mishaps + 1

Init == /\ life = [n \in Nodes |-> "down"]
        /\ heart = [n \in Nodes |-> "off"]
        /\ member = FALSE
        /\ mishaps = 0

-----------------------------------------------------------------------------
\* setup(), then the heartbeat task and the read loop, with no await between.
Start(n) == /\ life[n] = "down" /\ heart[n] = "off"
            /\ life' = [life EXCEPT ![n] = "up"]
            /\ heart' = [heart EXCEPT ![n] = "beating"]
            /\ UNCHANGED <<member, mishaps>>

\* Mutant of Entered: a beat renews only what is there.
EnteredBefore == member
Entered == TRUE

\* An exception in a beat ends the task for good (line 41).
Beat(n) ==
    /\ heart[n] = "beating"
    /\ \/ /\ member' = Entered
          /\ UNCHANGED <<heart, mishaps>>
       \/ /\ Mishap
          /\ member' \in {member, TRUE}
          /\ heart' = [heart EXCEPT ![n] = "failed"]
    /\ UNCHANGED life

\* Mutant of Cancelled: the heartbeat task is not cancelled.
CancelledNot(h) == h
Cancelled(h) == "off"

\* stop() cancels the heartbeat.  A beat that was under way may have been sent
\* already, and arrive after what follows.
Stop(n) ==
    /\ life[n] = "up"
    /\ life' = [life EXCEPT ![n] = "leaving"]
    /\ \/ /\ heart' = [heart EXCEPT ![n] = Cancelled(@)]
          /\ UNCHANGED mishaps
       \/ /\ heart[n] = "beating" /\ Mishap
          /\ heart' = [heart EXCEPT ![n] = "sent"]
    /\ UNCHANGED member

\* CoderAgent.stop closes its pool first; when that raises, nothing is deregistered.
StopRaises(n) == /\ life[n] = "up" /\ Mishap
                 /\ life' = [life EXCEPT ![n] = "stopped"]
                 /\ UNCHANGED <<heart, member>>

LateBeat(n) == /\ heart[n] = "sent"
               /\ heart' = [heart EXCEPT ![n] = "off"]
               /\ member' = TRUE
               /\ UNCHANGED <<life, mishaps>>

Leave(n) ==        \* SREM
    /\ life[n] = "leaving"
    /\ life' = [life EXCEPT ![n] = "stopped"]
    /\ \/ member' = FALSE /\ UNCHANGED mishaps
       \/ Mishap /\ member' \in {member, FALSE}
    /\ UNCHANGED heart

\* The process ends: after stop(), or anywhere else without it.
End(n) == /\ life' = [life EXCEPT ![n] = "down"]
          /\ heart' = [heart EXCEPT ![n] = IF @ = "sent" THEN @ ELSE "off"]
          /\ UNCHANGED member

Exit(n) == life[n] = "stopped" /\ End(n) /\ UNCHANGED mishaps

Crash(n) == life[n] # "down" /\ Mishap /\ End(n)

Next == \E n \in Nodes : \/ Start(n) \/ Beat(n) \/ Stop(n) \/ StopRaises(n)
                         \/ LateBeat(n) \/ Leave(n) \/ Exit(n) \/ Crash(n)

Spec == Init /\ [][Next]_vars

\* The heartbeat task of a running process is scheduled again and again.
FairSpec == Spec /\ \A n \in Nodes : WF_vars(Beat(n))

-----------------------------------------------------------------------------
(* Properties.                                                             *)

TypeOK == /\ life \in [Nodes -> Lives]
          /\ heart \in [Nodes -> Hearts]
          /\ member \in BOOLEAN
          /\ mishaps \in 0 .. MaxMishaps
          /\ \A n \in Nodes : heart[n] = "beating" => life[n] \in {"up", "stopped"}

\* The planner sees no agent that nobody serves (planner/agent.py 22, "all
\* currently alive agents"): when every process has left with stop(), in any
\* order and overlap, the agent is out of the set, unless a process ended without
\* stop(), a call of stop() raised or a cancelled beat arrived late.
NoGhost == (mishaps = 0 /\ \A n \in Nodes : life[n] \in {"down", "stopped"})
              => ~member

\* stop() of one process takes the agent of all the others off the list, but only
\* until their next beat (lines 35-39): while a heartbeat goes on, the agent is a
\* member again and again, whoever joins, stops or dies beside it.
MemberAgain == \A n \in Nodes :
                   <>[](heart[n] = "beating") => []<>member
=============================================================================
