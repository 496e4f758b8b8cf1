----------------------------- MODULE AtLeastOnce -----------------------------
(***************************************************************************)
(* What the bus promises its users: a submitted task is carried by some    *)
(* copy of its message until it is settled (a handler answered it) or dead *)
(* (it rests in the dead letter queue), and one of the two happens, unless  *)
(* the promise is excused: the bus gave the task's message up.             *)
(***************************************************************************)
CONSTANT Tasks

VARIABLES submitted, carried, settled, dead, excused

avars == <<submitted, carried, settled, dead, excused>>

AInit == /\ submitted = {}
         /\ carried = {}
         /\ settled = {}
         /\ dead = {}
         /\ excused = {}

Submit(t) == /\ t \notin submitted
             /\ submitted' = submitted \cup {t}
             /\ carried' = carried \cup {t}
             /\ UNCHANGED <<settled, dead, excused>>

Settle(t) == /\ t \in submitted
             /\ settled' = settled \cup {t}
             /\ UNCHANGED <<submitted, carried, dead, excused>>

\* Only a task some copy still carries, or one already given up, is excused.
Excuse(t) == /\ t \in carried \cup dead \cup excused
             /\ t \notin settled
             /\ excused' = excused \cup {t}
             /\ carried' \in {carried, carried \ {t}}
             /\ UNCHANGED <<submitted, settled, dead>>

\* Only a task some copy still carries, or that is over, is buried.
Bury(t) == /\ t \in carried \cup settled \cup excused
           /\ dead' = dead \cup {t}
           /\ carried' \in {carried, carried \ {t}}
           /\ UNCHANGED <<submitted, settled, excused>>

\* Copies of a task that is over may go, and come back: it may run again.
Linger(t) == /\ t \in settled \cup dead \cup excused
             /\ carried' \in {carried \ {t}, carried \cup {t}}
             /\ UNCHANGED <<submitted, settled, dead, excused>>

ANext == \E t \in Tasks :
    Submit(t) \/ Settle(t) \/ Excuse(t) \/ Bury(t) \/ Linger(t)

Safe == AInit /\ [][ANext]_avars

Served == \A t \in Tasks : (t \in submitted) ~> (t \in settled \cup dead \cup excused)

ASpec == Safe /\ Served

=============================================================================
