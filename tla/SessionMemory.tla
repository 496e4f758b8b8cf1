---------------------------- MODULE SessionMemory ----------------------------
(***************************************************************************)
(* The memory of one session: the sliding window in Redis (L1), the cold   *)
(* store (L2) written by background tasks, and the summary that background *)
(* LLM calls compress old messages into (memory/layered.py,                *)
(* memory/redis_plugin.py, memory/sqlite_plugin.py,                        *)
(* memory/summarized_memory.py).  Sessions share no key.                   *)
(*                                                                         *)
(* A manager belongs to a worker process, which handles one message at a   *)
(* time; its background tasks run beside it, and other processes may serve *)
(* the same session.  A message is a number, in the order of saving; a     *)
(* summary is the set of messages it was made from.                        *)
(***************************************************************************)
EXTENDS Integers, Sequences, FiniteSets

CONSTANTS
    Managers,      \* worker processes with a SummarizedMemoryManager
    HasL2,         \* whether an l2_plugin was injected
    L1MaxLen,      \* l1_max_len
    MaxMessages,   \* bound: messages saved
    MaxJobs,       \* bound: summary tasks at a time
    MaxClears,     \* bound: calls of clear
    Mishaps,       \* the failures considered
    MaxMishaps     \* bound: how many there are

MishapKinds == {"l1", "l2", "llm", "ttl"}

ASSUME MemoryAssumption ==
    /\ HasL2 \in BOOLEAN
    /\ L1MaxLen \in Nat \ {0}
    /\ MaxMessages \in Nat
    /\ MaxJobs \in Nat
    /\ MaxClears \in Nat
    /\ MaxMishaps \in Nat
    /\ Mishaps \subseteq MishapKinds

VARIABLES
    l1,         \* the list memory:session:<id>
    l2,         \* the rows of the session
    summary,    \* memory:summary:<id>
    saved,      \* messages saved so far
    flushing,   \* messages whose _safe_l2_write has not ended
    jobs,       \* the _safe_async_summarize tasks
    gen,        \* how often each manager dropped the session's lock
    mpc,        \* where each manager's caller is
    list,       \* the messages it reloads, or saved before its clear
    calm,       \* whether no background task ran when its clear began
    quietly,    \* messages erased by a clear that met no background task
    clears,     \* calls of clear so far
    mishaps     \* failures so far

stores == <<l1, l2, summary>>
tasks == <<flushing, jobs>>
callers == <<mpc, list, calm>>
history == <<quietly, clears>>
vars == <<stores, saved, tasks, gen, callers, history, mishaps>>

-----------------------------------------------------------------------------
Messages == 1 .. MaxMessages
JobIds == 1 .. MaxJobs
AtLeastOne(n) == IF n < 1 THEN 1 ELSE n
Trigger == AtLeastOne((L1MaxLen * 8) \div 10)     \* compress_ratio
Retain == AtLeastOne((L1MaxLen * 4) \div 10)      \* retain_ratio

Elements(s) == {s[i] : i \in DOMAIN s}
Newest(s, n) == IF Len(s) <= n THEN s ELSE SubSeq(s, Len(s) - n + 1, Len(s))
Oldest(s, n) == SubSeq(s, 1, IF Len(s) <= n THEN 0 ELSE Len(s) - n)

Pushed(x) == Newest(Append(l1, x), 2 * L1MaxLen)

NoJob == [pc |-> "none"]
Job(m, hist) == [pc |-> "created", by |-> m, hist |-> hist, gen |-> 0, old |-> {}]
Running(j) == jobs[j].pc \notin {"none", "created"}
End(j) == jobs' = [jobs EXCEPT ![j] = NoJob]
Goto(m, state) == mpc' = [mpc EXCEPT ![m] = state]

Mishap(k) == /\ k \in Mishaps
             /\ mishaps < MaxMishaps
             /\ mishaps' = mishaps + 1

Init == /\ l1 = << >>
        /\ l2 = << >>
        /\ summary = {}
        /\ saved = 0
        /\ flushing = {}
        /\ jobs = [j \in JobIds |-> NoJob]
        /\ gen = [m \in Managers |-> 0]
        /\ mpc = [m \in Managers |-> "idle"]
        /\ list = [m \in Managers |-> << >>]
        /\ calm = [m \in Managers |-> FALSE]
        /\ quietly = {}
        /\ clears = 0
        /\ mishaps = 0

-----------------------------------------------------------------------------
(* save_message: L1 at once, L2 by a task, and perhaps a summary by another. *)

\* Mutant of Flushing: the task is never created.
FlushingNot(x) == flushing
Flushing(x) == IF HasL2 THEN flushing \cup {x} ELSE flushing

\* A failing write to L1 is logged, and the message still goes to L2.
Save(m) ==
    /\ mpc[m] = "idle"
    /\ saved < MaxMessages
    /\ saved' = saved + 1
    /\ \/ l1' = Pushed(saved + 1) /\ UNCHANGED mishaps
       \/ Mishap("l1") /\ UNCHANGED l1
    /\ flushing' = Flushing(saved + 1)
    /\ Goto(m, "saved")
    /\ UNCHANGED <<l2, summary, jobs, gen, list, calm, history>>

\* Mutant of Window: the whole list is read.
WindowAll == l1
Window == Newest(l1, L1MaxLen)

\* The history is read again, and given to a summary task if it is long enough;
\* a read that fails returns no history.
CheckLength(m) ==
    LET hist == Window
    IN  /\ mpc[m] = "saved"
        /\ \/ /\ Len(hist) >= Trigger
              /\ \E j \in JobIds :
                    /\ jobs[j] = NoJob
                    /\ \A i \in 1 .. j - 1 : jobs[i] # NoJob
                    /\ jobs' = [jobs EXCEPT ![j] = Job(m, hist)]
              /\ UNCHANGED mishaps
           \/ Len(hist) < Trigger /\ UNCHANGED <<jobs, mishaps>>
           \/ Mishap("l1") /\ UNCHANGED jobs
        /\ Goto(m, "idle")
        /\ UNCHANGED <<stores, saved, flushing, gen, list, calm, history>>

Flush(x) ==
    /\ x \in flushing
    /\ \/ l2' = Append(l2, x) /\ UNCHANGED mishaps
       \/ Mishap("l2") /\ UNCHANGED l2
    /\ flushing' = flushing \ {x}
    /\ UNCHANGED <<l1, summary, saved, jobs, gen, callers, history>>

-----------------------------------------------------------------------------
(* get_history: a miss in L1 is reloaded from L2, message by message.  A   *)
(* read of L1 that fails returns the same as an empty list, and then the   *)
(* messages of L2 are put behind those L1 still has; one of L2 that fails  *)
(* ends the reload.                                                        *)

MissL1(m) ==
    /\ mpc[m] = "idle"
    /\ HasL2
    /\ \/ l1 = << >> /\ UNCHANGED mishaps
       \/ l1 # << >> /\ Mishap("l1")
    /\ Goto(m, "missed")
    /\ UNCHANGED <<stores, saved, tasks, gen, list, calm, history>>

ReadL2(m) ==
    /\ mpc[m] = "missed"
    /\ \/ /\ list' = [list EXCEPT ![m] = Newest(l2, L1MaxLen)]
          /\ Goto(m, IF l2 = << >> THEN "idle" ELSE "reloading")
          /\ UNCHANGED mishaps
       \/ /\ Mishap("l2")
          /\ Goto(m, "idle")
          /\ UNCHANGED list
    /\ UNCHANGED <<stores, saved, tasks, gen, calm, history>>

Reload(m) ==
    /\ mpc[m] = "reloading"
    /\ \/ l1' = Pushed(Head(list[m])) /\ UNCHANGED mishaps
       \/ Mishap("l1") /\ UNCHANGED l1
    /\ list' = [list EXCEPT ![m] = Tail(@)]
    /\ Goto(m, IF Len(list[m]) = 1 THEN "idle" ELSE "reloading")
    /\ UNCHANGED <<l2, summary, saved, tasks, gen, calm, history>>

\* Redis drops the list a day after its last write.
ExpireL1 ==
    /\ l1 # << >>
    /\ Mishap("ttl")
    /\ l1' = << >>
    /\ UNCHANGED <<l2, summary, saved, tasks, gen, callers, history>>

-----------------------------------------------------------------------------
(* _safe_async_summarize.                                                  *)

\* Mutant of Locked: the tasks of a session do not exclude each other.
LockedNot(m) == FALSE
Locked(m) == \E j \in JobIds : Running(j) /\ jobs[j].by = m /\ jobs[j].gen = gen[m]

StartSummary(j) ==
    /\ jobs[j].pc = "created"
    /\ \/ Locked(jobs[j].by) /\ End(j)
       \/ /\ ~Locked(jobs[j].by)
          /\ jobs' = [jobs EXCEPT ![j].pc = "reading", ![j].gen = gen[jobs[j].by]]
    /\ UNCHANGED <<stores, saved, flushing, gen, callers, history, mishaps>>

\* Mutant of ToCompress: the newest messages are compressed, the oldest are not.
ToCompressNewest(hist) == Newest(hist, Len(hist) - Retain)
ToCompress(hist) == Oldest(hist, Retain)

ReadSummary(j) ==
    /\ jobs[j].pc = "reading"
    /\ \/ ToCompress(jobs[j].hist) = << >> /\ End(j)
       \/ /\ ToCompress(jobs[j].hist) # << >>
          /\ jobs' = [jobs EXCEPT ![j].pc = "thinking", ![j].old = summary]
    /\ UNCHANGED <<stores, saved, flushing, gen, callers, history, mishaps>>

\* The LLM answers, or the task ends: the call raises, or the GET of the old
\* summary before it or the SET of the new one after it does.
Think(j) ==
    /\ jobs[j].pc = "thinking"
    /\ \/ jobs' = [jobs EXCEPT ![j].pc = "storing"] /\ UNCHANGED mishaps
       \/ Mishap("llm") /\ End(j)
    /\ UNCHANGED <<stores, saved, flushing, gen, callers, history>>

StoreSummary(j) ==
    /\ jobs[j].pc = "storing"
    /\ summary' = jobs[j].old \cup Elements(ToCompress(jobs[j].hist))
    /\ jobs' = [jobs EXCEPT ![j].pc = "trimming"]
    /\ UNCHANGED <<l1, l2, saved, flushing, gen, callers, history, mishaps>>

\* LTRIM keeps the newest of what L1 holds now, not of what was compressed.  When
\* the call raises the new summary is kept, and L1 may or may not be trimmed.
Trim(j) ==
    /\ jobs[j].pc = "trimming"
    /\ \/ l1' = Newest(l1, Retain) /\ UNCHANGED mishaps
       \/ Mishap("l1") /\ l1' \in {l1, Newest(l1, Retain)}
    /\ End(j)
    /\ UNCHANGED <<l2, summary, saved, flushing, gen, callers, history>>

SummaryStep(j) ==
    StartSummary(j) \/ ReadSummary(j) \/ Think(j) \/ StoreSummary(j) \/ Trim(j)

-----------------------------------------------------------------------------
(* clear: L1, then L2, then the summary and the manager's lock.            *)

Quiet == flushing = {} /\ \A j \in JobIds : jobs[j] = NoJob

ClearL1(m) ==
    /\ mpc[m] = "idle"
    /\ clears < MaxClears
    /\ clears' = clears + 1
    /\ l1' = << >>
    /\ list' = [list EXCEPT ![m] = [x \in 1 .. saved |-> x]]
    /\ calm' = [calm EXCEPT ![m] = Quiet /\ \A n \in Managers : mpc[n] = "idle"]
    /\ Goto(m, "clearing L2")
    /\ UNCHANGED <<l2, summary, saved, tasks, gen, quietly, mishaps>>

ClearL2(m) ==
    /\ mpc[m] = "clearing L2"
    /\ l2' = << >>
    /\ Goto(m, "clearing summary")
    /\ UNCHANGED <<l1, summary, saved, tasks, gen, list, calm, history, mishaps>>

\* Mutant of ClearedSummary: clear does no more than the layers below it.
ClearedSummaryNot == summary
ClearedSummary == {}

ClearSummary(m) ==
    /\ mpc[m] = "clearing summary"
    /\ summary' = ClearedSummary
    /\ gen' = [gen EXCEPT ![m] = @ + 1]
    /\ quietly' = IF calm[m] THEN quietly \cup Elements(list[m]) ELSE quietly
    /\ list' = [list EXCEPT ![m] = << >>]
    /\ calm' = [calm EXCEPT ![m] = FALSE]
    /\ Goto(m, "idle")
    /\ UNCHANGED <<l1, l2, saved, tasks, clears, mishaps>>

-----------------------------------------------------------------------------
Caller(m) == CheckLength(m) \/ ReadL2(m) \/ Reload(m) \/ ClearL2(m) \/ ClearSummary(m)

Next == \/ \E m \in Managers : Save(m) \/ MissL1(m) \/ ClearL1(m) \/ Caller(m)
        \/ \E x \in Messages : Flush(x)
        \/ \E j \in JobIds : SummaryStep(j)
        \/ ExpireL1

Spec == Init /\ [][Next]_vars

\* Callers and tasks that have begun go on; nobody is obliged to call.
Fairness == /\ \A m \in Managers : WF_vars(Caller(m))
            /\ \A x \in Messages : WF_vars(Flush(x))
            /\ \A j \in JobIds : WF_vars(SummaryStep(j))

FairSpec == Spec /\ Fairness

-----------------------------------------------------------------------------
(* What must hold.                                                         *)

TypeOK ==
    /\ l1 \in Seq(Messages) /\ Len(l1) <= 2 * L1MaxLen
    /\ l2 \in Seq(Messages)
    /\ summary \subseteq 1 .. saved
    /\ saved \in 0 .. MaxMessages
    /\ flushing \subseteq 1 .. saved
    /\ jobs \in [JobIds -> {NoJob} \cup
            [pc : {"created", "reading", "thinking", "storing", "trimming"}, by : Managers,
             hist : Seq(Messages), gen : Nat, old : SUBSET (1 .. saved)]]
    /\ \A j \in JobIds : jobs[j] # NoJob => Len(jobs[j].hist) <= L1MaxLen
    /\ gen \in [Managers -> Nat]
    /\ mpc \in [Managers -> {"idle", "saved", "missed", "reloading", "clearing L2", "clearing summary"}]
    /\ list \in [Managers -> Seq(Messages)]
    /\ calm \in [Managers -> BOOLEAN]
    /\ quietly \subseteq 1 .. saved
    /\ clears \in 0 .. MaxClears
    /\ mishaps \in 0 .. MaxMishaps

\* The session's lock keeps what was compressed: as long as nothing is cleared a
\* later summary contains every message an earlier one was made from.
SummaryGrows == [][clears = 0 => summary \subseteq summary']_vars

\* When nothing failed, and no message came while the LLM was thinking, the trim
\* that ends a compression removes only what the summary holds.
TrimForgetsNothing == [][\A j \in JobIds :
    (/\ jobs[j].pc = "trimming" /\ jobs'[j].pc = "none"
     /\ clears = 0 /\ mishaps = 0
     /\ Len(l1) <= L1MaxLen /\ Newest(l1, 1) = Newest(jobs[j].hist, 1))
        => Elements(l1) \ Elements(l1') \subseteq summary]_vars

Remembered == Elements(l1) \cup Elements(l2) \cup summary

\* A clear that begins while no background task runs erases for good, in all
\* three places.
QuietEraseStays == quietly \cap Remembered = {}

\* The task beside the main chain saves every message in L2 in the end, unless
\* a write fails or the session is cleared.
SavedForGood == HasL2 => \A x \in Messages :
    (x <= saved) ~> (x \in Elements(l2) \/ mishaps > 0 \/ clears > 0)

=============================================================================
