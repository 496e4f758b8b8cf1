------------------------- MODULE SessionMemoryProofs -------------------------
(***************************************************************************)
(* Proofs about the memory of one session: type correctness for any number *)
(* of worker processes; and, for a session that one process serves, that   *)
(* summaries only grow, that what a quiet clear erased stays erased, and   *)
(* that a trim drops only messages the summary holds.                      *)
(***************************************************************************)
EXTENDS SessionMemory, SequenceTheorems, TLAPS

USE MemoryAssumption DEF MemoryAssumption

-----------------------------------------------------------------------------
(* Parts of a sequence.                                                    *)

LEMMA ElementsOf == ASSUME NEW S, NEW s \in Seq(S)
                    PROVE  Elements(s) \subseteq S /\ (s = << >> => Elements(s) = {})
<1>1. Len(s) \in Nat /\ s \in [1 .. Len(s) -> S] /\ DOMAIN s = 1 .. Len(s)
  BY LenProperties
<1>2. s = << >> => Len(s) = 0
  BY EmptySeq
<1> QED
  BY <1>1, <1>2 DEF Elements

LEMMA Part == ASSUME NEW S, NEW s \in Seq(S), NEW a \in Nat \ {0}, NEW b \in Nat, b <= Len(s)
              PROVE  /\ SubSeq(s, a, b) \in Seq(S)
                     /\ Len(SubSeq(s, a, b)) = (IF a <= b THEN b - a + 1 ELSE 0)
                     /\ Elements(SubSeq(s, a, b)) \subseteq Elements(s)
<1>1. /\ Len(s) \in Nat /\ DOMAIN s = 1 .. Len(s) /\ \A i \in 1 .. Len(s) : s[i] \in S
  BY LenProperties, ElementOfSeq
<1>2. a \in Int /\ b \in Int /\ \A i \in a .. b : s[i] \in S
  BY <1>1
<1> DEFINE t == SubSeq(s, a, b)
<1>3. /\ t \in Seq(S)
      /\ Len(t) = (IF a <= b THEN b - a + 1 ELSE 0)
      /\ \A i \in 1 .. b - a + 1 : t[i] = s[a + i - 1]
  BY <1>2, SubSeqProperties
<1> HIDE DEF t
<1>4. DOMAIN t = 1 .. Len(t)
  BY <1>3, LenProperties
<1>5. Elements(t) \subseteq Elements(s)
  <2> SUFFICES ASSUME NEW i \in DOMAIN t PROVE t[i] \in Elements(s)
    BY DEF Elements
  <2>1. i \in 1 .. b - a + 1 /\ a + i - 1 \in DOMAIN s
    BY <1>1, <1>3, <1>4
  <2> QED
    BY <1>3, <2>1 DEF Elements
<1> QED
  BY <1>3, <1>5 DEF t

LEMMA NewestPart == ASSUME NEW S, NEW s \in Seq(S), NEW n \in Nat
                    PROVE  /\ Newest(s, n) \in Seq(S) /\ Len(Newest(s, n)) <= n
                           /\ Elements(Newest(s, n)) \subseteq Elements(s)
                           /\ s # << >> /\ n # 0 => Newest(s, n) # << >>
<1>1. Len(s) \in Nat /\ (s # << >> => Len(s) # 0) /\ Len(<< >>) = 0
  BY LenProperties, EmptySeq
<1>2. CASE Len(s) <= n
  BY <1>1, <1>2 DEF Newest
<1>3. CASE Len(s) > n
  <2>1. Len(s) - n + 1 \in Nat \ {0}
    BY <1>1, <1>3
  <2>2. Newest(s, n) = SubSeq(s, Len(s) - n + 1, Len(s))
    BY <1>1, <1>3 DEF Newest
  <2>3. /\ Newest(s, n) \in Seq(S) /\ Elements(Newest(s, n)) \subseteq Elements(s)
        /\ Len(Newest(s, n)) = (IF Len(s) - n + 1 <= Len(s) THEN Len(s) - (Len(s) - n + 1) + 1 ELSE 0)
    BY <1>1, <2>1, <2>2, Part
  <2>4. Len(Newest(s, n)) = n
    BY <1>1, <1>3, <2>3
  <2> QED
    BY <1>1, <2>3, <2>4
<1> QED
  BY <1>1, <1>2, <1>3

LEMMA OldestPart == ASSUME NEW S, NEW s \in Seq(S), NEW n \in Nat
                    PROVE  /\ Oldest(s, n) \in Seq(S)
                           /\ Elements(Oldest(s, n)) \subseteq Elements(s)
<1> DEFINE b == IF Len(s) <= n THEN 0 ELSE Len(s) - n
<1>1. b \in Nat /\ b <= Len(s)
  BY LenProperties
<1> HIDE DEF b
<1>2. Oldest(s, n) = SubSeq(s, 1, b)
  BY DEF Oldest, b
<1> QED
  BY <1>1, <1>2, Part

LEMMA Appended == ASSUME NEW S, NEW s \in Seq(S), NEW x \in S
                  PROVE  Append(s, x) \in Seq(S) /\ Elements(Append(s, x)) \subseteq Elements(s) \cup {x}
<1> DEFINE t == Append(s, x)
<1>1. /\ t \in Seq(S) /\ Len(t) = Len(s) + 1 /\ Len(s) \in Nat
      /\ DOMAIN s = 1 .. Len(s) /\ DOMAIN t = 1 .. Len(t)
      /\ \A i \in 1 .. Len(s) : t[i] = s[i]
      /\ t[Len(s) + 1] = x
  BY AppendProperties, LenProperties
<1> HIDE DEF t
<1>2. \A i \in DOMAIN t : i \in DOMAIN s \/ i = Len(s) + 1
  BY <1>1
<1> QED
  BY <1>1, <1>2 DEF Elements, t

LEMMA TailPart == ASSUME NEW S, NEW s \in Seq(S), s # << >>
                  PROVE  /\ Head(s) \in S /\ Head(s) \in Elements(s) /\ Tail(s) \in Seq(S)
                         /\ Elements(Tail(s)) \subseteq Elements(s)
                         /\ Len(s) # 1 => Tail(s) # << >>
<1>1. Len(s) \in Nat \ {0} /\ DOMAIN s = 1 .. Len(s)
  BY EmptySeq, LenProperties
<1>2. Head(s) = s[1] /\ Head(s) \in S
  BY <1>1, HeadTailProperties
<1> DEFINE t == Tail(s)
<1>3. /\ t \in Seq(S) /\ Len(t) = Len(s) - 1 /\ \A i \in 1 .. Len(t) : t[i] = s[i + 1]
  BY HeadTailProperties
<1> HIDE DEF t
<1>4. DOMAIN t = 1 .. Len(t) /\ (t = << >> => Len(t) = 0)
  BY <1>3, LenProperties, EmptySeq
<1>5. Elements(t) \subseteq Elements(s)
  <2> SUFFICES ASSUME NEW i \in DOMAIN t PROVE t[i] \in Elements(s)
    BY DEF Elements
  <2>1. i + 1 \in DOMAIN s /\ t[i] = s[i + 1]
    BY <1>1, <1>3, <1>4
  <2> QED
    BY <2>1 DEF Elements
<1>6. Head(s) \in Elements(s)
  BY <1>1, <1>2 DEF Elements
<1>7. Len(s) # 1 => t # << >>
  BY <1>1, <1>3, <1>4
<1> QED
  BY <1>2, <1>3, <1>5, <1>6, <1>7 DEF t

LEMMA Sizes == Retain \in Nat /\ 2 * L1MaxLen \in Nat
<1>1. (L1MaxLen * 4) \div 10 \in Int
  OBVIOUS
<1> QED
  BY <1>1 DEF Retain, AtLeastOne

-----------------------------------------------------------------------------
(* The shape of the state, and where a message is still to be found.       *)

JobRecs == {r \in [pc : {"created", "reading", "thinking", "storing", "trimming"}, by : Managers,
                   hist : Seq(Messages), gen : Nat, old : SUBSET Messages] :
               Len(r.hist) <= L1MaxLen}
CallerStates == {"idle", "saved", "missed", "reloading", "clearing L2", "clearing summary"}

Shape ==
    /\ l1 \in Seq(Messages) /\ Len(l1) <= 2 * L1MaxLen
    /\ l2 \in Seq(Messages)
    /\ summary \subseteq Messages
    /\ saved \in 0 .. MaxMessages
    /\ flushing \subseteq Messages
    /\ jobs \in [JobIds -> {NoJob} \cup JobRecs]
    /\ gen \in [Managers -> Nat]
    /\ mpc \in [Managers -> CallerStates]
    /\ list \in [Managers -> Seq(Messages)]
    /\ calm \in [Managers -> BOOLEAN]
    /\ quietly \subseteq Messages
    /\ clears \in 0 .. MaxClears
    /\ mishaps \in 0 .. MaxMishaps
    /\ \A m \in Managers : mpc[m] = "reloading" => list[m] # << >>

\* What the stores, the background tasks and a reload under way hold.
InJob(x, j) == jobs[j] # NoJob /\ (x \in Elements(jobs[j].hist) \/ x \in jobs[j].old)
Held(x) == \/ x \in Elements(l1) \/ x \in Elements(l2) \/ x \in summary \/ x \in flushing
           \/ \E j \in JobIds : InJob(x, j)
           \/ \E m \in Managers : mpc[m] = "reloading" /\ x \in Elements(list[m])

\* A step keeps the shape, and nothing turns up that was not there or is just saved.
NewsOnly == \A x \in Messages : Held(x)' => Held(x) \/ (x = saved + 1 /\ saved' = saved + 1)
Sound == Shape' /\ NewsOnly

LEMMA ShapeInit == Init => Shape
<1> SUFFICES ASSUME Init PROVE Shape
  OBVIOUS
<1>1. << >> \in Seq(Messages) /\ Len(<< >>) = 0
  BY EmptySeq
<1> QED
  BY <1>1 DEF Init, Shape, CallerStates

LEMMA JobFacts == /\ NoJob \notin JobRecs /\ NoJob.pc = "none"
                  /\ \A r \in JobRecs :
                        /\ r # NoJob /\ r.by \in Managers /\ r.hist \in Seq(Messages)
                        /\ Len(r.hist) <= L1MaxLen /\ r.old \subseteq Messages /\ r.gen \in Nat
                        /\ r.pc \notin {"none"}
  BY DEF NoJob, JobRecs

LEMMA PushedFacts == ASSUME Shape, NEW x \in Messages
                     PROVE  /\ Pushed(x) \in Seq(Messages) /\ Len(Pushed(x)) <= 2 * L1MaxLen
                            /\ Elements(Pushed(x)) \subseteq Elements(l1) \cup {x}
<1>1. l1 \in Seq(Messages)
  BY DEF Shape
<1>2. Append(l1, x) \in Seq(Messages) /\ Elements(Append(l1, x)) \subseteq Elements(l1) \cup {x}
  BY <1>1, Appended
<1> QED
  BY <1>2, NewestPart, Sizes DEF Pushed

LEMMA MishapType == ASSUME Shape, NEW k, Mishap(k) \/ UNCHANGED mishaps
                    PROVE  mishaps' \in 0 .. MaxMishaps
  BY DEF Shape, Mishap

\* Only the caller of m moves, and nothing is held that was not.
LEMMA SoundSave == ASSUME Shape, NEW m \in Managers, Save(m) PROVE Sound
<1>1. /\ saved' = saved + 1 /\ saved + 1 \in Messages /\ saved' \in 0 .. MaxMessages
      /\ l1' = Pushed(saved + 1) \/ UNCHANGED l1
      /\ flushing' \subseteq flushing \cup {saved + 1}
      /\ mpc' = [mpc EXCEPT ![m] = "saved"]
      /\ UNCHANGED <<l2, summary, jobs, gen, list, calm, quietly, clears>>
  BY DEF Save, Shape, Messages, Goto, Flushing, history
<1>2. l1' \in Seq(Messages) /\ Len(l1') <= 2 * L1MaxLen /\ Elements(l1') \subseteq Elements(l1) \cup {saved + 1}
  BY <1>1, PushedFacts DEF Shape
<1>3. mishaps' \in 0 .. MaxMishaps
  BY MishapType DEF Save
<1>4. Shape'
  BY <1>1, <1>2, <1>3 DEF Shape, CallerStates
<1>5. NewsOnly
  BY <1>1, <1>2 DEF NewsOnly, Held, InJob, Shape
<1> QED
  BY <1>4, <1>5 DEF Sound

LEMMA SoundCheckLength == ASSUME Shape, NEW m \in Managers, CheckLength(m) PROVE Sound
<1>1. /\ mpc[m] = "saved" /\ mpc' = [mpc EXCEPT ![m] = "idle"]
      /\ UNCHANGED <<l1, l2, summary, saved, flushing, gen, list, calm, quietly, clears>>
  BY DEF CheckLength, Goto, stores, history
<1>m. mishaps' \in 0 .. MaxMishaps
  BY MishapType DEF CheckLength
<1> DEFINE hist == Window
           r == Job(m, hist)
<1>2. hist \in Seq(Messages) /\ Len(hist) <= L1MaxLen /\ Elements(hist) \subseteq Elements(l1)
  BY NewestPart DEF Window, Shape
<1> HIDE DEF hist
<1>3. r \in JobRecs /\ r.hist = hist /\ r.old = {}
  BY <1>2 DEF Job, JobRecs
<1> HIDE DEF r
<1>4. UNCHANGED jobs \/ \E j \in JobIds : jobs' = [jobs EXCEPT ![j] = r]
  BY DEF CheckLength, hist, r
<1>5. Shape'
  BY <1>1, <1>m, <1>3, <1>4 DEF Shape, CallerStates
<1>6. NewsOnly
  BY <1>1, <1>2, <1>3, <1>4 DEF NewsOnly, Held, InJob, Shape
<1> QED
  BY <1>5, <1>6 DEF Sound

LEMMA SoundFlush == ASSUME Shape, NEW x \in Messages, Flush(x) PROVE Sound
<1>1. /\ x \in flushing
      /\ l2' = Append(l2, x) \/ UNCHANGED l2
      /\ flushing' = flushing \ {x}
      /\ UNCHANGED <<l1, summary, saved, jobs, gen, mpc, list, calm, quietly, clears>>
  BY DEF Flush, callers, history
<1>2. l2' \in Seq(Messages) /\ Elements(l2') \subseteq Elements(l2) \cup {x}
  <2>1. l2 \in Seq(Messages)
    BY DEF Shape
  <2>2. Append(l2, x) \in Seq(Messages) /\ Elements(Append(l2, x)) \subseteq Elements(l2) \cup {x}
    BY <2>1, Appended
  <2> QED
    BY <1>1, <2>1, <2>2
<1>3. mishaps' \in 0 .. MaxMishaps
  BY MishapType DEF Flush
<1>4. Shape'
  BY <1>1, <1>2, <1>3 DEF Shape
<1>5. NewsOnly
  BY <1>1, <1>2 DEF NewsOnly, Held, InJob
<1> QED
  BY <1>4, <1>5 DEF Sound

LEMMA SoundMiss == ASSUME Shape, NEW m \in Managers, MissL1(m) PROVE Sound
<1>1. /\ mpc' = [mpc EXCEPT ![m] = "missed"]
      /\ UNCHANGED <<l1, l2, summary, saved, flushing, jobs, gen, list, calm, quietly, clears>>
      /\ mishaps' \in 0 .. MaxMishaps
  BY MishapType DEF MissL1, Goto, stores, tasks, history
<1>2. Shape'
  BY <1>1 DEF Shape, CallerStates
<1>3. NewsOnly
  BY <1>1 DEF NewsOnly, Held, InJob, Shape
<1> QED
  BY <1>2, <1>3 DEF Sound

LEMMA SoundReadL2 == ASSUME Shape, NEW m \in Managers, ReadL2(m) PROVE Sound
<1> DEFINE s == Newest(l2, L1MaxLen)
<1>1. /\ \/ /\ list' = [list EXCEPT ![m] = s]
            /\ mpc' = [mpc EXCEPT ![m] = IF l2 = << >> THEN "idle" ELSE "reloading"]
         \/ UNCHANGED list /\ mpc' = [mpc EXCEPT ![m] = "idle"]
      /\ UNCHANGED <<l1, l2, summary, saved, flushing, jobs, gen, calm, quietly, clears>>
      /\ mishaps' \in 0 .. MaxMishaps
  BY MishapType DEF ReadL2, Goto, stores, tasks, history
<1>2. s \in Seq(Messages) /\ Elements(s) \subseteq Elements(l2) /\ (l2 # << >> => s # << >>)
  BY NewestPart DEF Shape
<1> HIDE DEF s
<1>3. Shape'
  BY <1>1, <1>2 DEF Shape, CallerStates
<1>4. NewsOnly
  BY <1>1, <1>2 DEF NewsOnly, Held, InJob, Shape
<1> QED
  BY <1>3, <1>4 DEF Sound

LEMMA SoundReload == ASSUME Shape, NEW m \in Managers, Reload(m) PROVE Sound
<1> DEFINE s == list[m]
           x == Head(s)
           t == Tail(s)
<1>1. /\ mpc[m] = "reloading" /\ (l1' = Pushed(x) \/ UNCHANGED l1)
      /\ list' = [list EXCEPT ![m] = t]
      /\ mpc' = [mpc EXCEPT ![m] = IF Len(s) = 1 THEN "idle" ELSE "reloading"]
      /\ UNCHANGED <<l2, summary, saved, flushing, jobs, gen, calm, quietly, clears>>
      /\ mishaps' \in 0 .. MaxMishaps
  BY MishapType DEF Reload, Goto, tasks, history, Shape
<1>2. s \in Seq(Messages) /\ s # << >>
  BY <1>1 DEF Shape
<1>3. /\ x \in Messages /\ x \in Elements(s) /\ t \in Seq(Messages)
      /\ Elements(t) \subseteq Elements(s) /\ (Len(s) # 1 => t # << >>)
  BY <1>2, TailPart
<1> HIDE DEF x, t
<1>4. l1' \in Seq(Messages) /\ Len(l1') <= 2 * L1MaxLen /\ Elements(l1') \subseteq Elements(l1) \cup {x}
  BY <1>1, <1>3, PushedFacts DEF Shape
<1>5. Shape'
  BY <1>1, <1>3, <1>4 DEF Shape, CallerStates
<1>6. NewsOnly
  BY <1>1, <1>3, <1>4 DEF NewsOnly, Held, InJob, Shape
<1> QED
  BY <1>5, <1>6 DEF Sound

LEMMA SoundExpire == ASSUME Shape, ExpireL1 PROVE Sound
<1>1. /\ l1' = << >>
      /\ UNCHANGED <<l2, summary, saved, flushing, jobs, gen, mpc, list, calm, quietly, clears>>
  BY DEF ExpireL1, tasks, callers, history
<1>2. << >> \in Seq(Messages) /\ Len(<< >>) = 0 /\ Elements(l1') = {}
  BY <1>1, EmptySeq, ElementsOf
<1>3. mishaps' \in 0 .. MaxMishaps
  BY MishapType DEF ExpireL1
<1>4. Shape'
  BY <1>1, <1>2, <1>3, Sizes DEF Shape
<1>5. NewsOnly
  BY <1>1, <1>2 DEF NewsOnly, Held, InJob
<1> QED
  BY <1>4, <1>5 DEF Sound

\* What becomes of a summary task: it ends, or goes on with what it had to compress
\* and, once it has read it, the summary.
JobBecomes(j, r) ==
    /\ jobs' = [jobs EXCEPT ![j] = r]
    /\ \/ r = NoJob
       \/ /\ jobs[j] \in JobRecs /\ r \in JobRecs
          /\ r.hist = jobs[j].hist /\ r.old \in {jobs[j].old, summary}

LEMMA SoundJob == ASSUME Shape, NEW j \in JobIds, NEW r, JobBecomes(j, r),
                         l1' \in {l1, Newest(l1, Retain)}, summary' \subseteq Messages,
                         \A x \in Messages : x \in summary' => x \in summary \/ InJob(x, j),
                         mishaps' \in 0 .. MaxMishaps,
                         UNCHANGED <<l2, saved, flushing, gen, callers, history>>
                  PROVE  Sound
<1>1. l1' \in Seq(Messages) /\ Len(l1') <= 2 * L1MaxLen /\ Elements(l1') \subseteq Elements(l1)
  <2>1. l1 \in Seq(Messages) /\ Len(l1) <= 2 * L1MaxLen
    BY DEF Shape
  <2>2. CASE l1' = l1
    BY <2>1, <2>2
  <2>3. CASE l1' = Newest(l1, Retain) /\ l1' # l1
    <3>1. Len(l1) > Retain
      BY <2>1, <2>3, LenProperties, Sizes DEF Newest
    <3>2. Newest(l1, Retain) \in Seq(Messages) /\ Len(Newest(l1, Retain)) <= Retain
          /\ Elements(Newest(l1, Retain)) \subseteq Elements(l1)
      BY <2>1, Sizes, NewestPart
    <3>3. Len(l1) \in Nat /\ Len(Newest(l1, Retain)) \in Nat
      BY <2>1, <3>2, LenProperties
    <3> QED
      BY <2>1, <2>3, <3>1, <3>2, <3>3, Sizes
  <2> QED
    BY <2>2, <2>3
<1>2. jobs' \in [JobIds -> {NoJob} \cup JobRecs]
  BY DEF Shape, JobBecomes
<1>3. Shape'
  BY <1>1, <1>2 DEF Shape, callers, history
<1>4. ASSUME NEW x \in Messages, NEW k \in JobIds, InJob(x, k)' PROVE InJob(x, k) \/ x \in summary
  <2>1. CASE k # j
    <3>1. jobs'[k] = jobs[k]
      BY <2>1 DEF JobBecomes, Shape
    <3> QED
      BY <1>4, <3>1 DEF InJob
  <2>2. CASE k = j
    <3>1. jobs'[j] = r
      BY DEF JobBecomes, Shape
    <3>2. jobs[j] # NoJob /\ r.hist = jobs[j].hist /\ r.old \in {jobs[j].old, summary}
      BY <1>4, <2>2, <3>1, JobFacts DEF JobBecomes, InJob
    <3> QED
      BY <1>4, <2>2, <3>1, <3>2 DEF InJob
  <2> QED
    BY <2>1, <2>2
<1>5. NewsOnly
  BY <1>1, <1>4 DEF NewsOnly, Held, callers
<1> QED
  BY <1>3, <1>5 DEF Sound

\* The steps of a summary task, and what each makes of it.
LEMMA JobSteps ==
    ASSUME Shape, NEW j \in JobIds, SummaryStep(j)
    PROVE  /\ jobs[j] \in JobRecs
           /\ UNCHANGED <<l2, saved, flushing, gen, callers, history>>
           /\ mishaps' \in 0 .. MaxMishaps
           /\ l1' \in {l1, Newest(l1, Retain)}
           /\ \/ StartSummary(j) \/ ReadSummary(j) \/ Think(j) \/ Trim(j)
              \/ StoreSummary(j) /\ summary' = jobs[j].old \cup Elements(ToCompress(jobs[j].hist))
           /\ summary' # summary => jobs[j].pc = "storing"
           /\ \E r : /\ JobBecomes(j, r)
                     /\ \/ r = NoJob
                        \/ r.pc = "reading" /\ r.gen = gen[jobs[j].by] /\ ~Locked(jobs[j].by)
                           /\ jobs[j].pc = "created"
                        \/ r.pc = "thinking" /\ r.old = summary /\ r.gen = jobs[j].gen
                           /\ jobs[j].pc = "reading"
                        \/ r.pc = "storing" /\ r.old = jobs[j].old /\ r.gen = jobs[j].gen
                           /\ jobs[j].pc = "thinking"
                        \/ r.pc = "trimming" /\ r.gen = jobs[j].gen /\ jobs[j].pc = "storing"
<1>1. jobs[j] \in JobRecs
  BY JobFacts DEF Shape, SummaryStep, StartSummary, ReadSummary, Think, StoreSummary, Trim
<1>2. /\ UNCHANGED <<l2, saved, flushing, gen, callers, history>>
      /\ l1' \in {l1, Newest(l1, Retain)}
      /\ \/ StartSummary(j) \/ ReadSummary(j) \/ Think(j) \/ Trim(j)
         \/ StoreSummary(j) /\ summary' = jobs[j].old \cup Elements(ToCompress(jobs[j].hist))
      /\ summary' # summary => jobs[j].pc = "storing"
  BY DEF SummaryStep, StartSummary, ReadSummary, Think, StoreSummary, Trim, stores, history, callers
<1>3. mishaps' \in 0 .. MaxMishaps
  BY MishapType DEF SummaryStep, StartSummary, ReadSummary, Think, StoreSummary, Trim
<1> DEFINE c == jobs[j]
           g == gen[c.by]
<1>4. g \in Nat /\ summary \in SUBSET Messages
  BY <1>1, JobFacts DEF Shape
<1>5. CASE End(j)
  BY <1>1, <1>2, <1>3, <1>5 DEF End, JobBecomes
<1>6. CASE StartSummary(j) /\ ~End(j)
  <2> DEFINE r == [c EXCEPT !.pc = "reading", !.gen = g]
  <2>1. ~Locked(c.by) /\ c.pc = "created" /\ jobs' = [jobs EXCEPT ![j] = r]
    BY <1>6 DEF StartSummary, Shape
  <2>2. r \in JobRecs /\ r.pc = "reading" /\ r.hist = c.hist /\ r.old = c.old /\ r.gen = g
    BY <1>1, <1>4 DEF JobRecs
  <2> HIDE DEF r
  <2>3. JobBecomes(j, r)
    BY <1>1, <2>1, <2>2 DEF JobBecomes
  <2> QED
    BY <1>1, <1>2, <1>3, <2>1, <2>2, <2>3
<1>7. CASE ReadSummary(j) /\ ~End(j)
  <2> DEFINE r == [c EXCEPT !.pc = "thinking", !.old = summary]
  <2>1. c.pc = "reading" /\ jobs' = [jobs EXCEPT ![j] = r]
    BY <1>7 DEF ReadSummary, Shape
  <2>2. r \in JobRecs /\ r.pc = "thinking" /\ r.hist = c.hist /\ r.old = summary /\ r.gen = c.gen
    BY <1>1, <1>4 DEF JobRecs
  <2> HIDE DEF r
  <2>3. JobBecomes(j, r)
    BY <1>1, <2>1, <2>2 DEF JobBecomes
  <2> QED
    BY <1>1, <1>2, <1>3, <2>1, <2>2, <2>3
<1>8. CASE Think(j) /\ ~End(j)
  <2> DEFINE r == [c EXCEPT !.pc = "storing"]
  <2>1. c.pc = "thinking" /\ jobs' = [jobs EXCEPT ![j] = r]
    BY <1>8 DEF Think, Shape
  <2>2. r \in JobRecs /\ r.pc = "storing" /\ r.hist = c.hist /\ r.old = c.old /\ r.gen = c.gen
    BY <1>1 DEF JobRecs
  <2> HIDE DEF r
  <2>3. JobBecomes(j, r)
    BY <1>1, <2>1, <2>2 DEF JobBecomes
  <2> QED
    BY <1>1, <1>2, <1>3, <2>1, <2>2, <2>3
<1>9. CASE StoreSummary(j)
  <2> DEFINE r == [c EXCEPT !.pc = "trimming"]
  <2>1. c.pc = "storing" /\ jobs' = [jobs EXCEPT ![j] = r]
    BY <1>9 DEF StoreSummary, Shape
  <2>2. r \in JobRecs /\ r.pc = "trimming" /\ r.hist = c.hist /\ r.old = c.old /\ r.gen = c.gen
    BY <1>1 DEF JobRecs
  <2> HIDE DEF r
  <2>3. JobBecomes(j, r)
    BY <1>1, <2>1, <2>2 DEF JobBecomes
  <2> QED
    BY <1>1, <1>2, <1>3, <2>1, <2>2, <2>3
<1> QED
  BY <1>5, <1>6, <1>7, <1>8, <1>9 DEF SummaryStep, Trim

LEMMA SoundSummary == ASSUME Shape, NEW j \in JobIds, SummaryStep(j) PROVE Sound
<1>1. /\ jobs[j] \in JobRecs
      /\ UNCHANGED <<l2, saved, flushing, gen, callers, history>>
      /\ mishaps' \in 0 .. MaxMishaps
      /\ l1' \in {l1, Newest(l1, Retain)}
  BY JobSteps
<1>2. PICK r : JobBecomes(j, r)
  BY JobSteps
<1>3. CASE UNCHANGED summary
  <2>1. summary' \subseteq Messages /\ \A x \in Messages : x \in summary' => x \in summary \/ InJob(x, j)
    BY <1>3 DEF Shape
  <2> QED
    BY <1>1, <1>2, <2>1, SoundJob
<1>4. CASE summary' = jobs[j].old \cup Elements(ToCompress(jobs[j].hist))
  <2>1. jobs[j].hist \in Seq(Messages) /\ jobs[j].old \subseteq Messages /\ jobs[j] # NoJob
    BY <1>1, JobFacts
  <2>2. Elements(ToCompress(jobs[j].hist)) \subseteq Elements(jobs[j].hist)
    BY <2>1, OldestPart, Sizes DEF ToCompress
  <2>3. summary' \subseteq Messages /\ \A x \in Messages : x \in summary' => x \in summary \/ InJob(x, j)
    BY <1>4, <2>1, <2>2, ElementsOf DEF InJob
  <2> QED
    BY <1>1, <1>2, <2>3, SoundJob
<1> QED
  BY <1>3, <1>4 DEF SummaryStep, StartSummary, ReadSummary, Think, StoreSummary, Trim, stores

LEMMA Counted == ASSUME NEW n \in 0 .. MaxMessages
                 PROVE  [x \in 1 .. n |-> x] \in Seq(Messages) /\ Elements([x \in 1 .. n |-> x]) = 1 .. n
<1> DEFINE s == [x \in 1 .. n |-> x]
<1>1. s \in Seq(Messages)
  BY DEF Messages
<1>2. Elements(s) = 1 .. n
  BY DEF Elements
<1> QED
  BY <1>1, <1>2

LEMMA SoundClear ==
    ASSUME Shape, NEW m \in Managers, ClearL1(m) \/ ClearL2(m) \/ ClearSummary(m) PROVE Sound
<1>1. << >> \in Seq(Messages) /\ Len(<< >>) = 0 /\ Elements(<< >>) = {} /\ 0 <= 2 * L1MaxLen
  <2>1. << >> \in Seq(Messages) /\ Len(<< >>) = 0 /\ 0 <= 2 * L1MaxLen
    BY EmptySeq, Sizes
  <2> QED
    BY <2>1, ElementsOf
<1>2. CASE ClearL1(m)
  <2>1. /\ clears' = clears + 1 /\ clears < MaxClears /\ l1' = << >>
        /\ list' = [list EXCEPT ![m] = [x \in 1 .. saved |-> x]]
        /\ mpc' = [mpc EXCEPT ![m] = "clearing L2"]
        /\ UNCHANGED <<l2, summary, saved, flushing, jobs, gen, quietly, mishaps>>
    BY <1>2 DEF ClearL1, Goto, tasks
  <2>2. calm' \in [Managers -> BOOLEAN]
    BY <1>2, Zenon DEF ClearL1, Shape
  <2>3. list' \in [Managers -> Seq(Messages)]
    <3>1. [x \in 1 .. saved |-> x] \in Seq(Messages)
      BY Counted DEF Shape
    <3> HIDE DEF Messages
    <3> QED
      BY <2>1, <3>1, Zenon DEF Shape
  <2>4. mpc' \in [Managers -> CallerStates] /\ \A n \in Managers : mpc'[n] = "reloading" => list'[n] # << >>
    BY <2>1 DEF Shape, CallerStates
  <2>5. Shape'
    <3>1. clears' \in 0 .. MaxClears /\ l1' \in Seq(Messages) /\ Len(l1') <= 2 * L1MaxLen
      <4>1. clears \in 0 .. MaxClears
        BY DEF Shape
      <4>2. clears' = clears + 1 /\ clears < MaxClears
        BY <2>1
      <4>3. clears' \in 0 .. MaxClears
        BY <4>1, <4>2
      <4> QED
        BY <1>1, <2>1, <4>3
    <3> QED
      BY <2>1, <2>2, <2>3, <2>4, <3>1, Zenon DEF Shape
  <2>6. \A n \in Managers : mpc'[n] = "reloading" => mpc[n] = "reloading" /\ list'[n] = list[n]
    BY <2>1 DEF Shape
  <2>7. NewsOnly
    BY <1>1, <2>1, <2>6 DEF NewsOnly, Held, InJob
  <2> QED
    BY <2>5, <2>7 DEF Sound
<1>3. CASE ClearL2(m)
  <2>1. /\ l2' = << >> /\ mpc' = [mpc EXCEPT ![m] = "clearing summary"]
        /\ UNCHANGED <<l1, summary, saved, flushing, jobs, gen, list, calm, quietly, clears, mishaps>>
    BY <1>3 DEF ClearL2, Goto, tasks, history
  <2>2. Shape'
    BY <1>1, <2>1 DEF Shape, CallerStates
  <2>3. NewsOnly
    BY <1>1, <2>1 DEF NewsOnly, Held, InJob, Shape
  <2> QED
    BY <2>2, <2>3 DEF Sound
<1>4. CASE ClearSummary(m)
  <2>1. /\ summary' = {} /\ mpc' = [mpc EXCEPT ![m] = "idle"]
        /\ gen' = [gen EXCEPT ![m] = @ + 1]
        /\ list' = [list EXCEPT ![m] = << >>]
        /\ calm' = [calm EXCEPT ![m] = FALSE]
        /\ UNCHANGED <<l1, l2, saved, flushing, jobs, clears, mishaps>>
    BY <1>4 DEF ClearSummary, ClearedSummary, Goto, tasks
  <2>2. quietly' \subseteq Messages
    <3>1. Elements(list[m]) \subseteq Messages
      BY ElementsOf DEF Shape
    <3> QED
      BY <1>4, <3>1 DEF ClearSummary, Shape
  <2>3. Shape'
    <3>1. gen' \in [Managers -> Nat]
      <4>1. gen \in [Managers -> Nat] /\ gen' = [gen EXCEPT ![m] = @ + 1]
        BY <2>1 DEF Shape
      <4> QED
        BY <4>1
    <3>5. mpc' \in [Managers -> CallerStates]
      BY <2>1 DEF Shape, CallerStates
    <3>4. calm' \in [Managers -> BOOLEAN]
      BY <2>1, Zenon DEF Shape
    <3>2. list' \in [Managers -> Seq(Messages)]
      BY <1>1, <2>1 DEF Shape
    <3>3. \A n \in Managers : mpc'[n] = "reloading" => list'[n] # << >>
      BY <2>1 DEF Shape
    <3> QED
      BY <2>1, <2>2, <3>1, <3>2, <3>3, <3>4, <3>5, Zenon DEF Shape
  <2>4. NewsOnly
    BY <2>1 DEF NewsOnly, Held, InJob, Shape
  <2> QED
    BY <2>3, <2>4 DEF Sound
<1> QED
  BY <1>2, <1>3, <1>4

LEMMA SoundStep == ASSUME Shape, [Next]_vars PROVE Sound
<1>1. ASSUME NEW m \in Managers, Save(m) \/ MissL1(m) \/ ClearL1(m) \/ Caller(m) PROVE Sound
  BY <1>1, SoundSave, SoundMiss, SoundClear, SoundCheckLength, SoundReadL2, SoundReload DEF Caller
<1>2. ASSUME NEW x \in Messages, Flush(x) PROVE Sound
  BY <1>2, SoundFlush
<1>3. ASSUME NEW j \in JobIds, SummaryStep(j) PROVE Sound
  BY <1>3, SoundSummary
<1>4. CASE ExpireL1
  BY <1>4, SoundExpire
<1>5. CASE UNCHANGED vars
  <2>1. UNCHANGED <<l1, l2, summary, saved, flushing, jobs, gen, mpc, list, calm, quietly, clears, mishaps>>
    BY <1>5 DEF vars, stores, tasks, callers, history
  <2>2. Shape'
    BY <2>1 DEF Shape
  <2>3. NewsOnly
    BY <2>1 DEF NewsOnly, Held, InJob
  <2> QED
    BY <2>2, <2>3 DEF Sound
<1> QED
  BY <1>1, <1>2, <1>3, <1>4, <1>5 DEF Next

-----------------------------------------------------------------------------
(* Types: only what was saved is ever held, listed or erased.              *)

Known == /\ \A x \in Messages : Held(x) => x \in 1 .. saved
         /\ \A m \in Managers : Elements(list[m]) \subseteq 1 .. saved
         /\ quietly \subseteq 1 .. saved

LEMMA NothingHeld == Init => \A x \in Messages : ~Held(x)
<1>1. Elements(<< >>) = {}
  BY EmptySeq, ElementsOf
<1> QED
  BY <1>1 DEF Init, Held, InJob, NoJob

\* What a manager lists comes from the cold store, its own list, or the counter.
LEMMA Listed == ASSUME Shape, Known, [Next]_vars, NEW m \in Managers, saved' \in {saved, saved + 1}
                PROVE  Elements(list'[m]) \subseteq 1 .. saved
<1>1. CASE list'[m] = list[m]
  BY <1>1 DEF Known
<1>2. CASE ReadL2(m) /\ list'[m] # list[m]
  <2>1. list'[m] = Newest(l2, L1MaxLen)
    BY <1>2 DEF ReadL2, Shape
  <2>2. Elements(list'[m]) \subseteq Elements(l2) /\ Elements(l2) \subseteq Messages
    BY <2>1, NewestPart, ElementsOf DEF Shape
  <2> QED
    BY <2>2 DEF Known, Held
<1>3. CASE Reload(m)
  <2>1. list'[m] = Tail(list[m]) /\ list[m] \in Seq(Messages) /\ list[m] # << >>
    BY <1>3 DEF Reload, Shape
  <2> QED
    BY <2>1, TailPart DEF Known
<1>4. CASE ClearL1(m)
  <2>1. list'[m] = [x \in 1 .. saved |-> x]
    BY <1>4 DEF ClearL1, Shape
  <2> QED
    BY <2>1, Counted DEF Shape
<1>5. CASE ClearSummary(m)
  <2>1. list'[m] = << >>
    BY <1>5 DEF ClearSummary, Shape
  <2> QED
    BY <2>1, EmptySeq, ElementsOf
<1>6. ASSUME NEW n \in Managers, Save(n) \/ MissL1(n) \/ CheckLength(n) \/ ClearL2(n)
      PROVE  list'[m] = list[m]
  BY <1>6 DEF Save, MissL1, CheckLength, ClearL2
<1>7. ASSUME NEW n \in Managers, n # m, ReadL2(n) \/ Reload(n) \/ ClearL1(n) \/ ClearSummary(n)
      PROVE  list'[m] = list[m]
  BY <1>7 DEF ReadL2, Reload, ClearL1, ClearSummary, Shape
<1>8. ASSUME \/ \E x \in Messages : Flush(x)
             \/ \E j \in JobIds : SummaryStep(j)
             \/ ExpireL1
             \/ UNCHANGED vars
      PROVE  list'[m] = list[m]
  BY <1>8 DEF Flush, SummaryStep, StartSummary, ReadSummary, Think, StoreSummary, Trim, ExpireL1,
     vars, callers
<1> QED
  BY <1>1, <1>2, <1>3, <1>4, <1>5, <1>6, <1>7, <1>8 DEF Next, Caller

LEMMA SavedGrows == ASSUME Shape, [Next]_vars
                    PROVE  saved' \in {saved, saved + 1} /\ saved \in Nat
<1>1. saved \in Nat
  BY DEF Shape
<1>2. saved' = saved \/ saved' = saved + 1
  BY Zenon DEF Next, Caller, Save, MissL1, ClearL1, CheckLength, ReadL2, Reload, ClearL2,
     ClearSummary, Flush, SummaryStep, StartSummary, ReadSummary, Think, StoreSummary, Trim,
     ExpireL1, vars
<1> QED
  BY <1>1, <1>2

LEMMA KnownStep == ASSUME Shape, Known, [Next]_vars PROVE Known'
<1>1. saved' \in {saved, saved + 1} /\ saved \in Nat /\ 1 .. saved \subseteq 1 .. saved'
  <2>1. saved' \in {saved, saved + 1} /\ saved \in Nat
    BY SavedGrows
  <2> QED
    BY <2>1
<1>2. \A x \in Messages : Held(x)' => x \in 1 .. saved'
  <2>1. NewsOnly
    BY SoundStep DEF Sound
  <2> QED
    BY <1>1, <2>1 DEF NewsOnly, Known
<1>3. \A m \in Managers : Elements(list'[m]) \subseteq 1 .. saved'
  BY <1>1, Listed
<1>4. quietly' \subseteq 1 .. saved
  <2>1. UNCHANGED quietly \/ \E m \in Managers : quietly' \subseteq quietly \cup Elements(list[m])
    BY DEF Next, Caller, Save, MissL1, ClearL1, CheckLength, ReadL2, Reload, ClearL2, ClearSummary,
       Flush, SummaryStep, StartSummary, ReadSummary, Think, StoreSummary, Trim, ExpireL1, vars, history
  <2> QED
    BY <2>1 DEF Known
<1> QED
  BY <1>1, <1>2, <1>3, <1>4 DEF Known

LEMMA KnownInit == Init => Known
<1>1. Elements(<< >>) = {}
  BY EmptySeq, ElementsOf
<1> QED
  BY <1>1, NothingHeld DEF Init, Known

LEMMA ShapeTypes == Shape /\ Known => TypeOK
<1> SUFFICES ASSUME Shape, Known PROVE TypeOK
  OBVIOUS
<1>1. summary \subseteq 1 .. saved /\ flushing \subseteq 1 .. saved
  BY DEF Shape, Known, Held
<1> DEFINE R == [pc : {"created", "reading", "thinking", "storing", "trimming"}, by : Managers,
                 hist : Seq(Messages), gen : Nat, old : SUBSET (1 .. saved)]
<1>2. ASSUME NEW j \in JobIds, jobs[j] # NoJob
      PROVE  jobs[j] \in R /\ Len(jobs[j].hist) <= L1MaxLen
  <2>1. jobs[j] \in JobRecs
    BY <1>2 DEF Shape
  <2>2. jobs[j].old \subseteq 1 .. saved
    BY <1>2, <2>1, JobFacts DEF Known, Held, InJob
  <2> QED
    BY <2>1, <2>2 DEF JobRecs
<1>3. jobs \in [JobIds -> {NoJob} \cup R]
  <2> HIDE DEF R
  <2> QED
    BY <1>2 DEF Shape
<1> QED
  BY <1>1, <1>2, <1>3 DEF Shape, Known, TypeOK, CallerStates

\* Type correctness, for any number of worker processes and summary tasks.
THEOREM TypeCorrect == Spec => []TypeOK
<1>1. Init => Shape /\ Known
  BY ShapeInit, KnownInit
<1>2. Shape /\ Known /\ [Next]_vars => Shape' /\ Known'
  BY SoundStep, KnownStep DEF Sound
<1> QED
  BY <1>1, <1>2, ShapeTypes, PTL DEF Spec

-----------------------------------------------------------------------------
(* A session that one process serves: what a quiet clear erased.           *)

OneProcess == \A m, n \in Managers : m = n

\* A clear that began quietly still meets no background task.
Calm == \A m \in Managers : calm[m] =>
            /\ mpc[m] \in {"clearing L2", "clearing summary"}
            /\ Quiet
            /\ l1 = << >>
            /\ mpc[m] = "clearing summary" => l2 = << >>

Erased == \A x \in quietly : ~Held(x)

\* While a clear is calm only the clear itself moves.
LEMMA OnlyClear ==
    ASSUME OneProcess, Shape, Calm, [Next]_vars, NEW m \in Managers, calm[m]
    PROVE  ClearL2(m) \/ ClearSummary(m) \/ UNCHANGED vars
<1>1. /\ mpc[m] \in {"clearing L2", "clearing summary"}
      /\ flushing = {} /\ l1 = << >> /\ \A j \in JobIds : jobs[j] = NoJob
  BY DEF Calm, Quiet
<1>2. \A x \in Messages : ~Flush(x)
  BY <1>1 DEF Flush
<1>3. \A j \in JobIds : ~SummaryStep(j)
  BY <1>1, JobFacts DEF SummaryStep, StartSummary, ReadSummary, Think, StoreSummary, Trim
<1>4. ~ExpireL1
  BY <1>1 DEF ExpireL1
<1>5. \A n \in Managers : n = m
  BY DEF OneProcess
<1>6. /\ ~Save(m) /\ ~MissL1(m) /\ ~ClearL1(m) /\ ~CheckLength(m) /\ ~ReadL2(m) /\ ~Reload(m)
  BY <1>1 DEF Save, MissL1, ClearL1, CheckLength, ReadL2, Reload
<1> QED
  BY <1>2, <1>3, <1>4, <1>5, <1>6 DEF Next, Caller

LEMMA CalmStep == ASSUME OneProcess, Shape, Calm, [Next]_vars PROVE Calm'
<1> SUFFICES ASSUME NEW m \in Managers, calm'[m]
             PROVE  /\ mpc'[m] \in {"clearing L2", "clearing summary"}
                    /\ flushing' = {} /\ \A j \in JobIds : jobs'[j] = NoJob
                    /\ l1' = << >>
                    /\ mpc'[m] = "clearing summary" => l2' = << >>
  BY DEF Calm, Quiet
<1>1. CASE calm[m]
  <2>1. ClearL2(m) \/ ClearSummary(m) \/ UNCHANGED vars
    BY <1>1, OnlyClear
  <2>2. /\ mpc[m] \in {"clearing L2", "clearing summary"}
        /\ flushing = {} /\ l1 = << >> /\ \A j \in JobIds : jobs[j] = NoJob
        /\ mpc[m] = "clearing summary" => l2 = << >>
    BY <1>1 DEF Calm, Quiet
  <2>3. CASE ClearL2(m)
    BY <2>2, <2>3 DEF ClearL2, Goto, tasks, Shape
  <2>4. CASE ClearSummary(m)
    <3>1. calm' = [calm EXCEPT ![m] = FALSE] /\ calm \in [Managers -> BOOLEAN]
      BY <2>4 DEF ClearSummary, Shape
    <3>2. calm'[m] = FALSE
      BY <3>1, Zenon
    <3> QED
      BY <3>2, Zenon
  <2>5. CASE UNCHANGED vars
    BY <2>2, <2>5 DEF vars, stores, tasks, callers
  <2> QED
    BY <2>1, <2>3, <2>4, <2>5
<1>2. CASE ~calm[m]
  <2>1. ClearL1(m)
    <3>1. calm' # calm
      BY <1>2
    <3>2. ClearL1(m) \/ ClearSummary(m)
      <4>1. \A n \in Managers : n = m
        BY DEF OneProcess
      <4> QED
        BY <3>1, <4>1, Zenon DEF Next, Caller, Save, MissL1, CheckLength, ReadL2, Reload, ClearL2,
           Flush, SummaryStep, StartSummary, ReadSummary, Think, StoreSummary, Trim, ExpireL1,
           vars, callers
    <3>3. ASSUME ClearSummary(m) PROVE FALSE
      <4>1. calm' = [calm EXCEPT ![m] = FALSE] /\ calm \in [Managers -> BOOLEAN]
        BY <3>3 DEF ClearSummary, Shape
      <4> QED
        BY <4>1, Zenon
    <3> QED
      BY <3>2, <3>3
  <2>2. Quiet
    <3>1. calm' = [calm EXCEPT ![m] = Quiet /\ \A n \in Managers : mpc[n] = "idle"]
      BY <2>1 DEF ClearL1
    <3>2. calm \in [Managers -> BOOLEAN]
      BY DEF Shape
    <3> QED
      BY <3>1, <3>2, Zenon
  <2>3. /\ mpc'[m] = "clearing L2" /\ l1' = << >> /\ UNCHANGED <<flushing, jobs>>
    BY <2>1 DEF ClearL1, Goto, tasks, Shape
  <2> QED
    BY <2>2, <2>3 DEF Quiet
<1> QED
  BY <1>1, <1>2

LEMMA ErasedStep == ASSUME OneProcess, Shape, Known, Calm, Erased, [Next]_vars PROVE Erased'
<1> SUFFICES ASSUME NEW x \in quietly', Held(x)' PROVE FALSE
  BY DEF Erased
<1>1. Shape' /\ NewsOnly
  BY SoundStep DEF Sound
<1>2. x \in Messages
  BY <1>1 DEF Shape
<1>3. CASE x \in quietly
  <2>1. ~Held(x) /\ x \in 1 .. saved /\ saved \in Nat
    BY <1>3 DEF Erased, Known, Shape
  <2>2. x = saved + 1
    BY <1>1, <1>2, <2>1 DEF NewsOnly
  <2> QED
    BY <2>1, <2>2
<1>4. CASE x \notin quietly
  <2>1. PICK m \in Managers : ClearSummary(m)
    <3>1. quietly' # quietly
      BY <1>4
    <3> QED
      BY <3>1, Zenon DEF Next, Caller, Save, MissL1, ClearL1, CheckLength, ReadL2, Reload, ClearL2,
         Flush, SummaryStep, StartSummary, ReadSummary, Think, StoreSummary, Trim, ExpireL1,
         vars, history
  <2>2. calm[m] /\ mpc[m] = "clearing summary"
    BY <1>4, <2>1 DEF ClearSummary
  <2>3. flushing = {} /\ l1 = << >> /\ l2 = << >> /\ \A j \in JobIds : jobs[j] = NoJob
    BY <2>2 DEF Calm, Quiet
  <2>4. /\ summary' = {} /\ UNCHANGED <<l1, l2, flushing, jobs>>
        /\ mpc' = [mpc EXCEPT ![m] = "idle"]
    BY <2>1 DEF ClearSummary, ClearedSummary, Goto, tasks
  <2>5. \A n \in Managers : mpc'[n] = "idle"
    BY <2>4 DEF OneProcess, Shape
  <2>6. Elements(<< >>) = {}
    BY EmptySeq, ElementsOf
  <2> QED
    BY <2>3, <2>4, <2>5, <2>6 DEF Held, InJob
<1> QED
  BY <1>3, <1>4

\* What a clear erased while no background task of the session ran is in none of the
\* three layers ever again, when one process serves the session.
THEOREM ErasedForGood == OneProcess => (Spec => []QuietEraseStays)
<1> DEFINE Inv == Shape /\ Known /\ Calm /\ Erased
<1>1. Init => Inv
  <2> SUFFICES ASSUME Init PROVE Calm /\ Erased
    BY ShapeInit, KnownInit
  <2>1. Erased
    BY DEF Init, Erased
  <2>2. \A m \in Managers : calm[m] = FALSE
    BY Zenon DEF Init
  <2> QED
    BY <2>1, <2>2, Zenon DEF Calm
<1>2. OneProcess /\ Inv /\ [Next]_vars => Inv'
  BY SoundStep, KnownStep, CalmStep, ErasedStep DEF Sound
<1>3. Inv => QuietEraseStays
  BY DEF Erased, Held, QuietEraseStays, Remembered
<1> HIDE DEF Inv
<1>4. OneProcess => (Spec => []Inv)
  <2>1. CASE OneProcess
    <3>1. Inv /\ [Next]_vars => Inv'
      BY <1>2, <2>1
    <3> QED
      BY <1>1, <3>1, PTL DEF Spec
  <2> QED
    BY <2>1
<1> QED
  BY <1>3, <1>4, PTL

-----------------------------------------------------------------------------
(* A session that one process serves: summaries only grow.                 *)

Uncleared == \A m \in Managers :
    gen[m] = 0 /\ mpc[m] \notin {"clearing L2", "clearing summary"}

\* One task at a time compresses, and what it read is still the summary.
OneJob == /\ \A j \in JobIds : Running(j) => jobs[j].gen = 0
          /\ \A j, k \in JobIds : Running(j) /\ Running(k) => j = k
          /\ \A j \in JobIds : jobs[j].pc \in {"thinking", "storing"} => jobs[j].old = summary

Growing == clears = 0 => Uncleared /\ OneJob

LEMMA OneJobStep ==
    ASSUME OneProcess, Shape, Uncleared, OneJob, NEW j \in JobIds, SummaryStep(j)
    PROVE  OneJob' /\ summary \subseteq summary'
<1>1. /\ jobs[j] \in JobRecs /\ UNCHANGED gen
      /\ summary' # summary => jobs[j].pc = "storing"
      /\ summary' # summary => summary' = jobs[j].old \cup Elements(ToCompress(jobs[j].hist))
  BY JobSteps DEF StartSummary, ReadSummary, Think, Trim, stores
<1>2. PICK r : /\ JobBecomes(j, r)
               /\ \/ r = NoJob
                  \/ r.pc = "reading" /\ r.gen = gen[jobs[j].by] /\ ~Locked(jobs[j].by)
                     /\ jobs[j].pc = "created"
                  \/ r.pc = "thinking" /\ r.old = summary /\ r.gen = jobs[j].gen
                     /\ jobs[j].pc = "reading"
                  \/ r.pc = "storing" /\ r.old = jobs[j].old /\ r.gen = jobs[j].gen
                     /\ jobs[j].pc = "thinking"
                  \/ r.pc = "trimming" /\ r.gen = jobs[j].gen /\ jobs[j].pc = "storing"
  BY JobSteps
<1>3. jobs'[j] = r /\ \A k \in JobIds : k # j => jobs'[k] = jobs[k]
  BY <1>2 DEF JobBecomes, Shape
<1>4. jobs[j].by \in Managers /\ gen[jobs[j].by] = 0 /\ NoJob.pc = "none"
  BY <1>1, JobFacts DEF Uncleared
<1>5. ASSUME jobs[j].pc = "created", r # NoJob, NEW k \in JobIds, Running(k) PROVE FALSE
  <2>1. ~Locked(jobs[j].by)
    BY <1>2, <1>5
  <2>2. jobs[k] \in JobRecs
    BY <1>5, <1>4 DEF Running, Shape
  <2>3. jobs[k].by = jobs[j].by
    BY <1>4, <2>2, JobFacts DEF OneProcess
  <2>4. jobs[k].gen = 0
    BY <1>5 DEF OneJob
  <2> QED
    BY <1>4, <1>5, <2>1, <2>3, <2>4 DEF Locked
<1>6. summary \subseteq summary'
  <2>1. CASE summary' = summary
    BY <2>1
  <2>2. CASE summary' # summary
    BY <1>1, <2>2 DEF OneJob
  <2> QED
    BY <2>1, <2>2
<1>7. \A k \in JobIds : (Running(k))' => jobs'[k].gen = 0
  BY <1>2, <1>3, <1>4 DEF Running, OneJob
<1>8. ASSUME NEW k \in JobIds, k # j, (Running(k))', (Running(j))' PROVE FALSE
  <2>1. Running(k) /\ r # NoJob
    BY <1>3, <1>4, <1>8 DEF Running
  <2>2. ~Running(j)
    BY <1>8, <2>1 DEF OneJob
  <2>3. jobs[j].pc = "created"
    BY <1>2, <2>1, <2>2 DEF Running
  <2> QED
    BY <1>5, <2>1, <2>3
<1>9. ASSUME NEW k, NEW l \in JobIds, k \in JobIds, (Running(k))', (Running(l))' PROVE k = l
  <2>1. CASE k # j /\ l # j
    <3>1. Running(k) /\ Running(l)
      BY <1>3, <1>9, <2>1 DEF Running
    <3> QED
      BY <1>9, <3>1 DEF OneJob
  <2> QED
    BY <1>8, <1>9, <2>1
<1>10. ASSUME NEW k \in JobIds, jobs'[k].pc \in {"thinking", "storing"}
       PROVE  jobs'[k].old = summary'
  <2>1. CASE k = j
    <3>1. jobs[j].pc # "storing" /\ r.old = summary
      BY <1>2, <1>3, <1>4, <1>10, <2>1 DEF OneJob
    <3> QED
      BY <1>1, <1>3, <2>1, <3>1
  <2>2. CASE k # j
    <3>1. Running(k) /\ jobs[k].old = summary /\ jobs'[k].old = jobs[k].old
      BY <1>3, <1>10, <2>2 DEF Running, OneJob
    <3>2. jobs[j].pc # "storing"
      BY <2>2, <3>1 DEF Running, OneJob
    <3> QED
      BY <1>1, <3>1, <3>2
  <2> QED
    BY <2>1, <2>2
<1> QED
  BY <1>6, <1>7, <1>9, <1>10 DEF OneJob

LEMMA GrowingStep ==
    ASSUME OneProcess, Shape, Growing, [Next]_vars, clears = 0
    PROVE  Growing' /\ summary \subseteq summary'
<1>1. Uncleared /\ OneJob
  BY DEF Growing
<1>2. ASSUME NEW m \in Managers, Save(m) \/ MissL1(m) \/ ReadL2(m) \/ Reload(m)
      PROVE  Growing' /\ summary \subseteq summary'
  <2>1. /\ UNCHANGED <<summary, jobs, gen>>
        /\ \E s : s \notin {"clearing L2", "clearing summary"} /\ mpc' = [mpc EXCEPT ![m] = s]
    BY <1>2 DEF Save, MissL1, ReadL2, Reload, Goto, stores, tasks
  <2>2. Uncleared'
    BY <1>1, <2>1 DEF Uncleared, Shape
  <2>3. OneJob'
    BY <1>1, <2>1 DEF OneJob, Running
  <2> QED
    BY <2>1, <2>2, <2>3 DEF Growing
<1>3. ASSUME NEW m \in Managers, CheckLength(m)
      PROVE  Growing' /\ summary \subseteq summary'
  <2>1. UNCHANGED <<summary, gen>> /\ mpc' = [mpc EXCEPT ![m] = "idle"]
    BY <1>3 DEF CheckLength, Goto, stores
  <2>2. Uncleared'
    BY <1>1, <2>1 DEF Uncleared, Shape
  <2>3. \A j \in JobIds : jobs'[j] = jobs[j] \/ jobs'[j].pc = "created"
    BY <1>3 DEF CheckLength, Job, Shape
  <2>4. OneJob'
    BY <1>1, <2>1, <2>3 DEF OneJob, Running
  <2> QED
    BY <2>1, <2>2, <2>4 DEF Growing
<1>4. ASSUME NEW m \in Managers, ClearL1(m) PROVE Growing' /\ summary \subseteq summary'
  <2>1. clears' = clears + 1 /\ UNCHANGED summary
    BY <1>4, Zenon DEF ClearL1
  <2>2. clears' # 0
    BY <2>1
  <2> QED
    BY <2>1, <2>2 DEF Growing
<1>5. ASSUME NEW m \in Managers, ClearL2(m) \/ ClearSummary(m) PROVE FALSE
  BY <1>1, <1>5 DEF ClearL2, ClearSummary, Uncleared
<1>6. ASSUME NEW j \in JobIds, SummaryStep(j) PROVE Growing' /\ summary \subseteq summary'
  <2>1. OneJob' /\ summary \subseteq summary'
    BY <1>1, <1>6, OneJobStep
  <2>2. UNCHANGED <<gen, mpc>>
    BY <1>6, JobSteps DEF callers
  <2> QED
    BY <1>1, <2>1, <2>2 DEF Growing, Uncleared
<1>7. ASSUME (\E x \in Messages : Flush(x)) \/ ExpireL1 \/ UNCHANGED vars
      PROVE  Growing' /\ summary \subseteq summary'
  <2>1. UNCHANGED <<summary, jobs, gen, mpc>>
    BY <1>7 DEF Flush, ExpireL1, vars, stores, tasks, callers
  <2> QED
    BY <1>1, <2>1 DEF Growing, Uncleared, OneJob, Running
<1> QED
  BY <1>2, <1>3, <1>4, <1>5, <1>6, <1>7 DEF Next, Caller

LEMMA ClearsStay == ASSUME Shape, [Next]_vars, clears # 0 PROVE clears' # 0
<1>1. clears \in Nat
  BY DEF Shape
<1>2. clears' = clears \/ clears' = clears + 1
  BY Zenon DEF Next, Caller, Save, MissL1, ClearL1, CheckLength, ReadL2, Reload, ClearL2,
     ClearSummary, Flush, SummaryStep, StartSummary, ReadSummary, Think, StoreSummary, Trim,
     ExpireL1, vars, history
<1> QED
  BY <1>1, <1>2

\* Until something is cleared a summary holds all its predecessor held, when one
\* process, and so one lock, serves the session.
THEOREM NothingUnlearned == OneProcess => (Spec => SummaryGrows)
<1>1. Init => Growing
  BY DEF Init, Growing, Uncleared, OneJob, Running, NoJob
<1>2. OneProcess /\ Shape /\ Growing /\ [Next]_vars => Growing'
  BY GrowingStep, ClearsStay DEF Growing
<1>3. OneProcess /\ Shape /\ Growing /\ [Next]_vars => [clears = 0 => summary \subseteq summary']_vars
  BY GrowingStep
<1>4. Init => Shape
  BY ShapeInit
<1>5. Shape /\ [Next]_vars => Shape'
  BY SoundStep DEF Sound
<1>6. CASE OneProcess
  <2>1. Shape /\ Growing /\ [Next]_vars => Shape' /\ Growing'
    BY <1>2, <1>5, <1>6
  <2>2. Shape /\ Growing /\ [Next]_vars => [clears = 0 => summary \subseteq summary']_vars
    BY <1>3, <1>6
  <2> QED
    BY <1>1, <1>4, <2>1, <2>2, PTL DEF Spec, SummaryGrows
<1> QED
  BY <1>6

-----------------------------------------------------------------------------
(* A session that one process serves: a trim forgets nothing.  Until a     *)
(* failure or a clear the list in Redis is a run of consecutive messages   *)
(* up to the newest, and so is what a task was given to compress.          *)

Run(s, e) == \A i \in DOMAIN s : s[i] = e - Len(s) + i

\* What a task was given when the list was l and top the newest message: a task that
\* began after that message has all that is left in Redis, or a full history.
Given(h, l, top) == \E e \in 1 .. top :
    /\ h # << >> /\ Run(h, e)
    /\ e = top => Len(h) = L1MaxLen \/ Len(l) <= Len(h)

Unharmed == clears = 0 /\ mishaps = 0
Ordered == Unharmed =>
    /\ Run(l1, saved)
    /\ saved # 0 => l1 # << >>
    /\ \A m \in Managers : mpc[m] # "reloading" /\ (mpc[m] = "missed" => saved = 0)
    /\ \A j \in JobIds : jobs[j] # NoJob => Given(jobs[j].hist, l1, saved)
    /\ \A j \in JobIds :
          jobs[j].pc = "trimming" => Elements(ToCompress(jobs[j].hist)) \subseteq summary

\* The newest message of a list, as the trim and the properties read it.
LEMMA NewestOne == ASSUME NEW S, NEW s \in Seq(S), s # << >>
                   PROVE  Newest(s, 1)[1] = s[Len(s)]
<1>1. Len(s) \in Nat \ {0} /\ DOMAIN s = 1 .. Len(s) /\ \A i \in 1 .. Len(s) : s[i] \in S
  BY EmptySeq, LenProperties, ElementOfSeq
<1>2. CASE Len(s) <= 1
  <2>1. Newest(s, 1) = s /\ Len(s) = 1
    BY <1>1, <1>2 DEF Newest
  <2> QED
    BY <2>1
<1>3. CASE ~(Len(s) <= 1)
  <2>1. Newest(s, 1) = SubSeq(s, Len(s), Len(s))
    <3>1. Len(s) - 1 + 1 = Len(s)
      BY <1>1
    <3> QED
      BY <1>3, <3>1, Zenon DEF Newest
  <2>2. /\ Len(s) \in Int /\ Len(s) <= Len(s) /\ \A i \in Len(s) .. Len(s) : s[i] \in S
    BY <1>1
  <2>3. \A i \in 1 .. Len(s) - Len(s) + 1 : SubSeq(s, Len(s), Len(s))[i] = s[Len(s) + i - 1]
    BY <2>2, SubSeqProperties
  <2> QED
    BY <1>1, <2>1, <2>3
<1> QED
  BY <1>2, <1>3

LEMMA NewestAt == ASSUME NEW S, NEW s \in Seq(S), NEW n \in Nat
                  PROVE  /\ Newest(s, n) \in Seq(S) /\ Len(s) \in Nat
                         /\ Len(Newest(s, n)) = (IF Len(s) <= n THEN Len(s) ELSE n)
                         /\ \A i \in 1 .. Len(Newest(s, n)) :
                               Newest(s, n)[i] = s[Len(s) - Len(Newest(s, n)) + i]
<1>1. Len(s) \in Nat /\ DOMAIN s = 1 .. Len(s) /\ \A i \in 1 .. Len(s) : s[i] \in S
  BY LenProperties, ElementOfSeq
<1>2. CASE Len(s) <= n
  BY <1>1, <1>2 DEF Newest
<1>3. CASE Len(s) > n
  <2> DEFINE a == Len(s) - n + 1
             t == SubSeq(s, a, Len(s))
  <2>1. a \in Int /\ Len(s) \in Int /\ \A i \in a .. Len(s) : s[i] \in S
    BY <1>1, <1>3
  <2>2. /\ t \in Seq(S) /\ Len(t) = (IF a <= Len(s) THEN Len(s) - a + 1 ELSE 0)
        /\ \A i \in 1 .. Len(s) - a + 1 : t[i] = s[a + i - 1]
    BY <2>1, SubSeqProperties
  <2>3. Newest(s, n) = t
    BY <1>1, <1>3 DEF Newest
  <2> HIDE DEF t
  <2>4. Len(t) = n
    <3>1. Len(t) = (IF a <= Len(s) THEN Len(s) - a + 1 ELSE 0)
      BY <2>2
    <3>2. a <= Len(s) => Len(t) = Len(s) - a + 1
      BY <3>1
    <3>3. ~(a <= Len(s)) => Len(t) = 0
      BY <3>1
    <3> QED
      BY <1>1, <1>3, <3>2, <3>3
  <2>5. ASSUME NEW i \in 1 .. n
        PROVE  t[i] = s[Len(s) - n + i]
    <3>1. i \in 1 .. Len(s) - a + 1 /\ a + i - 1 = Len(s) - n + i
      BY <1>1, <1>3
    <3>2. t[i] = s[a + i - 1]
      BY <2>2, <3>1
    <3> QED
      BY <3>1, <3>2
  <2>6. Len(t) = (IF Len(s) <= n THEN Len(s) ELSE n)
    <3>1. ~(Len(s) <= n)
      BY <1>1, <1>3
    <3> QED
      BY <2>4, <3>1, Zenon
  <2> QED
    BY <1>1, <2>2, <2>3, <2>4, <2>5, <2>6
<1> QED
  BY <1>1, <1>2, <1>3

\* The newest messages of a run are a run to the same end.
LEMMA NewestRun == ASSUME NEW s \in Seq(Messages), NEW e \in Nat, Run(s, e), NEW n \in Nat
                   PROVE  Run(Newest(s, n), e)
<1> DEFINE t == Newest(s, n)
<1>1. /\ t \in Seq(Messages) /\ Len(s) \in Nat
      /\ Len(t) = Len(s) \/ (Len(t) = n /\ n < Len(s))
      /\ \A i \in 1 .. Len(t) : t[i] = s[Len(s) - Len(t) + i]
  <2>1. /\ t \in Seq(Messages) /\ Len(s) \in Nat
        /\ Len(t) = (IF Len(s) <= n THEN Len(s) ELSE n)
        /\ \A i \in 1 .. Len(t) : t[i] = s[Len(s) - Len(t) + i]
    BY NewestAt
  <2> HIDE DEF t
  <2>2. Len(s) <= n => Len(t) = Len(s)
    BY <2>1
  <2>3. ~(Len(s) <= n) => Len(t) = n /\ n < Len(s)
    BY <2>1
  <2> QED
    BY <2>1, <2>2, <2>3
<1> HIDE DEF t
<1>2. DOMAIN t = 1 .. Len(t) /\ DOMAIN s = 1 .. Len(s)
  BY <1>1, LenProperties
<1>3. ASSUME NEW i \in 1 .. Len(t)
      PROVE  t[i] = e - Len(t) + i
  <2>1. Len(s) - Len(t) + i \in 1 .. Len(s)
    BY <1>1
  <2>2. s[Len(s) - Len(t) + i] = e - Len(s) + (Len(s) - Len(t) + i)
    BY <1>2, <2>1 DEF Run
  <2> QED
    BY <1>1, <2>2
<1> QED
  BY <1>2, <1>3 DEF Run, t

\* ... and one more message makes it a longer run.
LEMMA PushedRun == ASSUME Shape, Run(l1, saved), saved + 1 \in Messages
                   PROVE  Run(Pushed(saved + 1), saved + 1) /\ Pushed(saved + 1) # << >>
<1> DEFINE t == Append(l1, saved + 1)
<1>1. saved \in Nat /\ l1 \in Seq(Messages) /\ 2 * L1MaxLen \in Nat /\ 2 * L1MaxLen # 0
  BY Sizes DEF Shape
<1>2. /\ t \in Seq(Messages) /\ Len(t) = Len(l1) + 1 /\ Len(l1) \in Nat
      /\ \A i \in 1 .. Len(l1) : t[i] = l1[i]
      /\ t[Len(l1) + 1] = saved + 1
  BY <1>1, AppendProperties, LenProperties
<1> HIDE DEF t
<1>3. DOMAIN t = 1 .. Len(l1) + 1 /\ DOMAIN l1 = 1 .. Len(l1) /\ t # << >>
  BY <1>1, <1>2, LenProperties, EmptySeq
<1>4. Run(t, saved + 1)
  BY <1>1, <1>2, <1>3 DEF Run
<1>5. Pushed(saved + 1) = Newest(t, 2 * L1MaxLen)
  BY DEF Pushed, t
<1>6. Run(Newest(t, 2 * L1MaxLen), saved + 1)
  BY <1>1, <1>2, <1>4, NewestRun
<1>7. Newest(t, 2 * L1MaxLen) # << >>
  BY <1>1, <1>2, <1>3, NewestPart
<1> QED
  BY <1>5, <1>6, <1>7

\* When a run has as many newest messages as another, what the trim removes of it
\* is among what the summary has of the other.
LEMMA TrimCovered == ASSUME NEW s \in Seq(Messages), NEW h \in Seq(Messages), NEW e \in Nat,
                            Run(s, e), Run(h, e), Len(s) <= Len(h)
                     PROVE  Elements(s) \ Elements(Newest(s, Retain)) \subseteq Elements(ToCompress(h))
<1> DEFINE n == Retain
           t == Newest(s, n)
<1>0. n \in Nat
  BY Sizes
<1> HIDE DEF n
<1>1. /\ t \in Seq(Messages) /\ Len(s) \in Nat
      /\ Len(t) = (IF Len(s) <= n THEN Len(s) ELSE n)
      /\ \A i \in 1 .. Len(t) : t[i] = s[Len(s) - Len(t) + i]
  BY <1>0, NewestAt
<1> HIDE DEF t
<1>2. /\ DOMAIN t = 1 .. Len(t) /\ DOMAIN s = 1 .. Len(s) /\ DOMAIN h = 1 .. Len(h) /\ Len(h) \in Nat
      /\ Len(t) \in Nat
  BY <1>1, LenProperties
<1>3. SUFFICES ASSUME NEW i \in 1 .. Len(s), s[i] \notin Elements(t)
               PROVE  s[i] \in Elements(Oldest(h, n))
  BY <1>2 DEF Elements, ToCompress, t, n
<1>4. Len(s) > n /\ Len(t) = n /\ i <= Len(s) - n
  <2>1. CASE i > Len(s) - Len(t)
    <3>1. i - (Len(s) - Len(t)) \in 1 .. Len(t)
      BY <1>1, <1>2, <2>1
    <3>2. t[i - (Len(s) - Len(t))] = s[Len(s) - Len(t) + (i - (Len(s) - Len(t)))]
      BY <1>1, <3>1
    <3>3. Len(s) - Len(t) + (i - (Len(s) - Len(t))) = i
      BY <1>1, <1>2
    <3>4. s[i] = t[i - (Len(s) - Len(t))]
      BY <3>2, <3>3
    <3> QED
      BY <1>2, <1>3, <3>1, <3>4 DEF Elements
  <2>2. CASE i <= Len(s) - Len(t)
    BY <1>0, <1>1, <2>2
  <2> QED
    BY <1>1, <1>2, <2>1, <2>2
<1> DEFINE k == i + Len(h) - Len(s)
<1>5. k \in 1 .. Len(h) - n /\ k \in 1 .. Len(h) /\ s[i] = h[k]
  <2>1. k \in 1 .. Len(h) - n /\ k \in 1 .. Len(h)
    BY <1>0, <1>1, <1>2, <1>4
  <2>2. s[i] = e - Len(s) + i /\ h[k] = e - Len(h) + k
    BY <1>2, <2>1 DEF Run
  <2> QED
    BY <1>1, <1>2, <2>1, <2>2
<1> HIDE DEF k
<1> DEFINE b == Len(h) - n
           o == SubSeq(h, 1, b)
<1>6. Len(h) > n /\ b \in Nat /\ b <= Len(h)
  BY <1>0, <1>1, <1>2, <1>4
<1>7. Oldest(h, n) = o
  BY <1>0, <1>2, <1>6 DEF Oldest
<1>8. o \in Seq(Messages) /\ Len(o) = b /\ \A x \in 1 .. b : o[x] = h[x]
  <2>1. 1 \in Int /\ b \in Int /\ \A x \in 1 .. b : h[x] \in Messages
    BY <1>2, <1>6, ElementOfSeq
  <2>2. /\ o \in Seq(Messages) /\ Len(o) = (IF 1 <= b THEN b - 1 + 1 ELSE 0)
        /\ \A x \in 1 .. b - 1 + 1 : o[x] = h[1 + x - 1]
    BY <2>1, SubSeqProperties
  <2> HIDE DEF o
  <2>3. Len(o) = b /\ \A x \in 1 .. b : o[x] = h[1 + x - 1] /\ 1 + x - 1 = x
    BY <1>6, <2>2
  <2> QED
    BY <2>2, <2>3
<1> HIDE DEF o
<1>9. k \in DOMAIN o /\ o[k] = s[i]
  BY <1>5, <1>6, <1>8, LenProperties
<1> QED
  BY <1>7, <1>9 DEF Elements

LEMMA GivenKept == ASSUME NEW h, NEW l, NEW k, NEW top \in Nat, NEW new, Given(h, l, top),
                          Len(h) \in Nat, Len(l) \in Nat, Len(k) \in Nat,
                          new = top + 1 \/ (new = top /\ Len(k) <= Len(l))
                   PROVE  Given(h, k, new)
<1>1. PICK e \in 1 .. top : /\ h # << >> /\ Run(h, e)
                            /\ e = top => Len(h) = L1MaxLen \/ Len(l) <= Len(h)
  BY DEF Given
<1>2. e \in 1 .. new /\ (e = new => Len(h) = L1MaxLen \/ Len(k) <= Len(h))
  BY <1>1
<1> QED
  BY <1>1, <1>2 DEF Given

\* The history that a task is given.
LEMMA WindowGiven == ASSUME Shape, Run(l1, saved), Len(Window) >= Trigger
                     PROVE  Given(Window, l1, saved)
<1>1. l1 \in Seq(Messages) /\ saved \in Nat /\ Len(l1) \in Nat /\ L1MaxLen \in Nat
  BY LenProperties DEF Shape
<1>2. Trigger \in Nat /\ Trigger >= 1
  <2>1. (L1MaxLen * 8) \div 10 \in Int
    OBVIOUS
  <2> QED
    BY <2>1 DEF Trigger, AtLeastOne
<1>3. /\ Window \in Seq(Messages) /\ Run(Window, saved) /\ Len(Window) \in Nat
      /\ Len(Window) = (IF Len(l1) <= L1MaxLen THEN Len(l1) ELSE L1MaxLen)
  BY <1>1, NewestAt, NewestRun, LenProperties DEF Window
<1>4. Window # << >> /\ (Len(Window) = L1MaxLen \/ Len(l1) <= Len(Window))
  <2>1. Len(Window) # 0
    BY <1>2, <1>3
  <2>2. Len(l1) <= L1MaxLen => Len(Window) = Len(l1)
    BY <1>3
  <2>3. ~(Len(l1) <= L1MaxLen) => Len(Window) = L1MaxLen
    BY <1>3
  <2> QED
    BY <1>1, <1>3, <2>1, <2>2, <2>3, EmptySeq
<1>5. saved \in 1 .. saved
  <2>1. Len(Window) \in 1 .. Len(Window) /\ DOMAIN Window = 1 .. Len(Window)
    BY <1>3, <1>4, EmptySeq, LenProperties
  <2>2. Window[Len(Window)] = saved - Len(Window) + Len(Window)
    BY <1>3, <2>1 DEF Run
  <2>3. Window[Len(Window)] \in Messages
    BY <1>3, <2>1, ElementOfSeq
  <2> QED
    BY <1>1, <1>3, <2>2, <2>3 DEF Messages
<1> QED
  BY <1>3, <1>4, <1>5 DEF Given

LEMMA HarmStays == ASSUME Shape, [Next]_vars, Unharmed'
                   PROVE  Unharmed
<1>1. clears \in Nat /\ mishaps \in Nat
  BY DEF Shape
<1>2. clears' = clears \/ clears' = clears + 1
  BY Zenon DEF Next, Caller, Save, MissL1, ClearL1, CheckLength, ReadL2, Reload, ClearL2,
     ClearSummary, Flush, SummaryStep, StartSummary, ReadSummary, Think, StoreSummary, Trim,
     ExpireL1, vars, history
<1>3. mishaps' = mishaps \/ mishaps' = mishaps + 1
  BY Zenon DEF Next, Caller, Save, MissL1, ClearL1, CheckLength, ReadL2, Reload, ClearL2,
     ClearSummary, Flush, SummaryStep, StartSummary, ReadSummary, Think, StoreSummary, Trim,
     ExpireL1, vars, history, Mishap
<1> QED
  BY <1>1, <1>2, <1>3 DEF Unharmed

LEMMA OrderedStep == ASSUME OneProcess, Shape, Known, Growing, Ordered, [Next]_vars
                     PROVE  Ordered'
<1>0. SUFFICES ASSUME Unharmed'
               PROVE  Ordered'
  BY DEF Ordered
<1>1. /\ clears = 0 /\ mishaps = 0 /\ clears' = 0 /\ mishaps' = 0
      /\ Run(l1, saved)
      /\ saved # 0 => l1 # << >>
      /\ \A m \in Managers : mpc[m] # "reloading" /\ (mpc[m] = "missed" => saved = 0)
      /\ \A j \in JobIds : jobs[j] # NoJob => Given(jobs[j].hist, l1, saved)
      /\ \A j \in JobIds :
            jobs[j].pc = "trimming" => Elements(ToCompress(jobs[j].hist)) \subseteq summary
  BY <1>0, HarmStays DEF Unharmed, Ordered
<1>2. /\ Shape' /\ saved \in Nat /\ l1 \in Seq(Messages) /\ Len(l1) \in Nat
      /\ mpc \in [Managers -> CallerStates] /\ jobs \in [JobIds -> {NoJob} \cup JobRecs]
      /\ \A j \in JobIds : jobs[j] # NoJob => Len(jobs[j].hist) \in Nat
  BY SoundStep, JobFacts, LenProperties DEF Sound, Shape
<1>3. l1' \in Seq(Messages) /\ Len(l1') \in Nat
  BY <1>2, LenProperties DEF Shape
<1>4. ASSUME NEW m \in Managers, Save(m)
      PROVE  Ordered'
  <2>1. /\ mpc[m] = "idle" /\ saved + 1 \in Messages /\ saved' = saved + 1 /\ l1' = Pushed(saved + 1)
        /\ mpc' = [mpc EXCEPT ![m] = "saved"] /\ UNCHANGED <<jobs, summary>>
    BY <1>1, <1>2, <1>4 DEF Save, Mishap, Goto, Messages
  <2>2. Run(l1', saved') /\ l1' # << >>
    BY <1>1, <2>1, PushedRun
  <2>3. \A n \in Managers : mpc'[n] = "saved"
    BY <1>2, <2>1 DEF OneProcess
  <2>4. \A j \in JobIds : jobs[j] # NoJob => Given(jobs[j].hist, l1', saved')
    BY <1>1, <1>2, <1>3, <2>1, GivenKept
  <2> QED
    BY <1>1, <2>1, <2>2, <2>3, <2>4 DEF Ordered
<1>5. ASSUME NEW m \in Managers, CheckLength(m)
      PROVE  Ordered'
  <2>1. mpc' = [mpc EXCEPT ![m] = "idle"] /\ UNCHANGED <<l1, saved, summary>>
    BY <1>5 DEF CheckLength, Goto, stores
  <2>2. ASSUME NEW j \in JobIds
        PROVE  /\ jobs'[j] # NoJob => Given(jobs'[j].hist, l1, saved)
               /\ jobs'[j].pc = "trimming" => Elements(ToCompress(jobs'[j].hist)) \subseteq summary
    <3>1. CASE jobs'[j] = jobs[j]
      BY <1>1, <3>1
    <3>2. CASE jobs'[j] # jobs[j]
      <4>1. jobs'[j] = Job(m, Window) /\ Len(Window) >= Trigger
        BY <1>2, <1>5, <3>2 DEF CheckLength
      <4>2. Given(Window, l1, saved)
        BY <1>1, <4>1, WindowGiven
      <4> QED
        BY <4>1, <4>2 DEF Job
    <3> QED
      BY <3>1, <3>2
  <2>3. \A n \in Managers : mpc'[n] = mpc[n] \/ mpc'[n] = "idle"
    BY <1>2, <2>1
  <2> QED
    BY <1>1, <2>1, <2>2, <2>3 DEF Ordered
<1>6. ASSUME NEW m \in Managers, MissL1(m) \/ ReadL2(m) \/ Reload(m)
      PROVE  Ordered'
  <2>1. ~Reload(m)
    BY <1>1 DEF Reload
  <2>2. UNCHANGED <<l1, saved, summary, jobs>>
    BY <1>6, <2>1 DEF MissL1, ReadL2, stores, tasks
  <2>3. ReadL2(m) => l2 = << >>
    <3>1. ReadL2(m) => saved = 0
      BY <1>1 DEF ReadL2
    <3>2. l2 # << >> => Head(l2) \in Elements(l2) /\ Head(l2) \in Messages
      BY TailPart DEF Shape
    <3> QED
      BY <3>1, <3>2 DEF Known, Held
  <2>4. \A n \in Managers : mpc'[n] \in {mpc[n], "idle"} \/ (mpc'[n] = "missed" /\ l1 = << >>)
    <3>1. CASE ReadL2(m)
      BY <1>2, <2>3, <3>1 DEF ReadL2, Goto
    <3>2. CASE MissL1(m)
      <4>1. ~Mishap("l1")
        BY <1>1 DEF Mishap
      <4> QED
        BY <1>2, <3>2, <4>1 DEF MissL1, Goto
    <3> QED
      BY <1>6, <2>1, <3>1, <3>2
  <2> QED
    BY <1>1, <2>2, <2>4 DEF Ordered
<1>7. ASSUME NEW m \in Managers, ClearL1(m) \/ ClearL2(m) \/ ClearSummary(m)
      PROVE  FALSE
  <2>1. Uncleared
    BY <1>1 DEF Growing
  <2>2. ~ClearL2(m) /\ ~ClearSummary(m)
    BY <2>1 DEF ClearL2, ClearSummary, Uncleared
  <2>3. ClearL1(m) => clears' = clears + 1
    BY Zenon DEF ClearL1
  <2> QED
    BY <1>1, <1>7, <2>2, <2>3
<1>8. ~ExpireL1
  BY <1>1 DEF ExpireL1, Mishap
<1>9. ASSUME NEW j \in JobIds, SummaryStep(j)
      PROVE  Ordered'
  <2>1. /\ jobs[j] \in JobRecs /\ UNCHANGED <<saved, mpc>> /\ l1' \in {l1, Newest(l1, Retain)}
        /\ \/ StartSummary(j) \/ ReadSummary(j) \/ Think(j) \/ Trim(j)
           \/ StoreSummary(j) /\ summary' = jobs[j].old \cup Elements(ToCompress(jobs[j].hist))
    BY <1>9, JobSteps DEF callers
  <2>2. PICK r : /\ JobBecomes(j, r)
                 /\ \/ r = NoJob
                    \/ r.pc = "reading" /\ r.gen = gen[jobs[j].by] /\ ~Locked(jobs[j].by)
                       /\ jobs[j].pc = "created"
                    \/ r.pc = "thinking" /\ r.old = summary /\ r.gen = jobs[j].gen
                       /\ jobs[j].pc = "reading"
                    \/ r.pc = "storing" /\ r.old = jobs[j].old /\ r.gen = jobs[j].gen
                       /\ jobs[j].pc = "thinking"
                    \/ r.pc = "trimming" /\ r.gen = jobs[j].gen /\ jobs[j].pc = "storing"
    BY <1>9, JobSteps
  <2>3. jobs'[j] = r /\ \A k \in JobIds \ {j} : jobs'[k] = jobs[k]
    BY <1>2, <2>2 DEF JobBecomes
  <2>4. Run(l1', saved) /\ Len(l1') <= Len(l1) /\ (l1 # << >> => l1' # << >>)
    <3>1. Retain \in Nat /\ Retain # 0
      <4>1. (L1MaxLen * 4) \div 10 \in Int
        OBVIOUS
      <4> QED
        BY <4>1 DEF Retain, AtLeastOne
    <3>2. Run(Newest(l1, Retain), saved) /\ (l1 # << >> => Newest(l1, Retain) # << >>)
      BY <1>1, <1>2, <3>1, NewestRun, NewestPart
    <3>3. Len(Newest(l1, Retain)) = (IF Len(l1) <= Retain THEN Len(l1) ELSE Retain)
      BY <1>2, <3>1, NewestAt
    <3>4. Len(Newest(l1, Retain)) <= Len(l1)
      <4>1. Len(l1) <= Retain => Len(Newest(l1, Retain)) = Len(l1)
        BY <3>3
      <4>2. ~(Len(l1) <= Retain) => Len(Newest(l1, Retain)) = Retain
        BY <3>3
      <4> QED
        BY <1>2, <3>1, <4>1, <4>2
    <3> QED
      BY <1>1, <1>2, <2>1, <3>2, <3>4
  <2>5. summary \subseteq summary'
    BY <1>1, GrowingStep
  <2>6. r.pc = "trimming" => Elements(ToCompress(jobs[j].hist)) \subseteq summary'
    <3>1. r.pc = "trimming" => jobs[j].pc = "storing"
      BY <2>2, JobFacts
    <3>2. jobs[j].pc = "storing" => ~StartSummary(j) /\ ~ReadSummary(j) /\ ~Think(j) /\ ~Trim(j)
      BY DEF StartSummary, ReadSummary, Think, Trim
    <3> QED
      BY <2>1, <3>1, <3>2
  <2>7. \A k \in JobIds : jobs'[k] # NoJob => jobs[k] # NoJob /\ jobs'[k].hist = jobs[k].hist
    BY <2>1, <2>2, <2>3, JobFacts DEF JobBecomes
  <2>8. \A k \in JobIds : jobs'[k] # NoJob => Given(jobs'[k].hist, l1', saved)
    BY <1>1, <1>2, <1>3, <2>4, <2>7, GivenKept
  <2>9. ASSUME NEW k \in JobIds, jobs'[k].pc = "trimming"
        PROVE  Elements(ToCompress(jobs'[k].hist)) \subseteq summary'
    <3>1. jobs'[k] # NoJob
      BY <2>9, JobFacts
    <3> QED
      BY <1>1, <2>3, <2>5, <2>6, <2>7, <2>9, <3>1
  <2> QED
    BY <1>1, <2>1, <2>4, <2>8, <2>9 DEF Ordered
<1>10. ASSUME NEW x \in Messages, Flush(x)
       PROVE  Ordered'
  BY <1>1, <1>10 DEF Flush, callers, Ordered
<1>11. CASE UNCHANGED vars
  BY <1>1, <1>11 DEF vars, stores, tasks, callers, Ordered
<1> QED
  BY <1>4, <1>5, <1>6, <1>7, <1>8, <1>9, <1>10, <1>11 DEF Next, Caller

\* What an undisturbed compression trims is in the summary.
LEMMA TrimSound == ASSUME Shape, Ordered, Unharmed, NEW j \in JobIds, Trim(j), Len(l1) <= L1MaxLen,
                          Newest(l1, 1) = Newest(jobs[j].hist, 1)
                   PROVE  Elements(l1) \ Elements(l1') \subseteq summary
<1> DEFINE h == jobs[j].hist
<1>1. /\ jobs[j] \in JobRecs /\ h \in Seq(Messages) /\ l1 \in Seq(Messages) /\ saved \in Nat
      /\ jobs[j] # NoJob /\ jobs[j].pc = "trimming" /\ l1' \in {l1, Newest(l1, Retain)}
  BY JobFacts DEF Shape, Trim
<1>2. /\ Run(l1, saved) /\ (saved # 0 => l1 # << >>) /\ Given(h, l1, saved)
      /\ Elements(ToCompress(h)) \subseteq summary
  BY <1>1 DEF Ordered
<1> HIDE DEF h
<1>3. PICK e \in 1 .. saved : /\ h # << >> /\ Run(h, e)
                              /\ e = saved => Len(h) = L1MaxLen \/ Len(l1) <= Len(h)
  BY <1>2 DEF Given
<1>4. l1 # << >>
  BY <1>2, <1>3
<1>5. ASSUME NEW s \in Seq(Messages), s # << >>, NEW f \in Nat, Run(s, f)
      PROVE  Newest(s, 1)[1] = f
  <2>1. Len(s) \in Nat \ {0} /\ DOMAIN s = 1 .. Len(s)
    BY <1>5, EmptySeq, LenProperties
  <2>2. Newest(s, 1)[1] = s[Len(s)]
    BY <1>5, NewestOne
  <2>5. s[Len(s)] = f - Len(s) + Len(s)
    BY <1>5, <2>1 DEF Run
  <2> QED
    BY <2>1, <2>2, <2>5
<1>6. e = saved
  <2>1. Newest(l1, 1)[1] = saved
    BY <1>1, <1>2, <1>4, <1>5
  <2>2. Newest(h, 1)[1] = e
    BY <1>1, <1>3, <1>5
  <2> QED
    BY <2>1, <2>2 DEF h
<1>7. Len(l1) <= Len(h)
  BY <1>3, <1>6
<1>8. Elements(l1) \ Elements(Newest(l1, Retain)) \subseteq Elements(ToCompress(h))
  BY <1>1, <1>2, <1>3, <1>6, <1>7, TrimCovered
<1> QED
  BY <1>1, <1>2, <1>8

\* A compression that no failure, clear or new message disturbs removes from Redis
\* only what its summary holds, when one process serves the session.
THEOREM NothingForgotten == OneProcess => (Spec => TrimForgetsNothing)
<1> DEFINE Inv == Shape /\ Known /\ Growing /\ Ordered
<1>1. Init => Inv
  <2>1. Init => Growing
    BY DEF Init, Growing, Uncleared, OneJob, Running, NoJob
  <2>2. Init => Ordered
    <3>1. DOMAIN << >> = {}
      BY EmptySeq, LenProperties
    <3> QED
      BY <3>1 DEF Init, Ordered, Run, NoJob
  <2> QED
    BY <2>1, <2>2, ShapeInit, KnownInit
<1>2. ASSUME OneProcess, Inv, [Next]_vars
      PROVE  Inv'
  <2>1. Growing'
    BY <1>2, GrowingStep, ClearsStay DEF Growing
  <2> QED
    BY <1>2, <2>1, SoundStep, KnownStep, OrderedStep DEF Sound
<1>3. ASSUME Inv, [Next]_vars, NEW j \in JobIds,
             jobs[j].pc = "trimming", jobs'[j].pc = "none", clears = 0, mishaps = 0,
             Len(l1) <= L1MaxLen, Newest(l1, 1) = Newest(jobs[j].hist, 1)
      PROVE  Elements(l1) \ Elements(l1') \subseteq summary
  <2>1. Trim(j)
    <3>1. jobs'[j] # jobs[j] /\ jobs[j] # NoJob
      BY <1>3, JobFacts
    <3>2. ASSUME NEW k \in JobIds, SummaryStep(k), k # j
          PROVE  jobs'[j] = jobs[j]
      BY <1>3, <3>2, JobSteps DEF JobBecomes, Shape
    <3>3. ASSUME NEW m \in Managers, CheckLength(m)
          PROVE  jobs'[j] = jobs[j]
      BY <1>3, <3>1, <3>3 DEF CheckLength, Shape
    <3>4. SummaryStep(j)
      BY <1>3, <3>1, <3>2, <3>3, Zenon DEF Next, Caller, Save, MissL1, ClearL1, ReadL2, Reload,
         ClearL2, ClearSummary, Flush, ExpireL1, vars, tasks
    <3> QED
      BY <1>3, <3>4 DEF SummaryStep, StartSummary, ReadSummary, Think, StoreSummary
  <2> QED
    BY <1>3, <2>1, TrimSound DEF Unharmed
<1> DEFINE Forgets == \A j \in JobIds :
    (/\ jobs[j].pc = "trimming" /\ jobs'[j].pc = "none"
     /\ clears = 0 /\ mishaps = 0
     /\ Len(l1) <= L1MaxLen /\ Newest(l1, 1) = Newest(jobs[j].hist, 1))
        => Elements(l1) \ Elements(l1') \subseteq summary
<1>4. Inv /\ [Next]_vars => [Forgets]_vars
  BY <1>3
<1>5. CASE OneProcess
  <2>1. Inv /\ [Next]_vars => Inv'
    BY <1>2, <1>5
  <2> HIDE DEF Inv
  <2> QED
    BY <1>1, <1>4, <2>1, PTL DEF Spec, TrimForgetsNothing
<1> QED
  BY <1>5
=============================================================================
