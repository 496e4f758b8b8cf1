-------------------------- MODULE StreamingChatProofs --------------------------
(***************************************************************************)
(* Proofs about a streaming connection, for any numbers of tokens, client  *)
(* messages, retries and failures: nothing is missed as long as the reader *)
(* listens, [DONE] comes after the whole answer, and nothing follows it.   *)
(***************************************************************************)
EXTENDS StreamingChat, SequenceTheorems, TLAPS

USE StreamingAssumption DEF StreamingAssumption

-----------------------------------------------------------------------------
(* Sequences: a channel between what was sent on and what was published.   *)

Published == Texts \cup {Done}
Queued == {"sentence", "None"}

\* One more message at the end of both.
LEMMA Later == ASSUME NEW S, NEW s \in Seq(S), NEW c \in Seq(S), NEW x \in S
               PROVE  s \o Append(c, x) = Append(s \o c, x)
<1>1. <<x>> \in Seq(S) /\ s \o c \in Seq(S)
  BY ConcatProperties
<1>2. Append(c, x) = c \o <<x>> /\ Append(s \o c, x) = (s \o c) \o <<x>>
  BY <1>1, AppendIsConcat
<1> QED
  BY <1>1, <1>2, ConcatAssociative

\* The first message of the channel is sent on.
LEMMA Moved == ASSUME NEW S, NEW s \in Seq(S), NEW c \in Seq(S), c # << >>
               PROVE  /\ Head(c) \in S /\ Tail(c) \in Seq(S)
                      /\ Append(s, Head(c)) \o Tail(c) = s \o c
<1>1. Head(c) \in S /\ Tail(c) \in Seq(S) /\ Len(c) \in Nat \ {0} /\ Head(c) = c[1]
  BY HeadTailProperties, EmptySeq
<1>2. c = <<Head(c)>> \o Tail(c)
  <2>1. SubSeq(c, 1, Len(c)) = <<c[1]>> \o SubSeq(c, 2, Len(c))
    BY <1>1, SubSeqRecursiveFirst
  <2> QED
    BY <1>1, <2>1, SubSeqFull, TailIsSubSeq
<1>3. <<Head(c)>> \in Seq(S) /\ Append(s, Head(c)) = s \o <<Head(c)>>
  BY <1>1, AppendIsConcat
<1>4. (s \o <<Head(c)>>) \o Tail(c) = s \o (<<Head(c)>> \o Tail(c))
  BY <1>1, <1>3, ConcatAssociative
<1> QED
  BY <1>1, <1>2, <1>3, <1>4

\* What was sent on before the first [DONE] on the channel is an answer.
LEMMA WholeAnswer == ASSUME NEW s \in Seq(Published), NEW c \in Seq(Published), c # << >>,
                            said = s \o c, Head(c) = Done
                     PROVE  Answered(s)
<1>1. Len(s) \in Nat /\ Len(c) \in Nat \ {0} /\ Head(c) = c[1]
  BY LenProperties, EmptySeq, HeadTailProperties
<1>2. said \in Seq(Published) /\ Len(said) = Len(s) + Len(c) /\ said[Len(s) + 1] = c[1]
  BY <1>1, ConcatProperties
<1>3. s = SubSeq(said, 1, Len(s))
  <2>1. CASE s = << >>
    BY <1>1, <2>1, SubSeqEmpty, EmptySeq
  <2>2. CASE s # << >>
    <3>1. Len(s) \in 1 .. Len(s)
      BY <1>1, <2>2, EmptySeq
    <3> QED
      BY <3>1, SubSeqOfConcat1, SubSeqFull
  <2> QED
    BY <2>1, <2>2
<1>4. Len(s) + 1 \in DOMAIN said /\ (Len(s) + 1) - 1 = Len(s)
  BY <1>1, <1>2, LenProperties
<1> QED
  BY <1>1, <1>2, <1>3, <1>4 DEF Answered

\* An answer remains one, whatever is published after it.
LEMMA AnswerStays == ASSUME said \in Seq(Published), NEW x \in Published, NEW t, Answered(t),
                            said' = Append(said, x)
                     PROVE  Answered(t)'
<1>1. PICK n \in DOMAIN said : said[n] = Done /\ t = SubSeq(said, 1, n - 1)
  BY DEF Answered
<1>2. Len(said) \in Nat /\ n \in 1 .. Len(said) /\ DOMAIN said' = 1 .. Len(said) + 1
  BY LenProperties, AppendProperties
<1>3. said'[n] = Done
  BY <1>1, <1>2, AppendProperties
<1>4. SubSeq(said', 1, n - 1) = SubSeq(said, 1, n - 1)
  <2>1. CASE n = 1
    BY <1>2, <2>1, SubSeqEmpty
  <2>2. CASE n # 1
    <3>1. said' = said \o <<x>> /\ <<x>> \in Seq(Published)
      BY AppendIsConcat
    <3>2. n - 1 \in 1 .. Len(said) /\ 1 \in 1 .. Len(said)
      BY <1>2, <2>2
    <3> QED
      BY <3>1, <3>2, SubSeqOfConcat1
  <2> QED
    BY <2>1, <2>2
<1> QED
  BY <1>1, <1>2, <1>3, <1>4 DEF Answered

-----------------------------------------------------------------------------
(* The queue of audio_loop: sentences, and then None.                      *)

NoNone(q) == \A i \in DOMAIN q : q[i] # "None"
NoneLast(q) == \A i \in DOMAIN q : q[i] = "None" <=> i = Len(q)

LEMMA QueueTail == ASSUME NEW q \in Seq(Queued), q # << >>
                   PROVE  /\ Tail(q) \in Seq(Queued)
                          /\ NoNone(q) => NoNone(Tail(q)) /\ Head(q) # "None"
                          /\ NoneLast(q) => NoneLast(Tail(q)) /\ (Head(q) = "None" => Tail(q) = << >>)
<1> DEFINE t == Tail(q)
<1>1. /\ t \in Seq(Queued) /\ Len(q) \in Nat \ {0} /\ Head(q) = q[1]
      /\ Len(t) = Len(q) - 1 /\ \A i \in 1 .. Len(t) : t[i] = q[i + 1]
  BY HeadTailProperties, EmptySeq
<1> HIDE DEF t
<1>2. DOMAIN t = 1 .. Len(t) /\ DOMAIN q = 1 .. Len(q) /\ (Len(t) = 0 => t = << >>)
  BY <1>1, LenProperties, EmptySeq
<1>3. NoNone(q) => NoNone(t) /\ Head(q) # "None"
  BY <1>1, <1>2 DEF NoNone
<1>4. NoneLast(q) => NoneLast(t)
  BY <1>1, <1>2 DEF NoneLast
<1>5. NoneLast(q) /\ Head(q) = "None" => t = << >>
  <2>1. NoneLast(q) /\ q[1] = "None" => Len(q) = 1
    BY <1>1, <1>2 DEF NoneLast
  <2> QED
    BY <1>1, <1>2, <2>1
<1> QED
  BY <1>1, <1>3, <1>4, <1>5 DEF t

LEMMA QueueAppend == ASSUME NEW q \in Seq(Queued), NEW x \in Queued
                     PROVE  /\ Append(q, x) \in Seq(Queued)
                            /\ NoNone(q) /\ x = "sentence" => NoNone(Append(q, x))
                            /\ NoNone(q) /\ x = "None" => NoneLast(Append(q, x))
<1> DEFINE t == Append(q, x)
<1>1. /\ t \in Seq(Queued) /\ Len(t) = Len(q) + 1 /\ Len(q) \in Nat
      /\ \A i \in 1 .. Len(q) : t[i] = q[i]
      /\ t[Len(q) + 1] = x
  BY AppendProperties, LenProperties
<1> HIDE DEF t
<1>2. DOMAIN t = 1 .. Len(q) + 1 /\ DOMAIN q = 1 .. Len(q)
  BY <1>1, LenProperties
<1>3. NoNone(q) /\ x = "sentence" => NoNone(t)
  BY <1>1, <1>2 DEF NoNone
<1>4. NoNone(q) /\ x = "None" => NoneLast(t)
  BY <1>1, <1>2 DEF NoNone, NoneLast
<1> QED
  BY <1>1, <1>3, <1>4 DEF t

\* text_loop ends the queue: the sentence that is left, and None.
LEMMA QueueEnd == ASSUME NEW q \in Seq(Queued)
                  PROVE  /\ q \o LastWords \in Seq(Queued)
                         /\ NoNone(q) => NoneLast(q \o LastWords)
<1>1. "sentence" \in Queued /\ "None" \in Queued
  BY DEF Queued
<1>2. CASE rest /\ tts
  <2> DEFINE r == Append(q, "sentence")
  <2>1. r \in Seq(Queued) /\ (NoNone(q) => NoNone(r))
    BY <1>1, QueueAppend
  <2>2. q \o LastWords = Append(r, "None")
    <3>1. LastWords = <<"sentence">> \o <<"None">>
      BY <1>2 DEF LastWords
    <3>2. <<"sentence">> \in Seq(Queued) /\ <<"None">> \in Seq(Queued)
      BY <1>1
    <3>3. q \o (<<"sentence">> \o <<"None">>) = (q \o <<"sentence">>) \o <<"None">>
      BY <3>2, ConcatAssociative
    <3> QED
      BY <1>1, <2>1, <3>1, <3>3, AppendIsConcat
  <2> HIDE DEF r
  <2> QED
    BY <1>1, <2>1, <2>2, QueueAppend
<1>3. CASE ~(rest /\ tts)
  <2>1. LastWords = << >> \o <<"None">>
    BY <1>3, Zenon DEF LastWords
  <2>a. <<"None">> \in Seq(Queued)
    BY <1>1
  <2>2. LastWords = <<"None">>
    BY <2>1, <2>a, ConcatEmptySeq
  <2>3. q \o LastWords = Append(q, "None")
    BY <1>1, <2>2, AppendIsConcat
  <2> QED
    BY <1>1, <2>3, QueueAppend
<1> QED
  BY <1>2, <1>3

-----------------------------------------------------------------------------
(* The inductive invariant.                                                *)

\* What receive_loop is about to add to the bus; the queries of a connection.
Owed == IF rpc \in {"asking", "recognising", "speaking"} THEN 1 ELSE 0

QueriesCounted ==
    /\ kind = "sse" => rpc \in {"asking", "over"} /\ bus + Owed <= 1
    /\ kind = "ws" => bus + Owed <= says

\* Nobody asks before the subscription, and nobody forwards after it.
ListensFirst ==
    /\ sub = "none" => bus = 0 /\ job = "none" /\ (kind = "ws" => rpc = "reading")
    /\ sub \in {"off", "left"} => tpc # "running"

\* What streams is an agent that the dispatcher chose.
AgentChosen == job = "streaming" => agent \in Agents

\* Over SSE the generator sends [DONE] itself.
SseAnswers == kind = "sse" =>
    /\ apc = "over"
    /\ queue = << >>
    /\ dones > 0 => tpc = "over" /\ Answered(texts)

\* Over a WebSocket text_loop ends the queue when it has read [DONE], and
\* audio_loop sends it when it comes to that end.
Steady == client = "connected" /\ rpc # "over"
WsAnswers == (kind = "ws" /\ Steady) =>
    /\ tpc = "running" => apc = "running" /\ dones = 0 /\ NoNone(queue)
    /\ tpc # "running" => NoneLast(queue)
    /\ tpc = "over" => Answered(texts)
    /\ apc = "over" => queue = << >>
    /\ dones > 0 => tpc # "running" /\ apc = "over"

Inv == /\ TypeOK
       /\ QueriesCounted
       /\ ListensFirst
       /\ AgentChosen
       /\ NothingMissed
       /\ SseAnswers
       /\ WsAnswers

-----------------------------------------------------------------------------
(* Types, and how many queries there can be.                               *)

\* A query is owed once for each message of the client, or for the SSE request.
LEMMA QueriesStep == ASSUME TypeOK, QueriesCounted, ListensFirst, [Next]_vars
                     PROVE  QueriesCounted' /\ says' \in 0 .. MaxSays /\ bus' \in 0 .. MaxSays + 1
<1> USE DEF TypeOK, QueriesCounted, Owed
<1>1. CASE Subscribe
  BY <1>1 DEF Subscribe, Mishap, MishapKinds, gateway, loops, audio, frames, agents, Loop,
         Listening, ListensFirst
<1>2. CASE SseAsk
  BY <1>2 DEF SseAsk, Listening, Released, Mishap, Owed, gateway, loops, audio, frames, agents,
         Loop, ListensFirst
<1>3. CASE SseForward
  BY <1>3 DEF SseForward, Released, gateway, loops, audio, frames, agents, Loop, Listening,
         ListensFirst
<1>4. CASE SseCancel
  BY <1>4 DEF SseCancel, Released, gateway, loops, audio, frames, agents, Loop, Listening,
         ListensFirst
<1>5. CASE Recognise
  BY <1>5 DEF Recognise, EndReceiving, Mishap, gateway, loops, audio, frames, agents, Loop,
         Listening, ListensFirst
<1>6. CASE WsAsk
  BY <1>6 DEF WsAsk, EndReceiving, Mishap, gateway, loops, audio, frames, agents, Loop, Listening,
         ListensFirst
<1>7. CASE ReceiveDisconnect
  BY <1>7 DEF ReceiveDisconnect, Receives, EndReceiving, gateway, loops, audio, frames, agents,
         Loop, Listening, ListensFirst
<1>8. CASE WsClose
  BY <1>8 DEF WsClose, Gathered, Released, gateway, loops, audio, frames, agents, Loop, Listening,
         ListensFirst
<1>9. CASE TextDone
  BY <1>9 DEF TextDone, gateway, loops, audio, frames, agents, Loop, Listening, ListensFirst
<1>10. CASE TextForward
  BY <1>10 DEF TextForward, gateway, loops, audio, frames, agents, Loop, Listening, ListensFirst
<1>11. CASE AudioSpeak
  BY <1>11 DEF AudioSpeak, gateway, loops, audio, frames, agents, Loop, Listening, ListensFirst
<1>12. CASE AudioDone
  BY <1>12 DEF AudioDone, gateway, loops, audio, frames, agents, Loop, Listening, ListensFirst
<1>13. CASE Leave
  BY <1>13 DEF Leave, gateway, loops, audio, frames, agents, Loop, Listening, ListensFirst
<1>14. CASE ReceiveChat
  BY <1>14 DEF ReceiveChat, Hears, Receives, gateway, loops, audio, frames, agents, Loop,
         Listening, ListensFirst
<1>15. CASE StartAudio
  BY <1>15 DEF StartAudio, Hears, Receives, gateway, loops, audio, frames, agents, Loop,
         Listening, ListensFirst
<1>16. CASE StopAudio
  BY <1>16 DEF StopAudio, Hears, Receives, gateway, loops, audio, frames, agents, Loop, Listening,
         ListensFirst
<1>17. CASE ReceiveGarbage
  BY <1>17 DEF ReceiveGarbage, Hears, Receives, EndReceiving, gateway, loops, audio, frames,
         agents, Loop, Listening, ListensFirst
<1>18. CASE Take
  BY <1>18 DEF Take, gateway, loops, audio, frames, agents, Loop, Listening, ListensFirst
<1>19. CASE Supervise
  BY <1>19 DEF Supervise, gateway, loops, audio, frames, agents, Loop, Listening, ListensFirst
<1>20. CASE Generate
  BY <1>20 DEF Generate, gateway, loops, audio, frames, agents, Loop, Listening, ListensFirst
<1>21. CASE EndStream
  BY <1>21 DEF EndStream, Mishap, gateway, loops, audio, frames, agents, Loop, Listening,
         ListensFirst
<1>22. CASE PublishNext
  BY <1>22 DEF PublishNext, gateway, loops, audio, frames, agents, Loop, Listening, ListensFirst
<1>23. CASE EndJob
  BY <1>23 DEF EndJob, gateway, loops, audio, frames, agents, Loop, Listening, ListensFirst
<1>24. CASE Redeliver
  BY <1>24 DEF Redeliver, gateway, loops, audio, frames, agents, Loop, Listening, ListensFirst
<1>25. CASE Crash
  BY <1>25 DEF Crash, Mishap, Working, gateway, loops, audio, frames, agents, Loop, Listening,
         ListensFirst
<1>26. CASE UNCHANGED vars
  BY <1>26 DEF vars, gateway, loops, audio, frames, agents
<1>27. CASE FinishAsr
  BY <1>27 DEF FinishAsr, Gathered, Mishap, gateway, loops, audio, frames, agents, Loop, Listening,
         ListensFirst
<1>28. CASE ListenFails
  BY <1>28 DEF ListenFails, Released, Mishap, gateway, loops, audio, frames, agents, Loop,
         Listening, ListensFirst
<1> QED
  BY <1>1, <1>2, <1>3, <1>4, <1>5, <1>6, <1>7, <1>8, <1>9, <1>10, <1>11, <1>12, <1>13, <1>14,
         <1>15, <1>16, <1>17, <1>18, <1>19, <1>20, <1>21, <1>22, <1>23, <1>24, <1>25, <1>26, <1>27, <1>28 DEF
         Next, Gateway, TextLoop, AudioLoop, Speech, Client, Work

\* What is taken from a sequence, or put at its end, keeps its type.
LEMMA Pieces == ASSUME queue \in Seq(Queued), channel \in Seq(Published), texts \in Seq(Texts)
                PROVE  /\ channel # << >> => Head(channel) \in Published /\ Tail(channel) \in Seq(Published)
                       /\ \A x \in Texts : Append(texts, x) \in Seq(Texts)
                       /\ queue # << >> => Tail(queue) \in Seq(Queued)
                       /\ \A x \in Queued : Append(queue, x) \in Seq(Queued)
                       /\ queue \o LastWords \in Seq(Queued)
                       /\ << >> \in Seq(Queued)
<1> QED
  BY QueueEnd, QueueTail, QueueAppend, HeadTailProperties, AppendProperties, EmptySeq

LEMMA Scripts == /\ Farewell \in Seq(Published)
                 /\ agent \in Agents => Apology \in Seq(Published)
                 /\ <<"stop", Done>> \in Seq(Published)
<1>1. "word" \in Published /\ "stop" \in Published /\ Done \in Published
  BY DEF Published, Texts
<1> HIDE DEF Done
<1>2. \A x, y, z, w \in Published : <<x, y, z, w>> \in Seq(Published) /\ <<x, y>> \in Seq(Published) /\ <<x>> \in Seq(Published)
  OBVIOUS
<1>3. Farewell \in Seq(Published)
  BY <1>1, <1>2 DEF Farewell
<1>4. agent \in Agents => Apology \in Seq(Published)
  BY <1>1, <1>2 DEF Apology, Agents
<1> QED
  BY <1>1, <1>2, <1>3, <1>4

\* The types, in three parts: flags, sequences and counts.
Flags == /\ kind \in {"sse", "ws"}
         /\ client \in {"connected", "gone"}
         /\ sub \in {"none", "on", "off", "left"}
         /\ rpc \in {"reading", "asking", "recognising", "speaking", "over"}
         /\ tpc \in Loop \cup {"broken"} /\ apc \in Loop
         /\ asr \in BOOLEAN /\ tts \in BOOLEAN /\ rest \in BOOLEAN
         /\ job \in JobStates
         /\ agent \in Agents \cup {"none"}
Streams == /\ queue \in Seq(Queued)
           /\ channel \in Seq(Published) /\ said \in Seq(Published)
           /\ script \in Seq(Published)
           /\ texts \in Seq(Texts)
Counts == /\ sounds \in Nat /\ dones \in Nat
          /\ tokens \in 0 .. MaxTokens
          /\ retries \in 0 .. MaxRetries
          /\ mishaps \in 0 .. MaxMishaps

LEMMA TypeParts == TypeOK <=> Flags /\ Streams /\ Counts /\ says \in 0 .. MaxSays /\ bus \in 0 .. MaxSays + 1
  BY DEF TypeOK, Flags, Streams, Counts, Queued, Published

LEMMA FlagsStep == ASSUME Flags, Next PROVE Flags'
<1> USE DEF Flags, Loop, JobStates
<1>1. CASE Subscribe
  BY <1>1 DEF Subscribe, Mishap, gateway, loops, audio, frames, agents
<1>2. CASE SseAsk
  BY <1>2 DEF SseAsk, Mishap, Released, gateway, loops, audio, frames, agents
<1>3. CASE SseForward
  BY <1>3 DEF SseForward, Released, gateway, loops, audio, frames, agents
<1>4. CASE SseCancel
  BY <1>4 DEF SseCancel, Released, gateway, loops, audio, frames, agents
<1>5. CASE Recognise
  BY <1>5 DEF Recognise, EndReceiving, Mishap, gateway, loops, audio, frames, agents
<1>6. CASE WsAsk
  BY <1>6 DEF WsAsk, EndReceiving, Mishap, gateway, loops, audio, frames, agents
<1>7. CASE ReceiveDisconnect
  BY <1>7 DEF ReceiveDisconnect, Receives, EndReceiving, gateway, loops, audio, frames, agents
<1>8. CASE WsClose
  BY <1>8 DEF WsClose, Gathered, Released, gateway, loops, audio, frames, agents
<1>9. CASE TextDone
  BY <1>9 DEF TextDone, AfterDone, gateway, loops, audio, frames, agents
<1>10. CASE TextForward
  BY <1>10 DEF TextForward, gateway, loops, audio, frames, agents
<1>11. CASE AudioSpeak
  BY <1>11 DEF AudioSpeak, gateway, loops, audio, frames, agents
<1>12. CASE AudioDone
  BY <1>12 DEF AudioDone, gateway, loops, audio, frames, agents
<1>13. CASE Leave
  BY <1>13 DEF Leave, gateway, loops, audio, frames, agents
<1>14. CASE ReceiveChat
  BY <1>14 DEF ReceiveChat, Hears, Receives, gateway, loops, audio, frames, agents
<1>15. CASE StartAudio
  BY <1>15 DEF StartAudio, Hears, Receives, gateway, loops, audio, frames, agents
<1>16. CASE StopAudio
  BY <1>16 DEF StopAudio, Hears, Receives, gateway, loops, audio, frames, agents
<1>17. CASE ReceiveGarbage
  BY <1>17 DEF ReceiveGarbage, Hears, Receives, EndReceiving, gateway, loops, audio, frames,
         agents
<1>18. CASE Take
  BY <1>18 DEF Take, gateway, loops, audio, frames, agents
<1>19. CASE Supervise
  BY <1>19 DEF Supervise, gateway, loops, audio, frames, agents
<1>20. CASE Generate
  BY <1>20 DEF Generate, Publish, gateway, loops, audio, frames, agents
<1>21. CASE EndStream
  BY <1>21 DEF EndStream, Mishap, gateway, loops, audio, frames, agents
<1>22. CASE PublishNext
  BY <1>22 DEF PublishNext, Publish, gateway, loops, audio, frames, agents
<1>23. CASE EndJob
  BY <1>23 DEF EndJob, gateway, loops, audio, frames, agents
<1>24. CASE Redeliver
  BY <1>24 DEF Redeliver, Retriable, gateway, loops, audio, frames, agents
<1>25. CASE Crash
  BY <1>25 DEF Crash, Mishap, gateway, loops, audio, frames, agents
<1>26. CASE FinishAsr
  BY <1>26 DEF FinishAsr, Gathered, Mishap, gateway, loops, audio, frames, agents
<1>27. CASE ListenFails
  BY <1>27 DEF ListenFails, Released, Mishap, gateway, loops, audio, frames, agents
<1> QED
  BY <1>1, <1>2, <1>3, <1>4, <1>5, <1>6, <1>7, <1>8, <1>9, <1>10, <1>11, <1>12, <1>13, <1>14,
         <1>15, <1>16, <1>17, <1>18, <1>19, <1>20, <1>21, <1>22, <1>23, <1>24, <1>25, <1>26, <1>27 DEF Next,
         Gateway, TextLoop, AudioLoop, Speech, Client, Work

LEMMA CountsStep == ASSUME Counts, Next PROVE Counts'
<1> USE DEF Counts
<1>1. CASE Subscribe
  BY <1>1 DEF Subscribe, Mishap, gateway, loops, audio, frames, agents
<1>2. CASE SseAsk
  BY <1>2 DEF SseAsk, Mishap, Released, gateway, loops, audio, frames, agents
<1>3. CASE SseForward
  BY <1>3 DEF SseForward, Released, gateway, loops, audio, frames, agents
<1>4. CASE WsAsk
  BY <1>4 DEF WsAsk, EndReceiving, Mishap, gateway, loops, audio, frames, agents
<1>5. CASE AudioSpeak
  BY <1>5 DEF AudioSpeak, gateway, loops, audio, frames, agents
<1>6. CASE AudioDone
  BY <1>6 DEF AudioDone, gateway, loops, audio, frames, agents
<1>7. CASE Supervise
  BY <1>7 DEF Supervise, gateway, loops, audio, frames, agents
<1>8. CASE Generate
  BY <1>8 DEF Generate, Publish, gateway, loops, audio, frames, agents
<1>9. CASE EndStream
  BY <1>9 DEF EndStream, Mishap, gateway, loops, audio, frames, agents
<1>10. CASE Redeliver
  BY <1>10 DEF Redeliver, Retriable, gateway, loops, audio, frames, agents
<1>11. CASE Crash
  BY <1>11 DEF Crash, Mishap, gateway, loops, audio, frames, agents
<1>12. CASE Recognise
  BY <1>12 DEF Recognise, EndReceiving, Mishap, frames, agents
<1>13. CASE FinishAsr
  <2>1. UNCHANGED <<sounds, dones, tokens, retries>>
    BY <1>13, Zenon DEF FinishAsr, frames, agents
  <2>2. UNCHANGED mishaps \/ Mishap("speech")
    BY <1>13, Zenon DEF FinishAsr
  <2> QED
    BY <2>1, <2>2 DEF Mishap
<1>14. CASE ListenFails
  BY <1>14 DEF ListenFails, Mishap, frames, agents
<1>15. CASE UNCHANGED <<sounds, dones, tokens, retries, mishaps>>
  BY <1>15
<1> QED
  BY <1>1, <1>2, <1>3, <1>4, <1>5, <1>6, <1>7, <1>8, <1>9, <1>10, <1>11, <1>12, <1>13, <1>14, <1>15,
  Zenon DEF Next,
         Gateway, TextLoop, AudioLoop, Speech, Client, Work, SseCancel, Released, Recognise,
         FinishAsr, Gathered, ListenFails, ReceiveDisconnect, Receives, EndReceiving, WsClose,
         TextDone, AfterDone, TextForward, Leave, ReceiveChat, Hears, StartAudio, StopAudio,
         ReceiveGarbage, Take, PublishNext, Publish, EndJob, gateway, loops, audio, frames,
         agents, vars

LEMMA StreamsStep == ASSUME Flags, AgentChosen, Streams, Next PROVE Streams'
<1> USE DEF Streams
<1>0. "None" \in Queued /\ "sentence" \in Queued /\ Texts \subseteq Published /\ << >> \in Seq(Published)
      /\ \A x \in Published : x # Done => x \in Texts
  BY DEF Queued, Published
<1>1. CASE SseForward
  BY Pieces, <1>0, <1>1 DEF SseForward, Released, gateway, loops, audio, frames, agents
<1>2. CASE WsAsk
  BY Pieces, <1>0, <1>2 DEF WsAsk, EndReceiving, Mishap, gateway, loops, audio, frames, agents
<1>3. CASE ReceiveDisconnect
  BY Pieces, <1>0, <1>3 DEF ReceiveDisconnect, Receives, EndReceiving, gateway, loops, audio,
         frames, agents
<1>4. CASE TextDone
  BY Pieces, <1>0, <1>4 DEF TextDone, AfterDone, gateway, loops, audio, frames, agents
<1>5. CASE TextForward
  BY Pieces, <1>0, <1>5 DEF TextForward, gateway, loops, audio, frames, agents
<1>6. CASE AudioSpeak
  BY Pieces, <1>0, <1>6 DEF AudioSpeak, gateway, loops, audio, frames, agents
<1>7. CASE AudioDone
  BY Pieces, <1>0, <1>7 DEF AudioDone, gateway, loops, audio, frames, agents
<1>8. CASE ReceiveGarbage
  BY Pieces, <1>0, <1>8 DEF ReceiveGarbage, Hears, Receives, EndReceiving, gateway, loops, audio,
         frames, agents
<1>9. CASE Supervise
  BY Scripts, <1>0, <1>9 DEF Supervise, gateway, loops, audio, frames, agents
<1>10. CASE Generate
  BY Pieces, <1>0, <1>10 DEF Generate, Publish, gateway, loops, audio, frames, agents
<1>11. CASE EndStream
  BY Scripts, <1>0, <1>11 DEF EndStream, Flags, AgentChosen, Mishap, gateway, loops, audio,
         frames, agents
<1>12. CASE PublishNext
  BY Pieces, <1>0, <1>12 DEF PublishNext, Publish, gateway, loops, audio, frames, agents
<1>13. CASE Crash
  BY <1>0, <1>13 DEF Crash, Mishap, gateway, loops, audio, frames, agents
<1>14. CASE Recognise
  BY Pieces, <1>0, <1>14 DEF Recognise, EndReceiving, frames, agents
<1>15. CASE ListenFails
  BY Pieces, <1>0, <1>15 DEF ListenFails, frames, agents
<1>16. CASE UNCHANGED <<queue, channel, said, script, texts>>
  BY <1>16
<1> QED
  BY <1>1, <1>2, <1>3, <1>4, <1>5, <1>6, <1>7, <1>8, <1>9, <1>10, <1>11, <1>12, <1>13, <1>14, <1>15, <1>16,
         Zenon DEF
         Next, Gateway, TextLoop, AudioLoop, Speech, Client, Work, Subscribe, Mishap, SseAsk, Released,
         SseCancel, Recognise, FinishAsr, Gathered, ListenFails, WsClose, Leave, ReceiveChat,
         Hears, Receives, StartAudio, StopAudio, Take, EndJob, Redeliver, Retriable, gateway,
         loops, audio, frames, agents, vars

LEMMA TypeStep == ASSUME TypeOK, QueriesCounted, ListensFirst, AgentChosen, [Next]_vars
                  PROVE  TypeOK'
<1>1. Flags /\ Streams /\ Counts
  BY TypeParts
<1>2. says' \in 0 .. MaxSays /\ bus' \in 0 .. MaxSays + 1
  BY QueriesStep
<1>3. CASE Next
  <2>1. Flags' /\ Streams' /\ Counts'
    BY <1>1, <1>3, FlagsStep, StreamsStep, CountsStep
  <2> QED
    BY <1>2, <2>1 DEF TypeOK, Flags, Streams, Counts, Queued, Published
<1>4. CASE UNCHANGED vars
  BY <1>4 DEF vars, gateway, loops, audio, frames, agents, TypeOK
<1> QED
  BY <1>3, <1>4

-----------------------------------------------------------------------------
(* Who listens, and to whom.                                               *)

LEMMA ListensStep == ASSUME TypeOK, QueriesCounted, ListensFirst, AgentChosen, [Next]_vars
                     PROVE  ListensFirst' /\ AgentChosen'
<1> USE DEF ListensFirst, AgentChosen
<1>1. CASE Subscribe
  BY <1>1 DEF Subscribe, Mishap, TypeOK, gateway, loops, audio, frames, agents
<1>2. CASE SseAsk
  BY <1>2 DEF SseAsk, Mishap, Released, Listening, TypeOK, gateway, loops, audio, frames, agents
<1>3. CASE SseForward
  BY <1>3 DEF SseForward, Released, TypeOK, gateway, loops, audio, frames, agents
<1>4. CASE SseCancel
  BY <1>4 DEF SseCancel, Released, TypeOK, gateway, loops, audio, frames, agents
<1>5. CASE Recognise
  BY <1>5 DEF Recognise, EndReceiving, Mishap, QueriesCounted, TypeOK, gateway, loops, audio, frames, agents
<1>6. CASE WsAsk
  BY <1>6 DEF WsAsk, EndReceiving, Mishap, QueriesCounted, TypeOK, gateway, loops, audio, frames,
         agents
<1>7. CASE ReceiveDisconnect
  BY <1>7 DEF ReceiveDisconnect, Receives, EndReceiving, Listening, TypeOK, gateway, loops, audio,
         frames, agents
<1>8. CASE WsClose
  BY <1>8 DEF WsClose, Gathered, Released, TypeOK, gateway, loops, audio, frames, agents
<1>9. CASE TextDone
  BY <1>9 DEF TextDone, AfterDone, TypeOK, gateway, loops, audio, frames, agents
<1>10. CASE TextForward
  BY <1>10 DEF TextForward, TypeOK, gateway, loops, audio, frames, agents
<1>11. CASE AudioSpeak
  BY <1>11 DEF AudioSpeak, TypeOK, gateway, loops, audio, frames, agents
<1>12. CASE AudioDone
  BY <1>12 DEF AudioDone, TypeOK, gateway, loops, audio, frames, agents
<1>13. CASE Leave
  BY <1>13 DEF Leave, TypeOK, gateway, loops, audio, frames, agents
<1>14. CASE ReceiveChat
  BY <1>14 DEF ReceiveChat, Hears, Receives, Listening, TypeOK, gateway, loops, audio, frames,
         agents
<1>15. CASE StartAudio
  BY <1>15 DEF StartAudio, Hears, Receives, Listening, TypeOK, gateway, loops, audio, frames,
         agents
<1>16. CASE StopAudio
  BY <1>16 DEF StopAudio, Hears, Receives, Listening, TypeOK, gateway, loops, audio, frames,
         agents
<1>17. CASE ReceiveGarbage
  BY <1>17 DEF ReceiveGarbage, Hears, Receives, EndReceiving, Listening, TypeOK, gateway, loops,
         audio, frames, agents
<1>18. CASE Take
  BY <1>18 DEF Take, TypeOK, gateway, loops, audio, frames, agents
<1>19. CASE Supervise
  BY <1>19 DEF Supervise, TypeOK, gateway, loops, audio, frames, agents
<1>20. CASE Generate
  BY <1>20 DEF Generate, Publish, TypeOK, gateway, loops, audio, frames, agents
<1>21. CASE EndStream
  BY <1>21 DEF EndStream, Mishap, TypeOK, gateway, loops, audio, frames, agents
<1>22. CASE PublishNext
  BY <1>22 DEF PublishNext, Publish, TypeOK, gateway, loops, audio, frames, agents
<1>23. CASE EndJob
  BY <1>23 DEF EndJob, TypeOK, gateway, loops, audio, frames, agents
<1>24. CASE Redeliver
  BY <1>24 DEF Redeliver, Retriable, TypeOK, gateway, loops, audio, frames, agents
<1>25. CASE Crash
  BY <1>25 DEF Crash, Mishap, Working, TypeOK, gateway, loops, audio, frames, agents
<1>26. CASE UNCHANGED vars
  BY <1>26 DEF vars, gateway, loops, audio, frames, agents
<1>27. CASE FinishAsr
  BY <1>27 DEF FinishAsr, Gathered, Mishap, TypeOK, gateway, loops, audio, frames, agents
<1>28. CASE ListenFails
  BY <1>28 DEF ListenFails, Released, Mishap, TypeOK, gateway, loops, audio, frames, agents
<1> QED
  BY <1>1, <1>2, <1>3, <1>4, <1>5, <1>6, <1>7, <1>8, <1>9, <1>10, <1>11, <1>12, <1>13, <1>14,
         <1>15, <1>16, <1>17, <1>18, <1>19, <1>20, <1>21, <1>22, <1>23, <1>24, <1>25, <1>26, <1>27, <1>28 DEF
         Next, Gateway, TextLoop, AudioLoop, Speech, Client, Work

-----------------------------------------------------------------------------
(* Nothing is missed.                                                      *)

\* What is published while the reader listens is behind all that was before.
LEMMA PublishedLater == ASSUME Flags, Streams, ListensFirst, NothingMissed, job # "none",
                               NEW x \in Published, Publish(x), UNCHANGED <<texts, tpc, sub>>
                        PROVE  NothingMissed'
<1>1. CASE tpc = "running" /\ sub = "on"
  <2>1. texts \in Seq(Published)
    BY DEF Streams, Published
  <2>2. texts \o Append(channel, x) = Append(texts \o channel, x)
    BY <2>1, Later DEF Streams
  <2> QED
    BY <1>1, <2>2 DEF NothingMissed, Publish
<1>2. CASE tpc = "running" /\ sub = "none"
  BY <1>2 DEF ListensFirst
<1>3. CASE tpc # "running"
  BY <1>3 DEF NothingMissed
<1> QED
  BY <1>1, <1>2, <1>3 DEF Flags, ListensFirst, NothingMissed

LEMMA NothingMissedStep == ASSUME TypeOK, ListensFirst, NothingMissed, [Next]_vars
                           PROVE  NothingMissed'
<1>0. Flags /\ Streams
  BY TypeParts
<1>1. texts \in Seq(Published)
  BY <1>0 DEF Streams, Published
<1>2. channel # << >> => Append(texts, Head(channel)) \o Tail(channel) = texts \o channel
  BY <1>0, <1>1, Moved DEF Streams
<1>3. CASE SseForward
  BY <1>2, <1>3 DEF SseForward, NothingMissed, gateway, agents
<1>4. CASE TextDone
  BY <1>4 DEF TextDone, AfterDone, NothingMissed
<1>5. CASE TextForward
  BY <1>2, <1>5 DEF TextForward, NothingMissed, gateway, agents
<1>6. CASE Generate
  <2>1. PICK x \in Texts : Publish(x)
    BY <1>6 DEF Generate
  <2>2. x \in Published /\ job # "none" /\ UNCHANGED <<texts, tpc, sub>>
    BY <1>6 DEF Generate, Published, gateway, loops, frames
  <2> QED
    BY <1>0, <2>1, <2>2, PublishedLater
<1>7. CASE PublishNext
  <2>1. Head(script) \in Published
    BY <1>0, <1>7, HeadTailProperties DEF PublishNext, Streams
  <2>2. Publish(Head(script)) /\ job # "none" /\ UNCHANGED <<texts, tpc, sub>>
    BY <1>7 DEF PublishNext, gateway, loops, frames
  <2> QED
    BY <1>0, <2>1, <2>2, PublishedLater
<1>8. CASE UNCHANGED <<texts, channel, said>> /\ (tpc' = tpc \/ tpc' \in {"over", "broken"})
  BY <1>8 DEF NothingMissed
<1> QED
  BY <1>3, <1>4, <1>5, <1>6, <1>7, <1>8, Zenon DEF Next, Gateway, TextLoop, AudioLoop, Speech, Client, Work, Subscribe, Mishap, SseAsk, Released,
         SseCancel, Recognise, FinishAsr, Gathered, ListenFails, WsAsk, EndReceiving,
         ReceiveDisconnect, Receives, WsClose, AudioSpeak, AudioDone, Leave, ReceiveChat, Hears,
         StartAudio, StopAudio, ReceiveGarbage, Take, Supervise, EndStream, EndJob, Redeliver,
         Retriable, Crash, gateway, loops, audio, frames, agents, vars

-----------------------------------------------------------------------------
(* [DONE] comes after the whole answer.                                    *)

LEMMA SaidGrows == ASSUME Streams, [Next]_vars
                   PROVE  said' = said \/ \E x \in Published : said' = Append(said, x)
<1>1. CASE Generate
  BY <1>1 DEF Generate, Publish, Published
<1>2. CASE PublishNext
  BY <1>2, HeadTailProperties DEF PublishNext, Publish, Streams
<1>3. CASE said' = said
  BY <1>3
<1> QED
  BY <1>1, <1>2, <1>3, Zenon DEF Next, Gateway, TextLoop, AudioLoop, Speech, Client, Work, Subscribe,
         Mishap, SseAsk, Released, SseForward, SseCancel, Recognise, FinishAsr, Gathered,
         ListenFails, WsAsk, EndReceiving, ReceiveDisconnect, Receives, WsClose, TextDone,
         AfterDone, TextForward, AudioSpeak, AudioDone, Leave, ReceiveChat, Hears, StartAudio,
         StopAudio, ReceiveGarbage, Take, Supervise, EndStream, EndJob, Redeliver, Retriable,
         Crash, gateway, loops, audio, frames, agents, vars

LEMMA AnswerKept == ASSUME Streams, [Next]_vars, Answered(texts), texts' = texts
                    PROVE  Answered(texts)'
<1>1. CASE said' = said
  BY <1>1 DEF Answered
<1>2. ASSUME NEW x \in Published, said' = Append(said, x)
      PROVE  Answered(texts)'
  <2>1. PICK n \in DOMAIN said : said[n] = Done /\ texts = SubSeq(said, 1, n - 1)
    BY DEF Answered
  <2> QED
    BY <1>2, AnswerStays DEF Answered, Streams
<1> QED
  BY <1>1, <1>2, SaidGrows

\* The reader that finds [DONE] on the channel has sent the answer.
LEMMA AnswerSent == ASSUME Streams, NothingMissed, tpc = "running", channel # << >>, Head(channel) = Done
                    PROVE  Answered(texts)
<1>1. texts \in Seq(Published) /\ said = texts \o channel
  BY DEF Streams, Published, NothingMissed
<1> QED
  BY <1>1, WholeAnswer DEF Streams

LEMMA SseStep == ASSUME TypeOK, NothingMissed, SseAnswers, [Next]_vars
                 PROVE  SseAnswers'
<1>1. Flags /\ Streams /\ Counts /\ kind' = kind
  <2>1. kind' = kind
    BY Zenon DEF
         Next, Gateway, TextLoop, AudioLoop, Speech, Client, Work, Subscribe, Mishap, SseAsk, Released,
         SseForward, SseCancel, Recognise, FinishAsr, Gathered, ListenFails, WsAsk, EndReceiving,
         ReceiveDisconnect, Receives, WsClose, TextDone, AfterDone, TextForward, AudioSpeak,
         AudioDone, Leave, ReceiveChat, Hears, StartAudio, StopAudio, ReceiveGarbage, Take,
         Supervise, Generate, Publish, EndStream, PublishNext, EndJob, Redeliver, Retriable,
         Crash, gateway, loops, audio, frames, agents, vars
  <2> QED
    BY <2>1, TypeParts
<1>2. SUFFICES ASSUME kind = "sse"
               PROVE  SseAnswers'
  BY <1>1, <1>2 DEF SseAnswers
<1>3. apc = "over" /\ queue = << >> /\ (dones > 0 => tpc = "over" /\ Answered(texts))
  BY <1>2 DEF SseAnswers
<1>4. CASE SseForward /\ dones' = dones + 1
  <2>1. tpc = "running" /\ channel # << >> /\ Head(channel) = Done /\ UNCHANGED <<texts, apc, queue>> /\ tpc' = "over"
    BY <1>1, <1>4 DEF SseForward, Counts, audio
  <2>2. Answered(texts)'
    BY <1>1, <2>1, AnswerSent, AnswerKept
  <2> QED
    BY <1>3, <2>1, <2>2 DEF SseAnswers
<1>5. CASE SseForward /\ dones' = dones
  <2>1. dones = 0 /\ UNCHANGED <<apc, queue>>
    BY <1>1, <1>3, <1>5 DEF SseForward, Counts, audio
  <2> QED
    BY <1>3, <1>5, <2>1 DEF SseAnswers
<1>6. CASE UNCHANGED <<dones, texts, queue>> /\ (tpc' = tpc \/ tpc' = "over") /\ (apc' = apc \/ apc' = "over")
  <2>1. dones > 0 => Answered(texts)'
    BY <1>1, <1>3, <1>6, AnswerKept
  <2> QED
    BY <1>3, <1>6, <2>1 DEF SseAnswers
<1>7. SseForward => dones' = dones + 1 \/ dones' = dones
  BY DEF SseForward
<1>9. CASE ListenFails
  <2>1. dones = 0 /\ UNCHANGED <<dones, apc, queue>>
    BY <1>1, <1>2, <1>3, <1>9 DEF ListenFails, Counts, frames
  <2> QED
    BY <1>3, <2>1 DEF SseAnswers
<1>8. CASE ~SseForward /\ ~ListenFails
  <2>1. "sse" # "ws" /\ "over" # "running"
    OBVIOUS
  <2>2. UNCHANGED <<dones, texts, queue>> /\ (tpc' = tpc \/ tpc' = "over") /\ (apc' = apc \/ apc' = "over")
    BY <1>2, <1>3, <1>8, <2>1, Zenon DEF
         Next, Gateway, TextLoop, AudioLoop, Speech, Client, Work, Subscribe, Mishap, SseAsk, Released,
         SseForward, SseCancel, Recognise, FinishAsr, Gathered, ListenFails, WsAsk, EndReceiving,
         ReceiveDisconnect, Receives, WsClose, TextDone, AfterDone, TextForward, AudioSpeak,
         AudioDone, Leave, ReceiveChat, Hears, StartAudio, StopAudio, ReceiveGarbage, Take,
         Supervise, Generate, Publish, EndStream, PublishNext, EndJob, Redeliver, Retriable,
         Crash, gateway, loops, audio, frames, agents, vars
  <2> QED
    BY <1>6, <2>2
<1> QED
  BY <1>4, <1>5, <1>7, <1>8, <1>9

LEMMA SteadyBack == ASSUME kind' = "ws", Steady', [Next]_vars
                    PROVE  kind = "ws" /\ Steady
<1>1. "sse" # "ws" /\ "gone" # "connected" /\ "over" \notin {"reading", "asking", "recognising", "speaking"}
  OBVIOUS
<1>2. kind' = kind /\ (client' = client \/ client' = "gone")
  BY Zenon DEF
         Next, Gateway, TextLoop, AudioLoop, Speech, Client, Work, Subscribe, Mishap, SseAsk, Released,
         SseForward, SseCancel, Recognise, FinishAsr, Gathered, ListenFails, WsAsk, EndReceiving,
         ReceiveDisconnect, Receives, WsClose, TextDone, AfterDone, TextForward, AudioSpeak,
         AudioDone, Leave, ReceiveChat, Hears, StartAudio, StopAudio, ReceiveGarbage, Take,
         Supervise, Generate, Publish, EndStream, PublishNext, EndJob, Redeliver, Retriable,
         Crash, gateway, loops, audio, frames, agents, vars
<1> QED
  BY <1>1, <1>2 DEF Steady,
         Next, Gateway, TextLoop, AudioLoop, Speech, Client, Work, Subscribe, Mishap, SseAsk, Released,
         SseForward, SseCancel, Recognise, FinishAsr, Gathered, ListenFails, WsAsk, EndReceiving,
         ReceiveDisconnect, Receives, WsClose, TextDone, AfterDone, TextForward, AudioSpeak,
         AudioDone, Leave, ReceiveChat, Hears, StartAudio, StopAudio, ReceiveGarbage, Take,
         Supervise, Generate, Publish, EndStream, PublishNext, EndJob, Redeliver, Retriable,
         Crash, gateway, loops, audio, frames, agents, vars

\* No None is left in the queue of a text_loop that runs; audio_loop sends [DONE]
\* at the None that text_loop has put there behind the whole answer.
LEMMA WsStep == ASSUME TypeOK, NothingMissed, WsAnswers, [Next]_vars
                PROVE  WsAnswers'
<1>1. Flags /\ Streams /\ Counts
  BY TypeParts
<1>2. SUFFICES ASSUME kind' = "ws", Steady'
               PROVE  WsAnswers'
  BY DEF WsAnswers
<1>3. kind = "ws" /\ Steady
  BY <1>2, SteadyBack
<1>4. /\ tpc = "running" => apc = "running" /\ dones = 0 /\ NoNone(queue)
      /\ tpc # "running" => NoneLast(queue)
      /\ tpc = "over" => Answered(texts)
      /\ apc = "over" => queue = << >>
      /\ dones > 0 => tpc # "running" /\ apc = "over"
  BY <1>3 DEF WsAnswers
<1>5. client = "connected" /\ rpc # "over" /\ client' = "connected" /\ rpc' # "over"
  BY <1>2, <1>3 DEF Steady
<1>6. queue \in Seq(Queued) /\ "sentence" \in Queued
  BY <1>1 DEF Streams, Queued
<1>7. CASE TextDone
  <2>1. /\ tpc = "running" /\ channel # << >> /\ Head(channel) = Done
        /\ queue' = queue \o LastWords /\ tpc' = "over" /\ UNCHANGED <<texts, apc, dones>>
    BY <1>7 DEF TextDone, AfterDone, frames
  <2>2. Answered(texts)'
    BY <1>1, <2>1, AnswerSent, AnswerKept
  <2>3. NoneLast(queue)'
    BY <1>4, <1>6, <2>1, QueueEnd DEF NoneLast
  <2> QED
    BY <1>4, <2>1, <2>2, <2>3 DEF WsAnswers
<1>13. CASE ListenFails
  <2>1. /\ tpc = "running" /\ tpc' = "broken"
        /\ queue' = Append(queue, "None") /\ UNCHANGED <<apc, dones>>
    BY <1>3, <1>13 DEF ListenFails, frames
  <2>2. NoneLast(queue)'
    <3>1. "None" \in Queued
      BY DEF Queued
    <3> QED
      BY <1>4, <1>6, <2>1, <3>1, QueueAppend DEF NoneLast
  <2> QED
    BY <1>4, <2>1, <2>2 DEF WsAnswers
<1>8. CASE TextForward
  <2>1. /\ tpc = "running" /\ UNCHANGED <<tpc, apc, dones>>
        /\ queue' = queue \/ queue' = Append(queue, "sentence")
    BY <1>5, <1>8 DEF TextForward
  <2>2. NoNone(queue)'
    BY <1>4, <1>6, <2>1, QueueAppend DEF NoNone
  <2> QED
    BY <1>4, <2>1, <2>2 DEF WsAnswers
<1>9. CASE AudioSpeak
  <2>1. /\ apc = "running" /\ queue # << >> /\ queue' = Tail(queue)
        /\ UNCHANGED <<tpc, apc, dones, texts>>
    BY <1>5, <1>9 DEF AudioSpeak
  <2>2. (NoNone(queue) => NoNone(queue)') /\ (NoneLast(queue) => NoneLast(queue)')
    BY <1>6, <2>1, QueueTail DEF NoNone, NoneLast
  <2>3. tpc = "over" => Answered(texts)'
    BY <1>1, <1>4, <2>1, AnswerKept
  <2> QED
    BY <1>4, <2>1, <2>2, <2>3 DEF WsAnswers
<1>10. CASE AudioDone
  <2>1. /\ queue # << >> /\ Head(queue) = "None" /\ queue' = Tail(queue)
        /\ apc' = "over" /\ UNCHANGED <<tpc, texts>>
    BY <1>10 DEF AudioDone
  <2>2. tpc # "running" /\ Tail(queue) = << >> /\ NoneLast(Tail(queue))
    BY <1>1, <1>4, <1>6, <2>1, QueueTail
  <2>3. (tpc = "over" => Answered(texts)') /\ NoneLast(queue)'
    BY <1>1, <1>4, <2>1, <2>2, AnswerKept DEF NoneLast
  <2> QED
    BY <2>1, <2>2, <2>3 DEF WsAnswers
<1>11. CASE UNCHANGED <<tpc, apc, dones, queue, texts>>
  <2>1. tpc = "over" => Answered(texts)'
    BY <1>1, <1>4, <1>11, AnswerKept
  <2> QED
    BY <1>4, <1>11, <2>1 DEF WsAnswers, NoNone, NoneLast
<1>12. CASE ~(TextDone \/ TextForward \/ AudioSpeak \/ AudioDone \/ ListenFails)
  <2>1. "sse" # "ws"
    OBVIOUS
  <2>2. UNCHANGED <<tpc, apc, dones, queue, texts>>
    BY <1>3, <1>5, <1>12, <2>1, Zenon DEF
         Next, Gateway, TextLoop, AudioLoop, Speech, Client, Work, Subscribe, Mishap, SseAsk, Released,
         SseForward, SseCancel, Recognise, FinishAsr, Gathered, ListenFails, WsAsk, EndReceiving,
         ReceiveDisconnect, Receives, WsClose, TextDone, AfterDone, TextForward, AudioSpeak,
         AudioDone, Leave, ReceiveChat, Hears, StartAudio, StopAudio, ReceiveGarbage, Take,
         Supervise, Generate, Publish, EndStream, PublishNext, EndJob, Redeliver, Retriable,
         Crash, gateway, loops, audio, frames, agents, vars
  <2> QED
    BY <1>11, <2>2
<1> QED
  BY <1>7, <1>8, <1>9, <1>10, <1>12, <1>13

-----------------------------------------------------------------------------
(* The theorems.                                                           *)

LEMMA InvInit == Init => Inv
<1>1. Init => TypeOK
  <2>1. Init => Flags
    <3>1. Init => rpc \in {"reading", "asking"} /\ apc \in Loop
      BY Zenon DEF Init, Loop
    <3> QED
      BY <3>1 DEF Init, Flags, Loop, JobStates
  <2>3. Init => Counts /\ says \in 0 .. MaxSays /\ bus \in 0 .. MaxSays + 1
    BY DEF Init, Counts
  <2>2. Init => Streams
    BY DEF Init, Streams
  <2> QED
    BY <2>1, <2>2, <2>3, TypeParts
<1>2. Init => QueriesCounted /\ ListensFirst /\ AgentChosen
  BY DEF Init, QueriesCounted, Owed, ListensFirst, AgentChosen
<1>3. Init => NothingMissed
  BY DEF Init, NothingMissed
<1>4. Init => SseAnswers /\ WsAnswers
  BY DEF Init, SseAnswers, WsAnswers, NoNone
<1> QED
  BY <1>1, <1>2, <1>3, <1>4 DEF Inv

THEOREM Invariance == Spec => []Inv
<1>1. Inv /\ [Next]_vars => Inv'
  BY TypeStep, QueriesStep, ListensStep, NothingMissedStep, SseStep, WsStep DEF Inv
<1> QED
  BY <1>1, InvInit, PTL DEF Spec

\* Whatever the client, the agents, the sweeper and the failures do, every
\* variable keeps its type, and the bus holds no more queries than were made.
THEOREM TypeCorrect == Spec => []TypeOK
<1>1. Inv => TypeOK
  BY DEF Inv
<1> QED
  BY <1>1, Invariance, PTL

\* The gateway subscribes before it asks, so that a reader that still listens has
\* forwarded, or will find on the channel, all that was published, in that order.
THEOREM NothingIsMissed == Spec => []NothingMissed
<1>1. Inv => NothingMissed
  BY DEF Inv
<1> QED
  BY <1>1, Invariance, PTL

\* [DONE] reaches an undisturbed client, one whose text_loop did not end because
\* listen() raised, only when the texts it was sent are all that was published before
\* a [DONE] of the agents, and no sentence is unspoken.
THEOREM DoneComesAfterTheAnswer == Spec => []DoneIsComplete
<1>1. ASSUME Inv
      PROVE  DoneIsComplete
  <2>1. kind \in {"sse", "ws"}
    BY <1>1 DEF Inv, TypeOK
  <2>2. SUFFICES ASSUME dones > 0, Undisturbed, tpc # "broken"
                 PROVE  Answered(texts) /\ queue = << >>
    BY <2>2 DEF DoneIsComplete
  <2>3. CASE kind = "sse"
    BY <1>1, <2>2, <2>3 DEF Inv, SseAnswers
  <2>4. CASE kind = "ws"
    <3>1. tpc \in {"running", "over", "broken"}
      BY <1>1 DEF Inv, TypeOK, Loop
    <3> QED
      BY <1>1, <2>2, <2>4, <3>1 DEF Inv, WsAnswers, Undisturbed, Steady
  <2> QED
    BY <2>1, <2>3, <2>4
<1> QED
  BY <1>1, Invariance, PTL

\* An undisturbed client that has read [DONE] is sent nothing more: what a repeated
\* execution or a second query publishes stops at the gateway.
THEOREM NothingFollowsDone == Spec => DoneIsLast
<1>1. ASSUME Inv, [Next]_vars, dones > 0, Undisturbed
      PROVE  UNCHANGED frames
  <2>1. tpc # "running" /\ apc = "over"
    <3>1. kind \in {"sse", "ws"}
      BY <1>1 DEF Inv, TypeOK
    <3>2. CASE kind = "sse"
      BY <1>1, <3>2 DEF Inv, SseAnswers
    <3>3. CASE kind = "ws"
      BY <1>1, <3>3 DEF Inv, WsAnswers, Undisturbed, Steady
    <3> QED
      BY <3>1, <3>2, <3>3
  <2>2. "over" # "running"
    OBVIOUS
  <2> QED
    BY <1>1, <2>1, <2>2, Zenon DEF
         Next, Gateway, TextLoop, AudioLoop, Speech, Client, Work, Subscribe, Mishap, SseAsk, Released,
         SseForward, SseCancel, Recognise, FinishAsr, Gathered, ListenFails, WsAsk, EndReceiving,
         ReceiveDisconnect, Receives, WsClose, TextDone, AfterDone, TextForward, AudioSpeak,
         AudioDone, Leave, ReceiveChat, Hears, StartAudio, StopAudio, ReceiveGarbage, Take,
         Supervise, Generate, Publish, EndStream, PublishNext, EndJob, Redeliver, Retriable,
         Crash, gateway, loops, audio, frames, agents, vars
<1>2. Inv /\ [Next]_vars => [dones > 0 /\ Undisturbed => UNCHANGED frames]_vars
  BY <1>1
<1> QED
  BY <1>2, Invariance, PTL DEF Spec, DoneIsLast
=============================================================================
