---------------------------- MODULE StreamingChat ----------------------------
(***************************************************************************)
(* A client that reads an answer as it is generated, over SSE or over a    *)
(* WebSocket (gateway/server.py), and the agents that publish it token by  *)
(* token on the Pub/Sub channel of the request (utils/llm_engine.py and    *)
(* the agents' handlers).  A connection has one trace_id; what is published*)
(* while nobody is subscribed is lost.                                     *)
(*                                                                         *)
(* A WebSocket is served by three coroutines: receive_loop takes the       *)
(* client's messages, text_loop forwards tokens and queues sentences for   *)
(* audio_loop, which speaks them; a None in the queue ends it.             *)
(***************************************************************************)
EXTENDS Integers, Sequences, FiniteSets

CONSTANTS
    MaxTokens,     \* bound: tokens the LLM generates in one execution
    MaxSays,       \* bound: messages of the WebSocket client
    MaxRetries,    \* max_retries of the sweeper
    Mishaps,       \* the failures considered
    MaxMishaps     \* bound: how many there are

MishapKinds == {"subscribe", "listen", "add", "speech", "llm", "crash"}

ASSUME StreamingAssumption ==
    /\ MaxTokens \in Nat
    /\ MaxSays \in Nat
    /\ MaxRetries \in Nat
    /\ MaxMishaps \in Nat
    /\ Mishaps \subseteq MishapKinds

VARIABLES
    kind,      \* the endpoint: "sse" or "ws"
    client,    \* "connected" or "gone"
    sub,       \* the subscription to the channel; "left" when the handler forgot it
    rpc,       \* receive_loop, or the delivery of the SSE request
    tpc,       \* text_loop, or the SSE generator
    apc,       \* audio_loop
    asr,       \* whether an ASR session is open
    tts,       \* enable_tts
    rest,      \* whether sentence_buffer holds text
    queue,     \* tts_queue
    channel,   \* messages on their way to the subscriber
    texts,     \* the text frames sent to the client
    sounds,    \* how many audio frames
    dones,     \* how many [DONE] frames
    says,      \* messages of the client so far
    bus,       \* entries of this trace on bus:events:dispatcher
    job,       \* what the agents do for this trace
    agent,     \* the agent the dispatcher chose
    tokens,    \* tokens of this execution so far
    script,    \* what it has still to publish before its handler ends
    retries,   \* re-deliveries of the agent's message
    said,      \* all that was published on the channel
    mishaps    \* failures so far

loops == <<rpc, tpc, apc>>
audio == <<asr, tts, rest, queue>>
frames == <<texts, sounds, dones>>
gateway == <<kind, sub, loops, audio, frames, says>>
agents == <<job, agent, tokens, script, retries, said>>
vars == <<gateway, client, channel, bus, agents, mishaps>>

-----------------------------------------------------------------------------
Done == "[DONE]"
Texts == {"word", "stop"}       \* "stop" ends a sentence
Agents == {"chat_agent", "writer", "coder"}
Loop == {"running", "over"}
JobStates == {"none", "routing", "streaming", "publishing", "raising", "lost",
              "refused", "dead", "ended"}
Working == {"routing", "streaming", "publishing", "raising"}

Mishap(k) == /\ k \in Mishaps
             /\ mishaps < MaxMishaps
             /\ mishaps' = mishaps + 1

Init == /\ kind \in {"sse", "ws"}
        /\ client = "connected"
        /\ sub = "none"
        /\ rpc = IF kind = "ws" THEN "reading" ELSE "asking"
        /\ tpc = "running"
        /\ apc = IF kind = "ws" THEN "running" ELSE "over"
        /\ asr = FALSE
        /\ tts = TRUE
        /\ rest = FALSE
        /\ queue = << >>
        /\ channel = << >>
        /\ texts = << >>
        /\ sounds = 0
        /\ dones = 0
        /\ says = 0
        /\ bus = 0
        /\ job = "none"
        /\ agent = "none"
        /\ tokens = 0
        /\ script = << >>
        /\ retries = 0
        /\ said = << >>
        /\ mishaps = 0

-----------------------------------------------------------------------------
(* Both endpoints.                                                         *)

Subscribe ==
    /\ sub = "none"
    /\ \/ sub' = "on" /\ UNCHANGED <<loops, mishaps>>
       \/ /\ Mishap("subscribe")
          /\ sub' = "off"
          /\ rpc' = "over" /\ tpc' = "over" /\ apc' = "over"
    /\ UNCHANGED <<kind, client, audio, frames, says, channel, bus, agents>>

\* Mutant of Listening: the request is delivered before the subscription.
ListeningNot == sub # "off"
Listening == sub = "on"

\* Mutant of Released: the finally branch forgets the subscription.
ReleasedNot == "on"
Released == "off"

\* listen() raises: SSE sends an error frame and ends; text_loop ends the queue as
\* [DONE] would, whatever it has forwarded.
ListenFails ==
    /\ sub = "on" /\ tpc = "running"
    /\ Mishap("listen")
    /\ tpc' = "broken"
    /\ \/ kind = "sse" /\ rpc = "over" /\ sub' = Released /\ UNCHANGED queue
       \/ kind = "ws" /\ queue' = Append(queue, "None") /\ UNCHANGED sub
    /\ UNCHANGED <<kind, client, rpc, apc, asr, tts, rest, frames, says, channel, bus, agents>>

Leave == /\ client = "connected"
         /\ client' = "gone"
         /\ UNCHANGED <<gateway, channel, bus, agents, mishaps>>

-----------------------------------------------------------------------------
(* SSE: event_generator.                                                   *)

SseAsk ==
    /\ kind = "sse" /\ rpc = "asking"
    /\ Listening
    /\ rpc' = "over"
    /\ \/ bus' = bus + 1 /\ UNCHANGED <<sub, tpc, mishaps>>
       \/ /\ Mishap("add")
          /\ bus' \in {bus, bus + 1}
          /\ sub' = Released
          /\ tpc' = "over"
    /\ UNCHANGED <<kind, client, apc, audio, frames, says, channel, agents>>

SseForward ==
    /\ kind = "sse" /\ rpc = "over" /\ tpc = "running"
    /\ channel # << >>
    /\ channel' = Tail(channel)
    /\ \/ /\ Head(channel) = Done
          /\ dones' = dones + 1
          /\ sub' = Released
          /\ tpc' = "over"
          /\ UNCHANGED texts
       \/ /\ Head(channel) # Done
          /\ texts' = Append(texts, Head(channel))
          /\ UNCHANGED <<sub, tpc, dones>>
    /\ UNCHANGED <<kind, client, rpc, apc, audio, sounds, says, bus, agents, mishaps>>

\* The server cancels the generator of a client that has gone.
SseCancel ==
    /\ kind = "sse" /\ sub = "on" /\ tpc = "running"
    /\ client = "gone"
    /\ sub' = Released
    /\ rpc' = "over" /\ tpc' = "over"
    /\ UNCHANGED <<kind, client, apc, audio, frames, says, channel, bus, agents, mishaps>>

-----------------------------------------------------------------------------
(* receive_loop.                                                           *)

Receives == /\ kind = "ws" /\ rpc = "reading"
            /\ Listening
Hears == /\ Receives
         /\ client = "connected"
         /\ says < MaxSays
         /\ says' = says + 1

\* require_audio of any message sets enable_tts; its default is TRUE.
ReceiveChat ==
    /\ Hears
    /\ tts' \in BOOLEAN
    /\ rpc' = "asking"
    /\ UNCHANGED <<kind, client, sub, tpc, apc, asr, rest, queue, channel, frames, bus, agents, mishaps>>

StartAudio ==
    /\ Hears
    /\ tts' \in BOOLEAN
    /\ asr' = TRUE
    /\ UNCHANGED <<kind, client, sub, loops, rest, queue, channel, frames, bus, agents, mishaps>>

StopAudio ==
    /\ Hears
    /\ tts' \in BOOLEAN
    /\ rpc' = IF asr THEN "recognising" ELSE "reading"
    /\ UNCHANGED <<kind, client, sub, tpc, apc, asr, rest, queue, channel, frames, bus, agents, mishaps>>

EndReceiving == rpc' = "over" /\ queue' = Append(queue, "None")

\* asr_session.finish() may raise, which ends the loop with the session still open,
\* and nothing bounds the time it takes. Nothing recognised is nothing done: the
\* branch that would tell the client stands behind an elif that is never reached.
Recognise ==
    /\ kind = "ws" /\ rpc = "recognising"
    /\ \/ asr' = FALSE /\ rpc' \in {"speaking", "reading"} /\ UNCHANGED <<queue, mishaps>>
       \/ Mishap("speech") /\ EndReceiving /\ UNCHANGED asr
    /\ UNCHANGED <<kind, client, sub, tpc, apc, tts, rest, channel, frames, says, bus, agents>>

\* XADD: its failure is logged for a typed query, and ends the loop for speech.
WsAsk ==
    /\ kind = "ws" /\ rpc \in {"asking", "speaking"}
    /\ \/ /\ bus' = bus + 1
          /\ rpc' = "reading"
          /\ UNCHANGED <<queue, mishaps>>
       \/ /\ Mishap("add")
          /\ bus' \in {bus, bus + 1}
          /\ \/ rpc = "asking" /\ rpc' = "reading" /\ UNCHANGED queue
             \/ rpc = "speaking" /\ EndReceiving
    /\ UNCHANGED <<kind, client, sub, tpc, apc, asr, tts, rest, channel, frames, says, agents>>

\* A message that is no JSON, or an ASR session that cannot start, ends the loop.
ReceiveGarbage ==
    /\ Hears
    /\ EndReceiving
    /\ UNCHANGED <<kind, client, sub, tpc, apc, asr, tts, rest, channel, frames, bus, agents, mishaps>>

ReceiveDisconnect ==
    /\ Receives
    /\ client = "gone"
    /\ EndReceiving
    /\ UNCHANGED <<kind, client, sub, tpc, apc, asr, tts, rest, channel, frames, says, bus, agents, mishaps>>

-----------------------------------------------------------------------------
(* text_loop and audio_loop.                                               *)

\* Mutant of LastWords: None goes before the sentence that is left.
LastWordsLate == <<"None">> \o (IF rest /\ tts THEN <<"sentence">> ELSE << >>)
LastWords == (IF rest /\ tts THEN <<"sentence">> ELSE << >>) \o <<"None">>

\* Mutant of AfterDone: the loop goes on listening for the next answer.
AfterDoneRunning == "running"
AfterDone == "over"

TextDone ==
    /\ kind = "ws" /\ tpc = "running"
    /\ channel # << >> /\ Head(channel) = Done
    /\ channel' = Tail(channel)
    /\ queue' = queue \o LastWords
    /\ rest' = FALSE
    /\ tpc' = AfterDone
    /\ UNCHANGED <<kind, client, sub, rpc, apc, asr, tts, frames, says, bus, agents, mishaps>>

TextForward ==
    /\ kind = "ws" /\ tpc = "running"
    /\ channel # << >> /\ Head(channel) # Done
    /\ channel' = Tail(channel)
    /\ \/ /\ texts' = Append(texts, Head(channel))
          /\ rest' = (Head(channel) # "stop")
          /\ queue' = IF Head(channel) = "stop" /\ tts THEN Append(queue, "sentence") ELSE queue
          /\ UNCHANGED tpc
       \/ /\ client = "gone"                              \* send_text raises
          /\ queue' = Append(queue, "None")
          /\ tpc' = "over"
          /\ UNCHANGED <<texts, rest>>
    /\ UNCHANGED <<kind, client, sub, rpc, apc, asr, tts, sounds, dones, says, bus, agents, mishaps>>

AudioSpeak ==
    /\ apc = "running"
    /\ queue # << >> /\ Head(queue) = "sentence"
    /\ queue' = Tail(queue)
    /\ \/ sounds' = sounds + 1 /\ UNCHANGED apc
       \/ UNCHANGED <<sounds, apc>>                       \* TTS yields nothing
       \/ client = "gone" /\ apc' = "over" /\ UNCHANGED sounds
    /\ UNCHANGED <<kind, client, sub, rpc, tpc, asr, tts, rest, texts, dones, channel, says, bus, agents,
                   mishaps>>

AudioDone ==
    /\ apc = "running"
    /\ queue # << >> /\ Head(queue) = "None"
    /\ queue' = Tail(queue)
    /\ \/ dones' = dones + 1
       \/ client = "gone" /\ UNCHANGED dones
    /\ apc' = "over"
    /\ UNCHANGED <<kind, client, sub, rpc, tpc, asr, tts, rest, texts, sounds, channel, says, bus, agents,
                   mishaps>>

\* gather returns when all three have, and only then.
Gathered == kind = "ws" /\ rpc = "over" /\ tpc # "running" /\ apc = "over"

\* The finally branch asks an ASR session that is still open for its result first:
\* an exception of finish() skips unsubscribe.
FinishAsr ==
    /\ sub = "on" /\ Gathered /\ asr
    /\ \/ asr' = FALSE /\ UNCHANGED <<sub, mishaps>>
       \/ Mishap("speech") /\ sub' = "left" /\ UNCHANGED asr
    /\ UNCHANGED <<kind, client, loops, tts, rest, queue, channel, frames, says, bus, agents>>

WsClose ==
    /\ sub = "on" /\ Gathered /\ ~asr
    /\ sub' = Released
    /\ UNCHANGED <<kind, client, loops, audio, channel, frames, says, bus, agents, mishaps>>

-----------------------------------------------------------------------------
(* The dispatcher and the agents.                                          *)

Publish(text) == /\ said' = Append(said, text)
                 /\ channel' = IF sub = "on" THEN Append(channel, text) ELSE channel

\* Every query of a connection bears its trace_id: the second is a duplicate for
\* as long as the key of the first lives, an hour.
Take ==
    /\ bus > 0
    /\ bus' = bus - 1
    /\ job' = IF job = "none" THEN "routing" ELSE job
    /\ UNCHANGED <<gateway, client, channel, agent, tokens, script, retries, said, mishaps>>

\* Supervisor.handle_event: nobody fits, an agent does, or the planner, which
\* refuses: the payload of a streamed request has no auth_token.
Supervise ==
    /\ job = "routing"
    /\ \/ job' = "publishing" /\ script' = <<"stop", Done>> /\ UNCHANGED <<agent, retries>>
       \/ job' = "streaming" /\ agent' \in Agents /\ retries' = 0 /\ UNCHANGED script
       \/ job' = "refused" /\ UNCHANGED <<agent, script, retries>>
    /\ UNCHANGED <<gateway, client, channel, bus, tokens, said, mishaps>>

Generate ==
    /\ job = "streaming"
    /\ tokens < MaxTokens
    /\ tokens' = tokens + 1
    /\ \E text \in Texts : Publish(text)
    /\ UNCHANGED <<gateway, client, bus, job, agent, script, retries, mishaps>>

\* Mutant of Farewell: the coder leaves the end signal to the LLM engine, which
\* it asked not to send any.
FarewellSilent == IF agent = "coder" THEN <<"word">> ELSE <<Done>>
Farewell == IF agent = "coder" THEN <<"word", Done>> ELSE <<Done>>

\* After an exception: the engine's notice, [DONE] if it sends any, and the writer's.
Apology == CASE agent = "chat_agent" -> <<"word", Done>>
             [] agent = "writer" -> <<"word", Done, "word", Done>>
             [] agent = "coder" -> <<"word">>

EndStream ==
    /\ job = "streaming"
    /\ \/ job' = "publishing" /\ script' = Farewell /\ UNCHANGED mishaps
       \/ /\ Mishap("llm")
          /\ job' = IF agent = "coder" THEN "raising" ELSE "publishing"
          /\ script' = Apology
    /\ UNCHANGED <<gateway, client, channel, bus, agent, tokens, retries, said>>

PublishNext ==
    /\ job \in {"publishing", "raising"} /\ script # << >>
    /\ Publish(Head(script))
    /\ script' = Tail(script)
    /\ UNCHANGED <<gateway, client, bus, job, agent, tokens, retries, mishaps>>

\* The handler returns; the coder's raises when its LLM did, without any [DONE].
EndJob ==
    /\ job \in {"publishing", "raising"} /\ script = << >>
    /\ job' = IF job = "raising" THEN "lost" ELSE "ended"
    /\ UNCHANGED <<gateway, client, channel, bus, agent, tokens, script, retries, said, mishaps>>

\* The worker dies; its message stays pending.
Crash ==
    /\ job \in Working
    /\ Mishap("crash")
    /\ job' = "lost"
    /\ script' = << >>
    /\ UNCHANGED <<gateway, client, channel, bus, agent, tokens, retries, said>>

\* Mutant of Retriable: one retry too many.
RetriableOnceMore == retries <= MaxRetries
Retriable == retries < MaxRetries

\* The sweeper delivers it again, from the start, or gives it up.
Redeliver ==
    /\ job = "lost"
    /\ \/ /\ Retriable
          /\ job' = IF agent = "none" THEN "routing" ELSE "streaming"
          /\ retries' = retries + 1
          /\ tokens' = 0
       \/ ~Retriable /\ job' = "dead" /\ UNCHANGED <<retries, tokens>>
    /\ UNCHANGED <<gateway, client, channel, bus, agent, script, said, mishaps>>

-----------------------------------------------------------------------------
Gateway == \/ Subscribe \/ SseAsk \/ SseForward \/ SseCancel \/ WsAsk
           \/ ReceiveDisconnect \/ WsClose
Speech == Recognise \/ FinishAsr
TextLoop == TextDone \/ TextForward
AudioLoop == AudioSpeak \/ AudioDone
Client == Leave \/ ReceiveChat \/ StartAudio \/ StopAudio \/ ReceiveGarbage
Work == \/ Take \/ Supervise \/ Generate \/ EndStream \/ PublishNext \/ EndJob
        \/ Redeliver

Next == Gateway \/ Speech \/ TextLoop \/ AudioLoop \/ ListenFails \/ Client \/ Work \/ Crash

Spec == Init /\ [][Next]_vars

\* The event loop runs its coroutines, the agents and the sweeper theirs; the
\* client and the ASR service owe nothing, and nothing is obliged to fail.
Fairness == /\ WF_vars(Gateway)
            /\ WF_vars(TextLoop)
            /\ WF_vars(AudioLoop)
            /\ WF_vars(Work)

FairSpec == Spec /\ Fairness

-----------------------------------------------------------------------------
(* What must hold.                                                         *)

TypeOK ==
    /\ kind \in {"sse", "ws"}
    /\ client \in {"connected", "gone"}
    /\ sub \in {"none", "on", "off", "left"}
    /\ rpc \in {"reading", "asking", "recognising", "speaking", "over"}
    /\ tpc \in Loop \cup {"broken"} /\ apc \in Loop
    /\ asr \in BOOLEAN /\ tts \in BOOLEAN /\ rest \in BOOLEAN
    /\ queue \in Seq({"sentence", "None"})
    /\ channel \in Seq(Texts \cup {Done})
    /\ texts \in Seq(Texts)
    /\ sounds \in Nat /\ dones \in Nat
    /\ says \in 0 .. MaxSays
    /\ bus \in 0 .. MaxSays + 1
    /\ job \in JobStates
    /\ agent \in Agents \cup {"none"}
    /\ tokens \in 0 .. MaxTokens
    /\ script \in Seq(Texts \cup {Done})
    /\ retries \in 0 .. MaxRetries
    /\ said \in Seq(Texts \cup {Done})
    /\ mishaps \in 0 .. MaxMishaps

\* "Subscribe first to prevent the first token from being missed": as long as the
\* reader listens, what it has sent on and what is on its way is all that was
\* published, in that order, whatever the other coroutines do.
NothingMissed == tpc = "running" => texts \o channel = said

\* When a client reads [DONE] it has been sent the whole answer, all texts up to a
\* [DONE] of the agents, and no sentence is left to be spoken, unless its own
\* message or departure, or the ASR, broke receive_loop, or listen() raised: then
\* text_loop has it sent [DONE] after as much of the answer as there was.
Undisturbed == client = "connected" /\ (kind = "ws" => rpc # "over")
Answered(t) == \E n \in DOMAIN said : said[n] = Done /\ t = SubSeq(said, 1, n - 1)
DoneIsComplete == (dones > 0 /\ Undisturbed /\ tpc # "broken") =>
    /\ Answered(texts)
    /\ "sentence" \notin {queue[i] : i \in DOMAIN queue}

\* Nothing follows [DONE]: neither a token of a repeated execution nor a sound.
DoneIsLast == [][
    (dones > 0 /\ Undisturbed) => UNCHANGED frames]_vars

\* "You must actively push text and end signals": a connection that has asked
\* reads [DONE], unless a call failed, the planner refused or the client left.
FirstQueryAnswered ==
    (bus > 0) ~> (dones > 0 \/ client = "gone" \/ mishaps > 0 \/ job = "refused")

\* "Be sure to clean up the Redis subscription": after the client has gone the
\* connection lets go of its channel, unless nothing is ever said on it, or it waits
\* for the result of an ASR session, or asking for that raised in the finally branch.
Silent == bus = 0 /\ channel = << >> /\ job \in {"none", "refused", "dead"}
Recognising == asr /\ (rpc = "recognising" \/ Gathered)
SubscriptionEnds == (client = "gone") ~> (sub = "off" \/ Silent \/ Recognising)

=============================================================================
