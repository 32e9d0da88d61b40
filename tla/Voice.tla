------------------------------- MODULE Voice -------------------------------
(* The voice package: who has the floor, a reply spoken while it streams,    *)
(* and one recording.                                                        *)
EXTENDS Naturals, Sequences, FiniteSets, SequencesExt

-----------------------------------------------------------------------------
(***************************************************************************)
(* rpi-voice: who has the floor.  The key thread, a hold timer and a       *)
(* recorder per press, the hands-free listener, the one-shot dictation,    *)
(* the /voice command and the speech worker share a few flags and slots.   *)
(* Each action is what a thread does between two points where another may  *)
(* act: the flags are atomics, PTT is behind a mutex.                      *)
(***************************************************************************)

CONSTANTS
  MaxPresses,  \* bound on presses of the key
  MaxJobs,     \* bound on utterances queued
  MaxTurns,    \* bound on hands-free listeners started
  MaxVoiceStarts, \* bound on presses, utterances and listeners together
  MaxEmpty     \* auto_talk_max_empty

ASSUME VoiceConstants ==
  {MaxPresses, MaxJobs, MaxTurns, MaxVoiceStarts} \subseteq Nat /\ MaxEmpty \in Nat \ {0}

VARIABLES
  modes,      \* AUTO_TTS, AUTO_MODE, AUTO_TALK and PTT, as flags
  recording,  \* RECORDING
  playStop,   \* PLAYBACK_STOP: does it hold the handle of the utterance
  queue,      \* the worker's channel: is each job of the present
              \* PLAYBACK_GENERATION
  worker,     \* the speech worker: [at, fresh, stopped], fresh likewise
  jobs,
  ptt,        \* PTT: [press, stop, owner, sends]; the press is 0 when up
  presses,    \* the last press's token
  press,      \* per press: its timer, its recorder, and whether it was sent
  pressStop,  \* stop flags raised, by press that may record
  released,   \* presses the user let go of while they recorded
  keyHeld,       \* the press the user still holds
  lostStop,   \* /voice ptt off dropped a stop flag it had not raised
  turns,      \* per hands-free listener: where it is
  turnStop,   \* stop flags raised, by listener
  turnSlot,   \* AUTO_TALK_STOP
  empties,    \* AUTO_TALK_EMPTY
  command     \* the /voice command's thread, then its dictation

pttVars == <<ptt, presses, press, pressStop, released, keyHeld, lostStop>>
playVars == <<playStop, queue, worker, jobs>>
turnVars == <<turns, turnStop, turnSlot, empties>>
voiceVars == <<modes, recording, pttVars, playVars, turnVars, command>>

PressIds == 1..MaxPresses
TurnIds == 1..MaxTurns
Off == [tts |-> FALSE, autoMode |-> FALSE, autoTalk |-> FALSE, ptt |-> FALSE]
Idle == [at |-> "idle", fresh |-> FALSE, stopped |-> FALSE]

TurnsBegun == Cardinality({u \in TurnIds : turns[u] # "none"})
MoreMayStart == presses + jobs + TurnsBegun < MaxVoiceStarts

-----------------------------------------------------------------------------
\* stop_playback: what is spoken is cut, what is queued is stale.
StopPlayback ==
  /\ playStop' = FALSE /\ queue' = [j \in DOMAIN queue |-> FALSE]
  /\ worker' = [worker EXCEPT !.stopped = @ \/ playStop, !.fresh = FALSE]
  /\ UNCHANGED jobs

\* pause_auto_talk: the listener in flight is told to stop.
PauseAutoTalk ==
  /\ modes' = [modes EXCEPT !.autoTalk = FALSE]
  /\ IF modes.autoTalk
     THEN turnStop' = turnStop \cup ({turnSlot} \ {0}) /\ turnSlot' = 0
     ELSE UNCHANGED <<turnStop, turnSlot>>
  /\ UNCHANGED <<turns, empties>>

\* maybe_auto_listen: a listener starts when the mode is on and nobody records.
MaybeAutoListen(talking) ==
  LET t == TurnsBegun + 1 IN
  IF talking /\ ~recording /\ t <= MaxTurns /\ MoreMayStart
  THEN turns' = [turns EXCEPT ![t] = "spawned"] /\ turnSlot' = t
  ELSE UNCHANGED <<turns, turnSlot>>

-----------------------------------------------------------------------------
(* Push-to-talk.                                                            *)
KeyIsOurs == modes.ptt \/ modes.autoMode

PressKey ==
  LET t == presses + 1 IN
  /\ KeyIsOurs /\ ptt.press = 0 /\ t <= MaxPresses /\ MoreMayStart
  /\ presses' = t /\ ptt' = [ptt EXCEPT !.press = t]
  /\ press' = [press EXCEPT ![t] = "armed"] /\ keyHeld' = t
  /\ UNCHANGED <<modes, recording, pressStop, released, lostStop, playVars, turnVars, command>>

\* The release of a press that records is its intent to send.
ReleaseKey ==
  /\ KeyIsOurs /\ ptt.press # 0 /\ keyHeld' = 0
  /\ IF ptt.stop # 0
     THEN /\ ptt' = [ptt EXCEPT !.press = 0, !.stop = 0, !.sends = @ \cup {ptt.press}]
          /\ pressStop' = pressStop \cup {ptt.stop} /\ released' = released \cup {ptt.press}
     ELSE ptt' = [ptt EXCEPT !.press = 0] /\ UNCHANGED <<pressStop, released>>
  /\ UNCHANGED <<modes, recording, presses, press, lostStop, playVars, turnVars, command>>

\* arm_ptt_start: past the hold time, if the same press is still held.
ArmExpires(t) ==
  /\ press[t] = "armed"
  /\ press' = [press EXCEPT ![t] = IF ptt.press = t /\ ptt.stop = 0 THEN "starting" ELSE "done"]
  /\ UNCHANGED <<modes, recording, ptt, presses, pressStop, released, keyHeld, lostStop, playVars, turnVars, command>>

\* start_ptt_recording: nobody records; the assistant is silenced.
StartBargesIn(t) ==
  /\ press[t] = "starting"
  /\ IF recording
     THEN press' = [press EXCEPT ![t] = "done"] /\ UNCHANGED <<modes, playVars>>
     ELSE /\ press' = [press EXCEPT ![t] = "claiming"]
          /\ modes' = [modes EXCEPT !.autoTalk = @ \/ modes.autoMode] /\ StopPlayback
  /\ UNCHANGED <<recording, ptt, presses, pressStop, released, keyHeld, lostStop, turnVars, command>>

\* The press may have ended meanwhile.
StartClaims(t) ==
  /\ press[t] = "claiming"
  /\ IF ptt.press = t /\ ptt.stop = 0
     THEN ptt' = [ptt EXCEPT !.stop = t, !.owner = t] /\ press' = [press EXCEPT ![t] = "recording"] /\ recording' = TRUE
     ELSE press' = [press EXCEPT ![t] = "done"] /\ UNCHANGED <<ptt, recording>>
  /\ UNCHANGED <<modes, presses, pressStop, released, keyHeld, lostStop, playVars, turnVars, command>>

\* The recorder returns: stopped, at its cap, or because the device failed.
PressRecorded(t) ==
  /\ press[t] = "recording" /\ press' = [press EXCEPT ![t] = "finishing"] /\ recording' = FALSE
  /\ pressStop' = pressStop \ {t}
  /\ UNCHANGED <<modes, ptt, presses, released, keyHeld, lostStop, playVars, turnVars, command>>

\* ptt_finish: only what is still this press's is cleared.
PttFinished(t) ==
  [ptt EXCEPT !.sends = @ \ {t},
              !.stop = IF ptt.owner = t THEN 0 ELSE @, !.owner = IF @ = t THEN 0 ELSE @,
              !.press = IF @ = t THEN 0 ELSE @]

SendIntent(t) == t \in ptt.sends

\* finish_recording: what was heard is delivered, unless it was nothing.
FinishPress(t, heard) ==
  /\ press[t] = "finishing" /\ press' = [press EXCEPT ![t] = IF SendIntent(t) /\ heard THEN "sent" ELSE "done"]
  /\ ptt' = PttFinished(t) /\ keyHeld' = IF keyHeld = t THEN 0 ELSE keyHeld
  /\ UNCHANGED <<modes, recording, presses, pressStop, released, lostStop, playVars, turnVars, command>>

-----------------------------------------------------------------------------
(* The speech worker.                                                       *)
EnqueueSpeech ==
  /\ jobs < MaxJobs /\ MoreMayStart /\ jobs' = jobs + 1 /\ queue' = Append(queue, TRUE)
  /\ UNCHANGED <<modes, recording, pttVars, playStop, worker, turnVars, command>>

MicOwnsTheFloor == recording \/ ptt.press # 0

\* The next job: stale, muted, or dropped because the user talks.
TakeJob ==
  /\ worker.at = "idle" /\ queue # <<>> /\ queue' = Tail(queue)
  /\ CASE ~Head(queue) -> UNCHANGED <<worker, turns, turnSlot>>
       [] Head(queue) /\ ~modes.tts -> MaybeAutoListen(modes.autoTalk) /\ UNCHANGED worker
       [] Head(queue) /\ modes.tts /\ MicOwnsTheFloor -> UNCHANGED <<worker, turns, turnSlot>>
       [] OTHER -> /\ worker' = [at |-> "starting", fresh |-> TRUE, stopped |-> FALSE]
                   /\ UNCHANGED <<turns, turnSlot>>
  /\ UNCHANGED <<modes, recording, pttVars, playStop, jobs, turnStop, empties, command>>

\* synthesize_and_play publishes its handle and speaks.
StartPlaying ==
  /\ worker.at = "starting" /\ worker' = [worker EXCEPT !.at = "playing"] /\ playStop' = TRUE
  /\ UNCHANGED <<modes, recording, pttVars, queue, jobs, turnVars, command>>

\* To the end or cut; the listener starts unless a barge-in took the floor.
EndPlaying ==
  /\ worker.at = "playing" /\ worker' = Idle /\ playStop' = FALSE
  /\ MaybeAutoListen(modes.autoTalk /\ worker.fresh)
  /\ UNCHANGED <<modes, recording, pttVars, queue, jobs, turnStop, empties, command>>

-----------------------------------------------------------------------------
(* The hands-free listener.                                                 *)
ClaimMic(t) ==
  /\ turns[t] = "spawned" /\ recording' = TRUE
  /\ turns' = [turns EXCEPT ![t] = IF recording THEN "done" ELSE "deciding"]
  /\ UNCHANGED <<modes, pttVars, playVars, turnStop, turnSlot, empties, command>>

TurnOver(t) ==
  /\ turns' = [turns EXCEPT ![t] = "done"] /\ turnStop' = turnStop \ {t} /\ recording' = FALSE
  /\ turnSlot' = IF turnSlot = t THEN 0 ELSE turnSlot

DecideTurn(t) ==
  /\ turns[t] = "deciding"
  /\ IF modes.autoTalk /\ t \notin turnStop
     THEN turns' = [turns EXCEPT ![t] = "listening"] /\ UNCHANGED <<recording, turnStop, turnSlot>>
     ELSE TurnOver(t)
  /\ UNCHANGED <<modes, pttVars, playVars, empties, command>>

\* record_and_send_until: delivered, empty, or failed; a raised flag makes it
\* fail, which ends the mode as any failure does.
TurnHeard(t) ==
  /\ turns[t] = "listening" /\ t \notin turnStop /\ TurnOver(t) /\ empties' = 0
  /\ UNCHANGED <<modes, pttVars, playVars, command>>
TurnEmpty(t) ==
  /\ turns[t] = "listening" /\ t \notin turnStop /\ modes.autoTalk /\ empties' = empties + 1
  /\ IF empties' >= MaxEmpty
     THEN TurnOver(t) /\ modes' = [modes EXCEPT !.autoTalk = FALSE]
     ELSE turns' = [turns EXCEPT ![t] = "deciding"] /\ UNCHANGED <<recording, turnStop, turnSlot, modes>>
  /\ UNCHANGED <<pttVars, playVars, command>>
TurnFailed(t) ==
  /\ turns[t] = "listening" /\ TurnOver(t) /\ modes' = [modes EXCEPT !.autoTalk = FALSE]
  /\ UNCHANGED <<pttVars, playVars, empties, command>>

-----------------------------------------------------------------------------
(* The user's other acts.                                                   *)
TypeText ==
  /\ StopPlayback /\ PauseAutoTalk
  /\ UNCHANGED <<recording, pttVars, command>>

VoiceOff ==
  /\ modes' = [modes EXCEPT !.tts = FALSE, !.autoMode = FALSE, !.autoTalk = FALSE]
  /\ turnStop' = turnStop \cup ({turnSlot} \ {0}) /\ turnSlot' = 0 /\ StopPlayback
  /\ command = "idle" /\ UNCHANGED <<recording, pttVars, turns, empties, command>>

VoiceAutoOn ==
  /\ modes' = [modes EXCEPT !.tts = TRUE, !.autoMode = TRUE, !.autoTalk = TRUE] /\ empties' = 0
  /\ StopPlayback /\ MaybeAutoListen(TRUE)
  /\ command = "idle" /\ UNCHANGED <<recording, pttVars, turnStop, command>>

VoicePttOn ==
  /\ command = "idle" /\ modes' = [modes EXCEPT !.ptt = TRUE, !.tts = TRUE]
  /\ UNCHANGED <<recording, pttVars, playVars, turnVars, command>>

\* /voice ptt off raises the stop flag, then resets the state, in two holds
\* of the lock.
VoicePttOff ==
  /\ command = "idle" /\ modes.ptt /\ modes' = [modes EXCEPT !.ptt = FALSE] /\ command' = "resetting"
  /\ pressStop' = IF ptt.stop # 0 THEN pressStop \cup {ptt.stop} ELSE pressStop
  /\ ptt' = [ptt EXCEPT !.stop = 0]
  /\ UNCHANGED <<recording, presses, press, released, keyHeld, lostStop, playVars, turnVars>>
PttReset ==
  /\ command = "resetting" /\ command' = "idle" /\ keyHeld' = 0
  /\ ptt' = [press |-> 0, stop |-> 0, owner |-> 0, sends |-> {}] /\ lostStop' = (lostStop \/ ptt.stop # 0)
  /\ UNCHANGED <<modes, recording, presses, press, pressStop, released, playVars, turnVars>>

\* /voice: a one-shot dictation.
Dictate ==
  \/ /\ command = "idle" /\ ~recording /\ StopPlayback /\ recording' = TRUE /\ command' = "dictating"
     /\ UNCHANGED <<modes, pttVars, turnVars>>
  \/ /\ command = "dictating" /\ recording' = FALSE /\ command' = "idle"
     /\ UNCHANGED <<modes, pttVars, playVars, turnVars>>

-----------------------------------------------------------------------------
VoiceInit ==
  /\ modes = Off /\ recording = FALSE /\ playStop = FALSE /\ queue = <<>> /\ worker = Idle /\ jobs = 0
  /\ ptt = [press |-> 0, stop |-> 0, owner |-> 0, sends |-> {}] /\ presses = 0
  /\ press = [t \in PressIds |-> "none"] /\ pressStop = {} /\ released = {} /\ keyHeld = 0
  /\ lostStop = FALSE /\ turns = [t \in TurnIds |-> "none"] /\ turnStop = {} /\ turnSlot = 0 /\ empties = 0
  /\ command = "idle"

VoiceNext ==
  \/ PressKey \/ ReleaseKey
  \/ \E t \in PressIds : \/ ArmExpires(t) \/ StartBargesIn(t) \/ StartClaims(t) \/ PressRecorded(t)
                         \/ \E heard \in BOOLEAN : FinishPress(t, heard)
  \/ EnqueueSpeech \/ TakeJob \/ StartPlaying \/ EndPlaying
  \/ \E t \in TurnIds : ClaimMic(t) \/ DecideTurn(t) \/ TurnHeard(t) \/ TurnEmpty(t) \/ TurnFailed(t)
  \/ TypeText \/ VoiceOff \/ VoiceAutoOn \/ VoicePttOn \/ VoicePttOff \/ PttReset \/ Dictate

-----------------------------------------------------------------------------
\* A press the user still holds is remembered, whatever an older press's
\* recorder clears when it finishes: its release will not fall through to
\* the editor as typed text.
PressRemembered == keyHeld # 0 => ptt.press = keyHeld

\* An utterance is sent only for a press that was let go while it recorded:
\* no release leaks its intent into another press's recording.
SentWasReleased == \A t \in PressIds : press[t] = "sent" => t \in released

\* A press's microphone is open only while its stop flag can still be raised
\* or was raised: letting go always ends it (unless /voice ptt off came
\* between its own two steps).
NoRunawayMic ==
  ~lostStop => \A t \in PressIds : press[t] = "recording" => ptt.stop = t \/ t \in pressStop

-----------------------------------------------------------------------------
(***************************************************************************)
(* rpi-voice: a reply spoken while it streams.  The host reports a reply   *)
(* by deltas, by growing snapshots that may repeat or roll back, or only   *)
(* at its end; on_message_start, on_message_update and on_message_end turn *)
(* it into utterances.  A reply is a sequence of pieces, each prose, a     *)
(* rule (markup that is not read) or a code fence; what stands between two *)
(* fences is code.  Positions stand for the text.                          *)
(***************************************************************************)

CONSTANTS
  PieceKinds,   \* a subset of {"prose", "rule", "fence"}
  MaxPieces,    \* bound on the pieces of a reply
  MaxReplies    \* bound on replies

ASSUME StreamConstants ==
  PieceKinds \subseteq {"prose", "rule", "fence"} /\ MaxPieces \in Nat /\ MaxReplies \in Nat

VARIABLES
  reply,          \* the kinds of the reply's pieces
  style,          \* how the host reports it, "none" between replies
  streamed,       \* how much of it the host has sent
  speechBuffer,   \* TEXT_DELTA_BUFFER: positions
  highWater,      \* STREAM_TEXT_SNAPSHOT: how long a prefix
  streamActive,   \* STREAM_REPLY_ACTIVE
  streamQueued,   \* STREAM_TEXT_QUEUED
  speech,         \* AUTO_TTS_ENABLED
  uttered,        \* positions given to the speech worker, in order
  mutedOnce,      \* speech was off at some point of this reply
  replies

streamVars == <<reply, style, streamed, speechBuffer, highWater, streamActive, streamQueued,
                speech, uttered, mutedOnce, replies>>

Positions(a, b) == [i \in 1..(b - a) |-> a + i]

-----------------------------------------------------------------------------
\* sanitize_for_speech, on one utterance: fences and what they enclose are
\* dropped, and markup that is not read.
Sanitized(chunk) ==
  LET Fences(i) == Cardinality({j \in 1..(i - 1) : reply[chunk[j]] = "fence"})
      kept == {i \in DOMAIN chunk : reply[chunk[i]] = "prose" /\ Fences(i) % 2 = 0}
  IN SetToSortSeq({chunk[i] : i \in kept}, <)

\* The utterances of a buffer cut after the pieces in cuts.
Chunks(buffer, cuts) ==
  [n \in 1..Cardinality(cuts) |->
     LET ends == SetToSortSeq(cuts, <) IN SubSeq(buffer, IF n = 1 THEN 1 ELSE ends[n - 1] + 1, ends[n])]

\* enqueue_speech_text, for each utterance in turn: an empty one is not sent.
Spoken(chunks) == FlattenSeq([n \in DOMAIN chunks |-> Sanitized(chunks[n])])
Enqueue(chunks) ==
  /\ uttered' = uttered \o Spoken(chunks)
  /\ streamQueued' = (streamQueued \/ Spoken(chunks) # <<>>)

\* take_speech_chunks: cut at boundaries, the rest stays; where they fall is
\* the text's matter.
Cut(buffer, cuts) == IF cuts = {} THEN 0 ELSE Max(cuts)
TakeChunks(buffer, cuts) ==
  /\ Enqueue(Chunks(buffer, cuts))
  /\ speechBuffer' = SubSeq(buffer, Cut(buffer, cuts) + 1, Len(buffer))

-----------------------------------------------------------------------------
\* on_message_start of an assistant's message.
MessageStart(kinds, how) ==
  /\ style = "none" /\ replies < MaxReplies /\ replies' = replies + 1
  /\ reply' = kinds /\ style' = how /\ streamed' = 0 /\ uttered' = <<>> /\ mutedOnce' = ~speech
  /\ speechBuffer' = <<>> /\ highWater' = 0 /\ streamActive' = FALSE /\ streamQueued' = FALSE
  /\ UNCHANGED speech

\* The text a native delta adds.
UpdateWith(from, to, cuts) ==
  IF ~speech \/ from = to
  THEN UNCHANGED <<speechBuffer, streamActive, streamQueued, uttered>>
  ELSE streamActive' = TRUE /\ TakeChunks(speechBuffer \o Positions(from, to), cuts)

MessageDelta(cuts) ==
  /\ style = "delta" /\ streamed < Len(reply) /\ streamed' = streamed + 1
  /\ cuts \subseteq 1..(Len(speechBuffer) + 1)
  /\ UpdateWith(streamed, streamed + 1, cuts)
  /\ UNCHANGED <<reply, style, highWater, speech, mutedOnce, replies>>

\* cumulative_speech_delta: a snapshot that does not extend the mark is ignored.
HighWater(length) == IF length >= highWater THEN length ELSE highWater

MessageSnapshot(length, cuts) ==
  /\ style = "snapshot" /\ length <= Len(reply) /\ streamed' = IF length > streamed THEN length ELSE streamed
  /\ highWater' = IF speech THEN HighWater(length) ELSE highWater
  /\ LET to == IF length >= highWater THEN length ELSE highWater IN
     cuts \subseteq 1..(Len(speechBuffer) + to - highWater) /\ UpdateWith(highWater, to, cuts)
  /\ UNCHANGED <<reply, style, speech, mutedOnce, replies>>

\* flush_text_delta_buffer: the chunks, then what is left.
Remainder(buffer, cuts) == <<SubSeq(buffer, Cut(buffer, cuts) + 1, Len(buffer))>>

\* The final message is spoken when nothing of the stream was.
Fallback(queued) == ~queued

\* on_message_end, with the message as far as the host streamed it.
MessageEnd(cuts) ==
  /\ style # "none" /\ style' = "none" /\ cuts \subseteq DOMAIN speechBuffer
  /\ LET final == Positions(0, IF style = "final" THEN Len(reply) ELSE streamed)
         flushed == IF streamActive THEN Spoken(Chunks(speechBuffer, cuts) \o Remainder(speechBuffer, cuts)) ELSE <<>>
         queued == streamActive /\ (streamQueued \/ flushed # <<>>) IN
     /\ streamActive' = FALSE
     /\ IF ~speech
        THEN speechBuffer' = <<>> /\ UNCHANGED <<highWater, streamQueued, uttered>>
        ELSE /\ speechBuffer' = IF streamActive THEN <<>> ELSE speechBuffer
             /\ highWater' = IF streamActive THEN 0 ELSE highWater
             /\ uttered' = uttered \o flushed \o IF Fallback(queued) THEN Sanitized(final) ELSE <<>>
             /\ streamQueued' = (Fallback(queued) /\ Sanitized(final) # <<>>)
  /\ UNCHANGED <<reply, streamed, speech, mutedOnce, replies>>

\* /voice on, /voice off.
SwitchSpeech ==
  /\ speech' = ~speech /\ mutedOnce' = TRUE
  /\ UNCHANGED <<reply, style, streamed, speechBuffer, highWater, streamActive, streamQueued, uttered, replies>>

StreamInit ==
  /\ reply = <<>> /\ style = "none" /\ streamed = 0 /\ speechBuffer = <<>> /\ highWater = 0
  /\ streamActive = FALSE /\ streamQueued = FALSE /\ speech = TRUE /\ uttered = <<>> /\ mutedOnce = FALSE /\ replies = 0

StreamNext ==
  \/ \E n \in 0..MaxPieces : \E kinds \in [1..n -> PieceKinds], how \in {"delta", "snapshot", "final"} : MessageStart(kinds, how)
  \/ \E cuts \in SUBSET (1..MaxPieces) :
       \/ MessageDelta(cuts) \/ MessageEnd(cuts)
       \/ \E length \in 0..MaxPieces : MessageSnapshot(length, cuts)
  \/ SwitchSpeech

-----------------------------------------------------------------------------
\* No text is spoken twice or out of order, however snapshots repeat and roll
\* back and whatever the end of the message carries again.
SpokenInOrder == \A i, j \in DOMAIN uttered : i < j => uttered[i] < uttered[j]

\* With speech on throughout, a reply without code is spoken to its end: the
\* last sentence is not left in the buffer, and a message that never streamed
\* is spoken from its final form.
SpokenToTheEnd ==
  [][style # "none" /\ style' = "none" /\ ~mutedOnce /\ (\A i \in DOMAIN reply : reply[i] \in {"prose", "rule"})
       => ToSet(uttered') = {i \in 1..(IF style = "final" THEN Len(reply) ELSE streamed) : reply[i] = "prose"}]_streamVars

\* Code is not read aloud: "strip markdown so TTS does not read ... code".
-----------------------------------------------------------------------------
(* One recording of the voice package (record_until_with_level): the audio     *)
(* callback classifies every frame against a noise floor it learns from the    *)
(* quiet ones, and the recording thread ends the recording by what it sees of  *)
(* that, of the clock and of the stop flag. Time is counted in frames, levels  *)
(* are integers.                                                               *)

CONSTANTS
    Loudness,    \* levels (RMS) of a frame
    Floor,       \* VOICE_RMS_ABS_MIN
    Warmups,     \* values of warmup_ms
    Silence,     \* silence_ms
    MinSpeech,   \* min_speech_ms
    NoSpeech,    \* no_speech_ms, 0 for none
    MaxFrames    \* max_ms

ASSUME RecorderAssumption ==
    /\ Loudness \subseteq Nat /\ Warmups \subseteq Nat
    /\ {Floor, Silence, MinSpeech, NoSpeech, MaxFrames} \subseteq Nat /\ Silence > 0

VARIABLES
    warmup,    \* warmup_ms of this recording
    captured,  \* the frames: [level, voiced]
    activity,  \* [lastVoice, speech, noise]: VoiceActivity; lastVoice 0 for none
    looked,    \* what the recording thread read last: [speech, lastVoice, at]
    stopFlag,
    ended      \* "no" | "stopped" | "full" | "nobody" | "silence"

recorderVars == <<warmup, captured, activity, looked, stopFlag, ended>>

NotLooked == [speech |-> 0, lastVoice |-> 0, at |-> 0]
Now == Len(captured)

RecorderInit ==
    /\ warmup \in Warmups /\ captured = <<>>
    /\ activity = [lastVoice |-> 0, speech |-> 0, noise |-> 0]
    /\ looked = NotLooked /\ stopFlag = FALSE /\ ended = "no"

\* speech_threshold: three times the ambient floor, and never below the minimum.
Threshold == IF 3 * activity.noise > Floor THEN 3 * activity.noise ELSE Floor
Voiced(level) == Now >= warmup /\ level >= Threshold

\* A quiet frame moves the floor by a tenth, the first one sets it.
Learnt(level) == IF Now = 0 THEN level ELSE (9 * activity.noise + level) \div 10
NoiseAfter(level) == IF Voiced(level) THEN activity.noise ELSE Learnt(level)

\* The callback; the recording thread looks at least once per frame.
Frame(level) ==
    /\ ended = "no" /\ ~stopFlag /\ Now < MaxFrames + 1
    /\ looked.at >= Now - 1 \/ Now = 0
    /\ captured' = Append(captured, [level |-> level, voiced |-> Voiced(level)])
    /\ activity' = [lastVoice |-> IF Voiced(level) THEN Now + 1 ELSE activity.lastVoice,
                    speech |-> activity.speech + (IF Voiced(level) THEN 1 ELSE 0),
                    noise |-> NoiseAfter(level)]
    /\ UNCHANGED <<warmup, looked, stopFlag, ended>>

StopIsSet ==
    /\ ended = "no" /\ ~stopFlag /\ stopFlag' = TRUE
    /\ UNCHANGED <<warmup, captured, activity, looked, ended>>

(* The recording thread: it reads the activity, then decides by the clock. *)
Looks ==
    /\ ended = "no" /\ looked.at < Now
    /\ looked' = [speech |-> activity.speech, lastVoice |-> activity.lastVoice, at |-> Now]
    /\ UNCHANGED <<warmup, captured, activity, stopFlag, ended>>

\* The wait for a first word does not count the warm-up.
Waited == IF Now > warmup THEN Now - warmup ELSE 0
Quiet == IF looked.lastVoice = 0 THEN Waited ELSE Now - looked.lastVoice
Pause == IF looked.lastVoice = 0 THEN Now ELSE Now - looked.lastVoice
Verdict ==
    IF stopFlag THEN "stopped"
    ELSE IF Now >= MaxFrames THEN "full"
    ELSE IF NoSpeech > 0 /\ Quiet >= NoSpeech THEN "nobody"
    ELSE IF looked.speech >= MinSpeech /\ Pause >= Silence THEN "silence"
    ELSE "no"
RecorderDecides ==
            /\ ended = "no" /\ Verdict # "no"
            /\ ended' = Verdict
            /\ UNCHANGED <<warmup, captured, activity, looked, stopFlag>>

RecorderNext == (\E level \in Loudness : Frame(level)) \/ StopIsSet \/ Looks \/ RecorderDecides

(* ---------------------------------------------------------- properties ---- *)
Quieter(i) == {captured[j].level : j \in {k \in 1..(i - 1) : ~captured[k].voiced}}

\* The floor is the room's: whoever speaks three times louder than the loudest
\* quiet moment so far is heard, however long the utterance has lasted.
SpeakerIsHeard ==
    \A i \in DOMAIN captured :
        i > warmup /\ captured[i].level >= Floor /\ (\A q \in Quieter(i) : captured[i].level >= 3 * q)
            => captured[i].voiced

\* Only a voice after the warm-up makes an utterance: a wake-up burst of the
\* device does not end the recording as one.
BurstIsNoUtterance ==
    ended = "silence" => Cardinality({i \in DOMAIN captured : i > warmup /\ captured[i].level >= Floor})
                             >= MinSpeech

\* Nobody is cut short: what the thread saw when it ended the utterance, or gave
\* up waiting, was a pause of the whole length.
PauseIsWhole ==
    /\ ended = "silence" => \A i \in DOMAIN captured : captured[i].voiced /\ i <= looked.at => i + Silence <= Now
    /\ ended = "nobody" => \A i \in DOMAIN captured : captured[i].voiced /\ i <= looked.at => i + NoSpeech <= Now

\* A speaker has the whole waiting time, the warm-up not counted.
WaitIsWhole == ended = "nobody" => Now >= warmup + NoSpeech

=============================================================================
