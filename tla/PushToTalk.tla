----------------------------- MODULE PushToTalk -----------------------------
(***************************************************************************)
(* Push to talk in the headset client: the keys and pinches that hold it   *)
(* (apps/xr-lab input.ts and main.ts), the microphone and the voice        *)
(* controller (voice.ts), and as much of the Hub's voice session as they   *)
(* can tell: its generation, and whether something is armed in it.         *)
(*                                                                         *)
(* press, release and cancel run up to their first await at once.  What    *)
(* follows an await runs when the browser answers, by which time the user  *)
(* may have done something else: each compares the generation it began     *)
(* with.  A capture is named by the generation of the press that began it, *)
(* a request by the generation it carries.                                 *)
(***************************************************************************)
EXTENDS Naturals, FiniteSets

CONSTANTS None,
          MaxGeneration     \* bound on presses and cancellations

Generations == 1..MaxGeneration

ASSUME MaxGenerationAssumption == MaxGeneration \in Nat
ASSUME NoneAssumption == None \notin Generations /\ None \notin {"utterance", "cancel"}

VARIABLES
    keyDown, pttHeld,   \* V and the pinch, as the page has seen them
    typing, missed,     \* a text field has the focus; V was let go in one
    paired,             \* whether config() answers
    phase, held, voiceGeneration, captureSession, hubSessionActive,
    utteranceIntentId,  \* the generation it was made for
    mic,                \* per capture, its stream and the generation it took
    micGeneration, activeCapture,
    request,            \* per generation, what was sent with it
    hub,                \* the generation of the Hub's session; is it armed?
    dropped, acted      \* history: utterances cancelled, and acted upon

inputVars == <<keyDown, pttHeld, typing, missed>>
controlVars == <<phase, held, voiceGeneration, captureSession, hubSessionActive, utteranceIntentId>>
micVars == <<mic, micGeneration, activeCapture>>
historyVars == <<dropped, acted>>
vars == <<inputVars, paired, controlVars, micVars, request, hub, historyVars>>

NoCapture == [stage |-> "none", gen |-> 0, cancelled |-> FALSE]
NoRequest == [kind |-> None, at |-> "none", waits |-> FALSE, armed |-> FALSE]

\* The stages in which a capture has a stream: recording, its device gone, or
\* asked to stop.
Live == {"on", "ended", "stopping"}

PushToTalkInit ==
    /\ keyDown = FALSE /\ pttHeld = FALSE /\ typing = FALSE /\ missed = FALSE /\ paired = TRUE
    /\ phase = "idle" /\ held = FALSE /\ voiceGeneration = 0 /\ captureSession = None
    /\ hubSessionActive = FALSE /\ utteranceIntentId = None
    /\ mic = [g \in Generations |-> NoCapture] /\ micGeneration = 0 /\ activeCapture = None
    /\ request = [g \in Generations |-> NoRequest]
    /\ hub = [gen |-> 0, armed |-> FALSE]
    /\ dropped = {} /\ acted = {}

-----------------------------------------------------------------------------
(* MicrophoneCapture.  The stream of a capture that is cancelled before it *)
(* is granted is released as soon as it arrives.                           *)

Released(m, s) == IF m[s].stage \in Live THEN [m EXCEPT ![s].stage = "off"] ELSE m

CancelCapture(s) ==
    /\ mic' = Released([mic EXCEPT ![s].cancelled = TRUE], s)
    /\ micGeneration' = IF mic[s].gen = micGeneration THEN micGeneration + 1 ELSE micGeneration
    /\ activeCapture' = IF activeCapture = s THEN None ELSE activeCapture

\* start: the capture that is still active, if any, is cancelled.
StartCapture(s) ==
    LET before == IF activeCapture = None THEN mic
                  ELSE Released([mic EXCEPT ![activeCapture].cancelled = TRUE], activeCapture)
    IN  /\ micGeneration' = micGeneration + 1
        /\ mic' = [before EXCEPT ![s] = [stage |-> "asking", gen |-> micGeneration + 1, cancelled |-> FALSE]]
        /\ activeCapture' = None

-----------------------------------------------------------------------------
(* VoiceController, up to the first await.                                 *)

Busy == {"recording", "permission", "transcribing", "cancelling", "uncertain"}

press ==
    IF phase \in Busy THEN UNCHANGED <<controlVars, micVars, request, historyVars>>
    ELSE /\ voiceGeneration < MaxGeneration
         /\ held' = TRUE /\ voiceGeneration' = voiceGeneration + 1
         /\ utteranceIntentId' = voiceGeneration' /\ phase' = "permission"
         /\ StartCapture(voiceGeneration') /\ captureSession' = voiceGeneration'
         /\ UNCHANGED <<hubSessionActive, request, historyVars>>

\* A recorder whose device went away has nothing to say.
release ==
    /\ held' = FALSE
    /\ IF phase # "recording" THEN UNCHANGED <<phase, utteranceIntentId, mic, activeCapture>>
       ELSE IF mic[captureSession].stage = "on"
       THEN /\ phase' = "transcribing" /\ mic' = [mic EXCEPT ![captureSession].stage = "stopping"]
            /\ UNCHANGED <<utteranceIntentId, activeCapture>>
       ELSE /\ phase' = "error" /\ utteranceIntentId' = None
            /\ mic' = Released(mic, captureSession)
            /\ activeCapture' = IF activeCapture = captureSession THEN None ELSE activeCapture
    /\ UNCHANGED <<voiceGeneration, captureSession, hubSessionActive, micGeneration, request, historyVars>>

MustOnlyIfActive == hubSessionActive \/ phase = "uncertain"
mustCancelHubSession == hubSessionActive \/ phase \in {"transcribing", "uncertain"}

cancel ==
    IF phase = "cancelling" THEN UNCHANGED <<controlVars, micVars, request, historyVars>>
    ELSE /\ voiceGeneration < MaxGeneration
         /\ held' = FALSE /\ voiceGeneration' = voiceGeneration + 1
         /\ captureSession' = None /\ dropped' = dropped \cup {voiceGeneration}
         /\ IF captureSession = None THEN UNCHANGED micVars ELSE CancelCapture(captureSession)
         /\ IF ~ mustCancelHubSession
            THEN /\ hubSessionActive' = FALSE /\ utteranceIntentId' = None /\ phase' = "idle"
                 /\ UNCHANGED request
            ELSE /\ IF paired
                    THEN /\ phase' = "cancelling"
                         /\ request' = [request EXCEPT ![voiceGeneration'] =
                                [NoRequest EXCEPT !.kind = "cancel", !.at = "sent", !.waits = TRUE]]
                    ELSE phase' = "uncertain" /\ UNCHANGED request
                 /\ UNCHANGED <<hubSessionActive, utteranceIntentId>>
         /\ UNCHANGED acted

-----------------------------------------------------------------------------
(* What the user does.  A key that repeats, or goes to a text field, is    *)
(* not for push to talk.                                                   *)

KeyDown ==
    /\ ~ keyDown /\ ~ typing /\ keyDown' = TRUE /\ missed' = FALSE /\ press
    /\ UNCHANGED <<pttHeld, typing, paired, hub>>

KeyUp ==
    /\ keyDown /\ keyDown' = FALSE
    /\ IF typing THEN missed' = TRUE /\ UNCHANGED <<controlVars, micVars, request, historyVars>>
       ELSE missed' = FALSE /\ release
    /\ UNCHANGED <<pttHeld, typing, paired, hub>>

selectStart ==
    /\ ~ pttHeld /\ pttHeld' = TRUE /\ press
    /\ UNCHANGED <<keyDown, typing, missed, paired, hub>>

selectEnd ==
    /\ pttHeld /\ pttHeld' = FALSE /\ missed' = FALSE /\ release
    /\ UNCHANGED <<keyDown, typing, paired, hub>>

\* The window loses the focus, or the page is hidden.
Blur ==
    /\ keyDown' = FALSE /\ pttHeld' = FALSE /\ missed' = FALSE /\ release
    /\ UNCHANGED <<typing, paired, hub>>

\* Escape, or the button, which the scene has only while the phase is "armed".
Cancel == (~ typing \/ phase = "armed") /\ cancel /\ UNCHANGED <<inputVars, paired, hub>>

\* A dialog opens or closes; the token is forgotten or entered again.
Dialog == typing' = ~ typing
          /\ UNCHANGED <<keyDown, pttHeld, missed, paired, controlVars, micVars, request, hub, historyVars>>
Pairing == paired' = ~ paired
           /\ UNCHANGED <<inputVars, controlVars, micVars, request, hub, historyVars>>

-----------------------------------------------------------------------------
(* What the browser answers.                                               *)

\* getUserMedia's stream arrives, and press goes on.
Overtaken(s) == s # voiceGeneration
Unwanted(s) == ~ held \/ s # voiceGeneration

PressGoesOn(s) ==
    IF Unwanted(s)
    THEN /\ micGeneration' = IF mic[s].gen = micGeneration THEN micGeneration + 1 ELSE micGeneration
         /\ mic' = [mic EXCEPT ![s].stage = "off", ![s].cancelled = TRUE]
         /\ UNCHANGED <<activeCapture, captureSession>>
         /\ IF s = voiceGeneration THEN phase' = "idle" /\ utteranceIntentId' = None
            ELSE UNCHANGED <<phase, utteranceIntentId>>
    ELSE /\ phase' = "recording" /\ captureSession' = s /\ UNCHANGED <<utteranceIntentId, micGeneration>>
         /\ IF mic[s].cancelled \/ mic[s].gen # micGeneration
            THEN mic' = [mic EXCEPT ![s].stage = "off"] /\ UNCHANGED activeCapture
            ELSE mic' = [mic EXCEPT ![s].stage = "on"] /\ activeCapture' = s

MicOpens(s) ==
    /\ mic[s].stage = "asking" /\ PressGoesOn(s)
    /\ UNCHANGED <<inputVars, paired, held, voiceGeneration, hubSessionActive, request, hub, historyVars>>

\* It is denied, unavailable, or the recorder does not start.
MicDenied(s) ==
    /\ mic[s].stage = "asking" /\ mic' = [mic EXCEPT ![s].stage = "off"]
    /\ IF s = voiceGeneration THEN phase' = "error" ELSE UNCHANGED phase
    /\ UNCHANGED <<inputVars, paired, held, voiceGeneration, captureSession, hubSessionActive,
                   utteranceIntentId, micGeneration, activeCapture, request, hub, historyVars>>

MicEnds(s) ==
    /\ mic[s].stage = "on" /\ mic' = [mic EXCEPT ![s].stage = "ended"]
    /\ UNCHANGED <<inputVars, paired, controlVars, micGeneration, activeCapture, request, hub, historyVars>>

\* The recorder has stopped, and release goes on, with audio or without.
MicStopped(s) ==
    /\ mic[s].stage = "stopping"
    /\ mic' = Released(mic, s) /\ activeCapture' = IF activeCapture = s THEN None ELSE activeCapture
    /\ \/ s # voiceGeneration /\ UNCHANGED <<phase, hubSessionActive, utteranceIntentId, request>>
       \/ /\ s = voiceGeneration /\ phase' = "error" /\ utteranceIntentId' = None
          /\ UNCHANGED <<hubSessionActive, request>>
       \/ /\ s = voiceGeneration /\ paired
          /\ request' = [request EXCEPT ![s] =
                 [NoRequest EXCEPT !.kind = "utterance", !.at = "sent", !.waits = TRUE]]
          /\ UNCHANGED <<phase, hubSessionActive, utteranceIntentId>>
       \/ /\ s = voiceGeneration /\ ~ paired
          /\ hubSessionActive' = TRUE /\ phase' = "uncertain"
          /\ UNCHANGED <<utteranceIntentId, request>>
    /\ UNCHANGED <<inputVars, paired, held, voiceGeneration, captureSession, micGeneration, hub, historyVars>>

Waiting(g, kind) == request[g].waits /\ request[g].kind = kind

NoLongerWaits(g) == request' = [request EXCEPT ![g].waits = FALSE]

\* The answer to an utterance, acted upon if nothing has happened since.  What
\* it says need not be armed to be an error to show.
Understood(g) ==
    /\ acted' = acted \cup {g} /\ utteranceIntentId' = None
    /\ hubSessionActive' = request[g].armed
    /\ IF request[g].armed THEN phase' = "armed" ELSE phase' \in {"idle", "error"}

UtteranceUnchecked(g) ==
    /\ Waiting(g, "utterance") /\ request[g].at = "done" /\ NoLongerWaits(g) /\ Understood(g)
    /\ UNCHANGED <<inputVars, paired, held, voiceGeneration, captureSession, micVars, hub, dropped>>

UtteranceAnswered(g) ==
    /\ Waiting(g, "utterance") /\ request[g].at = "done" /\ NoLongerWaits(g)
    /\ IF g = voiceGeneration THEN Understood(g)
       ELSE UNCHANGED <<phase, hubSessionActive, utteranceIntentId, acted>>
    /\ UNCHANGED <<inputVars, paired, held, voiceGeneration, captureSession, micVars, hub, dropped>>

\* The request fails, is refused, or its answer is lost or an error; wherever the
\* Hub is with it, it goes on.
UtteranceForgotten(g) ==
    /\ Waiting(g, "utterance") /\ NoLongerWaits(g)
    /\ UNCHANGED <<inputVars, paired, controlVars, micVars, hub, historyVars>>

UtteranceFails(g) ==
    /\ Waiting(g, "utterance") /\ NoLongerWaits(g)
    /\ IF g = voiceGeneration THEN hubSessionActive' = TRUE /\ phase' = "uncertain"
       ELSE UNCHANGED <<hubSessionActive, phase>>
    /\ UNCHANGED <<inputVars, paired, held, voiceGeneration, captureSession, utteranceIntentId,
                   micVars, hub, historyVars>>

CancelAnswered(g) ==
    /\ Waiting(g, "cancel") /\ request[g].at = "done" /\ NoLongerWaits(g)
    /\ IF g = voiceGeneration
       THEN hubSessionActive' = FALSE /\ utteranceIntentId' = None /\ phase' = "idle"
       ELSE UNCHANGED <<hubSessionActive, utteranceIntentId, phase>>
    /\ UNCHANGED <<inputVars, paired, held, voiceGeneration, captureSession, micVars, hub, historyVars>>

CancelFails(g) ==
    /\ Waiting(g, "cancel") /\ NoLongerWaits(g)
    /\ IF g = voiceGeneration THEN phase' = "uncertain" ELSE UNCHANGED phase
    /\ UNCHANGED <<inputVars, paired, held, voiceGeneration, captureSession, hubSessionActive,
                   utteranceIntentId, micVars, hub, historyVars>>

-----------------------------------------------------------------------------
(* The Hub (apps/hub gateway.ts).                                          *)

HubIdle == UNCHANGED <<inputVars, paired, controlVars, micVars, historyVars>>

Answer(g, armed) == request' = [request EXCEPT ![g].at = "done", ![g].armed = armed]

\* sessionForRequest; a cancellation is done at once, an utterance transcribed.
HubTakes(g) ==
    /\ request[g].at = "sent" /\ HubIdle
    /\ IF g < hub.gen THEN Answer(g, FALSE) /\ UNCHANGED hub
       ELSE IF request[g].kind = "cancel"
       THEN hub' = [gen |-> g, armed |-> FALSE] /\ Answer(g, FALSE)
       ELSE hub' = [hub EXCEPT !.gen = g] /\ request' = [request EXCEPT ![g].at = "running"]

\* runPipeline commits, arming or dispatching, unless it was overtaken.
HubCommitsAnyway(g) ==
    /\ request[g].at = "running" /\ HubIdle
    /\ \E armed \in BOOLEAN : hub' = [hub EXCEPT !.armed = armed] /\ Answer(g, armed)

HubCommits(g) ==
    /\ request[g].at = "running" /\ HubIdle
    /\ IF hub.gen = g
       THEN \E armed \in BOOLEAN : hub' = [hub EXCEPT !.armed = armed] /\ Answer(g, armed)
       ELSE Answer(g, FALSE) /\ UNCHANGED hub

\* Sessions are in memory, and requests die with the process they went to.
HubRestarts ==
    /\ hub' = [gen |-> 0, armed |-> FALSE] /\ HubIdle
    /\ request' = [g \in Generations |-> IF request[g].at \in {"sent", "running", "done"}
                                         THEN [request[g] EXCEPT !.at = "gone"] ELSE request[g]]

-----------------------------------------------------------------------------
User == KeyDown \/ KeyUp \/ selectStart \/ selectEnd \/ Blur \/ Cancel \/ Dialog \/ Pairing

Settles(g) == UtteranceAnswered(g) \/ UtteranceFails(g) \/ CancelAnswered(g) \/ CancelFails(g)

PushToTalkNext ==
    \/ User \/ HubRestarts
    \/ \E g \in Generations :
        \/ MicOpens(g) \/ MicDenied(g) \/ MicEnds(g) \/ MicStopped(g)
        \/ Settles(g) \/ HubTakes(g) \/ HubCommits(g)

\* Recorders stop when they are told to, and every fetch ends, well or badly.
\* Nobody has to answer the browser's question for the microphone.
PushToTalkSpec ==
    /\ PushToTalkInit /\ [][PushToTalkNext]_vars
    /\ \A g \in Generations : WF_vars(MicStopped(g)) /\ WF_vars(Settles(g))

-----------------------------------------------------------------------------
(* Properties.                                                             *)

PttTypeOK ==
    /\ {keyDown, pttHeld, typing, missed, paired, held, hubSessionActive} \subseteq BOOLEAN
    /\ phase \in Busy \cup {"idle", "armed", "error"}
    /\ voiceGeneration \in 0..MaxGeneration
    /\ {captureSession, utteranceIntentId, activeCapture} \subseteq Generations \cup {None}
    /\ mic \in [Generations -> [stage : Live \cup {"none", "asking", "off"}, gen : Nat,
                                cancelled : BOOLEAN]]
    /\ request \in [Generations -> [kind : {"utterance", "cancel", None},
                                    at : {"none", "sent", "running", "done", "gone"},
                                    waits : BOOLEAN, armed : BOOLEAN]]
    /\ hub \in [gen : 0..MaxGeneration, armed : BOOLEAN]

\* The microphone is on only while the user holds to talk, and what was recorded
\* is handed over: a stream that is granted late, to a press that was let go,
\* cancelled or overtaken, is never left open.  A V let go in a text field is the
\* one exception: the page does not hear of it.
MicrophoneOff ==
    /\ PttTypeOK
    /\ \A s \in Generations :
          /\ mic[s].stage \in {"on", "ended"} => phase = "recording" /\ captureSession = s
          /\ mic[s].stage = "stopping" => phase = "transcribing" /\ captureSession = s
    /\ phase = "recording" => keyDown \/ pttHeld \/ missed

\* Nothing is armed at the Hub behind the client's back: whatever is lost, late or
\* overtaken, a cancellation would reach the Hub's session while one is armed.
ArmedIsKnown == hub.armed => mustCancelHubSession \/ phase = "cancelling"

\* An utterance that was cancelled is acted upon neither at once nor when its
\* answer comes in, and an answer is acted upon only for the words last spoken.
CancelledIsDropped ==
    [][\A g \in acted' \ acted : g \notin dropped /\ g = voiceGeneration /\ utteranceIntentId = g]_vars

\* The controller does not stay in a phase in which it ignores the user.
AlwaysSettles == phase \in {"transcribing", "cancelling"} ~> phase \in {"idle", "armed", "uncertain", "error"}

=============================================================================
