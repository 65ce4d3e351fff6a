-------------------------- MODULE PushToTalkProofs --------------------------
(***************************************************************************)
(* What PushToTalk guarantees for any number of presses and cancellations. *)
(* None of its properties is inductive.  The invariant says what belongs   *)
(* to the present generation (its capture or its request, never both), and *)
(* that whatever the Hub may still arm is known to the client.             *)
(***************************************************************************)
EXTENDS PushToTalk, TLAPS

\* A capture is under way, or an utterance is waited for.
Capturing(g) == mic[g].stage \in Live \cup {"asking"}
Uttering(g) == Waiting(g, "utterance")

\* Nothing was begun by a generation that has not come.
NothingToCome ==
    /\ hub.gen <= voiceGeneration
    /\ dropped \subseteq 0..(voiceGeneration - 1)
    /\ \A g \in Generations : g > voiceGeneration => mic[g].stage = "none" /\ request[g].kind = None

\* A generation is a capture and then an utterance, or a cancellation.
OneUse ==
    \A g \in Generations :
        /\ request[g].kind = "utterance" => mic[g].stage = "off"
        /\ request[g].kind = "cancel" => mic[g].stage = "none" /\ request[g].at # "running"
        /\ request[g].kind = None => request[g].at = "none" /\ ~ request[g].waits

\* A capture that is not off is that of the phase, and the user holds.
CaptureIsPresent ==
    /\ phase \in {"permission", "recording", "transcribing"} => captureSession = voiceGeneration
    /\ \A g \in Generations :
        /\ mic[g].stage \in {"on", "ended"} => phase = "recording" /\ captureSession = g
        /\ mic[g].stage = "stopping" => phase = "transcribing" /\ captureSession = g
        /\ mic[g].stage = "asking" /\ g = voiceGeneration => phase = "permission"
        /\ Uttering(g) /\ g = voiceGeneration => phase = "transcribing"
        /\ g = voiceGeneration /\ (Capturing(g) \/ Uttering(g)) => utteranceIntentId = g
    /\ phase = "recording" => held
    /\ held => keyDown \/ pttHeld \/ missed

\* The Hub's answers: it has seen the generation, and says whether it armed.
AnswersAreHonest ==
    \A g \in Generations :
        /\ request[g].at \in {"running", "done"} => g <= hub.gen
        /\ request[g].at = "done" /\ g = hub.gen /\ hub.armed =>
              request[g].kind = "utterance" /\ request[g].armed

\* Something is armed, or would be if this request were heard.
MayArm(g) ==
    /\ request[g].kind = "utterance"
    /\ \/ request[g].at = "sent" /\ g >= hub.gen
       \/ request[g].at = "running" /\ g = hub.gen
Threat == hub.armed \/ \E g \in Generations : MayArm(g)

\* The client knows what it must cancel; while it transcribes only if it waits for
\* an answer and no longer for the recorder.
ThreatIsKnown ==
    Threat => \/ hubSessionActive \/ phase \in {"uncertain", "cancelling"}
              \/ /\ phase = "transcribing" /\ voiceGeneration \in Generations
                 /\ request[voiceGeneration].kind = "utterance"

PttInv ==
    /\ PttTypeOK
    /\ NothingToCome /\ OneUse /\ CaptureIsPresent /\ AnswersAreHonest /\ ThreatIsKnown

-----------------------------------------------------------------------------
(* Pressing, letting go, cancelling.                                       *)

\* The parts of the invariant that do not concern types.
PttCore == NothingToCome /\ OneUse /\ CaptureIsPresent /\ AnswersAreHonest /\ ThreatIsKnown

\* A press that is not ignored begins a capture of a new generation.
LEMMA PressBegins ==
    ASSUME PttInv, press, phase \notin Busy, NEW n, n = voiceGeneration + 1
    PROVE  /\ n \in Generations /\ voiceGeneration' = n /\ held' /\ phase' = "permission"
           /\ captureSession' = n /\ utteranceIntentId' = n
           /\ UNCHANGED <<hubSessionActive, request, dropped>>
           /\ \A g \in Generations : mic[g].stage \notin Live
           /\ mic'[n].stage = "asking" /\ \A g \in Generations : g # n => mic'[g].stage = mic[g].stage
<1> USE PttInv, MaxGenerationAssumption, NoneAssumption
    DEF PttInv, PttTypeOK, Generations, Live, Waiting, inputVars, controlVars, micVars, historyVars, Busy
<1>1. /\ n \in Generations /\ voiceGeneration' = n /\ held' /\ phase' = "permission"
      /\ captureSession' = n /\ utteranceIntentId' = n
      /\ UNCHANGED <<hubSessionActive, request, dropped>>
  BY DEF press
<1>2. \A g \in Generations : mic[g].stage \notin Live
  BY DEF CaptureIsPresent
<1>3. mic'[n].stage = "asking" /\ \A g \in Generations : g # n => mic'[g].stage = mic[g].stage
  <2> DEFINE a == activeCapture
             asking == [stage |-> "asking", gen |-> micGeneration + 1, cancelled |-> FALSE]
             m == [mic EXCEPT ![a].cancelled = TRUE]
  <2>1. StartCapture(n)
    BY <1>1 DEF press
  <2>2. CASE a = None
    <3>1. mic' = [mic EXCEPT ![n] = asking]
      BY <2>1, <2>2 DEF StartCapture
    <3> QED
      BY <1>1, <3>1
  <2>3. CASE a # None
    <3>1. a \in Generations /\ m[a].stage \notin Live
      BY <1>2, <2>3
    <3>2. mic' = [m EXCEPT ![n] = asking]
      BY <2>1, <2>3, <3>1 DEF StartCapture, Released
    <3> QED
      BY <1>1, <3>1, <3>2
  <2> QED
    BY <2>2, <2>3
<1> QED
  BY <1>1, <1>2, <1>3

\* Where no request is answered or sent, and the generation stays.
LEMMA PressKeeps ==
    ASSUME PttInv, press, hub' = hub, keyDown' \/ pttHeld'
    PROVE  PttCore'
<1> USE PttInv, MaxGenerationAssumption, NoneAssumption
    DEF PttInv, PttTypeOK, Generations, Live, Waiting, inputVars, controlVars, micVars, historyVars, Busy
<1>1. CASE phase \in Busy
  <2>1. UNCHANGED <<controlVars, micVars, request, historyVars>>
    BY <1>1 DEF press
  <2> QED
    BY <2>1 DEF PttCore, NothingToCome, OneUse, CaptureIsPresent, Capturing, Uttering,
       AnswersAreHonest, ThreatIsKnown, Threat, MayArm
<1>2. CASE phase \notin Busy
  <2> DEFINE n == voiceGeneration + 1
  <2>1. /\ n \in Generations /\ voiceGeneration' = n /\ held' /\ phase' = "permission"
        /\ captureSession' = n /\ utteranceIntentId' = n
        /\ UNCHANGED <<hubSessionActive, request, dropped>>
    BY <1>2, PressBegins
  <2>2. \A g \in Generations : mic[g].stage \notin Live
    BY <1>2, PressBegins
  <2>3. mic'[n].stage = "asking" /\ \A g \in Generations : g # n => mic'[g].stage = mic[g].stage
    BY <1>2, PressBegins
  <2>4. request[n].kind = None /\ mic[n].stage = "none"
    BY <2>1 DEF NothingToCome
  <2> HIDE DEF n
  <2>5. \A g \in Generations : g # n => g # voiceGeneration'
    BY <2>1
  <2>6. NothingToCome'
    <3>1. n = voiceGeneration + 1 /\ voiceGeneration \in Nat /\ n \in Generations
      BY <2>1 DEF n
    <3>2. hub'.gen <= voiceGeneration' /\ dropped' \subseteq 0..(voiceGeneration' - 1)
      BY <2>1, <3>1 DEF NothingToCome
    <3>3. ASSUME NEW g \in Generations, g > voiceGeneration'
          PROVE  mic'[g].stage = "none" /\ request'[g].kind = None
      <4>1. g > voiceGeneration /\ g # n
        BY <2>1, <3>1, <3>3
      <4> QED
        BY <2>1, <2>3, <4>1 DEF NothingToCome
    <3> QED
      BY <3>2, <3>3 DEF NothingToCome
  <2>7. OneUse'
    BY <2>1, <2>3, <2>4 DEF OneUse
  <2>8. CaptureIsPresent'
    BY <2>1, <2>2, <2>3, <2>4, <2>5 DEF CaptureIsPresent, Capturing, Uttering
  <2>9. AnswersAreHonest' /\ ThreatIsKnown'
    BY <1>2, <2>1 DEF AnswersAreHonest, ThreatIsKnown, Threat, MayArm
  <2> QED
    BY <2>6, <2>7, <2>8, <2>9 DEF PttCore
<1> QED
  BY <1>1, <1>2

LEMMA ReleaseKeeps ==
    ASSUME PttInv, release, hub' = hub
    PROVE  PttCore'
<1> USE PttInv, MaxGenerationAssumption, NoneAssumption
    DEF PttInv, PttTypeOK, Generations, Live, Waiting, inputVars, controlVars, micVars, historyVars
<1>1. ~ held' /\ UNCHANGED <<voiceGeneration, captureSession, hubSessionActive, request, dropped>>
  BY DEF release
<1>2. CASE phase # "recording"
  <2>1. UNCHANGED <<phase, utteranceIntentId, mic>>
    BY <1>2 DEF release
  <2> QED
    BY <1>1, <1>2, <2>1 DEF PttCore, NothingToCome, OneUse, CaptureIsPresent, Capturing, Uttering,
       AnswersAreHonest, ThreatIsKnown, Threat, MayArm
<1>3. CASE phase = "recording"
  <2> DEFINE s == captureSession
  <2>1. /\ s = voiceGeneration
        /\ \A g \in Generations : g # s => mic[g].stage \notin Live
        /\ s \in Generations => mic[s].stage # "asking" /\ mic[s].stage # "stopping"
    BY <1>3 DEF CaptureIsPresent
  <2>2. CASE mic[s].stage = "on"
    <3>1. phase' = "transcribing" /\ utteranceIntentId' = utteranceIntentId
          /\ mic' = [mic EXCEPT ![s].stage = "stopping"]
      BY <1>3, <2>2 DEF release
    <3>2. \A g \in Generations : mic'[g].stage = IF g = s THEN "stopping" ELSE mic[g].stage
      BY <3>1
    <3>3. NothingToCome' /\ OneUse'
      BY <1>1, <2>1, <2>2, <3>2 DEF NothingToCome, OneUse
    <3>4. CaptureIsPresent'
      BY <1>1, <1>3, <2>1, <2>2, <3>1, <3>2 DEF CaptureIsPresent, Capturing, Uttering
    <3>5. AnswersAreHonest' /\ ThreatIsKnown'
      BY <1>1, <1>3, <3>1 DEF AnswersAreHonest, ThreatIsKnown, Threat, MayArm
    <3> QED
      BY <3>3, <3>4, <3>5 DEF PttCore
  <2>3. CASE mic[s].stage # "on"
    <3>1. phase' = "error" /\ utteranceIntentId' = None /\ mic' = Released(mic, s)
      BY <1>3, <2>3 DEF release
    <3>2. \A g \in Generations : /\ mic'[g].stage \notin Live
                                 /\ mic'[g].stage = mic[g].stage \/ mic'[g].stage = "off"
                                 /\ mic[g].stage \notin Live => mic'[g].stage = mic[g].stage
      BY <2>1, <3>1 DEF Released
    <3>3. NothingToCome' /\ OneUse'
      BY <1>1, <2>1, <3>1, <3>2 DEF NothingToCome, OneUse
    <3>4. CaptureIsPresent'
      <4>1. \A g \in Generations : g = voiceGeneration => ~ Capturing(g)' /\ ~ Uttering(g)'
        BY <1>1, <1>3, <2>1, <3>2 DEF CaptureIsPresent, Capturing, Uttering
      <4>2. \A g \in Generations : mic'[g].stage = "asking" /\ g = voiceGeneration => FALSE
        BY <4>1 DEF Capturing
      <4> QED
        BY <1>1, <3>1, <3>2, <4>1, <4>2 DEF CaptureIsPresent
    <3>5. AnswersAreHonest' /\ ThreatIsKnown'
      BY <1>1, <1>3, <3>1 DEF AnswersAreHonest, ThreatIsKnown, Threat, MayArm
    <3> QED
      BY <3>3, <3>4, <3>5 DEF PttCore
  <2> QED
    BY <2>2, <2>3
<1> QED
  BY <1>2, <1>3

LEMMA CancelKeeps ==
    ASSUME PttInv, cancel, hub' = hub, UNCHANGED inputVars
    PROVE  PttCore'
<1> USE PttInv, MaxGenerationAssumption, NoneAssumption
    DEF PttInv, PttTypeOK, Generations, Live, Waiting, inputVars, controlVars, micVars, historyVars
<1>1. CASE phase = "cancelling"
  <2>1. UNCHANGED <<controlVars, micVars, request, historyVars>>
    BY <1>1 DEF cancel
  <2> QED
    BY <1>1, <2>1 DEF PttCore, NothingToCome, OneUse, CaptureIsPresent, Capturing, Uttering,
       AnswersAreHonest, ThreatIsKnown, Threat, MayArm
<1>2. CASE phase # "cancelling"
  <2> DEFINE n == voiceGeneration + 1
             c == captureSession
  <2>1. /\ n \in Generations /\ voiceGeneration' = n /\ ~ held' /\ captureSession' = None
        /\ dropped' = dropped \cup {voiceGeneration}
    BY <1>2 DEF cancel
  <2>2. \A g \in Generations : g # c => mic[g].stage \notin Live
    BY DEF CaptureIsPresent
  <2>3. \A g \in Generations : /\ mic'[g].stage \notin Live
                               /\ mic'[g].stage = mic[g].stage \/ mic'[g].stage = "off"
                               /\ mic[g].stage \notin Live => mic'[g].stage = mic[g].stage
    <3>1. CASE c = None
      BY <1>2, <2>2, <3>1 DEF cancel
    <3>2. CASE c # None
      <4> DEFINE m == [mic EXCEPT ![c].cancelled = TRUE]
      <4>1. c \in Generations /\ CancelCapture(c)
        BY <1>2, <3>2 DEF cancel
      <4>2. mic' = Released(m, c) /\ \A g \in Generations : m[g].stage = mic[g].stage
        BY <4>1 DEF CancelCapture
      <4>3. m \in [Generations -> [stage : Live \cup {"none", "asking", "off"}, gen : Nat,
                                   cancelled : BOOLEAN]]
        BY <4>1
      <4> HIDE DEF m
      <4>4. \A g \in Generations : mic'[g].stage = IF g = c /\ mic[g].stage \in Live THEN "off"
                                                   ELSE mic[g].stage
        BY <4>1, <4>2, <4>3 DEF Released
      <4> QED
        BY <2>2, <4>4
    <3> QED
      BY <3>1, <3>2
  <2>4. request[n].kind = None /\ mic[n].stage = "none"
    BY <2>1 DEF NothingToCome
  <2>5. \/ request' = request
        \/ /\ phase' = "cancelling"
           /\ request'[n].kind = "cancel" /\ request'[n].at = "sent"
           /\ \A g \in Generations : g # n => request'[g] = request[g]
    <3> DEFINE r == [NoRequest EXCEPT !.kind = "cancel", !.at = "sent", !.waits = TRUE]
    <3>1. r.kind = "cancel" /\ r.at = "sent"
      BY DEF NoRequest
    <3> HIDE DEF r
    <3>2. request' = request \/ (phase' = "cancelling" /\ request' = [request EXCEPT ![n] = r])
      BY <1>2, <2>1 DEF cancel, r
    <3> QED
      BY <2>1, <3>1, <3>2
  <2>6. \/ /\ mustCancelHubSession /\ phase' \in {"cancelling", "uncertain"}
        \/ /\ ~ mustCancelHubSession /\ request' = request /\ phase' = "idle"
    BY <1>2 DEF cancel
  <2> HIDE DEF n, c
  <2>7. NothingToCome'
    BY <2>1, <2>3, <2>5 DEF NothingToCome, n
  <2>8. OneUse'
    <3>1. \A g \in Generations : g # n =>
            request'[g] = request[g] /\ (mic[g].stage \in {"none", "off"} => mic'[g].stage = mic[g].stage)
      BY <2>3, <2>5
    <3>2. mic'[n].stage = "none" /\ request'[n].kind \in {None, "cancel"}
          /\ (request'[n].kind = "cancel" => request'[n].at = "sent")
          /\ (request'[n].kind = None => request'[n] = request[n])
      BY <2>1, <2>3, <2>4, <2>5
    <3>3. ASSUME NEW g \in Generations, g # n
          PROVE  /\ request'[g].kind = "utterance" => mic'[g].stage = "off"
                 /\ request'[g].kind = "cancel" => mic'[g].stage = "none" /\ request'[g].at # "running"
                 /\ request'[g].kind = None => request'[g].at = "none" /\ ~ request'[g].waits
      BY <3>1, <3>3 DEF OneUse
    <3>4. request'[n].kind = None => request'[n].at = "none" /\ ~ request'[n].waits
      BY <2>1, <3>2 DEF OneUse
    <3> QED
      BY <3>2, <3>3, <3>4 DEF OneUse
  <2>9. CaptureIsPresent'
    <3>1. /\ mic'[n].stage = "none" /\ request'[n].kind # "utterance"
      BY <2>1, <2>3, <2>4, <2>5
    <3>2. \A g \in Generations : g = voiceGeneration' => g = n
      BY <2>1
    <3> QED
      BY <2>1, <2>3, <2>6, <3>1, <3>2 DEF CaptureIsPresent, Capturing, Uttering
  <2>10. AnswersAreHonest'
    BY <2>1, <2>4, <2>5 DEF AnswersAreHonest
  <2>11. ThreatIsKnown'
    <3>1. Threat' => Threat
      BY <2>5 DEF Threat, MayArm
    <3>2. ~ mustCancelHubSession => ~ Threat
      BY <1>2 DEF ThreatIsKnown, mustCancelHubSession
    <3> QED
      BY <2>6, <3>1, <3>2 DEF ThreatIsKnown
  <2> QED
    BY <2>7, <2>8, <2>9, <2>10, <2>11 DEF PttCore
<1> QED
  BY <1>1, <1>2

-----------------------------------------------------------------------------
(* What follows an await.                                                  *)

LEMMA MicStoppedKeeps ==
    ASSUME PttInv, NEW s \in Generations, MicStopped(s)
    PROVE  PttCore'
<1> USE PttInv, MaxGenerationAssumption, NoneAssumption
    DEF PttInv, PttTypeOK, Generations, Live, Waiting, inputVars, controlVars, micVars, historyVars
<1>1. /\ phase = "transcribing" /\ s = voiceGeneration /\ utteranceIntentId = s
      /\ request[s].kind = None /\ mic[s].stage = "stopping" /\ s \in Nat
      /\ \A g \in Generations : g # s => mic[g].stage \notin Live
  <2>1. mic[s].stage = "stopping"
    BY DEF MicStopped
  <2>2. phase = "transcribing" /\ s = voiceGeneration /\ utteranceIntentId = s
    BY <2>1 DEF CaptureIsPresent, Capturing
  <2>3. request[s].kind = None
    BY <2>1 DEF OneUse
  <2> QED
    BY <2>1, <2>2, <2>3 DEF CaptureIsPresent
<1>2. /\ \A g \in Generations : mic'[g].stage = IF g = s THEN "off" ELSE mic[g].stage
      /\ UNCHANGED <<hub, voiceGeneration, captureSession, dropped, held, keyDown, pttHeld, missed>>
  BY <1>1 DEF MicStopped, Released
<1>3. \/ /\ phase' = "error" /\ UNCHANGED <<request, hubSessionActive>>
      \/ /\ phase' = "transcribing" /\ UNCHANGED <<hubSessionActive, utteranceIntentId>>
         /\ request'[s].kind = "utterance" /\ request'[s].at = "sent"
         /\ \A g \in Generations : g # s => request'[g] = request[g]
      \/ phase' = "uncertain" /\ UNCHANGED <<request, utteranceIntentId>>
  <2> DEFINE r == [NoRequest EXCEPT !.kind = "utterance", !.at = "sent", !.waits = TRUE]
  <2>1. r.kind = "utterance" /\ r.at = "sent"
    BY DEF NoRequest
  <2> HIDE DEF r
  <2>2. \/ /\ phase' = "error" /\ UNCHANGED <<request, hubSessionActive>>
        \/ /\ phase' = "transcribing" /\ UNCHANGED <<hubSessionActive, utteranceIntentId>>
           /\ request' = [request EXCEPT ![s] = r]
        \/ phase' = "uncertain" /\ UNCHANGED <<request, utteranceIntentId>>
    BY <1>1 DEF MicStopped, r
  <2> QED
    BY <2>1, <2>2
<1>4. NothingToCome' /\ OneUse'
  <2>1. NothingToCome'
    BY <1>1, <1>2, <1>3 DEF NothingToCome
  <2>2. OneUse'
    BY <1>1, <1>2, <1>3 DEF OneUse
  <2> QED
    BY <2>1, <2>2
<1>5. CaptureIsPresent'
  BY <1>1, <1>2, <1>3 DEF CaptureIsPresent, Capturing, Uttering
<1>6. AnswersAreHonest'
  BY <1>1, <1>2, <1>3 DEF AnswersAreHonest
<1>7. ThreatIsKnown'
  BY <1>1, <1>2, <1>3 DEF ThreatIsKnown, Threat, MayArm
<1> QED
  BY <1>4, <1>5, <1>6, <1>7 DEF PttCore

LEMMA MicOpensKeeps ==
    ASSUME PttInv, NEW s \in Generations, MicOpens(s)
    PROVE  PttCore'
<1> USE PttInv, MaxGenerationAssumption, NoneAssumption
    DEF PttInv, PttTypeOK, Generations, Live, Waiting, inputVars, controlVars, micVars, historyVars,
        MicOpens, PressGoesOn, Unwanted
<1>1. NothingToCome'
  BY DEF NothingToCome
<1>2. OneUse'
  BY DEF OneUse, NothingToCome, CaptureIsPresent
<1>3. CaptureIsPresent'
  <2>1. mic[s].stage = "asking" /\ \A g \in Generations : g # s => mic'[g] = mic[g]
    OBVIOUS
  <2>2. UNCHANGED <<voiceGeneration, held, keyDown, pttHeld, missed, request>>
    OBVIOUS
  <2>3. CASE s # voiceGeneration
    <3>1. mic'[s].stage = "off" /\ UNCHANGED <<phase, captureSession, utteranceIntentId>>
      BY <2>3
    <3> QED
      BY <2>1, <2>2, <2>3, <3>1 DEF CaptureIsPresent, Capturing, Uttering
  <2>4. CASE s = voiceGeneration
    <3>1. /\ phase = "permission" /\ captureSession = s /\ ~ Uttering(s) /\ utteranceIntentId = s
          /\ \A g \in Generations : mic[g].stage \notin {"on", "ended", "stopping"}
      BY <2>1, <2>4 DEF CaptureIsPresent, Capturing
    <3>2. \/ mic'[s].stage = "off" /\ phase' = "idle" /\ ~ held
          \/ /\ mic'[s].stage \in {"off", "on"} /\ phase' = "recording" /\ held
             /\ captureSession' = s /\ utteranceIntentId' = utteranceIntentId
      BY <2>4
    <3> QED
      BY <2>1, <2>2, <2>4, <3>1, <3>2 DEF CaptureIsPresent, Capturing, Uttering
  <2> QED
    BY <2>3, <2>4
<1>4. AnswersAreHonest'
  BY DEF AnswersAreHonest, NothingToCome, OneUse
<1>5. ThreatIsKnown'
  BY DEF ThreatIsKnown, Threat, MayArm, AnswersAreHonest, OneUse, NothingToCome,
         CaptureIsPresent, Capturing, Uttering
<1> QED
  BY <1>1, <1>2, <1>3, <1>4, <1>5 DEF PttCore

LEMMA MicDeniedKeeps ==
    ASSUME PttInv, NEW s \in Generations, MicDenied(s)
    PROVE  PttCore'
<1> USE PttInv, MaxGenerationAssumption, NoneAssumption
    DEF PttInv, PttTypeOK, Generations, Live, Waiting, inputVars, controlVars, micVars, historyVars,
        MicDenied
<1>1. NothingToCome'
  BY DEF NothingToCome
<1>2. OneUse'
  BY DEF OneUse, NothingToCome, CaptureIsPresent
<1>3. CaptureIsPresent'
  BY DEF CaptureIsPresent, NothingToCome, OneUse, Capturing, Uttering
<1>4. AnswersAreHonest'
  BY DEF AnswersAreHonest, NothingToCome, OneUse
<1>5. ThreatIsKnown'
  BY DEF ThreatIsKnown, Threat, MayArm, AnswersAreHonest, OneUse, NothingToCome,
         CaptureIsPresent, Capturing, Uttering
<1> QED
  BY <1>1, <1>2, <1>3, <1>4, <1>5 DEF PttCore

LEMMA MicEndsKeeps ==
    ASSUME PttInv, NEW s \in Generations, MicEnds(s)
    PROVE  PttCore'
<1> USE PttInv, MaxGenerationAssumption, NoneAssumption
    DEF PttInv, PttTypeOK, Generations, Live, Waiting, inputVars, controlVars, micVars, historyVars,
        MicEnds
<1>1. NothingToCome'
  BY DEF NothingToCome
<1>2. OneUse'
  BY DEF OneUse, NothingToCome, CaptureIsPresent
<1>3. CaptureIsPresent'
  BY DEF CaptureIsPresent, NothingToCome, OneUse, Capturing, Uttering
<1>4. AnswersAreHonest'
  BY DEF AnswersAreHonest, NothingToCome, OneUse
<1>5. ThreatIsKnown'
  BY DEF ThreatIsKnown, Threat, MayArm, AnswersAreHonest, OneUse, NothingToCome,
         CaptureIsPresent, Capturing, Uttering
<1> QED
  BY <1>1, <1>2, <1>3, <1>4, <1>5 DEF PttCore

LEMMA UtteranceAnsweredKeeps ==
    ASSUME PttInv, NEW s \in Generations, UtteranceAnswered(s)
    PROVE  PttCore'
<1> USE PttInv, MaxGenerationAssumption, NoneAssumption
    DEF PttInv, PttTypeOK, Generations, Live, Waiting, inputVars, controlVars, micVars, historyVars,
        UtteranceAnswered, Understood, NoLongerWaits
<1>1. NothingToCome'
  BY DEF NothingToCome
<1>2. OneUse'
  BY DEF OneUse, NothingToCome, CaptureIsPresent
<1>3. CaptureIsPresent'
  BY DEF CaptureIsPresent, NothingToCome, OneUse, Capturing, Uttering
<1>4. AnswersAreHonest'
  BY DEF AnswersAreHonest, NothingToCome, OneUse
<1>5. ThreatIsKnown'
  BY DEF ThreatIsKnown, Threat, MayArm, AnswersAreHonest, OneUse, NothingToCome,
         CaptureIsPresent, Capturing, Uttering
<1> QED
  BY <1>1, <1>2, <1>3, <1>4, <1>5 DEF PttCore

LEMMA UtteranceFailsKeeps ==
    ASSUME PttInv, NEW s \in Generations, UtteranceFails(s)
    PROVE  PttCore'
<1> USE PttInv, MaxGenerationAssumption, NoneAssumption
    DEF PttInv, PttTypeOK, Generations, Live, Waiting, inputVars, controlVars, micVars, historyVars,
        UtteranceFails, NoLongerWaits
<1>1. NothingToCome'
  BY DEF NothingToCome
<1>2. OneUse'
  BY DEF OneUse, NothingToCome, CaptureIsPresent
<1>3. CaptureIsPresent'
  BY DEF CaptureIsPresent, NothingToCome, OneUse, Capturing, Uttering
<1>4. AnswersAreHonest'
  BY DEF AnswersAreHonest, NothingToCome, OneUse
<1>5. ThreatIsKnown'
  BY DEF ThreatIsKnown, Threat, MayArm, AnswersAreHonest, OneUse, NothingToCome,
         CaptureIsPresent, Capturing, Uttering
<1> QED
  BY <1>1, <1>2, <1>3, <1>4, <1>5 DEF PttCore

LEMMA CancelAnsweredKeeps ==
    ASSUME PttInv, NEW s \in Generations, CancelAnswered(s)
    PROVE  PttCore'
<1> USE PttInv, MaxGenerationAssumption, NoneAssumption
    DEF PttInv, PttTypeOK, Generations, Live, Waiting, inputVars, controlVars, micVars, historyVars,
        CancelAnswered, NoLongerWaits
<1>1. NothingToCome'
  BY DEF NothingToCome
<1>2. OneUse'
  BY DEF OneUse, NothingToCome, CaptureIsPresent
<1>3. CaptureIsPresent'
  BY DEF CaptureIsPresent, NothingToCome, OneUse, Capturing, Uttering
<1>4. AnswersAreHonest'
  BY DEF AnswersAreHonest, NothingToCome, OneUse
<1>5. ThreatIsKnown'
  BY DEF ThreatIsKnown, Threat, MayArm, AnswersAreHonest, OneUse, NothingToCome,
         CaptureIsPresent, Capturing, Uttering
<1> QED
  BY <1>1, <1>2, <1>3, <1>4, <1>5 DEF PttCore

LEMMA CancelFailsKeeps ==
    ASSUME PttInv, NEW s \in Generations, CancelFails(s)
    PROVE  PttCore'
<1> USE PttInv, MaxGenerationAssumption, NoneAssumption
    DEF PttInv, PttTypeOK, Generations, Live, Waiting, inputVars, controlVars, micVars, historyVars,
        CancelFails, NoLongerWaits
<1>1. NothingToCome'
  BY DEF NothingToCome
<1>2. OneUse'
  BY DEF OneUse, NothingToCome, CaptureIsPresent
<1>3. CaptureIsPresent'
  BY DEF CaptureIsPresent, NothingToCome, OneUse, Capturing, Uttering
<1>4. AnswersAreHonest'
  BY DEF AnswersAreHonest, NothingToCome, OneUse
<1>5. ThreatIsKnown'
  BY DEF ThreatIsKnown, Threat, MayArm, AnswersAreHonest, OneUse, NothingToCome,
         CaptureIsPresent, Capturing, Uttering
<1> QED
  BY <1>1, <1>2, <1>3, <1>4, <1>5 DEF PttCore

LEMMA HubTakesKeeps ==
    ASSUME PttInv, NEW s \in Generations, HubTakes(s)
    PROVE  PttCore'
<1> USE PttInv, MaxGenerationAssumption, NoneAssumption
    DEF PttInv, PttTypeOK, Generations, Live, Waiting, inputVars, controlVars, micVars, historyVars
<1>0. /\ \A g \in Generations :
           /\ request'[g].kind = request[g].kind /\ request'[g].waits = request[g].waits
           /\ g # s => request'[g] = request[g]
      /\ \/ /\ s < hub.gen /\ hub' = hub /\ request'[s].at = "done" /\ ~ request'[s].armed
         \/ /\ s >= hub.gen /\ request[s].kind = "cancel" /\ hub'.gen = s /\ ~ hub'.armed
            /\ request'[s].at = "done" /\ ~ request'[s].armed
         \/ /\ s >= hub.gen /\ request[s].kind = "utterance" /\ hub'.gen = s
            /\ hub'.armed = hub.armed /\ request'[s].at = "running"
      /\ request[s].at = "sent" /\ s <= voiceGeneration /\ s \in Nat /\ hub.gen \in Nat
  BY DEF HubTakes, HubIdle, Answer, OneUse, NothingToCome
<1>1. NothingToCome'
  BY <1>0 DEF NothingToCome, HubTakes, HubIdle, Answer
<1>2. OneUse'
  BY <1>0 DEF OneUse, NothingToCome, CaptureIsPresent, HubTakes, HubIdle, Answer
<1>3. CaptureIsPresent'
  BY <1>0 DEF CaptureIsPresent, NothingToCome, OneUse, Capturing, Uttering, HubTakes, HubIdle, Answer
<1>4. AnswersAreHonest'
  BY <1>0 DEF AnswersAreHonest, NothingToCome, OneUse
<1>5. ThreatIsKnown'
  <2>1. Threat' => Threat
    BY <1>0 DEF Threat, MayArm, AnswersAreHonest
  <2>2. UNCHANGED <<hubSessionActive, phase, voiceGeneration>>
    BY DEF HubTakes, HubIdle, Answer
  <2> QED
    BY <1>0, <2>1, <2>2 DEF ThreatIsKnown
<1> QED
  BY <1>1, <1>2, <1>3, <1>4, <1>5 DEF PttCore

LEMMA HubCommitsKeeps ==
    ASSUME PttInv, NEW s \in Generations, HubCommits(s)
    PROVE  PttCore'
<1> USE PttInv, MaxGenerationAssumption, NoneAssumption
    DEF PttInv, PttTypeOK, Generations, Live, Waiting, inputVars, controlVars, micVars, historyVars
<1>0. /\ \A g \in Generations :
           /\ request'[g].kind = request[g].kind /\ request'[g].waits = request[g].waits
           /\ g # s => request'[g] = request[g]
      /\ hub'.gen = hub.gen /\ request[s].at = "running" /\ request'[s].at = "done"
      /\ request[s].kind = "utterance"
      /\ hub.gen = s => hub'.armed = request'[s].armed
      /\ hub.gen # s => hub'.armed = hub.armed
  BY DEF HubCommits, HubIdle, Answer, OneUse
<1>1. NothingToCome'
  BY <1>0 DEF NothingToCome, HubCommits, HubIdle, Answer
<1>2. OneUse'
  BY <1>0 DEF OneUse, NothingToCome, CaptureIsPresent, HubCommits, HubIdle, Answer
<1>3. CaptureIsPresent'
  BY <1>0 DEF CaptureIsPresent, NothingToCome, OneUse, Capturing, Uttering, HubCommits, HubIdle, Answer
<1>4. AnswersAreHonest'
  BY <1>0 DEF AnswersAreHonest, NothingToCome, OneUse
<1>5. ThreatIsKnown'
  <2>1. Threat' => Threat
    BY <1>0 DEF Threat, MayArm, AnswersAreHonest
  <2>2. UNCHANGED <<hubSessionActive, phase, voiceGeneration>>
    BY DEF HubCommits, HubIdle, Answer
  <2> QED
    BY <1>0, <2>1, <2>2 DEF ThreatIsKnown
<1> QED
  BY <1>1, <1>2, <1>3, <1>4, <1>5 DEF PttCore

LEMMA HubRestartsKeeps ==
    ASSUME PttInv, HubRestarts
    PROVE  PttCore'
<1> USE PttInv, MaxGenerationAssumption, NoneAssumption
    DEF PttInv, PttTypeOK, Generations, Live, Waiting, inputVars, controlVars, micVars, historyVars,
        HubRestarts, HubIdle
<1>1. NothingToCome'
  BY DEF NothingToCome
<1>2. OneUse'
  BY DEF OneUse, NothingToCome, CaptureIsPresent
<1>3. CaptureIsPresent'
  BY DEF CaptureIsPresent, NothingToCome, OneUse, Capturing, Uttering
<1>4. AnswersAreHonest'
  BY DEF AnswersAreHonest, NothingToCome, OneUse
<1>5. ThreatIsKnown'
  BY DEF ThreatIsKnown, Threat, MayArm, AnswersAreHonest, OneUse, NothingToCome,
         CaptureIsPresent, Capturing, Uttering
<1> QED
  BY <1>1, <1>2, <1>3, <1>4, <1>5 DEF PttCore
-----------------------------------------------------------------------------
(* Types.                                                                  *)

Stages == Live \cup {"none", "asking", "off"}
Capture == [stage : Stages, gen : Nat, cancelled : BOOLEAN]
Captures == [Generations -> Capture]
Request == [kind : {"utterance", "cancel", None}, at : {"none", "sent", "running", "done", "gone"},
            waits : BOOLEAN, armed : BOOLEAN]
Requests == [Generations -> Request]

PhaseTypeOK ==
    /\ phase \in Busy \cup {"idle", "armed", "error"} /\ voiceGeneration \in 0..MaxGeneration
    /\ captureSession \in Generations \cup {None} /\ utteranceIntentId \in Generations \cup {None}
    /\ activeCapture \in Generations \cup {None} /\ micGeneration \in Nat

FlagTypeOK ==
    /\ keyDown \in BOOLEAN /\ pttHeld \in BOOLEAN /\ typing \in BOOLEAN /\ missed \in BOOLEAN
    /\ paired \in BOOLEAN /\ held \in BOOLEAN /\ hubSessionActive \in BOOLEAN

\* PttTypeOK, and the counter of the microphone.
TypesOK ==
    /\ FlagTypeOK /\ PhaseTypeOK /\ mic \in Captures /\ request \in Requests
    /\ hub \in [gen : 0..MaxGeneration, armed : BOOLEAN]

LEMMA StageChanges ==
    ASSUME NEW m \in Captures, NEW s, NEW stage \in Stages
    PROVE  [m EXCEPT ![s].stage = stage] \in Captures
BY DEF Captures, Capture

LEMMA CaptureCancelled ==
    ASSUME NEW m \in Captures, NEW s
    PROVE  [m EXCEPT ![s].cancelled = TRUE] \in Captures
BY DEF Captures, Capture

LEMMA ReleasedType ==
    ASSUME NEW m \in Captures, NEW s
    PROVE  Released(m, s) \in Captures
<1>1. [m EXCEPT ![s].stage = "off"] \in Captures
  BY StageChanges DEF Stages
<1> QED
  BY <1>1 DEF Released

LEMMA RequestSent ==
    ASSUME NEW q \in Requests, NEW s, NEW kind \in {"utterance", "cancel"}
    PROVE  [q EXCEPT ![s] = [NoRequest EXCEPT !.kind = kind, !.at = "sent", !.waits = TRUE]] \in Requests
<1> DEFINE r == [NoRequest EXCEPT !.kind = kind, !.at = "sent", !.waits = TRUE]
<1>1. r \in Request
  BY DEF NoRequest, Request
<1> HIDE DEF r
<1>2. [q EXCEPT ![s] = r] \in Requests
  BY <1>1 DEF Requests
<1> QED
  BY <1>2 DEF r

LEMMA PressTypes ==
    ASSUME TypesOK, press
    PROVE  held' \in BOOLEAN /\ hubSessionActive' \in BOOLEAN /\ PhaseTypeOK' /\ mic' \in Captures /\ request' \in Requests
<1> USE MaxGenerationAssumption DEF TypesOK, controlVars, micVars
<1>1. held' \in BOOLEAN /\ hubSessionActive' \in BOOLEAN /\ request' \in Requests
  BY DEF press, FlagTypeOK
<1>2. PhaseTypeOK'
  BY DEF press, PhaseTypeOK, Busy, Generations, StartCapture
<1>3. CASE phase \in Busy
  BY <1>1, <1>2, <1>3 DEF press
<1>4. CASE phase \notin Busy
  <2> DEFINE asking == [stage |-> "asking", gen |-> micGeneration + 1, cancelled |-> FALSE]
             released == Released([mic EXCEPT ![activeCapture].cancelled = TRUE], activeCapture)
  <2>1. asking \in Capture
    BY DEF Capture, Stages, PhaseTypeOK
  <2>2. released \in Captures
    BY CaptureCancelled, ReleasedType
  <2> HIDE DEF asking, released
  <2>3. \E m \in {mic, released} : mic' = [m EXCEPT ![voiceGeneration'] = asking]
    BY <1>4 DEF press, StartCapture, asking, released
  <2>4. mic' \in Captures
    BY <2>1, <2>2, <2>3 DEF Captures
  <2> QED
    BY <1>1, <1>2, <2>4
<1> QED
  BY <1>3, <1>4

LEMMA ReleaseTypes ==
    ASSUME TypesOK, release
    PROVE  held' \in BOOLEAN /\ hubSessionActive' \in BOOLEAN /\ PhaseTypeOK' /\ mic' \in Captures /\ request' \in Requests
<1> USE DEF TypesOK, controlVars, micVars
<1>1. held' \in BOOLEAN /\ hubSessionActive' \in BOOLEAN /\ request' \in Requests
  BY DEF release, FlagTypeOK
<1>2. PhaseTypeOK'
  BY DEF release, PhaseTypeOK, Busy
<1>3. /\ [mic EXCEPT ![captureSession].stage = "stopping"] \in Captures
      /\ Released(mic, captureSession) \in Captures
  BY StageChanges, ReleasedType DEF Stages, Live
<1>4. mic' \in Captures
  BY <1>3 DEF release
<1> QED
  BY <1>1, <1>2, <1>4

LEMMA CancelTypes ==
    ASSUME TypesOK, cancel
    PROVE  held' \in BOOLEAN /\ hubSessionActive' \in BOOLEAN /\ PhaseTypeOK' /\ mic' \in Captures /\ request' \in Requests
<1> USE MaxGenerationAssumption DEF TypesOK, controlVars, micVars
<1>1. held' \in BOOLEAN /\ hubSessionActive' \in BOOLEAN
  BY DEF cancel, FlagTypeOK
<1>2. PhaseTypeOK'
  BY DEF cancel, PhaseTypeOK, Busy, Generations, CancelCapture
<1>3. Released([mic EXCEPT ![captureSession].cancelled = TRUE], captureSession) \in Captures
  BY CaptureCancelled, ReleasedType
<1>4. mic' \in Captures
  BY <1>3 DEF cancel, CancelCapture
<1>5. request' = request \/ request' = [request EXCEPT ![voiceGeneration'] =
          [NoRequest EXCEPT !.kind = "cancel", !.at = "sent", !.waits = TRUE]]
  BY DEF cancel
<1>6. request' \in Requests
  BY <1>5, RequestSent
<1> QED
  BY <1>1, <1>2, <1>4, <1>6

LEMMA MicTypes ==
    ASSUME TypesOK, NEW s \in Generations, MicOpens(s) \/ MicDenied(s) \/ MicEnds(s)
    PROVE  TypesOK'
<1> USE DEF TypesOK, controlVars, micVars, inputVars, historyVars
<1>1. FlagTypeOK' /\ hub' = hub /\ request' = request
  BY DEF MicOpens, MicDenied, MicEnds, FlagTypeOK
<1>2. PhaseTypeOK'
  BY DEF MicOpens, MicDenied, MicEnds, PressGoesOn, PhaseTypeOK, Busy
<1>3. mic' \in Captures
  <2>1. /\ [mic EXCEPT ![s].stage = "off"] \in Captures
        /\ [mic EXCEPT ![s].stage = "on"] \in Captures
        /\ [mic EXCEPT ![s].stage = "ended"] \in Captures
    BY StageChanges DEF Stages, Live
  <2>2. [mic EXCEPT ![s].stage = "off", ![s].cancelled = TRUE] \in Captures
    BY DEF Captures, Capture, Stages
  <2> QED
    BY <2>1, <2>2 DEF MicOpens, MicDenied, MicEnds, PressGoesOn
<1> QED
  BY <1>1, <1>2, <1>3

LEMMA MicStoppedTypes ==
    ASSUME TypesOK, NEW s \in Generations, MicStopped(s)
    PROVE  TypesOK'
<1> USE DEF TypesOK, controlVars, micVars, inputVars, historyVars
<1>1. FlagTypeOK' /\ hub' = hub
  BY DEF MicStopped, FlagTypeOK
<1>2. PhaseTypeOK'
  BY DEF MicStopped, PhaseTypeOK, Busy
<1>3. mic' \in Captures
  BY ReleasedType DEF MicStopped
<1>4. request' = request \/ request' = [request EXCEPT ![s] =
          [NoRequest EXCEPT !.kind = "utterance", !.at = "sent", !.waits = TRUE]]
  BY DEF MicStopped
<1>5. request' \in Requests
  BY <1>4, RequestSent
<1> QED
  BY <1>1, <1>2, <1>3, <1>5

LEMMA SettlesTypes ==
    ASSUME TypesOK, NEW g \in Generations, Settles(g)
    PROVE  TypesOK'
<1> USE DEF TypesOK, controlVars, micVars, inputVars, historyVars
<1> USE DEF Settles, UtteranceAnswered, UtteranceFails, CancelAnswered, CancelFails, Understood
<1>1. keyDown' \in BOOLEAN /\ pttHeld' \in BOOLEAN /\ typing' \in BOOLEAN /\ missed' \in BOOLEAN
      /\ paired' \in BOOLEAN /\ held' \in BOOLEAN /\ hub' = hub /\ mic' = mic
  BY DEF FlagTypeOK
<1>2. PhaseTypeOK'
  BY DEF PhaseTypeOK, Busy
<1>3. hubSessionActive' \in BOOLEAN
  <2>1. request[g].armed \in BOOLEAN
    BY DEF Requests, Request
  <2>2. hubSessionActive' \in {hubSessionActive, request[g].armed, TRUE, FALSE}
    OBVIOUS
  <2> QED
    BY <2>1, <2>2 DEF FlagTypeOK
<1>4. request' = [request EXCEPT ![g].waits = FALSE]
  BY DEF NoLongerWaits
<1>5. request' \in Requests
  BY <1>4 DEF Requests, Request
<1> QED
  BY <1>1, <1>2, <1>3, <1>5 DEF FlagTypeOK

LEMMA HubTypes ==
    ASSUME TypesOK, HubRestarts \/ \E g \in Generations : HubTakes(g) \/ HubCommits(g)
    PROVE  TypesOK'
<1> USE MaxGenerationAssumption DEF TypesOK
<1>1. HubIdle
  BY DEF HubRestarts, HubTakes, HubCommits
<1>2. FlagTypeOK' /\ PhaseTypeOK' /\ mic' \in Captures
  BY <1>1 DEF HubIdle, FlagTypeOK, PhaseTypeOK, controlVars, micVars, inputVars
<1>3. hub' \in [gen : 0..MaxGeneration, armed : BOOLEAN]
  <2>1. CASE HubRestarts
    <3>1. hub' = [gen |-> 0, armed |-> FALSE]
      BY <2>1 DEF HubRestarts
    <3> QED
      BY <3>1
  <2>2. ASSUME NEW g \in Generations, HubTakes(g)
        PROVE  hub' \in [gen : 0..MaxGeneration, armed : BOOLEAN]
    <3>1. hub' = hub \/ hub' = [gen |-> g, armed |-> FALSE] \/ hub' = [hub EXCEPT !.gen = g]
      BY <2>2 DEF HubTakes
    <3>2. g \in 0..MaxGeneration /\ hub.gen \in 0..MaxGeneration /\ hub.armed \in BOOLEAN
      BY DEF Generations
    <3>3. [hub EXCEPT !.gen = g] \in [gen : 0..MaxGeneration, armed : BOOLEAN]
      BY <3>2
    <3>4. [gen |-> g, armed |-> FALSE] \in [gen : 0..MaxGeneration, armed : BOOLEAN]
      BY <3>2
    <3> QED
      BY <3>1, <3>3, <3>4, Zenon
  <2>3. ASSUME NEW g \in Generations, HubCommits(g)
        PROVE  hub' \in [gen : 0..MaxGeneration, armed : BOOLEAN]
    <3>1. hub' = hub \/ \E armed \in BOOLEAN : hub' = [hub EXCEPT !.armed = armed]
      BY <2>3 DEF HubCommits
    <3> QED
      BY <3>1
  <2> QED
    BY <2>1, <2>2, <2>3
<1>4. request' \in Requests
  <2>1. CASE HubRestarts
    BY <2>1 DEF HubRestarts, Requests, Request
  <2>2. ASSUME NEW g \in Generations, HubTakes(g) \/ HubCommits(g)
        PROVE  request' \in Requests
    <3>1. \/ request' = [request EXCEPT ![g].at = "running"]
          \/ \E armed \in BOOLEAN : request' = [request EXCEPT ![g].at = "done", ![g].armed = armed]
      BY <2>2 DEF HubTakes, HubCommits, Answer
    <3> QED
      BY <3>1 DEF Requests, Request
  <2> QED
    BY <2>1, <2>2
<1> QED
  BY <1>2, <1>3, <1>4

-----------------------------------------------------------------------------
(* Every step.                                                             *)

LEMMA TypesGivePtt ==
    ASSUME TypesOK, PttCore
    PROVE  PttInv
BY DEF TypesOK, FlagTypeOK, PhaseTypeOK, Captures, Capture, Stages, Requests, Request,
       PttCore, PttInv, PttTypeOK

\* What only concerns the page: a focus, the token, a key let go in a text field.
LEMMA QuietKeeps ==
    ASSUME PttInv, UNCHANGED <<controlVars, micVars, request, hub, historyVars>>,
           keyDown \/ pttHeld \/ missed => keyDown' \/ pttHeld' \/ missed'
    PROVE  PttCore'
BY DEF PttInv, PttCore, NothingToCome, OneUse, CaptureIsPresent, Capturing, Uttering, Waiting,
       AnswersAreHonest, ThreatIsKnown, Threat, MayArm, controlVars, micVars, historyVars

LEMMA UserKeeps ==
    ASSUME PttInv, TypesOK, User
    PROVE  TypesOK' /\ PttCore'
<1>1. CASE KeyDown \/ selectStart
  <2>1. press /\ hub' = hub /\ (keyDown' \/ pttHeld')
    BY <1>1 DEF KeyDown, selectStart
  <2>2. /\ keyDown' \in BOOLEAN /\ pttHeld' \in BOOLEAN /\ typing' \in BOOLEAN
        /\ missed' \in BOOLEAN /\ paired' \in BOOLEAN
    BY <1>1 DEF KeyDown, selectStart, TypesOK, FlagTypeOK
  <2> QED
    BY <2>1, <2>2, PressKeeps, PressTypes DEF TypesOK, FlagTypeOK
<1>2. CASE selectEnd \/ Blur \/ (KeyUp /\ ~ typing)
  <2>1. release /\ hub' = hub
    BY <1>2 DEF KeyUp, selectEnd, Blur
  <2>2. /\ keyDown' \in BOOLEAN /\ pttHeld' \in BOOLEAN /\ typing' \in BOOLEAN
        /\ missed' \in BOOLEAN /\ paired' \in BOOLEAN
    BY <1>2 DEF KeyUp, selectEnd, Blur, TypesOK, FlagTypeOK
  <2> QED
    BY <2>1, <2>2, ReleaseKeeps, ReleaseTypes DEF TypesOK, FlagTypeOK
<1>3. CASE Cancel
  <2>1. cancel /\ hub' = hub /\ UNCHANGED inputVars /\ paired' = paired
    BY <1>3 DEF Cancel
  <2>2. /\ keyDown' \in BOOLEAN /\ pttHeld' \in BOOLEAN /\ typing' \in BOOLEAN
        /\ missed' \in BOOLEAN /\ paired' \in BOOLEAN
    BY <2>1 DEF TypesOK, FlagTypeOK, inputVars
  <2> QED
    BY <2>1, <2>2, CancelKeeps, CancelTypes DEF TypesOK, FlagTypeOK
<1>4. CASE Dialog \/ Pairing \/ (KeyUp /\ typing)
  <2>1. UNCHANGED <<controlVars, micVars, request, hub, historyVars>>
    BY <1>4 DEF Dialog, Pairing, KeyUp
  <2>2. /\ keyDown' \in BOOLEAN /\ pttHeld' \in BOOLEAN /\ typing' \in BOOLEAN
        /\ missed' \in BOOLEAN /\ paired' \in BOOLEAN
    BY <1>4 DEF Dialog, Pairing, KeyUp, TypesOK, FlagTypeOK, inputVars
  <2>3. keyDown \/ pttHeld \/ missed => keyDown' \/ pttHeld' \/ missed'
    BY <1>4 DEF Dialog, Pairing, KeyUp, inputVars
  <2>4. TypesOK'
    BY <2>1, <2>2 DEF TypesOK, FlagTypeOK, PhaseTypeOK, controlVars, micVars
  <2> QED
    BY <2>1, <2>3, <2>4, QuietKeeps
<1> QED
  BY <1>1, <1>2, <1>3, <1>4 DEF User

LEMMA NextPtt ==
    ASSUME TypesOK, PttCore, [PushToTalkNext]_vars
    PROVE  TypesOK' /\ PttCore'
<1>1. PttInv
  BY TypesGivePtt
<1>2. CASE User
  BY <1>1, <1>2, UserKeeps
<1>3. CASE HubRestarts
  BY <1>1, <1>3, HubRestartsKeeps, HubTypes
<1>4. ASSUME NEW g \in Generations,
             \/ MicOpens(g) \/ MicDenied(g) \/ MicEnds(g) \/ MicStopped(g)
             \/ Settles(g) \/ HubTakes(g) \/ HubCommits(g)
      PROVE  TypesOK' /\ PttCore'
  <2>1. TypesOK'
    BY <1>4, MicTypes, MicStoppedTypes, SettlesTypes, HubTypes
  <2>2. PttCore'
    BY <1>1, <1>4, MicOpensKeeps, MicDeniedKeeps, MicEndsKeeps, MicStoppedKeeps, UtteranceAnsweredKeeps,
       UtteranceFailsKeeps, CancelAnsweredKeeps, CancelFailsKeeps, HubTakesKeeps, HubCommitsKeeps
       DEF Settles
  <2> QED
    BY <2>1, <2>2
<1>5. CASE UNCHANGED vars
  <2>1. UNCHANGED <<inputVars, paired, controlVars, micVars, request, hub, historyVars>>
    BY <1>5 DEF vars
  <2>2. TypesOK'
    BY <2>1 DEF TypesOK, FlagTypeOK, PhaseTypeOK, inputVars, controlVars, micVars
  <2>3. PttCore'
    BY <1>1, <2>1, QuietKeeps DEF inputVars
  <2> QED
    BY <2>2, <2>3
<1> QED
  BY <1>2, <1>3, <1>4, <1>5 DEF PushToTalkNext

LEMMA InitPtt ==
    ASSUME PushToTalkInit
    PROVE  TypesOK /\ PttCore
<1> USE MaxGenerationAssumption, NoneAssumption
    DEF PushToTalkInit, Generations
<1>1. mic \in Captures /\ request \in Requests
  BY DEF Captures, Capture, Stages, NoCapture, Requests, Request, NoRequest
<1>2. FlagTypeOK /\ PhaseTypeOK /\ hub \in [gen : 0..MaxGeneration, armed : BOOLEAN]
  <2>1. FlagTypeOK
    BY DEF FlagTypeOK
  <2>2. PhaseTypeOK
    BY DEF PhaseTypeOK, Busy
  <2>3. hub \in [gen : 0..MaxGeneration, armed : BOOLEAN]
    <3>1. hub = [gen |-> 0, armed |-> FALSE]
      OBVIOUS
    <3> QED
      BY <3>1
  <2> QED
    BY <2>1, <2>2, <2>3
<1>3. \A g \in Generations : /\ mic[g].stage = "none" /\ request[g].kind = None /\ request[g].at = "none"
                             /\ ~ request[g].waits
  BY DEF NoCapture, NoRequest
<1>4. NothingToCome /\ OneUse /\ AnswersAreHonest /\ ThreatIsKnown
  BY <1>3 DEF NothingToCome, OneUse, AnswersAreHonest, ThreatIsKnown, Threat, MayArm
<1>5. CaptureIsPresent
  BY <1>3 DEF CaptureIsPresent, Capturing, Uttering, Waiting, Live
<1> QED
  BY <1>1, <1>2, <1>4, <1>5 DEF TypesOK, PttCore

-----------------------------------------------------------------------------
\* The state of the controller, the microphone and the Hub's session stays
\* coherent (PttInv), however the user and the answers interleave.
THEOREM PttInvariant == PushToTalkSpec => [](TypesOK /\ PttCore)
<1>1. PushToTalkInit => TypesOK /\ PttCore
  BY InitPtt
<1>2. TypesOK /\ PttCore /\ [PushToTalkNext]_vars => (TypesOK /\ PttCore)'
  BY NextPtt
<1> QED
  BY <1>1, <1>2, PTL DEF PushToTalkSpec

\* The microphone records only while the user holds to talk, and no stream that
\* is granted late stays open (voice.ts press and release).
THEOREM PttMicrophoneOff == PushToTalkSpec => []MicrophoneOff
<1>1. TypesOK /\ PttCore => MicrophoneOff
  BY TypesGivePtt DEF PttInv, CaptureIsPresent, MicrophoneOff
<1> QED
  BY <1>1, PttInvariant, PTL

\* While something is armed at the Hub, a cancellation would reach it (voice.ts
\* mustCancelHubSession).
THEOREM PttArmedIsKnown == PushToTalkSpec => []ArmedIsKnown
<1>1. TypesOK /\ PttCore => ArmedIsKnown
  BY DEF PttCore, ThreatIsKnown, Threat, ArmedIsKnown, mustCancelHubSession
<1> QED
  BY <1>1, PttInvariant, PTL

\* An answer is acted upon only for the words last spoken, and never after they
\* were cancelled (voice.ts release, after its last await).
THEOREM PttCancelledIsDropped == PushToTalkSpec => CancelledIsDropped
<1> DEFINE Heard == \A g \in acted' \ acted : g \notin dropped /\ g = voiceGeneration /\ utteranceIntentId = g
<1>1. ASSUME TypesOK, PttCore, [PushToTalkNext]_vars
      PROVE  [Heard]_vars
  <2>1. ASSUME NEW g \in Generations, UtteranceAnswered(g)
        PROVE  Heard
    <3>1. acted' \ acted \subseteq {g} /\ (g # voiceGeneration => acted' = acted)
      BY <2>1 DEF UtteranceAnswered, Understood
    <3>2. g = voiceGeneration => utteranceIntentId = g
      BY <1>1, <2>1 DEF PttCore, CaptureIsPresent, Uttering, UtteranceAnswered
    <3>3. g = voiceGeneration => g \notin dropped
      BY <1>1, MaxGenerationAssumption DEF PttCore, NothingToCome, Generations
    <3> QED
      BY <3>1, <3>2, <3>3
  <2>2. CASE \E g \in Generations : UtteranceAnswered(g)
    BY <2>1, <2>2
  <2>3. CASE ~ \E g \in Generations : UtteranceAnswered(g)
    <3>1. CASE UNCHANGED vars
      BY <3>1
    <3>2. CASE User
      <4>1. acted' = acted
        BY <3>2 DEF User, KeyDown, KeyUp, selectStart, selectEnd, Blur, Cancel, Dialog, Pairing,
           press, release, cancel, historyVars
      <4> QED
        BY <4>1
    <3>3. CASE PushToTalkNext /\ ~ User
      <4>1. acted' = acted
        BY <2>3, <3>3 DEF PushToTalkNext, HubRestarts, MicOpens, MicDenied, MicEnds, MicStopped, Settles,
           UtteranceFails, CancelAnswered, CancelFails, HubTakes, HubCommits, HubIdle, historyVars
      <4> QED
        BY <4>1
    <3> QED
      BY <1>1, <3>1, <3>2, <3>3
  <2> QED
    BY <2>2, <2>3
<1>2. TypesOK /\ PttCore /\ [PushToTalkNext]_vars => [Heard]_vars
  BY <1>1
<1> QED
  BY <1>2, PttInvariant, PTL DEF PushToTalkSpec, CancelledIsDropped

-----------------------------------------------------------------------------
(* A phase in which the user is ignored ends.                              *)

\* While it lasts something of the present generation is under way that ends it.
BusyAwaits ==
    /\ phase \in {"permission", "recording", "transcribing", "cancelling"} => voiceGeneration \in Generations
    /\ phase = "permission" => mic[voiceGeneration].stage = "asking"
    /\ phase = "transcribing" =>
          mic[voiceGeneration].stage = "stopping" \/ Waiting(voiceGeneration, "utterance")
    /\ phase = "cancelling" => Waiting(voiceGeneration, "cancel")

LEMMA UserBusyAwaits ==
    ASSUME PttInv, BusyAwaits, User
    PROVE  BusyAwaits'
<1> USE MaxGenerationAssumption, NoneAssumption
<1>1. ASSUME press PROVE BusyAwaits'
  <2>1. CASE phase \in Busy
    BY <1>1, <2>1 DEF press, BusyAwaits, Waiting, controlVars, micVars
  <2>2. CASE phase \notin Busy
    BY <1>1, <2>2, PressBegins DEF BusyAwaits
  <2> QED
    BY <2>1, <2>2
<1>2. ASSUME release PROVE BusyAwaits'
  <2>1. UNCHANGED <<voiceGeneration, request>>
    BY <1>2 DEF release
  <2>2. CASE phase # "recording"
    BY <1>2, <2>1, <2>2 DEF release, BusyAwaits, Waiting
  <2>3. CASE phase = "recording" /\ mic[captureSession].stage = "on"
    <3>1. captureSession = voiceGeneration /\ voiceGeneration \in Generations
      BY <2>3 DEF PttInv, CaptureIsPresent, BusyAwaits
    <3>2. phase' = "transcribing" /\ mic' = [mic EXCEPT ![captureSession].stage = "stopping"]
      BY <1>2, <2>3 DEF release
    <3> QED
      BY <2>1, <3>1, <3>2 DEF BusyAwaits, PttInv, PttTypeOK
  <2>4. CASE phase = "recording" /\ mic[captureSession].stage # "on"
    BY <1>2, <2>4 DEF release, BusyAwaits
  <2> QED
    BY <2>2, <2>3, <2>4
<1>3. ASSUME cancel PROVE BusyAwaits'
  <2>1. CASE phase = "cancelling"
    BY <1>3, <2>1 DEF cancel, BusyAwaits, Waiting, controlVars, micVars
  <2>2. CASE phase # "cancelling"
    <3>1. voiceGeneration' = voiceGeneration + 1 /\ voiceGeneration' \in Generations
      BY <1>3, <2>2 DEF cancel, PttInv, PttTypeOK, Generations
    <3>2. \/ phase' \in {"idle", "uncertain"}
          \/ /\ phase' = "cancelling"
             /\ request' = [request EXCEPT ![voiceGeneration'] =
                               [NoRequest EXCEPT !.kind = "cancel", !.at = "sent", !.waits = TRUE]]
      BY <1>3, <2>2 DEF cancel
    <3>3. CASE phase' \in {"idle", "uncertain"}
      BY <3>3 DEF BusyAwaits
    <3>4. CASE /\ phase' = "cancelling"
               /\ request' = [request EXCEPT ![voiceGeneration'] =
                                [NoRequest EXCEPT !.kind = "cancel", !.at = "sent", !.waits = TRUE]]
      <4>1. request'[voiceGeneration'].waits /\ request'[voiceGeneration'].kind = "cancel"
        BY <3>1, <3>4 DEF NoRequest, PttInv, PttTypeOK
      <4> QED
        BY <3>1, <3>4, <4>1 DEF BusyAwaits, Waiting
    <3> QED
      BY <3>2, <3>3, <3>4
  <2> QED
    BY <2>1, <2>2
<1>4. ASSUME UNCHANGED <<controlVars, micVars, request>> PROVE BusyAwaits'
  BY <1>4 DEF BusyAwaits, Waiting, controlVars, micVars
<1> QED
  BY <1>1, <1>2, <1>3, <1>4 DEF User, KeyDown, KeyUp, selectStart, selectEnd, Blur, Cancel, Dialog, Pairing

LEMMA NextBusyAwaits ==
    ASSUME TypesOK, PttCore, BusyAwaits, [PushToTalkNext]_vars
    PROVE  BusyAwaits'
<1> USE MaxGenerationAssumption, NoneAssumption
<1>1. PttInv
  BY TypesGivePtt
<1>2. CASE User
  BY <1>1, <1>2, UserBusyAwaits
<1>3. ASSUME NEW g \in Generations, MicOpens(g) \/ MicDenied(g) \/ MicEnds(g)
      PROVE  BusyAwaits'
  <2>1. UNCHANGED <<voiceGeneration, request>>
    BY <1>3 DEF MicOpens, MicDenied, MicEnds, controlVars
  <2>2. \A s \in Generations : s # g => mic'[s] = mic[s]
    BY <1>1, <1>3 DEF MicOpens, PressGoesOn, MicDenied, MicEnds, PttInv, PttTypeOK
  <2>3. g = voiceGeneration => phase' \in {"idle", "recording", "error"}
    BY <1>1, <1>3 DEF MicOpens, PressGoesOn, MicDenied, MicEnds, controlVars, PttInv, CaptureIsPresent
  <2>4. g # voiceGeneration => phase' = phase
    BY <1>3 DEF MicOpens, PressGoesOn, Unwanted, MicDenied, MicEnds, controlVars
  <2> QED
    BY <2>1, <2>2, <2>3, <2>4 DEF BusyAwaits, Waiting
<1>4. ASSUME NEW g \in Generations, MicStopped(g)
      PROVE  BusyAwaits'
  <2>1. phase = "transcribing" /\ g = voiceGeneration /\ voiceGeneration' = voiceGeneration
    BY <1>1, <1>4 DEF MicStopped, PttInv, CaptureIsPresent
  <2>2. \/ phase' \in {"error", "uncertain"}
        \/ /\ phase' = phase
           /\ request' = [request EXCEPT ![g] =
                             [NoRequest EXCEPT !.kind = "utterance", !.at = "sent", !.waits = TRUE]]
    BY <1>4, <2>1 DEF MicStopped
  <2>3. CASE phase' \in {"error", "uncertain"}
    BY <2>3 DEF BusyAwaits
  <2>4. CASE /\ phase' = phase
             /\ request' = [request EXCEPT ![g] =
                              [NoRequest EXCEPT !.kind = "utterance", !.at = "sent", !.waits = TRUE]]
    <3>1. request'[g].waits /\ request'[g].kind = "utterance"
      BY <1>1, <2>4 DEF NoRequest, PttInv, PttTypeOK
    <3> QED
      BY <2>1, <2>4, <3>1 DEF BusyAwaits, Waiting
  <2> QED
    BY <2>2, <2>3, <2>4
<1>5. ASSUME NEW g \in Generations, Settles(g)
      PROVE  BusyAwaits'
  <2>1. UNCHANGED <<voiceGeneration, mic>>
    BY <1>5 DEF Settles, UtteranceAnswered, UtteranceFails, CancelAnswered, CancelFails, micVars
  <2>2. \A s \in Generations : s # g => request'[s] = request[s]
    BY <1>1, <1>5 DEF Settles, UtteranceAnswered, UtteranceFails, CancelAnswered, CancelFails,
       NoLongerWaits, PttInv, PttTypeOK
  <2>3. IF g = voiceGeneration THEN phase' \in {"idle", "armed", "error", "uncertain"}
        ELSE phase' = phase
    BY <1>5 DEF Settles, UtteranceAnswered, Understood, UtteranceFails, CancelAnswered, CancelFails
  <2> QED
    BY <2>1, <2>2, <2>3 DEF BusyAwaits, Waiting
<1>6. ASSUME HubRestarts \/ \E g \in Generations : HubTakes(g) \/ HubCommits(g)
      PROVE  BusyAwaits'
  <2>1. UNCHANGED <<controlVars, micVars>>
    BY <1>6 DEF HubRestarts, HubTakes, HubCommits, HubIdle
  <2>2. \A s \in Generations : request'[s].waits = request[s].waits /\ request'[s].kind = request[s].kind
    <3>1. CASE HubRestarts
      BY <3>1 DEF HubRestarts
    <3>2. ASSUME NEW g \in Generations, HubTakes(g) \/ HubCommits(g)
          PROVE  \A s \in Generations :
                    request'[s].waits = request[s].waits /\ request'[s].kind = request[s].kind
      <4>1. \/ request' = [request EXCEPT ![g].at = "running"]
            \/ \E armed \in BOOLEAN : request' = [request EXCEPT ![g].at = "done", ![g].armed = armed]
        BY <3>2 DEF HubTakes, HubCommits, Answer
      <4> QED
        BY <1>1, <4>1 DEF PttInv, PttTypeOK
    <3> QED
      BY <1>6, <3>1, <3>2
  <2> QED
    BY <2>1, <2>2 DEF BusyAwaits, Waiting, controlVars, micVars
<1>7. CASE UNCHANGED vars
  BY <1>7 DEF vars, BusyAwaits, Waiting, controlVars, micVars
<1> QED
  BY <1>2, <1>3, <1>4, <1>5, <1>6, <1>7 DEF PushToTalkNext

\* The safety half of AlwaysSettles: while the controller asks for the microphone,
\* transcribes or cancels, a question to the user, a recorder or a request of the
\* present generation is under way (the awaits of voice.ts press, release and
\* cancel), whose end is another phase; no late answer and no restart of the Hub
\* takes it away.
THEOREM PttBusyAwaits == PushToTalkSpec => []BusyAwaits
<1>1. PushToTalkInit => BusyAwaits
  BY DEF PushToTalkInit, BusyAwaits
<1>2. TypesOK /\ PttCore /\ BusyAwaits /\ [PushToTalkNext]_vars => BusyAwaits'
  BY NextBusyAwaits
<1> QED
  BY <1>1, <1>2, PttInvariant, PTL DEF PushToTalkSpec

=============================================================================
