---------------------------- MODULE VoiceSession ----------------------------
(***************************************************************************)
(* What an utterance means to a voice session and what it does to it       *)
(* (apps/hub/src/voice/grammar.ts parse, session.ts reduce): pure, no I/O. *)
(*                                                                         *)
(* A transcript is a word class with the action it names and the item that *)
(* is selected while it is spoken.  A session is in at most one mode: an   *)
(* action armed for confirmation, a dictation, or an armed dispatch.       *)
(***************************************************************************)
EXTENDS Integers

CONSTANTS
    Items,
    Offers,             \* per item, the actions it offers
    Confirming,         \* the actions that require confirmation
    ConfirmTtl,
    ElevateFreeform,    \* a free-form reading of an action has to be confirmed
    None

\* VERBS: what can be done at once, and what needs dictated words.
Direct   == {"approve", "ship", "rerun", "merge"}
Dictated == {"deny", "answer", "redirect", "comment", "request_changes"}
Actions  == Direct \cup Dictated

ASSUME OffersAssumption == Offers \in [Items -> SUBSET Actions] /\ Confirming \subseteq Actions
ASSUME TtlAssumption == ConfirmTtl \in Nat /\ ElevateFreeform \in BOOLEAN
ASSUME NoneAssumption == None \notin Items /\ None \notin Actions /\ None \notin [at : Nat]
    /\ None \notin [item : Items, action : Actions, body : BOOLEAN]
    /\ None \notin [item : Items, action : Actions, body : BOOLEAN, at : Nat]

\* "navigate" stands for every command that only asks, reads, opens or moves;
\* "mumble" for low confidence; "other" for words outside the grammar.
Words == {"verb", "confirm", "post", "cancel", "navigate", "dispatch",
          "confirm dispatch", "other", "mumble"}

Utterance == [word : Words, action : Actions \cup {None}, item : Items \cup {None},
              route : {"audio", "text", "cancel"}]

Arm   == [item : Items, action : Actions, body : BOOLEAN, at : Nat]
Draft == [item : Items, action : Actions, body : BOOLEAN]
Fields == [confirm : Arm \cup {None}, dictating : Draft \cup {None}, dispatch : [at : Nat] \cup {None}]

Empty == [confirm |-> None, dictating |-> None, dispatch |-> None]

OneMode(s) ==
    /\ s.confirm = None \/ (s.dictating = None /\ s.dispatch = None)
    /\ s.dictating = None \/ s.dispatch = None

-----------------------------------------------------------------------------
(* parse.                                                                  *)

Intent(kind, item, action) == [kind |-> kind, item |-> item, action |-> action]
Plain(kind) == Intent(kind, None, None)

\* `ship` wants a merge word, with or without "confirm"; the rest, their own
\* verb after "confirm".
Confirms(u, action) ==
    IF action = "ship"
    THEN u.word \in {"verb", "confirm"} /\ u.action \in {"merge", "ship"}
    ELSE u.word = "confirm" /\ u.action = action

\* With nothing pending.  "unknown" is the no_match that may be read freely.
FirstStage(u) ==
    CASE u.word = "navigate" -> Plain("navigate")
      [] u.word = "dispatch" -> Plain("dispatch_task")
      [] u.word = "verb" ->
            IF u.item = None THEN Plain("no_match")
            ELSE IF u.action \notin Offers[u.item] THEN Plain("no_match")
            ELSE Intent(IF u.action \in Dictated THEN "dictate" ELSE "action", u.item, u.action)
      [] OTHER -> Plain("unknown")

parse(u, s) ==
    IF u.word = "mumble" THEN Plain("no_match")
    ELSE IF u.word = "cancel" THEN Plain("cancel")
    ELSE IF s.dictating # None THEN Plain(IF u.word = "post" THEN "post" ELSE "dictation_body")
    ELSE IF u.word = "confirm dispatch" /\ s.dispatch # None THEN Plain("confirm_dispatch")
    ELSE IF s.confirm # None /\ Confirms(u, s.confirm.action)
         THEN Intent("confirm", s.confirm.item, s.confirm.action)
    ELSE FirstStage(u)

\* What the intent service may make of unknown words: a first-stage intent on
\* the selected item, validated against what it offers, or nothing.
Readings(u) ==
    {Plain("no_match"), Plain("navigate")} \cup
    IF u.item = None THEN {}
    ELSE {Intent("action", u.item, a) : a \in Offers[u.item]} \cup
         {Intent("dictate", u.item, a) : a \in Offers[u.item] \cap {"comment", "request_changes"}}

-----------------------------------------------------------------------------
(* reduce.                                                                 *)

NeverExpired(arm, now) == arm

Unexpired(arm, now) == IF arm # None /\ now - arm.at > ConfirmTtl THEN None ELSE arm

\* clearExpiredPendingConfirm: a dictation does not expire.
Current(s, now) ==
    [s EXCEPT !.confirm = Unexpired(@, now), !.dispatch = Unexpired(@, now)]

Disarmed(s) == [s EXCEPT !.confirm = None, !.dispatch = None]

NeedsConfirmation(action, freeform) == action \in Confirming \/ (freeform /\ ElevateFreeform)

Effect(kind, item, action) == [kind |-> kind, item |-> item, action |-> action]
Step(next, effect) == [next |-> next, effect |-> effect]
NotUnderstood(next) == Step(next, Effect("noMatch", None, None))

Armed(s, item, action, body, now) ==
    Step([s EXCEPT !.confirm = [item |-> item, action |-> action, body |-> body, at |-> now]],
         Effect("armed", item, action))

OnAction(s, i, now, freeform) ==
    IF NeedsConfirmation(i.action, freeform)
    THEN Armed(Disarmed(s), i.item, i.action, FALSE, now)
    ELSE Step(Disarmed(s), Effect("dispatch", i.item, i.action))

OnConfirm(s, i) ==
    IF s.confirm # None /\ s.confirm.item = i.item /\ s.confirm.action = i.action
    THEN Step([s EXCEPT !.confirm = None], Effect("dispatch", i.item, i.action))
    ELSE NotUnderstood([s EXCEPT !.confirm = None])

OnDictate(s, i) ==
    Step([Disarmed(s) EXCEPT !.dictating = [item |-> i.item, action |-> i.action, body |-> FALSE]],
         Effect("dictation_prompt", i.item, i.action))

OnBody(s) ==
    IF s.dictating = None THEN NotUnderstood(s)
    ELSE Step([s EXCEPT !.dictating.body = TRUE],
              Effect("dictation_readback", s.dictating.item, s.dictating.action))

OnPost(s, now) ==
    IF s.dictating = None THEN NotUnderstood([s EXCEPT !.confirm = None])
    ELSE IF ~ s.dictating.body THEN NotUnderstood([s EXCEPT !.confirm = None])
    ELSE IF NeedsConfirmation(s.dictating.action, FALSE)
         THEN Armed(Empty, s.dictating.item, s.dictating.action, TRUE, now)
    ELSE Step([Disarmed(s) EXCEPT !.dictating = None],
              Effect("dispatch", s.dictating.item, s.dictating.action))

OnConfirmDispatch(s) ==
    IF s.dispatch # None
    THEN Step([s EXCEPT !.dispatch = None], Effect("dispatchIntent", None, None))
    ELSE NotUnderstood([s EXCEPT !.dispatch = None])

\* A new task leaves nothing else pending, a dictation included.
OnDispatchTask(now) ==
    Step([Empty EXCEPT !.dispatch = [at |-> now]], Effect("armedDispatch", None, None))

OnCancel == Step(Empty, Effect("cancelled", None, None))

\* status_query, nav, read and open: whatever was armed is disarmed.
OnNavigate(s) == Step(Disarmed(s), Effect("navigate", None, None))

reduce(session, i, now, freeform) ==
    LET s == Current(session, now)
    IN  CASE i.kind = "action" -> OnAction(s, i, now, freeform)
          [] i.kind = "confirm" -> OnConfirm(s, i)
          [] i.kind = "dictate" -> OnDictate(s, i)
          [] i.kind = "dictation_body" -> OnBody(s)
          [] i.kind = "post" -> OnPost(s, now)
          [] i.kind = "dispatch_task" -> OnDispatchTask(now)
          [] i.kind = "confirm_dispatch" -> OnConfirmDispatch(s)
          [] i.kind = "cancel" -> OnCancel
          [] i.kind = "navigate" -> OnNavigate(s)
          [] OTHER -> NotUnderstood(s)

=============================================================================
