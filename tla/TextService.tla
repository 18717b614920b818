----------------------------- MODULE TextService -----------------------------
(***************************************************************************)
(* windows/im_engine: the TSF text service around one session             *)
(* (text_service.rs, input_session.rs, candidate_dispatch.rs,              *)
(* prediction_context.rs and the clicks of candidate_window.rs).           *)
(*                                                                         *)
(* Everything runs on one thread.  A callback of the host is a sequence of *)
(* instructions, each what is done under one hold of the session's lock;   *)
(* the calls in progress are a stack of such sequences, and the head of    *)
(* the first is what runs.  While an edit is requested of the host, before *)
(* and after it is granted, the host may call back: a new sequence is      *)
(* pushed.  Candidates are drawn by another thread, and a reload finds     *)
(* whatever the threads that load runtimes have published by then.         *)
(***************************************************************************)
EXTENDS Session

CONSTANTS
  Keys,      \* the keys, as actions of the session
  Words,     \* the texts that may stand before the caret
  Proposals, \* the item lists a model may answer with
  Editors,   \* the host's text contexts
  MaxCalls,  \* bound: callbacks of the host
  MaxDepth   \* bound: callbacks inside one another

\* An identity names one text of a list: identities are positions (complete_prediction).
IdsName(items) ==
  \A i, j \in DOMAIN items : items[i].id = items[j].id => items[i].text = items[j].text

ASSUME TextServiceAssumption ==
  /\ Profile = "Legacy"
  /\ \A items \in Proposals : IdsName(items)
  /\ MaxCalls \in Nat /\ MaxDepth \in Nat

VARIABLES
  session, \* the core session
  svc,     \* the service's own fields
  host,    \* the host: what has the focus, the text there, timers and messages;
           \* "unseen" only records that the text before the caret moved under an edit of
           \* the service's own
  data,    \* the candidate data last published for the window
  drawn,   \* the prediction list on the screen, at most one
  stack    \* the callbacks in progress

vars == <<session, svc, host, data, drawn, stack>>
s == session

Usual == [assist |-> TRUE, preedit |-> TRUE, insert |-> TRUE, purpose |-> "Text"]

\* What a window shows of a session: a prediction list carries its identities.
Drawing(view, list) ==
  [visible |-> view.visible, spelling |-> view.spelling, items |-> view.items, list |-> list]
Hidden == Drawing(DefaultView, {})
ShownOf(x) == Drawing(x.view, IF HasPrediction(x) THEN x.prediction ELSE {})

\* The session's editor number counts the changes of context; "bound" is the context it
\* stands for.
Init ==
  /\ session = NewSession(1, [assist |-> TRUE, editor |-> 1, epoch |-> 0, preedit |-> TRUE,
                              insert |-> TRUE, owns |-> FALSE, purpose |-> "Text"])
  /\ svc = [active |-> FALSE, bound |-> {}, composition |-> {}, queued |-> FALSE,
            dispatch |-> FALSE, watched |-> {}]
  /\ \E e \in Editors :
       host = [focus |-> e, text |-> <<>>, timers |-> {}, taken |-> {},
               click |-> {}, unseen |-> FALSE, calls |-> 0]
  /\ data = Hidden /\ drawn = {} /\ stack = <<>>

-----------------------------------------------------------------------------
(* Sequences of instructions. *)

Do(name) == [do |-> name]
Top == Head(stack)
Running(name) == stack # <<>> /\ Head(Top).do = name
Now == Head(Top)
Rest == Tail(Top)

\* The running callback goes on with these instructions, and returns at their end.
Continue(instructions) ==
  stack' = IF instructions = <<>> THEN Tail(stack) ELSE <<instructions>> \o Tail(stack)

\* An edit is out to the host, or has been granted and not yet returned.
IsOut(i) == i.do = "Edit" \/ (i.do = "Ack" /\ i.out)

\* writing_host: some edit of the service's own is under way.
WritingHost == \E f \in DOMAIN stack : IsOut(Head(stack[f]))

\* What is to be shown once the plan is published.
Preview(p) == IF p.unchanged THEN data ELSE Drawing(p.view, {})

\* The plan's edit; one that writes nothing, or that ends a composition that is not there,
\* does not reach the host.
Execute(next) ==
  LET p == The(next.pending)
      silent == p.op.kind = "NoOp" \/ (p.op.kind = "End" /\ svc.composition = {})
  IN IF silent
     THEN <<[do |-> "Ack", token |-> p.token, outcome |-> "Applied", data |-> Preview(p),
             out |-> FALSE]>>
     ELSE <<[do |-> "Edit", token |-> p.token, op |-> p.op, data |-> Preview(p),
             context |-> IF svc.composition = {} THEN {host.focus} ELSE svc.composition]>>

Staged(next) == next.generation > s.generation /\ next.pending # {}

\* The session moves on, and its plan, if it made one, is executed.
Runs(next) ==
  /\ session' = next
  /\ Continue((IF Staged(next) THEN Execute(next) ELSE <<>>) \o Rest)

-----------------------------------------------------------------------------
(* The instructions: the methods of InputSession under the session's lock. *)

\* clear_prediction_context
ClearsPrediction(next) ==
  /\ session' = ClearPrediction(s)
  /\ data' = IF HasPrediction(s) THEN Hidden ELSE data
  /\ Continue(next)
Clear == Running("Clear") /\ ClearsPrediction(Rest) /\ UNCHANGED <<svc, host, drawn>>

LeaveEditor == Running("LeaveEditor") /\ Runs(LoseFocus(s)) /\ UNCHANGED <<svc, host, data, drawn>>
Lose == <<Do("Clear"), Do("LeaveEditor")>>

\* host_terminated; deactivation also gives up the composition, the windows and the timers.
Forget ==
  /\ Running("Forget")
  /\ session' = HostTerminated(s) /\ data' = Hidden
  /\ Continue(Rest) /\ UNCHANGED <<svc, host, drawn>>

Dropped(v) == [v EXCEPT !.active = FALSE, !.dispatch = FALSE, !.queued = FALSE]
Drop ==
  /\ Running("Drop")
  /\ svc' = Dropped(svc)
  /\ host' = [host EXCEPT !.timers = {}, !.click = {}, !.taken = {}]
  /\ drawn' = {} /\ Continue(Rest) /\ UNCHANGED <<session, data>>
DropComposition ==
  /\ Running("DropComposition")
  /\ svc' = [svc EXCEPT !.composition = {}]
  /\ Continue(Rest) /\ UNCHANGED <<session, host, data, drawn>>

RecoverNow ==
  /\ Running("Recover")
  /\ IF s.cleanup = {} THEN Continue(Rest) /\ UNCHANGED session ELSE Runs(Recover(s))
  /\ UNCHANGED <<svc, host, data, drawn>>

\* A cleanup that failed again ends the callback.
Ready ==
  /\ Running("Ready")
  /\ Continue(IF s.cleanup = {} THEN Rest ELSE <<>>)
  /\ UNCHANGED <<session, svc, host, data, drawn>>

\* reload, with the newest runtime published: the one of the last reload or a newer one.
Newest(x) == CHOOSE r \in {x.revision} \cup x.deferred : \A q \in x.deferred : q <= r
Reload ==
  /\ Running("Reload")
  /\ \E r \in {r \in DOMAIN Runtimes : r >= Newest(s)} :
     LET next == ApplyRuntime(s, r)
     IN /\ Runs(next)
        /\ data' = IF HasPrediction(s) /\ ~HasPrediction(next) THEN ShownOf(next) ELSE data
  /\ UNCHANGED <<svc, host, drawn>>

Gate ==
  /\ Running("Gate") /\ Runs(SetInputGate(s, Now.on)) /\ UNCHANGED <<svc, host, data, drawn>>

\* translated_key: English mode, or a cleanup that is left, passes the key on.
Translate ==
  /\ Running("Translate")
  /\ Continue(IF s.cleanup # {} \/ ~s.gate THEN <<Do("Clear")>> ELSE Rest)
  /\ UNCHANGED <<session, svc, host, data, drawn>>

TestKey ==
  /\ Running("TestKey")
  /\ IF WouldHandleLegacy(s, Now.key.ev)
     THEN /\ host' = [host EXCEPT !.taken = {Now.key}]
          /\ Continue(Rest) /\ UNCHANGED <<session, data>>
     ELSE ClearsPrediction(Rest) /\ UNCHANGED host
  /\ UNCHANGED <<svc, drawn>>

\* Mutant of Handled: what the test took is handled without being asked again.
HandledAsTested(key) == TRUE

Handled(key) == WouldHandleLegacy(s, key.ev)
HandleKey ==
  /\ Running("Handle")
  /\ IF Handled(Now.key)
     THEN Runs(Prepare(s, Now.key)) ELSE Continue(Rest) /\ UNCHANGED session
  /\ UNCHANGED <<svc, host, data, drawn>>

Identity(click) == SelectCandidate(click.query, click.id)

Choose ==
  /\ Running("Choose")
  /\ IF HasPrediction(s)
     THEN Runs(Prepare(s, Identity(Now.click)))
     ELSE Continue(Rest) /\ UNCHANGED session
  /\ UNCHANGED <<svc, host, data, drawn>>

\* sync_prediction_context is one hold of the lock, in three parts that nothing comes
\* between.  The text is read with the host's consent; a password, a private field or a
\* refused read allows no assistance, and the text is not read beside a composition.
Reads(collect) ==
  {[allowed |-> FALSE, text |-> {}], [allowed |-> TRUE, text |-> {}]}
  \cup IF collect THEN {[allowed |-> TRUE, text |-> {host.text}]} ELSE {}

\* Just before a click and after an edit of others the text must be readable.
Proves(strict, r) == strict /\ r.allowed => r.text # {}

ReadPrefix ==
  /\ Running("Read")
  /\ \E r \in Reads(Now.strict \/ svc.composition = {}) :
       IF Proves(Now.strict, r)
       THEN /\ Continue(<<Do("Bind"), [do |-> "Assist", allowed |-> r.allowed],
                          [do |-> "Observe", text |-> r.text, shown |-> HasPrediction(s)]>>
                        \o Rest)
            /\ UNCHANGED <<session, data>>
       ELSE ClearsPrediction(<<>>)
  /\ UNCHANGED <<svc, host, drawn>>

BindEditor ==
  /\ Running("Bind")
  /\ IF svc.bound = {host.focus} THEN UNCHANGED <<session, svc>>
     ELSE /\ svc' = [svc EXCEPT !.bound = {host.focus}]
          /\ session' = InvalidateContext(s, [s.context EXCEPT !.editor = @ + 1, !.epoch = @ + 1],
                                          TRUE)
  /\ Continue(Rest) /\ UNCHANGED <<host, data, drawn>>

Assist ==
  /\ Running("Assist")
  /\ session' = SetAssistance(s, Now.allowed)
  /\ Continue(Rest) /\ UNCHANGED <<svc, host, data, drawn>>

ObserveText ==
  /\ Running("Observe")
  /\ session' = IF Now.text = {} THEN s ELSE ObservePrefix(s, The(Now.text))
  /\ data' = IF Now.shown /\ ~HasPrediction(session') THEN Hidden ELSE data
  /\ host' = IF Now.text = {} THEN host ELSE [host EXCEPT !.unseen = WritingHost]
  /\ Continue(Rest) /\ UNCHANGED <<svc, drawn>>

\* pump_prediction: an answer or a deadline completes the list, and the timer comes again
\* while one is awaited; without a timer the request is given up.
Scored(items) ==
  {<<>>} \cup {<<items[i]>> : i \in DOMAIN items}
Completions ==
  {s} \cup UNION {{CompletePrediction(s, w, items) :
                     items \in Proposals \cup UNION {Scored(p.items) : p \in s.prediction}} :
                  w \in s.wait}

\* Mutant of Armed: the timer is set only when the service is asked the first time.
ArmedOnce(timers) == timers

Armed(timers) == timers \cup {"Model"}

Pump ==
  /\ Running("Pump")
  /\ \E next \in Completions :
       /\ session' = next
       /\ data' = IF next = s THEN data ELSE ShownOf(next)
       /\ host' = IF next.wait # {} /\ svc.dispatch
                  THEN [host EXCEPT !.timers = Armed(@)] ELSE host
       /\ Continue((IF next.wait # {} /\ ~svc.dispatch THEN <<Do("Abandon")>> ELSE <<>>)
                   \o Rest)
  /\ UNCHANGED <<svc, drawn>>
Abandon ==
  /\ Running("Abandon")
  /\ session' = CompletePrediction(s, The(s.wait), <<>>)
  /\ Continue(Rest) /\ UNCHANGED <<svc, host, data, drawn>>

-----------------------------------------------------------------------------
(* The edit itself, and its acknowledgement. *)

Result(composition, outcome, wrote) ==
  [composition |-> composition, outcome |-> outcome, wrote |-> wrote]

\* What may come of an edit in the composition c, or else in the context asked for: an error
\* counts as a refusal unless text was committed before it.
Results(op, context, c) ==
  LET target == IF c = {} THEN context ELSE c
      starts == svc.active \/ c # {}    \* a new composition needs the service itself
      updated == IF starts THEN {Result(target, "Applied", FALSE),
                                 Result(target, "RejectedBeforeWrite", FALSE)} ELSE {}
      written == {Result({}, "OutcomeUnknown", TRUE), Result(c, "OutcomeUnknown", TRUE)}
      refused == {Result(c, "RejectedBeforeWrite", FALSE)}
  IN refused \cup
     CASE op.kind = "Update" -> updated
       [] op.kind = "Commit" -> written \cup {Result({}, "Applied", TRUE)}
       [] op.kind = "CommitThenUpdate" ->
            written \cup {Result(context, outcome, TRUE) : outcome \in {"Applied", "OutcomeUnknown"}}
       [] OTHER -> {Result({}, "Applied", FALSE)}

\* The last of the text before the caret is what the models look at.
Written(text, op) == LastOf(text \o op.text)

Edit ==
  /\ Running("Edit")
  /\ \E r \in Results(Now.op, Now.context, svc.composition) :
       /\ svc' = [svc EXCEPT !.composition = r.composition]
       /\ host' = IF r.wrote THEN [host EXCEPT !.text = Written(@, Now.op)] ELSE host
       /\ Continue(<<[do |-> "Ack", token |-> Now.token, outcome |-> r.outcome,
                      data |-> Now.data, out |-> TRUE]>> \o Rest)
  /\ UNCHANGED <<session, data, drawn>>

\* Mutant of Published: what was prepared is shown, whatever the session has by now.
PublishedAsPrepared(next, prepared) == prepared

\* A prediction that came of the commit is shown in place of the prepared view.
Published(next, prepared) ==
  IF HasPrediction(next) \/ next.wait # {} THEN ShownOf(next) ELSE prepared

Ack ==
  /\ Running("Ack")
  /\ LET current == IsCurrent(s, Now.token)
         next == Acknowledge(s, Now.token, Now.outcome, s.context.owns)
     IN /\ session' = next
        /\ data' = CASE current /\ Now.outcome = "Applied" -> Published(next, Now.data)
                     [] current /\ Now.outcome # "Applied" /\ next.cleanup # {} -> Hidden
                     [] OTHER -> data
        /\ host' = [host EXCEPT !.unseen = @ \/ (Now.out /\ ~current)]
  /\ Continue(Rest) /\ UNCHANGED <<svc, drawn>>

-----------------------------------------------------------------------------
(* The callbacks of the host. *)

MayEnter ==
  /\ host.calls < MaxCalls
  /\ stack # <<>> => IsOut(Now) /\ Len(stack) < MaxDepth
Entered == [host EXCEPT !.calls = @ + 1]
Starts(instructions) == stack' = <<instructions>> \o stack

\* prepare_context: a composition left in another context is ended, a cleanup done first.
PrepareContext ==
  (IF svc.composition \subseteq {host.focus} THEN <<>> ELSE Lose) \o <<Do("Recover"), Do("Ready")>>
Translated == PrepareContext \o <<Do("Reload"), Do("Recover"), Do("Translate")>>

OnTestKeyDown(key) ==
  /\ MayEnter /\ svc.active
  /\ Starts(Translated \o <<[do |-> "TestKey", key |-> key]>>)
  /\ host' = [Entered EXCEPT !.taken = {}] /\ UNCHANGED <<session, svc, data, drawn>>

\* A key that means nothing to the service.
OnOtherKey ==
  /\ MayEnter /\ svc.active
  /\ Starts(Translated \o <<Do("Clear")>>)
  /\ host' = [Entered EXCEPT !.taken = {}] /\ UNCHANGED <<session, svc, data, drawn>>

\* The key the test took.
OnKeyDown ==
  /\ MayEnter /\ svc.active /\ host.taken # {}
  /\ Starts(Translated
            \o (IF Prediction(s).enabled THEN <<[do |-> "Read", strict |-> FALSE]>> ELSE <<>>)
            \o <<[do |-> "Handle", key |-> The(host.taken)], Do("Pump")>>)
  /\ host' = [Entered EXCEPT !.taken = {}] /\ UNCHANGED <<session, svc, data, drawn>>

\* The document, the thread or the keyboard loses the focus: another context may have it.
OnFocusLost(e) ==
  /\ MayEnter /\ svc.active
  /\ Starts(Lose)
  /\ \E text \in Words :
       host' = [Entered EXCEPT !.focus = e, !.taken = {},
                               !.text = IF e = host.focus THEN @ ELSE text]
  /\ UNCHANGED <<session, svc, data, drawn>>

\* The host ends the composition itself; its answer to the service's own end is ignored.
OnCompositionTerminated ==
  /\ MayEnter /\ svc.composition # {}
  /\ svc' = [svc EXCEPT !.composition = {}]
  /\ Starts(<<Do("Clear"), Do("Forget")>>)
  /\ host' = Entered /\ UNCHANGED <<session, data, drawn>>

\* Mutant of Noticed: only a list that is already shown is checked.
NoticedIfShown ==
  svc.watched = {host.focus} /\ ~WritingHost /\ HasPrediction(s) /\ ~svc.queued

\* Another edit of the text: it is looked at once the host is done, by a timer.  Edits
\* during the service's own are not, nor those of contexts without the sink.
Noticed ==
  svc.watched = {host.focus} /\ ~WritingHost /\ Prediction(s).enabled /\ ~svc.queued

OnEndEdit(text) ==
  /\ MayEnter /\ text # host.text
  /\ LET queues == Noticed /\ svc.dispatch
     IN /\ host' = [Entered EXCEPT !.text = text, !.unseen = @ \/ WritingHost,
                                   !.timers = IF queues THEN @ \cup {"Verify"} ELSE @]
        /\ svc' = [svc EXCEPT !.queued = @ \/ queues]
        /\ IF Noticed /\ ~queues THEN Starts(<<Do("Clear")>>) ELSE UNCHANGED stack
  /\ UNCHANGED <<session, data, drawn>>

\* OnChange of the compartment, and the toggle, which writes it and then applies the mode.
OnModeChange(on) ==
  /\ MayEnter /\ svc.active
  /\ Starts((IF on THEN <<>> ELSE <<Do("Clear")>>) \o <<[do |-> "Gate", on |-> on]>>)
  /\ host' = Entered /\ UNCHANGED <<session, svc, data, drawn>>

OnModelTimer ==
  /\ MayEnter /\ "Model" \in host.timers
  /\ Starts(<<Do("Pump")>>)
  /\ host' = [Entered EXCEPT !.timers = @ \ {"Model"}] /\ UNCHANGED <<session, svc, data, drawn>>

OnVerifyTimer ==
  /\ MayEnter /\ "Verify" \in host.timers
  /\ host' = [Entered EXCEPT !.timers = @ \ {"Verify"}]
  /\ svc' = [svc EXCEPT !.queued = FALSE]
  /\ IF svc.composition = {}
     THEN Starts(<<Do("Reload")>> \o PrepareContext \o <<[do |-> "Read", strict |-> TRUE]>>)
     ELSE UNCHANGED stack
  /\ UNCHANGED <<session, data, drawn>>

\* The window posts the identity of the candidate that was pressed and released.
OnCandidateClick ==
  /\ MayEnter /\ host.click # {}
  /\ Starts(<<Do("Reload")>> \o PrepareContext
            \o <<[do |-> "Read", strict |-> TRUE], [do |-> "Choose", click |-> The(host.click)],
                 Do("Pump")>>)
  /\ host' = [Entered EXCEPT !.click = {}] /\ UNCHANGED <<session, svc, data, drawn>>

Deactivate ==
  /\ MayEnter /\ svc.active
  /\ Starts(Lose \o <<Do("DropComposition"), Do("Clear"), Do("Forget"), Do("Drop")>>)
  /\ host' = Entered /\ UNCHANGED <<session, svc, data, drawn>>

\* The click window may fail; only the context in focus gets the text sink.
Activate(on) ==
  /\ stack = <<>> /\ MayEnter /\ ~svc.active
  /\ \E dispatch \in BOOLEAN :
       svc' = [svc EXCEPT !.active = TRUE, !.dispatch = dispatch, !.watched = {host.focus}]
  /\ Starts((IF on THEN <<>> ELSE <<Do("Clear")>>) \o <<[do |-> "Gate", on |-> on]>>)
  /\ host' = Entered /\ UNCHANGED <<session, data, drawn>>

-----------------------------------------------------------------------------
(* The thread of the candidate window. *)

\* The candidate window draws what was last published.
Draw ==
  /\ svc.active /\ drawn # (IF data.visible THEN data.list ELSE {})
  /\ drawn' = IF data.visible THEN data.list ELSE {}
  /\ UNCHANGED <<session, svc, host, data, stack>>

Click(i) ==
  /\ svc.dispatch /\ host.click = {}
  /\ \E p \in drawn :
       /\ i \in DOMAIN p.items
       /\ host' = [host EXCEPT !.click = {[query |-> p.query, id |-> p.items[i].id,
                                           text |-> p.items[i].text]}]
  /\ UNCHANGED <<session, svc, data, drawn, stack>>

-----------------------------------------------------------------------------
Instruction ==
  \/ Clear \/ LeaveEditor \/ Forget \/ Drop \/ DropComposition \/ RecoverNow \/ Ready
  \/ Reload \/ Gate \/ Translate \/ TestKey \/ HandleKey \/ Choose
  \/ ReadPrefix \/ BindEditor \/ Assist \/ ObserveText \/ Pump \/ Abandon \/ Edit \/ Ack

Callback ==
  \/ \E key \in Keys : OnTestKeyDown(key)
  \/ OnOtherKey \/ OnKeyDown \/ OnCompositionTerminated
  \/ \E e \in Editors : OnFocusLost(e)
  \/ \E text \in Words : OnEndEdit(text)
  \/ \E on \in BOOLEAN : OnModeChange(on) \/ Activate(on)
  \/ OnModelTimer \/ OnVerifyTimer \/ OnCandidateClick \/ Deactivate

Next == Instruction \/ Callback \/ Draw \/ \E i \in 1..2 : Click(i)

Spec == Init /\ [][Next]_vars

-----------------------------------------------------------------------------
\* Type invariant.
TypeOK ==
  /\ session.revision \in DOMAIN Runtimes
  /\ svc.bound \cup svc.composition \cup svc.watched \cup {host.focus} \subseteq Editors
  /\ {Cardinality(svc.bound), Cardinality(svc.composition), Cardinality(drawn)} \subseteq {0, 1}
  /\ host.timers \subseteq {"Model", "Verify"} /\ host.calls \in 0..MaxCalls
  /\ \A f \in DOMAIN stack : stack[f] # <<>>

AtRest == stack = <<>>
IsComing(names) == \E f \in DOMAIN stack : \E i \in DOMAIN stack[f] : stack[f][i].do \in names

\* A session that waits for the model is asked again: by the timer, or by the callback
\* that still runs.  Otherwise the hidden list would never be shown.
AwaitedIsPumped ==
  s.wait # {} => "Model" \in host.timers \/ IsComing({"Pump", "Abandon"})

\* A check that is marked as queued has its timer: otherwise no edit of others would be
\* looked at ever again.
QueuedIsChecked == svc.queued => "Verify" \in host.timers

\* Whoever waits has something that ends the wait: no flag stands for a timer that is not set.
TimersAreSet == TypeOK /\ AwaitedIsPumped /\ QueuedIsChecked

\* The window draws the list of the session and no other while there is one to choose from:
\* what is drawn can be clicked, and a list the session's view shows is drawn as it is.
ListAgrees ==
  HasPrediction(s) => /\ data.list \subseteq s.prediction
                      /\ s.view.prediction => data = ShownOf(s)

\* A click takes a word only from a list made for the text that stands before the caret now:
\* what others did to it since the list was drawn is seen first.
ClicksFitText ==
  Running("Choose") /\ Allowed(s) /\ HasPrediction(s) => s.prefix.text = LastOf(host.text)

\* A click on a drawn candidate commits the text that was under it, or nothing.
ClicksCommitTheDrawn ==
  Running("Choose") /\ HasPrediction(s) =>
    \A i \in Chosen(s, Identity(Now.click)) : Items(s)[i].text = Now.click.text

\* The list on the screen is the session's, and a click on it commits the word that was under
\* the pointer, where that word was predicted.
ListIsTrue == ListAgrees /\ ClicksFitText /\ ClicksCommitTheDrawn

\* Between callbacks, a list that the view shows was made for the text before the caret, as
\* much of it as is known, or a check of the text is coming.  The one exception is a text that
\* moved while an edit of the service was out (an edit of others, which writing_host ignores,
\* or a plan that was given up under it), until the text is read when no edit is.
EndOf(part, text) == \E k \in 0..Len(text) : part = SubSeq(text, k + 1, Len(text))
ShownFitsText ==
  AtRest /\ HasPrediction(s) /\ s.view.prediction /\ svc.watched = {host.focus} =>
    EndOf(s.prefix.text, host.text) \/ "Verify" \in host.timers \/ host.unseen

\* When the focus is lost the composition is ended: none is left in a document that the
\* session does not know of (docs/android-readiness.md:45).  This the code does not keep.
CompositionIsKnown ==
  AtRest /\ svc.composition # {} => s.engine.spelling # <<>> \/ s.cleanup # {}
=============================================================================
