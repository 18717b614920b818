------------------------------ MODULE TouchHost ------------------------------
(***************************************************************************)
(* android: the input method service around one touch session              *)
(* (MyWubiService.kt, EditorAdapter.kt, EditorShortcuts.kt, InputQueue.kt, *)
(* InputPolicy.kt, EngineUpdates.kt) and the calls it makes of the native  *)
(* protocol (core_engine/ffi.rs).                                          *)
(*                                                                         *)
(* The main thread runs one callback at a time.  While an operation of the *)
(* editor is under way the editor may call back, so what is left of the    *)
(* calls in progress is a stack of frames, each a sequence of              *)
(* instructions.  A frame remembers the connection and the epoch it began  *)
(* with.  Runtimes are built by a single background thread.                *)
(***************************************************************************)
EXTENDS Session

CONSTANTS
  Requests,   \* what the keyboard dispatches
  Editors,    \* [editor -> its policy: purpose, preedit, assist]
  Words,      \* the texts that others leave before the caret
  Capacity,   \* of the input queue
  MaxCalls,   \* bound: requests, edits of others and saved configurations
  MaxStarts,  \* bound: editors entered and left, and views hidden
  MaxReports  \* bound: reports of the editor on their way; more are merged

ASSUME TouchHostAssumption ==
  /\ Profile = "Touch"
  /\ Capacity \in Nat \ {0} /\ MaxReports \in Nat \ {0}
  /\ MaxCalls \in Nat /\ MaxStarts \in Nat

VARIABLES
  session, \* the native session, once there is one
  svc,     \* the service's own fields
  host,    \* the editor in focus: its composition, selection, text and reports
  loader,  \* runtimes being built: tickets, their queue and the finished ones
  disk,    \* the newest configuration on disk
  stack    \* the callbacks in progress

vars == <<session, svc, host, loader, disk, stack>>
s == The(session)

Password == [purpose |-> "Password", preedit |-> FALSE, assist |-> FALSE]

\* onCreate has asked for the first runtime.  A queued request remembers the epoch it was
\* made in only for the properties.  "missed" is history: an edit of others was reported and
\* taken for an own one, or for none, and no later call has withdrawn the prediction.
Init ==
  /\ session = {} /\ disk = 1 /\ stack = <<>>
  /\ svc = [active |-> FALSE, visible |-> FALSE, epoch |-> 0, conn |-> {}, owns |-> FALSE,
            selected |-> FALSE, policy |-> Password, queue |-> <<>>, generation |-> 0,
            draining |-> FALSE, runtime |-> {}, pinyin |-> "Off"]
  /\ host = [focus |-> {}, composing |-> FALSE, selected |-> FALSE, text |-> <<>>,
             reports |-> <<>>, missed |-> FALSE, calls |-> 0, starts |-> 0]
  /\ loader = [ticket |-> 1, jobs |-> <<1>>, built |-> <<>>, saved |-> FALSE,
                failed |-> FALSE]

-----------------------------------------------------------------------------
(* The native protocol, and what the service says of its editor. *)

HostContext(v) ==
  LET text == v.policy.purpose = "Text"
  IN [assist |-> text /\ v.policy.assist, editor |-> v.epoch, epoch |-> v.epoch,
      preedit |-> text /\ v.policy.preedit, insert |-> TRUE, owns |-> FALSE,
      purpose |-> v.policy.purpose]

CreateSession(r, context) == {NewSession(r, context)}
Context(context) == {InvalidateContext(x, context, TRUE) : x \in session}

\* A text that cannot be read is {}; an older editor's is ignored.
PredictionContext(x, epoch, text, invalidate) ==
  LET cleared == IF invalidate THEN ClearPrediction(x) ELSE x
  IN IF x.context.editor # epoch THEN x
     ELSE IF text = {} THEN cleared ELSE ObservePrefix(cleared, The(text))


InvalidatePrediction == {PredictionContext(x, svc.epoch, {}, TRUE) : x \in session}

\* A call that makes no plan is an exception to the caller.
Staged(x) == x.pending # {} /\ x.generation > s.generation

\* InputQueue.invalidate and EditorAdapter.abandon.
Invalidated(v) == [v EXCEPT !.generation = @ + 1, !.queue = <<>>]
Abandoned(v) == [v EXCEPT !.owns = FALSE]
NextEpoch(v) == [v EXCEPT !.epoch = @ + 1]

\* attachEditor: the service's fields after it, and the session.
Attaches(v) == v.runtime # {} /\ v.active

\* Mutant of Attached: the preedit stays owned when the session is attached again.
AttachedOwning(v) == [v EXCEPT !.pinyin = "Off"]

Attached(v) ==
  LET off == [v EXCEPT !.pinyin = "Off"]
  IN IF Attaches(v) THEN Abandoned(off) ELSE off

\* Mutant of AttachedSession: the session keeps the context it has.
AttachedSessionOnce(v) ==
  IF Attaches(v) /\ session = {} THEN CreateSession(The(v.runtime), HostContext(v)) ELSE session

AttachedSession(v) ==
  IF ~Attaches(v) THEN session
  ELSE IF session = {} THEN CreateSession(The(v.runtime), HostContext(v))
  ELSE Context(HostContext(v))

\* The editor's operations are not trusted any more: it is attached again.
Reattach(v) == svc' = Attached(v) /\ session' = AttachedSession(v)
Broken == Reattach(NextEpoch(Invalidated(Abandoned(svc))))

-----------------------------------------------------------------------------
(* Frames. *)

Frame(instructions) ==
  [todo |-> instructions, epoch |-> svc.epoch, conn |-> svc.conn,
   done |-> FALSE, ok |-> TRUE]
Top == Head(stack)
Now == Head(Top.todo)
Running(name) == stack # <<>> /\ Now.do = name
RunningAt(name, at) == Running(name) /\ Now.at = at
Rest == Tail(Top.todo)

\* The frame goes on, and returns when nothing is left of it.
GoesOn(frame) ==
  stack' = IF frame.todo = <<>> THEN Tail(stack) ELSE <<frame>> \o Tail(stack)
Continue(instructions) == GoesOn([Top EXCEPT !.todo = instructions])
Return == stack' = Tail(stack)

\* The same editor in the same epoch, since the frame began.
Same == svc.active /\ Top.epoch = svc.epoch /\ Top.conn = svc.conn
Current(i) ==
  /\ Same
  /\ IF i.token = {} THEN svc.visible
     ELSE \A x \in session : IsCurrent(x, The(i.token))

\* The editor has the thread, and may call back.
HostHas(i) == i.do \in {"Edit", "Direct"} /\ i.at \in {"begin", "ret", "end"}
WritingHost == \E f \in DOMAIN stack : HostHas(Head(stack[f].todo)) /\ Head(stack[f].todo).do = "Edit"

Edit(steps, token) == [do |-> "Edit", at |-> "begin", steps |-> steps, token |-> token, res |-> FALSE]
Settles(token, outcome) == [do |-> "Settle", token |-> token, outcome |-> outcome]

Steps(op) ==
  CASE op.kind = "Update" -> <<[kind |-> "compose", text |-> <<>>]>>
    [] op.kind = "Commit" -> <<[kind |-> "commit", text |-> op.text]>>
    [] op.kind = "CommitThenUpdate" ->
         <<[kind |-> "commit", text |-> op.text], [kind |-> "compose", text |-> <<>>]>>
    [] op.kind = "End" /\ op.delete ->
         <<[kind |-> "release", text |-> <<>>], [kind |-> "finish", text |-> <<>>]>>
    [] OTHER -> <<[kind |-> "finish", text |-> <<>>]>>

\* What applyPlan does of the plan of a session: a plan that writes nothing, or one of a
\* preedit that is not owned, does not reach the editor.
Executes(x) ==
  LET p == The(x.pending)
  IN IF p.op.kind = "NoOp" THEN Settles(p.token, "Applied")
     ELSE IF p.owned /\ ~svc.owns THEN Settles(p.token, "StaleContext")
     ELSE Edit(Steps(p.op), {p.token})

-----------------------------------------------------------------------------
(* The editor.  What it changed is reported later, or at once by a callback. *)

Reported(h, own) ==
  LET report == [own |-> own, selected |-> h.selected, composing |-> h.composing]
      n == Len(h.reports)
  IN [h EXCEPT !.reports =
        IF n < MaxReports THEN Append(@, report)
        ELSE [@ EXCEPT ![n] = [report EXCEPT !.own = own /\ h.reports[n].own]]]

Written(h, step) ==
  CASE step.kind = "compose" -> [h EXCEPT !.composing = TRUE, !.selected = FALSE]
    [] step.kind \in {"commit", "release"} ->
         [h EXCEPT !.composing = FALSE, !.selected = FALSE, !.text = LastOf(@ \o step.text)]
    [] step.kind = "select" -> [h EXCEPT !.selected = TRUE]
    [] step.kind = "clear" -> [h EXCEPT !.selected = FALSE, !.text = <<>>]
    [] OTHER -> [h EXCEPT !.composing = FALSE]

\* An operation that answers no, or throws, may have been done or not.
Effects(step, own, res) ==
  {Reported(Written(host, step), own)} \cup IF res THEN {} ELSE {host}

-----------------------------------------------------------------------------
(* EditorAdapter.execute and EditorShortcuts, one operation after the other. *)

Phase(at) == [Now EXCEPT !.at = at]

Begin ==
  /\ RunningAt("Edit", "begin")
  /\ Continue(<<Phase("step")>> \o Rest)
  /\ UNCHANGED <<session, svc, host, loader, disk>>

MayWrite(i) == Current(i)

DoStep ==
  /\ RunningAt("Edit", "step") /\ UNCHANGED <<session, svc, loader, disk>>
  /\ IF Now.steps = <<>> \/ ~MayWrite(Now)
     THEN /\ Continue(<<[Phase("end") EXCEPT !.res = (Now.steps = <<>>)]>> \o Rest)
          /\ UNCHANGED host
     ELSE \E res \in BOOLEAN :
            /\ host' \in Effects(Head(Now.steps), Now.token # {}, res)
            /\ Continue(<<[Phase("ret") EXCEPT !.res = res]>> \o Rest)

OwnsAfterStep(kind, owns) ==
  CASE kind = "compose" -> TRUE
    [] kind \in {"commit", "release", "finish"} -> FALSE
    [] OTHER -> owns

StepReturns ==
  /\ RunningAt("Edit", "ret") /\ UNCHANGED <<session, host, loader, disk>>
  /\ LET good == Now.res /\ Current(Now)
         next == IF good THEN [Phase("step") EXCEPT !.steps = Tail(@)]
                 ELSE [Phase("end") EXCEPT !.res = FALSE]
     IN /\ svc' = IF good /\ Now.token # {}
                  THEN [svc EXCEPT !.owns = OwnsAfterStep(Head(Now.steps).kind, @)] ELSE svc
        /\ GoesOn([Top EXCEPT !.done = @ \/ Now.res, !.todo = <<next>> \o Rest])

\* endBatchEdit, or any operation before it, may throw.
OutcomesOf(i) ==
  {"OutcomeUnknown", IF i.res THEN "Applied" ELSE IF Top.done THEN "PartiallyApplied" ELSE "OutcomeUnknown"}

Released(v, outcome) == IF outcome = "Applied" THEN v ELSE Abandoned(v)

EndPlan ==
  /\ RunningAt("Edit", "end") /\ Now.token # {}
  /\ \E outcome \in OutcomesOf(Now) :
       IF Current(Now)
       THEN /\ svc' = Released(svc, outcome)
            /\ GoesOn([Top EXCEPT !.todo = <<Settles(The(Now.token), outcome)>> \o Rest])
       ELSE /\ svc' = Abandoned(svc)
            /\ GoesOn([Top EXCEPT !.todo = Rest, !.ok = FALSE])
  /\ UNCHANGED <<session, host, loader, disk>>

\* The acknowledgement, and the plan that follows it.
AcknowledgesPlan ==
  /\ Running("Settle")
  /\ LET next == Acknowledge(s, Now.token, Now.outcome, svc.owns)
         released == Released(svc, Now.outcome)
     IN /\ session' = {next} /\ svc' = released
        /\ GoesOn([Top EXCEPT !.done = FALSE,
                     !.ok = Staged(next) \/ Now.outcome = "Applied",
                     !.todo = (IF Staged(next) THEN <<Executes(next)>> ELSE <<>>) \o Rest])
  /\ UNCHANGED <<host, loader, disk>>

\* ClearEditor and PasteClipboard: the editor is attached again whatever came of it, unless
\* it has changed meanwhile; an exception always does so.
EndShortcut ==
  /\ RunningAt("Edit", "end") /\ Now.token = {}
  /\ IF Current(Now) THEN Broken ELSE Broken \/ UNCHANGED <<session, svc>>
  /\ Return /\ UNCHANGED <<host, loader, disk>>

-----------------------------------------------------------------------------
(* dispatch, the queue, and dispatchSerial. *)

Keys(request) == request.op \notin {"ClearEditor", "PasteClipboard"}
Serial(request) == [do |-> "Serial", request |-> request]

\* The queue's loop runs one request after the other; of an older generation none.
Drain ==
  /\ Running("Drain") /\ UNCHANGED <<session, host, loader, disk>>
  /\ IF svc.queue = <<>>
     THEN svc' = [svc EXCEPT !.draining = FALSE] /\ Return
     ELSE LET next == Head(svc.queue)
          IN /\ svc' = [svc EXCEPT !.queue = Tail(@)]
             /\ stack' = IF next.generation = svc.generation
                         THEN <<Frame(<<Serial(next.request)>>)>> \o stack ELSE stack

\* syncPredictionPrefix; the text may be unreadable.
Private(v) == v.policy.purpose # "Text" \/ ~v.policy.assist
Synced(x) ==
  IF ~Prediction(x).enabled \/ svc.owns THEN {x}
  ELSE IF Private(svc) \/ svc.selected THEN {PredictionContext(x, svc.epoch, {}, TRUE)}
  ELSE {PredictionContext(x, svc.epoch, text, FALSE) : text \in {{}, {LastOf(host.text)}}}

\* A request begins with what was left to be cleaned up.
Begins ==
  /\ Running("Serial") /\ UNCHANGED <<svc, host, loader, disk>>
  /\ IF session = {} \/ svc.conn = {} \/ ~svc.active \/ ~svc.visible
     THEN Return /\ UNCHANGED session
     ELSE \E x \in Synced(s) :
            LET next == Recover(x)
                go == [do |-> "Go", request |-> Now.request]
            IN /\ session' = {next}
               /\ Continue(IF Staged(next) THEN <<Executes(next), go>> ELSE <<go>>)

\* The editor's own operations: an owned preedit, or a spelling, refuses the pasting.
Shortcut(request) ==
  IF request.op = "PasteClipboard"
  THEN <<[kind |-> "commit", text |-> request.text]>>
  ELSE <<[kind |-> "finish", text |-> <<>>], [kind |-> "select", text |-> <<>>],
         [kind |-> "clear", text |-> <<>>]>>
Composes == svc.owns \/ s.view.spelling # <<>>

PasteWaits(request) == request.op = "PasteClipboard" /\ Composes

NextMode(mode) == CASE mode = "Off" -> "Once" [] mode = "Once" -> "Locked" [] OTHER -> "Off"
Action(request) ==
  IF request.op # "CyclePinyin" THEN request
  ELSE IF NextMode(svc.pinyin) = "Off" THEN Act("EndTemporary")
  ELSE ModeAct("BeginTemporary", "Pinyin")

\* Nothing is done of a request when the cleanup before it failed.
GoesShortcut ==
  /\ Running("Go") /\ ~Keys(Now.request)
  /\ UNCHANGED <<svc, host, loader, disk>>
  /\ IF ~Top.ok \/ PasteWaits(Now.request) THEN Return /\ UNCHANGED session
     ELSE /\ session' = InvalidatePrediction
          /\ Continue(<<Edit(Shortcut(Now.request), {})>>)

\* A refused action is an exception: nothing of the service changes.
GoesKey ==
  /\ Running("Go") /\ Keys(Now.request)
  /\ UNCHANGED <<host, loader, disk>>
  /\ LET cycling == Now.request.op = "CyclePinyin"
         action == Action(Now.request)
         next == Prepare(s, action)
         latch == [do |-> "Latch", action |-> action,
                   mode |-> IF cycling THEN NextMode(svc.pinyin) ELSE svc.pinyin]
         passed == [do |-> "Direct", at |-> "call", action |-> action]
     IN IF ~Top.ok THEN Return /\ UNCHANGED <<session, svc>>
        ELSE IF cycling /\ NextMode(svc.pinyin) = "Locked"
        THEN svc' = [svc EXCEPT !.pinyin = "Locked"] /\ Return /\ UNCHANGED session
        ELSE /\ session' = {next} /\ UNCHANGED svc
             /\ IF ~Staged(next) THEN Return
                ELSE Continue(<<Executes(next)>>
                              \o (IF The(next.pending).consumed THEN <<>> ELSE <<passed>>)
                              \o <<latch>>)

\* An unhandled space, enter or backspace is done by the editor itself.
Direct ==
  /\ RunningAt("Direct", "call") /\ UNCHANGED <<session, svc, loader, disk>>
  /\ IF ~Top.ok \/ ~Same \/ Now.action.op \notin {"Space", "Enter", "Backspace"}
     THEN Continue(Rest) /\ UNCHANGED host
     ELSE /\ \E w \in Words : host' = Reported([Written(host, [kind |-> "commit", text |-> <<>>])
                                                  EXCEPT !.text = w], FALSE)
          /\ Continue(<<Phase("ret")>> \o Rest)
DirectReturns ==
  /\ RunningAt("Direct", "ret") /\ UNCHANGED <<host, loader, disk>>
  /\ \/ Continue(Rest) /\ UNCHANGED <<session, svc>>
     \/ Return /\ Broken

\* The pinyin latch: once is used up by what was committed, and a locked one begins the
\* next round, as its own plan.
Latch ==
  /\ Running("Latch") /\ UNCHANGED <<host, loader, disk>>
  /\ LET applied == Top.ok /\ Same
         mode == IF Now.action.op = "SetBaseMode" THEN "Off" ELSE Now.mode
         again == Prepare(s, ModeAct("BeginTemporary", "Pinyin"))
         resumes == mode = "Locked" /\ Tables[R(s).tables].pinyin.present
         becomes(m) == svc' = [svc EXCEPT !.pinyin = m]
     IN IF ~applied THEN becomes("Off") /\ Return /\ UNCHANGED session
        ELSE IF TemporaryMode(s.engine) = "Pinyin"
        THEN becomes(mode) /\ Return /\ UNCHANGED session
        ELSE IF ~resumes THEN becomes("Off") /\ Return /\ UNCHANGED session
        ELSE /\ becomes(mode) /\ session' = {again}
             /\ IF Staged(again)
                THEN Continue(<<Executes(again), [do |-> "Resumed"]>>) ELSE Return
LatchResumed ==
  /\ Running("Resumed") /\ Return /\ UNCHANGED <<session, host, loader, disk>>
  /\ svc' = IF Top.ok THEN svc ELSE [svc EXCEPT !.pinyin = "Off"]

Runs ==
  \/ Begin \/ DoStep \/ StepReturns \/ EndPlan \/ EndShortcut \/ AcknowledgesPlan
  \/ Drain \/ Begins \/ GoesShortcut \/ GoesKey
  \/ Direct \/ DirectReturns \/ Latch \/ LatchResumed

-----------------------------------------------------------------------------
(* The callbacks of the system, and the edits of others. *)

MayEnter == stack # <<>> => HostHas(Now)
Called == host.calls < MaxCalls
Started == host.starts < MaxStarts

\* onStartInput; the same editor again, as it is, changes nothing.  The system may have no
\* connection to give.
StartInput(e) ==
  /\ MayEnter /\ Started
  /\ host' = [host EXCEPT !.focus = {e}, !.composing = FALSE, !.selected = FALSE,
                          !.reports = <<>>, !.missed = FALSE, !.starts = @ + 1]
  /\ \E conn \in {{}, {e}} :
       LET v == NextEpoch([Invalidated(svc) EXCEPT !.conn = conn, !.policy = Editors[e],
                             !.selected = FALSE, !.active = TRUE])
       IN Reattach(v)
  /\ UNCHANGED <<loader, disk, stack>>

FinishInput ==
  /\ MayEnter /\ Started /\ svc.active
  /\ host' = [host EXCEPT !.focus = {}, !.composing = FALSE, !.reports = <<>>,
                          !.missed = FALSE, !.starts = @ + 1]
  /\ LET v == NextEpoch([Abandoned(Invalidated(svc)) EXCEPT !.conn = {}, !.active = FALSE,
                           !.pinyin = "Off"])
     IN svc' = v /\ session' = Context(HostContext(v))
  /\ UNCHANGED <<loader, disk, stack>>

ShowView ==
  /\ MayEnter /\ ~svc.visible /\ svc' = [svc EXCEPT !.visible = TRUE]
  /\ UNCHANGED <<session, host, loader, disk, stack>>
HideView ==
  /\ MayEnter /\ Started /\ svc.visible /\ svc' = [svc EXCEPT !.visible = FALSE]
  /\ host' = [host EXCEPT !.missed = FALSE, !.starts = @ + 1]
  /\ session' = InvalidatePrediction /\ UNCHANGED <<loader, disk, stack>>

\* onUpdateSelection.  Positions are left open: while an own edit is written every report is
\* taken for its own, at other times one with the caret at an end the service remembers; and
\* one that is not withdraws the prediction only if the selection moved.  A selection that
\* is new has moved.
Discards(report) == svc.owns /\ (~report.composing \/ report.selected)
MayPass(report) == (report.selected => svc.selected) \/ WritingHost
UpdateSelection ==
  /\ MayEnter /\ host.reports # <<>>
  /\ LET report == Head(host.reports)
         seen == [svc EXCEPT !.selected = report.selected]
         taken == [host EXCEPT !.reports = Tail(@)]
     IN \/ ~svc.active /\ svc' = seen /\ host' = taken /\ UNCHANGED session
        \/ /\ svc.active /\ Discards(report)
           /\ host' = [taken EXCEPT !.composing = FALSE, !.missed = FALSE]
           /\ Reattach(NextEpoch(Abandoned(Invalidated(seen))))
        \/ /\ svc.active /\ ~Discards(report) /\ MayPass(report)
           /\ host' = [taken EXCEPT !.missed = @ \/ ~(report.own \/ WritingHost)]
           /\ svc' = seen /\ UNCHANGED session
        \/ /\ svc.active /\ ~Discards(report) /\ ~WritingHost
           /\ host' = [taken EXCEPT !.missed = FALSE]
           /\ svc' = seen /\ session' = InvalidatePrediction
  /\ UNCHANGED <<loader, disk, stack>>

\* The user moves the caret, selects or edits beside the keyboard, while nothing is written.
OthersEdit(text, selected, composing) ==
  /\ stack = <<>> /\ Called /\ host.focus # {}
  /\ composing => host.composing
  /\ host' = Reported([host EXCEPT !.text = text, !.selected = selected, !.composing = composing,
                                   !.calls = @ + 1], FALSE)
  /\ UNCHANGED <<session, svc, loader, disk, stack>>

\* dispatch, which submits to the queue.  "epoch" only serves the properties.
DispatchRequest(request) ==
  /\ MayEnter /\ Called /\ svc.active /\ svc.visible
  /\ host' = [host EXCEPT !.calls = @ + 1]
  /\ IF Len(svc.queue) >= Capacity THEN UNCHANGED <<svc, stack>>
     ELSE /\ svc' = [svc EXCEPT !.draining = TRUE,
                       !.queue = Append(@, [generation |-> svc.generation, request |-> request,
                                            epoch |-> svc.epoch])]
          /\ stack' = IF svc.draining THEN stack ELSE <<Frame(<<[do |-> "Drain"]>>)>> \o stack
  /\ UNCHANGED <<session, loader, disk>>

-----------------------------------------------------------------------------
(* Runtimes.  What the other threads do between two callbacks stands for what they do at  *)
(* any time: the callbacks look at none of it before Load.                                *)

\* The configuration is saved, and then the service is told of it.
SavesConfig ==
  /\ stack = <<>> /\ Called /\ disk + 1 \in DOMAIN Runtimes /\ disk' = disk + 1
  /\ host' = [host EXCEPT !.calls = @ + 1]
  /\ loader' = [loader EXCEPT !.saved = TRUE] /\ UNCHANGED <<session, svc, stack>>

\* Mutant of LoadRuntime: a request is dropped while another is being served.
LoadRuntimeOnce ==
  /\ stack = <<>> /\ loader.saved
  /\ loader' = IF loader.jobs = <<>> /\ loader.built = <<>>
               THEN [loader EXCEPT !.ticket = @ + 1, !.jobs = <<loader.ticket + 1>>, !.saved = FALSE]
               ELSE [loader EXCEPT !.saved = FALSE]
  /\ UNCHANGED <<session, svc, host, disk, stack>>

\* loadRuntime
LoadRuntime ==
  /\ stack = <<>> /\ loader.saved
  /\ loader' = [loader EXCEPT !.ticket = @ + 1, !.jobs = Append(@, loader.ticket + 1), !.saved = FALSE]
  /\ UNCHANGED <<session, svc, host, disk, stack>>

\* The background thread reads the files as they are by then; a build may fail.  The callbacks
\* look at nothing of it before Load, and saving waits for none of them, so building
\* commutes with them and is done between them.
Build ==
  /\ stack = <<>> /\ loader.jobs # <<>>
  /\ \E made \in {{disk}, {}} :
       loader' = [loader EXCEPT !.jobs = Tail(@), !.failed = (made = {}),
                    !.built = Append(@, [ticket |-> Head(loader.jobs), made |-> made])]
  /\ UNCHANGED <<session, svc, host, disk, stack>>

Accepts(ticket) == ticket = loader.ticket

\* An active session is given the runtime and its plan is executed; any other is made anew.
Load ==
  /\ stack = <<>> /\ loader.built # <<>>
  /\ loader' = [loader EXCEPT !.built = Tail(@)] /\ UNCHANGED <<host, disk>>
  /\ LET result == Head(loader.built)
         v == [svc EXCEPT !.runtime = result.made, !.pinyin = "Off"]
         next == ApplyRuntime(s, The(result.made))
     IN IF result.made = {} \/ ~Accepts(result.ticket) THEN UNCHANGED <<session, svc, stack>>
        ELSE IF session = {} \/ ~svc.active
        THEN /\ svc' = Attached(v) /\ UNCHANGED stack
             /\ session' = IF Attaches(v) THEN CreateSession(The(v.runtime), HostContext(v)) ELSE {}
        ELSE /\ svc' = v /\ session' = {next}
             /\ stack' = IF Staged(next) /\ svc.conn # {}
                         THEN <<Frame(<<Executes(next)>>)>> ELSE stack

Next ==
  \/ Runs \/ FinishInput \/ ShowView \/ HideView \/ UpdateSelection
  \/ \E e \in DOMAIN Editors : StartInput(e)
  \/ \E text \in Words, selected, composing \in BOOLEAN : OthersEdit(text, selected, composing)
  \/ \E request \in Requests : DispatchRequest(request)
  \/ SavesConfig \/ LoadRuntime \/ Build \/ Load

Spec == Init /\ [][Next]_vars

-----------------------------------------------------------------------------
\* Type invariant.
TypeOK ==
  /\ Cardinality(session) <= 1 /\ Cardinality(svc.conn) <= 1 /\ svc.runtime \subseteq 1..disk
  /\ svc.owns \in BOOLEAN /\ svc.pinyin \in {"Off", "Once", "Locked"}
  /\ \A i \in DOMAIN svc.queue : svc.queue[i].generation \in 0..svc.generation
  /\ \A f \in DOMAIN stack : stack[f] # <<>>

Idle == stack = <<>>

\* An editor may be entered without a connection to it.  The service then writes nothing, and
\* refuses every request.
Unconnected == svc.active /\ svc.conn = {}

\* Whatever becomes of an edit, and whatever calls came between its steps, the session is
\* not left waiting for an acknowledgement that never comes: it would refuse every key.
\* Excepted is an editor without a connection, where the plan of a reload has nobody to
\* execute it (PlansAreAnswered); once there is a connection again it is withdrawn.
NoPlanIsLeft == Idle /\ ~Unconnected => \A x \in session : x.pending = {}

\* "A caller serializes access, releases its lock for host calls, then acknowledges"
\* (session.rs:172): not so of a plan that applyPlan does not begin.
PlansAreAnswered == Idle => \A x \in session : x.pending = {}

\* The service never takes a preedit for its own that its session gave up with an older
\* editor, runtime or edit.
OwnershipIsShared == Idle /\ svc.owns => \A x \in session : x.context.owns

\* Once the editor's reports have arrived, an owned preedit is the editor's composition, so
\* the next write replaces no text of others; and after an uncertain write nothing is left
\* to be deleted later, when the caret may be elsewhere.
OwnedIsComposed ==
  /\ Idle /\ host.reports = <<>> /\ svc.owns => host.composing
  /\ \A x \in session : x.cleanup = {}

\* A queued request that still counts was made for the editor it will be written to.
QueuedIsForEditor ==
  \A i \in DOMAIN svc.queue :
    svc.queue[i].generation = svc.generation => svc.queue[i].epoch = svc.epoch

\* What the service owns, may still delete or has queued is of the editor it will write to.
EditorsAreKeptApart == TypeOK /\ OwnershipIsShared /\ OwnedIsComposed /\ QueuedIsForEditor

\* The pinyin key shows a latch only over a session that is in the pinyin round.
LatchAgrees ==
  Idle /\ svc.pinyin # "Off" => \A x \in session : TemporaryMode(x.engine) = "Pinyin"

\* Between callbacks the service and its session agree on what goes on.
IdleAgrees == NoPlanIsLeft /\ LatchAgrees


EditsAreNoticed ==
  Idle /\ host.reports = <<>> =>
    \A x \in session : x.prediction # {} => x.prefix.text = LastOf(host.text)

\* With nothing left to load, the newest configuration is in use if it could be built,
\* whatever became of the edit that ended the old one's round.  Without a connection it may
\* be deferred behind the plan of an older one, which the next editor withdraws.
NewestIsUsed ==
  /\ Idle /\ ~loader.saved /\ loader.jobs = <<>> /\ loader.built = <<>> /\ ~loader.failed
  => /\ svc.runtime = {disk}
     /\ \A x \in session :
          x.revision = disk \/ (Unconnected /\ x.pending # {} /\ x.deferred = {disk})
=============================================================================
