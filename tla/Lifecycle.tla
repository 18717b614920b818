------------------------------ MODULE Lifecycle ------------------------------
(***************************************************************************)
(* windows/im_engine: one text service object from its factory to its last *)
(* Deactivate (lifecycle.rs, the activation half of text_service.rs).      *)
(*                                                                         *)
(* ActivateEx registers sinks one after the other and Deactivate removes   *)
(* them, on one thread, but no lock is held over a call into TSF and TSF   *)
(* may call back meanwhile: Deactivate during an activation, ActivateEx    *)
(* during a removal.  The calls in progress are a stack; the head runs.    *)
(***************************************************************************)
EXTENDS Naturals, Sequences, SequencesExt

CONSTANTS
  MaxActivations, \* bound: calls of ActivateEx
  MaxDeactivations,
  MaxDepth        \* bound: calls inside one another

ASSUME LifecycleAssumption ==
  MaxActivations \in Nat /\ MaxDeactivations \in Nat /\ MaxDepth \in Nat \ {0}

VARIABLES
  life,    \* the lifecycle's own state, under its lock
  held,    \* what the host has registered
  refused, \* what the host refused to remove and nobody will ask again
  dispatch,\* the message window of the candidate clicks exists
  sink,    \* the language bar's update sink is advised
  calls,   \* the numbers of ActivateEx and Deactivate calls
  stack    \* the calls in progress, the running one first

vars == <<life, held, refused, dispatch, sink, calls, stack>>

Kinds ==
  {"KeyEvent", "SourceKey", "ThreadEvent", "LanguageBar", "Compartment", "PreservedKey",
   "ThreadFocus", "TextEdit"}
Phases == {"Idle", "Activating", "Active", "Cleaning", "Pending"}

RetryOnFailure(r) == r.kind \in {"Compartment", "LanguageBar"}
Priority(r) ==
  CASE r.kind = "Compartment" -> 0 [] r.kind = "LanguageBar" -> 1 [] OTHER -> 2

\* The language bar holds one item of an object; every other registration has a cookie.
Registration(kind, n) == [kind |-> kind, cookie |-> IF kind = "LanguageBar" THEN 0 ELSE n]
Has(kind) == \E i \in DOMAIN life.records : life.records[i].kind = kind

Top == Head(stack)
Goes(frame) == stack' = <<frame>> \o Tail(stack)
Returns == stack' = Tail(stack)

Activation(n) ==
  [call |-> "ActivateEx", tid |-> n, at |-> "KeyEvent", got |-> <<>>, kmgr |-> FALSE]
Deactivation == [call |-> "Deactivate", at |-> "Leave"]
Cleaning(records) == [call |-> "Clean", todo |-> records, retained |-> <<>>]

\* The factory has stored the object's reference to itself.
Init ==
  /\ life = [phase |-> "Idle", cancel |-> FALSE, owner |-> TRUE, tid |-> 0, records |-> <<>>]
  /\ held = {} /\ refused = {} /\ dispatch = FALSE /\ sink = FALSE
  /\ calls = [activate |-> 0, deactivate |-> 0] /\ stack = <<>>

\* The interface asked of the factory is not there: the object gives up its reference.
ReleaseUnactivated ==
  /\ stack = <<>> /\ life.phase = "Idle" /\ calls.activate = 0 /\ calls.deactivate = 0
  /\ life' = [life EXCEPT !.owner = FALSE]
  /\ UNCHANGED <<held, refused, dispatch, sink, calls, stack>>

-----------------------------------------------------------------------------
(* ActivateEx. *)

\* A call is out to the host, which may call back: every registration and removal, the
\* end of a composition and the release of the last reference.
IsOut(frame) ==
  \/ frame.call = "ActivateEx" /\ frame.at \notin {"Finish", "Cancelled"}
  \/ frame.call = "Clean" /\ frame.todo # <<>>
  \/ frame.call = "Deactivate" /\ frame.at \in {"Leave", "Left"}
MayEnter == stack # <<>> => IsOut(Top) /\ Len(stack) < MaxDepth

\* begin: refused while anything of an earlier activation is left.
ActivateEx ==
  /\ MayEnter /\ calls.activate < MaxActivations
  /\ calls' = [calls EXCEPT !.activate = @ + 1]
  /\ IF life.phase = "Idle"
     THEN /\ life' = [life EXCEPT !.owner = TRUE, !.tid = calls.activate + 1,
                                  !.phase = "Activating", !.cancel = FALSE]
          /\ \E created \in BOOLEAN : dispatch' = created
          /\ stack' = <<Activation(calls.activate + 1)>> \o stack
     ELSE life' = [life EXCEPT !.owner = TRUE] /\ UNCHANGED <<dispatch, stack>>
  /\ UNCHANGED <<held, refused, sink>>

Activating(at) == stack # <<>> /\ Top.call = "ActivateEx" /\ Top.at = at

\* The order of the registrations; the fallback is tried after a failure only, and the
\* preserved key needs the keystroke manager.
After(frame, got) ==
  CASE frame.at = "KeyEvent" -> IF got THEN "ThreadEvent" ELSE "SourceKey"
    [] frame.at = "SourceKey" -> "ThreadEvent"
    [] frame.at = "ThreadEvent" -> IF Has("LanguageBar") THEN "Compartment" ELSE "LanguageBar"
    [] frame.at = "LanguageBar" -> "Compartment"
    [] frame.at = "Compartment" -> IF frame.kmgr THEN "PreservedKey" ELSE "ThreadFocus"
    [] frame.at = "PreservedKey" -> "ThreadFocus"
    [] frame.at = "ThreadFocus" -> "TextEdit"
    [] OTHER -> "Finish"

\* The host registers the sink; a language bar also asks for the item's updates, even
\* when it refuses the item afterwards.
Advise(kind) ==
  /\ Activating(kind) /\ Top.got = <<>>
  /\ LET r == Registration(kind, Top.tid)
     IN held' = held \cup {r} /\ Goes([Top EXCEPT !.got = <<r>>])
  /\ sink' = (sink \/ kind = "LanguageBar")
  /\ UNCHANGED <<life, refused, dispatch, calls>>
AdviseFails(kind) ==
  /\ Activating(kind) /\ Top.got = <<>>
  /\ Goes([Top EXCEPT !.at = After(Top, FALSE)])
  /\ \E asked \in BOOLEAN : sink' = (sink \/ (asked /\ kind = "LanguageBar"))
  /\ UNCHANGED <<life, held, refused, dispatch, calls>>

\* The host has returned: what it registered is recorded, whatever happened meanwhile.
Record ==
  /\ stack # <<>> /\ Top.call = "ActivateEx" /\ Top.got # <<>>
  /\ life' = [life EXCEPT !.records = @ \o Top.got]
  /\ Goes([Top EXCEPT !.at = After(Top, TRUE), !.got = <<>>,
                      !.kmgr = @ \/ Top.at = "KeyEvent"])
  /\ UNCHANGED <<held, refused, dispatch, sink, calls>>

\* finish_activation: a deactivation that came meanwhile is carried out now.
Finish ==
  /\ Activating("Finish")
  /\ IF life.cancel
     THEN /\ life' = [life EXCEPT !.phase = "Cleaning"]
          /\ stack' = <<Cleaning(life.records), [Top EXCEPT !.at = "Cancelled"]>>
                        \o Tail(stack)
     ELSE life' = [life EXCEPT !.phase = "Active"] /\ Returns
  /\ UNCHANGED <<held, refused, dispatch, sink, calls>>

\* Mutant of SinkIsGivenUp: it is kept.
SinkStays == UNCHANGED sink

\* The update sink is given up unless the language bar still has the item.
SinkIsGivenUp == sink' = (sink /\ Has("LanguageBar"))

Cancelled ==
  /\ Activating("Cancelled") /\ SinkIsGivenUp /\ Returns
  /\ UNCHANGED <<life, held, refused, dispatch, calls>>

-----------------------------------------------------------------------------
(* Deactivate. *)

Deactivate ==
  /\ MayEnter /\ calls.activate > 0 /\ calls.deactivate < MaxDeactivations
  /\ calls' = [calls EXCEPT !.deactivate = @ + 1]
  /\ stack' = <<Deactivation>> \o stack
  /\ UNCHANGED <<life, held, refused, dispatch, sink>>

\* An activation in progress is told to undo itself, a removal in progress goes on alone.
Defers(l) == l.phase = "Activating"
Cleans(l) == l.phase = "Cleaning"

\* The session has left its editor and the windows are gone; then the registrations.
Leave ==
  /\ stack # <<>> /\ Top.call = "Deactivate" /\ Top.at = "Leave"
  /\ dispatch' = FALSE
  /\ LET left == <<[Top EXCEPT !.at = "Left"]>> \o Tail(stack)
     IN CASE Defers(life) -> life' = [life EXCEPT !.cancel = TRUE] /\ stack' = left
          [] ~Defers(life) /\ Cleans(life) -> life' = life /\ stack' = left
          [] OTHER -> /\ life' = [life EXCEPT !.phase = "Cleaning"]
                      /\ stack' = <<Cleaning(life.records)>> \o left
  /\ UNCHANGED <<held, refused, sink, calls>>

Left ==
  /\ stack # <<>> /\ Top.call = "Deactivate" /\ Top.at = "Left"
  /\ SinkIsGivenUp /\ Returns
  /\ UNCHANGED <<life, held, refused, dispatch, calls>>

Removing == stack # <<>> /\ Top.call = "Clean" /\ Top.todo # <<>>

\* The records are sorted by priority, those of one priority stay in order.
Before(todo, i, j) ==
  \/ Priority(todo[i]) < Priority(todo[j])
  \/ Priority(todo[i]) = Priority(todo[j]) /\ i <= j
Foremost(todo) ==
  CHOOSE i \in DOMAIN todo : \A j \in DOMAIN todo : Before(todo, i, j)
Next1 == Top.todo[Foremost(Top.todo)]
Others == RemoveAt(Top.todo, Foremost(Top.todo))

RemoveDone ==
  /\ Removing
  /\ held' = held \ {Next1}
  /\ Goes([Top EXCEPT !.todo = Others])
  /\ UNCHANGED <<life, refused, dispatch, sink, calls>>

\* Mutant of Retained: nothing is tried again.
RetainedNever(r) == <<>>

Retained(r) == IF RetryOnFailure(r) THEN <<r>> ELSE <<>>

\* One failure does not end the removal.
RemoveFails ==
  /\ Removing
  /\ Goes([Top EXCEPT !.todo = Others, !.retained = @ \o Retained(Next1)])
  /\ refused' = refused \cup ({Next1} \ ToSet(Retained(Next1)))
  /\ UNCHANGED <<life, held, dispatch, sink, calls>>

\* Mutant of Kept: the references go whatever is left.
KeptNot(l, retained) ==
  [l EXCEPT !.records = retained, !.phase = IF retained = <<>> THEN "Idle" ELSE "Pending",
            !.tid = 0, !.owner = FALSE]

Kept(l, retained) ==
  IF retained = <<>>
  THEN [l EXCEPT !.records = <<>>, !.phase = "Idle", !.tid = 0, !.owner = FALSE]
  ELSE [l EXCEPT !.records = retained, !.phase = "Pending"]

Removed ==
  /\ stack # <<>> /\ Top.call = "Clean" /\ Top.todo = <<>>
  /\ life' = Kept(life, Top.retained)
  /\ Returns
  /\ UNCHANGED <<held, refused, dispatch, sink, calls>>

Next ==
  \/ ReleaseUnactivated \/ ActivateEx \/ Deactivate
  \/ \E kind \in Kinds : Advise(kind) \/ AdviseFails(kind)
  \/ Record \/ Finish \/ Cancelled
  \/ Leave \/ Left \/ RemoveDone \/ RemoveFails \/ Removed

\* A call that has begun goes on to its end: the thread runs, and the host returns.
Fairness == WF_vars(Next /\ calls' = calls)
Spec == Init /\ [][Next]_vars /\ Fairness

-----------------------------------------------------------------------------
\* Type invariant.
TypeOK ==
  /\ life.phase \in Phases /\ life.cancel \in BOOLEAN /\ life.owner \in BOOLEAN
  /\ life.tid \in 0..MaxActivations
  /\ \A r \in held \cup refused \cup ToSet(life.records) : r.kind \in Kinds
  /\ dispatch \in BOOLEAN /\ sink \in BOOLEAN
  /\ \A i \in DOMAIN stack : stack[i].call \in {"ActivateEx", "Deactivate", "Clean"}

AtRest == stack = <<>>
Recorded == ToSet(life.records)

(***************************************************************************)
(* Between the calls of the host, the records are what the host holds,     *)
(* but for what it once refused to remove: no sink is left registered      *)
(* without a record that removes it, none is recorded that is not          *)
(* registered, and only the best-effort kinds are ever given up            *)
(* (lifecycle.rs; the comment of finish_activation).                       *)
(***************************************************************************)
NothingLeaks ==
  AtRest => /\ held = Recorded \cup refused
            /\ Recorded \cap refused = {}
            /\ \A r \in refused : ~RetryOnFailure(r)

\* A removal in progress asks only for what the host still holds, however the host calls
\* back: nothing is removed twice (the comment of deactivate).
RemovedOnce ==
  \A i, j \in DOMAIN stack :
    stack[i].call = "Clean" =>
      /\ ToSet(stack[i].todo) \subseteq held
      /\ i # j => stack[j].call # "Clean"

\* The two together: registering and removing are balanced.
RegistrationsBalance == TypeOK /\ NothingLeaks /\ RemovedOnce

\* The object keeps its reference, the manager and the client id as long as anything is
\* recorded, and between calls it keeps them no longer, or it would never be freed.
OwnerIsKept ==
  /\ life.records # <<>> => life.owner /\ life.tid # 0
  /\ AtRest /\ life.phase = "Idle" /\ calls.activate > 0 => ~life.owner /\ life.tid = 0

\* What record and finish_activation assert: an activation that still registers is never
\* overtaken by a removal, nor by another activation.
ActivationIsAlone ==
  \A i, j \in DOMAIN stack :
    stack[i].call = "ActivateEx" /\ stack[i].at # "Cancelled" =>
      /\ life.phase = "Activating" /\ life.tid = stack[i].tid
      /\ stack[j].call = "ActivateEx" /\ stack[j].at # "Cancelled" => i = j

\* An activation owns the object from its first registration to its end, and alone.
ActivationOwns == OwnerIsKept /\ ActivationIsAlone

\* Between calls, the click window lives only with an activation, and the bar's update
\* sink does not outlive what was removed.
WindowsGo ==
  AtRest => /\ dispatch => life.phase = "Active"
            /\ sink /\ life.phase # "Active" => Has("LanguageBar")
=============================================================================
