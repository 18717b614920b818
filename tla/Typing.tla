-------------------------------- MODULE Typing --------------------------------
(***************************************************************************)
(* One engine under a keyboard: every action the shells can send, in any   *)
(* order, each dispatched to its end.  Nothing else runs: the session, the *)
(* host and the runtime store are composed in modules of their own.        *)
(***************************************************************************)
EXTENDS InputEngine

CONSTANTS
  Keyboards,   \* [profile -> the actions its keyboard sends, candidate selections aside]
  MaxVersion,  \* bound: rounds of the query revision explored
  MaxSpelling  \* bound: characters in the spelling

ASSUME TypingAssumption ==
  /\ DOMAIN Keyboards \subseteq {"Touch", "Legacy"}
  /\ \A profile \in DOMAIN Keyboards : \A a \in Keyboards[profile] : Suits(a, profile)
  /\ MaxVersion \in Nat /\ MaxSpelling \in Nat

VARIABLE engine

EngineInit ==
  \E t \in DOMAIN Tables, profile \in DOMAIN Keyboards : engine = NewEngine(t, profile, 1)

\* A click names a candidate of the query it was drawn from, current or older.
EngineClicks(e) ==
  {SelectCandidate(<<1, v>>, id) : v \in {e.query[2], e.query[2] - 1}, id \in 0..2}
Actions(e) == Keyboards[e.profile] \cup EngineClicks(e)

Press(a) ==
  /\ engine.query[2] < MaxVersion
  /\ engine' = Dispatch(engine, a).engine
  /\ Len(engine'.spelling) <= MaxSpelling

EngineNext == \E a \in Actions(engine) : Press(a)
EngineSpec == EngineInit /\ [][EngineNext]_engine

-----------------------------------------------------------------------------
\* The engine record is well formed: known mode, spelling of known characters, one page.
EngineTypeOK ==
  /\ engine.mode \in Modes
  /\ engine.base \in {"Main", "English"}
  /\ engine.temporary \in TemporaryModes \cup {"None"}
  /\ engine.state \in {"Idle", "Composing", "Selecting"}
  /\ \A i \in DOMAIN engine.spelling : engine.spelling[i] \in Chars \cup {Apostrophe}
  /\ Len(engine.cands) <= T(engine).pageSize \/ engine.mode = "Menu"

(***************************************************************************)
(* The cached page, the cached total and the state are those of a fresh    *)
(* search: no key, page turn, mode change or punctuation leaves the list   *)
(* of an earlier spelling behind (state_machine.rs caches three of them).  *)
(***************************************************************************)
CandidatesAreFresh == PageIsFresh(engine)

\* A temporary overlay shows its own mode, and without one the persistent base mode
\* shows: whatever ended the round, the touch keyboard is back in the mode it came from.
ModesAgree == ModeIsOverlay(engine)

(***************************************************************************)
(* The key test and the key event agree: what would_handle promises to     *)
(* consume is not passed to the host, and what it declines is not          *)
(* consumed (text entered twice, or not at all, otherwise).  A refused     *)
(* action is neither; an empty literal is taken without any effect.        *)
(***************************************************************************)
RoutingAgrees ==
  \A a \in Actions(engine) :
    Agrees(a, Disposition(Dispatch(engine, a)), WouldHandle(engine, a))

(***************************************************************************)
(* What was typed in the base mode is never dropped by an action that is   *)
(* not meant to drop it: it stays in the spelling, or the action commits   *)
(* it, raw or as one of its candidates, ahead of anything else it commits. *)
(***************************************************************************)
NothingTypedIsLost ==
  engine.temporary = "None" /\ engine.mode \in {"Main", "English"} /\ engine.spelling # <<>> =>
    \A a \in Keyboards[engine.profile] :
      ~Drops(a) => KeepsText(engine, a, Dispatch(engine, a))

\* One query revision names one list: a click that carries the current revision selects
\* the candidate it was drawn from, however the page, the buffer or the mode changed.
QueryNamesOneList ==
  [][engine'.query = engine.query => AllCandidates(engine') = AllCandidates(engine)]_engine

\* What the engine keeps beside the spelling agrees with it: the cached page and total, the
\* mode, and the revision under which the page was drawn (state_machine.rs).
CachesAgree == [](EngineTypeOK /\ CandidatesAreFresh /\ ModesAgree) /\ QueryNamesOneList
=============================================================================
