----------------------------- MODULE MCComponents -----------------------------
(* Small catalogs: one component and a library it shares, two versions of which *)
(* the newer may not fit this application, and catalogs no plan exists for.     *)
(*                                                                              *)
(* Beside it, the registration of the text service by the same windows.  The    *)
(* two share no state, so they are not interleaved: a behaviour is one or the   *)
(* other.                                                                       *)
EXTENDS Components, TLC

CONSTANTS MaxCalls

Component(key, deps, able) == [key |-> key, deps |-> deps, able |-> able, fits |-> TRUE]

MCCatalogs ==
  {<<Component("cpu", <<"crt", "crt">>, TRUE), Component("crt", <<>>, FALSE)>>,
   <<[Component("new", <<>>, TRUE) EXCEPT !.fits = FALSE], Component("old", <<>>, TRUE)>>,
   <<Component("new", <<>>, TRUE), Component("old", <<>>, TRUE)>>,
   <<Component("cpu", <<"crt">>, TRUE), Component("crt", <<"cpu">>, FALSE)>>,
   <<Component("cpu", <<"gone">>, TRUE)>>}

Alike == Permutations(Windows) \cup Permutations(Services)

-----------------------------------------------------------------------------
VARIABLES registry, categories, profile, access, shown, ready, task, calls, alone, whole, gone

tip == <<registry, categories, profile, access, shown, ready, task, calls, alone, whole, gone>>

Value(tree, name) == [tree |-> tree, name |-> name]
Server == Value("classes", "InprocServer32")
Writes ==
  <<Value("classes", "name"), Server, Value("machine", "profile"), Value("user", "profile"),
    Value("machine", "category")>>

Tip == INSTANCE Registration WITH Categories <- <<"keyboard", "immersive">>

ASSUME ListsAssumption == Tip!RegistrationAssumption

RegistrationIsSound == Tip!RegistrationIsSound

\* The first command of a window decides which of the two it is about.
NoTip == calls = 0 /\ ready = {}
NoComponents == op = [a \in Windows |-> Idle] /\ stage = archive /\ Len(catalog) = 1 /\ ~saved
BothInit == Init /\ Tip!Init
BothNext ==
  \/ NoTip /\ Next /\ UNCHANGED tip
  \/ NoComponents /\ Tip!Next /\ UNCHANGED vars
BothSpec == BothInit /\ [][BothNext]_<<vars, tip>>
=============================================================================
