------------------------------ MODULE Registration ------------------------------
(***************************************************************************)
(* The registration of the text service (windows/tip_manager), from the    *)
(* panels of the settings application (panels/tip_manager.rs, about.rs):   *)
(* installation, removal, enabling, and updates of the application.        *)
(*                                                                         *)
(* Every call into the system may fail, a window may end between any two,  *)
(* and two windows share one registry.  Windows without administrator's    *)
(* rights start none of this and are left out.                             *)
(***************************************************************************)
EXTENDS Naturals, Sequences, SequencesExt

CONSTANTS
  Windows,    \* settings windows
  Writes,     \* what register_tip writes, in order: [tree, name], where a tree is one of
              \* "classes", "machine" and "user"
  Server,     \* the one of them that publishes the DLL, InprocServer32
  Categories, \* the categories of a text service, in order
  MaxCalls    \* bound: commands and restarts

Values == ToSet(Writes)

\* What the source's own lists of values and categories are like.
RegistrationAssumption ==
  /\ Writes \in Seq(Values) /\ Categories \in Seq(ToSet(Categories))
  /\ Writes # <<>> /\ Categories # <<>> /\ Server \in Values
  /\ \A v \in Values : v.tree \in {"classes", "machine", "user"}

VARIABLES
  registry,    \* per value: absent, its key without it, or set
  categories,  \* those registered with the category manager
  profile,     \* the language profile of the system
  access,      \* whether AppContainer hosts may load the DLL
  shown,       \* tip_status of each window
  ready,       \* the windows that have downloaded an update
  task,        \* the command each window is executing
  calls,       \* commands so far
  alone,       \* history: the windows whose command no command against it has overlapped
  whole,       \* history: such an installation ended well, and nothing was taken away since
  gone         \* history: such a removal failed in no call, and nothing was added since

state == <<registry, categories, profile, access>>
told == <<shown, ready>>
history == <<alone, whole, gone>>
vars == <<state, told, task, calls, history>>

-----------------------------------------------------------------------------
Idle == [at |-> "idle", next |-> 0, failed |-> FALSE]
At(w, at) == task[w].at = at
Goes(w, at) == task' = [task EXCEPT ![w] = [@ EXCEPT !.at = at, !.next = 1]]
Ends(w) == task' = [task EXCEPT ![w] = Idle]

\* detect_status: of the registry it looks for one key only, and then asks the system,
\* whose answer about a profile that is not registered is anything.
Detected(r, p) ==
  IF r[Server] = "absent" THEN {"NotInstalled"}
  ELSE {"Unknown"} \cup (IF p # "disabled" THEN {"InstalledEnabled"} ELSE {})
                   \cup (IF p # "enabled" THEN {"InstalledDisabled"} ELSE {})
Installed == {"InstalledEnabled", "InstalledDisabled"}

\* A command that ends well looks again; one that fails leaves the status as it was shown.
Refreshes(w) == \E s \in Detected(registry', profile') : shown' = [shown EXCEPT ![w] = s]
Succeeds(w) == Ends(w) /\ Refreshes(w) /\ UNCHANGED <<ready, calls>>
Fails(w) == Ends(w) /\ UNCHANGED <<told, calls>>

-----------------------------------------------------------------------------
\* install: hosts are allowed to load the DLL before it is published; the first failure ends
\* the installation, and what was written stays.
Step(w, at) == At(w, at) /\ UNCHANGED <<whole, gone>>
Proceeds(w, at) == Goes(w, at) /\ UNCHANGED <<told, calls, alone>>
GivesUp(w) == Fails(w) /\ UNCHANGED alone

Prepares(w) ==
  /\ Step(w, "prepare") /\ UNCHANGED <<registry, categories, profile>>
  /\ \/ access' = "granted" /\ Proceeds(w, "write")
     \/ UNCHANGED access /\ GivesUp(w)

\* Mutant of Written: the key is made and the value is forgotten.
WrittenEmpty(v) == [registry EXCEPT ![v] = IF @ = "set" THEN "set" ELSE "empty"]

\* set_reg_sz, set_reg_dword: the key is made, then the value is set.
Written(v) == [registry EXCEPT ![v] = "set"]
Opened(v) == [registry EXCEPT ![v] = IF @ = "set" THEN "set" ELSE "empty"]

\* register_tip.
Register(w) ==
  /\ Step(w, "write") /\ UNCHANGED <<categories, profile, access>>
  /\ LET v == Writes[task[w].next]
     IN  \/ /\ registry' = Written(v)
            /\ IF task[w].next = Len(Writes) THEN Proceeds(w, "connect")
               ELSE /\ task' = [task EXCEPT ![w].next = @ + 1]
                    /\ UNCHANGED <<told, calls, alone>>
         \/ registry' \in {registry, Opened(v)} /\ GivesUp(w)

\* ComProfileManager::new: the system's profiles may be out of reach.
Connects(w) ==
  /\ Step(w, "connect") /\ UNCHANGED state
  /\ Proceeds(w, "category") \/ GivesUp(w)

\* register_categories, one by one.
Categorise(w) ==
  /\ Step(w, "category") /\ UNCHANGED <<registry, profile, access>>
  /\ \/ /\ categories' = categories \cup {Categories[task[w].next]}
        /\ IF task[w].next = Len(Categories) THEN Proceeds(w, "profile")
           ELSE /\ task' = [task EXCEPT ![w].next = @ + 1]
                /\ UNCHANGED <<told, calls, alone>>
     \/ UNCHANGED categories /\ GivesUp(w)

\* register_profile: a new profile is enabled, an old one may stay as it was.
Profiles(w) ==
  /\ Step(w, "profile") /\ UNCHANGED <<registry, categories, access>>
  /\ \/ profile' \in {"enabled", profile} \ {"absent"} /\ Proceeds(w, "enable")
     \/ UNCHANGED profile /\ GivesUp(w)

\* enable: the last step, and the end of an installation.
Enables(w) ==
  /\ At(w, "enable") /\ UNCHANGED <<registry, categories, access, gone>>
  /\ \/ /\ profile' = IF profile = "absent" THEN profile ELSE "enabled"
        /\ Succeeds(w)
        /\ whole' = (whole \/ w \in alone) /\ UNCHANGED alone
     \/ UNCHANGED <<profile, whole>> /\ GivesUp(w)

Installation(w) ==
  Prepares(w) \/ Register(w) \/ Connects(w) \/ Categorise(w) \/ Profiles(w) \/ Enables(w)

-----------------------------------------------------------------------------
\* uninstall: whatever fails, the next call is made, and the command ends well.
Continues(w, at, failed) ==
  /\ task' = [task EXCEPT ![w] = [@ EXCEPT !.at = at, !.failed = task[w].failed \/ failed]]
  /\ UNCHANGED <<told, calls, history>>

\* disable and unregister_profile; without COM only the registry is cleared.
Unprofile(w) ==
  /\ At(w, "unprofile") /\ UNCHANGED <<registry, access>>
  /\ \/ profile' = "absent" /\ UNCHANGED categories /\ Continues(w, "uncategorise", FALSE)
     \/ /\ profile' \in {profile, IF profile = "absent" THEN "absent" ELSE "disabled"}
        /\ UNCHANGED categories /\ Continues(w, "uncategorise", TRUE)
     \/ UNCHANGED <<profile, categories>> /\ Continues(w, "classes", TRUE)

\* unregister_categories: each is tried.
Uncategorise(w) ==
  /\ At(w, "uncategorise") /\ UNCHANGED <<registry, profile, access>>
  /\ categories' \in SUBSET categories
  /\ Continues(w, "classes", categories' # {})

\* RegDeleteTreeW: all of the tree or a part of it.
Cleared(tree, kept) ==
  [v \in Values |-> IF v.tree = tree /\ v \notin kept THEN "absent" ELSE registry[v]]
Of(tree) == {v \in Values : v.tree = tree}

\* unregister_tip deletes two trees, and not what register_tip writes for the user.
Unclass(w) ==
  /\ At(w, "classes") /\ UNCHANGED <<categories, profile, access>>
  /\ \E kept \in SUBSET Of("classes") :
       registry' = Cleared("classes", kept) /\ Continues(w, "machine", kept # {})

Unmachine(w) ==
  /\ At(w, "machine") /\ UNCHANGED <<categories, profile, access, alone, whole>>
  /\ \E kept \in SUBSET Of("machine") :
       /\ registry' = Cleared("machine", kept)
       /\ gone' = (gone \/ (w \in alone /\ ~task[w].failed /\ kept = {}))
  /\ Succeeds(w)

Removal(w) == Unprofile(w) \/ Uncategorise(w) \/ Unclass(w) \/ Unmachine(w)

-----------------------------------------------------------------------------
\* The buttons of the panel, which the status of the window chooses.
Installing(w) ==
  task[w].at \in {"prepare", "write", "connect", "category", "profile", "enable"}
Removing(w) == task[w].at \in {"unprofile", "uncategorise", "classes", "machine"}
Overlaps(w, Alike(_), Against(_)) ==
  alone' = {x \in alone : Alike(x)} \cup
           (IF \E x \in Windows : Against(x) THEN {} ELSE {w})

Starts(w) ==
  /\ task[w] = Idle /\ calls < MaxCalls /\ calls' = calls + 1 /\ UNCHANGED <<state, told>>
Install(w) ==
  /\ Starts(w) /\ shown[w] \in {"NotInstalled", "Unknown"}
  /\ Goes(w, "prepare")
  /\ Overlaps(w, Installing, Removing) /\ gone' = FALSE /\ UNCHANGED whole
Uninstall(w) ==
  /\ Starts(w) /\ shown[w] # "NotInstalled"
  /\ Goes(w, "unprofile")
  /\ Overlaps(w, Removing, Installing) /\ whole' = FALSE /\ UNCHANGED gone

\* enable and disable of a registered profile.
Switch(w) ==
  /\ task[w] = Idle /\ profile # "absent" /\ UNCHANGED <<registry, categories, access>>
  /\ \/ shown[w] = "InstalledDisabled" /\ profile' = "enabled"
     \/ shown[w] = "InstalledEnabled" /\ profile' = "disabled"
  /\ Refreshes(w) /\ UNCHANGED <<ready, task, calls, history>>

\* Another panel is opened: the status is looked up again.
Visit(w) ==
  /\ task[w] = Idle /\ UNCHANGED state /\ Refreshes(w)
  /\ UNCHANGED <<ready, task, calls, history>>

\* An update is downloaded, and applied, only by a window that shows no installation: the
\* hosts keep the DLL of an installed service locked.
Download(w) ==
  /\ task[w] = Idle /\ shown[w] \notin Installed /\ w \notin ready
  /\ ready' = ready \cup {w} /\ UNCHANGED <<state, shown, task, calls, history>>

\* The files are replaced, and the hook and the new process allow hosts to load them again,
\* if they can.
Update(w) ==
  /\ task[w] = Idle /\ shown[w] \notin Installed /\ w \in ready /\ calls < MaxCalls
  /\ access' \in {IF access = "never" THEN "never" ELSE "lost", "granted"}
  /\ UNCHANGED <<registry, categories, profile, task>>
  /\ ready' = ready \ {w} /\ Refreshes(w) /\ calls' = calls + 1
  /\ alone' = {x \in alone : Removing(x)} /\ whole' = FALSE /\ UNCHANGED gone

\* A window ends, in the middle of a command perhaps, and is started again.
Restart(w) ==
  /\ calls < MaxCalls /\ calls' = calls + 1 /\ Ends(w)
  /\ access' \in {access, "granted"} /\ UNCHANGED <<registry, categories, profile>>
  /\ ready' = ready \ {w} /\ Refreshes(w) /\ UNCHANGED history

-----------------------------------------------------------------------------
Init ==
  /\ registry = [v \in Values |-> "absent"] /\ categories = {} /\ profile = "absent"
  /\ access = "never"
  /\ shown = [w \in Windows |-> "NotInstalled"] /\ ready = {}
  /\ task = [w \in Windows |-> Idle] /\ calls = 0
  /\ alone = {} /\ whole = FALSE /\ gone = FALSE

Next ==
  \E w \in Windows :
    \/ Installation(w) \/ Removal(w)
    \/ Install(w) \/ Uninstall(w) \/ Switch(w) \/ Visit(w)
    \/ Download(w) \/ Update(w) \/ Restart(w)

Spec == Init /\ [][Next]_vars
-----------------------------------------------------------------------------
(* Properties. *)

\* Type invariant.
TypeOK ==
  /\ registry \in [Values -> {"absent", "empty", "set"}]
  /\ categories \subseteq ToSet(Categories) /\ profile \in {"absent", "disabled", "enabled"}
  /\ access \in {"never", "granted", "lost"}
  /\ shown \in [Windows -> {"NotInstalled", "Unknown"} \cup Installed]
  /\ ready \cup alone \subseteq Windows
  /\ \A w \in Windows : task[w].next \in 1..Len(Writes) \cup 1..Len(Categories) \cup {0, 1}

\* An installation that ends well is complete, whatever earlier ones left half done, whatever
\* removals left behind, and whichever other window installed at the same time (lib.rs:31).
InstalledIsWhole ==
  whole => /\ \A v \in Values : registry[v] = "set"
           /\ categories = ToSet(Categories) /\ profile # "absent" /\ access = "granted"

\* A removal of which no call failed leaves nothing outside the user's own tree (lib.rs:56).
RemovedIsGone ==
  gone => /\ \A v \in Values : v.tree # "user" => registry[v] = "absent"
          /\ categories = {} /\ profile = "absent"

\* The DLL is published only to hosts that were allowed to load it (lib.rs:34).
PublishedIsLoadable == registry[Server] # "absent" => access # "never"

\* What a command promises, it has done.
RegistrationIsSound == TypeOK /\ InstalledIsWhole /\ RemovedIsGone /\ PublishedIsLoadable

\* registrar.rs:195 says of unregister_tip that it deletes every key of the registration.  The
\* code leaves those that register_tip writes for the user.
NothingIsLeft == gone => \A v \in Values : registry[v] = "absent"

\* about.rs:108 says that an update waits until the service is removed.  A window whose status
\* is unknown, or old, does not wait.
UpdatesWait == [][\A w \in Windows : Update(w) => registry[Server] = "absent"]_vars
=============================================================================
