---------------------------- MODULE BuilderShell ----------------------------
(***************************************************************************)
(* The frame of the workflow builder: guided and expert mode with the      *)
(* preferences kept per user in the browser, the stages of the guided      *)
(* workspace, the dialogs and drawers, and the keyboard shortcuts.         *)
(*                                                                         *)
(* Which dialogs are open is partly in a global store (useUIStore), which  *)
(* outlives the page, and partly in the page's own state.                  *)
(***************************************************************************)
EXTENDS Integers, Sequences

CONSTANTS
    Nothing,    \* no stored preference, no service
    Users,      \* the accounts that sign in from this browser
    Editors,    \* those whose role allows "edit"; the others are runners
    Workflows,  \* the workflows they visit
    Mac,        \* whether the browser runs on a Mac
    Storage     \* whether localStorage accepts writes

Experiences == [mode : {"guided", "expert"}, dismissed : BOOLEAN]

ASSUME ShellAssumption ==
    /\ Editors \subseteq Users
    /\ {Mac, Storage} \subseteq BOOLEAN
    /\ Nothing \notin Workflows \cup Experiences

VARIABLES
    user,       \* the account signed in
    here,       \* the workflow on display
    mode,       \* "guided" or "expert"
    dismissed,  \* checklistDismissed
    stored,     \* the preferences in localStorage, by user
    stage,      \* guidedStage
    dialogs,    \* the open dialogs and drawers
    config,     \* the workflow of useUIStore's selectedNode
    configure,  \* the scenario dialog shows the editor, not the journey
    focus,      \* whether the canvas is narrowed to a scenario's services
    unheard,    \* history: shortcuts pressed as displayed that did nothing
    picked      \* history: the mode and checklist each user saw last

shellVars == <<user, here, mode, dismissed, stored, stage, dialogs, config, configure, focus, unheard, picked>>

-----------------------------------------------------------------------------
(* Preferences *)

DefaultExperience == [mode |-> "guided", dismissed |-> FALSE]

StorageKey(u) == u

ReadBuilderExperience(u) == IF stored[StorageKey(u)] = Nothing THEN DefaultExperience ELSE stored[StorageKey(u)]

\* Mode and dismissal have a key each; an absent one reads as the default.
Persist(prefs) == stored' = IF Storage THEN [stored EXCEPT ![StorageKey(user)] = prefs] ELSE stored

-----------------------------------------------------------------------------
(* What is on display *)

CanEdit == user \in Editors

Stages == <<"services", "connections", "scenarios", "review">>

StageNames == {Stages[i] : i \in 1..4}

StageIndex == CHOOSE i \in 1..4 : Stages[i] = stage

\* Kept by useUIStore, and in the order in which Escape closes them.
StoreDialogs == <<"shortcuts", "scenarios", "drawer", "config">>

StoreDialogNames == {StoreDialogs[i] : i \in 1..4}

PageDialogs == {"history", "versions", "removal", "edge", "run"}

\* The parts of the page with which a workflow can be changed.
Editing ==
    (IF CanEdit THEN dialogs \cap {"drawer", "config", "edge"} ELSE {})
       \cup (IF "scenarios" \in dialogs /\ configure THEN {"scenario dialog"} ELSE {})
       \cup (IF mode = "guided" /\ stage = "connections" /\ CanEdit THEN {"connections"} ELSE {})
       \cup (IF mode = "guided" /\ stage = "scenarios" THEN {"guided scenarios"} ELSE {})

\* A modal dialog covers the page: the pointer reaches the page only without
\* one, the keyboard always does.  A dialog that is rendered for editors only
\* covers nothing for the others.
Uncovered == dialogs \ (IF CanEdit THEN {} ELSE {"drawer", "config", "edge"}) = {}

-----------------------------------------------------------------------------
(* Modes, stages and the checklist *)

Show(prefs) ==
    /\ mode' = prefs.mode /\ dismissed' = prefs.dismissed
    /\ picked' = [picked EXCEPT ![user] = prefs]
    /\ Persist(prefs)

Frame == UNCHANGED <<user, here, config, configure, focus, unheard>>

\* The toggle reports no value when the pressed item was already on.
SetMode(m) ==
    /\ Uncovered /\ m # mode
    /\ Show([mode |-> m, dismissed |-> dismissed])
    /\ Frame /\ UNCHANGED <<stage, dialogs>>

DismissChecklist ==
    /\ Uncovered /\ mode = "guided" /\ ~dismissed
    /\ Show([mode |-> mode, dismissed |-> TRUE])
    /\ Frame /\ UNCHANGED <<stage, dialogs>>

\* "Show setup checklist" of the Help menu, in either mode.
ShowGuidedChecklist ==
    /\ Uncovered
    /\ Show(DefaultExperience)
    /\ Frame /\ UNCHANGED <<stage, dialogs>>

GoTo(s) ==
    /\ mode = "guided" /\ Uncovered /\ s # stage
    /\ stage' = s
    /\ Frame /\ UNCHANGED <<mode, dismissed, stored, dialogs, picked>>

\* The tabs, and the items of the checklist.
OpenStage(s) == GoTo(s)

Back == StageIndex > 1 /\ GoTo(Stages[StageIndex - 1])

Continue == StageIndex < 4 /\ GoTo(Stages[StageIndex + 1])

\* Where the button of a validation error leads.
ErrorStage(error) ==
    CASE error = "edge" -> "connections" [] error = "test" -> "scenarios" [] OTHER -> "services"

OpenError(error) == GoTo(ErrorStage(error))

-----------------------------------------------------------------------------
(* Dialogs *)

Open(d) == dialogs' = dialogs \cup {d}

Buttons == UNCHANGED <<user, here, mode, dismissed, stored, stage, focus, unheard, picked>>

\* Add service, in the guided inventory and in the canvas's toolbar.
OpenDrawer == Uncovered /\ CanEdit /\ Open("drawer") /\ Buttons /\ UNCHANGED <<config, configure>>

\* Edit on a service's card, a double click on a node of the canvas: the
\* dialog is rendered for editors only.
OpenNodeConfig ==
    /\ Uncovered /\ (CanEdit \/ mode = "expert")
    /\ Open("config") /\ config' = here
    /\ Buttons /\ UNCHANGED configure

OpenScenarios ==
    /\ Uncovered /\ mode = "expert"
    /\ Open("scenarios") /\ configure' = FALSE
    /\ Buttons /\ UNCHANGED config

\* The page's own dialogs: history and versions from the canvas, an edge by a
\* click on it, removal and run from either workspace.
OpenPageDialog(d) ==
    /\ Uncovered /\ d \in PageDialogs
    /\ d \in {"history", "versions", "edge"} => mode = "expert"
    /\ d = "removal" => CanEdit
    /\ Open(d) /\ Buttons /\ UNCHANGED <<config, configure>>

\* Mutant: Configure is offered to everybody.
ConfigureForAll ==
    /\ "scenarios" \in dialogs
    /\ configure' = TRUE
    /\ Buttons /\ UNCHANGED <<dialogs, config>>

Configure ==
    /\ "scenarios" \in dialogs /\ CanEdit
    /\ configure' = TRUE
    /\ Buttons /\ UNCHANGED <<dialogs, config>>

Journey ==
    /\ "scenarios" \in dialogs /\ CanEdit /\ configure
    /\ configure' = FALSE
    /\ Buttons /\ UNCHANGED <<dialogs, config>>

\* Showing a journey's services on the canvas closes the dialog.
FocusServices ==
    /\ "scenarios" \in dialogs /\ ~configure
    /\ focus' = TRUE /\ dialogs' = dialogs \ {"scenarios"}
    /\ UNCHANGED <<user, here, mode, dismissed, stored, stage, config, configure, unheard, picked>>

ClearScenarioFocus ==
    /\ Uncovered /\ mode = "expert" /\ focus
    /\ focus' = FALSE
    /\ UNCHANGED <<user, here, mode, dismissed, stored, stage, dialogs, config, configure, unheard, picked>>

CloseOne(d) ==
    /\ dialogs' = dialogs \ {d}
    /\ config' = IF d = "config" THEN Nothing ELSE config

CloseOpen(d) == d \in dialogs /\ CloseOne(d) /\ Buttons /\ UNCHANGED configure

-----------------------------------------------------------------------------
(* Keyboard shortcuts *)

Shortcuts ==
    [openLogs        |-> [key |-> "l", ctrl |-> TRUE],
     openAddNode     |-> [key |-> "n", ctrl |-> TRUE],
     runWorkflow     |-> [key |-> "Enter", ctrl |-> TRUE],
     toggleShortcuts |-> [key |-> "?", ctrl |-> FALSE],
     closeDialogs    |-> [key |-> "Escape", ctrl |-> FALSE]]

\* The keys that formatShortcut names: on a Mac the command key stands for
\* Ctrl.  The question mark is a shifted key.
Pressed(id) ==
    LET s == Shortcuts[id]
    IN [key |-> s.key, ctrl |-> s.ctrl /\ ~Mac, meta |-> s.ctrl /\ Mac, shift |-> s.key = "?"]

\* No shortcut asks for shift, alt or meta.
Matches(event, s) ==
    /\ event.key = s.key
    /\ s.ctrl = (event.ctrl \/ event.meta)
    /\ ~event.shift
    /\ ~event.meta

\* What the handler opens or closes, if anything.  Here the workflow can be
\* run (RunLaunch has the guard) and no run is in progress that openLogs would
\* leave the page for.
Handler(id) ==
    LET closing == {i \in 1..4 : StoreDialogs[i] \in dialogs}
        first == CHOOSE i \in closing : \A j \in closing : i <= j
    IN CASE id = "openAddNode" /\ CanEdit                          -> Open("drawer") /\ UNCHANGED config
         [] id = "runWorkflow"                                     -> Open("run") /\ UNCHANGED config
         [] id = "toggleShortcuts" /\ "shortcuts" \notin dialogs   -> Open("shortcuts") /\ UNCHANGED config
         [] id = "toggleShortcuts" /\ "shortcuts" \in dialogs      -> CloseOne("shortcuts")
         [] id = "closeDialogs" /\ closing # {}                    -> CloseOne(StoreDialogs[first])
         [] OTHER                                                  -> UNCHANGED <<dialogs, config>>

\* A key event with the modifiers of the user's choice, outside input fields.
PressKey(event) ==
    /\ \E id \in DOMAIN Shortcuts : Matches(event, Shortcuts[id]) /\ Handler(id)
    /\ Buttons /\ UNCHANGED configure

\* The keys a shortcut is displayed with.
PressShown(id) ==
    /\ IF Matches(Pressed(id), Shortcuts[id])
       THEN Handler(id) /\ UNCHANGED unheard
       ELSE unheard' = unheard \cup {id} /\ UNCHANGED <<dialogs, config>>
    /\ UNCHANGED <<user, here, mode, dismissed, stored, stage, configure, focus, picked>>

\* The toolbar's button for the list of shortcuts.
OpenShortcuts ==
    /\ Uncovered /\ mode = "expert" /\ CanEdit
    /\ Open("shortcuts") /\ Buttons /\ UNCHANGED <<config, configure>>

-----------------------------------------------------------------------------
(* Visits *)

\* The page is mounted for a user and a workflow; the page's own state is new,
\* useUIStore's is not.
Mount(u, w, kept) ==
    LET prefs == ReadBuilderExperience(u)
    IN /\ user' = u /\ here' = w
       /\ mode' = prefs.mode /\ dismissed' = prefs.dismissed
       /\ stage' = "services" /\ configure' = FALSE /\ focus' = FALSE
       /\ dialogs' = kept
       /\ config' = IF "config" \in kept THEN config ELSE Nothing
       /\ UNCHANGED <<stored, unheard, picked>>

\* The browser's back and forward buttons work under a dialog, too.
Visit(w) == w # here /\ Mount(user, w, dialogs \ PageDialogs)

\* Signing out and in again loads the application anew.
SignIn(u) == u # user /\ Mount(u, here, {})

ShellInit ==
    /\ user \in Users /\ here \in Workflows
    /\ stored = [u \in Users |-> Nothing]
    /\ mode = "guided" /\ dismissed = FALSE
    /\ stage = "services" /\ dialogs = {} /\ config = Nothing
    /\ configure = FALSE /\ focus = FALSE
    /\ unheard = {} /\ picked = [u \in Users |-> DefaultExperience]

ShellNext ==
    \/ \E m \in {"guided", "expert"} : SetMode(m)
    \/ DismissChecklist \/ ShowGuidedChecklist
    \/ Back \/ Continue
    \/ \E s \in StageNames : OpenStage(s)
    \/ \E error \in {"edge", "test", "other"} : OpenError(error)
    \/ OpenDrawer \/ OpenNodeConfig \/ OpenScenarios \/ OpenShortcuts
    \/ \E d \in PageDialogs : OpenPageDialog(d)
    \/ Configure \/ Journey \/ FocusServices \/ ClearScenarioFocus
    \/ \E d \in dialogs : CloseOpen(d)
    \/ \E id \in DOMAIN Shortcuts : PressShown(id)
    \/ \E k \in {s.key : s \in {Shortcuts[id] : id \in DOMAIN Shortcuts}}, c \in BOOLEAN :
          PressKey([key |-> k, ctrl |-> c, meta |-> FALSE, shift |-> FALSE])
    \/ \E w \in Workflows : Visit(w)
    \/ \E u \in Users : SignIn(u)

ShellSpec == ShellInit /\ [][ShellNext]_shellVars

-----------------------------------------------------------------------------
(* Properties *)

(* Types of the builder's frame; a service dialog knows its service.        *)
ShellTypeOK ==
    /\ user \in Users /\ here \in Workflows
    /\ mode \in {"guided", "expert"} /\ dismissed \in BOOLEAN
    /\ stage \in StageNames
    /\ dialogs \subseteq StoreDialogNames \cup PageDialogs
    /\ config \in {Nothing} \cup Workflows /\ (config # Nothing) = ("config" \in dialogs)

(* Whoever is signed in and whatever they open next sees the mode and the   *)
(* checklist as that user left them, and never as another one did.          *)
PreferencesRemembered ==
    Storage => /\ mode = picked[user].mode
               /\ dismissed = picked[user].dismissed

(* Outside the guided workspace no part of the page lets a runner change a  *)
(* workflow, whichever way a dialog was opened.                             *)
DialogsRespectRole == ~CanEdit => Editing \subseteq {"guided scenarios"}

(* Whoever is signed in finds the mode and the checklist left there, and no *)
(* dialog that the role may not use.                                        *)
ShellFitsUser == ShellTypeOK /\ PreferencesRemembered /\ DialogsRespectRole

(* Runners inspect and execute, without changing workflow definitions.      *)
RunnersOnlyInspect == ~CanEdit => Editing = {}

(* A service dialog configures a service of the workflow on display.        *)
ConfigBelongsHere == "config" \in dialogs => config = here

(* A shortcut pressed the way it is displayed is heard.                     *)
ShownShortcutsWork == unheard = {}
=============================================================================
