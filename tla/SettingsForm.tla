---------------------------- MODULE SettingsForm ----------------------------
(***************************************************************************)
(* The general settings: the form of SettingsPage, which saves what the    *)
(* user changes by itself, and the configuration in the backend, which is  *)
(* also changed elsewhere (quick settings, shortcuts, an import).  The     *)
(* form sends the fields in which it differs from what it knows to be      *)
(* saved, 300 ms after the last edit and one save after the other; it      *)
(* reloads when a change from elsewhere is announced, after its own saves. *)
(* The effect that does this forgets to watch some fields, and the backend *)
(* refuses a save that has one of some others.                             *)
(*                                                                         *)
(* The form has been loaded once, and cannot be used while it is loaded    *)
(* again.  A save or a load is one step of the backend and a reply.        *)
(***************************************************************************)
EXTENDS Naturals, Sequences

CONSTANTS
    Fields, Values,
    Numbers,       \* the fields that are typed, and empty between two numbers
    Blank,
    Unwatched,     \* the fields missing in the dependencies of the save's effect
    Refused,       \* the fields missing in is_general_config_patch_field
    MaxEdits,      \* bound: changes by the user, in the form or elsewhere
    MaxTroubles    \* bound: saves and loads that fail

FormBounds ==
    /\ Numbers \cup Unwatched \cup Refused \subseteq Fields /\ Blank \notin Values
    /\ {MaxEdits, MaxTroubles} \subseteq Nat

VARIABLES
    settings,     \* the user configuration
    form,         \* what the form shows
    persisted,    \* persistedGeneralPayloadRef
    usable,       \* generalLoaded: the form is not disabled
    timer,        \* the fields and values to be saved when the timer fires
    saves,        \* generalSaveQueueRef: saves [upd, pc], the first in progress
    load,         \* [pc, got, awaited]: the newest load; a failed save may await it
    loadFailed,   \* the user sees that, and a button to load again
    reloadLater,  \* pendingExternalConfigReloadRef
    events,       \* changes elsewhere that the form has yet to hear of
    chosen,       \* the last choice of the user
    excused,      \* fields of which the form may be wrong: see QuietFormIsTrue
    edits, troubles

history == <<chosen, excused>>
formBounds == <<edits, troubles>>
formVars ==
    <<settings, form, persisted, usable, timer, saves, load, loadFailed, reloadLater,
      events, history, formBounds>>

Nothing == << >>
NoLoad == [pc |-> "none", got |-> Nothing, awaited |-> FALSE]

Init ==
    /\ settings \in [Fields -> Values] /\ form = settings /\ persisted = settings
    /\ usable = TRUE /\ timer = Nothing /\ saves = << >> /\ load = NoLoad
    /\ loadFailed = FALSE /\ reloadLater = FALSE /\ events = 0
    /\ chosen = settings /\ excused = {} /\ edits = 0 /\ troubles = 0

-----------------------------------------------------------------------------

Updated(c, upd) == [f \in Fields |-> IF f \in DOMAIN upd THEN upd[f] ELSE c[f]]

Typing(shown) == \E f \in Fields : shown[f] = Blank

\* Plausible bug: the form sends all it shows, but for what would be refused.
Diff_All(shown) ==
    IF shown = persisted \/ Typing(shown) THEN Nothing
    ELSE [f \in Fields \ Refused |-> shown[f]]

\* What the form has to save: nothing while a number is being typed.
Diff(shown) ==
    LET changed == {f \in Fields : shown[f] # persisted[f]}
    IN  IF changed = {} \/ Typing(shown) THEN Nothing ELSE [f \in changed |-> shown[f]]

InSaves == UNION {DOMAIN saves[i].upd : i \in DOMAIN saves}
Unsaved == InSaves \cup DOMAIN timer \cup {f \in Fields : form[f] # persisted[f]}

\* Fields of which the user has chosen what the form knows to be saved, and which are
\* not sent, although they were changed elsewhere or something else is being saved.
SetBack(shown, wanted) ==
    {f \in Fields :
        /\ shown[f] = wanted[f] /\ shown[f] = persisted[f]
        /\ \/ settings[f] # shown[f]
           \/ \E i \in DOMAIN saves :
                f \in DOMAIN saves[i].upd /\ saves[i].upd[f] # shown[f]}

Acts == edits < MaxEdits /\ edits' = edits + 1 /\ UNCHANGED troubles
Trouble == troubles < MaxTroubles /\ troubles' = troubles + 1 /\ UNCHANGED edits

\* Edits that nothing is going to save: the edit of an unwatched field waits for one of
\* a watched field, and any edit for a number to be typed.
Waiting(known) ==
    {f \in Fields :
        /\ form[f] # known[f] /\ chosen[f] # known[f]
        /\ f \in Unwatched \/ Typing(form)}

\* lost: what is known to be overwritten.
StartLoad(awaited, lost) ==
    /\ load' = [NoLoad EXCEPT !.pc = "asked", !.awaited = awaited]
    /\ usable' = FALSE /\ loadFailed' = FALSE /\ excused' = excused \cup lost
NoStart == UNCHANGED <<load, usable, loadFailed, excused>>

\* The end of a load or a save: a reload that was put off begins when nothing is to be
\* saved any more.
ReloadsAfter(left) == reloadLater /\ timer = Nothing /\ left = << >>

-----------------------------------------------------------------------------
\* The user.

\* The change of a watched field sets the timer anew, for all that differs from what is
\* saved; the change of another one leaves the timer, and what it is going to save.
TimerAfter(f, shown) == IF f \in Unwatched THEN timer ELSE Diff(shown)

Edit(f, v) ==
    /\ usable /\ v # form[f] /\ (form[f] = Blank \/ ~Typing(form)) /\ Acts
    /\ form' = [form EXCEPT ![f] = v] /\ timer' = TimerAfter(f, form')
    /\ chosen' = [chosen EXCEPT ![f] = v]
    /\ excused' = excused \cup SetBack(form', chosen')
    /\ UNCHANGED <<settings, persisted, usable, saves, load, loadFailed, reloadLater, events>>

\* The user deletes a number to type another, and does not leave it empty.
Clear(f) ==
    /\ usable /\ ~Typing(form) /\ Acts /\ form' = [form EXCEPT ![f] = Blank]
    /\ timer' = TimerAfter(f, form')
    /\ UNCHANGED <<settings, persisted, usable, saves, load, loadFailed, reloadLater, events,
                   history>>

\* Whoever changes the configuration elsewhere then sends 'config-updated'.
ChangeElsewhere(c) ==
    LET changed == {f \in Fields : c[f] # settings[f]}
    IN  /\ changed # {} /\ Acts /\ settings' = c /\ events' = events + 1
        /\ chosen' = [f \in Fields |-> IF f \in changed THEN c[f] ELSE chosen[f]]
        /\ excused' = excused \cup (changed \cap Unsaved)
        /\ UNCHANGED <<form, persisted, usable, timer, saves, load, loadFailed, reloadLater>>

\* The button beside the message that a load has failed.
LoadAgain ==
    /\ loadFailed /\ StartLoad(FALSE, Unsaved)
    /\ UNCHANGED <<settings, form, persisted, timer, saves, reloadLater, events, chosen,
                   formBounds>>

-----------------------------------------------------------------------------
\* Saving.

TimerFires ==
    /\ timer # Nothing /\ timer' = Nothing
    /\ saves' = Append(saves, [upd |-> timer, pc |-> "called"])
    /\ UNCHANGED <<settings, form, persisted, usable, load, loadFailed, reloadLater, events,
                   history, formBounds>>

At(pc) == saves # << >> /\ saves[1].pc = pc

\* The fields are changed in the configuration as it is at that moment, on the disk
\* and in memory, all of them or none.
Patch ==
    /\ At("called") /\ DOMAIN saves[1].upd \cap Refused = {} /\ saves' = [saves EXCEPT ![1].pc = "saved"]
    /\ settings' = Updated(settings, saves[1].upd)
    /\ UNCHANGED <<form, persisted, usable, timer, load, loadFailed, reloadLater, events,
                   history, formBounds>>

PatchFails ==
    /\ At("called") /\ saves' = [saves EXCEPT ![1].pc = "failed"]
    /\ \/ DOMAIN saves[1].upd \cap Refused # {} /\ UNCHANGED formBounds
       \/ Trouble
    /\ excused' = excused \cup Unsaved
    /\ UNCHANGED <<settings, form, persisted, usable, timer, load, loadFailed, reloadLater,
                   events, chosen>>

SavedReply ==
    /\ At("saved") /\ saves' = Tail(saves)
    /\ persisted' = Updated(persisted, saves[1].upd)
    /\ IF ReloadsAfter(Tail(saves)) /\ load = NoLoad
       THEN StartLoad(FALSE, Waiting(persisted')) /\ reloadLater' = FALSE
       ELSE NoStart /\ UNCHANGED reloadLater
    /\ UNCHANGED <<settings, form, timer, events, chosen, formBounds>>

\* The user is told.  The last save in the queue is followed by a load.
FailedReply ==
    /\ At("failed")
    /\ IF Len(saves) = 1
       THEN saves' = [saves EXCEPT ![1].pc = "loading"] /\ StartLoad(TRUE, Unsaved)
       ELSE saves' = Tail(saves) /\ NoStart
    /\ UNCHANGED <<settings, form, persisted, timer, reloadLater, events, chosen, formBounds>>

-----------------------------------------------------------------------------
\* Loading.

\* Plausible bug: the form does not wait for its own saves.
Notice_AtOnce ==
    /\ events > 0 /\ events' = events - 1
    /\ IF load # NoLoad
       THEN reloadLater' = TRUE /\ NoStart
       ELSE StartLoad(FALSE, Waiting(persisted)) /\ UNCHANGED reloadLater
    /\ UNCHANGED <<settings, form, persisted, timer, saves, chosen, formBounds>>

Notice ==
    /\ events > 0 /\ events' = events - 1
    /\ IF timer # Nothing \/ saves # << >> \/ load # NoLoad
       THEN reloadLater' = TRUE /\ NoStart
       ELSE StartLoad(FALSE, Waiting(persisted)) /\ UNCHANGED reloadLater
    /\ UNCHANGED <<settings, form, persisted, timer, saves, chosen, formBounds>>

Read ==
    /\ load.pc = "asked" /\ load' = [load EXCEPT !.pc = "read", !.got = settings]
    /\ UNCHANGED <<settings, form, persisted, usable, timer, saves, loadFailed, reloadLater,
                   events, history, formBounds>>

\* A load ends, and the save that awaited it; t is to be saved by the form that is
\* usable again.
Ends(t, failed) ==
    LET left == IF load.awaited THEN Tail(saves) ELSE saves
    IN  /\ saves' = left
        /\ IF ReloadsAfter(left)
           THEN StartLoad(FALSE, {}) /\ reloadLater' = FALSE /\ UNCHANGED timer
           ELSE /\ UNCHANGED excused /\ load' = NoLoad /\ usable' = TRUE /\ loadFailed' = failed
                /\ timer' = t /\ UNCHANGED reloadLater

LoadReply ==
    /\ load.pc = "read" /\ form' = load.got /\ persisted' = load.got
    /\ Ends(Nothing, FALSE)
    /\ UNCHANGED <<settings, events, chosen, formBounds>>

LoadFails ==
    /\ load.pc = "asked" /\ Trouble /\ Ends(Diff(form), TRUE)
    /\ UNCHANGED <<settings, form, persisted, events, chosen>>

-----------------------------------------------------------------------------

Next ==
    \/ \E f \in Fields, v \in Values : Edit(f, v)
    \/ \E f \in Numbers : Clear(f)
    \/ \E c \in [Fields -> Values] : ChangeElsewhere(c)
    \/ LoadAgain \/ TimerFires \/ Patch \/ PatchFails \/ SavedReply \/ FailedReply
    \/ Notice \/ Read \/ LoadReply \/ LoadFails

Spec == Init /\ [][Next]_formVars

-----------------------------------------------------------------------------

Quiet == timer = Nothing /\ saves = << >> /\ load = NoLoad /\ events = 0 /\ ~Typing(form)

\* When nothing is under way, each field is as the user chose it last, in the form or
\* elsewhere, and the form shows it: a save takes nothing back that was changed
\* elsewhere, and a reload nothing that was edited.  Excused are fields
\*   - that were set back to what the form knew to be saved, but was not so any more
\*     or was about to be overwritten (SetBack);
\*   - that were changed elsewhere while the form had them to save;
\*   - that were edited but not saved when a save failed, as it does with each refused
\*     field, or when the user loaded the form again;
\*   - that were edited and waited for another edit when the form was loaded (Waiting);
\* and what the form shows while a reload is put off for an edit that was undone, or
\* after a load that failed.  An unwatched field whose edit still waits is as the user
\* chose it in the form only.
QuietFormIsTrue ==
    Quiet => \A f \in Fields \ excused :
        \/ f \in Unwatched /\ form[f] # persisted[f] /\ form[f] = chosen[f]
        \/ settings[f] = chosen[f] /\ (form[f] = settings[f] \/ reloadLater \/ loadFailed)
=============================================================================
