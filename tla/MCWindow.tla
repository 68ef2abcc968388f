------------------------------ MODULE MCWindow ------------------------------
(***************************************************************************)
(* How accounts come into the window and stay up to date: the login        *)
(* dialogs over each of the providers they serve, the import of a client's *)
(* login, the automatic refreshing, the list of accounts and the form of   *)
(* the settings.  They share code, but no state: Init picks one of them.   *)
(* The variables that several of the modules have are shared here, the     *)
(* others are left alone.                                                  *)
(***************************************************************************)
EXTENDS AutoRefresh, QoderPage, AccountList

CONSTANTS
    TraeAttempts, SlotAttempts, QoderAttempts,
    MaxCalls, MaxRestarts, MaxFaults,
    Accounts, MaxOps,                           \* ProviderStore
    MaxActs, MaxMisses,                         \* LocalImport
    Fields, Values, Numbers, Blank, Unwatched, Refused,
    MaxEdits, MaxTroubles                       \* SettingsForm

MCTasks == 1..3
MCConfigs == {<<1, 2, 3>>, <<0, 2, 0>>, <<0, 0, 0>>}
MCOff == << >>
MCSlots == 1..2

VARIABLES
    provider,                                   \* or another part of the window
    attempts, issued, expired,
    dialog, closings, overlapped, abandoned,    \* Trae and Slot
    slot,                                       \* Slot and Qoder
    pending, file, servers, revived, resumable, restarts,  \* Trae
    faults, givenUp,                            \* Qoder
    emptyCurrent, lister, resolver, opsDone,    \* ProviderStore
    login, imported, baseline, enabled, cycle, holder, reader, first, replaced, acts,
    misses,                                     \* LocalImport
    settings, form, persisted, usable, timer, saves, load, loadFailed, reloadLater,
    events, chosen, excused, edits, troubles    \* SettingsForm

Trae == INSTANCE TraeLogin WITH MaxAttempts <- TraeAttempts
Slot == INSTANCE SlotLogin WITH MaxAttempts <- SlotAttempts
Qoder == INSTANCE QoderLogin WITH MaxAttempts <- QoderAttempts
Store == INSTANCE ProviderStore
Import == INSTANCE LocalImport WITH Logins <- Accounts, NoLogin <- None
Form == INSTANCE SettingsForm

ASSUME PartsAreSound ==
    /\ Trae!DialogBounds /\ Slot!DialogBounds /\ Qoder!QoderBounds
    /\ RefreshBounds /\ Store!StoreBounds /\ Import!ImportBounds
    /\ Form!FormBounds

loginAlone == <<calls, attempts, issued, expired>>
dialogAlone == <<dialog, closings, overlapped, abandoned>>
traeAlone == <<pending, file, servers, revived, resumable, restarts>>
qoderAlone == <<page, faults, torn, givenUp>>
logins == <<loginAlone, dialogAlone, slot, traeAlone, qoderAlone>>
storeAlone ==
    <<stored, active, shown, current, loading, emptyList,
      emptyCurrent, lister, resolver, ops, crossed, opsDone, mishaps>>
importAlone ==
    <<login, imported, baseline, enabled, cycle, holder, reader, first, replaced, acts,
      misses>>
formAlone ==
    <<settings, form, persisted, usable, timer, saves, load, loadFailed, reloadLater,
      events, chosen, excused, edits, troubles>>
mcVars == <<provider, logins, refreshVars, storeAlone, importAlone, formAlone>>

NoCalls == calls = {} /\ attempts = 0 /\ issued = 0 /\ expired = {}
NoDialog ==
    dialog = Trae!Idle /\ closings = 0 /\ overlapped = FALSE /\ abandoned = FALSE
NoTrae ==
    /\ pending = << >> /\ file = Trae!NoFile /\ servers = {}
    /\ revived = FALSE /\ resumable = FALSE /\ restarts = 0
NoQoder == page = Qoder!Idle /\ faults = 0 /\ torn = FALSE /\ givenUp = FALSE
NoLogin == NoCalls /\ NoDialog /\ slot = Slot!Empty /\ NoTrae /\ NoQoder
NoRefresh == Init /\ config = CHOOSE c \in Configs : TRUE
NoStore ==
    /\ stored = {} /\ active = None /\ shown = {}
    /\ current = None /\ loading = FALSE /\ emptyList = FALSE /\ emptyCurrent = FALSE
    /\ lister = Store!Nobody /\ resolver = Store!Nobody /\ ops = [s \in Slots |-> Resting]
    /\ crossed = FALSE /\ opsDone = 0 /\ mishaps = 0

NoImport ==
    /\ login = None /\ imported = {} /\ baseline = None /\ enabled = FALSE
    /\ cycle = [m \in Import!Modes |-> Import!Resting] /\ holder = Import!NoHolder
    /\ reader = Import!NoReader /\ first = None /\ replaced = {}
    /\ acts = 0 /\ misses = 0

NoForm ==
    /\ settings = << >> /\ form = << >> /\ persisted = << >> /\ usable = FALSE
    /\ timer = << >> /\ saves = << >> /\ load = Form!NoLoad /\ loadFailed = FALSE
    /\ reloadLater = FALSE /\ events = 0 /\ chosen = << >> /\ excused = {}
    /\ edits = 0 /\ troubles = 0

\* The values of a field are alike: the settings may all begin with the same one.
FirstValues == settings = [f \in Fields |-> CHOOSE v \in Values : TRUE]

MCInit ==
    \/ /\ NoRefresh /\ NoStore /\ NoImport /\ NoForm
       /\ \/ provider = "trae" /\ Trae!Init /\ slot = Slot!Empty /\ NoQoder
          \/ Slot!SlotInit /\ NoTrae /\ NoQoder
          \/ provider = "qoder" /\ Qoder!QoderInit /\ NoDialog /\ NoTrae
    \/ provider = "refresh" /\ Init /\ NoLogin /\ NoStore /\ NoImport /\ NoForm
    \/ provider = "store" /\ Store!StoreInit /\ NoLogin /\ NoRefresh /\ NoImport /\ NoForm
    \/ provider = "import" /\ Import!Init /\ NoLogin /\ NoRefresh /\ NoStore /\ NoForm
    \/ /\ provider = "settings" /\ Form!Init /\ FirstValues
          /\ NoLogin /\ NoRefresh /\ NoStore /\ NoImport

Logs(A) == A /\ UNCHANGED <<refreshVars, storeAlone, importAlone, formAlone>>
OfTrae(A) == provider = "trae" /\ Logs(A) /\ UNCHANGED <<provider, slot, qoderAlone>>
OfSlot(A) ==
    provider \in Slot!Providers /\ Logs(A) /\ UNCHANGED <<traeAlone, qoderAlone>>
OfQoder(A) ==
    provider = "qoder" /\ Logs(A) /\ UNCHANGED <<provider, dialogAlone, traeAlone>>
OfRefresh(A) ==
    /\ provider = "refresh" /\ A
    /\ UNCHANGED <<provider, logins, storeAlone, importAlone, formAlone>>
OfStore(A) ==
    /\ provider = "store" /\ A
    /\ UNCHANGED <<provider, logins, refreshVars, importAlone, formAlone>>
OfImport(A) ==
    /\ provider = "import" /\ A
    /\ UNCHANGED <<provider, logins, refreshVars, storeAlone, formAlone>>
OfForm(A) ==
    /\ provider = "settings" /\ A
    /\ UNCHANGED <<provider, logins, refreshVars, storeAlone, importAlone>>

MCNext ==
    \/ OfTrae(Trae!Next) \/ OfSlot(Slot!SlotNext) \/ OfQoder(Qoder!QoderNext)
    \/ OfRefresh(Next) \/ OfStore(Store!StoreNext) \/ OfImport(Import!Next)
    \/ OfForm(Form!Next)

\* The fairness of the parts, of which one is there.
MCSpec ==
    /\ MCInit /\ [][MCNext]_mcVars
    /\ WF_mcVars(\/ OfTrae(Trae!Commands) \/ OfSlot(Slot!SlotCommands)
               \/ OfQoder(Qoder!Commands) \/ OfRefresh(Replies)
               \/ OfImport(Import!Goes))
    /\ WF_mcVars(\/ OfTrae(Trae!Clock) \/ OfSlot(Slot!SlotClock) \/ OfQoder(Qoder!Clock)
               \/ OfRefresh(Tick) \/ OfImport(Import!Polls))
    /\ WF_mcVars(\/ OfTrae(Trae!Answers) \/ OfSlot(Slot!SlotAnswers) \/ OfQoder(Qoder!Answers)
               \/ OfImport(Import!Enter("scan")))
    /\ \A t \in Tasks : WF_mcVars(OfRefresh(Finish(t)))

\* What is stored is what the program knows: of Trae's logins, what a restart would
\* find; and the settings, which are as the user chose them.
StoredIsKnown ==
    /\ provider = "trae" => Trae!MapAndFileAgree
    /\ provider = "settings" => Form!QuietFormIsTrue

\* A closed dialog leaves nothing behind, but for the closing after a success.
OnlyTheClosingLeavesLogins ==
    CASE provider = "trae" -> Trae!OnlyTheClosingLeavesLogins
      [] provider = "qoder" -> Qoder!ClosedMeansCancelled
      [] provider \in Slot!Providers -> Slot!OnlyTheClosingLeavesSlot
      [] OTHER -> TRUE

\* Trae's pending logins are forgotten for a reason only, and so is the login in the
\* slot of the others.
LoginsGoForAReason ==
    [][CASE provider = "trae" -> Trae!Forgets
         [] provider \in Slot!Providers -> Slot!Drops
         [] OTHER -> TRUE]_mcVars

\* Every login command comes to an end, whatever the user and the browser do,
\* unless one of them waits for itself.
CommandsEnd == (calls # {}) ~> (calls = {} \/ Trae!Stuck)

\* A login the client keeps is imported.
SwitchesAreImported == (provider = "import") => Import!SwitchesAreImported
=============================================================================
