----------------------------- MODULE AccountList -----------------------------
(***************************************************************************)
(* The accounts of one provider in the backend and in a window, the        *)
(* operations the window has in flight, and what the user is promised of   *)
(* them (src/stores/createProviderAccountStore.ts).  ProviderStore is how  *)
(* that comes about.                                                       *)
(***************************************************************************)
CONSTANTS
    None,      \* no account
    Slots      \* operations in flight at a time

VARIABLES
    stored,    \* accounts in the backend
    active,    \* the current account there
    shown,     \* accounts in the window
    current,   \* currentAccountId
    loading,
    emptyList, \* allowNextEmptyAccountList
    ops,       \* operations in flight
    crossed,   \* a deletion overlapped another operation
    mishaps    \* failures, and lists that are empty by mistake

Resting == [op |-> "none", who |-> {}, pc |-> "idle", got |-> {}, id |-> None]

InBackend == IF active \in stored THEN active ELSE None

WindowRests == \A s \in Slots : ops[s] = Resting

\* When nothing is in flight and nothing has gone wrong, the window does not wait, and
\* it shows the accounts there are, none that was deleted, and the current one; except
\* that the last accounts stay on screen, or the last current one, if the deletion
\* that emptied the backend overlapped another operation.
QuietWindowIsTrue ==
    WindowRests /\ mishaps = 0 =>
        /\ ~loading /\ ~emptyList
        /\ shown = stored \/ (stored = {} /\ crossed)
        /\ current = InBackend \/ (InBackend = None /\ crossed)
=============================================================================
