----------------------------- MODULE QoderPage -----------------------------
(***************************************************************************)
(* What the dialog of Qoder's login shows, the commands it has in flight,  *)
(* and what the user is promised of both (src/pages/QoderAccountsPage.tsx).*)
(* QoderLogin is how that comes about.                                     *)
(***************************************************************************)
VARIABLES
    page,   \* [open, attempt, session, url, failed, preparing, completing]
    calls,  \* commands in flight, each with its operation and its attempt
    torn    \* a dialog was closed, or an attempt made, between the two parts of
            \* another attempt

\* A dialog that says it is preparing has a command in flight that will tell it
\* how that went; and one that waits for a login has the command that waits.
\* Otherwise it would stay so until the user closes it.
WorkInProgress ==
    ~torn /\ page.open =>
       /\ page.preparing =>
            \E c \in calls : c.attempt = page.attempt /\ c.op \in {"start", "peek", "replace"}
       /\ page.completing =>
            \E c \in calls : c.attempt = page.attempt /\ c.op = "complete"
=============================================================================
