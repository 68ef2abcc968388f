----------------------------- MODULE LoginDialog -----------------------------
(***************************************************************************)
(* The "add account" dialog of a provider's page (useProviderAccountsPage) *)
(* and the login commands it has in flight.  The dialog starts a login as  *)
(* soon as it is shown, opens the browser, and waits for the login to      *)
(* complete; closing it, leaving its tab or leaving the page cancels.      *)
(* Within one attempt every command is awaited; a cancel and the next      *)
(* attempt are not, so the commands of two attempts overlap.  An attempt   *)
(* whose number is no longer the dialog's is stale.                        *)
(*                                                                         *)
(* A command is sent with pc "called"; TraeLogin and SlotLogin carry it    *)
(* out and leave it at its reply.                                          *)
(***************************************************************************)
EXTENDS Naturals, FiniteSets

CONSTANTS
    MaxAttempts,  \* bound: attempts of the dialog to log in
    MaxCalls      \* bound: the user acts only while fewer commands are in flight

DialogBounds == MaxAttempts \in Nat /\ MaxCalls \in Nat

VARIABLES
    dialog,     \* [open, attempt, login, shown]
    closings,   \* closings due 1.2 seconds after a success
    calls,      \* login commands in flight
    attempts,   \* attempts made so far, which is also the number of the last
    overlapped, \* a start met another, a cancel or the start-up in flight
    abandoned,  \* a dialog has dropped its login without cancelling it
    issued,     \* logins created so far
    expired     \* logins past their expires_at

dialogVars == <<dialog, closings, calls, attempts, overlapped, abandoned>>

\* Login ids are numbered in the order in which they are created.
NoLogin == 0
Logins == 1..MaxAttempts

Replies == {"ok", "error", "timeout"}

Call(op, attempt, login) ==
    [op |-> op, attempt |-> attempt, login |-> login, pc |-> "called"]

Replace(c, d) == calls' = (calls \ {c}) \cup {d}
Drop(c) == calls' = calls \ {c}
Reply(c, l, reply) == Replace(c, [c EXCEPT !.login = l, !.pc = reply])

\* State and attempt after a reset (resetAddModalState): no reply counts.
Idle == [open |-> FALSE, attempt |-> 0, login |-> NoLogin, shown |-> "nothing"]

DialogInit ==
    /\ dialog = Idle /\ closings = 0 /\ calls = {} /\ attempts = 0
    /\ overlapped = FALSE /\ abandoned = FALSE

-----------------------------------------------------------------------------

\* An attempt begins while the calls cs are in flight.
Prepare(cs) ==
    /\ attempts < MaxAttempts
    /\ attempts' = attempts + 1
    /\ dialog' = [Idle EXCEPT !.open = TRUE, !.attempt = attempts + 1]
    /\ calls' = cs \cup {Call("start", attempts + 1, NoLogin)}
    /\ overlapped' = (overlapped \/ \E c \in cs : c.op \in {"start", "cancel", "restore"})

Cancels(login) == {Call("cancel", 0, login)}

\* The dialog is shown and its attempt begins by itself.
Open ==
    /\ ~dialog.open
    /\ Prepare(calls)
    /\ UNCHANGED <<closings, abandoned>>

\* The dialog is closed, which always cancels, with or without a login id; or
\* its tab or page is left, which cancels a login whose id is known.
Close ==
    /\ dialog.open
    /\ \E forced \in BOOLEAN :
         calls' = calls \cup (IF forced \/ dialog.login # NoLogin
                              THEN Cancels(dialog.login) ELSE {})
    /\ dialog' = Idle
    /\ overlapped' = (overlapped \/ \E c \in calls : c.op = "start")
    /\ UNCHANGED <<closings, attempts, abandoned>>

\* The button beside the error of a start, or of a login that timed out.
Retry ==
    /\ dialog.shown \in {"prepare error", "timed out"}
    /\ Prepare(calls \cup (IF dialog.login # NoLogin
                           THEN Cancels(dialog.login) ELSE {}))
    /\ UNCHANGED <<closings, abandoned>>

\* Plausible bug: a stale start is ignored.
StartReply_StaleIgnored(c) ==
    /\ c.op = "start" /\ c.pc \in Replies
    /\ \/ /\ c.attempt # dialog.attempt
          /\ Drop(c) /\ UNCHANGED dialog
       \/ /\ c.attempt = dialog.attempt /\ c.pc = "ok"
          /\ dialog' = [dialog EXCEPT !.login = c.login, !.shown = "url"]
          /\ Replace(c, Call("browse", c.attempt, c.login))
       \/ /\ c.attempt = dialog.attempt /\ c.pc # "ok"
          /\ dialog' = [dialog EXCEPT !.shown = "prepare error"]
          /\ Drop(c)
    /\ UNCHANGED <<closings, attempts, overlapped, abandoned>>

\* A stale start is cancelled.  Otherwise its page is opened in the browser.
StartReply(c) ==
    /\ c.op = "start" /\ c.pc \in Replies
    /\ \/ /\ c.attempt # dialog.attempt
          /\ calls' = (calls \ {c})
                \cup (IF c.pc = "ok" THEN Cancels(c.login) ELSE {})
          /\ UNCHANGED dialog
       \/ /\ c.attempt = dialog.attempt /\ c.pc = "ok"
          /\ dialog' = [dialog EXCEPT !.login = c.login, !.shown = "url"]
          /\ Replace(c, Call("browse", c.attempt, c.login))
       \/ /\ c.attempt = dialog.attempt /\ c.pc # "ok"
          /\ dialog' = [dialog EXCEPT !.shown = "prepare error"]
          /\ Drop(c)
    /\ UNCHANGED <<closings, attempts, overlapped, abandoned>>

\* The browser has been launched; the attempt goes on, stale or not.
Browsed(c) ==
    /\ c.op = "browse"
    /\ Replace(c, Call("complete", c.attempt, c.login))
    /\ UNCHANGED <<dialog, closings, attempts, overlapped, abandoned>>

CompleteReply(c) ==
    /\ c.op = "complete" /\ c.pc \in Replies
    /\ \/ /\ c.attempt # dialog.attempt
          /\ Drop(c)
          /\ UNCHANGED dialog
       \/ /\ c.attempt = dialog.attempt /\ c.pc = "ok"
          /\ Replace(c, Call("fetch", c.attempt, c.login))
          /\ UNCHANGED dialog
       \/ /\ c.attempt = dialog.attempt /\ c.pc # "ok"
          /\ dialog' = [dialog EXCEPT !.shown =
               IF c.pc = "timeout" THEN "timed out" ELSE "complete error"]
          /\ Drop(c)
    /\ UNCHANGED <<closings, attempts, overlapped, abandoned>>

\* After a success the accounts are fetched, and then the dialog is cleared,
\* whichever attempt it is at.  It stays on screen until its closing is due: like
\* a dialog just shown, it begins the next attempt by itself.
Fetched(c) ==
    /\ c.op = "fetch"
    /\ closings' = closings + 1
    /\ abandoned' = (abandoned \/ dialog.login \notin {c.login, NoLogin})
    /\ \/ /\ dialog.shown # "nothing"
          /\ Prepare(calls \ {c})
       \/ /\ dialog.shown # "nothing" /\ attempts = MaxAttempts
          /\ dialog' = [Idle EXCEPT !.open = TRUE]
          /\ Drop(c)
          /\ UNCHANGED <<attempts, overlapped>>
       \/ /\ dialog.shown = "nothing"
          /\ Drop(c)
          /\ UNCHANGED <<dialog, attempts, overlapped>>

\* The closing that a success has scheduled.  It cancels nothing, whatever the
\* dialog shows by now.
CloseAfterSuccess ==
    /\ closings > 0
    /\ closings' = closings - 1
    /\ abandoned' = (abandoned \/ dialog.login # NoLogin)
    /\ dialog' = Idle
    /\ UNCHANGED <<calls, attempts, overlapped>>

UserStep == Cardinality(calls) < MaxCalls /\ (Open \/ Close \/ Retry)
ReplyStep ==
    \E c \in calls : StartReply(c) \/ Browsed(c) \/ CompleteReply(c) \/ Fetched(c)
DialogStep == UserStep \/ ReplyStep \/ CloseAfterSuccess
=============================================================================
