----------------------------- MODULE QoderLogin -----------------------------
(***************************************************************************)
(* The login of Qoder (Qoder CN and QwenWork are alike) and its own dialog *)
(* (QoderAccountsPage).  The dialog waits for the cancel of its previous   *)
(* login before it starts another, gives up on a start that takes longer   *)
(* than ten seconds and then looks for what it has left (peek), and closes *)
(* as soon as a login succeeds.                                            *)
(*                                                                         *)
(* The pending login is in one slot, behind a mutex that a command locks   *)
(* once more when it finds its login expired.                              *)
(***************************************************************************)
EXTENDS Naturals, FiniteSets, QoderPage

CONSTANTS
    MaxAttempts,  \* bound: attempts to log in
    MaxFaults,    \* bound: starts that time out, accounts not listed, failed polls
    MaxCalls      \* bound: the user acts only while fewer commands are in flight

QoderBounds == {MaxAttempts, MaxFaults, MaxCalls} \subseteq Nat

VARIABLES
    attempts,  \* attempts made so far
    slot,      \* PENDING_OAUTH_STATE: the pending login, or NoLogin
    issued,    \* logins created so far
    expired,   \* logins past their expires_at
    faults,
    givenUp    \* a start was given up

pageVars == <<page, attempts>>
slotVars == <<slot, issued, expired>>
history == <<torn, givenUp>>
vars == <<page, calls, attempts, slot, issued, expired, faults, torn, givenUp>>

NoLogin == 0
Logins == 1..(MaxAttempts + MaxFaults)

Idle == [open |-> FALSE, attempt |-> 0, session |-> NoLogin, url |-> FALSE,
         failed |-> FALSE, preparing |-> FALSE, completing |-> FALSE]

Command(op, attempt, login) ==
    [op |-> op, attempt |-> attempt, login |-> login, pc |-> "called"]

Replace(c, ds) == calls' = (calls \ {c}) \cup ds
Answered(c, l, pc) == Replace(c, {[c EXCEPT !.login = l, !.pc = pc]})

\* A command waits for the mutex it holds, and so does whoever asks for it next.
Stuck == \E c \in calls : c.pc = "stuck"

Fault == faults < MaxFaults /\ faults' = faults + 1

QoderInit ==
    /\ page = Idle /\ attempts = 0 /\ calls = {}
    /\ slot = NoLogin /\ issued = 0 /\ expired = {}
    /\ faults = 0 /\ torn = FALSE /\ givenUp = FALSE

-----------------------------------------------------------------------------
(* The dialog                                                              *)

Cancels(l) == IF l = NoLogin THEN {} ELSE {Command("cancel", 0, l)}

Tear == torn' = (torn \/ \E c \in calls : c.op = "replace")

Open ==
    /\ ~page.open
    /\ page' = [page EXCEPT !.open = TRUE]
    /\ UNCHANGED <<calls, attempts, slotVars, faults, history>>

\* The dialog is closed, or its tab or page left: everything is reset.
Close ==
    /\ page.open
    /\ page' = Idle
    /\ calls' = calls \cup Cancels(page.session)
    /\ Tear
    /\ UNCHANGED <<attempts, slotVars, faults, givenUp>>

\* An attempt begins by itself if the dialog shows no address, or by the button
\* beside an error.
\* It starts a login at once, or when the previous one has been cancelled.
Prepare ==
    /\ page.open /\ ~page.preparing /\ ~page.completing
    /\ page.failed \/ ~page.url
    /\ attempts < MaxAttempts
    /\ attempts' = attempts + 1
    /\ IF page.session = NoLogin
       THEN /\ page' = [Idle EXCEPT !.open = TRUE, !.attempt = attempts + 1,
                                    !.preparing = TRUE]
            /\ calls' = calls \cup {Command("start", attempts + 1, NoLogin)}
       ELSE /\ page' = [page EXCEPT !.attempt = attempts + 1]
            /\ calls' = calls \cup {Command("replace", attempts + 1, page.session)}
    /\ Tear
    /\ UNCHANGED <<slotVars, faults, givenUp>>

\* The previous login is cancelled.  Whether the attempt still counts is not
\* asked, and the dialog may be closed.
Replaced(c) ==
    /\ c.op = "replace" /\ c.pc = "ok"
    /\ page' = [page EXCEPT !.session = NoLogin, !.url = FALSE,
                            !.failed = FALSE, !.preparing = TRUE, !.completing = FALSE]
    /\ Replace(c, {Command("start", c.attempt, NoLogin)})
    /\ UNCHANGED <<attempts, slotVars, faults, history>>

\* A login is known: it is shown and waited for, or cancelled if it is stale.
Adopt(c, l) ==
    IF c.attempt = page.attempt
    THEN /\ page' = [page EXCEPT !.session = l, !.url = TRUE,
                                 !.preparing = FALSE, !.completing = TRUE]
         /\ Replace(c, {Command("complete", c.attempt, l)})
    ELSE /\ Replace(c, Cancels(l))
         /\ UNCHANGED page

StartReply(c) ==
    /\ c.op = "start" /\ c.pc = "ok"
    /\ Adopt(c, c.login)
    /\ UNCHANGED <<attempts, slotVars, faults, history>>

\* The start takes too long.  It goes on, but its reply is not awaited any
\* more; an attempt that still counts looks for the login.
StartTimesOut(c) ==
    /\ c.op = "start" /\ c.pc = "called"
    /\ Fault
    /\ givenUp' = TRUE
    /\ Replace(c, {[c EXCEPT !.op = "given up"]} \cup
          (IF c.attempt = page.attempt THEN {Command("peek", c.attempt, NoLogin)} ELSE {}))
    /\ UNCHANGED <<page, attempts, slotVars, torn>>

\* Plausible bug: only an error of the last peek is shown, not an empty answer.
PeekReply_Unreported(c) ==
    /\ c.op = "peek" /\ c.pc = "ok"
    /\ \/ /\ c.login # NoLogin
          /\ Adopt(c, c.login)
       \/ /\ c.login = NoLogin
          /\ Replace(c, {}) /\ UNCHANGED page
    /\ UNCHANGED <<attempts, slotVars, faults, history>>

\* The peek found a login, or none in several trials.
PeekReply(c) ==
    /\ c.op = "peek" /\ c.pc = "ok"
    /\ \/ /\ c.login # NoLogin
          /\ Adopt(c, c.login)
       \/ /\ c.login = NoLogin
          /\ page' = IF c.attempt = page.attempt
                     THEN [page EXCEPT !.failed = TRUE, !.preparing = FALSE,
                                       !.completing = FALSE]
                     ELSE page
          /\ Replace(c, {})
    /\ UNCHANGED <<attempts, slotVars, faults, history>>

\* Meanwhile a dialog that prepares shows any login it finds.
AdoptPending ==
    /\ page.open /\ page.preparing /\ ~page.url /\ ~Stuck
    /\ slot \notin expired \cup {NoLogin}
    /\ page' = [page EXCEPT !.url = TRUE, !.preparing = FALSE,
                   !.failed = FALSE, !.session = IF @ = NoLogin THEN slot ELSE @]
    /\ UNCHANGED <<calls, attempts, slotVars, faults, history>>

\* A success closes the dialog, once the account is listed.  Whatever is not for
\* the login that the dialog shows is ignored.
CompleteReply(c) ==
    /\ c.op = "complete" /\ c.pc \in {"ok", "error"}
    /\ Replace(c, {})
    /\ \/ /\ c.attempt # page.attempt \/ c.login # page.session
          /\ UNCHANGED <<page, faults>>
       \/ /\ c.attempt = page.attempt /\ c.login = page.session
          /\ \/ c.pc = "ok" /\ page' = Idle /\ UNCHANGED faults
             \/ /\ \/ c.pc = "error" /\ UNCHANGED faults
                   \/ c.pc = "ok" /\ Fault
                /\ page' = [page EXCEPT !.failed = TRUE, !.completing = FALSE]
    /\ UNCHANGED <<attempts, slotVars, history>>

UserStep == Cardinality(calls) < MaxCalls /\ (Open \/ Close)
PageStep ==
    \/ Prepare \/ AdoptPending
    \/ \E c \in calls : Replaced(c) \/ StartReply(c) \/ PeekReply(c) \/ CompleteReply(c)

-----------------------------------------------------------------------------
(* The commands                                                            *)

\* The slot is overwritten.
Start(c) ==
    /\ c.op \in {"start", "given up"} /\ c.pc = "called" /\ ~Stuck
    /\ issued' = issued + 1 /\ slot' = issued + 1
    /\ IF c.op = "start" THEN Answered(c, issued + 1, "ok") ELSE Replace(c, {})
    /\ UNCHANGED expired

Peek(c) ==
    /\ c.op = "peek" /\ c.pc = "called" /\ ~Stuck
    /\ Answered(c, IF slot \in expired THEN NoLogin ELSE slot, "ok")
    /\ UNCHANGED slotVars

Clear(l) == slot' = IF slot = l THEN NoLogin ELSE slot

Cancel(c) ==
    /\ c.op \in {"cancel", "replace"} /\ c.pc = "called" /\ ~Stuck
    /\ Clear(c.login)
    /\ IF c.op = "replace" THEN Answered(c, c.login, "ok") ELSE Replace(c, {})
    /\ UNCHANGED <<issued, expired>>

\* Before each poll the slot is looked at.  An expired login is to be cleared, by
\* a function that locks the mutex again.
Check(c) ==
    /\ c.op = "complete" /\ c.pc = "called" /\ ~Stuck
    /\ Answered(c, c.login, IF slot # c.login THEN "error"
                          ELSE IF slot \in expired THEN "stuck" ELSE "polling")
    /\ UNCHANGED slotVars

\* A poll brings nothing, or a token.  The account is then fetched and stored,
\* which may fail and leaves the slot as it is.
Poll(c) ==
    /\ c.pc = "polling" /\ ~Stuck
    /\ \/ /\ Answered(c, c.login, "called")
          /\ UNCHANGED <<slot, faults>>
       \/ /\ Clear(c.login)
          /\ Answered(c, c.login, "ok")
          /\ UNCHANGED faults
       \/ /\ Fault
          /\ Answered(c, c.login, "error")
          /\ UNCHANGED slot
    /\ UNCHANGED <<issued, expired>>

CommandStep ==
    \E c \in calls :
        \/ (Start(c) \/ Peek(c) \/ Cancel(c) \/ Check(c)) /\ UNCHANGED faults
        \/ Poll(c)

\* Time passes.
Expire ==
    /\ \E l \in Logins :
         /\ l = slot \/ \E c \in calls : c.login = l
         /\ expired' = expired \cup {l}
    /\ UNCHANGED <<calls, slot, issued, faults>>

BackendStep == (CommandStep \/ Expire) /\ UNCHANGED <<pageVars, history>>

QoderNext == UserStep \/ PageStep \/ BackendStep \/ \E c \in calls : StartTimesOut(c)

QoderSpec == QoderInit /\ [][QoderNext]_vars

\* What is carried out in time: commands, the clock, and the dialog's own steps.
Commands == CommandStep /\ UNCHANGED <<pageVars, history>>
Clock == Expire /\ UNCHANGED <<pageVars, history>>
Answers == PageStep

-----------------------------------------------------------------------------
(* Properties                                                              *)

QoderTypeOK ==
    /\ page \in [open : BOOLEAN, attempt : 0..MaxAttempts,
                 session : Logins \cup {NoLogin}, url : BOOLEAN,
                 failed : BOOLEAN, preparing : BOOLEAN, completing : BOOLEAN]
    /\ attempts \in 0..MaxAttempts /\ issued \in 0..attempts
    /\ slot \in 0..issued /\ expired \subseteq 1..issued
    /\ faults \in 0..MaxFaults /\ {torn, givenUp} \subseteq BOOLEAN

\* A login that times out is cleared and reported as timed out, so that another
\* can be started (the message of complete_login).
NothingWaitsForItself == ~Stuck

\* A dialog that is closed, once its commands have been carried out, has left no
\* login that could still be completed.
ClosedMeansCancelled ==
    /\ ~givenUp /\ ~page.open
    /\ \A c \in calls : c.op = "complete"
    => slot \in expired \cup {NoLogin}
=============================================================================
