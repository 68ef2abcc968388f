------------------------------ MODULE SlotLogin ------------------------------
(***************************************************************************)
(* The logins of CodeBuddy, CodeBuddy CN and WorkBuddy, and of WorkBuddy   *)
(* AI, under their dialog.  A provider has one slot for a pending login,   *)
(* behind a mutex.  A start overwrites it; the command that completes a    *)
(* login polls the provider with the slot unlocked, looking at the slot    *)
(* before every poll.                                                      *)
(***************************************************************************)
EXTENDS LoginDialog

VARIABLES
    provider,  \* "codebuddy" stands for CodeBuddy CN and WorkBuddy as well
    slot       \* PENDING_OAUTH_STATE: [login, cancelled]

slotVars == <<slot, issued, expired>>
allVars == <<dialogVars, provider, slotVars>>

Providers == {"codebuddy", "workbuddy_ai"}

Empty == [login |-> NoLogin, cancelled |-> FALSE]

SlotInit ==
    /\ DialogInit
    /\ provider \in Providers
    /\ slot = Empty /\ issued = 0 /\ expired = {}

\* The provider is asked for a login, and the slot overwritten with it.
Start(c) ==
    /\ c.op = "start" /\ c.pc = "called"
    /\ \/ /\ Reply(c, NoLogin, "error")
          /\ UNCHANGED slotVars
       \/ /\ issued' = issued + 1
          /\ slot' = [login |-> issued + 1, cancelled |-> FALSE]
          /\ Reply(c, issued + 1, "ok")
          /\ UNCHANGED expired

\* Plausible bug: a command that ends clears the slot, whoever is in it.
ClearOwn_Any(l) == Empty

\* What the command of CodeBuddy does however it ends, and WorkBuddy AI's never.
ClearOwn(l) == IF slot.login = l THEN Empty ELSE slot

\* Before each poll: is the login still the one to wait for?
Check(c) ==
    /\ c.op = "complete" /\ c.pc = "called"
    /\ LET mine == slot.login = c.login /\ ~slot.cancelled
           ends == ~mine \/ c.login \in expired
       IN  /\ Reply(c, c.login, IF ~mine THEN "error"
                                ELSE IF ends THEN "timeout" ELSE "polling")
           /\ slot' = IF ends /\ provider = "codebuddy"
                      THEN ClearOwn(c.login) ELSE slot
    /\ UNCHANGED <<issued, expired>>

\* A poll brings nothing.  The command's own ten minutes began after those of the
\* login: once they are over, CodeBuddy's clears the slot, whoever is in it.
PollAgain(c) ==
    /\ c.pc = "polling"
    /\ \/ /\ Reply(c, c.login, "called")
          /\ UNCHANGED slot
       \/ /\ c.login \in expired
          /\ slot' = IF provider = "codebuddy" THEN Empty ELSE slot
          /\ Reply(c, c.login, "timeout")
    /\ UNCHANGED <<issued, expired>>

\* A poll brings a token, and the account is stored.  CodeBuddy's is refreshed
\* before the slot is cleared.
PollSucceeds(c) ==
    /\ c.pc = "polling" /\ provider = "codebuddy"
    /\ Reply(c, c.login, "refreshing")
    /\ UNCHANGED slotVars

\* WorkBuddy AI's needs another reply before it is stored, which may fail; its
\* command then clears the slot, whoever is in it.
PollOfAISucceeds(c) ==
    /\ c.pc = "polling" /\ provider = "workbuddy_ai"
    /\ \/ slot' = Empty /\ Reply(c, c.login, "ok")
       \/ Reply(c, c.login, "error") /\ UNCHANGED slot
    /\ UNCHANGED <<issued, expired>>

Refreshed(c) ==
    /\ c.pc = "refreshing"
    /\ slot' = ClearOwn(c.login)
    /\ Reply(c, c.login, "ok")
    /\ UNCHANGED <<issued, expired>>

\* CodeBuddy's cancel is for one login, or for any if it has no id.
Cancelled(l) == IF l \in {slot.login, NoLogin} THEN Empty ELSE slot

\* WorkBuddy AI's has none and marks the login it finds.
Marked == [slot EXCEPT !.cancelled = slot # Empty]

CancelSlot(c) ==
    /\ c.op = "cancel" /\ c.pc = "called"
    /\ slot' = IF provider = "codebuddy" THEN Cancelled(c.login) ELSE Marked
    /\ Drop(c)
    /\ UNCHANGED <<issued, expired>>

SlotCallStep ==
    \E c \in calls : \/ Start(c) \/ Check(c) \/ PollAgain(c) \/ CancelSlot(c)
                     \/ PollSucceeds(c) \/ Refreshed(c) \/ PollOfAISucceeds(c)

\* Ten minutes pass.  (It matters for a login that someone still looks at.)
ExpireSlot ==
    /\ \E l \in 1..issued \ expired :
         /\ (l = slot.login \/ \E c \in calls : c.op = "complete" /\ c.login = l)
         /\ expired' = expired \cup {l}
    /\ UNCHANGED <<slot, issued>>

\* A step of the backend that leaves the dialog itself alone.
SlotBackendStep ==
    /\ SlotCallStep \/ (ExpireSlot /\ UNCHANGED calls)
    /\ UNCHANGED <<dialog, closings, attempts, overlapped, abandoned, provider>>

SlotNext == (DialogStep /\ UNCHANGED <<provider, slotVars>>) \/ SlotBackendStep

SlotSpec == SlotInit /\ [][SlotNext]_allVars

\* What is carried out in time, as in TraeLogin.
SlotCommands == SlotCallStep /\ SlotBackendStep
SlotClock == ExpireSlot /\ SlotBackendStep
SlotAnswers == ReplyStep /\ UNCHANGED <<provider, slotVars>>

-----------------------------------------------------------------------------
(* Properties                                                              *)

SlotTypeOK ==
    /\ provider \in Providers
    /\ issued \in 0..attempts
    /\ slot \in [login : 0..issued, cancelled : BOOLEAN]
    /\ expired \subseteq 1..issued

\* A login leaves the slot because it has expired, because its own command is
\* done, because a newer one takes its place or because it is cancelled; never
\* for the sake of another login, but for an older one in its last poll, which
\* ends with a token (WorkBuddy AI) or after its time (the others).
Drops ==
    LET l == slot.login
    IN  l \notin {slot'.login, NoLogin} =>
           \/ l \in expired \/ slot'.login > l
           \/ \E c \in calls \ calls' :
                 \/ c.op = "cancel" /\ c.login \in {l, NoLogin}
                 \/ c.op = "complete" /\ c.login = l /\ c.pc # "called"
                 \/ /\ c.op = "complete" /\ c.pc = "polling"
                    /\ (provider = "workbuddy_ai" \/ c.login \in expired)

DroppedForAReason == [][Drops]_allVars

\* The login in the slot can still be completed.
SlotIsLive == slot # Empty /\ ~slot.cancelled /\ slot.login \notin expired

\* A dialog that is closed, once its commands have been carried out, has left no
\* login that could still be completed, unless a success has closed it over a
\* later attempt.
OnlyTheClosingLeavesSlot ==
    /\ ~dialog.open /\ ~abandoned
    /\ \A c \in calls : c.op \in {"browse", "complete", "fetch"}
    => ~SlotIsLive
=============================================================================
