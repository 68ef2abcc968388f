------------------------------ MODULE TraeLogin ------------------------------
(***************************************************************************)
(* The Trae login of one platform (trae_oauth) under its dialog.  Pending  *)
(* logins are kept in a map and in one file, so that a login survives a    *)
(* restart of the program.  A thread per login listens on its port for the *)
(* browser's callback; the command that completes the login polls the map. *)
(* The map is changed under its mutex, the file mostly after it.           *)
(***************************************************************************)
EXTENDS LoginDialog

CONSTANTS
    MaxRestarts  \* bound: restarts of the program

VARIABLES
    pending,  \* PENDING_OAUTH_STATE: login -> callback result
    file,     \* the platform's file: a login and its result, or NoFile
    servers,  \* logins whose callback server listens
    revived,  \* a login was read from the file while it was being removed
    resumable, \* a restart has left a login on the disk
    restarts

backend == <<pending, file, servers, issued, expired>>
history == <<revived, resumable, restarts>>
vars == <<dialogVars, backend, history>>

NoFile == [login |-> NoLogin, result |-> "none"]

\* Nothing yet; or a code or an error, which both end the waiting (a code is
\* exchanged for tokens, and that may fail like an error).
Results == {"none", "arrived"}

Stored(l, r) == [login |-> l, result |-> r]
Listed == DOMAIN pending

With(l, r) == [k \in Listed \cup {l} |-> IF k = l THEN r ELSE pending[k]]
Without(ls) == [k \in Listed \ ls |-> pending[k]]

\* A thread that asks for the mutex it holds never goes on, nor does anyone who
\* asks for it afterwards.
Stuck == \E c \in calls : c.pc = "stuck"

Go(c, pc) == Replace(c, [c EXCEPT !.pc = pc])

Init ==
    /\ DialogInit
    /\ pending = << >> /\ file = NoFile /\ servers = {} /\ issued = 0
    /\ expired = {} /\ revived = FALSE /\ resumable = FALSE /\ restarts = 0

-----------------------------------------------------------------------------

\* Cancels are synchronous commands, so the main thread runs one at a time.
Cancelling == \E c \in calls : c.op = "cancel" /\ c.pc # "called"

\* Plausible bug: only the start of the program reads the file.
HydrateIfMissing_Never ==
    ~Stuck /\ UNCHANGED <<pending, file, revived>>

\* Every command first reads the file if the map is empty.  A login that has
\* expired is deleted instead.
HydrateIfMissing ==
    LET reads == Listed = {} /\ file # NoFile
    IN  /\ ~Stuck
        /\ pending' = IF reads /\ file.login \notin expired
                      THEN With(file.login, file.result) ELSE pending
        /\ file' = IF reads /\ file.login \in expired THEN NoFile ELSE file
        /\ revived' = (revived \/
             (reads /\ \E c \in calls : c.op = "finish" \/ c.pc \in {"unlink", "wipe"}))

Hydrate(c) ==
    /\ c.op \in {"start", "complete", "cancel", "restore"} /\ c.pc = "called"
    /\ c.op = "cancel" => ~Cancelling
    /\ HydrateIfMissing
    /\ Go(c, "look")
    /\ UNCHANGED <<servers, issued, expired>>

\* A login to be used again: the commands of one attempt can follow those of
\* another, or of the program before a restart.
Reusable == Listed \ expired

\* The login is answered again and its server started again if it does not
\* listen and there is no result yet.  The map is locked throughout.
StartAgain(c) ==
    /\ c.op = "start" /\ c.pc = "look" /\ ~Stuck
    /\ \E l \in Reusable :
         /\ servers' = IF pending[l] = "none" THEN servers \cup {l} ELSE servers
         /\ Reply(c, l, "ok")
    /\ UNCHANGED <<pending, file, issued, expired>>

\* The login expires between the two readings of the clock: it is then removed,
\* which asks for the mutex again.
StartAtTheSecond(c) ==
    /\ c.op = "start" /\ c.pc = "look" /\ ~Stuck
    /\ \E l \in Reusable : expired' = expired \cup {l}
    /\ Go(c, "stuck")
    /\ UNCHANGED <<pending, file, servers, issued>>

\* No login to use: all are removed from the map,
StartAfresh(c) ==
    /\ c.op = "start" /\ c.pc = "look" /\ ~Stuck
    /\ Reusable = {}
    /\ Go(c, "retain")
    /\ UNCHANGED backend

Retain(c) ==
    /\ c.pc = "retain" /\ ~Stuck
    /\ pending' = << >>
    /\ Go(c, "unlink")
    /\ UNCHANGED <<file, servers, issued, expired>>

\* then from the disk.  Trae's server is asked for a host and may not answer.
Unlink(c) ==
    /\ c.pc = "unlink"
    /\ file' = NoFile
    /\ \E pc \in {"insert", "error"} : Go(c, pc)
    /\ UNCHANGED <<pending, servers, issued, expired>>

\* A new login is put into the map, then into the file.  Its server starts.
Insert(c) ==
    /\ c.pc = "insert" /\ ~Stuck
    /\ issued' = issued + 1
    /\ pending' = With(issued + 1, "none")
    /\ Replace(c, [c EXCEPT !.login = issued + 1, !.pc = "persist"])
    /\ UNCHANGED <<file, servers, expired>>

Persist(c) ==
    /\ c.pc = "persist"
    /\ file' = Stored(c.login, "none")
    /\ servers' = servers \cup {c.login}
    /\ Reply(c, c.login, "ok")
    /\ UNCHANGED <<pending, issued, expired>>

-----------------------------------------------------------------------------

\* Plausible bug: the login's time is left to its callback server.
Poll_NoDeadline(c) ==
    /\ c.op = "complete" /\ c.pc = "look" /\ ~Stuck
    /\ \/ c.login \notin Listed /\ Go(c, "fail")
       \/ /\ c.login \in Listed /\ pending[c.login] = "arrived"
          /\ \E pc \in {"succeed", "fail"} : Go(c, pc)
    /\ UNCHANGED backend

\* Completing a login: the map is looked at until there is a reason to stop.  A
\* code that arrived is exchanged for tokens, which may fail.
Poll(c) ==
    /\ c.op = "complete" /\ c.pc = "look" /\ ~Stuck
    /\ \/ /\ c.login \notin Listed
          /\ Go(c, "fail")
       \/ /\ c.login \in Listed \cap expired
          /\ Go(c, "expire")
       \/ /\ c.login \in Listed \ expired /\ pending[c.login] = "arrived"
          /\ \E pc \in {"succeed", "fail"} : Go(c, pc)
    /\ UNCHANGED backend

\* The reply of a completion at pc; the command stores the account of one that
\* succeeds before it replies.
Outcome(pc) ==
    CASE pc = "succeed" -> "ok" [] pc = "expire" -> "timeout" [] OTHER -> "error"

\* However it ended, the login is removed from the map,
RemoveCompleted(c) ==
    /\ c.op = "complete" /\ c.pc \in {"succeed", "expire", "fail"} /\ ~Stuck
    /\ pending' = Without({c.login})
    /\ IF c.login \in Listed
       THEN Replace(c, [c EXCEPT !.op = "finish"])
       ELSE Reply(c, c.login, Outcome(c.pc))
    /\ UNCHANGED <<file, servers, issued, expired>>

\* and then the platform's file is deleted, whichever login it holds by now.
Finish(c) ==
    /\ c.op = "finish"
    /\ file' = NoFile
    /\ Replace(c, [c EXCEPT !.op = "complete", !.pc = Outcome(c.pc)])
    /\ UNCHANGED <<pending, servers, issued, expired>>

\* Cancelling looks a login up, by its id or else by its platform, and removes
\* it from the map,
Cancel(c) ==
    /\ c.op = "cancel" /\ c.pc = "look" /\ ~Stuck
    /\ LET found == {l \in Listed : c.login \in {l, NoLogin}}
       IN  \/ found = {} /\ Drop(c) /\ UNCHANGED pending
          \/ \E l \in found :
                /\ pending' = Without({l})
                /\ Replace(c, [c EXCEPT !.login = l, !.pc = "wipe"])
    /\ UNCHANGED <<file, servers, issued, expired>>

\* and then from the disk.
Wipe(c) ==
    /\ c.pc = "wipe"
    /\ file' = NoFile
    /\ Drop(c)
    /\ UNCHANGED <<pending, servers, issued, expired>>

\* When the program starts, the server of a login found on the disk is started;
\* one that has expired meanwhile is removed.
Restore(c) ==
    /\ c.op = "restore" /\ c.pc = "look" /\ ~Stuck
    /\ \/ /\ Listed = {}
          /\ Drop(c) /\ UNCHANGED <<pending, servers>>
       \/ \E l \in Listed \ expired :
            /\ Drop(c) /\ UNCHANGED pending
            /\ servers' = IF pending[l] = "none" THEN servers \cup {l} ELSE servers
       \/ \E l \in Listed \cap expired :
            /\ Replace(c, [c EXCEPT !.login = l, !.pc = "wipe"])
            /\ pending' = Without({l}) /\ UNCHANGED servers
    /\ UNCHANGED <<file, issued, expired>>

CallStep ==
    \E c \in calls :
        \/ StartAgain(c) \/ StartAfresh(c) \/ Retain(c) \/ Unlink(c)
        \/ Insert(c) \/ Persist(c)
        \/ Poll(c) \/ RemoveCompleted(c) \/ Finish(c)
        \/ Cancel(c) \/ Wipe(c) \/ Restore(c)

-----------------------------------------------------------------------------

\* Plausible bug: the result is not saved.
SetResult_MapOnly(l) ==
    /\ pending' = With(l, "arrived")
    /\ UNCHANGED file

\* A result is put into the map and, under the same lock, into the file.
SetResult(l) ==
    /\ pending' = With(l, "arrived")
    /\ file' = Stored(l, "arrived")

\* The browser calls back with a code or an error, or listening fails; the
\* server ends.
Callback(l) ==
    /\ l \in servers /\ l \in Listed /\ ~Stuck
    /\ SetResult(l)
    /\ servers' = servers \ {l}
    /\ UNCHANGED <<issued, expired>>

\* The server of a login that is gone ends, and so does that of one that has
\* expired, with an error for its result.
ServerEnds(l) ==
    /\ l \in servers /\ ~Stuck
    /\ \/ l \notin Listed /\ UNCHANGED <<pending, file>>
       \/ l \in Listed \cap expired /\ SetResult(l)
    /\ servers' = servers \ {l}
    /\ UNCHANGED <<issued, expired>>

\* The user pastes the callback's address into the dialog.
SubmitCallback ==
    /\ ~Cancelling
    /\ dialog.shown = "url" /\ ~Stuck
    /\ dialog.login \in Listed \ expired
    /\ SetResult(dialog.login)
    /\ UNCHANGED <<servers, issued, expired>>

\* Ten minutes pass since the login was made; its file is written by then.  (The
\* time of a login that is stored nowhere does not matter.)
Expire(l) ==
    /\ l \in (Listed \cup {file.login}) \ (expired \cup {NoLogin})
    /\ \A c \in calls : c.pc # "persist"
    /\ expired' = expired \cup {l}
    /\ UNCHANGED <<pending, file, servers, issued>>

\* The program ends at any moment and is started again.  (Bound: an attempt is
\* left to meet what the restart leaves behind.)
Restart ==
    /\ restarts < MaxRestarts /\ attempts < MaxAttempts
    /\ restarts' = restarts + 1
    /\ pending' = << >> /\ servers' = {}
    /\ dialog' = Idle /\ closings' = 0
    /\ calls' = {Call("restore", 0, NoLogin)}
    /\ resumable' = (resumable \/ file # NoFile)
    /\ UNCHANGED <<file, issued, expired>>
    /\ UNCHANGED <<attempts, overlapped, abandoned, revived>>

ServerStep == \E l \in Logins : Callback(l) \/ ServerEnds(l)

\* A step of the backend that leaves the dialog itself alone.
BackendStep ==
    /\ \/ \E c \in calls : Hydrate(c)
       \/ /\ \/ CallStep \/ \E c \in calls : StartAtTheSecond(c)
             \/ /\ ServerStep \/ SubmitCallback \/ \E l \in Logins : Expire(l)
                /\ UNCHANGED calls
          /\ UNCHANGED revived
    /\ UNCHANGED <<dialog, closings, attempts, overlapped, abandoned>>
    /\ UNCHANGED <<resumable, restarts>>

Next == (DialogStep /\ UNCHANGED <<backend, history>>) \/ BackendStep \/ Restart

Spec == Init /\ [][Next]_vars

\* Commands are carried out, replies handled, and time passes.  Neither the user
\* nor the browser ever has to do anything.
Commands == (CallStep \/ \E c \in calls : Hydrate(c)) /\ BackendStep
Clock == (\E l \in Logins : Expire(l)) /\ BackendStep
Answers == ReplyStep /\ UNCHANGED <<backend, history>>

-----------------------------------------------------------------------------
(* Properties                                                              *)

TypeOK ==
    /\ dialog \in [open : BOOLEAN, attempt : 0..MaxAttempts,
                   login : Logins \cup {NoLogin},
                   shown : {"nothing", "url", "prepare error", "complete error",
                            "timed out"}]
    /\ attempts \in 0..MaxAttempts /\ issued \in 0..attempts
    /\ Listed \subseteq 1..issued
    /\ \A l \in Listed : pending[l] \in Results
    /\ file = NoFile \/ file \in [login : 1..issued, result : Results]
    /\ servers \cup expired \subseteq 1..issued

\* Nothing is in flight but an attempt that waits for the user.
Quiet ==
    \A c \in calls : c.op \in {"browse", "fetch"} \/
                    (c.op = "complete" /\ c.pc \in Replies \cup {"called", "look"})

\* Between commands the file holds the pending login with its result, or
\* nothing: what a restart would find is what the program knows.  Only
\* commands of overlapping attempts can part them, or a completion that goes on for
\* a login its dialog has dropped.
MapAndFileAgree ==
    Quiet /\ ~overlapped /\ ~revived /\ ~abandoned =>
        \/ Listed = {} /\ file = NoFile
        \/ \E l \in Listed : Listed = {l} /\ file = Stored(l, pending[l])

\* A login leaves the map or the disk because it has expired, has been completed
\* or is cancelled, and for no other reason: a start never discards a login that
\* could still be used, least of all the one it should find after a restart.
Forgets ==
    restarts' = restarts /\ ~overlapped /\ ~revived /\ ~abandoned =>
        \A l \in (Listed \ DOMAIN pending')
                 \cup ({file.login} \ {file'.login, NoLogin}) :
           \/ l \in expired
           \/ \E c \in calls \cup calls' :
                c.login = l /\ c.pc \in {"succeed", "expire", "fail", "wipe"}

ForgottenForAReason == [][Forgets]_vars

\* A dialog that is closed, once its commands have been carried out, has left no
\* login that could still be completed (the comment of the effect that cancels).
ClosedMeansCancelled ==
    ~dialog.open /\ Quiet => Listed \subseteq expired

\* The same but for the dialogs that a success closed over a later attempt, and
\* for a login that a restart has left to be resumed.
OnlyTheClosingLeavesLogins == ~abandoned /\ ~revived /\ ~resumable => ClosedMeansCancelled
=============================================================================
