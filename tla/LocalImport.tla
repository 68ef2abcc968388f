----------------------------- MODULE LocalImport -----------------------------
(***************************************************************************)
(* The automatic import of the account a client is logged in with          *)
(* (auto_local_import), for one platform.  A poll every 30 s compares the  *)
(* client's identity with the last one and imports a new one; the first it *)
(* sees is only remembered.  Switching the setting on scans at once and    *)
(* imports what is there.  Identities are read on a blocking thread, which *)
(* goes on after its 15 s; what is imported is read once more.             *)
(***************************************************************************)
EXTENDS Naturals

CONSTANTS
    Logins,
    NoLogin,      \* of a client that is logged out
    MaxActs,      \* bound: logins changed and settings switched by the user
    MaxMisses     \* bound: timeouts, failed imports and restarts

ImportBounds == NoLogin \notin Logins /\ {MaxActs, MaxMisses} \subseteq Nat

VARIABLES
    login,      \* of the client
    imported,   \* logins whose account is in the store
    baseline,   \* LAST_IDENTITIES of the platform
    enabled,    \* auto_import_from_local_enabled
    cycle,      \* the poll and the scan: [pc, got, read]
    holder,     \* who has WATCH_CYCLE_LOCK
    reader,     \* the thread that reads identities: [pc, for, got, import]
    first,      \* the login that a poll took for the first, while it is the baseline
    replaced,   \* logins that the client left while they were being imported
    acts, misses

cycleVars == <<cycle, holder>>
history == <<first, replaced, acts, misses>>
importVars == <<login, imported, baseline, enabled, cycleVars, reader, history>>

Modes == {"poll", "scan"}
NoHolder == "none"
Resting == [pc |-> "rest", got |-> NoLogin, read |-> NoLogin]
NoReader == [pc |-> "none", for |-> NoHolder, got |-> NoLogin, import |-> FALSE]

Init ==
    /\ login \in Logins \cup {NoLogin} /\ imported = {} /\ baseline = NoLogin
    /\ enabled \in BOOLEAN
    /\ cycle = [m \in Modes |-> Resting] /\ holder = NoHolder /\ reader = NoReader
    /\ first = NoLogin /\ replaced = {} /\ acts = 0 /\ misses = 0

Go(m, c) == cycle' = [cycle EXCEPT ![m] = c]

\* Returning gives the lock back.
Return(m) == Go(m, Resting) /\ holder' = IF holder = m THEN NoHolder ELSE holder

Act == acts < MaxActs /\ acts' = acts + 1
Miss == misses < MaxMisses /\ misses' = misses + 1

-----------------------------------------------------------------------------
\* The user and the client.

ChangeLogin(l) ==
    /\ l # login /\ login' = l /\ Act
    /\ replaced' =
         (replaced \cup {reader.got} \cup {cycle[m].got : m \in Modes}) \ {NoLogin}
    /\ UNCHANGED <<imported, baseline, enabled, cycleVars, reader, first, misses>>

\* The window asks for a scan when the setting is saved.
SwitchOn ==
    /\ ~enabled /\ enabled' = TRUE /\ Act
    /\ cycle["scan"] = Resting /\ Go("scan", [Resting EXCEPT !.pc = "enter"])
    /\ UNCHANGED <<login, imported, baseline, holder, reader, first, replaced, misses>>

\* A scan that has not been asked for yet is dropped.
SwitchOff ==
    /\ enabled /\ enabled' = FALSE /\ Act
    /\ \/ UNCHANGED cycle
       \/ cycle["scan"].pc = "enter" /\ Go("scan", Resting)
    /\ UNCHANGED <<login, imported, baseline, holder, reader, first, replaced, misses>>

\* What is remembered of identities is not saved.
Restart ==
    /\ Miss /\ baseline' = NoLogin /\ first' = NoLogin
    /\ cycle' = [m \in Modes |-> Resting] /\ holder' = NoHolder /\ reader' = NoReader
    /\ UNCHANGED <<login, imported, enabled, replaced, acts>>

-----------------------------------------------------------------------------
\* A cycle.

\* The pause before it takes any time, since a change of the setting ends it.
Wake ==
    /\ cycle["poll"].pc = "rest" /\ enabled
    /\ Go("poll", [Resting EXCEPT !.pc = "enter"])
    /\ UNCHANGED <<login, imported, baseline, enabled, holder, reader, history>>

\* A scan waits for the lock, a poll gives up; and so does either while an earlier
\* reader is still at work.
Enter(m) ==
    /\ cycle[m].pc = "enter"
    /\ m = "scan" => holder = NoHolder
    /\ IF holder # NoHolder \/ reader # NoReader
       THEN Return(m) /\ UNCHANGED reader
       ELSE /\ holder' = m /\ Go(m, [Resting EXCEPT !.pc = "wait"])
            /\ reader' = [NoReader EXCEPT !.pc = "peek", !.for = m]
    /\ UNCHANGED <<login, imported, baseline, enabled, history>>

Peek ==
    /\ reader.pc = "peek" /\ reader' = [reader EXCEPT !.pc = "decide", !.got = login]
    /\ UNCHANGED <<login, imported, baseline, enabled, cycleVars, history>>

\* A change of the login is imported.
IsChange == baseline # NoLogin /\ baseline # reader.got

\* Plausible bug: a change is remembered before it has been imported.
Decide_Early ==
    /\ reader.pc = "decide" /\ baseline' = reader.got
    /\ first' = IF baseline = NoLogin THEN reader.got
                ELSE IF IsChange THEN NoLogin ELSE first
    /\ reader' = [reader EXCEPT !.pc = "end",
                                !.import = reader.got # NoLogin /\
                                           (reader.for = "scan" \/ IsChange)]
    /\ UNCHANGED <<login, imported, enabled, cycleVars, replaced, acts, misses>>

\* A login is forgotten when the client is logged out.
Decide ==
    LET found == reader.got # NoLogin
        starts == found /\ reader.for = "poll" /\ baseline = NoLogin
    IN  /\ reader.pc = "decide"
        /\ baseline' = IF ~found \/ starts THEN reader.got ELSE baseline
        /\ first' = IF ~found \/ starts THEN reader.got ELSE first
        /\ reader' = [reader EXCEPT !.pc = "end",
                                    !.import = found /\ (reader.for = "scan" \/ IsChange)]
        /\ UNCHANGED <<login, imported, enabled, cycleVars, replaced, acts, misses>>

\* The reader's flag is taken down; its result is for the cycle that waits for it.
ReaderEnds ==
    LET m == reader.for
    IN  /\ reader.pc = "end" /\ reader' = NoReader
        /\ IF m = NoHolder THEN UNCHANGED cycleVars
           ELSE IF reader.import
           THEN /\ Go(m, [pc |-> "import", got |-> reader.got, read |-> NoLogin])
                /\ UNCHANGED holder
           ELSE Return(m)
        /\ UNCHANGED <<login, imported, baseline, enabled, history>>

TimesOut(m) ==
    /\ cycle[m].pc = "wait" /\ Miss /\ Return(m)
    /\ reader' = [reader EXCEPT !.for = NoHolder]
    /\ UNCHANGED <<login, imported, baseline, enabled, first, replaced, acts>>

Read(m) ==
    /\ cycle[m].pc = "import" /\ Go(m, [cycle[m] EXCEPT !.pc = "store", !.read = login])
    /\ UNCHANGED <<login, imported, baseline, enabled, holder, reader, history>>

\* The identity that was peeked at is remembered, whatever has been imported; some
\* clients say that there was nothing to import, others call it an error.
Store(m) ==
    LET c == cycle[m]
    IN  /\ c.pc = "store" /\ Return(m)
        /\ imported' = imported \cup ({c.read} \ {NoLogin})
        /\ baseline' = c.got /\ first' = IF first = c.got THEN first ELSE NoLogin
        /\ UNCHANGED <<login, enabled, reader, replaced, acts, misses>>

ImportFails(m) ==
    LET c == cycle[m]
    IN  /\ c.pc = "store" /\ Return(m)
        /\ IF c.read = NoLogin THEN UNCHANGED misses ELSE Miss
        /\ UNCHANGED <<login, imported, baseline, enabled, reader, first, replaced, acts>>

-----------------------------------------------------------------------------

Next ==
    \/ \E l \in Logins \cup {NoLogin} : ChangeLogin(l)
    \/ SwitchOn \/ SwitchOff \/ Restart \/ Wake \/ Peek \/ Decide \/ ReaderEnds
    \/ \E m \in Modes : Enter(m) \/ TimesOut(m) \/ Read(m) \/ Store(m) \/ ImportFails(m)

Spec == Init /\ [][Next]_importVars

\* The watcher polls while the setting is on, and what was begun goes on: readers,
\* and the requests of an import, which have timeouts.
Goes == Peek \/ Decide \/ ReaderEnds
        \/ \E m \in Modes : Read(m) \/ Store(m) \/ ImportFails(m)

Polls == Wake \/ Enter("poll")

FairSpec ==
    /\ Spec
    /\ WF_importVars(Polls) /\ WF_importVars(Enter("scan"))
    /\ WF_importVars(Goes)

-----------------------------------------------------------------------------

\* "... then keeps importing when the official client switches accounts": a login
\* that stays is imported, though readers and imports are late or fail.  Excepted is
\* one that a poll took for the first, at its start, after a restart or because it
\* had found the client logged out before; and one that was once replaced while it
\* was being imported, of which the baseline may say that it was.
SwitchesAreImported ==
    <>[](enabled => login \in {NoLogin, first} \cup imported \cup replaced)
=============================================================================
