---------------------------- MODULE ProviderStore ----------------------------
(***************************************************************************)
(* The list of accounts of one provider as a window keeps it               *)
(* (createProviderAccountStore), and the current account.  Every operation *)
(* ends by asking the backend for the list and then for the current        *)
(* account; operations overlap, and only the answer to the last request of *)
(* each kind counts.  An empty list is taken for a mistake, unless all     *)
(* accounts shown were deleted here; so is an answer without a current     *)
(* account, unless the current one was.                                    *)
(*                                                                         *)
(* Accounts are changed by this window only.  The copy of the list in the  *)
(* browser's storage follows the list.                                     *)
(***************************************************************************)
EXTENDS Naturals, FiniteSets, AccountList

CONSTANTS
    Accounts,
    MaxOps         \* bound: operations and mishaps together

Nobody == 0

StoreBounds ==
    None \notin Accounts /\ MaxOps \in Nat /\ Slots \subseteq Nat /\ Nobody \notin Slots

VARIABLES
    emptyCurrent,  \* allowNextEmptyCurrentAccountId
    lister,        \* the operation that has asked for the list last: fetchAccountsSeq
    resolver,      \* ... for the current account: fetchCurrentAccountSeq
    opsDone

backend == <<stored, active>>
view == <<shown, current, loading>>
flags == <<emptyList, emptyCurrent>>
bounds == <<crossed, opsDone, mishaps>>
storeVars == <<backend, view, flags, lister, resolver, ops, bounds>>

Known(id, accounts) == IF accounts = {} \/ id \in accounts THEN id ELSE None

\* The list has been asked for once; until then the window shows that of its last
\* session.
StoreInit ==
    /\ stored \in SUBSET Accounts /\ active \in stored \cup {None}
    /\ shown = stored /\ current = InBackend
    /\ emptyList = FALSE /\ emptyCurrent = FALSE
    /\ lister = Nobody /\ resolver = Nobody /\ loading = FALSE
    /\ ops = [s \in Slots |-> Resting] /\ crossed = FALSE
    /\ opsDone = 0 /\ mishaps = 0

Others(s) == {r \in Slots \ {s} : ops[r] # Resting}
Set(s, o) == ops' = [ops EXCEPT ![s] = o]

\* What goes wrong in the backend or on the way.
Mishap == opsDone + mishaps < MaxOps /\ mishaps' = mishaps + 1

-----------------------------------------------------------------------------
\* Operations of the user, of timers and of pages that are opened.

Begin(s, o) ==
    /\ ops[s] = Resting /\ \A r \in Slots : ops[r] = Resting => s <= r
    /\ opsDone + mishaps < MaxOps /\ opsDone' = opsDone + 1
    /\ crossed' = \/ crossed
                  \/ Others(s) # {} /\ o.op = "delete"
                  \/ \E r \in Others(s) : ops[r].op = "delete"
    /\ Set(s, o)
    /\ UNCHANGED <<backend, shown, loading, lister, mishaps>>

Call(s, op, who, pc) ==
    /\ Begin(s, [Resting EXCEPT !.op = op, !.who = who, !.pc = pc])
    /\ UNCHANGED <<current, resolver>>

\* A page that is opened, or a refresh of tokens, whether it succeeds or not.
Show(s) == Call(s, "show", {}, "served") /\ UNCHANGED flags
Import(s, a) == Call(s, "import", {a}, "called") /\ UNCHANGED flags
Switch(s, a) == a \in shown /\ Call(s, "switch", {a}, "called") /\ UNCHANGED flags

\* Plausible bug: an empty list is not expected after a deletion.
Delete_Unexpected(s, S) ==
    /\ S # {} /\ S \subseteq shown /\ Call(s, "delete", S, "called")
    /\ emptyCurrent' = (current \in S) /\ UNCHANGED emptyList

Delete(s, S) ==
    /\ S # {} /\ S \subseteq shown /\ Call(s, "delete", S, "called")
    /\ emptyList' = (shown \subseteq S) /\ emptyCurrent' = (current \in S)

\* The current account alone, before it is refreshed by itself.
Current(s) ==
    /\ IF shown = {} THEN Begin(s, Resting) /\ current' = None /\ resolver' = Nobody
       ELSE /\ Begin(s, [Resting EXCEPT !.op = "current", !.pc = "resolve", !.got = shown])
            /\ resolver' = s /\ UNCHANGED current
    /\ UNCHANGED flags

\* The backend does it.
Serve(s) ==
    LET o == ops[s]
    IN  /\ o.pc = "called"
        /\ stored' = CASE o.op = "import" -> stored \cup o.who
                       [] o.op = "delete" -> stored \ o.who
                       [] OTHER -> stored
        /\ active' = IF o.op = "switch" THEN CHOOSE a \in o.who : TRUE ELSE active
        /\ o.op = "switch" => o.who \subseteq stored
        /\ Set(s, [o EXCEPT !.pc = "served"])
        /\ UNCHANGED <<view, flags, lister, resolver, bounds>>

Fail(s) ==
    LET o == ops[s]
    IN  /\ o.pc = "called" /\ Set(s, Resting)
        /\ \/ o.op = "switch" /\ ~(o.who \subseteq stored) /\ UNCHANGED mishaps
           \/ Mishap
        /\ IF o.op = "delete" THEN emptyList' = FALSE /\ emptyCurrent' = FALSE
                              ELSE UNCHANGED flags
        /\ UNCHANGED <<backend, view, lister, resolver, crossed, opsDone>>

-----------------------------------------------------------------------------
\* fetchAccounts, and fetchCurrentAccountId as its last part.

\* When the backend has done its part the list is asked for.  A switch shows its
\* account at once.
FetchAccounts(s) ==
    LET o == ops[s]
    IN  /\ o.pc = "served"
        /\ IF o.op = "switch"
           THEN /\ resolver' = Nobody
                /\ current' = Known(CHOOSE a \in o.who : TRUE, shown)
           ELSE UNCHANGED <<resolver, current>>
        /\ lister' = s /\ loading' = TRUE /\ Set(s, [o EXCEPT !.pc = "list"])
        /\ UNCHANGED <<backend, shown, flags, bounds>>

List(s) ==
    /\ ops[s].pc = "list"
    /\ \/ /\ Set(s, [ops[s] EXCEPT !.pc = "listed", !.got = stored])
          /\ UNCHANGED mishaps
       \/ /\ Mishap
          /\ Set(s, [ops[s] EXCEPT !.pc = "listed", !.got = {}])
       \/ Mishap /\ Set(s, [ops[s] EXCEPT !.pc = "not listed"])
    /\ UNCHANGED <<backend, view, flags, lister, resolver, crossed, opsDone>>

\* The event a deletion sends is awaited, and then it takes back its flags.
After(o) == IF o.op = "delete" THEN [Resting EXCEPT !.op = "delete", !.pc = "emit"] ELSE Resting

Late(s) ==
    /\ ops[s].pc \in {"listed", "not listed"} /\ lister # s
    /\ Set(s, After(ops[s]))
    /\ UNCHANGED <<backend, view, flags, lister, resolver, bounds>>

\* An error, and an empty list that is not expected, change nothing.
Ignored(s) ==
    LET o == ops[s]
    IN  /\ lister = s
        /\ \/ o.pc = "not listed"
           \/ o.pc = "listed" /\ o.got = {} /\ shown # {} /\ ~emptyList
        /\ loading' = FALSE /\ emptyList' = FALSE /\ Set(s, After(o))
        /\ UNCHANGED <<backend, shown, current, emptyCurrent, lister,
                       resolver, bounds>>

Accept(s) ==
    LET o == ops[s]
    IN  /\ shown' = o.got /\ loading' = FALSE /\ emptyList' = FALSE
        /\ IF o.got = {} THEN current' = None /\ resolver' = Nobody /\ Set(s, After(o))
           ELSE /\ resolver' = s /\ Set(s, [o EXCEPT !.pc = "resolve"])
                /\ UNCHANGED current
        /\ UNCHANGED <<backend, emptyCurrent, lister, bounds>>

\* Plausible bug: any list that arrives is shown.
Listed_Any(s) ==
    /\ ops[s].pc = "listed" /\ (ops[s].got # {} \/ shown = {} \/ emptyList)
    /\ Accept(s)

Listed(s) ==
    /\ ops[s].pc = "listed" /\ lister = s
    /\ (ops[s].got # {} \/ shown = {} \/ emptyList)
    /\ Accept(s)

Resolve(s) ==
    /\ ops[s].pc = "resolve"
    /\ \/ Set(s, [ops[s] EXCEPT !.pc = "resolved", !.id = InBackend]) /\ UNCHANGED mishaps
       \/ Mishap /\ Set(s, [ops[s] EXCEPT !.pc = "not resolved"])
    /\ UNCHANGED <<backend, view, flags, lister, resolver, crossed, opsDone>>

\* The end of fetchAccounts.
Ended(s) ==
    emptyList' = IF ops[s].op # "current" /\ lister = s THEN FALSE ELSE emptyList

ResolvedLate(s) ==
    LET o == ops[s]
    IN  /\ o.pc \in {"resolved", "not resolved"} /\ resolver # s
        /\ Ended(s) /\ Set(s, After(o))
        /\ UNCHANGED <<backend, view, emptyCurrent, lister, resolver, bounds>>

\* An answer without an account, if it is not expected, changes nothing; after an
\* error the account shown is kept if it is in the list.
Resolved(s) ==
    LET o == ops[s]
    IN  /\ o.pc \in {"resolved", "not resolved"} /\ resolver = s
        /\ current' = CASE o.pc = "not resolved" -> Known(current, o.got)
                        [] o.id = None /\ ~emptyCurrent -> current
                        [] OTHER -> Known(o.id, o.got)
        /\ emptyCurrent' = FALSE /\ Ended(s) /\ Set(s, After(o))
        /\ UNCHANGED <<backend, shown, loading, lister, resolver, bounds>>

End(s) ==
    /\ ops[s].pc = "emit" /\ Set(s, Resting)
    /\ emptyList' = FALSE /\ emptyCurrent' = FALSE
    /\ UNCHANGED <<backend, view, lister, resolver, bounds>>

-----------------------------------------------------------------------------

StoreReplies(s) ==
    \/ Serve(s) \/ Fail(s) \/ FetchAccounts(s) \/ List(s) \/ Late(s) \/ Ignored(s)
    \/ Listed(s) \/ Resolve(s) \/ ResolvedLate(s) \/ Resolved(s) \/ End(s)

StoreNext ==
    \E s \in Slots :
        \/ Show(s) \/ Current(s) \/ StoreReplies(s)
        \/ \E a \in Accounts : Import(s, a) \/ Switch(s, a)
        \/ \E S \in SUBSET Accounts : Delete(s, S)

StoreSpec == StoreInit /\ [][StoreNext]_storeVars
=============================================================================
