------------------------- MODULE LoginDialog_proofs -------------------------
(***************************************************************************)
(* The logins of Trae, and of CodeBuddy and WorkBuddy, under the dialog    *)
(* they share, for every number of attempts, commands and restarts.        *)
(*                                                                         *)
(* SlotLogin: a dialog that is closed leaves nothing in the slot that      *)
(* could still be completed.  A live login is always somebody's (SlotHeld):*)
(* the dialog's that shows it, that of the start that has replied with it, *)
(* or that of a cancel that will find it.  A start answers each attempt    *)
(* once (OneStartEach), so a dialog that gets its login has none to lose.  *)
(*                                                                         *)
(* TraeLogin: between commands the file is what the map has, as long as    *)
(* the commands of overlapping attempts have not met (Calm).  One start,   *)
(* cancel or restore is on its way at a time (OneChange), the login that   *)
(* is being completed is the dialog's or is being cancelled                *)
(* (CompletedIsShown), and whoever parts map and file is at a step that    *)
(* says how they differ (MapMeetsFile).  From the same invariant, a login  *)
(* is forgotten for a reason only; and so it is in the slot of the others, *)
(* where only WorkBuddy AI marks one as cancelled (MarkedByAI).            *)
(***************************************************************************)
EXTENDS TraeLogin, SlotLogin, TLAPS

Shown == {"nothing", "url", "prepare error", "complete error", "timed out"}
Dialogs == [open : BOOLEAN, attempt : Nat, login : Nat, shown : Shown]

\* The commands of the dialog, as SlotLogin carries them out.
SlotOps == {"start", "browse", "complete", "fetch", "cancel"}
SlotPcs == {"called", "polling", "refreshing", "ok", "error", "timeout"}

SlotTyped ==
    /\ provider \in Providers
    /\ attempts \in Nat /\ issued \in Nat
    /\ dialog \in Dialogs
    /\ slot \in [login : Nat, cancelled : BOOLEAN]
    /\ calls \subseteq [op : SlotOps, attempt : Nat, login : Nat, pc : SlotPcs]
    /\ abandoned \in BOOLEAN

\* A dialog that is not shown is at no attempt, and no login is newer than the last.
DialogIsInOrder ==
    /\ dialog.attempt <= attempts /\ dialog.login <= issued
    /\ dialog.login # NoLogin => dialog.attempt # 0
    /\ dialog.attempt # 0 => dialog.open

LoginsAreIssued ==
    /\ slot.login <= issued
    /\ \A c \in calls : /\ c.login <= issued
                        /\ c.pc \in {"polling", "refreshing"} => c.op = "complete"

\* Each attempt starts one login, which its dialog does not have yet.
OneStartEach ==
    \A c \in calls : c.op = "start" =>
        /\ c.attempt \in 1 .. attempts
        /\ c.attempt = dialog.attempt => dialog.login = NoLogin
        /\ \A d \in calls : d.op = "start" /\ d.attempt = c.attempt => c = d

\* A login that has been completed is not in the slot.
CompletedIsGone ==
    \A c \in calls :
        c.op = "fetch" \/ (c.op = "complete" /\ c.pc = "ok") =>
            c.login # slot.login \/ slot.login = NoLogin

SlotHolds(c) ==
    \/ c.op = "start" /\ c.pc = "ok" /\ c.login = slot.login
    \/ c.op = "cancel" /\ c.login = slot.login

SlotHeld ==
    ~abandoned /\ SlotIsLive =>
        \/ dialog.login = slot.login
        \/ \E c \in calls : SlotHolds(c)

SlotInv ==
    /\ SlotTyped /\ DialogIsInOrder /\ LoginsAreIssued /\ OneStartEach
    /\ CompletedIsGone /\ SlotHeld

----------------------------------------------------------------------------
SlotCalls == [op : SlotOps, attempt : Nat, login : Nat, pc : SlotPcs]

\* A command that goes on keeps its name, attempt and place among the others.
LEMMA Replaced ==
    ASSUME calls \subseteq SlotCalls, NEW c \in calls, NEW l \in Nat, NEW pc \in SlotPcs,
           Reply(c, l, pc)
    PROVE  \E d \in SlotCalls :
              /\ calls' = (calls \ {c}) \union {d}
              /\ d.op = c.op /\ d.attempt = c.attempt /\ d.login = l /\ d.pc = pc
<1> DEFINE d == [c EXCEPT !.login = l, !.pc = pc]
<1>1. d \in SlotCalls /\ d.op = c.op /\ d.attempt = c.attempt /\ d.login = l /\ d.pc = pc
  BY DEF SlotCalls
<1>2. calls' = (calls \ {c}) \union {d}
  BY DEF Reply, Replace
<1>3. QED
  BY <1>1, <1>2

\* What a completion does to the slot: nothing, or it empties it.
LEMMA CompleteGoes ==
    ASSUME SlotInv, NEW c \in calls, c.op = "complete", NEW pc \in SlotPcs,
           Reply(c, c.login, pc), slot' \in {slot, Empty},
           pc = "ok" => c.login # slot'.login \/ slot'.login = NoLogin,
           UNCHANGED <<dialog, attempts, abandoned, provider, issued, expired>>
    PROVE  SlotInv'
<1>1. /\ calls \subseteq SlotCalls /\ c.login \in Nat /\ c.login <= issued
      /\ issued \in Nat /\ slot \in [login : Nat, cancelled : BOOLEAN] /\ slot.login <= issued
  BY DEF SlotInv, SlotTyped, SlotCalls, LoginsAreIssued
<1>2. PICK d \in SlotCalls : /\ calls' = (calls \ {c}) \union {d}
                             /\ d.op = "complete" /\ d.login = c.login /\ d.pc = pc
  BY <1>1, Replaced
<1>3. /\ slot' \in [login : Nat, cancelled : BOOLEAN] /\ slot'.login <= issued
      /\ slot' # slot => slot'.login = NoLogin
  <2>1. /\ Empty \in [login : Nat, cancelled : BOOLEAN]
        /\ Empty.login = NoLogin /\ NoLogin <= issued
    BY <1>1 DEF Empty, NoLogin
  <2>2. QED
    BY <1>1, <2>1
<1>4. SlotTyped'
  BY <1>1, <1>2, <1>3 DEF SlotInv, SlotTyped, SlotCalls
<1>5. DialogIsInOrder'
  BY DEF SlotInv, DialogIsInOrder
<1>6. LoginsAreIssued'
  BY <1>1, <1>2, <1>3 DEF SlotInv, LoginsAreIssued
<1>7. OneStartEach'
  BY <1>2 DEF SlotInv, OneStartEach
<1>8. CompletedIsGone'
  BY <1>1, <1>2, <1>3 DEF SlotInv, CompletedIsGone
<1>9. SlotHeld'
  <2> SUFFICES ASSUME ~abandoned, SlotIsLive'
               PROVE  dialog.login = slot.login \/ \E x \in calls' : SlotHolds(x)'
    BY <1>3 DEF SlotHeld, SlotIsLive, Empty
  <2>1. slot' = slot /\ SlotIsLive
    BY DEF SlotIsLive
  <2>2. CASE dialog.login = slot.login
    BY <2>2
  <2>3. ASSUME NEW x \in calls, SlotHolds(x) PROVE x \in calls' /\ SlotHolds(x)'
    BY <2>1, <2>3, <1>2 DEF SlotHolds
  <2>4. QED
    BY <2>1, <2>2, <2>3 DEF SlotInv, SlotHeld
<1>10. QED
  BY <1>4, <1>5, <1>6, <1>7, <1>8, <1>9 DEF SlotInv

\* A start puts its login into the slot, which nobody has had before.
LEMMA StartSafe ==
    ASSUME SlotInv, NEW c \in calls, Start(c),
           UNCHANGED <<dialog, attempts, abandoned, provider>>
    PROVE  SlotInv'
<1>1. /\ calls \subseteq SlotCalls /\ c.op = "start"
      /\ issued \in Nat /\ slot \in [login : Nat, cancelled : BOOLEAN] /\ slot.login <= issued
      /\ \A x \in calls : x.login \in Nat /\ x.login <= issued
  BY DEF SlotInv, SlotTyped, SlotCalls, LoginsAreIssued, Start
<1>2. CASE Reply(c, NoLogin, "error") /\ UNCHANGED slotVars
  <2>1. PICK d \in SlotCalls : /\ calls' = (calls \ {c}) \union {d}
                               /\ d.op = "start" /\ d.login = NoLogin /\ d.pc = "error"
                               /\ d.attempt = c.attempt
    BY <1>1, <1>2, Replaced DEF NoLogin, SlotPcs
  <2>2. UNCHANGED <<slot, issued, expired>>
    BY <1>2 DEF slotVars
  <2>3. SlotTyped' /\ DialogIsInOrder' /\ LoginsAreIssued'
    BY <1>1, <2>1, <2>2
    DEF SlotInv, SlotTyped, DialogIsInOrder, LoginsAreIssued, SlotCalls, NoLogin
  <2>4. OneStartEach' /\ CompletedIsGone'
    BY <1>1, <2>1, <2>2 DEF SlotInv, OneStartEach, CompletedIsGone
  <2>5. \A x \in calls : SlotHolds(x) => x \in calls' /\ SlotHolds(x)'
    BY <2>1, <2>2, <1>2 DEF SlotHolds, Start
  <2>6. SlotHeld'
    BY <2>2, <2>5 DEF SlotInv, SlotHeld, SlotIsLive
  <2>7. QED
    BY <2>3, <2>4, <2>6 DEF SlotInv
<1>3. CASE /\ issued' = issued + 1 /\ slot' = [login |-> issued + 1, cancelled |-> FALSE]
           /\ Reply(c, issued + 1, "ok") /\ UNCHANGED expired
  <2>1. PICK d \in SlotCalls : /\ calls' = (calls \ {c}) \union {d}
                               /\ d.op = "start" /\ d.login = issued + 1 /\ d.pc = "ok"
                               /\ d.attempt = c.attempt
    BY <1>1, <1>3, Replaced DEF SlotPcs
  <2>2. slot' \in [login : Nat, cancelled : BOOLEAN] /\ slot'.login = issued + 1
    BY <1>1, <1>3
  <2>3. SlotTyped' /\ DialogIsInOrder'
    BY <1>1, <1>3, <2>1, <2>2 DEF SlotInv, SlotTyped, DialogIsInOrder, SlotCalls, Dialogs
  <2>4. LoginsAreIssued'
    BY <1>1, <1>3, <2>1, <2>2 DEF SlotInv, LoginsAreIssued
  <2>5. OneStartEach'
    BY <1>1, <2>1 DEF SlotInv, OneStartEach
  <2>6. CompletedIsGone'
    BY <1>1, <1>3, <2>1, <2>2 DEF CompletedIsGone
  <2>7. SlotHeld'
    BY <2>1, <2>2 DEF SlotHeld, SlotHolds
  <2>8. QED
    BY <2>3, <2>4, <2>5, <2>6, <2>7 DEF SlotInv
<1>4. QED
  BY <1>2, <1>3 DEF Start

\* A cancel leaves no login that it is for: it empties the slot or marks it.
LEMMA CancelSafe ==
    ASSUME SlotInv, NEW c \in calls, CancelSlot(c),
           UNCHANGED <<dialog, attempts, abandoned, provider>>
    PROVE  SlotInv'
<1>1. /\ calls' = calls \ {c} /\ c.op = "cancel" /\ UNCHANGED <<issued, expired>>
      /\ issued \in Nat /\ slot \in [login : Nat, cancelled : BOOLEAN] /\ slot.login <= issued
  BY DEF SlotInv, SlotTyped, LoginsAreIssued, CancelSlot, Drop
<1>2. /\ Empty \in [login : Nat, cancelled : BOOLEAN]
      /\ Empty.login = NoLogin /\ ~Empty.cancelled /\ NoLogin <= issued
  BY <1>1 DEF Empty, NoLogin
<1>3. /\ Marked \in [login : Nat, cancelled : BOOLEAN]
      /\ Marked.login = slot.login /\ (Marked.cancelled <=> slot # Empty)
      /\ slot = Empty => Marked = Empty
  BY <1>1, <1>2 DEF Marked, Empty
<1>4. /\ slot' \in {slot, Empty, Marked}
      /\ slot' = slot => c.login # slot.login \/ ~SlotIsLive
  <2>1. CASE provider = "codebuddy"
    BY <2>1, <1>1 DEF CancelSlot, Cancelled, SlotIsLive
  <2>2. CASE provider # "codebuddy"
    BY <2>2, <1>1, <1>3 DEF CancelSlot, SlotIsLive
  <2>3. QED
    BY <2>1, <2>2
<1>5. /\ slot' \in [login : Nat, cancelled : BOOLEAN]
      /\ slot'.login \in {slot.login, NoLogin} /\ slot'.login <= issued
  BY <1>1, <1>2, <1>3, <1>4
<1>6. SlotTyped' /\ DialogIsInOrder' /\ LoginsAreIssued'
  BY <1>1, <1>5 DEF SlotInv, SlotTyped, DialogIsInOrder, LoginsAreIssued
<1>7. OneStartEach' /\ CompletedIsGone'
  BY <1>1, <1>5 DEF SlotInv, OneStartEach, CompletedIsGone
<1>8. SlotHeld'
  <2> SUFFICES ASSUME ~abandoned, SlotIsLive'
               PROVE  dialog.login = slot'.login \/ \E x \in calls' : SlotHolds(x)'
    BY DEF SlotHeld
  <2>1. slot' # Empty /\ ~slot'.cancelled /\ slot'.login \notin expired
    BY <1>1 DEF SlotIsLive, Empty, NoLogin
  <2>2. slot' = slot
    BY <1>3, <1>4, <2>1
  <2>3. SlotIsLive /\ c.login # slot.login
    BY <1>4, <2>1, <2>2 DEF SlotIsLive
  <2>4. \A x \in calls : SlotHolds(x) => x \in calls' /\ SlotHolds(x)'
    BY <1>1, <2>2, <2>3 DEF SlotHolds
  <2>5. QED
    BY <2>2, <2>3, <2>4 DEF SlotInv, SlotHeld
<1>9. QED
  BY <1>6, <1>7, <1>8 DEF SlotInv

----------------------------------------------------------------------------
LEMMA IdleDialog ==
    /\ Idle \in Dialogs /\ ~Idle.open /\ Idle.attempt = 0 /\ Idle.login = NoLogin
    /\ Idle.shown = "nothing"
BY DEF Idle, Dialogs, Shown, NoLogin

\* The dialog at the beginning of an attempt.
Opened(n) == [open |-> TRUE, attempt |-> n, login |-> NoLogin, shown |-> "nothing"]

LEMMA OpenedDialog ==
    ASSUME NEW n \in Nat
    PROVE  /\ Opened(n) \in Dialogs /\ Opened(n).open /\ Opened(n).attempt = n
           /\ Opened(n).login = NoLogin /\ Opened(n).shown = "nothing"
BY DEF Opened, Dialogs, Shown, NoLogin

LEMMA NewDialog ==
    ASSUME NEW n \in Nat, NEW d, d = [Idle EXCEPT !.open = TRUE, !.attempt = n]
    PROVE  d = Opened(n)
BY DEF Idle, Opened

\* The dialog's commands.  An attempt begins and the dialog lets its login go, which
\* somebody else then has, if it is still live.
LEMMA PrepareSafe ==
    ASSUME SlotInv, NEW cs \in SUBSET SlotCalls, Prepare(cs),
           \A x \in cs : x \in calls \/ (x.op = "cancel" /\ x.pc = "called" /\ x.login <= issued),
           ~abandoned' /\ SlotIsLive => \E x \in cs : SlotHolds(x),
           abandoned' \in BOOLEAN, UNCHANGED <<provider, slotVars>>
    PROVE  SlotInv'
<1>1. /\ UNCHANGED <<provider, slot, issued, expired>>
      /\ attempts \in Nat /\ issued \in Nat /\ attempts' = attempts + 1
      /\ slot \in [login : Nat, cancelled : BOOLEAN]
  BY DEF SlotInv, SlotTyped, slotVars, Prepare
<1>2. /\ dialog' \in Dialogs
      /\ dialog'.open /\ dialog'.attempt = attempts + 1 /\ dialog'.login = NoLogin
  <2>1. attempts + 1 \in Nat /\ dialog' = [Idle EXCEPT !.open = TRUE, !.attempt = attempts + 1]
    BY <1>1 DEF Prepare
  <2>2. dialog' = Opened(attempts + 1)
    BY <2>1, NewDialog
  <2>3. QED
    BY ONLY <2>1, <2>2, OpenedDialog
<1> DEFINE d == Call("start", attempts + 1, NoLogin)
<1>3. /\ calls' = cs \union {d} /\ d \in SlotCalls
      /\ d.op = "start" /\ d.pc = "called" /\ d.login = NoLogin /\ d.attempt = attempts + 1
  BY <1>1 DEF Prepare, Call, SlotCalls, SlotOps, SlotPcs, NoLogin
<1> HIDE DEF d
<1>4. SlotTyped'
  BY <1>1, <1>2, <1>3 DEF SlotInv, SlotTyped, SlotCalls
<1>5. DialogIsInOrder' /\ LoginsAreIssued'
  BY <1>1, <1>2, <1>3 DEF SlotInv, DialogIsInOrder, LoginsAreIssued, NoLogin
<1>6. \A x \in cs : x.op = "start" => x \in calls /\ x.attempt \in 1 .. attempts
  BY DEF SlotInv, OneStartEach
<1>7. OneStartEach'
  BY <1>1, <1>2, <1>3, <1>6 DEF SlotInv, OneStartEach
<1>8. CompletedIsGone'
  BY <1>1, <1>3 DEF SlotInv, CompletedIsGone
<1>9. SlotHeld'
  BY <1>1, <1>3 DEF SlotHeld, SlotHolds, SlotIsLive
<1>10. QED
  BY <1>4, <1>5, <1>7, <1>8, <1>9 DEF SlotInv

\* The same where no attempt begins: commands come to their replies, or are cancels.
LEMMA RestSafe ==
    ASSUME SlotInv,
           calls' \subseteq SlotCalls,
           \A x \in calls' : \/ x \in calls
                             \/ /\ x.op \in {"browse", "complete", "fetch", "cancel"}
                                /\ x.pc = "called" /\ x.login <= issued,
           \A x \in calls' : x.op = "fetch" => x.login # slot.login \/ slot.login = NoLogin,
           dialog' \in Dialogs,
           DialogIsInOrder',
           \A x \in calls' : x.op = "start" /\ x.attempt = dialog'.attempt => dialog'.login = NoLogin,
           ~abandoned' /\ SlotIsLive =>
               dialog'.login = slot.login \/ \E x \in calls' : SlotHolds(x),
           abandoned' \in BOOLEAN, UNCHANGED <<attempts, provider, slotVars>>
    PROVE  SlotInv'
<1>1. /\ UNCHANGED <<attempts, provider, slot, issued, expired>>
      /\ attempts \in Nat /\ issued \in Nat
      /\ slot \in [login : Nat, cancelled : BOOLEAN]
  BY DEF SlotInv, SlotTyped, slotVars
<1>2. SlotTyped' /\ LoginsAreIssued'
  BY <1>1 DEF SlotInv, SlotTyped, SlotCalls, LoginsAreIssued
<1>3. OneStartEach'
  BY <1>1 DEF SlotInv, OneStartEach
<1>4. CompletedIsGone'
  BY <1>1 DEF SlotInv, CompletedIsGone
<1>5. SlotHeld'
  BY <1>1 DEF SlotHeld, SlotHolds, SlotIsLive
<1>6. QED
  BY <1>2, <1>3, <1>4, <1>5 DEF SlotInv

\* What an action may rely on.
LEMMA SlotFacts ==
    ASSUME SlotInv
    PROVE  /\ calls \subseteq SlotCalls /\ dialog \in Dialogs
           /\ attempts \in Nat /\ issued \in Nat /\ abandoned \in BOOLEAN
           /\ \A c \in calls : c.login \in Nat /\ c.login <= issued
           /\ dialog.login \in Nat /\ dialog.login <= issued
           /\ ~dialog.open => dialog.login = NoLogin /\ dialog.attempt = 0
           /\ \A c \in calls : c.op = "start" => c.attempt # 0
           /\ SlotIsLive => slot.login # NoLogin
<1>1. SlotIsLive => slot.login # NoLogin
  <2>1. slot.login = NoLogin /\ ~slot.cancelled => slot = Empty
    BY DEF SlotInv, SlotTyped, Empty
  <2>2. QED
    BY <2>1 DEF SlotIsLive
<1>2. \A c \in calls : c.login \in Nat /\ c.login <= issued
  BY DEF SlotInv, SlotTyped, LoginsAreIssued
<1>3. \A c \in calls : c.op = "start" => c.attempt # 0
  BY DEF SlotInv, SlotTyped, OneStartEach
<1>4. QED
  BY <1>1, <1>2, <1>3 DEF SlotInv, SlotTyped, SlotCalls, DialogIsInOrder, Dialogs

\* New commands, that are about logins there are.
LEMMA NewCalls ==
    ASSUME NEW op \in SlotOps, NEW a \in Nat, NEW l \in Nat
    PROVE  /\ Call(op, a, l) \in SlotCalls /\ Call(op, a, l).op = op
           /\ Call(op, a, l).login = l /\ Call(op, a, l).pc = "called"
           /\ Call(op, a, l).attempt = a
BY DEF Call, SlotCalls, SlotPcs

LEMMA CancelCalls ==
    ASSUME NEW l \in Nat
    PROVE  \A x \in Cancels(l) : x \in SlotCalls /\ x.op = "cancel" /\ x.login = l /\ x.pc = "called"
<1>1. "cancel" \in SlotOps /\ 0 \in Nat
  BY DEF SlotOps
<1>2. QED
  BY <1>1, NewCalls DEF Cancels

LEMMA OpenSafe ==
    ASSUME SlotInv, Open, UNCHANGED <<provider, slotVars>> PROVE SlotInv'
<1>1. ~dialog.open /\ Prepare(calls) /\ abandoned' = abandoned
  BY DEF Open
<1>2. SlotIsLive /\ ~abandoned' => \E x \in calls : SlotHolds(x)
  BY <1>1, SlotFacts DEF SlotInv, SlotHeld
<1>3. QED
  BY <1>1, <1>2, SlotFacts, PrepareSafe

LEMMA RetrySafe ==
    ASSUME SlotInv, Retry, UNCHANGED <<provider, slotVars>> PROVE SlotInv'
<1> DEFINE new == IF dialog.login # NoLogin THEN Cancels(dialog.login) ELSE {}
<1>1. Prepare(calls \union new) /\ abandoned' = abandoned
  BY DEF Retry
<1>2. \A x \in new : x \in SlotCalls /\ x.op = "cancel" /\ x.login = dialog.login /\ x.pc = "called"
  BY SlotFacts, CancelCalls
<1>3. dialog.login # NoLogin => \E x \in new : x.op = "cancel" /\ x.login = dialog.login
  <2>1. dialog.login # NoLogin => Call("cancel", 0, dialog.login) \in new
    BY DEF Cancels
  <2>2. QED
    BY <1>2, <2>1
<1> HIDE DEF new
<1>4. SlotIsLive /\ ~abandoned' => \E x \in calls \union new : SlotHolds(x)
  BY <1>1, <1>3, SlotFacts DEF SlotInv, SlotHeld, SlotHolds
<1>5. calls \union new \in SUBSET SlotCalls
  BY <1>2, SlotFacts
<1>6. QED
  BY <1>1, <1>2, <1>4, <1>5, SlotFacts, PrepareSafe

LEMMA CloseSafe ==
    ASSUME SlotInv, Close, UNCHANGED <<provider, slotVars>> PROVE SlotInv'
<1>1. PICK forced \in BOOLEAN :
        calls' = calls \union (IF forced \/ dialog.login # NoLogin
                               THEN Cancels(dialog.login) ELSE {})
  BY DEF Close
<1> DEFINE new == IF forced \/ dialog.login # NoLogin THEN Cancels(dialog.login) ELSE {}
<1>2. calls' = calls \union new /\ dialog' = Idle /\ UNCHANGED <<attempts, abandoned>>
  BY <1>1 DEF Close
<1>3. \A x \in new : x \in SlotCalls /\ x.op = "cancel" /\ x.login = dialog.login /\ x.pc = "called"
  BY SlotFacts, CancelCalls
<1>4. dialog.login # NoLogin => \E x \in new : x.op = "cancel" /\ x.login = dialog.login
  <2>1. dialog.login # NoLogin => Call("cancel", 0, dialog.login) \in new
    BY DEF Cancels
  <2>2. QED
    BY <1>3, <2>1
<1> HIDE DEF new
<1>5. SlotIsLive /\ ~abandoned' => \E x \in calls' : SlotHolds(x)
  BY <1>2, <1>4, SlotFacts DEF SlotInv, SlotHeld, SlotHolds
<1>6. DialogIsInOrder'
  BY <1>2, IdleDialog, SlotFacts DEF DialogIsInOrder, NoLogin, slotVars
<1>7. \A x \in calls' : x.op = "fetch" => x.login # slot.login \/ slot.login = NoLogin
  BY <1>2, <1>3 DEF SlotInv, CompletedIsGone
<1>8. \A x \in calls' : \/ x \in calls
                        \/ /\ x.op \in {"browse", "complete", "fetch", "cancel"}
                           /\ x.pc = "called" /\ x.login <= issued
  BY <1>2, <1>3, SlotFacts
<1>9. calls' \subseteq SlotCalls /\ dialog' \in Dialogs /\ dialog'.login = NoLogin
      /\ abandoned' \in BOOLEAN
  BY <1>2, <1>3, SlotFacts, IdleDialog
<1>10. QED
  BY <1>2, <1>5, <1>6, <1>7, <1>8, <1>9, RestSafe

\* A dialog that shows how its login went.
LEMMA DialogShows ==
    ASSUME NEW d \in Dialogs, NEW w \in Shown, NEW e, e = [d EXCEPT !.shown = w]
    PROVE  e \in Dialogs /\ e.login = d.login /\ e.attempt = d.attempt /\ (e.open <=> d.open)
BY DEF Dialogs

LEMMA StartReplySafe ==
    ASSUME SlotInv, NEW c \in calls, StartReply(c), UNCHANGED <<provider, slotVars>>
    PROVE  SlotInv'
<1>1. /\ c.op = "start" /\ c.login \in Nat /\ c.login <= issued /\ c.attempt \in Nat
      /\ c.attempt # 0 /\ UNCHANGED <<attempts, abandoned, issued>>
  BY SlotFacts DEF StartReply, SlotCalls, slotVars
<1>2. CASE c.attempt # dialog.attempt /\ UNCHANGED dialog
           /\ calls' = (calls \ {c}) \union (IF c.pc = "ok" THEN Cancels(c.login) ELSE {})
  <2> DEFINE new == IF c.pc = "ok" THEN Cancels(c.login) ELSE {}
  <2>1. calls' = (calls \ {c}) \union new
    BY <1>2
  <2>2. \A x \in new : x \in SlotCalls /\ x.op = "cancel" /\ x.login = c.login /\ x.pc = "called"
    BY <1>1, CancelCalls
  <2>3. c.pc = "ok" => \E x \in new : x.op = "cancel" /\ x.login = c.login
    <3>1. c.pc = "ok" => Call("cancel", 0, c.login) \in new
      BY DEF Cancels
    <3>2. QED
      BY <2>2, <3>1
  <2> HIDE DEF new
  <2>4. \A x \in calls : SlotHolds(x) => \E y \in calls' : SlotHolds(y)
    BY <1>1, <2>1, <2>3 DEF SlotHolds
  <2>5. SlotIsLive /\ ~abandoned' => dialog'.login = slot.login \/ \E x \in calls' : SlotHolds(x)
    BY <1>1, <1>2, <2>4 DEF SlotInv, SlotHeld
  <2>6. DialogIsInOrder'
    BY <1>1, <1>2 DEF SlotInv, DialogIsInOrder
  <2>7. /\ \A x \in calls' : x.op = "fetch" => x.login # slot.login \/ slot.login = NoLogin
        /\ \A x \in calls' : x.op = "start" /\ x.attempt = dialog'.attempt => dialog'.login = NoLogin
    BY <1>2, <2>1, <2>2 DEF SlotInv, CompletedIsGone, OneStartEach
  <2>8. \A x \in calls' : \/ x \in calls
                          \/ /\ x.op \in {"browse", "complete", "fetch", "cancel"}
                             /\ x.pc = "called" /\ x.login <= issued
    BY <1>1, <2>1, <2>2
  <2>9. calls' \subseteq SlotCalls /\ dialog' \in Dialogs /\ abandoned' \in BOOLEAN
    BY <1>1, <1>2, <2>1, <2>2, SlotFacts
  <2>10. QED
    BY <1>1, <2>5, <2>6, <2>7, <2>8, <2>9, RestSafe
<1>3. CASE c.attempt = dialog.attempt /\ c.pc = "ok"
           /\ dialog' = [dialog EXCEPT !.login = c.login, !.shown = "url"]
           /\ Replace(c, Call("browse", c.attempt, c.login))
  <2> DEFINE d == Call("browse", c.attempt, c.login)
  <2>1. d \in SlotCalls /\ d.op = "browse" /\ d.login = c.login /\ d.pc = "called"
    <3>1. "browse" \in SlotOps
      BY DEF SlotOps
    <3>2. QED
      BY <1>1, <3>1, NewCalls
  <2>2. calls' = (calls \ {c}) \union {d}
    BY <1>3 DEF Replace
  <2> HIDE DEF d
  <2>3. /\ dialog' \in Dialogs /\ dialog'.login = c.login /\ dialog'.attempt = dialog.attempt
        /\ (dialog'.open <=> dialog.open)
    <3>1. "url" \in Shown
      BY DEF Shown
    <3>2. /\ dialog \in Dialogs /\ c.login \in Nat
          /\ dialog' = [dialog EXCEPT !.login = c.login, !.shown = "url"]
      BY <1>1, <1>3, SlotFacts
    <3>3. QED
      BY ONLY <3>1, <3>2 DEF Dialogs
  <2>4. dialog.login = NoLogin /\ \A x \in calls : x.op = "start" /\ x.attempt = dialog.attempt => x = c
    BY <1>1, <1>3 DEF SlotInv, OneStartEach
  <2>5. SlotIsLive /\ ~abandoned' => dialog'.login = slot.login \/ \E x \in calls' : SlotHolds(x)
    BY <1>1, <2>2, <2>3, <2>4, SlotFacts DEF SlotInv, SlotHeld, SlotHolds
  <2>6. DialogIsInOrder'
    BY <1>1, <1>3, <2>3 DEF SlotInv, DialogIsInOrder
  <2>7. /\ \A x \in calls' : x.op = "fetch" => x.login # slot.login \/ slot.login = NoLogin
        /\ \A x \in calls' : x.op = "start" /\ x.attempt = dialog'.attempt => dialog'.login = NoLogin
    BY <2>1, <2>2, <2>3, <2>4 DEF SlotInv, CompletedIsGone
  <2>8. \A x \in calls' : \/ x \in calls
                          \/ /\ x.op \in {"browse", "complete", "fetch", "cancel"}
                             /\ x.pc = "called" /\ x.login <= issued
    BY <1>1, <2>1, <2>2
  <2>9. calls' \subseteq SlotCalls /\ abandoned' \in BOOLEAN
    BY <1>1, <2>1, <2>2, SlotFacts
  <2>10. QED
    BY <1>1, <2>3, <2>5, <2>6, <2>7, <2>8, <2>9, RestSafe
<1>4. CASE c.attempt = dialog.attempt /\ c.pc # "ok"
           /\ dialog' = [dialog EXCEPT !.shown = "prepare error"] /\ Drop(c)
  <2>1. calls' = calls \ {c}
    BY <1>4 DEF Drop
  <2>2. /\ dialog' \in Dialogs /\ dialog'.login = dialog.login /\ dialog'.attempt = dialog.attempt
        /\ (dialog'.open <=> dialog.open)
    <3>1. "prepare error" \in Shown
      BY DEF Shown
    <3>2. dialog \in Dialogs /\ dialog' = [dialog EXCEPT !.shown = "prepare error"]
      BY <1>4, SlotFacts
    <3>3. QED
      BY ONLY <3>1, <3>2, DialogShows
  <2>3. SlotIsLive /\ ~abandoned' => dialog'.login = slot.login \/ \E x \in calls' : SlotHolds(x)
    BY <1>1, <1>4, <2>1, <2>2 DEF SlotInv, SlotHeld, SlotHolds
  <2>4. DialogIsInOrder'
    BY <1>1, <2>2 DEF SlotInv, DialogIsInOrder
  <2>5. /\ \A x \in calls' : x.op = "fetch" => x.login # slot.login \/ slot.login = NoLogin
        /\ \A x \in calls' : x.op = "start" /\ x.attempt = dialog'.attempt => dialog'.login = NoLogin
    BY <2>1, <2>2 DEF SlotInv, CompletedIsGone, OneStartEach
  <2>6. calls' \subseteq SlotCalls /\ abandoned' \in BOOLEAN /\ \A x \in calls' : x \in calls
    BY <1>1, <2>1, SlotFacts
  <2>7. QED
    BY <1>1, <2>2, <2>3, <2>4, <2>5, <2>6, RestSafe
<1>5. QED
  BY <1>2, <1>3, <1>4 DEF StartReply

\* A command of an attempt follows another, which is no start.
LEMMA NextCommand ==
    ASSUME SlotInv, NEW c \in calls, c.op \in {"browse", "complete"},
           NEW op \in {"complete", "fetch"}, Replace(c, Call(op, c.attempt, c.login)),
           op = "fetch" => c.login # slot.login \/ slot.login = NoLogin,
           UNCHANGED <<dialog, attempts, abandoned, provider, slotVars>>
    PROVE  SlotInv'
<1>1. /\ c.login \in Nat /\ c.login <= issued /\ c.attempt \in Nat /\ UNCHANGED issued
  BY SlotFacts DEF SlotCalls, slotVars
<1> DEFINE d == Call(op, c.attempt, c.login)
<1>2. d \in SlotCalls /\ d.op = op /\ d.login = c.login /\ d.pc = "called"
  <2>1. op \in SlotOps
    BY DEF SlotOps
  <2>2. QED
    BY <1>1, <2>1, NewCalls
<1>3. calls' = (calls \ {c}) \union {d}
  BY DEF Replace
<1> HIDE DEF d
<1>4. SlotIsLive /\ ~abandoned' => dialog'.login = slot.login \/ \E x \in calls' : SlotHolds(x)
  BY <1>3 DEF SlotInv, SlotHeld, SlotHolds
<1>5. DialogIsInOrder'
  BY <1>1 DEF SlotInv, DialogIsInOrder
<1>6. /\ \A x \in calls' : x.op = "fetch" => x.login # slot.login \/ slot.login = NoLogin
      /\ \A x \in calls' : x.op = "start" /\ x.attempt = dialog'.attempt => dialog'.login = NoLogin
  BY <1>2, <1>3 DEF SlotInv, CompletedIsGone, OneStartEach
<1>7. \A x \in calls' : \/ x \in calls
                        \/ /\ x.op \in {"browse", "complete", "fetch", "cancel"}
                           /\ x.pc = "called" /\ x.login <= issued
  BY <1>1, <1>2, <1>3
<1>8. calls' \subseteq SlotCalls /\ dialog' \in Dialogs /\ abandoned' \in BOOLEAN
  BY <1>2, <1>3, SlotFacts
<1>9. QED
  BY <1>4, <1>5, <1>6, <1>7, <1>8, RestSafe

\* A command is over, and the dialog keeps its attempt and login, or lets go of a login
\* that is not in the slot.
LEMMA DropSafe ==
    ASSUME SlotInv, calls' \subseteq calls,
           \A x \in calls : SlotHolds(x) => x \in calls' \/ abandoned',
           dialog' \in Dialogs, DialogIsInOrder',
           dialog'.attempt \in {dialog.attempt, 0},
           dialog'.login = dialog.login
             \/ (dialog'.login = NoLogin /\ (SlotIsLive => dialog.login # slot.login \/ abandoned')),
           abandoned' \in BOOLEAN, abandoned => abandoned',
           UNCHANGED <<attempts, provider, slotVars>>
    PROVE  SlotInv'
<1>1. SlotIsLive /\ ~abandoned' => dialog'.login = slot.login \/ \E x \in calls' : SlotHolds(x)
  BY SlotFacts DEF SlotInv, SlotHeld
<1>2. /\ \A x \in calls' : x.op = "fetch" => x.login # slot.login \/ slot.login = NoLogin
      /\ \A x \in calls' : x.op = "start" /\ x.attempt = dialog'.attempt => dialog'.login = NoLogin
  BY SlotFacts DEF SlotInv, CompletedIsGone, OneStartEach
<1>3. calls' \subseteq SlotCalls /\ \A x \in calls' : x \in calls
  BY SlotFacts
<1>4. QED
  BY <1>1, <1>2, <1>3, RestSafe

LEMMA CompleteReplySafe ==
    ASSUME SlotInv, NEW c \in calls, CompleteReply(c), UNCHANGED <<provider, slotVars>>
    PROVE  SlotInv'
<1>1. /\ c.op = "complete" /\ UNCHANGED <<attempts, abandoned, issued>>
      /\ ~SlotHolds(c)
  BY DEF CompleteReply, SlotHolds, slotVars
<1>2. CASE c.pc = "ok" /\ Replace(c, Call("fetch", c.attempt, c.login)) /\ UNCHANGED dialog
  <2>1. c.login # slot.login \/ slot.login = NoLogin
    BY <1>1, <1>2 DEF SlotInv, CompletedIsGone
  <2>2. QED
    BY <1>1, <1>2, <2>1, NextCommand
<1>3. CASE Drop(c) /\ UNCHANGED dialog
  <2>1. calls' \subseteq calls /\ \A x \in calls : SlotHolds(x) => x \in calls'
    BY <1>1, <1>3 DEF Drop
  <2>2. DialogIsInOrder' /\ dialog' \in Dialogs /\ abandoned' \in BOOLEAN
    BY <1>1, <1>3, SlotFacts DEF SlotInv, DialogIsInOrder
  <2>3. QED
    BY <1>1, <1>3, <2>1, <2>2, DropSafe
<1>4. CASE /\ dialog' = [dialog EXCEPT !.shown =
                  IF c.pc = "timeout" THEN "timed out" ELSE "complete error"]
           /\ Drop(c)
  <2>1. /\ dialog' \in Dialogs /\ dialog'.login = dialog.login /\ dialog'.attempt = dialog.attempt
        /\ (dialog'.open <=> dialog.open)
    <3> DEFINE w == IF c.pc = "timeout" THEN "timed out" ELSE "complete error"
    <3>1. w \in Shown
      BY DEF Shown
    <3> HIDE DEF w
    <3>2. dialog \in Dialogs
      BY SlotFacts
    <3>3. dialog' = [dialog EXCEPT !.shown = w]
      BY <1>4 DEF w
    <3>4. QED
      BY ONLY <3>1, <3>2, <3>3, DialogShows
  <2>2. calls' \subseteq calls /\ \A x \in calls : SlotHolds(x) => x \in calls'
    BY <1>1, <1>4 DEF Drop
  <2>3. DialogIsInOrder' /\ abandoned' \in BOOLEAN
    BY <1>1, <2>1, SlotFacts DEF SlotInv, DialogIsInOrder
  <2>4. QED
    BY <1>1, <2>1, <2>2, <2>3, DropSafe
<1>5. QED
  BY <1>1, <1>2, <1>3, <1>4 DEF CompleteReply

LEMMA FetchedSafe ==
    ASSUME SlotInv, NEW c \in calls, Fetched(c), UNCHANGED <<provider, slotVars>>
    PROVE  SlotInv'
<1>1. /\ c.op = "fetch" /\ ~SlotHolds(c) /\ UNCHANGED issued
      /\ abandoned' = (abandoned \/ dialog.login \notin {c.login, NoLogin})
  BY DEF Fetched, SlotHolds, slotVars
<1>2. abandoned' \in BOOLEAN /\ (abandoned => abandoned')
  BY <1>1, SlotFacts
<1>3. SlotIsLive => dialog.login # slot.login \/ abandoned'
  BY <1>1, SlotFacts DEF SlotInv, CompletedIsGone
<1>4. calls \ {c} \in SUBSET SlotCalls
  BY SlotFacts
<1>5. CASE Prepare(calls \ {c})
  <2>1. SlotIsLive /\ ~abandoned' => \E x \in calls \ {c} : SlotHolds(x)
    BY <1>1, <1>2, <1>3 DEF SlotInv, SlotHeld
  <2>2. QED
    BY <1>2, <1>4, <1>5, <2>1, PrepareSafe
<1>6. CASE /\ dialog' = [Idle EXCEPT !.open = TRUE] /\ Drop(c) /\ UNCHANGED attempts
  <2>1. calls' \subseteq calls /\ \A x \in calls : SlotHolds(x) => x \in calls'
    BY <1>1, <1>6 DEF Drop
  <2>2. /\ dialog' \in Dialogs /\ dialog'.open /\ dialog'.attempt = 0 /\ dialog'.login = NoLogin
    BY ONLY <1>6 DEF Idle, Dialogs, Shown, NoLogin
  <2>3. DialogIsInOrder'
    BY <1>1, <1>6, <2>2, SlotFacts DEF DialogIsInOrder, NoLogin
  <2>4. QED
    BY <1>2, <1>3, <1>6, <2>1, <2>2, <2>3, DropSafe
<1>7. CASE Drop(c) /\ UNCHANGED <<dialog, attempts>>
  <2>1. calls' \subseteq calls /\ \A x \in calls : SlotHolds(x) => x \in calls'
    BY <1>1, <1>7 DEF Drop
  <2>2. DialogIsInOrder' /\ dialog' \in Dialogs
    BY <1>1, <1>7, SlotFacts DEF SlotInv, DialogIsInOrder
  <2>3. QED
    BY <1>2, <1>7, <2>1, <2>2, DropSafe
<1>8. QED
  BY <1>5, <1>6, <1>7 DEF Fetched

LEMMA CloseAfterSuccessSafe ==
    ASSUME SlotInv, CloseAfterSuccess, UNCHANGED <<provider, slotVars>> PROVE SlotInv'
<1>1. /\ UNCHANGED <<calls, attempts, issued>> /\ dialog' = Idle
      /\ abandoned' = (abandoned \/ dialog.login # NoLogin)
  BY DEF CloseAfterSuccess, slotVars
<1>2. abandoned' \in BOOLEAN /\ (abandoned => abandoned')
  BY <1>1, SlotFacts
<1>3. SlotIsLive => dialog.login # slot.login \/ abandoned'
  BY <1>1, SlotFacts
<1>4. DialogIsInOrder' /\ dialog' \in Dialogs /\ dialog'.login = NoLogin /\ dialog'.attempt = 0
  BY <1>1, IdleDialog, SlotFacts DEF DialogIsInOrder, NoLogin
<1>5. QED
  BY <1>1, <1>2, <1>3, <1>4, DropSafe

----------------------------------------------------------------------------
LEMMA SlotInitSafe == SlotInit => SlotInv
<1> SUFFICES ASSUME SlotInit PROVE SlotInv
  OBVIOUS
<1>1. /\ provider \in Providers /\ dialog = Idle /\ calls = {} /\ attempts = 0 /\ issued = 0
      /\ slot = Empty /\ abandoned = FALSE
  BY DEF SlotInit, DialogInit
<1>2. /\ Empty \in [login : Nat, cancelled : BOOLEAN] /\ Empty.login = 0
  BY DEF Empty, NoLogin
<1>3. SlotTyped
  <2>1. dialog \in Dialogs /\ abandoned \in BOOLEAN /\ calls \subseteq SlotCalls
    BY <1>1, IdleDialog
  <2>2. slot \in [login : Nat, cancelled : BOOLEAN] /\ attempts \in Nat /\ issued \in Nat
    BY <1>1, <1>2
  <2>3. QED
    BY <1>1, <2>1, <2>2 DEF SlotTyped, SlotCalls
<1>4. LoginsAreIssued /\ OneStartEach /\ CompletedIsGone
  BY <1>1, <1>2 DEF LoginsAreIssued, OneStartEach, CompletedIsGone
<1>5. DialogIsInOrder
  BY <1>1, IdleDialog DEF DialogIsInOrder, NoLogin
<1>6. SlotHeld
  BY <1>1 DEF SlotHeld, SlotIsLive
<1>7. QED
  BY <1>3, <1>4, <1>5, <1>6 DEF SlotInv

\* The steps of the backend, with the slot unlocked between them.
LEMMA SlotCallSafe ==
    ASSUME SlotInv, NEW c \in calls,
           \/ Start(c) \/ Check(c) \/ PollAgain(c) \/ CancelSlot(c)
           \/ PollSucceeds(c) \/ Refreshed(c) \/ PollOfAISucceeds(c),
           UNCHANGED <<dialog, attempts, abandoned, provider>>
    PROVE  SlotInv'
<1>1. c.pc \in {"polling", "refreshing"} => c.op = "complete"
  BY DEF SlotInv, LoginsAreIssued
<1>2. \A l : ClearOwn(l) \in {slot, Empty}
  BY DEF ClearOwn
<1>3. Empty.login = NoLogin
  BY DEF Empty
<1>4. {"called", "polling", "refreshing", "ok", "error", "timeout"} \subseteq SlotPcs
  BY DEF SlotPcs
<1>5. CASE Check(c)
  <2>1. PICK pc \in {"polling", "error", "timeout"} : Reply(c, c.login, pc)
    BY <1>5 DEF Check
  <2>2. c.op = "complete" /\ slot' \in {slot, Empty} /\ UNCHANGED <<issued, expired>>
    BY <1>2, <1>5 DEF Check
  <2>3. QED
    BY <1>4, <2>1, <2>2, CompleteGoes
<1>6. CASE PollAgain(c)
  <2>1. PICK pc \in {"called", "timeout"} : Reply(c, c.login, pc)
    BY <1>6 DEF PollAgain
  <2>2. c.op = "complete" /\ slot' \in {slot, Empty} /\ UNCHANGED <<issued, expired>>
    BY <1>1, <1>6 DEF PollAgain
  <2>3. QED
    BY <1>4, <2>1, <2>2, CompleteGoes
<1>7. CASE PollSucceeds(c)
  <2>1. /\ c.op = "complete" /\ Reply(c, c.login, "refreshing")
        /\ UNCHANGED <<slot, issued, expired>>
    BY <1>1, <1>7 DEF PollSucceeds, slotVars
  <2>2. QED
    BY <1>4, <2>1, CompleteGoes
<1>8. CASE Refreshed(c)
  <2>1. /\ c.op = "complete" /\ Reply(c, c.login, "ok") /\ slot' = ClearOwn(c.login)
        /\ UNCHANGED <<issued, expired>>
    BY <1>1, <1>8 DEF Refreshed
  <2>2. c.login # slot'.login \/ slot'.login = NoLogin
    BY <1>3, <2>1 DEF ClearOwn
  <2>3. QED
    BY <1>2, <1>4, <2>1, <2>2, CompleteGoes
<1>9. CASE PollOfAISucceeds(c)
  <2>1. /\ c.op = "complete" /\ UNCHANGED <<issued, expired>>
        /\ \/ slot' = Empty /\ Reply(c, c.login, "ok")
           \/ Reply(c, c.login, "error") /\ UNCHANGED slot
    BY <1>1, <1>9 DEF PollOfAISucceeds
  <2>2. CASE slot' = Empty /\ Reply(c, c.login, "ok")
    BY <1>3, <1>4, <2>1, <2>2, CompleteGoes
  <2>3. CASE Reply(c, c.login, "error") /\ UNCHANGED slot
    BY <1>4, <2>1, <2>3, CompleteGoes
  <2>4. QED
    BY <2>1, <2>2, <2>3
<1>10. QED
  BY <1>5, <1>6, <1>7, <1>8, <1>9, StartSafe, CancelSafe

LEMMA SlotInductive == SlotInv /\ [SlotNext]_allVars => SlotInv'
<1> SUFFICES ASSUME SlotInv, [SlotNext]_allVars PROVE SlotInv'
  OBVIOUS
<1>1. CASE UNCHANGED allVars
  <2>1. UNCHANGED <<dialog, calls, attempts, abandoned, provider, slot, issued, expired>>
    BY <1>1 DEF allVars, dialogVars, slotVars
  <2>2. SlotTyped' /\ DialogIsInOrder' /\ LoginsAreIssued' /\ OneStartEach' /\ CompletedIsGone'
    BY <2>1
    DEF SlotInv, SlotTyped, DialogIsInOrder, LoginsAreIssued, OneStartEach, CompletedIsGone
  <2>3. SlotHeld'
    BY <2>1 DEF SlotInv, SlotHeld, SlotHolds, SlotIsLive
  <2>4. QED
    BY <2>2, <2>3 DEF SlotInv
<1>2. CASE UserStep /\ UNCHANGED <<provider, slotVars>>
  BY <1>2, OpenSafe, CloseSafe, RetrySafe DEF UserStep
<1>3. ASSUME NEW c \in calls, StartReply(c) \/ Browsed(c) \/ CompleteReply(c) \/ Fetched(c),
             UNCHANGED <<provider, slotVars>>
      PROVE  SlotInv'
  <2>1. Browsed(c) => SlotInv'
    <3> SUFFICES ASSUME Browsed(c) PROVE SlotInv'
      OBVIOUS
    <3>1. /\ c.op = "browse" /\ Replace(c, Call("complete", c.attempt, c.login))
          /\ UNCHANGED <<dialog, attempts, abandoned, provider, slotVars>>
      BY <1>3 DEF Browsed
    <3>2. QED
      BY <3>1, NextCommand
  <2>2. QED
    BY <1>3, <2>1, StartReplySafe, CompleteReplySafe, FetchedSafe
<1>4. CASE CloseAfterSuccess /\ UNCHANGED <<provider, slotVars>>
  BY <1>4, CloseAfterSuccessSafe
<1>5. ASSUME SlotBackendStep PROVE SlotInv'
  <2>1. UNCHANGED <<dialog, attempts, abandoned, provider>>
    BY <1>5 DEF SlotBackendStep
  <2>2. CASE SlotCallStep
    BY <2>1, <2>2, SlotCallSafe DEF SlotCallStep
  <2>3. CASE ExpireSlot /\ UNCHANGED calls
    <3>1. /\ UNCHANGED <<slot, issued, calls>> /\ expired \subseteq expired'
      BY <2>3 DEF ExpireSlot
    <3>2. SlotTyped' /\ DialogIsInOrder' /\ LoginsAreIssued' /\ OneStartEach' /\ CompletedIsGone'
      BY <2>1, <3>1
      DEF SlotInv, SlotTyped, DialogIsInOrder, LoginsAreIssued, OneStartEach, CompletedIsGone
    <3>3. SlotHeld'
      BY <2>1, <3>1 DEF SlotInv, SlotHeld, SlotHolds, SlotIsLive
    <3>4. QED
      BY <3>2, <3>3 DEF SlotInv
  <2>4. QED
    BY <1>5, <2>2, <2>3 DEF SlotBackendStep
<1>6. QED
  BY <1>1, <1>2, <1>3, <1>4, <1>5 DEF SlotNext, DialogStep, ReplyStep

THEOREM SlotInvariance == SlotSpec => []SlotInv
<1>1. SlotInit => SlotInv
  BY SlotInitSafe
<1>2. SlotInv /\ [SlotNext]_allVars => SlotInv'
  BY SlotInductive
<1>3. QED
  BY <1>1, <1>2, PTL DEF SlotSpec

\* A dialog of CodeBuddy or WorkBuddy that is closed, once its starts and cancels are
\* carried out, has left no login that could still be completed, unless a success has
\* closed it over a later attempt.
THEOREM ClosedLeavesNoSlot == SlotSpec => []OnlyTheClosingLeavesSlot
<1>1. SlotInv => OnlyTheClosingLeavesSlot
  <2> SUFFICES ASSUME SlotInv, ~dialog.open, ~abandoned, SlotIsLive,
                      \A c \in calls : c.op \in {"browse", "complete", "fetch"}
               PROVE  FALSE
    BY DEF OnlyTheClosingLeavesSlot
  <2>1. dialog.login # slot.login
    BY SlotFacts
  <2>2. \E c \in calls : SlotHolds(c)
    BY <2>1 DEF SlotInv, SlotHeld
  <2>3. QED
    BY <2>2 DEF SlotHolds
<1>2. QED
  BY SlotInvariance, <1>1, PTL

----------------------------------------------------------------------------
\* The commands of the dialog, as TraeLogin carries them out, and where each may be.
TraeOps == {"start", "browse", "complete", "finish", "fetch", "cancel", "restore"}
TraePcs ==
    {"called", "look", "retain", "unlink", "insert", "persist", "stuck", "succeed", "expire",
     "fail", "wipe", "ok", "error", "timeout"}
TraeCalls == [op : TraeOps, attempt : Nat, login : Nat, pc : TraePcs]

PcFits(c) ==
    CASE c.op = "start" -> c.pc \in {"called", "look", "retain", "unlink", "insert", "persist",
                                     "stuck", "ok", "error"}
      [] c.op = "complete" -> c.pc \in {"called", "look", "succeed", "expire", "fail", "ok",
                                        "error", "timeout"}
      [] c.op = "finish" -> c.pc \in {"succeed", "expire", "fail"}
      [] c.op \in {"cancel", "restore"} -> c.pc \in {"called", "look", "wipe"}
      [] OTHER -> c.pc = "called"

Files == [login : 1 .. issued, result : Results]

TraeTyped ==
    /\ attempts \in Nat /\ issued \in Nat /\ dialog \in Dialogs
    /\ calls \subseteq TraeCalls /\ \A c \in calls : PcFits(c)
    /\ Listed \subseteq 1 .. issued /\ pending \in [Listed -> Results]
    /\ file = NoFile \/ file \in Files
    /\ servers \subseteq 1 .. issued
    /\ overlapped \in BOOLEAN /\ revived \in BOOLEAN /\ abandoned \in BOOLEAN

\* No login is newer than the last; a dialog has one only once it shows something.
TraeDialogIsInOrder ==
    /\ dialog.login <= issued
    /\ dialog.login # NoLogin => dialog.shown # "nothing"
    /\ dialog.shown # "nothing" => dialog.open
    /\ dialog.attempt <= attempts
    /\ dialog.attempt # 0 => dialog.open

\* The commands of an attempt that follow its start.
Started == {"browse", "complete", "finish", "fetch"}

TraeLoginsAreIssued ==
    \A c \in calls :
        /\ c.login <= issued
        /\ c.op \in Started \/ c.pc \in {"persist", "ok"} => c.login # NoLogin

\* An attempt whose login has started shows it.
TraeStartsShow ==
    \A c \in calls :
        /\ c.op \in Started \cup {"start"} => c.attempt \in 1 .. attempts
        /\ c.op \in Started /\ c.attempt = dialog.attempt => dialog.shown # "nothing"

TraeOrder == TraeTyped /\ TraeDialogIsInOrder /\ TraeLoginsAreIssued /\ TraeStartsShow

----------------------------------------------------------------------------
\* What holds unless commands of overlapping attempts have met.
Calm == ~overlapped /\ ~revived /\ ~abandoned

Changes(c) == c.op \in {"start", "cancel", "restore"}

\* One start or cancel at a time; its dialog is the one that is shown, or is closed.
OneChange ==
    \A c \in calls : Changes(c) =>
        /\ \A d \in calls : Changes(d) => d = c
        /\ dialog.open => /\ c.op = "start" /\ c.attempt = dialog.attempt
                          /\ dialog.shown = "nothing"
        /\ c.op = "restore" => calls = {c}

\* A login that somebody completes is the one the dialog shows, or is being cancelled,
\* or is not pending any more.
IsCancelled(l) == \E k \in calls : k.op = "cancel" /\ k.login = l

CompletedIsShown ==
    \A c \in calls : c.login \in Listed =>
        /\ c.op \in {"browse", "complete"} => dialog.login = c.login \/ IsCancelled(c.login)
        /\ c.op # "fetch" /\ ~(c.op = "complete" /\ c.pc \in Replies)

\* The map and the file are apart while somebody changes them, and how.
Agreed ==
    \/ Listed = {} /\ file = NoFile
    \/ \E l \in Listed : Listed = {l} /\ file = Stored(l, pending[l])

Parts(c) ==
    \/ c.op = "finish" \/ c.pc \in {"unlink", "insert", "persist", "wipe"}
    \/ c.op = "restore" /\ c.pc = "called"

ApartAsItShould(c) ==
    /\ c.op = "finish" =>
          /\ Listed = {} /\ file.login = c.login
          /\ \A d \in calls : /\ d.op = "finish" => d = c
                              /\ d.op = "start" => d.pc = "called"
                              /\ Changes(d) => d.pc \in {"called", "look"}
    /\ c.pc \in {"unlink", "wipe"} \/ (c.op = "restore" /\ c.pc = "called") => Listed = {}
    /\ c.pc = "retain" => Listed \subseteq expired
    /\ c.pc = "unlink" => file.login \in expired \union {NoLogin}
    /\ c.pc = "wipe" => file.login \in {c.login, NoLogin}
    /\ c.pc = "insert" => Listed = {} /\ file = NoFile
    /\ c.pc = "persist" =>
          /\ Listed = {c.login} /\ file = NoFile /\ pending[c.login] = "none"
          /\ c.login \notin servers /\ dialog.login # c.login

MapMeetsFile ==
    /\ \A c \in calls : ApartAsItShould(c)
    /\ (\A c \in calls : ~Parts(c)) => Agreed

TraeInv == TraeOrder /\ (Calm => OneChange /\ CompletedIsShown /\ MapMeetsFile)

\* A command that fits in with the rest.
Fits(x) ==
    /\ x \in TraeCalls /\ PcFits(x) /\ x.login <= issued
    /\ x.op \in Started \/ x.pc \in {"persist", "ok"} => x.login # NoLogin
    /\ x.op \in Started \cup {"start"} => x.attempt \in 1 .. attempts

MapIsTyped ==
    /\ Listed \subseteq 1 .. issued /\ pending \in [Listed -> Results]
    /\ file = NoFile \/ file \in Files
    /\ servers \subseteq 1 .. issued

----------------------------------------------------------------------------
\* What a step of TraeLogin may rely on.
LEMMA TraeFacts ==
    ASSUME TraeOrder
    PROVE  /\ calls \subseteq TraeCalls /\ dialog \in Dialogs
           /\ attempts \in Nat /\ issued \in Nat
           /\ overlapped \in BOOLEAN /\ revived \in BOOLEAN /\ abandoned \in BOOLEAN
           /\ \A c \in calls : c.login \in Nat /\ c.login <= issued /\ c.attempt \in Nat
           /\ dialog.login \in Nat /\ dialog.login <= issued /\ dialog.attempt \in Nat
           /\ dialog.attempt <= attempts
           /\ dialog.login # NoLogin => dialog.shown # "nothing"
           /\ dialog.shown # "nothing" => dialog.open
           /\ \A c \in calls : PcFits(c)
BY DEF TraeOrder, TraeTyped, TraeDialogIsInOrder, TraeLoginsAreIssued, TraeCalls, Dialogs

\* The file has a login, or is not there.
LEMMA FileFacts ==
    ASSUME TraeOrder
    PROVE  /\ file = NoFile <=> file.login = NoLogin
           /\ file # NoFile => /\ file.login \in 1 .. issued /\ file.result \in Results
                               /\ file = Stored(file.login, file.result)
           /\ \A l, r : Stored(l, r).login = l /\ NoFile.login = NoLogin
<1>1. /\ issued \in Nat /\ (file = NoFile \/ file \in Files) /\ NoFile.login = NoLogin
      /\ \A l, r : Stored(l, r).login = l
  BY DEF TraeOrder, TraeTyped, NoFile, Stored
<1>2. file \in Files => /\ file.login \in 1 .. issued /\ file.result \in Results
                        /\ file = Stored(file.login, file.result) /\ file.login # NoLogin
  BY <1>1 DEF Files, Stored, NoLogin
<1>3. QED
  BY <1>1, <1>2

LEMMA MapFacts ==
    ASSUME TraeOrder
    PROVE  /\ MapIsTyped /\ NoLogin \notin Listed
           /\ \A l \in Listed : l \in 1 .. issued /\ pending[l] \in Results
           /\ pending = [l \in Listed |-> pending[l]]
<1>1. Listed \subseteq 1 .. issued /\ pending \in [Listed -> Results]
  BY DEF TraeOrder, TraeTyped
<1>2. QED
  BY <1>1 DEF TraeOrder, TraeTyped, MapIsTyped, NoLogin

\* While a login is being started or cancelled, the other commands are of an attempt that
\* has started its login.
LEMMA OthersHaveStarted ==
    ASSUME TraeOrder, OneChange, NEW c \in calls, Changes(c), NEW x \in calls, x # c
    PROVE  /\ x.op \in Started /\ ~Changes(x)
           /\ x.pc \notin {"retain", "unlink", "insert", "persist", "wipe"}
           /\ Parts(x) => x.op = "finish"
<1>1. ~Changes(x) /\ x.op \in TraeOps /\ PcFits(x)
  BY TraeFacts DEF OneChange, TraeCalls
<1>2. x.op \in Started
  BY <1>1 DEF Changes, TraeOps, Started
<1>3. x.pc \notin {"retain", "unlink", "insert", "persist", "wipe"}
  BY <1>1, <1>2 DEF PcFits, Started
<1>4. QED
  BY <1>1, <1>2, <1>3 DEF Parts, Changes

\* While a start is under way nobody completes a login that is pending.
LEMMA StartIsAlone ==
    ASSUME TraeOrder, OneChange, CompletedIsShown, NEW c \in calls, c.op = "start"
    PROVE  /\ dialog.login = NoLogin
           /\ \A x \in calls : x.op \in {"browse", "complete"} => x.login \notin Listed
<1>1. dialog.login = NoLogin
  BY TraeFacts DEF OneChange, Changes
<1>2. \A x \in calls : x.op \in {"browse", "complete"} => x.login # NoLogin /\ ~IsCancelled(x.login)
  BY DEF TraeOrder, TraeLoginsAreIssued, IsCancelled, OneChange, Changes, Started
<1>3. QED
  BY <1>1, <1>2 DEF CompletedIsShown

\* What keeps the order: the calls that are new fit.
LEMMA OrderKept ==
    ASSUME TraeOrder, attempts' \in Nat, attempts <= attempts', issued' \in Nat,
           issued <= issued', dialog' \in Dialogs, TraeDialogIsInOrder',
           \A x \in calls' : x \in calls \/ Fits(x)',
           \A x \in calls' : x.op \in Started /\ x.attempt = dialog'.attempt =>
               dialog'.shown # "nothing",
           MapIsTyped', overlapped' \in BOOLEAN, revived' \in BOOLEAN, abandoned' \in BOOLEAN
    PROVE  TraeOrder'
<1>1. \A x \in calls : Fits(x)
  BY TraeFacts DEF TraeOrder, TraeTyped, TraeLoginsAreIssued, TraeStartsShow, Fits
<1>2. \A x \in calls' : Fits(x)'
  <2> SUFFICES ASSUME NEW x \in calls', x \in calls PROVE Fits(x)'
    OBVIOUS
  <2>1. x.login \in Nat /\ x.attempt \in Nat
    BY TraeFacts
  <2>2. /\ x.login <= issued'
        /\ x.op \in Started \union {"start"} => x.attempt \in 1 .. attempts'
    BY <1>1, <2>1, TraeFacts DEF Fits
  <2>3. QED
    BY <1>1, <2>2 DEF Fits
<1>3. TraeTyped'
  BY <1>2 DEF TraeTyped, MapIsTyped, Fits
<1>4. TraeLoginsAreIssued' /\ TraeStartsShow'
  BY <1>2 DEF TraeLoginsAreIssued, TraeStartsShow, Fits
<1>5. QED
  BY <1>3, <1>4 DEF TraeOrder

\* A command goes on or ends: those that change logins are as many as before.
LEMMA OneChangeKept ==
    ASSUME OneChange, NEW c \in calls, NEW d, calls' \subseteq (calls \ {c}) \union {d},
           d \in calls' /\ Changes(d) => Changes(c) /\ d.op = c.op /\ d.attempt = c.attempt,
           UNCHANGED dialog
    PROVE  OneChange'
<1> SUFFICES ASSUME NEW x \in calls', Changes(x)
             PROVE  /\ \A y \in calls' : Changes(y) => y = x
                    /\ dialog.open => /\ x.op = "start" /\ x.attempt = dialog.attempt
                                      /\ dialog.shown = "nothing"
                    /\ x.op = "restore" => calls' = {x}
  BY DEF OneChange, Changes
<1>1. CASE x \in calls \ {c}
  BY <1>1 DEF OneChange
<1>2. CASE x = d
  BY <1>2 DEF OneChange
<1>3. QED
  BY <1>1, <1>2

\* The logins that are new in the map are nobody's, and the others still somebody's.
LEMMA ShownKept ==
    ASSUME CompletedIsShown, NEW c \in calls, NEW d,
           calls' \subseteq (calls \ {c}) \union {d}, calls \ {c} \subseteq calls',
           UNCHANGED dialog,
           \A x \in calls : x # c /\ x.login \in Listed' => x.login \in Listed,
           d \in calls' /\ d.login \in Listed' =>
               /\ d.op # "fetch" /\ ~(d.op = "complete" /\ d.pc \in Replies)
               /\ d.op \in {"browse", "complete"} =>
                     c.op \in {"browse", "complete"} /\ c.login = d.login /\ c.login \in Listed,
           c.op = "cancel" /\ c.login \in Listed' =>
               d \in calls' /\ d.op = "cancel" /\ d.login = c.login
    PROVE  CompletedIsShown'
<1>1. ASSUME NEW l \in Listed', IsCancelled(l) PROVE IsCancelled(l)'
  BY <1>1 DEF IsCancelled
<1>2. ASSUME NEW x \in calls', x.login \in Listed'
      PROVE  /\ x.op \in {"browse", "complete"} => dialog.login = x.login \/ IsCancelled(x.login)'
             /\ x.op # "fetch" /\ ~(x.op = "complete" /\ x.pc \in Replies)
  <2>1. CASE x \in calls \ {c}
    BY <1>1, <1>2, <2>1 DEF CompletedIsShown
  <2>2. CASE x = d
    BY <1>1, <1>2, <2>2 DEF CompletedIsShown
  <2>3. QED
    BY <2>1, <2>2
<1>3. QED
  BY <1>2 DEF CompletedIsShown, Listed

\* The map and the file are left alone, and who parts them goes on, or does not.
LEMMA MapKept ==
    ASSUME MapMeetsFile, UNCHANGED <<pending, file>>, expired \subseteq expired',
           \A x \in calls' : x \in calls \/
               /\ ~Parts(x) /\ x.pc # "retain"
               /\ (\E f \in calls : f.op = "finish") =>
                     /\ x.op = "start" => x.pc = "called"
                     /\ Changes(x) => x.pc \in {"called", "look"},
           \A x \in calls : Parts(x) => x \in calls' \/ Agreed,
           \A x \in calls' : x.pc = "persist" =>
               /\ x.login \in servers' => x.login \in servers
               /\ dialog'.login # x.login
    PROVE  MapMeetsFile'
<1>1. Agreed' <=> Agreed
  BY DEF Agreed, Listed
<1>2. (\A x \in calls' : ~Parts(x)) => Agreed
  BY DEF MapMeetsFile
<1>3. ASSUME NEW x \in calls' PROVE ApartAsItShould(x)'
  <2>1. CASE x \in calls
    BY <2>1 DEF MapMeetsFile, ApartAsItShould, Listed, Parts
  <2>2. CASE x \notin calls
    BY <2>2 DEF ApartAsItShould, Parts
  <2>3. QED
    BY <2>1, <2>2
<1>4. QED
  BY <1>1, <1>2, <1>3 DEF MapMeetsFile, Parts

----------------------------------------------------------------------------
\* A command goes on as d, or ends.
LEMMA GoesSafe ==
    ASSUME TraeInv, NEW c \in calls, NEW d,
           calls' \subseteq (calls \ {c}) \union {d}, calls \ {c} \subseteq calls',
           d \in calls' =>
               /\ Fits(d)' /\ d.attempt = c.attempt
               /\ d.op \in Started => c.op \in Started
               /\ Changes(d) => Changes(c) /\ d.op = c.op,
           issued' \in Nat, issued <= issued', MapIsTyped',
           UNCHANGED <<dialog, attempts, overlapped, abandoned>>,
           revived' \in BOOLEAN, revived => revived',
           Calm' =>
               /\ \A x \in calls : x # c /\ x.login \in Listed' => x.login \in Listed
               /\ d \in calls' /\ d.login \in Listed' =>
                     /\ d.op # "fetch" /\ ~(d.op = "complete" /\ d.pc \in Replies)
                     /\ d.op \in {"browse", "complete"} =>
                           c.op \in {"browse", "complete"} /\ c.login = d.login /\ c.login \in Listed
               /\ c.op = "cancel" /\ c.login \in Listed' =>
                     d \in calls' /\ d.op = "cancel" /\ d.login = c.login
               /\ MapMeetsFile'
    PROVE  TraeInv'
<1>1. TraeOrder
  BY DEF TraeInv
<1>2. TraeOrder'
  <2>1. attempts' \in Nat /\ attempts <= attempts' /\ dialog' \in Dialogs
        /\ overlapped' \in BOOLEAN /\ abandoned' \in BOOLEAN
    BY <1>1, TraeFacts
  <2>2. TraeDialogIsInOrder'
    <3>1. dialog.login <= issued'
      BY <1>1, TraeFacts
    <3>2. QED
      BY <1>1, <3>1 DEF TraeOrder, TraeDialogIsInOrder
  <2>3. \A x \in calls' : x \in calls \/ Fits(x)'
    OBVIOUS
  <2>4. \A x \in calls' : x.op \in Started /\ x.attempt = dialog'.attempt =>
                              dialog'.shown # "nothing"
    BY <1>1 DEF TraeOrder, TraeStartsShow
  <2>5. QED
    BY <1>1, <2>1, <2>2, <2>3, <2>4, OrderKept
<1>3. ASSUME Calm' PROVE OneChange' /\ CompletedIsShown' /\ MapMeetsFile'
  <2>1. OneChange /\ CompletedIsShown /\ UNCHANGED dialog
    BY <1>3 DEF TraeInv, Calm
  <2>2. OneChange'
    BY <2>1, OneChangeKept
  <2>3. CompletedIsShown'
    BY <1>3, <2>1, ShownKept
  <2>4. QED
    BY <1>3, <2>2, <2>3
<1>4. QED
  BY <1>2, <1>3 DEF TraeInv

\* What a quiet step may rely on.
LEMMA CalmFacts ==
    ASSUME TraeInv, Calm
    PROVE  TraeOrder /\ OneChange /\ CompletedIsShown /\ MapMeetsFile
BY DEF TraeInv

\* The command c goes on: where, with which login, as which.
LEMMA Goes ==
    ASSUME TraeOrder, NEW c \in calls, NEW pc \in TraePcs, Go(c, pc)
    PROVE  \E d \in TraeCalls : /\ calls' = (calls \ {c}) \union {d}
                                /\ d.op = c.op /\ d.attempt = c.attempt
                                /\ d.login = c.login /\ d.pc = pc
<1> DEFINE d == [c EXCEPT !.pc = pc]
<1>1. d \in TraeCalls /\ d.op = c.op /\ d.attempt = c.attempt /\ d.login = c.login /\ d.pc = pc
  BY TraeFacts DEF TraeCalls
<1>2. calls' = (calls \ {c}) \union {d}
  BY DEF Go, Replace
<1>3. QED
  BY <1>1, <1>2

LEMMA GoesWith ==
    ASSUME TraeOrder, NEW c \in calls, NEW l \in Nat, NEW pc \in TraePcs,
           Reply(c, l, pc)
    PROVE  \E d \in TraeCalls : /\ calls' = (calls \ {c}) \union {d}
                                /\ d.op = c.op /\ d.attempt = c.attempt
                                /\ d.login = l /\ d.pc = pc
<1> DEFINE d == [c EXCEPT !.login = l, !.pc = pc]
<1>1. d \in TraeCalls /\ d.op = c.op /\ d.attempt = c.attempt /\ d.login = l /\ d.pc = pc
  BY TraeFacts DEF TraeCalls
<1>2. calls' = (calls \ {c}) \union {d}
  BY DEF Reply, Replace
<1>3. QED
  BY <1>1, <1>2

LEMMA GoesToFinish ==
    ASSUME TraeOrder, NEW c \in calls, Replace(c, [c EXCEPT !.op = "finish"])
    PROVE  \E d \in TraeCalls : /\ calls' = (calls \ {c}) \union {d}
                                /\ d.op = "finish" /\ d.attempt = c.attempt
                                /\ d.login = c.login /\ d.pc = c.pc
<1> DEFINE d == [c EXCEPT !.op = "finish"]
<1>1. d \in TraeCalls /\ d.op = "finish" /\ d.attempt = c.attempt /\ d.login = c.login /\ d.pc = c.pc
  BY TraeFacts DEF TraeCalls, TraeOps
<1>2. QED
  BY <1>1 DEF Replace

LEMMA GoesToReply ==
    ASSUME TraeOrder, NEW c \in calls, NEW pc \in TraePcs,
           Replace(c, [c EXCEPT !.op = "complete", !.pc = pc])
    PROVE  \E d \in TraeCalls : /\ calls' = (calls \ {c}) \union {d}
                                /\ d.op = "complete" /\ d.attempt = c.attempt
                                /\ d.login = c.login /\ d.pc = pc
<1> DEFINE d == [c EXCEPT !.op = "complete", !.pc = pc]
<1>1. d \in TraeCalls /\ d.op = "complete" /\ d.attempt = c.attempt /\ d.login = c.login /\ d.pc = pc
  BY TraeFacts DEF TraeCalls, TraeOps
<1>2. QED
  BY <1>1 DEF Replace

\* The map after a login is put into it, or taken out.
LEMMA MapChanges ==
    ASSUME TraeOrder, NEW l \in 1 .. issued, NEW r \in Results, NEW p
    PROVE  /\ p = With(l, r) => /\ DOMAIN p = Listed \union {l} /\ DOMAIN p \subseteq 1 .. issued
                                /\ p \in [DOMAIN p -> Results] /\ p[l] = r
           /\ p = Without({l}) => /\ DOMAIN p = Listed \ {l} /\ DOMAIN p \subseteq 1 .. issued
                                  /\ p \in [DOMAIN p -> Results]
BY MapFacts DEF With, Without

----------------------------------------------------------------------------
\* A start that has begun parts the map and the file alone.
LEMMA StartUnderWay ==
    ASSUME TraeInv, Calm, NEW c \in calls, c.op = "start", c.pc # "called"
    PROVE  /\ \A x \in calls \ {c} :
                  /\ x.op \in Started \ {"finish"} /\ ~Changes(x) /\ ~Parts(x)
                  /\ x.pc \notin {"retain", "unlink", "insert", "persist", "wipe"}
                  /\ x.op \in {"browse", "complete"} => x.login \notin Listed
           /\ ApartAsItShould(c)
           /\ ~Parts(c) => Agreed
<1>1. TraeOrder /\ OneChange /\ CompletedIsShown /\ MapMeetsFile /\ Changes(c)
  BY CalmFacts DEF Changes
<1>2. \A x \in calls : x.op # "finish"
  BY <1>1 DEF MapMeetsFile, ApartAsItShould
<1>3. \A x \in calls \ {c} :
          /\ x.op \in Started \ {"finish"} /\ ~Changes(x) /\ ~Parts(x)
          /\ x.pc \notin {"retain", "unlink", "insert", "persist", "wipe"}
  BY <1>1, <1>2, OthersHaveStarted
<1>4. \A x \in calls : x.op \in {"browse", "complete"} => x.login \notin Listed
  BY <1>1, StartIsAlone
<1>5. QED
  BY <1>1, <1>3, <1>4 DEF MapMeetsFile

\* A start goes on.
LEMMA StartGoes ==
    ASSUME TraeInv, NEW c \in calls, c.op = "start", c.pc # "called", NEW d,
           calls' = (calls \ {c}) \union {d}, Fits(d)', d.op = "start", d.attempt = c.attempt,
           issued' \in Nat, issued <= issued', MapIsTyped',
           UNCHANGED <<dialog, attempts, overlapped, abandoned, revived>>,
           \A x \in calls : x.login \in Listed' => x.login \in Listed,
           Calm => ApartAsItShould(d)' /\ (~Parts(d) => Agreed')
    PROVE  TraeInv'
<1>1. revived' \in BOOLEAN /\ (revived => revived')
  BY TraeFacts DEF TraeInv
<1>2. ASSUME Calm PROVE MapMeetsFile'
  <2>1. \A x \in calls \ {c} :
            /\ x.op \in Started \ {"finish"} /\ ~Parts(x)
            /\ x.pc \notin {"retain", "unlink", "insert", "persist", "wipe"}
    BY <1>2, StartUnderWay
  <2>2. \A x \in calls \ {c} : ApartAsItShould(x)'
    BY <2>1 DEF ApartAsItShould, Started
  <2>3. ApartAsItShould(d)' /\ (~Parts(d) => Agreed')
    BY <1>2
  <2>4. \A x \in calls' : ApartAsItShould(x)'
    BY <2>2, <2>3
  <2>5. (\A x \in calls' : ~Parts(x)) => Agreed'
    BY <2>3
  <2>6. QED
    BY <2>4, <2>5 DEF MapMeetsFile, Parts
<1>3. Calm' => Calm
  BY <1>1 DEF Calm
<1>4. calls' \subseteq (calls \ {c}) \union {d} /\ calls \ {c} \subseteq calls'
  OBVIOUS
<1>5. d.op \notin Started /\ (Changes(d) => Changes(c) /\ d.op = c.op)
  BY DEF Started, Changes
<1>6. QED
  BY <1>1, <1>2, <1>3, <1>4, <1>5, GoesSafe

LEMMA StartAgainSafe ==
    ASSUME TraeInv, NEW c \in calls, StartAgain(c),
           UNCHANGED <<dialog, attempts, overlapped, abandoned, revived>>
    PROVE  TraeInv'
<1>1. /\ c.op = "start" /\ c.pc = "look" /\ UNCHANGED <<pending, file, issued, expired>>
  BY DEF StartAgain
<1>2. PICK l \in Listed \ expired :
        /\ servers' = IF pending[l] = "none" THEN servers \cup {l} ELSE servers
        /\ Reply(c, l, "ok")
  BY DEF StartAgain, Reusable
<1>3. TraeOrder /\ l \in 1 .. issued /\ l \in Nat /\ MapIsTyped /\ issued \in Nat
  BY MapFacts, TraeFacts DEF TraeInv
<1>4. PICK d \in TraeCalls : /\ calls' = (calls \ {c}) \union {d}
                             /\ d.op = c.op /\ d.attempt = c.attempt
                             /\ d.login = l /\ d.pc = "ok"
  <2>1. "ok" \in TraePcs /\ Reply(c, l, "ok")
    BY <1>2 DEF TraePcs
  <2>2. QED
    BY <1>1, <1>3, <2>1, GoesWith
<1>6. Fits(d)'
  <2>1. PcFits(d) /\ d.login <= issued /\ d.login # NoLogin
    BY <1>1, <1>3, <1>4 DEF PcFits, NoLogin
  <2>2. d.attempt \in 1 .. attempts
    BY <1>1, <1>3, <1>4 DEF TraeOrder, TraeStartsShow
  <2>3. QED
    BY <1>1, <1>4, <2>1, <2>2 DEF Fits, Started
<1>7. MapIsTyped'
  BY <1>1, <1>2, <1>3 DEF MapIsTyped, Listed, Files
<1>8. ASSUME Calm PROVE ApartAsItShould(d)' /\ Agreed'
  <2>1. Agreed
    BY <1>1, <1>8, StartUnderWay DEF Parts
  <2>2. Agreed'
    BY <1>1, <2>1 DEF Agreed, Listed
  <2>3. QED
    BY <1>1, <1>4, <2>2 DEF ApartAsItShould
<1>9. \A x \in calls : x.login \in Listed' => x.login \in Listed
  BY <1>1 DEF Listed
<1>10. c.pc # "called" /\ issued' \in Nat /\ issued <= issued'
  BY <1>1, <1>3
<1>11. QED
  BY <1>1, <1>4, <1>6, <1>7, <1>8, <1>9, <1>10, StartGoes

\* A start that leaves the logins there are alone.
LEMMA StartTurns ==
    ASSUME TraeInv, NEW c \in calls, c.op = "start", c.pc # "called",
           NEW pc \in {"retain", "unlink", "insert", "error", "stuck"}, Go(c, pc),
           UNCHANGED <<dialog, attempts, overlapped, abandoned, revived, servers, issued>>,
           \/ UNCHANGED pending
           \/ pending' = << >>,
           file' \in {file, NoFile},
           Calm => \A d : /\ d.op = "start" /\ d.pc = pc /\ d.login = c.login
                          => ApartAsItShould(d)' /\ (~Parts(d) => Agreed')
    PROVE  TraeInv'
<1>1. TraeOrder /\ MapIsTyped /\ issued \in Nat
  BY MapFacts, TraeFacts DEF TraeInv
<1>2. PICK d \in TraeCalls : /\ calls' = (calls \ {c}) \union {d}
                             /\ d.op = "start" /\ d.attempt = c.attempt
                             /\ d.login = c.login /\ d.pc = pc
  BY <1>1, Goes DEF TraePcs
<1>4. Fits(d)'
  <2>1. PcFits(d) /\ d.login <= issued
    BY <1>1, <1>2, TraeFacts DEF PcFits
  <2>2. d.attempt \in 1 .. attempts
    BY <1>1, <1>2 DEF TraeOrder, TraeStartsShow
  <2>3. QED
    BY <1>2, <2>1, <2>2 DEF Fits, Started
<1>5. DOMAIN << >> = {} /\ << >> \in [{} -> Results]
  OBVIOUS
<1>6. MapIsTyped' /\ Listed' \subseteq Listed
  BY <1>1, <1>5 DEF MapIsTyped, Listed, Files
<1>7. Calm => ApartAsItShould(d)' /\ (~Parts(d) => Agreed')
  BY <1>2
<1>8. \A x \in calls : x.login \in Listed' => x.login \in Listed
  BY <1>6
<1>9. issued' \in Nat /\ issued <= issued'
  BY <1>1
<1>10. QED
  BY <1>2, <1>4, <1>6, <1>7, <1>8, <1>9, StartGoes

LEMMA StartAtTheSecondSafe ==
    ASSUME TraeInv, NEW c \in calls, StartAtTheSecond(c),
           UNCHANGED <<dialog, attempts, overlapped, abandoned, revived>>
    PROVE  TraeInv'
<1>1. /\ c.op = "start" /\ c.pc = "look" /\ Go(c, "stuck")
      /\ UNCHANGED <<pending, file, issued, servers>>
  BY DEF StartAtTheSecond
<1>2. ASSUME Calm, NEW d, d.op = "start", d.pc = "stuck" PROVE ApartAsItShould(d)' /\ Agreed'
  <2>1. Agreed
    BY <1>1, <1>2, StartUnderWay DEF Parts
  <2>2. Agreed'
    BY <1>1, <2>1 DEF Agreed, Listed
  <2>3. QED
    BY <1>2, <2>2 DEF ApartAsItShould
<1>3. QED
  BY <1>1, <1>2, StartTurns

LEMMA StartAfreshSafe ==
    ASSUME TraeInv, NEW c \in calls, StartAfresh(c),
           UNCHANGED <<dialog, attempts, overlapped, abandoned, revived>>
    PROVE  TraeInv'
<1>1. /\ c.op = "start" /\ c.pc = "look" /\ Go(c, "retain") /\ Listed \subseteq expired
      /\ UNCHANGED <<pending, file, issued, servers, expired>>
  BY DEF StartAfresh, Reusable, backend
<1>2. ASSUME Calm, NEW d, d.op = "start", d.pc = "retain" PROVE ApartAsItShould(d)' /\ Agreed'
  <2>1. Agreed
    BY <1>1, <1>2, StartUnderWay DEF Parts
  <2>2. Agreed'
    BY <1>1, <2>1 DEF Agreed, Listed
  <2>3. QED
    BY <1>1, <1>2, <2>2 DEF ApartAsItShould, Listed
<1>3. QED
  BY <1>1, <1>2, StartTurns

LEMMA RetainSafe ==
    ASSUME TraeInv, NEW c \in calls, Retain(c),
           UNCHANGED <<dialog, attempts, overlapped, abandoned, revived>>
    PROVE  TraeInv'
<1>1. /\ c.pc = "retain" /\ Go(c, "unlink") /\ pending' = << >>
      /\ UNCHANGED <<file, issued, servers, expired>>
  BY DEF Retain
<1>2. c.op = "start"
  BY <1>1, TraeFacts DEF TraeInv, TraeCalls, TraeOps, PcFits
<1>3. ASSUME Calm, NEW d, d.op = "start", d.pc = "unlink"
      PROVE  ApartAsItShould(d)' /\ (~Parts(d) => Agreed')
  <2>1. Agreed /\ Listed \subseteq expired
    BY <1>1, <1>2, <1>3, StartUnderWay DEF Parts, ApartAsItShould
  <2>2. file.login \in expired \union {NoLogin}
    BY <2>1 DEF Agreed, Stored, NoFile
  <2>3. DOMAIN << >> = {}
    OBVIOUS
  <2>4. Listed' = {}
    BY <1>1, <2>3 DEF Listed
  <2>5. QED
    BY <1>1, <1>3, <2>2, <2>4 DEF ApartAsItShould, Parts
<1>4. QED
  BY <1>1, <1>2, <1>3, StartTurns

LEMMA UnlinkSafe ==
    ASSUME TraeInv, NEW c \in calls, Unlink(c),
           UNCHANGED <<dialog, attempts, overlapped, abandoned, revived>>
    PROVE  TraeInv'
<1>1. c.pc = "unlink" /\ file' = NoFile /\ UNCHANGED <<pending, issued, servers, expired>>
  BY DEF Unlink
<1>2. PICK pc \in {"insert", "error"} : Go(c, pc)
  BY DEF Unlink
<1>3. c.op = "start"
  BY <1>1, TraeFacts DEF TraeInv, TraeCalls, TraeOps, PcFits
<1>4. ASSUME Calm, NEW d, d.op = "start", d.pc = pc
      PROVE  ApartAsItShould(d)' /\ Agreed'
  <2>1. Listed' = {}
    BY <1>1, <1>3, <1>4, StartUnderWay DEF ApartAsItShould, Listed
  <2>2. QED
    BY <1>1, <1>4, <2>1 DEF ApartAsItShould, Agreed
<1>5. QED
  BY <1>1, <1>2, <1>3, <1>4, StartTurns

LEMMA InsertSafe ==
    ASSUME TraeInv, NEW c \in calls, Insert(c),
           UNCHANGED <<dialog, attempts, overlapped, abandoned, revived>>
    PROVE  TraeInv'
<1> DEFINE l == issued + 1
<1>1. /\ c.pc = "insert" /\ issued' = l /\ pending' = With(l, "none") /\ Reply(c, l, "persist")
      /\ UNCHANGED <<file, servers, expired>>
  BY DEF Insert, Reply
<1>2. c.op = "start"
  BY <1>1, TraeFacts DEF TraeInv, TraeCalls, TraeOps, PcFits
<1>3. TraeOrder /\ issued \in Nat /\ l \in Nat /\ MapIsTyped /\ l # NoLogin
  BY MapFacts, TraeFacts DEF TraeInv, NoLogin
<1> HIDE DEF l
<1>4. PICK d \in TraeCalls : /\ calls' = (calls \ {c}) \union {d}
                             /\ d.op = c.op /\ d.attempt = c.attempt
                             /\ d.login = l /\ d.pc = "persist"
  BY <1>1, <1>3, GoesWith DEF TraePcs
<1>5. Fits(d)'
  <2>1. PcFits(d) /\ d.login <= issued' /\ d.login # NoLogin
    BY <1>1, <1>2, <1>3, <1>4 DEF PcFits
  <2>2. d.attempt \in 1 .. attempts
    BY <1>2, <1>3, <1>4 DEF TraeOrder, TraeStartsShow
  <2>3. QED
    BY <1>2, <1>4, <2>1, <2>2 DEF Fits, Started
<1>6. Listed' = Listed \union {l} /\ pending' \in [Listed' -> Results] /\ pending'[l] = "none"
  BY <1>1, <1>3, MapFacts DEF With, Results, Listed
<1>7. MapIsTyped'
  <2>1. \A k \in 1 .. issued : k \in 1 .. issued'
    BY <1>1, <1>3 DEF l
  <2>2. l \in 1 .. issued'
    BY <1>1, <1>3 DEF l
  <2>3. QED
    BY <1>1, <1>3, <1>6, <2>1, <2>2 DEF MapIsTyped, Files
<1>8. \A x \in calls : x.login \in Listed' => x.login \in Listed
  <2>1. \A x \in calls : x.login <= issued /\ x.login \in Nat
    BY <1>3, TraeFacts
  <2>2. QED
    BY <1>3, <1>6, <2>1 DEF l
<1>9. ASSUME Calm PROVE ApartAsItShould(d)' /\ (~Parts(d) => Agreed')
  <2>1. Listed = {} /\ file = NoFile
    BY <1>1, <1>2, <1>9, StartUnderWay DEF ApartAsItShould
  <2>2. l \notin servers /\ dialog.login # l
    <3>1. servers \subseteq 1 .. issued /\ dialog.login \in Nat /\ dialog.login <= issued
      BY <1>3, TraeFacts DEF MapIsTyped
    <3>2. QED
      BY <1>3, <3>1 DEF l
  <2>3. QED
    BY <1>1, <1>2, <1>4, <1>6, <2>1, <2>2 DEF ApartAsItShould, Parts
<1>10. issued' \in Nat /\ issued <= issued' /\ c.pc # "called"
  BY <1>1, <1>3 DEF l
<1>11. QED
  BY <1>2, <1>4, <1>5, <1>7, <1>8, <1>9, <1>10, StartGoes

LEMMA PersistSafe ==
    ASSUME TraeInv, NEW c \in calls, Persist(c),
           UNCHANGED <<dialog, attempts, overlapped, abandoned, revived>>
    PROVE  TraeInv'
<1>1. /\ c.pc = "persist" /\ file' = Stored(c.login, "none") /\ Reply(c, c.login, "ok")
      /\ servers' = servers \union {c.login} /\ UNCHANGED <<pending, issued, expired>>
  BY DEF Persist
<1>2. c.op = "start"
  BY <1>1, TraeFacts DEF TraeInv, TraeCalls, TraeOps, PcFits
<1>3. TraeOrder /\ issued \in Nat /\ MapIsTyped /\ c.login \in Nat /\ c.login <= issued
      /\ c.login # NoLogin
  BY <1>1, MapFacts, TraeFacts DEF TraeInv, TraeOrder, TraeLoginsAreIssued
<1>4. PICK d \in TraeCalls : /\ calls' = (calls \ {c}) \union {d}
                             /\ d.op = c.op /\ d.attempt = c.attempt
                             /\ d.login = c.login /\ d.pc = "ok"
  BY <1>1, <1>3, GoesWith DEF TraePcs
<1>5. Fits(d)'
  <2>1. PcFits(d) /\ d.login <= issued' /\ d.login # NoLogin
    BY <1>1, <1>2, <1>3, <1>4 DEF PcFits
  <2>2. d.attempt \in 1 .. attempts
    BY <1>2, <1>3, <1>4 DEF TraeOrder, TraeStartsShow
  <2>3. QED
    BY <1>2, <1>4, <2>1, <2>2 DEF Fits, Started
<1>6. c.login \in 1 .. issued
  BY <1>3 DEF NoLogin
<1>7. MapIsTyped'
  <2>1. Stored(c.login, "none") \in Files
    BY <1>6 DEF Stored, Files, Results
  <2>2. file' \in Files'
    BY <1>1, <2>1 DEF Files
  <2>3. QED
    BY <1>1, <1>3, <1>6, <2>2 DEF MapIsTyped, Listed
<1>8. \A x \in calls : x.login \in Listed' => x.login \in Listed
  BY <1>1 DEF Listed
<1>9. ASSUME Calm PROVE ApartAsItShould(d)' /\ Agreed'
  <2>1. Listed = {c.login} /\ pending[c.login] = "none"
    BY <1>1, <1>2, <1>9, StartUnderWay DEF ApartAsItShould
  <2>2. Agreed'
    BY <1>1, <2>1 DEF Agreed, Listed
  <2>3. QED
    BY <1>2, <1>4, <2>2 DEF ApartAsItShould
<1>10. issued' \in Nat /\ issued <= issued' /\ c.pc # "called"
  BY <1>1, <1>3
<1>11. QED
  BY <1>1, <1>2, <1>4, <1>5, <1>7, <1>8, <1>9, <1>10, StartGoes

----------------------------------------------------------------------------
\* Nobody but the start-up of the program reads the file, unless a login is revived.
LEMMA ReadsAtTheStart ==
    ASSUME TraeInv, Calm, NEW c \in calls, Listed = {}, file # NoFile,
           \A x \in calls : x.op # "finish" /\ x.pc \notin {"unlink", "wipe"}
    PROVE  calls = {c} /\ c.op = "restore"
<1>1. TraeOrder /\ OneChange /\ MapMeetsFile
  BY CalmFacts
<1>2. PICK x \in calls : Parts(x)
  BY <1>1 DEF MapMeetsFile, Agreed
<1>3. x.pc \notin {"insert", "persist"}
  BY <1>1 DEF MapMeetsFile, ApartAsItShould
<1>4. x.op = "restore"
  BY <1>2, <1>3 DEF Parts
<1>5. calls = {x}
  BY <1>1, <1>4 DEF OneChange, Changes
<1>6. QED
  BY <1>4, <1>5

LEMMA HydrateSafe ==
    ASSUME TraeInv, NEW c \in calls, Hydrate(c),
           UNCHANGED <<dialog, attempts, overlapped, abandoned>>
    PROVE  TraeInv'
<1> DEFINE reads == Listed = {} /\ file # NoFile
<1>1. /\ c.op \in {"start", "complete", "cancel", "restore"} /\ c.pc = "called" /\ Go(c, "look")
      /\ UNCHANGED <<servers, issued, expired>>
  BY DEF Hydrate
<1>2. /\ pending' = IF reads /\ file.login \notin expired
                    THEN With(file.login, file.result) ELSE pending
      /\ file' = IF reads /\ file.login \in expired THEN NoFile ELSE file
      /\ revived' = (revived \/
           (reads /\ \E x \in calls : x.op = "finish" \/ x.pc \in {"unlink", "wipe"}))
  BY DEF Hydrate, HydrateIfMissing
<1> HIDE DEF reads
<1>3. TraeOrder /\ issued \in Nat /\ MapIsTyped
  BY MapFacts, TraeFacts DEF TraeInv
<1>4. PICK d \in TraeCalls : /\ calls' = (calls \ {c}) \union {d}
                             /\ d.op = c.op /\ d.attempt = c.attempt
                             /\ d.login = c.login /\ d.pc = "look"
  BY <1>1, <1>3, Goes DEF TraePcs
<1>5. Fits(d)'
  <2>1. PcFits(d) /\ d.login <= issued
    BY <1>1, <1>3, <1>4, TraeFacts DEF PcFits
  <2>2. d.op \in Started => d.login # NoLogin
    BY <1>3, <1>4 DEF TraeOrder, TraeLoginsAreIssued
  <2>3. d.op \in Started \union {"start"} => d.attempt \in 1 .. attempts
    BY <1>3, <1>4 DEF TraeOrder, TraeStartsShow
  <2>4. QED
    BY <1>1, <1>4, <2>1, <2>2, <2>3 DEF Fits
<1>6. reads => /\ Listed = {} /\ file # NoFile /\ file.login \in 1 .. issued /\ file.result \in Results
               /\ file = Stored(file.login, file.result)
  BY <1>3, FileFacts DEF reads
<1>7. CASE reads /\ file.login \notin expired
  <2>1. pending' = With(file.login, file.result) /\ file' = file
    BY <1>2, <1>7
  <2>2. /\ Listed' = {file.login} /\ Listed' \subseteq 1 .. issued
        /\ pending' \in [Listed' -> Results] /\ pending'[file.login] = file.result
    <3>1. DOMAIN With(file.login, file.result) = {file.login}
      BY <1>6, <1>7 DEF With
    <3>2. With(file.login, file.result) \in [{file.login} -> Results]
      BY <1>6, <1>7 DEF With
    <3>3. With(file.login, file.result)[file.login] = file.result
      BY DEF With
    <3>4. QED
      BY <1>6, <1>7, <2>1, <3>1, <3>2, <3>3 DEF Listed
  <2>3. MapIsTyped'
    BY <1>1, <1>3, <2>1, <2>2 DEF MapIsTyped, Files
  <2>4. ASSUME Calm' PROVE calls = {c} /\ c.op = "restore" /\ MapMeetsFile'
    <3>1. Calm /\ \A x \in calls : x.op # "finish" /\ x.pc \notin {"unlink", "wipe"}
      BY <1>2, <1>3, <1>7, <2>4 DEF Calm
    <3>2. calls = {c} /\ c.op = "restore"
      BY <1>6, <1>7, <3>1, ReadsAtTheStart
    <3>3. Agreed'
      BY <1>6, <1>7, <2>1, <2>2 DEF Agreed
    <3>4. ApartAsItShould(d)' /\ calls' = {d}
      BY <1>4, <3>2 DEF ApartAsItShould
    <3>5. QED
      BY <3>2, <3>3, <3>4 DEF MapMeetsFile
  <2>5. revived' \in BOOLEAN /\ (revived => revived')
    BY <1>2, <1>3, TraeFacts
  <2>6. d.op \in Started => c.op \in Started
    BY <1>4
  <2>7. d.login \in Listed' /\ Calm' => d.op = "restore"
    BY <1>4, <2>4
  <2>8. issued' \in Nat /\ issued <= issued'
    BY <1>1, <1>3
  <2>9. QED
    BY <1>4, <1>5, <2>3, <2>4, <2>5, <2>6, <2>7, <2>8, GoesSafe DEF Changes
<1>8. CASE ~(reads /\ file.login \notin expired)
  <2>1. pending' = pending
    BY <1>2, <1>8
  <2>2. MapIsTyped'
    BY <1>1, <1>2, <1>3, <2>1 DEF MapIsTyped, Listed, Files
  <2>3. revived' \in BOOLEAN /\ (revived => revived')
    BY <1>2, <1>3, TraeFacts
  <2>4. issued' \in Nat /\ issued <= issued'
    BY <1>1, <1>3
  <2>5. ASSUME Calm' PROVE MapMeetsFile'
    <3>1. Calm
      BY <2>3, <2>5 DEF Calm
    <3>2. OneChange /\ CompletedIsShown /\ MapMeetsFile
      BY <3>1, CalmFacts
    <3>3. CASE reads
      <4>1. \A x \in calls : x.op # "finish" /\ x.pc \notin {"unlink", "wipe"}
        BY <1>2, <2>5, <3>3 DEF Calm
      <4>2. calls = {c} /\ c.op = "restore"
        BY <1>6, <3>1, <3>3, <4>1, ReadsAtTheStart
      <4>3. Listed' = {} /\ file' = NoFile
        BY <1>2, <1>6, <1>8, <2>1, <3>3 DEF Listed
      <4>4. ApartAsItShould(d)' /\ calls' = {d}
        BY <1>4, <4>2 DEF ApartAsItShould
      <4>5. QED
        BY <4>3, <4>4 DEF MapMeetsFile, Agreed
    <3>4. CASE ~reads
      <4>1. UNCHANGED <<pending, file>> /\ expired \subseteq expired'
        BY <1>1, <1>2, <2>1, <3>4
      <4>2. \A x \in calls : x.op # "finish"
        <5>1. \A x \in calls : x.op = "finish" => x.login # NoLogin /\ Listed = {} /\ file.login = x.login
          BY <1>3, <3>2 DEF MapMeetsFile, ApartAsItShould, TraeOrder, TraeLoginsAreIssued, Started
        <5>2. QED
          BY <1>3, <3>4, <5>1, FileFacts DEF reads
      <4>3. ~Parts(d) /\ d.pc # "retain"
        BY <1>1, <1>4 DEF Parts
      <4>4. Parts(c) => Agreed
        <5>1. Parts(c) => Listed = {}
          BY <1>1, <3>2 DEF Parts, MapMeetsFile, ApartAsItShould
        <5>2. QED
          BY <3>4, <5>1 DEF Agreed, reads
      <4>5. \A x \in calls : x.pc = "persist" => dialog.login # x.login
        BY <3>2 DEF MapMeetsFile, ApartAsItShould
      <4>6. \A x \in calls' : x.pc = "persist" => /\ x.login \in servers' => x.login \in servers
                                                  /\ dialog'.login # x.login
        BY <1>1, <1>4, <4>5
      <4>7. QED
        BY <1>4, <3>2, <4>1, <4>2, <4>3, <4>4, <4>6, MapKept
    <3>5. QED
      BY <3>3, <3>4
  <2>6. Listed' = Listed
    BY <2>1 DEF Listed
  <2>7. d.login \in Listed' => /\ d.op # "fetch" /\ ~(d.op = "complete" /\ d.pc \in Replies)
                               /\ c.login = d.login /\ c.login \in Listed
    BY <1>1, <1>4, <2>6 DEF Replies
  <2>8. QED
    BY <1>1, <1>4, <1>5, <2>2, <2>3, <2>4, <2>5, <2>6, <2>7, GoesSafe DEF Changes
<1>9. QED
  BY <1>7, <1>8

----------------------------------------------------------------------------
LEMMA PollSafe ==
    ASSUME TraeInv, NEW c \in calls, Poll(c),
           UNCHANGED <<dialog, attempts, overlapped, abandoned, revived>>
    PROVE  TraeInv'
<1>1. PICK pc \in {"succeed", "expire", "fail"} : Go(c, pc)
  BY DEF Poll
<1>2. c.op = "complete" /\ c.pc = "look" /\ UNCHANGED <<pending, file, servers, issued, expired>>
  BY DEF Poll, backend
<1>3. TraeOrder /\ issued \in Nat /\ MapIsTyped /\ revived \in BOOLEAN
  BY MapFacts, TraeFacts DEF TraeInv
<1>4. PICK d \in TraeCalls : /\ calls' = (calls \ {c}) \union {d}
                             /\ d.op = c.op /\ d.attempt = c.attempt
                             /\ d.login = c.login /\ d.pc = pc
  BY <1>1, <1>3, Goes DEF TraePcs
<1>5. Fits(d)'
  <2>1. PcFits(d) /\ d.login <= issued
    BY <1>2, <1>3, <1>4, TraeFacts DEF PcFits
  <2>2. d.login # NoLogin /\ d.attempt \in 1 .. attempts
    BY <1>2, <1>3, <1>4 DEF TraeOrder, TraeLoginsAreIssued, TraeStartsShow, Started
  <2>3. QED
    BY <1>2, <1>4, <2>1, <2>2 DEF Fits
<1>6. MapIsTyped' /\ Listed' = Listed /\ issued' \in Nat /\ issued <= issued'
  BY <1>2, <1>3 DEF MapIsTyped, Listed, Files
<1>7. ASSUME Calm' PROVE MapMeetsFile'
  <2>1. MapMeetsFile
    BY <1>7, CalmFacts DEF Calm
  <2>2. ~Parts(d) /\ d.pc # "retain" /\ ~Changes(d) /\ ~Parts(c)
    BY <1>2, <1>4 DEF Parts, Changes
  <2>3. \A x \in calls' : x.pc = "persist" => /\ x.login \in servers' => x.login \in servers
                                              /\ dialog'.login # x.login
    BY <1>2, <1>4, <2>1 DEF MapMeetsFile, ApartAsItShould
  <2>4. QED
    BY <1>2, <1>4, <2>1, <2>2, <2>3, MapKept DEF Changes
<1>8. d.op = "complete" /\ d.pc \notin Replies /\ ~Changes(d)
  BY <1>2, <1>4 DEF Replies, Changes
<1>9. QED
  BY <1>2, <1>3, <1>4, <1>5, <1>6, <1>7, <1>8, GoesSafe

\* Whoever finds a login in the map finds it on the disk too: one that completes, as no
\* start can be under way then, and one that cancels or restores.
LEMMA FoundOnDisk ==
    ASSUME TraeInv, Calm, NEW c \in calls, Listed # {},
           \/ c.op = "complete" /\ c.login \in Listed
           \/ c.op \in {"cancel", "restore"}
    PROVE  /\ Agreed
           /\ \A x \in calls : /\ x.op \notin {"start", "finish"}
                               /\ Changes(x) => x.pc \in {"called", "look"}
                               /\ x.pc \notin {"retain", "unlink", "insert", "persist", "wipe"}
                               /\ ~(x.op = "restore" /\ x.pc = "called")
<1>1. TraeOrder /\ OneChange /\ CompletedIsShown /\ MapMeetsFile
  BY CalmFacts
<1>2. \A x \in calls : x.op # "start"
  BY <1>1, StartIsAlone DEF OneChange, Changes
<1>3. \A x \in calls : /\ x.op # "finish" /\ x.pc \notin {"unlink", "wipe"}
                       /\ ~(x.op = "restore" /\ x.pc = "called")
  BY <1>1 DEF MapMeetsFile, ApartAsItShould
<1>4. \A x \in calls : /\ Changes(x) => x.pc \in {"called", "look"}
                       /\ x.pc \notin {"retain", "insert", "persist"}
  BY <1>1, <1>2, <1>3, TraeFacts DEF TraeCalls, TraeOps, PcFits, Changes
<1>5. \A x \in calls : ~Parts(x)
  BY <1>3, <1>4 DEF Parts
<1>6. Agreed
  BY <1>1, <1>5 DEF MapMeetsFile
<1>7. QED
  BY <1>2, <1>3, <1>4, <1>6

LEMMA RemoveCompletedSafe ==
    ASSUME TraeInv, NEW c \in calls, RemoveCompleted(c),
           UNCHANGED <<dialog, attempts, overlapped, abandoned, revived>>
    PROVE  TraeInv'
<1>1. /\ c.op = "complete" /\ c.pc \in {"succeed", "expire", "fail"}
      /\ pending' = Without({c.login}) /\ UNCHANGED <<file, servers, issued, expired>>
  BY DEF RemoveCompleted
<1>2. TraeOrder /\ issued \in Nat /\ MapIsTyped /\ revived \in BOOLEAN
  BY MapFacts, TraeFacts DEF TraeInv
<1>3. c.login \in 1 .. issued /\ c.attempt \in 1 .. attempts /\ c.login # NoLogin
  BY <1>1, <1>2, TraeFacts DEF TraeOrder, TraeLoginsAreIssued, TraeStartsShow, Started, NoLogin
<1>4. Listed' = Listed \ {c.login} /\ Listed' \subseteq 1 .. issued /\ pending' \in [Listed' -> Results]
  BY <1>1, <1>2, <1>3, MapChanges DEF Listed, Results
<1>5. MapIsTyped' /\ issued' \in Nat /\ issued <= issued'
  BY <1>1, <1>2, <1>4 DEF MapIsTyped, Files
<1>6. CASE c.login \in Listed
  <2>1. PICK d \in TraeCalls : /\ calls' = (calls \ {c}) \union {d}
                               /\ d.op = "finish" /\ d.attempt = c.attempt
                               /\ d.login = c.login /\ d.pc = c.pc
    <3>1. Replace(c, [c EXCEPT !.op = "finish"])
      BY <1>6 DEF RemoveCompleted
    <3>2. QED
      BY <1>2, <3>1, GoesToFinish
  <2>2. Fits(d)'
    BY <1>1, <1>3, <2>1 DEF Fits, PcFits, Started
  <2>3. ASSUME Calm PROVE MapMeetsFile'
    <3>1. /\ Agreed
          /\ \A x \in calls : /\ x.op \notin {"start", "finish"}
                              /\ Changes(x) => x.pc \in {"called", "look"}
                              /\ x.pc \notin {"retain", "unlink", "insert", "persist", "wipe"}
                              /\ ~(x.op = "restore" /\ x.pc = "called")
      BY <1>1, <1>6, <2>3, FoundOnDisk
    <3>2. Listed = {c.login} /\ file.login = c.login
      BY <1>6, <3>1 DEF Agreed, Stored
    <3>3. Listed' = {} /\ file' = file
      BY <1>1, <1>4, <3>2
    <3>4. \A x \in calls \ {c} : ApartAsItShould(x)'
      BY <3>1 DEF ApartAsItShould
    <3>5. ApartAsItShould(d)'
      BY <1>1, <2>1, <3>1, <3>2, <3>3 DEF ApartAsItShould, Changes
    <3>6. Parts(d)
      BY <2>1 DEF Parts
    <3>7. QED
      BY <2>1, <3>4, <3>5, <3>6 DEF MapMeetsFile, Parts
  <2>4. d.login \notin Listed' /\ ~Changes(d)
    BY <1>4, <2>1 DEF Changes
  <2>5. Calm' => Calm
    BY DEF Calm
  <2>6. QED
    BY <1>1, <1>2, <1>4, <1>5, <2>1, <2>2, <2>3, <2>4, <2>5, GoesSafe DEF Started
<1>7. CASE c.login \notin Listed
  <2>1. PICK d \in TraeCalls : /\ calls' = (calls \ {c}) \union {d}
                               /\ d.op = c.op /\ d.attempt = c.attempt
                               /\ d.login = c.login /\ d.pc = Outcome(c.pc)
    <3>1. Outcome(c.pc) \in TraePcs /\ c.login \in Nat /\ Reply(c, c.login, Outcome(c.pc))
      BY <1>1, <1>3, <1>7 DEF Outcome, TraePcs, RemoveCompleted
    <3>2. QED
      BY <1>2, <3>1, GoesWith
  <2>2. d.pc \in {"ok", "timeout", "error"}
    BY <1>1, <2>1 DEF Outcome
  <2>3. Fits(d)'
    BY <1>1, <1>3, <2>1, <2>2 DEF Fits, PcFits, Started
  <2>4. pending' = pending
    BY <1>1, <1>2, <1>7, MapFacts DEF Without
  <2>5. ASSUME Calm' PROVE MapMeetsFile'
    <3>1. MapMeetsFile
      BY <2>5, CalmFacts DEF Calm
    <3>2. ~Parts(d) /\ d.pc # "retain" /\ ~Changes(d) /\ ~Parts(c) /\ d.pc # "persist" /\ d.op # "start"
      BY <1>1, <2>1, <2>2 DEF Parts, Changes
    <3>3. \A x \in calls' : x.pc = "persist" => /\ x.login \in servers' => x.login \in servers
                                                /\ dialog'.login # x.login
      BY <1>1, <2>1, <3>1, <3>2 DEF MapMeetsFile, ApartAsItShould
    <3>4. UNCHANGED <<pending, file>> /\ expired \subseteq expired'
      BY <1>1, <2>4
    <3>5. QED
      BY <2>1, <3>1, <3>2, <3>3, <3>4, MapKept
  <2>6. d.login \notin Listed' /\ ~Changes(d)
    BY <1>1, <1>4, <2>1 DEF Changes
  <2>7. QED
    BY <1>1, <1>2, <1>4, <1>5, <2>1, <2>3, <2>5, <2>6, GoesSafe DEF Started
<1>8. QED
  BY <1>6, <1>7

\* The file is deleted, and nobody else has it or the map in hand.
LEMMA FileGoes ==
    ASSUME TraeInv, Calm, NEW c \in calls, NEW d,
           calls' \subseteq (calls \ {c}) \union {d}, ApartAsItShould(d)', Listed = {},
           UNCHANGED pending, file' = NoFile,
           \A x \in calls \ {c} : /\ x.op # "finish"
                                  /\ x.pc \notin {"retain", "unlink", "insert", "persist", "wipe"}
    PROVE  MapMeetsFile'
<1>1. Listed' = {} /\ Agreed'
  BY DEF Listed, Agreed
<1>2. \A x \in calls \ {c} : ApartAsItShould(x)'
  BY <1>1 DEF ApartAsItShould
<1>3. QED
  BY <1>1, <1>2 DEF MapMeetsFile

LEMMA FinishSafe ==
    ASSUME TraeInv, NEW c \in calls, Finish(c),
           UNCHANGED <<dialog, attempts, overlapped, abandoned, revived>>
    PROVE  TraeInv'
<1>1. /\ c.op = "finish" /\ file' = NoFile /\ UNCHANGED <<pending, servers, issued, expired>>
      /\ Replace(c, [c EXCEPT !.op = "complete", !.pc = Outcome(c.pc)])
  BY DEF Finish
<1>2. TraeOrder /\ issued \in Nat /\ MapIsTyped /\ revived \in BOOLEAN
  BY MapFacts, TraeFacts DEF TraeInv
<1>3. c.login <= issued /\ c.attempt \in 1 .. attempts /\ c.login # NoLogin
  BY <1>1, <1>2 DEF TraeOrder, TraeLoginsAreIssued, TraeStartsShow, Started
<1>4. Outcome(c.pc) \in {"ok", "timeout", "error"}
  <2>1. c.pc \in {"succeed", "expire", "fail"}
    BY <1>1, <1>2, TraeFacts DEF PcFits
  <2>2. QED
    BY <2>1 DEF Outcome
<1>5. PICK d \in TraeCalls : /\ calls' = (calls \ {c}) \union {d}
                             /\ d.op = "complete" /\ d.attempt = c.attempt
                             /\ d.login = c.login /\ d.pc = Outcome(c.pc)
  <2>1. Outcome(c.pc) \in TraePcs
    BY <1>4 DEF TraePcs
  <2>2. QED
    BY <1>1, <1>2, <2>1, GoesToReply
<1>6. Fits(d)'
  BY <1>1, <1>3, <1>4, <1>5 DEF Fits, PcFits, Started
<1>7. MapIsTyped' /\ Listed' = Listed /\ issued' \in Nat /\ issued <= issued'
  BY <1>1, <1>2 DEF MapIsTyped, Listed
<1>8. ASSUME Calm' PROVE Listed = {} /\ MapMeetsFile'
  <2>1. Calm
    BY <1>8 DEF Calm
  <2>2. /\ Listed = {}
        /\ \A x \in calls : /\ x.op = "finish" => x = c
                            /\ x.op = "start" => x.pc = "called"
                            /\ Changes(x) => x.pc \in {"called", "look"}
    BY <1>1, <2>1, CalmFacts DEF MapMeetsFile, ApartAsItShould
  <2>3. \A x \in calls \ {c} :
            x.op # "finish" /\ x.pc \notin {"retain", "unlink", "insert", "persist", "wipe"}
    BY <1>2, <2>2, TraeFacts DEF TraeCalls, TraeOps, PcFits, Changes
  <2>4. ApartAsItShould(d)'
    BY <1>4, <1>5 DEF ApartAsItShould
  <2>5. MapMeetsFile'
    BY <1>1, <1>5, <2>1, <2>2, <2>3, <2>4, FileGoes
  <2>6. QED
    BY <2>2, <2>5
<1>9. ~Changes(d) /\ c.op \in Started
  BY <1>1, <1>5 DEF Changes, Started
<1>10. QED
  BY <1>1, <1>2, <1>5, <1>6, <1>7, <1>8, <1>9, GoesSafe

\* A cancel or the start-up has found a login and takes it out of the map.
LEMMA TakesOut ==
    ASSUME TraeInv, NEW c \in calls, c.op \in {"cancel", "restore"}, c.pc = "look",
           NEW l \in Listed, c.op = "cancel" => c.login \in {l, NoLogin}, pending' = Without({l}),
           Replace(c, [c EXCEPT !.login = l, !.pc = "wipe"]),
           UNCHANGED <<dialog, attempts, overlapped, abandoned, revived>>,
           UNCHANGED <<file, servers, issued, expired>>
    PROVE  TraeInv'
<1>1. TraeOrder /\ issued \in Nat /\ MapIsTyped /\ revived \in BOOLEAN /\ l \in 1 .. issued /\ l \in Nat
  BY MapFacts, TraeFacts DEF TraeInv
<1>2. PICK d \in TraeCalls : /\ calls' = (calls \ {c}) \union {d}
                             /\ d.op = c.op /\ d.attempt = c.attempt
                             /\ d.login = l /\ d.pc = "wipe"
  <2>1. "wipe" \in TraePcs /\ Reply(c, l, "wipe")
    BY DEF TraePcs, Reply
  <2>2. QED
    BY <1>1, <2>1, GoesWith
<1>3. Fits(d)'
  BY <1>1, <1>2 DEF Fits, PcFits, Started
<1>4. Listed' = Listed \ {l} /\ Listed' \subseteq 1 .. issued /\ pending' \in [Listed' -> Results]
  BY <1>1, MapChanges DEF Listed, Results
<1>5. MapIsTyped' /\ issued' \in Nat /\ issued <= issued' /\ NoLogin \notin Listed'
  BY <1>1, <1>4 DEF MapIsTyped, Files, NoLogin
<1>6. ASSUME Calm PROVE MapMeetsFile'
  <2>1. /\ Agreed
        /\ \A x \in calls : /\ x.op \notin {"start", "finish"}
                            /\ Changes(x) => x.pc \in {"called", "look"}
                            /\ x.pc \notin {"retain", "unlink", "insert", "persist", "wipe"}
                            /\ ~(x.op = "restore" /\ x.pc = "called")
    BY <1>6, FoundOnDisk
  <2>2. Listed = {l} /\ file.login = l
    BY <2>1 DEF Agreed, Stored
  <2>3. Listed' = {}
    BY <1>4, <2>2
  <2>4. \A x \in calls \ {c} : ApartAsItShould(x)'
    BY <2>1 DEF ApartAsItShould
  <2>5. ApartAsItShould(d)' /\ Parts(d)
    BY <1>2, <2>2, <2>3 DEF ApartAsItShould, Parts
  <2>6. QED
    BY <1>2, <2>4, <2>5 DEF MapMeetsFile, Parts
<1>7. /\ Changes(d) => Changes(c) /\ d.op = c.op
      /\ d.op \notin Started \union {"complete", "fetch"}
      /\ c.op = "cancel" => c.login \notin Listed'
      /\ Calm' => Calm
  BY <1>2, <1>4, <1>5 DEF Changes, Started, Calm
<1>8. QED
  BY <1>1, <1>2, <1>3, <1>4, <1>5, <1>6, <1>7, GoesSafe DEF Started

\* A cancel or the start-up is over.
LEMMA ChangeEnds ==
    ASSUME TraeInv, NEW c \in calls, c.op \in {"cancel", "restore"}, Drop(c),
           Calm /\ c.op = "cancel" => c.login \notin Listed,
           UNCHANGED <<dialog, attempts, overlapped, abandoned, revived, pending, issued>>,
           MapIsTyped', Calm => MapMeetsFile'
    PROVE  TraeInv'
<1>1. TraeOrder /\ issued \in Nat /\ revived \in BOOLEAN
  BY TraeFacts DEF TraeInv
<1>2. calls' = calls \ {c} /\ c \notin calls' /\ Listed' = Listed
  BY DEF Drop, Listed
<1>3. issued' \in Nat /\ issued <= issued' /\ (Calm' => Calm)
  BY <1>1 DEF Calm
<1>4. QED
  BY <1>1, <1>2, <1>3, GoesSafe

LEMMA CancelSafeTrae ==
    ASSUME TraeInv, NEW c \in calls, Cancel(c),
           UNCHANGED <<dialog, attempts, overlapped, abandoned, revived>>
    PROVE  TraeInv'
<1> DEFINE found == {l \in Listed : c.login \in {l, NoLogin}}
<1>1. c.op = "cancel" /\ c.pc = "look" /\ UNCHANGED <<file, servers, issued, expired>>
  BY DEF Cancel
<1>2. CASE found = {} /\ Drop(c) /\ UNCHANGED pending
  <2>1. TraeOrder /\ MapIsTyped
    BY MapFacts DEF TraeInv
  <2>2. c.login \notin Listed
    BY <1>2
  <2>3. MapIsTyped'
    BY <1>1, <1>2, <2>1 DEF MapIsTyped, Listed, Files
  <2>4. ASSUME Calm PROVE MapMeetsFile'
    <3>1. MapMeetsFile /\ calls' \subseteq calls
      BY <1>2, <2>4, CalmFacts DEF Drop
    <3>2. \A x \in calls : Parts(x) => x \in calls'
      BY <1>1, <1>2 DEF Parts, Drop
    <3>3. \A x \in calls' : x.pc = "persist" => /\ x.login \in servers' => x.login \in servers
                                                /\ dialog'.login # x.login
      BY <1>1, <3>1 DEF MapMeetsFile, ApartAsItShould
    <3>4. QED
      BY <1>1, <1>2, <3>1, <3>2, <3>3, MapKept
  <2>5. QED
    BY <1>1, <1>2, <2>2, <2>3, <2>4, ChangeEnds
<1>3. CASE \E l \in found : pending' = Without({l}) /\ Replace(c, [c EXCEPT !.login = l, !.pc = "wipe"])
  BY <1>1, <1>3, TakesOut
<1>4. QED
  BY <1>2, <1>3 DEF Cancel

LEMMA WipeSafe ==
    ASSUME TraeInv, NEW c \in calls, Wipe(c),
           UNCHANGED <<dialog, attempts, overlapped, abandoned, revived>>
    PROVE  TraeInv'
<1>1. c.pc = "wipe" /\ file' = NoFile /\ Drop(c) /\ UNCHANGED <<pending, servers, issued, expired>>
  BY DEF Wipe
<1>2. TraeOrder /\ MapIsTyped
  BY MapFacts DEF TraeInv
<1>3. c.op \in {"cancel", "restore"}
  BY <1>1, <1>2, TraeFacts DEF TraeCalls, TraeOps, PcFits
<1>4. MapIsTyped'
  BY <1>1, <1>2 DEF MapIsTyped, Listed
<1>5. ASSUME Calm PROVE Listed = {} /\ MapMeetsFile'
  <2>1. TraeOrder /\ OneChange /\ MapMeetsFile /\ Changes(c)
    BY <1>3, <1>5, CalmFacts DEF Changes
  <2>2. Listed = {}
    BY <1>1, <2>1 DEF MapMeetsFile, ApartAsItShould
  <2>3. \A x \in calls : x.op # "finish"
    BY <1>1, <2>1 DEF MapMeetsFile, ApartAsItShould
  <2>4. \A x \in calls \ {c} :
            x.op # "finish" /\ x.pc \notin {"retain", "unlink", "insert", "persist", "wipe"}
    BY <2>1, <2>3, OthersHaveStarted
  <2>5. calls' = calls \ {c}
    BY <1>1 DEF Drop
  <2>6. Listed' = {} /\ Agreed'
    BY <1>1, <2>2 DEF Listed, Agreed
  <2>7. \A x \in calls' : ApartAsItShould(x)'
    BY <2>4, <2>5, <2>6 DEF ApartAsItShould
  <2>8. QED
    BY <2>2, <2>6, <2>7 DEF MapMeetsFile
<1>6. QED
  BY <1>1, <1>3, <1>4, <1>5, ChangeEnds

LEMMA RestoreSafe ==
    ASSUME TraeInv, NEW c \in calls, Restore(c),
           UNCHANGED <<dialog, attempts, overlapped, abandoned, revived>>
    PROVE  TraeInv'
<1>1. c.op = "restore" /\ c.pc = "look" /\ UNCHANGED <<file, issued, expired>>
  BY DEF Restore
<1>2. TraeOrder /\ MapIsTyped
  BY MapFacts DEF TraeInv
<1>3. CASE \E l \in Listed \cap expired :
               /\ Replace(c, [c EXCEPT !.login = l, !.pc = "wipe"])
               /\ pending' = Without({l}) /\ UNCHANGED servers
  BY <1>1, <1>3, TakesOut
<1>4. CASE Listed = {} /\ Drop(c) /\ UNCHANGED <<pending, servers>>
  <2>1. MapIsTyped'
    BY <1>1, <1>2, <1>4 DEF MapIsTyped, Listed, Files
  <2>2. ASSUME Calm PROVE MapMeetsFile'
    <3>1. MapMeetsFile /\ calls' = calls \ {c} /\ ~Parts(c)
      BY <1>1, <1>4, <2>2, CalmFacts DEF Drop, Parts
    <3>2. \A x \in calls' : x.pc = "persist" => /\ x.login \in servers' => x.login \in servers
                                                /\ dialog'.login # x.login
      BY <1>4, <3>1 DEF MapMeetsFile, ApartAsItShould
    <3>3. QED
      BY <1>1, <1>4, <3>1, <3>2, MapKept
  <2>3. QED
    BY <1>1, <1>4, <2>1, <2>2, ChangeEnds
<1>5. CASE \E l \in Listed \ expired :
               /\ Drop(c) /\ UNCHANGED pending
               /\ servers' = IF pending[l] = "none" THEN servers \cup {l} ELSE servers
  <2>1. PICK l \in Listed : servers' \in {servers, servers \union {l}}
    BY <1>5
  <2>2. Drop(c) /\ UNCHANGED pending
    BY <1>5
  <2>3. MapIsTyped'
    BY <1>1, <1>2, <2>1, <2>2 DEF MapIsTyped, Listed, Files
  <2>4. ASSUME Calm PROVE MapMeetsFile'
    <3>1. MapMeetsFile /\ calls' = calls \ {c} /\ ~Parts(c)
      BY <1>1, <2>2, <2>4, CalmFacts DEF Drop, Parts
    <3>2. \A x \in calls : x.pc # "persist"
      BY <1>1, <2>1, <2>4, FoundOnDisk
    <3>3. QED
      BY <1>1, <2>2, <3>1, <3>2, MapKept
  <2>5. QED
    BY <1>1, <2>2, <2>3, <2>4, ChangeEnds
<1>6. QED
  BY <1>3, <1>4, <1>5 DEF Restore

----------------------------------------------------------------------------
\* What happens outside the commands.
LEMMA OutsideSafe ==
    ASSUME TraeInv, UNCHANGED <<calls, dialog, attempts, overlapped, abandoned, revived, issued>>,
           MapIsTyped', Listed' = Listed, Calm => MapMeetsFile'
    PROVE  TraeInv'
<1>1. TraeOrder
  BY DEF TraeInv
<1>2. TraeOrder'
  BY <1>1 DEF TraeOrder, TraeTyped, TraeDialogIsInOrder, TraeLoginsAreIssued, TraeStartsShow,
              MapIsTyped
<1>3. ASSUME Calm PROVE OneChange' /\ CompletedIsShown' /\ MapMeetsFile'
  <2>1. OneChange'
    BY <1>3, CalmFacts DEF OneChange
  <2>2. CompletedIsShown'
    BY <1>3, CalmFacts DEF CompletedIsShown, IsCancelled
  <2>3. QED
    BY <1>3, <2>1, <2>2
<1>4. QED
  BY <1>2, <1>3 DEF TraeInv, Calm

\* The result of a login that is listening, or that the dialog shows.
LEMMA SetResultSafe ==
    ASSUME TraeInv, NEW l \in Listed, l \in servers \/ dialog.login = l, SetResult(l),
           servers' \subseteq servers,
           UNCHANGED <<calls, dialog, attempts, overlapped, abandoned, revived, issued, expired>>
    PROVE  TraeInv'
<1>1. TraeOrder /\ MapIsTyped /\ l \in 1 .. issued
  BY MapFacts DEF TraeInv
<1>2. Listed' = Listed /\ pending' \in [Listed' -> Results] /\ pending'[l] = "arrived"
  <2>1. "arrived" \in Results /\ pending' = With(l, "arrived")
    BY DEF SetResult, Results
  <2>2. pending' = [k \in Listed |-> IF k = l THEN "arrived" ELSE pending[k]]
    BY <2>1 DEF With
  <2>3. QED
    BY <1>1, <2>1, <2>2, MapFacts DEF Listed
<1>3. file' = Stored(l, "arrived") /\ file' \in Files'
  BY <1>1 DEF SetResult, Stored, Files, Results
<1>4. MapIsTyped'
  BY <1>1, <1>2, <1>3 DEF MapIsTyped
<1>5. ASSUME Calm PROVE MapMeetsFile'
  <2>1. MapMeetsFile
    BY <1>5, CalmFacts
  <2>2. \A x \in calls : /\ x.op # "finish" /\ x.pc \notin {"unlink", "wipe", "insert", "persist"}
                         /\ ~(x.op = "restore" /\ x.pc = "called")
    BY <2>1 DEF MapMeetsFile, ApartAsItShould
  <2>3. Agreed
    BY <2>1, <2>2 DEF MapMeetsFile, Parts
  <2>4. Agreed'
    BY <1>2, <1>3, <2>3 DEF Agreed
  <2>5. \A x \in calls : ApartAsItShould(x)'
    BY <1>2, <2>1, <2>2 DEF MapMeetsFile, ApartAsItShould
  <2>6. QED
    BY <2>4, <2>5 DEF MapMeetsFile
<1>6. QED
  BY <1>2, <1>4, <1>5, OutsideSafe

\* Logins expire, and servers end.
LEMMA MapStands ==
    ASSUME TraeInv, UNCHANGED <<pending, file>>, servers' \subseteq servers,
           expired \subseteq expired',
           UNCHANGED <<calls, dialog, attempts, overlapped, abandoned, revived, issued>>
    PROVE  TraeInv'
<1>1. MapIsTyped' /\ Listed' = Listed
  BY MapFacts DEF TraeInv, MapIsTyped, Listed, Files
<1>2. ASSUME Calm PROVE MapMeetsFile'
  <2>1. MapMeetsFile
    BY <1>2, CalmFacts
  <2>2. \A x \in calls' : x.pc = "persist" => /\ x.login \in servers' => x.login \in servers
                                              /\ dialog'.login # x.login
    BY <2>1 DEF MapMeetsFile, ApartAsItShould
  <2>3. QED
    BY <2>1, <2>2, MapKept
<1>3. QED
  BY <1>1, <1>2, OutsideSafe

LEMMA OutsideStepSafe ==
    ASSUME TraeInv, ServerStep \/ SubmitCallback \/ \E l \in Logins : Expire(l),
           UNCHANGED <<calls, dialog, attempts, overlapped, abandoned, revived>>
    PROVE  TraeInv'
<1>1. ASSUME NEW l, Callback(l) PROVE TraeInv'
  <2>1. /\ l \in servers /\ l \in Listed /\ SetResult(l) /\ servers' \subseteq servers
        /\ UNCHANGED <<issued, expired>>
    BY <1>1 DEF Callback
  <2>2. QED
    BY <2>1, SetResultSafe
<1>2. ASSUME NEW l, ServerEnds(l) PROVE TraeInv'
  <2>1. l \in servers /\ servers' \subseteq servers /\ UNCHANGED <<issued, expired>>
    BY <1>2 DEF ServerEnds
  <2>2. CASE UNCHANGED <<pending, file>>
    BY <2>1, <2>2, MapStands
  <2>3. CASE l \in Listed /\ SetResult(l)
    BY <2>1, <2>3, SetResultSafe
  <2>4. QED
    BY <1>2, <2>2, <2>3 DEF ServerEnds
<1>3. ASSUME SubmitCallback PROVE TraeInv'
  <2>1. dialog.login \in Listed /\ SetResult(dialog.login) /\ UNCHANGED <<servers, issued, expired>>
    BY <1>3 DEF SubmitCallback
  <2>2. QED
    BY <2>1, SetResultSafe
<1>4. ASSUME NEW l, Expire(l) PROVE TraeInv'
  <2>1. expired \subseteq expired' /\ UNCHANGED <<pending, file, servers, issued>>
    BY <1>4 DEF Expire
  <2>2. QED
    BY <2>1, MapStands
<1>5. QED
  BY <1>1, <1>2, <1>3, <1>4 DEF ServerStep

\* A command of the dialog, as it is sent.
LEMMA SentCall ==
    ASSUME NEW op \in TraeOps, NEW a \in Nat, NEW l \in Nat
    PROVE  /\ Call(op, a, l) \in TraeCalls /\ Call(op, a, l).op = op
           /\ Call(op, a, l).login = l /\ Call(op, a, l).pc = "called"
           /\ Call(op, a, l).attempt = a
BY DEF Call, TraeCalls, TraePcs

LEMMA RestartSafe ==
    ASSUME TraeInv, Restart PROVE TraeInv'
<1> DEFINE r == Call("restore", 0, NoLogin)
<1>1. /\ pending' = << >> /\ servers' = {} /\ dialog' = Idle /\ calls' = {r}
      /\ UNCHANGED <<file, issued, expired, attempts, overlapped, abandoned, revived>>
  BY DEF Restart
<1>2. /\ r \in TraeCalls /\ r.op = "restore" /\ r.login = NoLogin /\ r.pc = "called"
  <2>1. "restore" \in TraeOps /\ 0 \in Nat /\ NoLogin \in Nat
    BY DEF TraeOps, NoLogin
  <2>2. QED
    BY <2>1, SentCall
<1> HIDE DEF r
<1>3. TraeOrder /\ MapIsTyped /\ issued \in Nat /\ attempts \in Nat
      /\ overlapped \in BOOLEAN /\ abandoned \in BOOLEAN /\ revived \in BOOLEAN
  BY MapFacts, TraeFacts DEF TraeInv
<1>4. DOMAIN << >> = {} /\ << >> \in [{} -> Results]
  OBVIOUS
<1>5. MapIsTyped' /\ Listed' = {}
  BY <1>1, <1>3, <1>4 DEF MapIsTyped, Listed, Files
<1>6. Fits(r)'
  BY <1>1, <1>2, <1>3 DEF Fits, PcFits, Started, NoLogin
<1>7. TraeDialogIsInOrder' /\ dialog' \in Dialogs
  BY <1>1, <1>3, IdleDialog DEF TraeDialogIsInOrder, NoLogin
<1>8. TraeOrder'
  BY <1>1, <1>2, <1>3, <1>5, <1>6, <1>7, OrderKept DEF Started
<1>9. OneChange' /\ CompletedIsShown'
  BY <1>1, <1>2, <1>5, IdleDialog DEF OneChange, CompletedIsShown
<1>10. MapMeetsFile'
  BY <1>1, <1>2, <1>5 DEF MapMeetsFile, ApartAsItShould, Parts
<1>11. QED
  BY <1>8, <1>9, <1>10 DEF TraeInv

----------------------------------------------------------------------------
\* The dialog's own steps leave the logins alone.
dialogKeeps == <<pending, file, servers, issued, expired, revived>>

LEMMA DialogSafe ==
    ASSUME TraeInv, UNCHANGED dialogKeeps,
           attempts' \in Nat, attempts <= attempts', dialog' \in Dialogs, TraeDialogIsInOrder',
           overlapped' \in BOOLEAN, overlapped => overlapped',
           abandoned' \in BOOLEAN, abandoned => abandoned',
           \A x \in calls' : x \in calls \/ (Fits(x)' /\ x.pc = "called" /\ x.op # "restore"),
           \A x \in calls' : x.op \in Started /\ x.attempt = dialog'.attempt =>
               dialog'.shown # "nothing",
           \A x \in calls : Parts(x) => x \in calls',
           Calm' => /\ OneChange' /\ CompletedIsShown'
                    /\ \/ dialog'.login \in {dialog.login, NoLogin}
                       \/ \A x \in calls' : x.pc # "persist"
    PROVE  TraeInv'
<1>1. TraeOrder /\ MapIsTyped /\ issued \in Nat /\ revived \in BOOLEAN
  BY MapFacts, TraeFacts DEF TraeInv
<1>2. UNCHANGED <<pending, file, servers, issued, expired, revived>>
  BY DEF dialogKeeps
<1>3. MapIsTyped' /\ issued' \in Nat /\ issued <= issued' /\ revived' \in BOOLEAN
  BY <1>1, <1>2 DEF MapIsTyped, Listed, Files
<1>4. TraeOrder'
  BY <1>1, <1>3, OrderKept
<1>5. ASSUME Calm' PROVE MapMeetsFile'
  <2>1. Calm
    BY <1>2, <1>5 DEF Calm
  <2>2. MapMeetsFile
    BY <2>1, CalmFacts
  <2>3. \A x \in calls' : x \in calls \/ (~Parts(x) /\ x.pc = "called")
    BY DEF Parts, Fits, PcFits
  <2>4. \A x \in calls' : x.pc = "persist" => dialog'.login # x.login
    <3>1. \A x \in calls : x.pc = "persist" => x.login # NoLogin /\ dialog.login # x.login
      BY <1>1, <2>2 DEF TraeOrder, TraeLoginsAreIssued, MapMeetsFile, ApartAsItShould
    <3>2. QED
      BY <1>5, <2>3, <3>1
  <2>5. QED
    BY <1>2, <2>2, <2>3, <2>4, MapKept
<1>6. QED
  BY <1>4, <1>5 DEF TraeInv

\* Nobody completes a login that is pending, if the dialog shows none and none is cancelled.
LEMMA NobodyCompletes ==
    ASSUME TraeInv, Calm, dialog.login \notin Listed, \A x \in calls : x.op # "cancel"
    PROVE  \A x \in calls : x.op \in {"browse", "complete"} => x.login \notin Listed
BY CalmFacts DEF CompletedIsShown, IsCancelled

\* An attempt begins: nobody starts or cancels, or commands overlap.
LEMMA PrepareSafeTrae ==
    ASSUME TraeInv, NEW cs, Prepare(cs), UNCHANGED dialogKeeps,
           \A x \in cs : x \in calls \/ (Fits(x) /\ x.op = "cancel" /\ x.pc = "called"),
           \A x \in calls : x \in cs \/ ~Parts(x),
           abandoned' \in BOOLEAN, abandoned => abandoned',
           Calm' => \A x \in cs : x.op \in {"browse", "complete"} => x.login \notin Listed
    PROVE  TraeInv'
<1>1. TraeOrder /\ attempts \in Nat /\ issued \in Nat /\ overlapped \in BOOLEAN
      /\ \A x \in calls : x.attempt \in Nat
  BY TraeFacts DEF TraeInv
<1>2. PICK n \in Nat : n = attempts + 1 /\ n > attempts /\ n # 0 /\ n \in 1 .. n
  BY <1>1
<1>3. PICK s \in TraeCalls :
          /\ s = Call("start", n, NoLogin)
          /\ s.op = "start" /\ s.login = NoLogin /\ s.pc = "called" /\ s.attempt = n
  <2>1. "start" \in TraeOps /\ NoLogin \in Nat
    BY DEF TraeOps, NoLogin
  <2>2. QED
    BY <2>1, SentCall
<1>4. /\ attempts' = n /\ dialog' = [Idle EXCEPT !.open = TRUE, !.attempt = n]
      /\ calls' = cs \union {s}
      /\ overlapped' = (overlapped \/ \E x \in cs : x.op \in {"start", "cancel", "restore"})
  BY <1>3, <1>2 DEF Prepare
<1>5. UNCHANGED <<pending, file, servers, issued, expired, revived>>
  BY DEF dialogKeeps
<1>6. /\ dialog' \in Dialogs /\ dialog'.open /\ dialog'.attempt = n /\ dialog'.login = NoLogin
      /\ dialog'.shown = "nothing"
  <2>1. dialog' = Opened(n)
    BY <1>4, <1>1, NewDialog
  <2>2. QED
    BY <1>1, <2>1, OpenedDialog
<1>7. TraeDialogIsInOrder' /\ attempts <= attempts'
  BY <1>4, <1>1, <1>2, <1>5, <1>6 DEF TraeDialogIsInOrder, NoLogin
<1>8. Fits(s)'
  BY <1>4, <1>1, <1>3, <1>2, <1>5 DEF Fits, PcFits, Started, NoLogin
<1>9. \A x \in calls' : x \in calls \/ (Fits(x)' /\ x.pc = "called" /\ x.op # "restore")
  <2>1. \A x \in cs : x \in calls \/ (Fits(x)' /\ x.op = "cancel" /\ x.pc = "called")
    BY <1>4, <1>5 DEF Fits, Started
  <2>2. QED
    BY <1>4, <1>3, <1>8, <2>1
<1>10. \A x \in calls' : x.op \in Started => x.attempt # dialog'.attempt
  <2>1. \A x \in calls : x.op \in Started => x.attempt <= attempts
    BY <1>1 DEF TraeOrder, TraeStartsShow
  <2>2. \A x \in calls : x.op \in Started => x.attempt # n
    BY <1>1, <1>2, <2>1
  <2>3. QED
    BY <1>4, <1>3, <1>6, <2>2 DEF Started
<1>11. ASSUME Calm' PROVE OneChange' /\ CompletedIsShown'
  <2>1. \A x \in cs : ~Changes(x) /\ x \in calls
    BY <1>4, <1>11 DEF Calm, Changes
  <2>2. OneChange'
    BY <1>4, <1>3, <1>6, <2>1 DEF OneChange, Changes
  <2>3. CompletedIsShown /\ Listed' = Listed /\ NoLogin \notin Listed
    <3>1. Calm
      BY <1>4, <1>1, <1>5, <1>11 DEF Calm
    <3>2. QED
      BY <1>1, <1>5, <3>1, CalmFacts, MapFacts DEF Listed
  <2>4. CompletedIsShown'
    BY <1>4, <1>3, <1>11, <2>1, <2>3 DEF CompletedIsShown
  <2>5. QED
    BY <2>2, <2>4
<1>12. \A x \in calls : Parts(x) => x \in calls'
  BY <1>4
<1>13. overlapped' \in BOOLEAN /\ (overlapped => overlapped') /\ attempts' \in Nat
  BY <1>4, <1>1
<1>14. QED
  BY <1>6, <1>7, <1>9, <1>10, <1>11, <1>12, <1>13, DialogSafe

LEMMA OpenSafeTrae ==
    ASSUME TraeInv, Open, UNCHANGED dialogKeeps PROVE TraeInv'
<1>1. ~dialog.open /\ Prepare(calls) /\ abandoned' = abandoned
  BY DEF Open
<1>2. TraeOrder /\ dialog.login = NoLogin /\ NoLogin \notin Listed /\ abandoned \in BOOLEAN
  BY <1>1, TraeFacts, MapFacts DEF TraeInv
<1>3. ASSUME Calm' PROVE \A x \in calls : x.op \in {"browse", "complete"} => x.login \notin Listed
  <2>1. Calm /\ \A x \in calls : x.op # "cancel"
    BY <1>1, <1>3 DEF Calm, Prepare, dialogKeeps
  <2>2. QED
    BY <1>2, <2>1, NobodyCompletes
<1>4. QED
  BY <1>1, <1>2, <1>3, PrepareSafeTrae

LEMMA SentCancels ==
    ASSUME TraeOrder
    PROVE  \A x \in Cancels(dialog.login) :
               Fits(x) /\ x.op = "cancel" /\ x.pc = "called" /\ x.login = dialog.login
<1>1. "cancel" \in TraeOps /\ 0 \in Nat /\ dialog.login \in Nat /\ dialog.login <= issued
  BY TraeFacts DEF TraeOps
<1>2. QED
  BY <1>1, SentCall DEF Cancels, Fits, PcFits, Started

LEMMA RetrySafeTrae ==
    ASSUME TraeInv, Retry, UNCHANGED dialogKeeps PROVE TraeInv'
<1> DEFINE new == IF dialog.login # NoLogin THEN Cancels(dialog.login) ELSE {}
<1>1. Prepare(calls \union new) /\ abandoned' = abandoned
  BY DEF Retry
<1>2. TraeOrder /\ NoLogin \notin Listed /\ abandoned \in BOOLEAN
  BY TraeFacts, MapFacts DEF TraeInv
<1>3. \A x \in new : Fits(x) /\ x.op = "cancel" /\ x.pc = "called"
  BY <1>2, SentCancels
<1>4. dialog.login # NoLogin => new # {}
  BY DEF Cancels
<1> HIDE DEF new
<1>5. ASSUME Calm'
      PROVE  \A x \in calls \union new : x.op \in {"browse", "complete"} => x.login \notin Listed
  <2>1. Calm /\ \A x \in calls \union new : x.op # "cancel"
    BY <1>1, <1>5 DEF Calm, Prepare, dialogKeeps
  <2>2. dialog.login = NoLogin
    BY <1>3, <1>4, <2>1
  <2>3. QED
    BY <1>2, <1>3, <2>1, <2>2, NobodyCompletes
<1>6. QED
  BY <1>1, <1>2, <1>3, <1>5, PrepareSafeTrae

LEMMA CloseSafeTrae ==
    ASSUME TraeInv, Close, UNCHANGED dialogKeeps PROVE TraeInv'
<1>1. PICK forced \in BOOLEAN :
        calls' = calls \union (IF forced \/ dialog.login # NoLogin
                               THEN Cancels(dialog.login) ELSE {})
  BY DEF Close
<1>2. PICK k : Cancels(dialog.login) = {k}
  BY DEF Cancels
<1>3. PICK new \in SUBSET {k} : calls' = calls \union new /\ (dialog.login # NoLogin => k \in new)
  BY <1>1, <1>2
<1>4. /\ dialog.open /\ dialog' = Idle /\ UNCHANGED <<attempts, abandoned>>
      /\ overlapped' = (overlapped \/ \E x \in calls : x.op = "start")
      /\ UNCHANGED <<pending, file, servers, issued, expired, revived>>
  BY DEF Close, dialogKeeps
<1>5. TraeOrder /\ attempts \in Nat /\ overlapped \in BOOLEAN /\ abandoned \in BOOLEAN /\ issued \in Nat
  BY TraeFacts DEF TraeInv
<1>6. Fits(k) /\ k.op = "cancel" /\ k.pc = "called" /\ k.login = dialog.login
  BY <1>2, <1>5, SentCancels
<1>7. Fits(k)'
  BY <1>4, <1>6 DEF Fits
<1>8. TraeDialogIsInOrder' /\ dialog' \in Dialogs /\ dialog'.attempt = 0 /\ dialog'.login = NoLogin
      /\ ~dialog'.open
  BY <1>4, <1>5, IdleDialog DEF TraeDialogIsInOrder, NoLogin
<1>9. \A x \in calls' : x.op \in Started => x.attempt # dialog'.attempt
  BY <1>3, <1>5, <1>6, <1>8 DEF TraeOrder, TraeStartsShow, Started
<1>10. ASSUME Calm' PROVE OneChange' /\ CompletedIsShown'
  <2>1. Calm /\ \A x \in calls : x.op # "start"
    BY <1>4, <1>10 DEF Calm
  <2>2. OneChange /\ CompletedIsShown
    BY <2>1, CalmFacts
  <2>3. \A x \in calls : ~Changes(x)
    BY <1>4, <2>1, <2>2 DEF OneChange
  <2>4. OneChange'
    BY <1>3, <1>6, <1>8, <2>3 DEF OneChange, Changes
  <2>5. ASSUME NEW x \in calls, x.op \in {"browse", "complete"}, x.login \in Listed
        PROVE  IsCancelled(x.login)'
    <3>1. dialog.login = x.login /\ x.login # NoLogin
      BY <1>5, <2>2, <2>3, <2>5 DEF CompletedIsShown, IsCancelled, Changes, TraeOrder,
                                   TraeLoginsAreIssued, Started
    <3>2. k \in calls'
      BY <1>3, <3>1
    <3>3. QED
      BY <1>6, <3>1, <3>2 DEF IsCancelled
  <2>6. Listed' = Listed
    BY <1>4 DEF Listed
  <2>7. CompletedIsShown'
    BY <1>3, <1>6, <2>2, <2>5, <2>6 DEF CompletedIsShown
  <2>8. QED
    BY <2>4, <2>7
<1>11. \A x \in calls' : x \in calls \/ (Fits(x)' /\ x.pc = "called" /\ x.op # "restore")
  BY <1>3, <1>6, <1>7
<1>12. QED
  BY <1>3, <1>4, <1>5, <1>8, <1>9, <1>10, <1>11, DialogSafe

\* A command has its reply, which is handled by another command, or by none.
LEMMA ReplySafe ==
    ASSUME TraeInv, UNCHANGED dialogKeeps, NEW c \in calls, ~Parts(c), NEW d,
           calls' \subseteq (calls \ {c}) \union {d}, calls \ {c} \subseteq calls',
           d \in calls' => Fits(d)' /\ d.pc = "called" /\ d.op # "restore" /\ d.op # "finish",
           d \in calls' /\ d.op \in Started => c.op \in Started \/ dialog'.shown # "nothing",
           d \in calls' => d.attempt \in {0, c.attempt},
           dialog' \in Dialogs, TraeDialogIsInOrder', dialog'.attempt = dialog.attempt,
           dialog.shown # "nothing" => dialog'.shown # "nothing",
           UNCHANGED <<attempts, overlapped>>,
           abandoned' \in BOOLEAN, abandoned => abandoned',
           Calm' => /\ OneChange' /\ CompletedIsShown'
                    /\ \/ dialog'.login \in {dialog.login, NoLogin}
                       \/ \A x \in calls' : x.pc # "persist"
    PROVE  TraeInv'
<1>1. TraeOrder /\ attempts \in Nat /\ overlapped \in BOOLEAN
  BY TraeFacts DEF TraeInv
<1>2. \A x \in calls' : x \in calls \/ (Fits(x)' /\ x.pc = "called" /\ x.op # "restore")
  OBVIOUS
<1>3. \A x \in calls' : x.op \in Started /\ x.attempt = dialog'.attempt => dialog'.shown # "nothing"
  <2>1. \A x \in calls : x.op \in Started /\ x.attempt = dialog.attempt => dialog.shown # "nothing"
    BY <1>1 DEF TraeOrder, TraeStartsShow
  <2>2. \A x \in calls' : x.op \in Started => x.attempt # 0
    BY <1>1 DEF TraeOrder, TraeStartsShow, Fits
  <2>3. QED
    BY <2>1, <2>2
<1>4. \A x \in calls : Parts(x) => x \in calls'
  OBVIOUS
<1>5. QED
  BY <1>1, <1>2, <1>3, <1>4, DialogSafe

LEMMA StartReplySafeTrae ==
    ASSUME TraeInv, NEW c \in calls, StartReply(c), UNCHANGED dialogKeeps
    PROVE  TraeInv'
<1>1. /\ c.op = "start" /\ c.pc \in Replies /\ UNCHANGED <<attempts, overlapped, abandoned>>
      /\ UNCHANGED <<pending, file, servers, issued, expired, revived>>
  BY DEF StartReply, dialogKeeps
<1>2. TraeOrder /\ issued \in Nat /\ abandoned \in BOOLEAN
      /\ dialog \in Dialogs /\ c.login \in Nat /\ c.login <= issued /\ c.attempt \in 1 .. attempts
      /\ c.attempt \in Nat
  BY <1>1, TraeFacts DEF TraeInv, TraeOrder, TraeStartsShow
<1>3. ~Parts(c) /\ Changes(c) /\ c.op \notin Started
  BY <1>1 DEF Parts, Changes, Started, Replies
<1>4. TraeDialogIsInOrder /\ Listed' = Listed
  BY <1>1, <1>2 DEF TraeOrder, Listed
<1>5. ASSUME Calm'
      PROVE  /\ OneChange /\ CompletedIsShown /\ Calm /\ dialog.login = NoLogin
             /\ \A x \in calls : x.op \in {"browse", "complete"} => x.login \notin Listed
             /\ \A x \in calls \ {c} : ~Changes(x) /\ x.pc # "persist"
  <2>1. Calm
    BY <1>1, <1>5 DEF Calm
  <2>2. OneChange /\ CompletedIsShown
    BY <2>1, CalmFacts
  <2>3. QED
    BY <1>1, <1>2, <1>3, <2>1, <2>2, StartIsAlone, OthersHaveStarted
<1>6. CASE c.attempt # dialog.attempt /\ UNCHANGED dialog
           /\ calls' = (calls \ {c}) \union (IF c.pc = "ok" THEN Cancels(c.login) ELSE {})
  <2>1. PICK k \in TraeCalls : /\ Cancels(c.login) = {k} /\ k.op = "cancel" /\ k.login = c.login
                               /\ k.pc = "called" /\ k.attempt = 0
    <3>1. "cancel" \in TraeOps /\ 0 \in Nat
      BY DEF TraeOps
    <3>2. QED
      BY <1>2, <3>1, SentCall DEF Cancels
  <2>2. calls' \subseteq (calls \ {c}) \union {k} /\ calls \ {c} \subseteq calls'
    BY <1>6, <2>1
  <2>3. Fits(k)'
    BY <1>1, <1>2, <2>1 DEF Fits, PcFits, Started
  <2>4. TraeDialogIsInOrder'
    BY <1>1, <1>4, <1>6 DEF TraeDialogIsInOrder
  <2>5. ASSUME Calm' PROVE OneChange' /\ CompletedIsShown'
    <3>1. ~dialog.open
      BY <1>3, <1>5, <1>6, <2>5 DEF OneChange
    <3>2. OneChange'
      BY <1>5, <1>6, <2>1, <2>2, <2>5, <3>1 DEF OneChange, Changes
    <3>3. CompletedIsShown'
      BY <1>4, <1>5, <2>1, <2>2, <2>5 DEF CompletedIsShown
    <3>4. QED
      BY <3>2, <3>3
  <2>6. dialog' = dialog /\ k.op \notin Started
    BY <1>6, <2>1 DEF Started
  <2>7. QED
    BY <1>1, <1>2, <1>3, <2>1, <2>2, <2>3, <2>4, <2>5, <2>6, ReplySafe
<1>7. CASE c.attempt = dialog.attempt /\ c.pc = "ok"
           /\ dialog' = [dialog EXCEPT !.login = c.login, !.shown = "url"]
           /\ Replace(c, Call("browse", c.attempt, c.login))
  <2>1. PICK d \in TraeCalls : /\ calls' = (calls \ {c}) \union {d} /\ d.op = "browse"
                               /\ d.login = c.login /\ d.pc = "called" /\ d.attempt = c.attempt
    <3>1. "browse" \in TraeOps
      BY DEF TraeOps
    <3>2. QED
      BY <1>2, <1>7, <3>1, SentCall DEF Replace
  <2>2. /\ dialog' \in Dialogs /\ dialog'.login = c.login /\ dialog'.attempt = dialog.attempt
        /\ (dialog'.open <=> dialog.open) /\ dialog'.shown = "url"
    <3>1. "url" \in Shown
      BY DEF Shown
    <3>2. /\ dialog \in Dialogs /\ c.login \in Nat
          /\ dialog' = [dialog EXCEPT !.login = c.login, !.shown = "url"]
      BY <1>2, <1>7
    <3>3. QED
      BY ONLY <3>1, <3>2 DEF Dialogs
  <2>3. Fits(d)'
    <3>1. c.login # NoLogin
      BY <1>2, <1>7 DEF TraeOrder, TraeLoginsAreIssued
    <3>2. QED
      BY <1>1, <1>2, <2>1, <3>1 DEF Fits, PcFits, Started
  <2>4. TraeDialogIsInOrder'
    BY <1>1, <1>2, <1>4, <1>7, <2>2 DEF TraeDialogIsInOrder
  <2>5. ASSUME Calm' PROVE OneChange' /\ CompletedIsShown' /\ \A x \in calls' : x.pc # "persist"
    <3>1. \A x \in calls' : ~Changes(x) /\ x.pc # "persist"
      BY <1>5, <2>1, <2>5 DEF Changes
    <3>2. CompletedIsShown'
      BY <1>4, <1>5, <2>1, <2>2, <2>5 DEF CompletedIsShown
    <3>3. QED
      BY <3>1, <3>2 DEF OneChange, Changes
  <2>6. QED
    BY <1>1, <1>2, <1>3, <2>1, <2>2, <2>3, <2>4, <2>5, ReplySafe
<1>8. CASE c.attempt = dialog.attempt /\ c.pc # "ok"
           /\ dialog' = [dialog EXCEPT !.shown = "prepare error"] /\ Drop(c)
  <2>1. calls' = calls \ {c}
    BY <1>8 DEF Drop
  <2>2. /\ dialog' \in Dialogs /\ dialog'.login = dialog.login /\ dialog'.attempt = dialog.attempt
        /\ (dialog'.open <=> dialog.open) /\ dialog'.shown = "prepare error"
    <3>1. "prepare error" \in Shown
      BY DEF Shown
    <3>2. dialog \in Dialogs /\ dialog' = [dialog EXCEPT !.shown = "prepare error"]
      BY <1>2, <1>8
    <3>3. QED
      BY ONLY <3>1, <3>2 DEF Dialogs
  <2>3. TraeDialogIsInOrder'
    <3>1. dialog.attempt \in 1 .. attempts
      BY <1>2, <1>8
    <3>2. dialog.open /\ dialog.login <= issued /\ dialog.attempt <= attempts
      BY <1>4, <3>1 DEF TraeDialogIsInOrder
    <3>3. QED
      BY <1>1, <2>2, <3>2 DEF TraeDialogIsInOrder
  <2>4. ASSUME Calm' PROVE OneChange' /\ CompletedIsShown'
    <3>1. \A x \in calls' : ~Changes(x)
      BY <1>5, <2>1, <2>4
    <3>2. CompletedIsShown'
      BY <1>4, <1>5, <2>1, <2>2, <2>4 DEF CompletedIsShown
    <3>3. QED
      BY <3>1, <3>2 DEF OneChange, Changes
  <2>5. c \notin calls'
    BY <2>1
  <2>6. QED
    BY <1>1, <1>2, <1>3, <2>1, <2>2, <2>3, <2>4, <2>5, ReplySafe
<1>9. QED
  BY <1>6, <1>7, <1>8 DEF StartReply

\* An attempt goes on with its next command, or is over.
LEMMA NextCommandTrae ==
    ASSUME TraeInv, UNCHANGED dialogKeeps, NEW c \in calls, c.op \in {"browse", "complete", "fetch"},
           NEW op \in {"complete", "fetch"},
           Replace(c, Call(op, c.attempt, c.login)) \/ Drop(c),
           UNCHANGED <<dialog, attempts, overlapped>>,
           abandoned' \in BOOLEAN, abandoned => abandoned',
           op = "fetch" /\ Calm => c.login \notin Listed,
           op = "complete" => c.op = "browse"
    PROVE  TraeInv'
<1>1. /\ UNCHANGED <<pending, file, servers, issued, expired, revived>> /\ ~Parts(c)
      /\ c.op \in Started
  <2>1. PcFits(c)
    BY TraeFacts DEF TraeInv
  <2>2. QED
    BY <2>1 DEF dialogKeeps, Parts, PcFits, Started
<1>2. TraeOrder /\ issued \in Nat /\ dialog \in Dialogs /\ c.login \in Nat /\ c.login <= issued
      /\ c.attempt \in Nat /\ c.attempt \in 1 .. attempts /\ c.login # NoLogin
  BY <1>1, TraeFacts DEF TraeInv, TraeOrder, TraeStartsShow, TraeLoginsAreIssued
<1>3. PICK d \in TraeCalls : /\ calls' \in {(calls \ {c}) \union {d}, calls \ {c}} /\ d.op = op
                             /\ d.login = c.login /\ d.pc = "called" /\ d.attempt = c.attempt
  <2>1. op \in TraeOps
    BY DEF TraeOps
  <2>2. QED
    BY <1>2, <2>1, SentCall DEF Replace, Drop
<1>4. calls' \subseteq (calls \ {c}) \union {d} /\ calls \ {c} \subseteq calls'
  BY <1>3
<1>5. Fits(d)' /\ ~Changes(d) /\ d.op # "restore" /\ d.op # "finish"
  BY <1>1, <1>2, <1>3 DEF Fits, PcFits, Started, Changes
<1>6. TraeDialogIsInOrder' /\ Listed' = Listed
  BY <1>1, <1>2 DEF TraeOrder, TraeDialogIsInOrder, Listed
<1>7. ASSUME Calm' PROVE OneChange' /\ CompletedIsShown'
  <2>1. Calm
    BY <1>1, <1>7 DEF Calm
  <2>2. OneChange /\ CompletedIsShown
    BY <2>1, CalmFacts
  <2>3. OneChange'
    BY <1>4, <1>5, <2>2, OneChangeKept
  <2>4. d.login \in Listed' =>
            /\ d.op # "fetch" /\ ~(d.op = "complete" /\ d.pc \in Replies)
            /\ d.op \in {"browse", "complete"} =>
                  c.op \in {"browse", "complete"} /\ c.login = d.login /\ c.login \in Listed
    BY <1>3, <1>6, <2>1 DEF Replies
  <2>5. c.op # "cancel" /\ UNCHANGED dialog
    OBVIOUS
  <2>6. CompletedIsShown'
    BY <1>4, <1>6, <2>2, <2>4, <2>5, ShownKept
  <2>7. QED
    BY <2>3, <2>6
<1>8. d.attempt \in {0, c.attempt} /\ d.pc = "called" /\ UNCHANGED dialog
  BY <1>3
<1>9. QED
  BY <1>1, <1>2, <1>4, <1>5, <1>6, <1>7, <1>8, ReplySafe

LEMMA BrowsedSafeTrae ==
    ASSUME TraeInv, NEW c \in calls, Browsed(c), UNCHANGED dialogKeeps PROVE TraeInv'
<1>1. /\ c.op = "browse" /\ Replace(c, Call("complete", c.attempt, c.login))
      /\ UNCHANGED <<dialog, attempts, overlapped, abandoned>>
  BY DEF Browsed
<1>2. abandoned' \in BOOLEAN /\ (abandoned => abandoned')
  BY <1>1, TraeFacts DEF TraeInv
<1>3. QED
  BY <1>1, <1>2, NextCommandTrae

\* A dialog that shows anything has nobody who starts a login, or cancels one.
LEMMA ShowsAlone ==
    ASSUME TraeInv, Calm, dialog.shown # "nothing"
    PROVE  \A x \in calls : ~Changes(x)
BY CalmFacts, TraeFacts DEF OneChange

LEMMA CompleteReplySafeTrae ==
    ASSUME TraeInv, NEW c \in calls, CompleteReply(c), UNCHANGED dialogKeeps PROVE TraeInv'
<1>1. /\ c.op = "complete" /\ c.pc \in Replies /\ UNCHANGED <<attempts, overlapped, abandoned>>
      /\ UNCHANGED <<pending, file, servers, issued, expired, revived>>
  BY DEF CompleteReply, dialogKeeps
<1>2. TraeOrder /\ abandoned \in BOOLEAN /\ dialog \in Dialogs
  BY TraeFacts DEF TraeInv
<1>3. Calm => c.login \notin Listed
  BY <1>1, CalmFacts DEF CompletedIsShown
<1>4. CASE Drop(c) /\ UNCHANGED dialog
  <2>1. "fetch" \in {"complete", "fetch"}
    OBVIOUS
  <2>2. QED
    BY <1>1, <1>2, <1>3, <1>4, <2>1, NextCommandTrae
<1>5. CASE Replace(c, Call("fetch", c.attempt, c.login)) /\ UNCHANGED dialog
  BY <1>1, <1>2, <1>3, <1>5, NextCommandTrae
<1>6. CASE /\ c.attempt = dialog.attempt
           /\ dialog' = [dialog EXCEPT !.shown =
                  IF c.pc = "timeout" THEN "timed out" ELSE "complete error"]
           /\ Drop(c)
  <2>1. calls' = calls \ {c} /\ c \notin calls' /\ ~Parts(c)
    BY <1>1, <1>6 DEF Drop, Parts, Replies
  <2>2. dialog.shown # "nothing"
    BY <1>1, <1>2, <1>6 DEF TraeOrder, TraeStartsShow, Started
  <2>3. /\ dialog' \in Dialogs /\ dialog'.login = dialog.login /\ dialog'.attempt = dialog.attempt
        /\ (dialog'.open <=> dialog.open) /\ dialog'.shown # "nothing"
    <3> DEFINE w == IF c.pc = "timeout" THEN "timed out" ELSE "complete error"
    <3>1. w \in Shown /\ w # "nothing"
      BY DEF Shown
    <3>2. dialog' = [dialog EXCEPT !.shown = w]
      BY <1>6
    <3> HIDE DEF w
    <3>3. dialog \in Dialogs
      BY <1>2
    <3>4. QED
      BY ONLY <3>1, <3>2, <3>3 DEF Dialogs
  <2>4. TraeDialogIsInOrder'
    <3>1. /\ dialog.login <= issued /\ dialog.attempt <= attempts /\ dialog.open
      BY <1>2, <2>2 DEF TraeOrder, TraeDialogIsInOrder
    <3>2. QED
      BY <1>1, <2>3, <3>1 DEF TraeDialogIsInOrder
  <2>5. ASSUME Calm' PROVE OneChange' /\ CompletedIsShown'
    <3>1. Calm
      BY <1>1, <2>5 DEF Calm
    <3>2. OneChange'
      BY <2>1, <2>2, <3>1, ShowsAlone DEF OneChange, Changes
    <3>3. ASSUME NEW l, IsCancelled(l) PROVE IsCancelled(l)'
      BY <1>1, <2>1, <3>3 DEF IsCancelled
    <3>4. CompletedIsShown /\ Listed' = Listed
      BY <1>1, <3>1, CalmFacts DEF Listed
    <3>5. CompletedIsShown'
      BY <2>1, <2>3, <3>3, <3>4 DEF CompletedIsShown
    <3>6. QED
      BY <3>2, <3>5
  <2>6. QED
    BY <1>1, <1>2, <2>1, <2>2, <2>3, <2>4, <2>5, ReplySafe
<1>7. QED
  BY <1>1, <1>4, <1>5, <1>6 DEF CompleteReply

LEMMA FetchedSafeTrae ==
    ASSUME TraeInv, NEW c \in calls, Fetched(c), UNCHANGED dialogKeeps PROVE TraeInv'
<1>1. /\ c.op = "fetch" /\ abandoned' = (abandoned \/ dialog.login \notin {c.login, NoLogin})
      /\ UNCHANGED <<pending, file, servers, issued, expired, revived>>
  BY DEF Fetched, dialogKeeps
<1>2. TraeOrder /\ abandoned \in BOOLEAN /\ dialog \in Dialogs /\ attempts \in Nat
      /\ overlapped \in BOOLEAN /\ issued \in Nat /\ PcFits(c) /\ NoLogin \notin Listed
  BY TraeFacts, MapFacts DEF TraeInv
<1>3. abandoned' \in BOOLEAN /\ (abandoned => abandoned') /\ ~Parts(c)
  BY <1>1, <1>2 DEF Parts, PcFits
<1>4. ASSUME Calm, ~abandoned' PROVE c.login \notin Listed /\ dialog.login \notin Listed
  BY <1>1, <1>2, <1>4, CalmFacts DEF CompletedIsShown
<1>5. CASE Prepare(calls \ {c})
  <2>1. ASSUME Calm'
        PROVE  \A x \in calls \ {c} : x.op \in {"browse", "complete"} => x.login \notin Listed
    <3>1. Calm /\ ~abandoned' /\ \A x \in calls \ {c} : x.op # "cancel"
      BY <1>1, <1>5, <2>1 DEF Calm, Prepare
    <3>2. \A x \in calls : x.op # "cancel"
      BY <1>1, <3>1
    <3>3. QED
      BY <1>4, <3>1, <3>2, NobodyCompletes
  <2>2. \A x \in calls \ {c} : x \in calls
    OBVIOUS
  <2>3. \A x \in calls : x \in calls \ {c} \/ ~Parts(x)
    BY <1>3
  <2>4. QED
    BY <1>3, <1>5, <2>1, <2>2, <2>3, PrepareSafeTrae
<1>6. CASE /\ dialog.shown # "nothing" /\ dialog' = [Idle EXCEPT !.open = TRUE]
           /\ Drop(c) /\ UNCHANGED <<attempts, overlapped>>
  <2>1. calls' = calls \ {c}
    BY <1>6 DEF Drop
  <2>2. /\ dialog' \in Dialogs /\ dialog'.open /\ dialog'.attempt = 0 /\ dialog'.login = NoLogin
        /\ dialog'.shown = "nothing"
    BY ONLY <1>6 DEF Idle, Dialogs, Shown, NoLogin
  <2>3. TraeDialogIsInOrder'
    BY <1>1, <1>2, <1>6, <2>2 DEF TraeDialogIsInOrder, NoLogin
  <2>4. \A x \in calls' : x.op \in Started => x.attempt # dialog'.attempt
    BY <1>2, <2>1, <2>2 DEF TraeOrder, TraeStartsShow
  <2>5. ASSUME Calm' PROVE OneChange' /\ CompletedIsShown'
    <3>1. Calm /\ ~abandoned'
      BY <1>1, <1>6, <2>5 DEF Calm
    <3>2. \A x \in calls : ~Changes(x)
      BY <1>6, <3>1, ShowsAlone
    <3>3. OneChange'
      BY <2>1, <3>2 DEF OneChange, Changes
    <3>4. \A x \in calls : x.op \in {"browse", "complete"} => x.login \notin Listed
      BY <1>4, <3>1, <3>2, NobodyCompletes DEF Changes
    <3>5. CompletedIsShown /\ Listed' = Listed
      BY <1>1, <3>1, CalmFacts DEF Listed
    <3>6. CompletedIsShown'
      BY <2>1, <3>4, <3>5 DEF CompletedIsShown
    <3>7. QED
      BY <3>3, <3>6
  <2>6. /\ \A x \in calls' : x \in calls
        /\ \A x \in calls : Parts(x) => x \in calls'
    BY <1>3, <2>1
  <2>7. QED
    BY <1>2, <1>3, <1>6, <2>2, <2>3, <2>4, <2>5, <2>6, DialogSafe
<1>7. CASE Drop(c) /\ UNCHANGED <<dialog, attempts, overlapped>>
  <2>1. "fetch" \in {"complete", "fetch"} /\ (Calm => c.login \notin Listed)
    BY <1>1, CalmFacts DEF CompletedIsShown
  <2>2. QED
    BY <1>1, <1>3, <1>7, <2>1, NextCommandTrae
<1>8. QED
  BY <1>5, <1>6, <1>7 DEF Fetched

LEMMA CloseAfterSuccessSafeTrae ==
    ASSUME TraeInv, CloseAfterSuccess, UNCHANGED dialogKeeps PROVE TraeInv'
<1>1. /\ UNCHANGED <<calls, attempts, overlapped>> /\ dialog' = Idle
      /\ abandoned' = (abandoned \/ dialog.login # NoLogin)
      /\ UNCHANGED <<pending, file, servers, issued, expired, revived>>
  BY DEF CloseAfterSuccess, dialogKeeps
<1>2. TraeOrder /\ attempts \in Nat /\ overlapped \in BOOLEAN /\ abandoned \in BOOLEAN /\ issued \in Nat
  BY TraeFacts DEF TraeInv
<1>3. TraeDialogIsInOrder' /\ dialog' \in Dialogs /\ dialog'.attempt = 0 /\ dialog'.login = NoLogin
      /\ ~dialog'.open
  BY <1>1, <1>2, IdleDialog DEF TraeDialogIsInOrder, NoLogin
<1>4. \A x \in calls' : x.op \in Started => x.attempt # dialog'.attempt
  BY <1>1, <1>2, <1>3 DEF TraeOrder, TraeStartsShow
<1>5. ASSUME Calm' PROVE OneChange' /\ CompletedIsShown'
  <2>1. Calm /\ dialog.login = NoLogin
    BY <1>1, <1>5 DEF Calm
  <2>2. OneChange /\ CompletedIsShown
    BY <2>1, CalmFacts
  <2>3. OneChange'
    BY <1>1, <1>3, <2>2 DEF OneChange
  <2>4. CompletedIsShown'
    BY <1>1, <1>3, <2>1, <2>2 DEF CompletedIsShown, IsCancelled, Listed
  <2>5. QED
    BY <2>3, <2>4
<1>6. abandoned' \in BOOLEAN /\ (abandoned => abandoned')
  BY <1>1, <1>2
<1>7. QED
  BY <1>1, <1>2, <1>3, <1>4, <1>5, <1>6, DialogSafe

----------------------------------------------------------------------------
LEMMA TraeInitSafe == Init => TraeInv
<1> SUFFICES ASSUME Init PROVE TraeInv
  OBVIOUS
<1>1. /\ dialog = Idle /\ calls = {} /\ attempts = 0 /\ overlapped = FALSE /\ abandoned = FALSE
      /\ pending = << >> /\ file = NoFile /\ servers = {} /\ issued = 0 /\ revived = FALSE
  BY DEF Init, DialogInit
<1>2. DOMAIN << >> = {} /\ << >> \in [{} -> Results]
  OBVIOUS
<1>3. Listed = {} /\ pending \in [Listed -> Results]
  BY <1>1, <1>2 DEF Listed
<1>4. TraeTyped
  BY <1>1, <1>3, IdleDialog DEF TraeTyped
<1>5. TraeDialogIsInOrder /\ TraeLoginsAreIssued /\ TraeStartsShow
  BY <1>1, IdleDialog DEF TraeDialogIsInOrder, TraeLoginsAreIssued, TraeStartsShow, NoLogin
<1>6. OneChange /\ CompletedIsShown /\ MapMeetsFile
  BY <1>1, <1>3 DEF OneChange, CompletedIsShown, MapMeetsFile, Agreed
<1>7. QED
  BY <1>4, <1>5, <1>6 DEF TraeInv, TraeOrder

LEMMA TraeCallSafe ==
    ASSUME TraeInv, CallStep \/ \E c \in calls : StartAtTheSecond(c),
           UNCHANGED <<dialog, attempts, overlapped, abandoned, revived>>
    PROVE  TraeInv'
<1>1. ASSUME NEW c \in calls, StartAgain(c) \/ StartAfresh(c) \/ StartAtTheSecond(c) PROVE TraeInv'
  BY <1>1, StartAgainSafe, StartAfreshSafe, StartAtTheSecondSafe
<1>2. ASSUME NEW c \in calls, Retain(c) \/ Unlink(c) \/ Insert(c) \/ Persist(c) PROVE TraeInv'
  BY <1>2, RetainSafe, UnlinkSafe, InsertSafe, PersistSafe
<1>3. ASSUME NEW c \in calls, Poll(c) \/ RemoveCompleted(c) \/ Finish(c) PROVE TraeInv'
  BY <1>3, PollSafe, RemoveCompletedSafe, FinishSafe
<1>4. ASSUME NEW c \in calls, Cancel(c) \/ Wipe(c) \/ Restore(c) PROVE TraeInv'
  BY <1>4, CancelSafeTrae, WipeSafe, RestoreSafe
<1>5. QED
  BY <1>1, <1>2, <1>3, <1>4 DEF CallStep

LEMMA TraeDialogStepSafe ==
    ASSUME TraeInv, DialogStep, UNCHANGED <<backend, history>> PROVE TraeInv'
<1>1. UNCHANGED dialogKeeps
  BY DEF backend, history, dialogKeeps
<1>2. CASE UserStep
  BY <1>1, <1>2, OpenSafeTrae, CloseSafeTrae, RetrySafeTrae DEF UserStep
<1>3. CASE ReplyStep
  <2>1. PICK c \in calls : StartReply(c) \/ Browsed(c) \/ CompleteReply(c) \/ Fetched(c)
    BY <1>3 DEF ReplyStep
  <2>2. QED
    BY <1>1, <2>1, StartReplySafeTrae, BrowsedSafeTrae, CompleteReplySafeTrae, FetchedSafeTrae
<1>4. CASE CloseAfterSuccess
  BY <1>1, <1>4, CloseAfterSuccessSafeTrae
<1>5. QED
  BY <1>2, <1>3, <1>4 DEF DialogStep

LEMMA TraeStandsStill == TraeInv /\ UNCHANGED vars => TraeInv'
<1> SUFFICES ASSUME TraeInv, UNCHANGED vars PROVE TraeInv'
  OBVIOUS
<1>1. /\ UNCHANGED <<dialog, calls, attempts, overlapped, abandoned>>
      /\ UNCHANGED <<pending, file, servers, issued, expired, revived>>
  BY DEF vars, dialogVars, backend, history
<1>2. QED
  BY <1>1, MapStands

LEMMA TraeInductive == TraeInv /\ [Next]_vars => TraeInv'
<1> SUFFICES ASSUME TraeInv, [Next]_vars PROVE TraeInv'
  OBVIOUS
<1>1. CASE DialogStep /\ UNCHANGED <<backend, history>>
  BY <1>1, TraeDialogStepSafe
<1>2. CASE BackendStep
  <2>1. UNCHANGED <<dialog, attempts, overlapped, abandoned>>
    BY <1>2 DEF BackendStep
  <2>2. CASE \E c \in calls : Hydrate(c)
    BY <2>1, <2>2, HydrateSafe
  <2>3. CASE (CallStep \/ \E c \in calls : StartAtTheSecond(c)) /\ UNCHANGED revived
    BY <2>1, <2>3, TraeCallSafe
  <2>4. CASE /\ ServerStep \/ SubmitCallback \/ \E l \in Logins : Expire(l)
             /\ UNCHANGED calls /\ UNCHANGED revived
    BY <2>1, <2>4, OutsideStepSafe
  <2>5. QED
    BY <1>2, <2>2, <2>3, <2>4 DEF BackendStep
<1>3. CASE Restart
  BY <1>3, RestartSafe
<1>4. CASE UNCHANGED vars
  BY <1>4, TraeStandsStill
<1>5. QED
  BY <1>1, <1>2, <1>3, <1>4 DEF Next

\* What holds of the logins of Trae throughout: who parts the map and the file, and how.
THEOREM TraeInvariance == Spec => []TraeInv
<1>1. Init => TraeInv
  BY TraeInitSafe
<1>2. TraeInv /\ [Next]_vars => TraeInv'
  BY TraeInductive
<1>3. QED
  BY <1>1, <1>2, PTL DEF Spec

\* Between commands the file holds the pending login with its result, or nothing, so that
\* a restart finds what the program knows.
THEOREM FileIsTrue == Spec => []MapAndFileAgree
<1>1. TraeInv => MapAndFileAgree
  <2> SUFFICES ASSUME TraeInv, Quiet, Calm PROVE Agreed
    BY DEF MapAndFileAgree, Calm, Agreed
  <2>1. \A c \in calls : ~Parts(c)
    <3>1. \A c \in calls : PcFits(c)
      BY TraeFacts DEF TraeInv
    <3>2. QED
      BY <3>1 DEF Quiet, Parts, PcFits, Replies
  <2>2. QED
    BY <2>1, CalmFacts DEF MapMeetsFile
<1>2. QED
  BY TraeInvariance, <1>1, PTL

----------------------------------------------------------------------------
\* What a step of Trae's backend takes away: the logins that leave the map or the disk.
Gone == (Listed \ DOMAIN pending') \cup ({file.login} \ {file'.login, NoLogin})

HasReason(l) ==
    \/ l \in expired
    \/ \E c \in calls \cup calls' :
          c.login = l /\ c.pc \in {"succeed", "expire", "fail", "wipe"}

LEMMA NothingGone ==
    ASSUME Listed \subseteq DOMAIN pending', file' = file \/ file = NoFile
    PROVE  \A l \in Gone : HasReason(l)
BY DEF Gone, NoFile

LEMMA ChangesForgetForAReason ==
    ASSUME TraeInv, Calm, NEW c \in calls, NEW l \in Gone,
           \/ Hydrate(c) \/ Retain(c) \/ Unlink(c) \/ Insert(c) \/ Persist(c)
           \/ RemoveCompleted(c) \/ Finish(c) \/ Cancel(c) \/ Wipe(c) \/ Restore(c)
    PROVE  HasReason(l)
<1>1. TraeOrder /\ MapMeetsFile /\ PcFits(c) /\ c.op \in TraeOps /\ Listed = DOMAIN pending
  BY CalmFacts, TraeFacts DEF TraeCalls, Listed
<1>2. CASE Hydrate(c)
  <2>1. Listed \subseteq DOMAIN pending'
    BY <1>2 DEF Hydrate, HydrateIfMissing, With, Listed
  <2>2. file' = file \/ file.login \in expired
    BY <1>2 DEF Hydrate, HydrateIfMissing
  <2>3. QED
    BY <2>1, <2>2 DEF Gone, HasReason
<1>3. CASE Retain(c)
  BY <1>1, <1>3 DEF Retain, MapMeetsFile, ApartAsItShould, Gone, HasReason
<1>4. CASE Unlink(c)
  BY <1>1, <1>4 DEF Unlink, MapMeetsFile, ApartAsItShould, Gone, HasReason
<1>5. CASE Insert(c)
  <2>1. Listed \subseteq DOMAIN pending' /\ file' = file
    BY <1>5 DEF Insert, With, Listed
  <2>2. QED
    BY <2>1, NothingGone
<1>6. CASE Persist(c)
  <2>1. pending' = pending /\ file = NoFile
    BY <1>1, <1>6 DEF Persist, MapMeetsFile, ApartAsItShould
  <2>2. QED
    BY <1>1, <2>1, NothingGone
<1>7. CASE RemoveCompleted(c)
  <2>1. /\ c.pc \in {"succeed", "expire", "fail"} /\ file' = file
        /\ DOMAIN pending' = Listed \ {c.login}
    BY <1>7 DEF RemoveCompleted, Without
  <2>2. l = c.login
    BY <2>1 DEF Gone
  <2>3. QED
    BY <2>1, <2>2 DEF HasReason
<1>8. CASE Finish(c)
  <2>1. c.pc \in {"succeed", "expire", "fail"}
    BY <1>1, <1>8 DEF Finish, PcFits
  <2>2. pending' = pending /\ file.login = c.login
    BY <1>1, <1>8 DEF Finish, MapMeetsFile, ApartAsItShould
  <2>3. l = c.login
    BY <1>1, <2>2 DEF Gone
  <2>4. QED
    BY <2>1, <2>3 DEF HasReason
<1>9. ASSUME NEW k \in Listed, pending' = Without({k}), file' = file,
             Replace(c, [c EXCEPT !.login = k, !.pc = "wipe"])
      PROVE  HasReason(l)
  <2>1. l = k
    BY <1>9 DEF Gone, Without
  <2>2. k \in Nat /\ "wipe" \in TraePcs /\ Reply(c, k, "wipe")
    BY <1>1, <1>9, MapFacts, TraeFacts DEF TraePcs, Reply
  <2>3. \E d \in TraeCalls : /\ calls' = (calls \ {c}) \union {d}
                             /\ d.op = c.op /\ d.attempt = c.attempt
                             /\ d.login = k /\ d.pc = "wipe"
    BY <1>1, <2>2, GoesWith
  <2>4. QED
    BY <2>1, <2>3 DEF HasReason
<1>10. CASE Cancel(c)
  <2>1. CASE pending' = pending
    <3>1. Listed \subseteq DOMAIN pending' /\ file' = file
      BY <1>1, <1>10, <2>1 DEF Cancel
    <3>2. QED
      BY <3>1, NothingGone
  <2>2. CASE \E k \in Listed : /\ pending' = Without({k})
                               /\ Replace(c, [c EXCEPT !.login = k, !.pc = "wipe"])
    BY <1>9, <1>10, <2>2 DEF Cancel
  <2>3. QED
    BY <1>10, <2>1, <2>2 DEF Cancel
<1>11. CASE Wipe(c)
  <2>1. c.pc = "wipe" /\ pending' = pending /\ file.login \in {c.login, NoLogin}
    BY <1>1, <1>11 DEF Wipe, MapMeetsFile, ApartAsItShould
  <2>2. l = c.login
    BY <1>1, <2>1 DEF Gone
  <2>3. QED
    BY <2>1, <2>2 DEF HasReason
<1>12. CASE Restore(c)
  <2>1. CASE pending' = pending
    <3>1. Listed \subseteq DOMAIN pending' /\ file' = file
      BY <1>1, <1>12, <2>1 DEF Restore
    <3>2. QED
      BY <3>1, NothingGone
  <2>2. CASE \E k \in Listed : /\ pending' = Without({k})
                               /\ Replace(c, [c EXCEPT !.login = k, !.pc = "wipe"])
    BY <1>9, <1>12, <2>2 DEF Restore
  <2>3. QED
    BY <1>12, <2>1, <2>2 DEF Restore
<1>13. QED
  BY <1>2, <1>3, <1>4, <1>5, <1>6, <1>7, <1>8, <1>10, <1>11, <1>12

\* A result is stored for the login that is on the disk.
LEMMA ResultsForgetNothing ==
    ASSUME TraeInv, Calm, NEW k \in Listed, k \in servers \/ dialog.login = k, SetResult(k)
    PROVE  \A l \in Gone : HasReason(l)
<1>1. MapMeetsFile
  BY CalmFacts
<1>2. \A x \in calls : ~Parts(x)
  BY <1>1 DEF MapMeetsFile, ApartAsItShould, Parts
<1>3. Listed = {k} /\ file.login = k
  BY <1>1, <1>2 DEF MapMeetsFile, Agreed, Stored
<1>4. file'.login = k /\ Listed \subseteq DOMAIN pending'
  BY DEF SetResult, Stored, With
<1>5. QED
  BY <1>3, <1>4 DEF Gone

LEMMA OutsideForgetsNothing ==
    ASSUME TraeInv, Calm, ServerStep \/ SubmitCallback \/ \E l \in Logins : Expire(l)
    PROVE  \A l \in Gone : HasReason(l)
<1>1. CASE pending' = pending /\ file' = file
  BY <1>1, NothingGone DEF Listed
<1>2. CASE \E k \in Listed : (k \in servers \/ dialog.login = k) /\ SetResult(k)
  BY <1>2, ResultsForgetNothing
<1>3. QED
  BY <1>1, <1>2 DEF ServerStep, Callback, ServerEnds, SubmitCallback, Expire

RestartsAreCounted == restarts \in Nat

LEMMA StepForgetsForAReason ==
    TraeInv /\ RestartsAreCounted /\ [Next]_vars => [Forgets]_vars
<1> SUFFICES ASSUME TraeInv, RestartsAreCounted, Next, restarts' = restarts, Calm, NEW l \in Gone
             PROVE  HasReason(l)
  BY DEF Forgets, Gone, HasReason, Calm
<1>1. CASE pending' = pending /\ file' = file
  BY <1>1, NothingGone DEF Listed
<1>2. CASE DialogStep /\ UNCHANGED <<backend, history>>
  BY <1>1, <1>2 DEF backend
<1>3. CASE BackendStep
  <2>1. CASE \E c \in calls : Hydrate(c)
    BY <2>1, ChangesForgetForAReason
  <2>2. CASE CallStep
    <3>1. CASE \E c \in calls : StartAgain(c) \/ StartAfresh(c) \/ Poll(c)
      BY <1>1, <3>1 DEF StartAgain, StartAfresh, Poll, backend
    <3>2. CASE \E c \in calls :
                  \/ Retain(c) \/ Unlink(c) \/ Insert(c) \/ Persist(c)
                  \/ RemoveCompleted(c) \/ Finish(c) \/ Cancel(c) \/ Wipe(c) \/ Restore(c)
      BY <3>2, ChangesForgetForAReason
    <3>3. QED
      BY <2>2, <3>1, <3>2 DEF CallStep
  <2>3. CASE \E c \in calls : StartAtTheSecond(c)
    BY <1>1, <2>3 DEF StartAtTheSecond
  <2>4. CASE ServerStep \/ SubmitCallback \/ \E k \in Logins : Expire(k)
    BY <2>4, OutsideForgetsNothing
  <2>5. QED
    BY <1>3, <2>1, <2>2, <2>3, <2>4 DEF BackendStep
<1>4. CASE Restart
  <2>1. restarts' = restarts + 1
    BY <1>4 DEF Restart
  <2>2. QED
    BY <2>1 DEF RestartsAreCounted
<1>5. QED
  BY <1>2, <1>3, <1>4 DEF Next

\* A login leaves the map or the disk because it has expired, has been completed or is
\* cancelled: a start discards none that could still be used.
THEOREM ForgottenOnlyForAReason == Spec => ForgottenForAReason
<1>1. Init => RestartsAreCounted
  BY DEF Init, RestartsAreCounted
<1>2. RestartsAreCounted /\ [Next]_vars => RestartsAreCounted'
  BY DEF Next, BackendStep, Restart, history, vars, RestartsAreCounted
<1>3. TraeInv /\ RestartsAreCounted /\ [Next]_vars => [Forgets]_vars
  BY StepForgetsForAReason
<1>4. QED
  BY <1>1, <1>2, <1>3, TraeInvariance, PTL DEF Spec, ForgottenForAReason

----------------------------------------------------------------------------
\* Only WorkBuddy AI marks a login.
MarkedByAI == provider = "codebuddy" => slot.cancelled = FALSE

LEMMA MarkedByAIInductive == MarkedByAI /\ [SlotNext]_allVars => MarkedByAI'
<1> SUFFICES ASSUME MarkedByAI, [SlotNext]_allVars PROVE MarkedByAI'
  OBVIOUS
<1>1. CASE provider' = provider /\ slot' \in {slot, Empty, [login |-> issued + 1, cancelled |-> FALSE]}
  BY <1>1 DEF MarkedByAI, Empty
<1>2. CASE SlotBackendStep
  <2>1. provider' = provider
    BY <1>2 DEF SlotBackendStep
  <2>2. CASE ExpireSlot
    BY <1>1, <2>1, <2>2 DEF ExpireSlot
  <2>3. ASSUME NEW c \in calls, Start(c) \/ Check(c) \/ PollAgain(c) \/ PollSucceeds(c)
                                \/ Refreshed(c) \/ PollOfAISucceeds(c)
        PROVE  MarkedByAI'
    BY <1>1, <2>1, <2>3 DEF Start, Check, PollAgain, PollSucceeds, Refreshed, PollOfAISucceeds,
                            ClearOwn, slotVars
  <2>4. ASSUME NEW c \in calls, CancelSlot(c) PROVE MarkedByAI'
    BY <1>1, <2>1, <2>4 DEF CancelSlot, Cancelled, MarkedByAI
  <2>5. QED
    BY <1>2, <2>2, <2>3, <2>4 DEF SlotBackendStep, SlotCallStep
<1>3. QED
  BY <1>1, <1>2 DEF SlotNext, slotVars, allVars

\* What a step of the slot's backend says of the login that is in it.
SlotReason ==
    \/ slot.login \in expired \/ slot'.login > slot.login
    \/ \E c \in calls \ calls' :
          \/ c.op = "cancel" /\ c.login \in {slot.login, NoLogin}
          \/ c.op = "complete" /\ c.login = slot.login /\ c.pc # "called"
          \/ /\ c.op = "complete" /\ c.pc = "polling"
             /\ (provider = "workbuddy_ai" \/ c.login \in expired)

LEMMA SlotCallDropsForAReason ==
    ASSUME SlotInv, MarkedByAI, slot'.login # slot.login, NEW c \in calls,
           \/ Start(c) \/ Check(c) \/ PollAgain(c) \/ CancelSlot(c)
           \/ PollSucceeds(c) \/ Refreshed(c) \/ PollOfAISucceeds(c)
    PROVE  SlotReason
<1>1. /\ calls \subseteq SlotCalls /\ issued \in Nat /\ c.login \in Nat
      /\ slot.login \in Nat /\ slot.login <= issued
      /\ c.pc \in {"polling", "refreshing"} => c.op = "complete"
  BY SlotFacts DEF SlotInv, SlotTyped, LoginsAreIssued
<1>2. ASSUME NEW l \in Nat, NEW pc \in SlotPcs, pc # c.pc, Reply(c, l, pc) PROVE c \in calls \ calls'
  <2>1. \E d \in SlotCalls : calls' = (calls \ {c}) \union {d} /\ d.pc = pc
    BY <1>1, <1>2, Replaced
  <2>2. QED
    BY <1>2, <2>1
<1>3. CASE Start(c)
  <2>1. slot'.login = issued + 1
    BY <1>3 DEF Start, slotVars
  <2>2. QED
    BY <1>1, <2>1 DEF SlotReason
<1>4. CASE Check(c)
  <2>1. slot.login = c.login /\ (c.login \in expired \/ (slot.cancelled /\ provider = "codebuddy"))
    BY <1>4 DEF Check, ClearOwn
  <2>2. QED
    BY <2>1 DEF MarkedByAI, SlotReason
<1>5. CASE PollAgain(c)
  <2>1. c.pc = "polling" /\ c.login \in expired /\ Reply(c, c.login, "timeout")
    BY <1>5 DEF PollAgain
  <2>2. QED
    BY <1>1, <1>2, <2>1 DEF SlotReason, SlotPcs
<1>6. CASE CancelSlot(c)
  <2>1. c.op = "cancel" /\ c \in calls \ calls' /\ slot' \in {Cancelled(c.login), Marked}
    BY <1>6 DEF CancelSlot, Drop
  <2>2. slot \in [login : Nat, cancelled : BOOLEAN]
    BY DEF SlotInv, SlotTyped
  <2>3. Marked.login = slot.login
    BY <2>2 DEF Marked
  <2>4. c.login \in {slot.login, NoLogin}
    BY <2>1, <2>3 DEF Cancelled
  <2>5. QED
    BY <2>1, <2>4 DEF SlotReason
<1>7. CASE PollSucceeds(c)
  BY <1>7 DEF PollSucceeds, slotVars
<1>8. CASE Refreshed(c)
  <2>1. c.pc = "refreshing" /\ c.login = slot.login /\ Reply(c, c.login, "ok")
    BY <1>8 DEF Refreshed, ClearOwn
  <2>2. QED
    BY <1>1, <1>2, <2>1 DEF SlotReason, SlotPcs
<1>9. CASE PollOfAISucceeds(c)
  <2>1. c.pc = "polling" /\ provider = "workbuddy_ai" /\ Reply(c, c.login, "ok")
    BY <1>9 DEF PollOfAISucceeds
  <2>2. QED
    BY <1>1, <1>2, <2>1 DEF SlotReason, SlotPcs
<1>10. QED
  BY <1>3, <1>4, <1>5, <1>6, <1>7, <1>8, <1>9

LEMMA SlotStepDropsForAReason == SlotInv /\ MarkedByAI /\ [SlotNext]_allVars => [Drops]_allVars
<1> SUFFICES ASSUME SlotInv, MarkedByAI, SlotNext, slot'.login # slot.login PROVE SlotReason
  BY DEF Drops, SlotReason
<1>1. SlotCallStep
  BY DEF SlotNext, slotVars, SlotBackendStep, ExpireSlot
<1>2. QED
  BY <1>1, SlotCallDropsForAReason DEF SlotCallStep

\* A login leaves CodeBuddy's or WorkBuddy's slot because it has expired or is done with, a
\* newer one takes its place or it is cancelled, or with the last poll of an older one.
THEOREM DroppedOnlyForAReason == SlotSpec => DroppedForAReason
<1>1. SlotInit => MarkedByAI
  BY DEF SlotInit, Empty, MarkedByAI
<1>2. MarkedByAI /\ [SlotNext]_allVars => MarkedByAI'
  BY MarkedByAIInductive
<1>3. SlotInv /\ MarkedByAI /\ [SlotNext]_allVars => [Drops]_allVars
  BY SlotStepDropsForAReason
<1>4. QED
  BY <1>1, <1>2, <1>3, SlotInvariance, PTL DEF SlotSpec, DroppedForAReason
=============================================================================
