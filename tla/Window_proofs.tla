--------------------------- MODULE Window_proofs ---------------------------
(***************************************************************************)
(* What the window of the desktop app keeps, for every finite set of       *)
(* tasks, every set of configurations, every set of accounts and every     *)
(* number of operations, changes and failures.                             *)
(*                                                                         *)
(* AutoRefresh: the scheduler is the one for the configuration, and        *)
(* forgets none of its tasks.  A change that comes while a set-up has      *)
(* already got its answer is seen by nobody yet.  It is still to be        *)
(* announced, or the set-up has been told to go round again, or it is one  *)
(* of those that are never announced (AnswerIsTrue).  A task that is on is *)
(* waiting for its time or in the queue (Planned), the scheduler does not  *)
(* rest while the queue has a task, and what it says is running does run:  *)
(* so the timer, and the end of a task, are all it takes to go on.         *)
(*                                                                         *)
(* ProviderStore: a window that waits for nothing shows the accounts there *)
(* are.  The argument follows the last answer: whatever changed the        *)
(* accounts is going to ask for the list again, and only the list that was *)
(* asked for last is taken (ListIsTrue); the same for the current account, *)
(* that is looked up in the list shown (CurrentIsTrue).  An empty list is  *)
(* taken only when a deletion expects it, so the accounts go out of sight  *)
(* only while that deletion is under way (DeletionIsAlone, EmptyIsExpected)*)
(* and overlaps nothing.                                                   *)
(*                                                                         *)
(* QoderLogin: Qoder's dialog never waits for nothing, and leaves no login *)
(* behind.  An attempt leads through its commands one at a time: the       *)
(* cancel of the previous login, the start or the peek, the wait for the   *)
(* user (OneCallEach).  So what a reply does to the dialog of its own      *)
(* attempt disturbs no other command of that attempt, and the flags of the *)
(* dialog tell which command there is (CompletingIsTrue, PreparingIsTrue). *)
(* A login in the slot is always in somebody's hands (LoginIsHeld): the    *)
(* dialog's, which cancels it when it is closed; those of its own start or *)
(* cancel; or those of a start still to come, which puts another one into  *)
(* its place.  A login that is in no hands but the dialog's is not dropped *)
(* for another one, because no start of the same attempt is under way.     *)
(***************************************************************************)
EXTENDS AutoRefresh, ProviderStore, QoderLogin, FiniteSetTheorems, SequenceTheorems,
        WellFoundedInduction, TLAPS

TypeOK ==
    /\ config \in Configs
    /\ setup \in [at : {"idle", "asking", "answered"}, got : Configs \union {Off}]
    /\ setup.at = "answered" => setup.got \in Configs
    /\ scheduler \in Configs \union {Off}
    /\ wait \in [Tasks -> Nat]
    /\ due \in Seq(Tasks)
    /\ running \in Tasks \union {NoTask}
    /\ refreshing \subseteq Tasks
    /\ again \in BOOLEAN /\ silent \in BOOLEAN /\ failed \in BOOLEAN
    /\ changes \in 0 .. MaxChanges /\ news \in 0 .. changes
    /\ failures \in 0 .. MaxFailures

\* The scheduler that a configuration asks for.
For(c) == IF \A t \in Tasks : c[t] = 0 THEN Off ELSE c

\* What a set-up has got is the configuration, unless more is to come.
AnswerIsTrue ==
    setup.at = "answered" => setup.got = config \/ news > 0 \/ again \/ silent

\* The tasks that c has switched on wait or are in the queue.
Planned(c, w, q) ==
    \A t \in Tasks : c[t] > 0 => w[t] > 0 \/ \E i \in 1 .. Len(q) : q[i] = t

\* No task that is on is forgotten, no queue is left standing, and no task that is
\* over is waited for.
NoTaskIsForgotten ==
    /\ scheduler # Off => Planned(scheduler, wait, due)
    /\ running = NoTask => due = << >>
    /\ running # NoTask => running \in refreshing /\ scheduler # Off

IInv == TypeOK /\ AnswerIsTrue /\ SchedulerFollowsConfig /\ NoTaskIsForgotten

----------------------------------------------------------------------------
\* A set of numbers has a least one.
LEMMA LeastNumber ==
    ASSUME NEW S \in SUBSET Nat, S # {}
    PROVE  Min(S) \in S
<1> DEFINE less == {p \in Nat \X Nat : p[1] < p[2]}
<1>1. IsWellFoundedOn(less, Nat)
  BY NatLessThanWellFounded DEF OpToRel
<1>2. \E x \in S : \A y \in S : <<y, x>> \notin less
  BY <1>1, WFMin
<1>3. \A x, y \in Nat : <<y, x>> \notin less => x <= y
  <2> SUFFICES ASSUME NEW x \in Nat, NEW y \in Nat, y < x PROVE <<y, x>> \in less
    OBVIOUS
  <2>1. /\ <<y, x>> \in Nat \X Nat
        /\ <<y, x>>[1] = y /\ <<y, x>>[2] = x
    OBVIOUS
  <2>2. QED
    BY <2>1
<1> HIDE DEF less
<1>4. \E x \in S : \A y \in S : x <= y
  BY <1>2, <1>3
<1>5. QED
  BY <1>4 DEF Min

\* The initial states, where a set-up is already asking.
LEMMA InitIInv == ASSUME RefreshBounds, Init PROVE IInv
<1>1. TypeOK
  <2>1. config \in Configs /\ setup \in [at : {"idle", "asking", "answered"},
                                         got : Configs \union {Off}]
    BY DEF Init, Asking
  <2>2. /\ wait \in [Tasks -> Nat] /\ due \in Seq(Tasks) /\ running \in Tasks \union {NoTask}
        /\ refreshing \subseteq Tasks
    BY EmptySeq DEF Init
  <2>3. changes \in 0 .. MaxChanges /\ news \in 0 .. changes /\ failures \in 0 .. MaxFailures
    BY DEF Init, RefreshBounds
  <2>4. QED
    BY <2>1, <2>2, <2>3 DEF Init, TypeOK, Asking
<1>2. AnswerIsTrue /\ SchedulerFollowsConfig /\ NoTaskIsForgotten
  BY DEF Init, AnswerIsTrue, SchedulerFollowsConfig, NoTaskIsForgotten, Asking, NoTask
<1>3. QED
  BY <1>1, <1>2 DEF IInv

----------------------------------------------------------------------------
(* Changes and set-ups                                                     *)

\* A change is announced, or is one that nobody announces.
LEMMA ChangeConfigIInv ==
    ASSUME RefreshBounds, IInv, NEW c \in Configs, ChangeConfig(c) PROVE IInv'
<1> USE DEF ChangeConfig, setupVars, schedule
<1>1. TypeOK'
  <2>1. changes' \in 0 .. MaxChanges /\ news' \in 0 .. changes'
    BY DEF IInv, TypeOK, RefreshBounds
  <2>2. silent' \in BOOLEAN
    BY DEF IInv, TypeOK
  <2>3. QED
    BY <2>1, <2>2 DEF IInv, TypeOK
<1>2. news \in Nat /\ (news' = news + 1 \/ silent')
  BY DEF IInv, TypeOK
<1>3. AnswerIsTrue' /\ SchedulerFollowsConfig'
  BY <1>2 DEF AnswerIsTrue, SchedulerFollowsConfig
<1>4. NoTaskIsForgotten'
  BY DEF IInv, NoTaskIsForgotten, Planned
<1>5. QED
  BY <1>1, <1>3, <1>4 DEF IInv

\* Who hears of a change starts a set-up, or sends the present one round again.
LEMMA AnnounceIInv == ASSUME RefreshBounds, IInv, Announce PROVE IInv'
<1> USE DEF Announce, schedule
<1>1. TypeOK'
  <2>1. news' \in 0 .. changes'
    BY DEF IInv, TypeOK
  <2>2. /\ setup' \in [at : {"idle", "asking", "answered"}, got : Configs \union {Off}]
        /\ setup'.at = "answered" => setup'.got \in Configs
    BY DEF IInv, TypeOK, Asking
  <2>3. again' \in BOOLEAN
    BY DEF IInv, TypeOK
  <2>4. QED
    BY <2>1, <2>2, <2>3 DEF IInv, TypeOK
<1>2. AnswerIsTrue' /\ SchedulerFollowsConfig'
  BY DEF IInv, TypeOK, AnswerIsTrue, SchedulerFollowsConfig, Asking
<1>3. NoTaskIsForgotten'
  BY DEF IInv, NoTaskIsForgotten, Planned
<1>4. QED
  BY <1>1, <1>2, <1>3 DEF IInv

\* The answer is the configuration of this moment.
LEMMA AnswerIInv == ASSUME RefreshBounds, IInv, Answer PROVE IInv'
<1> USE DEF Answer, schedule
<1>1. TypeOK'
  BY DEF IInv, TypeOK
<1>2. AnswerIsTrue' /\ SchedulerFollowsConfig'
  BY DEF AnswerIsTrue, SchedulerFollowsConfig
<1>3. NoTaskIsForgotten'
  BY DEF IInv, NoTaskIsForgotten, Planned
<1>4. QED
  BY <1>1, <1>2, <1>3 DEF IInv

\* Without an answer there is no scheduler.
LEMMA AnswerFailsIInv == ASSUME RefreshBounds, IInv, AnswerFails PROVE IInv'
<1> USE DEF AnswerFails, Stopped, NoSetup
<1>1. TypeOK'
  BY EmptySeq DEF IInv, TypeOK, RefreshBounds
<1>2. AnswerIsTrue' /\ SchedulerFollowsConfig' /\ NoTaskIsForgotten'
  BY DEF AnswerIsTrue, SchedulerFollowsConfig, NoTaskIsForgotten, NoTask
<1>3. QED
  BY <1>1, <1>2 DEF IInv

\* First delays are numbers, and nothing that is on is due at once.
LEMMA FirstDelaysTyped ==
    ASSUME NEW c \in [Tasks -> Nat], NEW d \in FirstDelays(c)
    PROVE  d \in [Tasks -> Nat] /\ \A t \in Tasks : c[t] > 0 => d[t] > 0
<1>1. d \in [Tasks -> 0 .. Max(Range(c))]
  BY DEF FirstDelays
<1>2. \A t \in Tasks : IF c[t] <= 1 THEN d[t] = c[t] ELSE d[t] \in 1 .. (c[t] - 1)
  BY DEF FirstDelays
<1>3. ASSUME NEW t \in Tasks PROVE d[t] \in Nat /\ (c[t] > 0 => d[t] > 0)
  <2>1. c[t] \in Nat
    OBVIOUS
  <2>2. QED
    BY <1>2, <2>1
<1>4. QED
  BY <1>1, <1>3

\* The scheduler is made from what was got; who has been told to go round again
\* asks again.
LEMMA BuildIInv == ASSUME RefreshBounds, IInv, Build PROVE IInv'
<1>1. /\ setup.at = "answered" /\ setup.got \in Configs
      /\ setup' = IF again THEN Asking ELSE NoSetup
      /\ again' = FALSE /\ running' = NoTask /\ due' = << >>
      /\ scheduler' = For(setup.got)
      /\ UNCHANGED <<config, failed, refreshing, news, silent, changes, failures>>
  BY DEF Build, Stopped, For, IInv, TypeOK
<1>2. /\ wait' \in [Tasks -> Nat]
      /\ scheduler' # Off => \A t \in Tasks : scheduler'[t] > 0 => wait'[t] > 0
  <2>1. CASE \A t \in Tasks : setup.got[t] = 0
    BY <1>1, <2>1 DEF Build, Stopped, For
  <2>2. CASE ~ \A t \in Tasks : setup.got[t] = 0
    <3>1. wait' \in FirstDelays(setup.got)
      BY <2>2 DEF Build
    <3>2. setup.got \in [Tasks -> Nat]
      BY <1>1 DEF RefreshBounds
    <3>3. QED
      BY <1>1, <2>2, <3>1, <3>2, FirstDelaysTyped DEF For
  <2>3. QED
    BY <2>1, <2>2
<1>3. TypeOK'
  BY <1>1, <1>2, EmptySeq DEF IInv, TypeOK, For, Asking, NoSetup
<1>4. AnswerIsTrue' /\ SchedulerFollowsConfig'
  BY <1>1 DEF IInv, TypeOK, AnswerIsTrue, SchedulerFollowsConfig, For, Asking, NoSetup
<1>5. NoTaskIsForgotten'
  BY <1>1, <1>2 DEF NoTaskIsForgotten, Planned
<1>6. QED
  BY <1>3, <1>4, <1>5 DEF IInv

----------------------------------------------------------------------------
(* The scheduler                                                           *)

\* A dispatch skips the tasks that are in progress, which wait their interval
\* again, runs the next one, and leaves the others in the queue.
LEMMA DispatchKeeps ==
    ASSUME RefreshBounds, scheduler \in Configs,
           NEW q \in Seq(Tasks), NEW w \in [Tasks -> Nat], NEW b \in SUBSET Tasks,
           Planned(scheduler, w, q), Dispatch(q, w, b)
    PROVE  /\ running' \in Tasks \union {NoTask} /\ due' \in Seq(Tasks)
           /\ wait' \in [Tasks -> Nat] /\ refreshing' \subseteq Tasks
           /\ Planned(scheduler, wait', due')
           /\ running' = NoTask => due' = << >>
           /\ running' # NoTask => running' \in refreshing'
<1> DEFINE n == IF Free(q, b) = {} THEN Len(q) ELSE Min(Free(q, b))
           taken == {q[i] : i \in 1 .. n}
<1>1. /\ running' = IF Free(q, b) = {} THEN NoTask ELSE q[n]
      /\ due' = SubSeq(q, n + 1, Len(q))
      /\ wait' = [t \in Tasks |-> IF t \in taken THEN scheduler[t] ELSE w[t]]
      /\ refreshing' = b \union ({running'} \ {NoTask})
  BY DEF Dispatch
<1>2. scheduler \in [Tasks -> Nat] /\ NoTask \notin Tasks
  BY DEF RefreshBounds, NoTask
<1>3. Len(q) \in Nat /\ DOMAIN q = 1 .. Len(q) /\ \A i \in 1 .. Len(q) : q[i] \in Tasks
  BY LenProperties, ElementOfSeq
<1>4. Free(q, b) # {} => n \in Free(q, b)
  <2>1. Free(q, b) \in SUBSET Nat
    BY <1>3 DEF Free
  <2>2. QED
    BY <2>1, LeastNumber
<1>5. /\ n \in 0 .. Len(q)
      /\ Free(q, b) # {} => n \in 1 .. Len(q)
  BY <1>3, <1>4 DEF Free
<1> HIDE DEF n
<1>6. running' \in Tasks \union {NoTask} /\ refreshing' \subseteq Tasks
  BY <1>1, <1>3, <1>5
<1>7. running' # NoTask => running' \in refreshing'
  BY <1>1
<1>8. wait' \in [Tasks -> Nat]
  <2> HIDE DEF taken
  <2>1. QED
    BY <1>1, <1>2
<1>9. /\ due' \in Seq(Tasks)
      /\ Len(due') = Len(q) - n
      /\ \A i \in 1 .. Len(q) - n : due'[i] = q[n + i]
  <2>1. n + 1 \in 1 .. Len(q) + 1
    BY <1>3, <1>5
  <2>2. CASE n = Len(q)
    BY <1>1, <1>3, <2>2, EmptySeq, SubSeqEmpty
  <2>3. CASE n # Len(q)
    <3>1. n \in Nat /\ Len(q) \in Nat /\ n < Len(q)
      <4>1. Len(q) \in Nat /\ n \in 0 .. Len(q)
        BY <1>3, <1>5
      <4>2. QED
        BY <4>1, <2>3
    <3>2. n + 1 \in 1 .. Len(q) /\ Len(q) \in n + 1 .. Len(q)
      BY <3>1
    <3>3. QED
      BY <1>1, <1>3, <3>1, <3>2, SubSeqProperties
  <2>4. QED
    BY <2>2, <2>3
<1>10. running' = NoTask => due' = << >>
  <2>1. running' = NoTask => n = Len(q)
    BY <1>1, <1>2, <1>3, <1>5 DEF n
  <2>2. QED
    BY <1>3, <1>9, <2>1, EmptySeq
<1>11. Planned(scheduler, wait', due')
  <2> SUFFICES ASSUME NEW t \in Tasks, scheduler[t] > 0
               PROVE  wait'[t] > 0 \/ \E i \in 1 .. Len(due') : due'[i] = t
    BY DEF Planned
  <2>1. CASE t \in taken
    <3> HIDE DEF taken
    <3>1. QED
      BY <1>1, <2>1
  <2>2. CASE t \notin taken
    <3>1. wait'[t] = w[t]
      <4> HIDE DEF taken
      <4>1. QED
        BY <1>1, <2>2
    <3>2. CASE w[t] > 0
      BY <3>1, <3>2
    <3>3. CASE \E i \in 1 .. Len(q) : q[i] = t
      <4>1. PICK i \in 1 .. Len(q) : q[i] = t
        BY <3>3
      <4>2. i \notin 1 .. n
        BY <2>2, <4>1
      <4>3. i - n \in 1 .. Len(due') /\ due'[i - n] = t
        BY <1>3, <1>5, <1>9, <4>1, <4>2
      <4>4. QED
        BY <4>3
    <3>4. QED
      BY <3>2, <3>3 DEF Planned
  <2>3. QED
    BY <2>1, <2>2
<1>12. QED
  BY <1>6, <1>7, <1>8, <1>9, <1>10, <1>11

\* A step of the scheduler concerns nobody else.
LEMMA SchedulerIInv ==
    ASSUME RefreshBounds, IInv, scheduler \in Configs,
           UNCHANGED <<config, setup, again, failed, scheduler, news, silent, changes,
                       failures>>,
           running' \in Tasks \union {NoTask}, due' \in Seq(Tasks),
           wait' \in [Tasks -> Nat], refreshing' \subseteq Tasks,
           Planned(scheduler, wait', due'),
           running' = NoTask => due' = << >>,
           running' # NoTask => running' \in refreshing'
    PROVE  IInv'
<1>1. TypeOK'
  BY DEF IInv, TypeOK
<1>2. AnswerIsTrue' /\ SchedulerFollowsConfig'
  BY DEF IInv, AnswerIsTrue, SchedulerFollowsConfig
<1>3. NoTaskIsForgotten'
  <2>1. scheduler' # Off /\ Planned(scheduler', wait', due')
    BY DEF IInv, NoTaskIsForgotten, RefreshBounds
  <2>2. QED
    BY <2>1 DEF NoTaskIsForgotten
<1>4. QED
  BY <1>1, <1>2, <1>3 DEF IInv

\* The tasks whose time has come join the queue.
LEMMA TickIInv == ASSUME RefreshBounds, IInv, Tick PROVE IInv'
<1> DEFINE w == [t \in Tasks |-> IF wait[t] > 0 THEN wait[t] - 1 ELSE 0]
           ready == {t \in Tasks : wait[t] = 1}
<1>1. PICK q \in SetToSeqs(ready) :
        IF running = NoTask THEN Dispatch(due \o q, w, refreshing)
        ELSE due' = due \o q /\ wait' = w /\ UNCHANGED <<running, refreshing>>
  BY DEF Tick
<1>2. /\ TypeOK /\ NoTaskIsForgotten /\ scheduler \in Configs
      /\ Planned(scheduler, wait, due)
      /\ scheduler \in [Tasks -> Nat]
  BY DEF IInv, TypeOK, Tick, NoTaskIsForgotten, RefreshBounds
<1>3. UNCHANGED <<config, setup, again, failed, scheduler, news, silent, changes, failures>>
  BY DEF Tick, setupVars
<1>4. wait \in [Tasks -> Nat] /\ w \in [Tasks -> Nat]
  BY <1>2 DEF TypeOK
<1>5. q \in Seq(Tasks) /\ \A t \in ready : \E i \in 1 .. Len(q) : q[i] = t
  <2> DEFINE k == Cardinality(ready)
  <2>1. IsFiniteSet(ready) /\ k \in Nat
    BY FS_Subset, FS_CardinalityType DEF RefreshBounds
  <2>2. /\ q \in [1 .. k -> ready]
        /\ \A i, j \in 1 .. k : i # j => q[i] # q[j]
    BY <1>1 DEF SetToSeqs
  <2> HIDE DEF k
  <2>3. q \in Seq(ready) /\ Len(q) = k
    BY <2>1, <2>2, IsASeq
  <2>4. q \in Injection(1 .. k, ready)
    BY <2>2 DEF Injection, IsInjective
  <2>5. Cardinality(1 .. k) = k
    BY <2>1, FS_Interval
  <2>6. q \in Surjection(1 .. k, ready)
    BY <2>1, <2>4, <2>5, FS_Injection DEF k
  <2>7. \A t \in ready : \E i \in 1 .. k : q[i] = t
    BY <2>6 DEF Surjection
  <2>8. q \in Seq(Tasks)
    BY <2>3, SeqMonotonic
  <2>9. QED
    BY <2>3, <2>7, <2>8
<1>6. due \o q \in Seq(Tasks) /\ Planned(scheduler, w, due \o q)
  <2>1. due \in Seq(Tasks) /\ Len(due) \in Nat /\ Len(q) \in Nat
    BY <1>2, <1>5, LenProperties DEF TypeOK
  <2>2. /\ due \o q \in Seq(Tasks)
        /\ Len(due \o q) = Len(due) + Len(q)
        /\ \A i \in 1 .. Len(due) + Len(q) :
              (due \o q)[i] = IF i <= Len(due) THEN due[i] ELSE q[i - Len(due)]
    BY <1>5, <2>1, ConcatProperties
  <2>3. ASSUME NEW t \in Tasks, scheduler[t] > 0
        PROVE  w[t] > 0 \/ \E i \in 1 .. Len(due \o q) : (due \o q)[i] = t
    <3>1. CASE wait[t] > 1
      BY <1>4, <3>1
    <3>2. CASE wait[t] = 1
      <4>1. PICK i \in 1 .. Len(q) : q[i] = t
        BY <1>5, <3>2
      <4>2. (due \o q)[Len(due) + i] = t
        BY <2>1, <2>2, <4>1
      <4>3. Len(due) + i \in 1 .. Len(due \o q)
        BY <2>1, <2>2, <4>1
      <4>4. QED
        BY <4>2, <4>3
    <3>3. CASE wait[t] = 0
      <4>1. PICK i \in 1 .. Len(due) : due[i] = t
        BY <1>2, <2>3, <3>3 DEF Planned
      <4>2. i \in 1 .. Len(due \o q) /\ (due \o q)[i] = t
        BY <2>1, <2>2, <4>1
      <4>3. QED
        BY <4>2
    <3>4. QED
      BY <1>4, <3>1, <3>2, <3>3
  <2>4. QED
    BY <2>2, <2>3 DEF Planned
<1> HIDE DEF w, ready
<1>7. CASE running = NoTask
  <2>1. refreshing \in SUBSET Tasks /\ Dispatch(due \o q, w, refreshing)
    BY <1>1, <1>2, <1>7 DEF TypeOK
  <2>2. QED
    BY <1>2, <1>3, <1>4, <1>6, <2>1, DispatchKeeps, SchedulerIInv
<1>8. CASE running # NoTask
  <2>1. due' = due \o q /\ wait' = w /\ running' = running /\ refreshing' = refreshing
    BY <1>1, <1>8
  <2>2. /\ running' \in Tasks \union {NoTask} /\ refreshing' \subseteq Tasks
        /\ running' # NoTask /\ running' \in refreshing'
    BY <1>2, <1>8, <2>1 DEF TypeOK, NoTaskIsForgotten
  <2>3. QED
    BY <1>2, <1>3, <1>4, <1>6, <2>1, <2>2, SchedulerIInv
<1>9. QED
  BY <1>7, <1>8

\* When the scheduler's own task ends the next one is run; the end of a task of an
\* earlier scheduler changes nothing else.
LEMMA FinishIInv ==
    ASSUME RefreshBounds, IInv, NEW t \in Tasks, Finish(t) PROVE IInv'
<1>1. UNCHANGED <<config, setup, again, failed, scheduler, news, silent, changes, failures>>
  BY DEF Finish, setupVars
<1>2. TypeOK /\ NoTaskIsForgotten
  BY DEF IInv
<1>3. CASE running = t /\ scheduler \in Configs
  <2>1. /\ due \in Seq(Tasks) /\ wait \in [Tasks -> Nat]
        /\ refreshing \ {t} \in SUBSET Tasks
        /\ Planned(scheduler, wait, due)
        /\ Dispatch(due, wait, refreshing \ {t})
    BY <1>2, <1>3 DEF TypeOK, NoTaskIsForgotten, Finish, RefreshBounds
  <2>2. QED
    BY <1>1, <1>3, <2>1, DispatchKeeps, SchedulerIInv
<1>4. CASE running # t
  <2>1. refreshing' = refreshing \ {t} /\ UNCHANGED <<wait, due, running>>
    BY <1>4 DEF Finish
  <2>2. TypeOK'
    BY <1>1, <1>2, <2>1 DEF TypeOK
  <2>3. AnswerIsTrue' /\ SchedulerFollowsConfig' /\ NoTaskIsForgotten'
    BY <1>1, <1>4, <2>1
       DEF IInv, AnswerIsTrue, SchedulerFollowsConfig, NoTaskIsForgotten, Planned
  <2>4. QED
    BY <2>2, <2>3 DEF IInv
<1>5. QED
  <2>1. running = t => scheduler \in Configs
    BY <1>2 DEF TypeOK, NoTaskIsForgotten, NoTask, RefreshBounds
  <2>2. QED
    BY <1>3, <1>4, <2>1

----------------------------------------------------------------------------
LEMMA Inductive == ASSUME RefreshBounds PROVE IInv /\ [Next]_refreshVars => IInv'
<1> SUFFICES ASSUME IInv, [Next]_refreshVars PROVE IInv'
  OBVIOUS
<1>1. CASE \E c \in Configs : ChangeConfig(c)
  BY <1>1, ChangeConfigIInv
<1>2. CASE Announce
  BY <1>2, AnnounceIInv
<1>3. CASE Replies
  BY <1>3, AnswerIInv, BuildIInv DEF Replies
<1>4. CASE AnswerFails
  BY <1>4, AnswerFailsIInv
<1>5. CASE Tick
  BY <1>5, TickIInv
<1>6. CASE \E t \in Tasks : Finish(t)
  BY <1>6, FinishIInv
<1>7. CASE UNCHANGED refreshVars
  <2> USE <1>7 DEF refreshVars, setupVars, schedule
  <2>1. TypeOK' /\ AnswerIsTrue' /\ SchedulerFollowsConfig'
    BY DEF IInv, TypeOK, AnswerIsTrue, SchedulerFollowsConfig
  <2>2. NoTaskIsForgotten'
    BY DEF IInv, NoTaskIsForgotten, Planned
  <2>3. QED
    BY <2>1, <2>2 DEF IInv
<1>8. QED
  BY <1>1, <1>2, <1>3, <1>4, <1>5, <1>6, <1>7 DEF Next

\* In every state, the whole of what the argument needs.
THEOREM Invariance ==
    ASSUME RefreshBounds
    PROVE  Spec => []IInv
<1>1. Init => IInv
  BY InitIInv
<1>2. IInv /\ [Next]_refreshVars => IInv'
  BY Inductive
<1>3. QED
  BY <1>1, <1>2, PTL DEF Spec

\* Type correctness: the queue holds tasks, delays are numbers, and no more
\* changes are announced than there were.
THEOREM TypeCorrect ==
    ASSUME RefreshBounds
    PROVE  Spec => []TypeOK
<1>1. IInv => TypeOK
  BY DEF IInv
<1>2. QED
  BY Invariance, <1>1, PTL

\* No change of the configuration is lost between the set-ups of useAutoRefresh:
\* at rest, the scheduler is the one for the configuration.
THEOREM SchedulerFollows ==
    ASSUME RefreshBounds
    PROVE  Spec => []SchedulerFollowsConfig
<1>1. IInv => SchedulerFollowsConfig
  BY DEF IInv
<1>2. QED
  BY Invariance, <1>1, PTL

\* createAutoRefreshScheduler forgets no task: one that is on waits for its time
\* or is in the queue, the queue is not left standing, and what is taken to be
\* running does run.
THEOREM TasksArePlanned ==
    ASSUME RefreshBounds
    PROVE  Spec => []NoTaskIsForgotten
<1>1. IInv => NoTaskIsForgotten
  BY DEF IInv
<1>2. QED
  BY Invariance, <1>1, PTL

----------------------------------------------------------------------------
Operation ==
    [op : {"none", "show", "import", "switch", "delete", "current"}, who : SUBSET Accounts,
     pc : {"idle", "called", "served", "list", "listed", "not listed", "resolve", "resolved",
           "not resolved", "emit"},
     got : SUBSET Accounts, id : Accounts \union {None}]

\* A slot is free, or has an operation; a switch is to one account.
SlotTyped(o) ==
    /\ o.op = "none" <=> o = Resting
    /\ o.pc = "idle" <=> o = Resting
    /\ o.op = "switch" => \E a \in Accounts : o.who = {a}

StoreTypeOK ==
    /\ stored \subseteq Accounts /\ active \in Accounts \union {None}
    /\ shown \subseteq Accounts /\ current \in Accounts \union {None}
    /\ loading \in BOOLEAN /\ emptyList \in BOOLEAN /\ emptyCurrent \in BOOLEAN
    /\ crossed \in BOOLEAN
    /\ lister \in Slots \union {Nobody} /\ resolver \in Slots \union {Nobody}
    /\ ops \in [Slots -> Operation]
    /\ \A s \in Slots : SlotTyped(ops[s])
    /\ opsDone \in 0 .. MaxOps /\ mishaps \in 0 .. MaxOps

Deletes(s) == ops[s].op = "delete"
Lists(s) == lister = s /\ ops[s].pc \in {"list", "listed"}
Resolves(s) == resolver = s /\ ops[s].pc \in {"resolve", "resolved"}

\* The window is going to ask for the list once more, or has asked for it last.
MoreToCome == \E s \in Slots : ops[s].pc = "served"
FreshList == MoreToCome \/ \E s \in Slots : Lists(s)

\* What the deletion of the last accounts leaves behind if it overlaps something.
Forgotten == stored = {} /\ crossed

FlagsAreOwned ==
    /\ \A s \in Slots : ops[s].pc \notin {"not listed", "not resolved"}
    /\ loading => \E s \in Slots : Lists(s)
    /\ emptyList => \E s \in Slots : Deletes(s)

\* The window shows the list there is, or is going to.
ListIsTrue ==
    /\ \A s \in Slots : Lists(s) /\ ops[s].pc = "listed" => ops[s].got = stored \/ MoreToCome
    /\ shown = stored \/ FreshList \/ Forgotten

\* The current account is the one there is, or is going to be.
CurrentIsTrue ==
    /\ \A s \in Slots : Resolves(s) =>
          /\ ops[s].got = shown
          /\ ops[s].pc = "resolved" => ops[s].id = InBackend \/ FreshList \/ Forgotten
    /\ \/ current = InBackend \/ FreshList \/ (InBackend = None /\ crossed)
       \/ \E s \in Slots : Resolves(s)

\* A deletion that overlaps nothing finds the window true, and its answers count.
DeletionIsAlone ==
    ~crossed => \A s \in Slots : Deletes(s) =>
        /\ \A r \in Slots \ {s} : ops[r] = Resting
        /\ ops[s].pc = "called" =>
              /\ shown = stored /\ current = InBackend
              /\ emptyList = (shown \subseteq ops[s].who)
              /\ emptyCurrent = (current \in ops[s].who)
        /\ ops[s].pc \in {"list", "listed"} => lister = s
        /\ ops[s].pc = "listed" => ops[s].got = stored
        /\ ops[s].pc \in {"resolve", "resolved"} => resolver = s /\ shown = stored
        /\ ops[s].pc = "resolved" => ops[s].id = InBackend

\* The last accounts, and the current one, go by a deletion that expects it.
EmptyIsExpected ==
    ~crossed =>
        /\ stored = {} /\ shown # {} =>
              emptyList /\ \E s \in Slots :
                  Deletes(s) /\ ops[s].pc \in {"served", "list", "listed"}
        /\ stored = {} => \A s \in Slots : ops[s].pc = "listed" => ops[s].got = {}
        /\ InBackend = None /\ current # None =>
              emptyCurrent /\ \E s \in Slots :
                  /\ Deletes(s)
                  /\ ops[s].pc \in {"served", "list", "listed", "resolve", "resolved"}
        /\ InBackend = None => \A s \in Slots :
              /\ ops[s].pc = "resolved" => ops[s].id = None
              /\ ~(ops[s].op = "switch" /\ ops[s].pc = "served")

Untroubled ==
    /\ FlagsAreOwned /\ ListIsTrue /\ CurrentIsTrue
    /\ DeletionIsAlone /\ EmptyIsExpected

StoreInv == StoreTypeOK /\ (mishaps = 0 => Untroubled)

----------------------------------------------------------------------------
\* What becomes of the slots when an operation goes on.
LEMMA SlotSet ==
    ASSUME StoreTypeOK, NEW s \in Slots, NEW o \in Operation, Set(s, o), SlotTyped(o)
    PROVE  /\ ops' \in [Slots -> Operation] /\ \A r \in Slots : SlotTyped(ops'[r])
           /\ ops'[s] = o /\ \A r \in Slots \ {s} : ops'[r] = ops[r]
BY DEF StoreTypeOK, Set

\* The operations begin at their first steps.
LEMMA CallTyped ==
    ASSUME StoreTypeOK, StoreBounds, NEW s \in Slots,
           NEW op \in {"show", "import", "switch", "delete"}, NEW who \in SUBSET Accounts,
           NEW pc \in {"called", "served"},
           op = "switch" => \E a \in Accounts : who = {a},
           Call(s, op, who, pc), emptyList' \in BOOLEAN, emptyCurrent' \in BOOLEAN
    PROVE  /\ StoreTypeOK'
           /\ ops[s] = Resting /\ ops[s].pc = "idle" /\ ops[s].op = "none"
           /\ ops'[s].op = op /\ ops'[s].who = who /\ ops'[s].pc = pc
           /\ \A r \in Slots \ {s} : ops'[r] = ops[r]
           /\ crossed => crossed'
           /\ op = "delete" /\ ~crossed' => \A r \in Slots \ {s} : ops[r] = Resting
           /\ ~crossed' => \A r \in Slots \ {s} : ~Deletes(r)
           /\ UNCHANGED <<stored, active, shown, current, loading, lister, resolver, mishaps>>
<1> DEFINE o == [Resting EXCEPT !.op = op, !.who = who, !.pc = pc]
<1>1. /\ o \in Operation /\ SlotTyped(o)
      /\ o.op = op /\ o.who = who /\ o.pc = pc
  BY DEF Resting, Operation, SlotTyped
<1>2. /\ ops[s] = Resting /\ Set(s, o) /\ opsDone' \in 0 .. MaxOps
      /\ crossed' = \/ crossed
                    \/ Others(s) # {} /\ o.op = "delete"
                    \/ \E r \in Others(s) : ops[r].op = "delete"
      /\ UNCHANGED <<stored, active, shown, current, loading, lister, resolver, mishaps>>
  BY DEF Call, Begin, backend, StoreTypeOK, StoreBounds
<1> HIDE DEF o
<1>3. /\ ops' \in [Slots -> Operation] /\ \A r \in Slots : SlotTyped(ops'[r])
      /\ ops'[s] = o /\ \A r \in Slots \ {s} : ops'[r] = ops[r]
  BY <1>1, <1>2, SlotSet
<1>4. StoreTypeOK'
  BY <1>2, <1>3 DEF StoreTypeOK
<1>5. ops[s].pc = "idle" /\ ops[s].op = "none"
  BY <1>2 DEF Resting
<1>6. \A r \in Slots : ops[r] # Resting <=> ops[r].op # "none"
  BY DEF StoreTypeOK, SlotTyped
<1>7. Others(s) = {r \in Slots \ {s} : ops[r] # Resting}
  BY DEF Others
<1>8. QED
  BY <1>1, <1>2, <1>3, <1>4, <1>5, <1>6, <1>7 DEF Deletes

\* A call that deletes nothing disturbs nothing.
LEMMA CallSafe ==
    ASSUME StoreInv, StoreBounds, NEW s \in Slots,
           NEW op \in {"show", "import", "switch"}, NEW who \in SUBSET Accounts,
           NEW pc \in {"called", "served"}, op = "switch" => pc = "called",
           op = "switch" => \E a \in Accounts : who = {a},
           Call(s, op, who, pc), UNCHANGED flags
    PROVE  StoreInv'
<1>1. UNCHANGED <<emptyList, emptyCurrent>> /\ emptyList' \in BOOLEAN /\ emptyCurrent' \in BOOLEAN
  BY DEF flags, StoreInv, StoreTypeOK
<1>2. /\ StoreTypeOK'
      /\ ops[s].pc = "idle" /\ ops[s].op = "none"
      /\ ops'[s].op = op /\ ops'[s].pc = pc
      /\ \A r \in Slots \ {s} : ops'[r] = ops[r]
      /\ crossed => crossed'
      /\ ~crossed' => \A r \in Slots \ {s} : ~Deletes(r)
      /\ UNCHANGED <<stored, active, shown, current, loading, lister, resolver, mishaps>>
  BY <1>1, CallTyped DEF StoreInv
<1> SUFFICES ASSUME mishaps' = 0 PROVE Untroubled'
  BY <1>2 DEF StoreInv
<1>3. Untroubled
  BY <1>2 DEF StoreInv
<1>4. \A r \in Slots : /\ (Lists(r)' <=> Lists(r)) /\ (Resolves(r)' <=> Resolves(r))
                       /\ (Deletes(r)' <=> Deletes(r))
  <2>1. \A r \in Slots \ {s} : /\ (Lists(r)' <=> Lists(r)) /\ (Resolves(r)' <=> Resolves(r))
                               /\ (Deletes(r)' <=> Deletes(r))
    BY <1>2 DEF Lists, Resolves, Deletes
  <2>2. /\ ~Lists(s) /\ ~Resolves(s) /\ ~Deletes(s)
        /\ ~Lists(s)' /\ ~Resolves(s)' /\ ~Deletes(s)'
    BY <1>2 DEF Lists, Resolves, Deletes
  <2>3. QED
    BY <2>1, <2>2
<1>5. /\ MoreToCome => MoreToCome'
      /\ FreshList => FreshList'
      /\ Forgotten => Forgotten'
      /\ InBackend' = InBackend
  BY <1>2, <1>4 DEF MoreToCome, FreshList, Forgotten, InBackend
<1>6. FlagsAreOwned'
  BY <1>1, <1>2, <1>3, <1>4 DEF Untroubled, FlagsAreOwned
<1>7. ListIsTrue'
  BY <1>2, <1>3, <1>4, <1>5 DEF Untroubled, ListIsTrue, Lists
<1>8. CurrentIsTrue'
  BY <1>2, <1>3, <1>4, <1>5 DEF Untroubled, CurrentIsTrue, Resolves
<1>9. ~crossed' => \A r \in Slots : ~Deletes(r)
  BY <1>2 DEF Deletes
<1>10. DeletionIsAlone'
  BY <1>4, <1>9 DEF DeletionIsAlone
<1>11. EmptyIsExpected'
  BY <1>1, <1>2, <1>3, <1>5, <1>9 DEF Untroubled, EmptyIsExpected
<1>12. QED
  BY <1>6, <1>7, <1>8, <1>10, <1>11 DEF Untroubled

\* A window at rest is true, so a deletion that begins in one knows what it empties.
LEMMA DeleteSafe ==
    ASSUME StoreInv, StoreBounds, NEW s \in Slots, NEW S \in SUBSET Accounts, Delete(s, S)
    PROVE  StoreInv'
<1>1. /\ Call(s, "delete", S, "called")
      /\ emptyList' = (shown \subseteq S) /\ emptyCurrent' = (current \in S)
      /\ emptyList' \in BOOLEAN /\ emptyCurrent' \in BOOLEAN
  BY DEF Delete
<1>2. /\ StoreTypeOK'
      /\ ops[s].pc = "idle" /\ ops[s].op = "none" /\ ops[s] = Resting
      /\ ops'[s].op = "delete" /\ ops'[s].pc = "called" /\ ops'[s].who = S
      /\ \A r \in Slots \ {s} : ops'[r] = ops[r]
      /\ crossed => crossed'
      /\ ~crossed' => \A r \in Slots \ {s} : ops[r] = Resting
      /\ UNCHANGED <<stored, active, shown, current, loading, lister, resolver, mishaps>>
  BY <1>1, CallTyped DEF StoreInv
<1> SUFFICES ASSUME mishaps' = 0 PROVE Untroubled'
  BY <1>2 DEF StoreInv
<1>3. Untroubled
  BY <1>2 DEF StoreInv
<1>4. \A r \in Slots : (Lists(r)' <=> Lists(r)) /\ (Resolves(r)' <=> Resolves(r))
  <2>1. \A r \in Slots \ {s} : (Lists(r)' <=> Lists(r)) /\ (Resolves(r)' <=> Resolves(r))
    BY <1>2 DEF Lists, Resolves
  <2>2. ~Lists(s) /\ ~Resolves(s) /\ ~Lists(s)' /\ ~Resolves(s)'
    BY <1>2 DEF Lists, Resolves
  <2>3. QED
    BY <2>1, <2>2
<1>5. /\ MoreToCome => MoreToCome'
      /\ FreshList => FreshList'
      /\ Forgotten => Forgotten'
      /\ InBackend' = InBackend
  BY <1>2, <1>4 DEF MoreToCome, FreshList, Forgotten, InBackend
<1>6. Deletes(s)'
  BY <1>2 DEF Deletes
<1>7. FlagsAreOwned'
  BY <1>2, <1>3, <1>4, <1>6 DEF Untroubled, FlagsAreOwned
<1>8. ListIsTrue'
  BY <1>2, <1>3, <1>4, <1>5 DEF Untroubled, ListIsTrue, Lists
<1>9. CurrentIsTrue'
  BY <1>2, <1>3, <1>4, <1>5 DEF Untroubled, CurrentIsTrue, Resolves
<1>10. ASSUME ~crossed'
       PROVE  /\ \A r \in Slots \ {s} : ops'[r] = Resting
              /\ shown = stored /\ current = InBackend
  <2>1. \A r \in Slots : ops[r] = Resting /\ ops[r].pc = "idle"
    BY <1>2, <1>10
  <2>2. ~FreshList /\ \A r \in Slots : ~Resolves(r)
    BY <2>1 DEF FreshList, MoreToCome, Lists, Resolves
  <2>3. ~crossed
    BY <1>2, <1>10
  <2>4. shown = stored /\ current = InBackend
    BY <1>3, <2>2, <2>3 DEF Untroubled, ListIsTrue, CurrentIsTrue, Forgotten
  <2>5. QED
    BY <1>2, <2>1, <2>4
<1>11. \A r \in Slots \ {s} : ops'[r] = Resting => ~Deletes(r)' /\ ops'[r].pc = "idle"
  BY DEF Deletes, Resting
<1>12. DeletionIsAlone'
  BY <1>1, <1>2, <1>5, <1>10, <1>11 DEF DeletionIsAlone
<1>13. EmptyIsExpected'
  BY <1>2, <1>5, <1>10, <1>11 DEF EmptyIsExpected
<1>14. QED
  BY <1>7, <1>8, <1>9, <1>12, <1>13 DEF Untroubled

\* The current account alone is asked for: it is of the list that is shown.
LEMMA CurrentSafe ==
    ASSUME StoreInv, StoreBounds, NEW s \in Slots, Current(s)
    PROVE  StoreInv'
<1> DEFINE asks == [Resting EXCEPT !.op = "current", !.pc = "resolve", !.got = shown]
           o == IF shown = {} THEN Resting ELSE asks
<1>1. o \in Operation /\ SlotTyped(o)
  BY DEF StoreInv, StoreTypeOK, Resting, Operation, SlotTyped
<1>2. /\ o.op \in {"none", "current"}
      /\ shown = {} => o.pc = "idle" /\ current' = None /\ resolver' = Nobody
      /\ shown # {} => /\ o.pc = "resolve" /\ o.got = shown
                       /\ resolver' = s /\ current' = current
      /\ ops[s] = Resting /\ Set(s, o) /\ opsDone' \in 0 .. MaxOps
      /\ crossed' = \/ crossed
                    \/ Others(s) # {} /\ o.op = "delete"
                    \/ \E r \in Others(s) : ops[r].op = "delete"
      /\ UNCHANGED <<stored, active, shown, loading, lister, mishaps, emptyList, emptyCurrent>>
  <2>1. /\ Begin(s, o) /\ UNCHANGED flags
        /\ shown = {} => current' = None /\ resolver' = Nobody
        /\ shown # {} => resolver' = s /\ current' = current
    BY DEF Current
  <2>2. /\ o.op \in {"none", "current"}
        /\ shown = {} => o.pc = "idle"
        /\ shown # {} => o.pc = "resolve" /\ o.got = shown
    BY DEF Resting
  <2> HIDE DEF o
  <2>3. /\ ops[s] = Resting /\ Set(s, o) /\ opsDone' \in 0 .. MaxOps
        /\ crossed' = \/ crossed
                      \/ Others(s) # {} /\ o.op = "delete"
                      \/ \E r \in Others(s) : ops[r].op = "delete"
        /\ UNCHANGED <<stored, active, shown, loading, lister, mishaps, emptyList, emptyCurrent>>
    BY <2>1 DEF Begin, backend, flags, StoreInv, StoreTypeOK, StoreBounds
  <2>4. QED
    BY <2>1, <2>2, <2>3
<1> HIDE DEF o
<1>3. /\ ops' \in [Slots -> Operation] /\ \A r \in Slots : SlotTyped(ops'[r])
      /\ ops'[s] = o /\ \A r \in Slots \ {s} : ops'[r] = ops[r]
  BY <1>1, <1>2, SlotSet DEF StoreInv
<1>4. StoreTypeOK'
  BY <1>2, <1>3 DEF StoreInv, StoreTypeOK
<1> SUFFICES ASSUME mishaps' = 0 PROVE Untroubled'
  BY <1>4 DEF StoreInv
<1>5. Untroubled
  BY <1>2 DEF StoreInv
<1>6. ops[s].pc = "idle" /\ ops[s].op = "none"
  BY <1>2 DEF Resting
<1>7. \A r \in Slots : (Lists(r)' <=> Lists(r)) /\ (Deletes(r)' <=> Deletes(r))
  <2>1. \A r \in Slots \ {s} : (Lists(r)' <=> Lists(r)) /\ (Deletes(r)' <=> Deletes(r))
    BY <1>2, <1>3 DEF Lists, Deletes
  <2>2. ~Lists(s) /\ ~Deletes(s) /\ ~Lists(s)' /\ ~Deletes(s)'
    BY <1>2, <1>3, <1>6 DEF Lists, Deletes
  <2>3. QED
    BY <2>1, <2>2
<1>8. /\ MoreToCome => MoreToCome'
      /\ FreshList => FreshList'
      /\ Forgotten => Forgotten'
      /\ InBackend' = InBackend
  BY <1>2, <1>3, <1>6, <1>7 DEF MoreToCome, FreshList, Forgotten, InBackend
<1>9. FlagsAreOwned'
  BY <1>2, <1>3, <1>5, <1>7 DEF Untroubled, FlagsAreOwned
<1>10. ListIsTrue'
  BY <1>2, <1>3, <1>5, <1>7, <1>8 DEF Untroubled, ListIsTrue, Lists
<1>11. CurrentIsTrue'
  <2>1. CASE shown = {}
    <3>1. \A r \in Slots : ~Resolves(r)'
      BY <1>2, <2>1 DEF Resolves, StoreBounds
    <3>2. stored = {} => InBackend = None
      BY DEF InBackend
    <3>3. InBackend = None \/ FreshList \/ Forgotten
      BY <1>5, <2>1, <3>2 DEF Untroubled, ListIsTrue
    <3>4. Forgotten => InBackend = None /\ crossed'
      BY <1>2, <3>2 DEF Forgotten
    <3>5. QED
      BY <1>2, <1>8, <2>1, <3>1, <3>3, <3>4 DEF CurrentIsTrue
  <2>2. CASE shown # {}
    <3>1. Resolves(s)' /\ \A r \in Slots \ {s} : ~Resolves(r)'
      BY <1>2, <1>3, <2>2 DEF Resolves
    <3>2. ops'[s].got = shown' /\ ops'[s].pc = "resolve"
      BY <1>2, <1>3, <2>2
    <3>3. QED
      BY <3>1, <3>2 DEF CurrentIsTrue
  <2>3. QED
    BY <2>1, <2>2
<1>12. ~crossed' => ~crossed /\ \A r \in Slots : ~Deletes(r)
  <2>1. \A r \in Slots \ {s} : Deletes(r) => r \in Others(s) /\ ops[r].op = "delete"
    BY DEF Others, Deletes, Resting
  <2>2. QED
    BY <1>2, <1>6, <2>1 DEF Deletes
<1>13. DeletionIsAlone'
  BY <1>7, <1>12 DEF DeletionIsAlone
<1>14. EmptyIsExpected'
  BY <1>2, <1>3, <1>5, <1>8, <1>12 DEF Untroubled, EmptyIsExpected
<1>15. QED
  BY <1>9, <1>10, <1>11, <1>13, <1>14 DEF Untroubled

----------------------------------------------------------------------------
\* An operation goes on,
LEMMA GoesOn ==
    ASSUME StoreTypeOK, NEW s \in Slots, ops[s].pc # "idle",
           NEW o \in Operation, o.op = ops[s].op, o.who = ops[s].who, o.pc # "idle", Set(s, o)
    PROVE  /\ ops' \in [Slots -> Operation] /\ \A r \in Slots : SlotTyped(ops'[r])
           /\ ops'[s] = o /\ \A r \in Slots \ {s} : ops'[r] = ops[r]
           /\ \A r \in Slots : Deletes(r)' <=> Deletes(r)
           /\ ops[s] # Resting
<1>1. ops[s] # Resting /\ ops[s].op # "none" /\ SlotTyped(ops[s])
  BY DEF StoreTypeOK, SlotTyped
<1>2. o # Resting
  BY <1>1 DEF Resting
<1>3. SlotTyped(o)
  BY <1>1, <1>2 DEF SlotTyped
<1>4. /\ ops' \in [Slots -> Operation] /\ \A r \in Slots : SlotTyped(ops'[r])
      /\ ops'[s] = o /\ \A r \in Slots \ {s} : ops'[r] = ops[r]
  BY <1>3, SlotSet
<1>5. QED
  BY <1>1, <1>4 DEF Deletes

\* and is over, but for a deletion's event.
LEMMA GoesOut ==
    ASSUME StoreTypeOK, NEW s \in Slots, ops[s].pc # "idle", Set(s, After(ops[s]))
    PROVE  /\ ops' \in [Slots -> Operation] /\ \A r \in Slots : SlotTyped(ops'[r])
           /\ \A r \in Slots \ {s} : ops'[r] = ops[r]
           /\ \A r \in Slots : Deletes(r)' <=> Deletes(r)
           /\ ops'[s].pc \in {"idle", "emit"} /\ ops'[s].op \in {"none", "delete"}
           /\ ops[s] # Resting
<1>1. /\ After(ops[s]) \in Operation /\ SlotTyped(After(ops[s]))
      /\ After(ops[s]).pc \in {"idle", "emit"} /\ After(ops[s]).op \in {"none", "delete"}
      /\ After(ops[s]).op = "delete" <=> ops[s].op = "delete"
  BY DEF After, Operation, SlotTyped, Resting
<1>2. /\ ops' \in [Slots -> Operation] /\ \A r \in Slots : SlotTyped(ops'[r])
      /\ ops'[s] = After(ops[s]) /\ \A r \in Slots \ {s} : ops'[r] = ops[r]
  BY <1>1, SlotSet
<1>3. ops[s] # Resting
  BY DEF Resting
<1>4. QED
  BY <1>1, <1>2, <1>3 DEF Deletes

\* A deletion that overlaps nothing is the only operation.
LEMMA OnlyDeletion ==
    ASSUME DeletionIsAlone, ~crossed, NEW s \in Slots, ops[s] # Resting,
           NEW r \in Slots, Deletes(r)
    PROVE  r = s
BY DEF DeletionIsAlone

\* The backend does as it is told: the window will ask what came of it.
LEMMA ServeSafe ==
    ASSUME StoreInv, StoreBounds, NEW s \in Slots, Serve(s)
    PROVE  StoreInv'
<1> DEFINE o == [ops[s] EXCEPT !.pc = "served"]
<1>1. ops[s] \in Operation /\ ops[s].pc = "called" /\ SlotTyped(ops[s])
  BY DEF StoreInv, StoreTypeOK, Serve
<1>2. o \in Operation /\ o.op = ops[s].op /\ o.who = ops[s].who /\ o.pc = "served"
  BY <1>1 DEF Operation
<1>3. /\ Set(s, o)
      /\ UNCHANGED <<shown, current, loading, emptyList, emptyCurrent, lister, resolver,
                     crossed, opsDone, mishaps>>
  BY DEF Serve, view, flags, bounds
<1> HIDE DEF o
<1>4. /\ ops' \in [Slots -> Operation] /\ \A r \in Slots : SlotTyped(ops'[r])
      /\ ops'[s] = o /\ \A r \in Slots \ {s} : ops'[r] = ops[r]
      /\ \A r \in Slots : Deletes(r)' <=> Deletes(r)
      /\ ops[s] # Resting
  BY <1>1, <1>2, <1>3, GoesOn DEF StoreInv
<1>5. ops[s].op = "switch" =>
         /\ stored' = stored /\ active' \in stored
         /\ active' \in Accounts
  <2>1. ASSUME ops[s].op = "switch" PROVE \E a \in Accounts : ops[s].who = {a}
    BY <1>1, <2>1 DEF SlotTyped
  <2>2. ASSUME NEW a \in Accounts PROVE (CHOOSE x \in {a} : TRUE) = a
    OBVIOUS
  <2>3. ops[s].op = "switch" =>
           /\ stored' = stored /\ active' = (CHOOSE x \in ops[s].who : TRUE)
           /\ ops[s].who \subseteq stored
    BY DEF Serve
  <2>4. QED
    BY <2>1, <2>2, <2>3
<1>6. ops[s].op = "delete" => stored' = stored \ ops[s].who /\ active' = active
  BY DEF Serve
<1>7. ops[s].op \notin {"switch", "delete"} =>
         stored \subseteq stored' /\ stored' \subseteq Accounts /\ active' = active
  BY <1>1 DEF Serve, Operation, StoreInv, StoreTypeOK
<1>8. StoreTypeOK'
  BY <1>3, <1>4, <1>5, <1>6, <1>7 DEF StoreInv, StoreTypeOK
<1> SUFFICES ASSUME mishaps' = 0 PROVE Untroubled'
  BY <1>8 DEF StoreInv
<1>9. Untroubled
  BY <1>3 DEF StoreInv
<1>10. \A r \in Slots : (Lists(r)' <=> Lists(r)) /\ (Resolves(r)' <=> Resolves(r))
  <2>1. \A r \in Slots \ {s} : (Lists(r)' <=> Lists(r)) /\ (Resolves(r)' <=> Resolves(r))
    BY <1>3, <1>4 DEF Lists, Resolves
  <2>2. ~Lists(s) /\ ~Resolves(s) /\ ~Lists(s)' /\ ~Resolves(s)'
    BY <1>1, <1>2, <1>4 DEF Lists, Resolves
  <2>3. QED
    BY <2>1, <2>2
<1>11. MoreToCome' /\ FreshList'
  BY <1>2, <1>4 DEF MoreToCome, FreshList
<1>12. FlagsAreOwned'
  BY <1>2, <1>3, <1>4, <1>9, <1>10 DEF Untroubled, FlagsAreOwned
<1>13. ListIsTrue'
  BY <1>11 DEF ListIsTrue
<1>14. CurrentIsTrue'
  <2>1. ASSUME NEW r \in Slots, Resolves(r)' PROVE ops'[r].got = shown'
    <3>1. Resolves(r) /\ r # s
      BY <1>1, <1>10, <2>1 DEF Resolves
    <3>2. ops[r].got = shown
      BY <1>9, <3>1 DEF Untroubled, CurrentIsTrue
    <3>3. QED
      BY <1>3, <1>4, <3>1, <3>2
  <2>2. QED
    BY <1>11, <2>1 DEF CurrentIsTrue
<1>15. ASSUME ~crossed, NEW r \in Slots, Deletes(r) PROVE r = s
  BY <1>4, <1>9, <1>15, OnlyDeletion DEF Untroubled
<1>16. DeletionIsAlone'
  BY <1>2, <1>3, <1>4, <1>9, <1>15 DEF Untroubled, DeletionIsAlone
<1>17. None \notin stored /\ None \notin stored'
  BY <1>8 DEF StoreInv, StoreTypeOK, StoreBounds
<1>18. (InBackend = None <=> active \notin stored) /\ (InBackend' = None <=> active' \notin stored')
  BY <1>17 DEF InBackend
<1>19. ASSUME ~crossed PROVE EmptyIsExpected'
  <2>1. CASE ops[s].op = "delete"
    <3>1. /\ Deletes(s) /\ Deletes(s)'
          /\ \A r \in Slots \ {s} : ops'[r] = Resting
      BY <1>4, <1>9, <1>19, <2>1 DEF Untroubled, DeletionIsAlone, Deletes
    <3>2. /\ shown = stored /\ current = InBackend
          /\ emptyList = (shown \subseteq ops[s].who)
          /\ emptyCurrent = (current \in ops[s].who)
      BY <1>1, <1>9, <1>19, <3>1 DEF Untroubled, DeletionIsAlone
    <3>3. stored' = {} => emptyList'
      BY <1>3, <1>6, <2>1, <3>2
    <3>4. InBackend' = None /\ current # None => emptyCurrent'
      <4>1. current # None => current = active /\ active \in stored
        BY <3>2 DEF InBackend
      <4>2. QED
        BY <1>3, <1>6, <1>18, <2>1, <3>2, <4>1
    <3>5. \A r \in Slots : ops'[r].pc \notin {"listed", "resolved"} /\ ops'[r].op # "switch"
      BY <1>2, <1>4, <2>1, <3>1 DEF Resting
    <3>6. QED
      BY <1>2, <1>3, <1>4, <3>1, <3>3, <3>4, <3>5 DEF EmptyIsExpected
  <2>2. ASSUME ops[s].op # "delete" PROVE \A r \in Slots : ~Deletes(r)
    BY <1>15, <1>19, <2>2 DEF Deletes
  <2>3. CASE ops[s].op = "switch"
    <3>1. stored' # {} /\ InBackend' # None
      BY <1>5, <1>18, <2>3
    <3>2. QED
      BY <3>1 DEF EmptyIsExpected
  <2>4. CASE ops[s].op \notin {"switch", "delete"}
    <3>1. stored' = {} => stored = {}
      BY <1>7, <2>4
    <3>2. InBackend' = None => InBackend = None
      BY <1>7, <1>18, <2>4
    <3>3. \A r \in Slots : /\ ops'[r].pc = "listed" => ops'[r].got = ops[r].got /\ ops[r].pc = "listed"
                           /\ ops'[r].pc = "resolved" => ops'[r].id = ops[r].id /\ ops[r].pc = "resolved"
                           /\ ops'[r].op = "switch" /\ ops'[r].pc = "served" =>
                                 ops[r].op = "switch" /\ ops[r].pc = "served"
      BY <1>2, <1>4, <2>4
    <3>4. QED
      BY <1>3, <1>9, <1>19, <2>2, <2>4, <3>1, <3>2, <3>3 DEF Untroubled, EmptyIsExpected
  <2>5. QED
    BY <2>1, <2>3, <2>4
<1>20. EmptyIsExpected'
  BY <1>3, <1>19 DEF EmptyIsExpected
<1>21. QED
  BY <1>12, <1>13, <1>14, <1>16, <1>20 DEF Untroubled

\* What goes wrong is counted.
LEMMA Counted ==
    ASSUME StoreTypeOK, StoreBounds, Mishap \/ UNCHANGED mishaps
    PROVE  mishaps' \in 0 .. MaxOps /\ (mishaps' = 0 => mishaps = 0 /\ ~Mishap)
BY DEF StoreTypeOK, StoreBounds, Mishap

\* Without a mishap only a switch fails, whose account was deleted meanwhile.
LEMMA FailSafe ==
    ASSUME StoreInv, StoreBounds, NEW s \in Slots, Fail(s)
    PROVE  StoreInv'
<1>1. /\ ops[s] \in Operation /\ ops[s].pc = "called" /\ Set(s, Resting)
      /\ emptyList' \in BOOLEAN /\ emptyCurrent' \in BOOLEAN
      /\ UNCHANGED <<stored, active, shown, current, loading, lister, resolver, crossed,
                     opsDone>>
  BY DEF StoreInv, StoreTypeOK, Fail, view, backend, flags
<1>2. Mishap \/ UNCHANGED mishaps
  BY DEF Fail
<1>3. Resting \in Operation /\ SlotTyped(Resting) /\ Resting.pc = "idle" /\ Resting.op = "none"
  BY DEF Resting, Operation, SlotTyped
<1>4. /\ ops' \in [Slots -> Operation] /\ \A r \in Slots : SlotTyped(ops'[r])
      /\ ops'[s] = Resting /\ \A r \in Slots \ {s} : ops'[r] = ops[r]
  BY <1>1, <1>3, SlotSet DEF StoreInv
<1>5. mishaps' \in 0 .. MaxOps /\ (mishaps' = 0 => mishaps = 0 /\ ~Mishap)
  BY <1>2, Counted DEF StoreInv
<1>6. StoreTypeOK'
  BY <1>1, <1>4, <1>5 DEF StoreInv, StoreTypeOK
<1> SUFFICES ASSUME mishaps' = 0 PROVE Untroubled'
  BY <1>6 DEF StoreInv
<1>7. Untroubled
  BY <1>5 DEF StoreInv
<1>8. ops[s].op = "switch" /\ UNCHANGED <<emptyList, emptyCurrent>>
  BY <1>5 DEF Fail, flags
<1>9. \A r \in Slots : /\ Lists(r)' <=> Lists(r)
                       /\ Resolves(r)' <=> Resolves(r)
                       /\ Deletes(r)' <=> Deletes(r)
  <2>1. \A r \in Slots \ {s} : /\ Lists(r)' <=> Lists(r)
                               /\ Resolves(r)' <=> Resolves(r)
                               /\ Deletes(r)' <=> Deletes(r)
    BY <1>1, <1>4 DEF Lists, Resolves, Deletes
  <2>2. /\ ~Lists(s) /\ ~Resolves(s) /\ ~Deletes(s)
        /\ ~Lists(s)' /\ ~Resolves(s)' /\ ~Deletes(s)'
    BY <1>1, <1>3, <1>4, <1>8 DEF Lists, Resolves, Deletes
  <2>3. QED
    BY <2>1, <2>2
<1>10. /\ MoreToCome => MoreToCome'
       /\ FreshList => FreshList'
       /\ Forgotten => Forgotten'
       /\ InBackend' = InBackend
  BY <1>1, <1>4, <1>9 DEF MoreToCome, FreshList, Forgotten, InBackend
<1>11. FlagsAreOwned'
  BY <1>3, <1>4, <1>1, <1>7, <1>8, <1>9 DEF Untroubled, FlagsAreOwned
<1>12. ListIsTrue'
  BY <1>1, <1>3, <1>4, <1>7, <1>9, <1>10 DEF Untroubled, ListIsTrue
<1>13. CurrentIsTrue'
  BY <1>1, <1>3, <1>4, <1>7, <1>9, <1>10 DEF Untroubled, CurrentIsTrue, Resolves
<1>14. ~crossed => \A r \in Slots : ~Deletes(r)
  <2>1. ops[s] # Resting /\ ~Deletes(s)
    BY <1>1, <1>3, <1>8 DEF Deletes
  <2>2. QED
    BY <1>7, <2>1, OnlyDeletion DEF Untroubled
<1>15. DeletionIsAlone'
  BY <1>1, <1>9, <1>14 DEF DeletionIsAlone
<1>16. EmptyIsExpected'
  BY <1>1, <1>3, <1>4, <1>7, <1>8, <1>10, <1>14 DEF Untroubled, EmptyIsExpected
<1>17. QED
  BY <1>11, <1>12, <1>13, <1>15, <1>16 DEF Untroubled

\* The list is asked for, after everything the backend has done for the window so far.
LEMMA FetchAccountsSafe ==
    ASSUME StoreInv, StoreBounds, NEW s \in Slots, FetchAccounts(s)
    PROVE  StoreInv'
<1> DEFINE o == [ops[s] EXCEPT !.pc = "list"]
<1>1. ops[s] \in Operation /\ ops[s].pc = "served" /\ SlotTyped(ops[s])
  BY DEF StoreInv, StoreTypeOK, FetchAccounts
<1>2. o \in Operation /\ o.op = ops[s].op /\ o.who = ops[s].who /\ o.pc = "list"
  BY <1>1 DEF Operation
<1>3. /\ Set(s, o) /\ lister' = s /\ loading' = TRUE
      /\ UNCHANGED <<stored, active, shown, emptyList, emptyCurrent, crossed, opsDone, mishaps>>
  BY DEF FetchAccounts, backend, flags, bounds
<1> HIDE DEF o
<1>4. /\ ops' \in [Slots -> Operation] /\ \A r \in Slots : SlotTyped(ops'[r])
      /\ ops'[s] = o /\ \A r \in Slots \ {s} : ops'[r] = ops[r]
      /\ \A r \in Slots : Deletes(r)' <=> Deletes(r)
      /\ ops[s] # Resting
  BY <1>1, <1>2, <1>3, GoesOn DEF StoreInv
<1>5. /\ ops[s].op # "switch" => UNCHANGED <<resolver, current>>
      /\ resolver' \in {resolver, Nobody}
      /\ current' \in Accounts \union {None}
  <2>1. CASE ops[s].op = "switch"
    <3>1. PICK a \in Accounts : ops[s].who = {a}
      BY <1>1, <2>1 DEF SlotTyped
    <3>2. (CHOOSE x \in {a} : TRUE) = a
      OBVIOUS
    <3>3. resolver' = Nobody /\ current' = Known(a, shown)
      BY <2>1, <3>1, <3>2 DEF FetchAccounts
    <3>4. QED
      BY <2>1, <3>3 DEF Known
  <2>2. CASE ops[s].op # "switch"
    BY <2>2 DEF FetchAccounts, StoreInv, StoreTypeOK
  <2>3. QED
    BY <2>1, <2>2
<1>6. StoreTypeOK'
  BY <1>3, <1>4, <1>5 DEF StoreInv, StoreTypeOK
<1> SUFFICES ASSUME mishaps' = 0 PROVE Untroubled'
  BY <1>6 DEF StoreInv
<1>7. Untroubled
  BY <1>3 DEF StoreInv
<1>8. Lists(s)' /\ \A r \in Slots \ {s} : ~Lists(r)'
  BY <1>2, <1>3, <1>4 DEF Lists
<1>9. FreshList'
  BY <1>8 DEF FreshList
<1>10. FlagsAreOwned'
  BY <1>2, <1>3, <1>4, <1>7, <1>8 DEF Untroubled, FlagsAreOwned
<1>11. ListIsTrue'
  BY <1>2, <1>4, <1>8, <1>9 DEF ListIsTrue
<1>12. CurrentIsTrue'
  <2>1. ASSUME NEW r \in Slots, Resolves(r)' PROVE ops'[r].got = shown'
    <3>1. r # s
      BY <1>2, <1>4, <2>1 DEF Resolves
    <3>2. Resolves(r)
      BY <1>4, <1>5, <2>1, <3>1 DEF Resolves, StoreBounds
    <3>3. ops[r].got = shown
      BY <1>7, <3>2 DEF Untroubled, CurrentIsTrue
    <3>4. QED
      BY <1>3, <1>4, <3>1, <3>3
  <2>2. QED
    BY <1>9, <2>1 DEF CurrentIsTrue
<1>13. ASSUME ~crossed, NEW r \in Slots, Deletes(r) PROVE r = s
  BY <1>4, <1>7, <1>13, OnlyDeletion DEF Untroubled
<1>14. DeletionIsAlone'
  BY <1>2, <1>3, <1>4, <1>7, <1>13 DEF Untroubled, DeletionIsAlone
<1>15. InBackend' = InBackend
  BY <1>3 DEF InBackend
<1>16. ASSUME ~crossed PROVE EmptyIsExpected'
  <2>1. \A r \in Slots : /\ ops'[r].pc = "listed" => ops'[r].got = ops[r].got /\ ops[r].pc = "listed"
                         /\ ops'[r].pc = "resolved" => ops'[r].id = ops[r].id /\ ops[r].pc = "resolved"
                         /\ ops'[r].op = "switch" /\ ops'[r].pc = "served" =>
                               ops[r].op = "switch" /\ ops[r].pc = "served"
    BY <1>2, <1>4
  <2>2. InBackend = None => current' = current
    BY <1>1, <1>5, <1>7, <1>16 DEF Untroubled, EmptyIsExpected
  <2>3. ops'[s].pc = "list"
    BY <1>2, <1>4
  <2>4. stored' = {} /\ shown' # {} =>
            emptyList' /\ \E r \in Slots : Deletes(r)' /\ ops'[r].pc \in {"served", "list", "listed"}
    BY <1>3, <1>4, <1>7, <1>13, <1>16, <2>3 DEF Untroubled, EmptyIsExpected
  <2>5. InBackend' = None /\ current' # None =>
            emptyCurrent' /\ \E r \in Slots :
                Deletes(r)' /\ ops'[r].pc \in {"served", "list", "listed", "resolve", "resolved"}
    BY <1>3, <1>4, <1>7, <1>13, <1>15, <1>16, <2>2, <2>3 DEF Untroubled, EmptyIsExpected
  <2>6. stored' = {} => \A r \in Slots : ops'[r].pc = "listed" => ops'[r].got = {}
    BY <1>3, <1>7, <1>16, <2>1 DEF Untroubled, EmptyIsExpected
  <2>7. InBackend' = None => \A r \in Slots :
            /\ ops'[r].pc = "resolved" => ops'[r].id = None
            /\ ~(ops'[r].op = "switch" /\ ops'[r].pc = "served")
    BY <1>7, <1>15, <1>16, <2>1 DEF Untroubled, EmptyIsExpected
  <2>8. QED
    BY <2>4, <2>5, <2>6, <2>7 DEF EmptyIsExpected
<1>17. EmptyIsExpected'
  BY <1>3, <1>16 DEF EmptyIsExpected
<1>18. QED
  BY <1>10, <1>11, <1>12, <1>14, <1>17 DEF Untroubled

\* The list is read.
LEMMA ListSafe ==
    ASSUME StoreInv, StoreBounds, NEW s \in Slots, List(s)
    PROVE  StoreInv'
<1>1. ops[s] \in Operation /\ ops[s].pc = "list" /\ SlotTyped(ops[s])
  BY DEF StoreInv, StoreTypeOK, List
<1>2. UNCHANGED <<stored, active, shown, current, loading, emptyList, emptyCurrent, lister,
                  resolver, crossed, opsDone>>
  BY DEF List, backend, view, flags
<1>3. PICK o \in Operation :
         /\ o.op = ops[s].op /\ o.who = ops[s].who /\ Set(s, o)
         /\ \/ o.pc = "listed" /\ o.got = stored /\ UNCHANGED mishaps
            \/ o.pc \in {"listed", "not listed"} /\ Mishap
  <2>1. ASSUME Set(s, [ops[s] EXCEPT !.pc = "listed", !.got = stored]), UNCHANGED mishaps
        PROVE  \E o \in Operation :
                  /\ o.op = ops[s].op /\ o.who = ops[s].who /\ Set(s, o)
                  /\ o.pc = "listed" /\ o.got = stored /\ UNCHANGED mishaps
    <3> DEFINE o == [ops[s] EXCEPT !.pc = "listed", !.got = stored]
    <3>1. /\ o \in Operation /\ o.op = ops[s].op /\ o.who = ops[s].who
          /\ o.pc = "listed" /\ o.got = stored
      BY <1>1 DEF Operation, StoreInv, StoreTypeOK
    <3> HIDE DEF o
    <3>2. Set(s, o)
      BY <2>1 DEF o
    <3>3. QED
      BY <2>1, <3>1, <3>2
  <2>2. ASSUME Set(s, [ops[s] EXCEPT !.pc = "listed", !.got = {}]), Mishap
        PROVE  \E o \in Operation :
                  o.op = ops[s].op /\ o.who = ops[s].who /\ Set(s, o) /\ o.pc = "listed"
    <3> DEFINE o == [ops[s] EXCEPT !.pc = "listed", !.got = {}]
    <3>1. o \in Operation /\ o.op = ops[s].op /\ o.who = ops[s].who /\ o.pc = "listed"
      BY <1>1 DEF Operation
    <3> HIDE DEF o
    <3>2. Set(s, o)
      BY <2>2 DEF o
    <3>3. QED
      BY <3>1, <3>2
  <2>3. ASSUME Set(s, [ops[s] EXCEPT !.pc = "not listed"]), Mishap
        PROVE  \E o \in Operation :
                  o.op = ops[s].op /\ o.who = ops[s].who /\ Set(s, o) /\ o.pc = "not listed"
    <3> DEFINE o == [ops[s] EXCEPT !.pc = "not listed"]
    <3>1. o \in Operation /\ o.op = ops[s].op /\ o.who = ops[s].who /\ o.pc = "not listed"
      BY <1>1 DEF Operation
    <3> HIDE DEF o
    <3>2. Set(s, o)
      BY <2>3 DEF o
    <3>3. QED
      BY <3>1, <3>2
  <2>4. QED
    BY <2>1, <2>2, <2>3 DEF List
<1>4. /\ ops' \in [Slots -> Operation] /\ \A r \in Slots : SlotTyped(ops'[r])
      /\ ops'[s] = o /\ \A r \in Slots \ {s} : ops'[r] = ops[r]
      /\ \A r \in Slots : Deletes(r)' <=> Deletes(r)
      /\ ops[s] # Resting
  <2>1. o.pc # "idle" /\ ops[s].pc # "idle"
    BY <1>1, <1>3
  <2>2. QED
    BY <1>3, <2>1, GoesOn DEF StoreInv
<1>5. mishaps' \in 0 .. MaxOps /\ (mishaps' = 0 => mishaps = 0 /\ ~Mishap)
  BY <1>3, Counted DEF StoreInv
<1>6. StoreTypeOK'
  BY <1>2, <1>4, <1>5 DEF StoreInv, StoreTypeOK
<1> SUFFICES ASSUME mishaps' = 0 PROVE Untroubled'
  BY <1>6 DEF StoreInv
<1>7. Untroubled
  BY <1>5 DEF StoreInv
<1>8. ops'[s].pc = "listed" /\ ops'[s].got = stored /\ ops'[s].op = ops[s].op
  BY <1>3, <1>4, <1>5
<1>9. \A r \in Slots : (Lists(r)' <=> Lists(r)) /\ (Resolves(r)' <=> Resolves(r))
  BY <1>1, <1>2, <1>4, <1>8 DEF Lists, Resolves
<1>10. /\ MoreToCome' <=> MoreToCome
       /\ FreshList' <=> FreshList
       /\ Forgotten' <=> Forgotten
       /\ InBackend' = InBackend
  BY <1>1, <1>2, <1>4, <1>8, <1>9 DEF MoreToCome, FreshList, Forgotten, InBackend
<1>11. FlagsAreOwned'
  BY <1>2, <1>4, <1>7, <1>8, <1>9 DEF Untroubled, FlagsAreOwned
<1>12. ListIsTrue'
  BY <1>2, <1>4, <1>7, <1>8, <1>9, <1>10 DEF Untroubled, ListIsTrue
<1>13. CurrentIsTrue'
  <2>1. ~Resolves(s)
    BY <1>1 DEF Resolves
  <2>2. QED
    BY <1>2, <1>4, <1>7, <1>9, <1>10, <2>1 DEF Untroubled, CurrentIsTrue
<1>14. ASSUME ~crossed, NEW r \in Slots, Deletes(r) PROVE r = s
  BY <1>4, <1>7, <1>14, OnlyDeletion DEF Untroubled
<1>15. DeletionIsAlone'
  BY <1>1, <1>2, <1>4, <1>7, <1>8, <1>14 DEF Untroubled, DeletionIsAlone
<1>16. EmptyIsExpected'
  BY <1>1, <1>2, <1>4, <1>7, <1>8, <1>10 DEF Untroubled, EmptyIsExpected
<1>17. QED
  BY <1>11, <1>12, <1>13, <1>15, <1>16 DEF Untroubled

\* An answer that comes too late is left alone; it is no lone deletion's.
LEMMA LeavesSafe ==
    ASSUME StoreInv, StoreBounds, NEW s \in Slots, Set(s, After(ops[s])),
           \/ ops[s].pc \in {"listed", "not listed"} /\ lister # s
           \/ ops[s].pc \in {"resolved", "not resolved"} /\ resolver # s,
           emptyList' \in {emptyList, FALSE},
           UNCHANGED <<stored, active, shown, current, loading, emptyCurrent, lister,
                       resolver, crossed, opsDone, mishaps>>
    PROVE  StoreInv'
<1>1. /\ ops' \in [Slots -> Operation] /\ \A r \in Slots : SlotTyped(ops'[r])
      /\ \A r \in Slots \ {s} : ops'[r] = ops[r]
      /\ \A r \in Slots : Deletes(r)' <=> Deletes(r)
      /\ ops'[s].pc \in {"idle", "emit"} /\ ops'[s].op \in {"none", "delete"}
      /\ ops[s] # Resting
  <2>1. ops[s].pc # "idle"
    OBVIOUS
  <2>2. QED
    BY <2>1, GoesOut DEF StoreInv
<1>2. StoreTypeOK'
  BY <1>1 DEF StoreInv, StoreTypeOK
<1> SUFFICES ASSUME mishaps' = 0 PROVE Untroubled'
  BY <1>2 DEF StoreInv
<1>3. Untroubled
  BY DEF StoreInv
<1>4. \A r \in Slots : (Lists(r)' <=> Lists(r)) /\ (Resolves(r)' <=> Resolves(r))
  <2>1. ~Lists(s) /\ ~Resolves(s) /\ ~Lists(s)' /\ ~Resolves(s)'
    BY <1>1 DEF Lists, Resolves
  <2>2. \A r \in Slots \ {s} : (Lists(r)' <=> Lists(r)) /\ (Resolves(r)' <=> Resolves(r))
    BY <1>1 DEF Lists, Resolves
  <2>3. QED
    BY <2>1, <2>2
<1>5. /\ MoreToCome' <=> MoreToCome
      /\ FreshList' <=> FreshList
      /\ Forgotten' <=> Forgotten
      /\ InBackend' = InBackend
  BY <1>1, <1>4 DEF MoreToCome, FreshList, Forgotten, InBackend
<1>6. FlagsAreOwned'
  <2>1. emptyList' => emptyList
    OBVIOUS
  <2>2. loading' => \E r \in Slots : Lists(r)'
    BY <1>3, <1>4 DEF Untroubled, FlagsAreOwned
  <2>3. emptyList' => \E r \in Slots : Deletes(r)'
    BY <1>1, <1>3, <2>1 DEF Untroubled, FlagsAreOwned
  <2>4. \A r \in Slots : ops'[r].pc \notin {"not listed", "not resolved"}
    BY <1>1, <1>3 DEF Untroubled, FlagsAreOwned
  <2>5. QED
    BY <2>2, <2>3, <2>4 DEF FlagsAreOwned
<1>7. ListIsTrue'
  BY <1>1, <1>3, <1>4, <1>5 DEF Untroubled, ListIsTrue
<1>8. CurrentIsTrue'
  <2>1. ~Resolves(s)
    BY DEF Resolves
  <2>2. QED
    BY <1>1, <1>3, <1>4, <1>5, <2>1 DEF Untroubled, CurrentIsTrue
<1>9. ASSUME ~crossed, NEW r \in Slots, Deletes(r) PROVE FALSE
  <2>1. r = s
    BY <1>1, <1>3, <1>9, OnlyDeletion DEF Untroubled
  <2>2. ops[s].pc \in {"listed", "resolved"}
    BY <1>3 DEF Untroubled, FlagsAreOwned
  <2>3. QED
    BY <1>3, <1>9, <2>1, <2>2 DEF Untroubled, DeletionIsAlone
<1>10. DeletionIsAlone'
  BY <1>1, <1>9 DEF DeletionIsAlone
<1>11. EmptyIsExpected'
  BY <1>1, <1>3, <1>5, <1>9 DEF Untroubled, EmptyIsExpected
<1>12. QED
  BY <1>6, <1>7, <1>8, <1>10, <1>11 DEF Untroubled

LEMMA LateSafe ==
    ASSUME StoreInv, StoreBounds, NEW s \in Slots, Late(s) \/ ResolvedLate(s)
    PROVE  StoreInv'
<1>1. CASE Late(s)
  <2>1. /\ Set(s, After(ops[s])) /\ ops[s].pc \in {"listed", "not listed"} /\ lister # s
        /\ emptyList' = emptyList
        /\ UNCHANGED <<stored, active, shown, current, loading, emptyCurrent, lister,
                       resolver, crossed, opsDone, mishaps>>
    BY <1>1 DEF Late, backend, view, flags, bounds
  <2>2. QED
    BY <2>1, LeavesSafe
<1>2. CASE ResolvedLate(s)
  <2>1. /\ Set(s, After(ops[s])) /\ ops[s].pc \in {"resolved", "not resolved"} /\ resolver # s
        /\ emptyList' \in {emptyList, FALSE}
        /\ UNCHANGED <<stored, active, shown, current, loading, emptyCurrent, lister,
                       resolver, crossed, opsDone, mishaps>>
    BY <1>2 DEF ResolvedLate, Ended, backend, view, bounds
  <2>2. QED
    BY <2>1, LeavesSafe
<1>3. QED
  BY <1>1, <1>2

\* An empty list that is not expected is the truth only after an overlap.
LEMMA IgnoredSafe ==
    ASSUME StoreInv, StoreBounds, NEW s \in Slots, Ignored(s)
    PROVE  StoreInv'
<1>1. /\ Set(s, After(ops[s])) /\ lister = s /\ ~loading' /\ ~emptyList'
      /\ ops[s].pc \in {"listed", "not listed"}
      /\ ops[s].pc = "listed" => ops[s].got = {} /\ shown # {} /\ ~emptyList
      /\ loading' \in BOOLEAN /\ emptyList' \in BOOLEAN
      /\ UNCHANGED <<stored, active, shown, current, emptyCurrent, lister, resolver, crossed,
                     opsDone, mishaps>>
  BY DEF Ignored, backend, bounds
<1>2. /\ ops' \in [Slots -> Operation] /\ \A r \in Slots : SlotTyped(ops'[r])
      /\ \A r \in Slots \ {s} : ops'[r] = ops[r]
      /\ \A r \in Slots : Deletes(r)' <=> Deletes(r)
      /\ ops'[s].pc \in {"idle", "emit"} /\ ops'[s].op \in {"none", "delete"}
      /\ ops[s] # Resting
  <2>1. ops[s].pc # "idle"
    BY <1>1
  <2>2. QED
    BY <1>1, <2>1, GoesOut DEF StoreInv
<1>3. StoreTypeOK'
  BY <1>1, <1>2 DEF StoreInv, StoreTypeOK
<1> SUFFICES ASSUME mishaps' = 0 PROVE Untroubled'
  BY <1>3 DEF StoreInv
<1>4. Untroubled
  BY <1>1 DEF StoreInv
<1>5. ops[s].pc = "listed" /\ ops[s].got = {} /\ shown # {} /\ ~emptyList
  BY <1>1, <1>4 DEF Untroubled, FlagsAreOwned
<1>6. \A r \in Slots : ~Lists(r)' /\ (Resolves(r)' <=> Resolves(r))
  <2>1. ~Resolves(s) /\ ~Lists(s)' /\ ~Resolves(s)'
    BY <1>2, <1>5 DEF Lists, Resolves
  <2>2. \A r \in Slots \ {s} : ~Lists(r)' /\ (Resolves(r)' <=> Resolves(r))
    BY <1>1, <1>2 DEF Lists, Resolves
  <2>3. QED
    BY <2>1, <2>2
<1>7. (MoreToCome' <=> MoreToCome) /\ InBackend' = InBackend
  BY <1>1, <1>2, <1>5 DEF MoreToCome, InBackend
<1>8. MoreToCome \/ Forgotten
  <2>1. stored = {} \/ MoreToCome
    BY <1>1, <1>4, <1>5 DEF Untroubled, ListIsTrue, Lists
  <2>2. stored = {} => crossed
    BY <1>4, <1>5 DEF Untroubled, EmptyIsExpected
  <2>3. QED
    BY <2>1, <2>2 DEF Forgotten
<1>9. FreshList' \/ Forgotten'
  BY <1>1, <1>7, <1>8 DEF FreshList, Forgotten
<1>10. ASSUME ~crossed, NEW r \in Slots, Deletes(r) PROVE FALSE
  <2>1. r = s
    BY <1>2, <1>4, <1>10, OnlyDeletion DEF Untroubled
  <2>2. \A q \in Slots \ {s} : ops[q] = Resting
    BY <1>4, <1>10, <2>1 DEF Untroubled, DeletionIsAlone
  <2>3. ~MoreToCome
    BY <1>5, <2>2 DEF MoreToCome, Resting
  <2>4. QED
    BY <1>8, <1>10, <2>3 DEF Forgotten
<1>11. FlagsAreOwned'
  BY <1>1, <1>2, <1>4 DEF Untroubled, FlagsAreOwned
<1>12. ListIsTrue'
  BY <1>6, <1>9 DEF ListIsTrue
<1>13. CurrentIsTrue'
  <2>1. Forgotten' => InBackend' = None /\ crossed'
    BY DEF Forgotten, InBackend
  <2>2. ASSUME NEW r \in Slots, Resolves(r)' PROVE ops'[r].got = shown'
    <3>1. Resolves(r) /\ r # s
      BY <1>5, <1>6, <2>2 DEF Resolves
    <3>2. ops[r].got = shown
      BY <1>4, <3>1 DEF Untroubled, CurrentIsTrue
    <3>3. QED
      BY <1>1, <1>2, <3>1, <3>2
  <2>3. QED
    BY <1>9, <2>1, <2>2 DEF CurrentIsTrue
<1>14. DeletionIsAlone'
  BY <1>1, <1>2, <1>10 DEF DeletionIsAlone
<1>15. EmptyIsExpected'
  BY <1>1, <1>2, <1>4, <1>7, <1>10 DEF Untroubled, EmptyIsExpected
<1>16. QED
  BY <1>11, <1>12, <1>13, <1>14, <1>15 DEF Untroubled

\* The list asked for last is shown; if it has accounts, the current one is asked for.
LEMMA ListedSafe ==
    ASSUME StoreInv, StoreBounds, NEW s \in Slots, Listed(s)
    PROVE  StoreInv'
<1> DEFINE o == [ops[s] EXCEPT !.pc = "resolve"]
<1>1. /\ ops[s] \in Operation /\ ops[s].pc = "listed" /\ lister = s
      /\ shown' = ops[s].got /\ ~loading' /\ ~emptyList'
      /\ loading' \in BOOLEAN /\ emptyList' \in BOOLEAN
      /\ UNCHANGED <<stored, active, emptyCurrent, lister, crossed, opsDone, mishaps>>
  BY DEF StoreInv, StoreTypeOK, Listed, Accept, backend, bounds
<1>2. /\ shown' = {} => current' = None /\ resolver' = Nobody /\ Set(s, After(ops[s]))
      /\ shown' # {} => resolver' = s /\ Set(s, o) /\ current' = current
  BY DEF Listed, Accept
<1>3. /\ o \in Operation /\ o.op = ops[s].op /\ o.who = ops[s].who
      /\ o.pc = "resolve" /\ o.got = ops[s].got
  BY <1>1 DEF Operation
<1> HIDE DEF o
<1>4. /\ ops' \in [Slots -> Operation] /\ \A r \in Slots : SlotTyped(ops'[r])
      /\ \A r \in Slots \ {s} : ops'[r] = ops[r]
      /\ \A r \in Slots : Deletes(r)' <=> Deletes(r)
      /\ ops[s] # Resting
      /\ shown' = {} => ops'[s].pc \in {"idle", "emit"} /\ ops'[s].op \in {"none", "delete"}
      /\ shown' # {} => ops'[s] = o
  <2>1. CASE shown' = {}
    BY <1>1, <1>2, <2>1, GoesOut DEF StoreInv
  <2>2. CASE shown' # {}
    BY <1>1, <1>2, <1>3, <2>2, GoesOn DEF StoreInv
  <2>3. QED
    BY <2>1, <2>2
<1>5. shown' \subseteq Accounts
  BY <1>1 DEF Operation
<1>6. StoreTypeOK'
  <2>1. current' \in Accounts \union {None} /\ resolver' \in Slots \union {Nobody}
    BY <1>2 DEF StoreInv, StoreTypeOK
  <2>2. QED
    BY <1>1, <1>4, <1>5, <2>1 DEF StoreInv, StoreTypeOK
<1> SUFFICES ASSUME mishaps' = 0 PROVE Untroubled'
  BY <1>6 DEF StoreInv
<1>7. Untroubled
  BY <1>1 DEF StoreInv
<1>8. shown' = stored \/ MoreToCome
  BY <1>1, <1>7 DEF Untroubled, ListIsTrue, Lists
<1>9. /\ ops'[s].pc \in {"idle", "emit", "resolve"}
      /\ ops'[s].op = "switch" => ops[s].op = "switch"
  BY <1>3, <1>4
<1>10. \A r \in Slots : ~Lists(r)'
  BY <1>1, <1>4, <1>9 DEF Lists
<1>11. (MoreToCome' <=> MoreToCome) /\ InBackend' = InBackend
  BY <1>1, <1>4, <1>9 DEF MoreToCome, InBackend
<1>12. shown' = stored' \/ FreshList'
  BY <1>1, <1>8, <1>11 DEF FreshList
<1>13. FlagsAreOwned'
  BY <1>1, <1>4, <1>7, <1>9 DEF Untroubled, FlagsAreOwned
<1>14. ListIsTrue'
  BY <1>10, <1>12 DEF ListIsTrue
<1>15. CurrentIsTrue'
  <2>1. CASE shown' = {}
    <3>1. \A r \in Slots : ~Resolves(r)'
      BY <1>2, <2>1 DEF Resolves, StoreBounds
    <3>2. current' = None /\ (stored' = {} => InBackend' = None)
      BY <1>2, <2>1 DEF InBackend
    <3>3. QED
      BY <1>12, <2>1, <3>1, <3>2 DEF CurrentIsTrue
  <2>2. CASE shown' # {}
    <3>1. Resolves(s)' /\ \A r \in Slots \ {s} : ~Resolves(r)'
      BY <1>2, <1>3, <1>4, <2>2 DEF Resolves
    <3>2. ops'[s].got = shown' /\ ops'[s].pc = "resolve"
      BY <1>1, <1>3, <1>4, <2>2
    <3>3. QED
      BY <3>1, <3>2 DEF CurrentIsTrue
  <2>3. QED
    BY <2>1, <2>2
<1>16. ASSUME ~crossed, NEW r \in Slots, Deletes(r)
       PROVE  /\ r = s /\ \A q \in Slots \ {s} : ops'[q] = Resting
              /\ shown' = stored
  <2>1. r = s
    BY <1>4, <1>7, <1>16, OnlyDeletion DEF Untroubled
  <2>2. QED
    BY <1>1, <1>4, <1>7, <1>16, <2>1 DEF Untroubled, DeletionIsAlone
<1>17. DeletionIsAlone'
  <2>1. ASSUME ~crossed', NEW r \in Slots, Deletes(r)'
        PROVE  /\ r = s /\ \A q \in Slots \ {s} : ops'[q] = Resting
               /\ shown' = stored'
    BY <1>1, <1>4, <1>16, <2>1
  <2>2. ops'[s].pc = "resolve" => resolver' = s
    BY <1>2, <1>4
  <2>3. QED
    BY <1>9, <2>1, <2>2 DEF DeletionIsAlone
<1>18. ASSUME ~crossed PROVE EmptyIsExpected'
  <2>1. stored = {} => shown' = {}
    BY <1>1, <1>7, <1>18 DEF Untroubled, EmptyIsExpected
  <2>2. \A r \in Slots : /\ ops'[r].pc = "listed" => ops'[r].got = ops[r].got /\ ops[r].pc = "listed"
                         /\ ops'[r].pc = "resolved" => ops'[r].id = ops[r].id /\ ops[r].pc = "resolved"
                         /\ ops'[r].op = "switch" /\ ops'[r].pc = "served" =>
                               ops[r].op = "switch" /\ ops[r].pc = "served"
    BY <1>4, <1>9
  <2>3. InBackend' = None /\ current' # None =>
            emptyCurrent' /\ \E r \in Slots :
                Deletes(r)' /\ ops'[r].pc \in {"served", "list", "listed", "resolve", "resolved"}
    <3>1. SUFFICES ASSUME InBackend' = None, current' # None
                   PROVE  emptyCurrent' /\ Deletes(s)' /\ ops'[s].pc = "resolve"
      OBVIOUS
    <3>2. shown' # {} /\ current' = current
      BY <1>2, <3>1
    <3>3. emptyCurrent /\ \E r \in Slots : Deletes(r)
      BY <1>7, <1>11, <1>18, <3>1, <3>2 DEF Untroubled, EmptyIsExpected
    <3>4. QED
      BY <1>1, <1>3, <1>4, <1>16, <1>18, <3>2, <3>3
  <2>4. stored' = {} => \A r \in Slots : ops'[r].pc = "listed" => ops'[r].got = {}
    BY <1>1, <1>7, <1>18, <2>2 DEF Untroubled, EmptyIsExpected
  <2>5. InBackend' = None => \A r \in Slots :
            /\ ops'[r].pc = "resolved" => ops'[r].id = None
            /\ ~(ops'[r].op = "switch" /\ ops'[r].pc = "served")
    BY <1>7, <1>11, <1>18, <2>2 DEF Untroubled, EmptyIsExpected
  <2>6. QED
    BY <1>1, <2>1, <2>3, <2>4, <2>5 DEF EmptyIsExpected
<1>19. EmptyIsExpected'
  BY <1>1, <1>18 DEF EmptyIsExpected
<1>20. QED
  BY <1>13, <1>14, <1>15, <1>17, <1>19 DEF Untroubled

\* The current account is read.
LEMMA ResolveSafe ==
    ASSUME StoreInv, StoreBounds, NEW s \in Slots, Resolve(s)
    PROVE  StoreInv'
<1>1. ops[s] \in Operation /\ ops[s].pc = "resolve" /\ SlotTyped(ops[s])
  BY DEF StoreInv, StoreTypeOK, Resolve
<1>2. UNCHANGED <<stored, active, shown, current, loading, emptyList, emptyCurrent, lister,
                  resolver, crossed, opsDone>>
  BY DEF Resolve, backend, view, flags
<1>3. InBackend \in Accounts \union {None}
  BY DEF InBackend, StoreInv, StoreTypeOK
<1>4. PICK o \in Operation :
         /\ o.op = ops[s].op /\ o.who = ops[s].who /\ o.got = ops[s].got /\ Set(s, o)
         /\ \/ o.pc = "resolved" /\ o.id = InBackend /\ UNCHANGED mishaps
            \/ o.pc = "not resolved" /\ Mishap
  <2>1. ASSUME Set(s, [ops[s] EXCEPT !.pc = "resolved", !.id = InBackend]), UNCHANGED mishaps
        PROVE  \E o \in Operation :
                  /\ o.op = ops[s].op /\ o.who = ops[s].who /\ o.got = ops[s].got /\ Set(s, o)
                  /\ o.pc = "resolved" /\ o.id = InBackend
    <3> DEFINE o == [ops[s] EXCEPT !.pc = "resolved", !.id = InBackend]
    <3>1. /\ o \in Operation /\ o.op = ops[s].op /\ o.who = ops[s].who
          /\ o.got = ops[s].got /\ o.pc = "resolved" /\ o.id = InBackend
      BY <1>1, <1>3 DEF Operation
    <3> HIDE DEF o
    <3>2. Set(s, o)
      BY <2>1 DEF o
    <3>3. QED
      BY <3>1, <3>2
  <2>2. ASSUME Set(s, [ops[s] EXCEPT !.pc = "not resolved"]), Mishap
        PROVE  \E o \in Operation :
                  /\ o.op = ops[s].op /\ o.who = ops[s].who /\ o.got = ops[s].got /\ Set(s, o)
                  /\ o.pc = "not resolved"
    <3> DEFINE o == [ops[s] EXCEPT !.pc = "not resolved"]
    <3>1. /\ o \in Operation /\ o.op = ops[s].op /\ o.who = ops[s].who
          /\ o.got = ops[s].got /\ o.pc = "not resolved"
      BY <1>1 DEF Operation
    <3> HIDE DEF o
    <3>2. Set(s, o)
      BY <2>2 DEF o
    <3>3. QED
      BY <3>1, <3>2
  <2>3. QED
    BY <2>1, <2>2 DEF Resolve
<1>5. /\ ops' \in [Slots -> Operation] /\ \A r \in Slots : SlotTyped(ops'[r])
      /\ ops'[s] = o /\ \A r \in Slots \ {s} : ops'[r] = ops[r]
      /\ \A r \in Slots : Deletes(r)' <=> Deletes(r)
      /\ ops[s] # Resting
  <2>1. o.pc # "idle" /\ ops[s].pc # "idle"
    BY <1>1, <1>4
  <2>2. QED
    BY <1>4, <2>1, GoesOn DEF StoreInv
<1>6. mishaps' \in 0 .. MaxOps /\ (mishaps' = 0 => mishaps = 0 /\ ~Mishap)
  BY <1>4, Counted DEF StoreInv
<1>7. StoreTypeOK'
  BY <1>2, <1>5, <1>6 DEF StoreInv, StoreTypeOK
<1> SUFFICES ASSUME mishaps' = 0 PROVE Untroubled'
  BY <1>7 DEF StoreInv
<1>8. Untroubled
  BY <1>6 DEF StoreInv
<1>9. /\ ops'[s].pc = "resolved" /\ ops'[s].got = ops[s].got
      /\ ops'[s].op = ops[s].op /\ ops'[s].id = InBackend
  BY <1>4, <1>5, <1>6
<1>10. \A r \in Slots : (Lists(r)' <=> Lists(r)) /\ (Resolves(r)' <=> Resolves(r))
  BY <1>1, <1>2, <1>5, <1>9 DEF Lists, Resolves
<1>11. /\ MoreToCome' <=> MoreToCome
       /\ FreshList' <=> FreshList
       /\ Forgotten' <=> Forgotten
       /\ InBackend' = InBackend
  BY <1>1, <1>2, <1>5, <1>9, <1>10 DEF MoreToCome, FreshList, Forgotten, InBackend
<1>12. FlagsAreOwned'
  BY <1>2, <1>5, <1>8, <1>9, <1>10 DEF Untroubled, FlagsAreOwned
<1>13. ListIsTrue'
  <2>1. ~Lists(s)
    BY <1>1 DEF Lists
  <2>2. QED
    BY <1>2, <1>5, <1>8, <1>10, <1>11, <2>1 DEF Untroubled, ListIsTrue
<1>14. CurrentIsTrue'
  BY <1>1, <1>2, <1>5, <1>8, <1>9, <1>10, <1>11 DEF Untroubled, CurrentIsTrue
<1>15. ASSUME ~crossed, NEW r \in Slots, Deletes(r) PROVE r = s
  BY <1>5, <1>8, <1>15, OnlyDeletion DEF Untroubled
<1>16. DeletionIsAlone'
  BY <1>1, <1>2, <1>5, <1>8, <1>9, <1>11, <1>15 DEF Untroubled, DeletionIsAlone
<1>17. EmptyIsExpected'
  BY <1>1, <1>2, <1>5, <1>8, <1>9, <1>11 DEF Untroubled, EmptyIsExpected
<1>18. QED
  BY <1>12, <1>13, <1>14, <1>16, <1>17 DEF Untroubled

\* The current account asked for last is shown, if it is in the list; no account at all
\* only if that is expected, which it is unless something was overlapped.
LEMMA ResolvedSafe ==
    ASSUME StoreInv, StoreBounds, NEW s \in Slots, Resolved(s)
    PROVE  StoreInv'
<1>1. /\ ops[s] \in Operation /\ ops[s].pc \in {"resolved", "not resolved"} /\ resolver = s
      /\ Set(s, After(ops[s])) /\ ~emptyCurrent' /\ emptyCurrent' \in BOOLEAN
      /\ emptyList' = IF ops[s].op # "current" /\ lister = s THEN FALSE ELSE emptyList
      /\ UNCHANGED <<stored, active, shown, loading, lister, resolver, crossed, opsDone, mishaps>>
  BY DEF StoreInv, StoreTypeOK, Resolved, Ended, backend, bounds
<1>2. current' = CASE ops[s].pc = "not resolved" -> Known(current, ops[s].got)
                   [] ops[s].id = None /\ ~emptyCurrent -> current
                   [] OTHER -> Known(ops[s].id, ops[s].got)
  BY DEF Resolved
<1>3. /\ ops' \in [Slots -> Operation] /\ \A r \in Slots : SlotTyped(ops'[r])
      /\ \A r \in Slots \ {s} : ops'[r] = ops[r]
      /\ \A r \in Slots : Deletes(r)' <=> Deletes(r)
      /\ ops'[s].pc \in {"idle", "emit"} /\ ops'[s].op \in {"none", "delete"}
      /\ ops[s] # Resting
  <2>1. ops[s].pc # "idle"
    BY <1>1
  <2>2. QED
    BY <1>1, <2>1, GoesOut DEF StoreInv
<1>4. current' \in Accounts \union {None}
  BY <1>1, <1>2 DEF Known, Operation, StoreInv, StoreTypeOK
<1>5. emptyList' \in BOOLEAN /\ (emptyList' => emptyList)
  BY <1>1 DEF StoreInv, StoreTypeOK
<1>6. StoreTypeOK'
  BY <1>1, <1>3, <1>4, <1>5 DEF StoreInv, StoreTypeOK
<1> SUFFICES ASSUME mishaps' = 0 PROVE Untroubled'
  BY <1>6 DEF StoreInv
<1>7. Untroubled
  BY <1>1 DEF StoreInv
<1>8. ops[s].pc = "resolved"
  BY <1>1, <1>7 DEF Untroubled, FlagsAreOwned
<1>9. \A r \in Slots : (Lists(r)' <=> Lists(r)) /\ ~Resolves(r)'
  <2>1. ~Lists(s) /\ ~Lists(s)' /\ ~Resolves(s)'
    BY <1>3, <1>8 DEF Lists, Resolves
  <2>2. \A r \in Slots \ {s} : (Lists(r)' <=> Lists(r)) /\ ~Resolves(r)'
    BY <1>1, <1>3 DEF Lists, Resolves
  <2>3. QED
    BY <2>1, <2>2
<1>10. /\ MoreToCome' <=> MoreToCome
       /\ FreshList' <=> FreshList
       /\ Forgotten' <=> Forgotten
       /\ InBackend' = InBackend
  BY <1>1, <1>3, <1>8, <1>9 DEF MoreToCome, FreshList, Forgotten, InBackend
<1>11. /\ ops[s].got = shown
       /\ ops[s].id = InBackend \/ FreshList \/ Forgotten
  BY <1>1, <1>7, <1>8 DEF Untroubled, CurrentIsTrue, Resolves
<1>12. FlagsAreOwned'
  BY <1>1, <1>3, <1>5, <1>7, <1>9 DEF Untroubled, FlagsAreOwned
<1>13. ListIsTrue'
  <2>1. ~Lists(s)
    BY <1>8 DEF Lists
  <2>2. QED
    BY <1>1, <1>3, <1>7, <1>9, <1>10, <2>1 DEF Untroubled, ListIsTrue
<1>14. ASSUME ~crossed, InBackend = None PROVE current' = None
  <2>1. ops[s].id = None
    BY <1>7, <1>8, <1>14 DEF Untroubled, EmptyIsExpected
  <2>2. current # None => emptyCurrent
    BY <1>7, <1>14 DEF Untroubled, EmptyIsExpected
  <2>3. Known(None, ops[s].got) = None
    BY DEF Known
  <2>4. QED
    BY <1>2, <1>8, <2>1, <2>2, <2>3
<1>15. CurrentIsTrue'
  <2>1. Forgotten => InBackend = None /\ crossed
    BY DEF Forgotten, InBackend
  <2>2. ASSUME ~FreshList, ~(InBackend = None /\ crossed) PROVE current' = InBackend
    <3>1. shown = stored /\ ops[s].id = InBackend
      BY <1>7, <1>11, <2>1, <2>2 DEF Untroubled, ListIsTrue
    <3>2. CASE InBackend = None
      BY <1>14, <2>2, <3>2
    <3>3. CASE InBackend # None
      <4>1. InBackend \in stored
        BY <3>3 DEF InBackend
      <4>2. current' = Known(InBackend, stored)
        BY <1>2, <1>8, <1>11, <3>1, <3>3
      <4>3. QED
        BY <4>1, <4>2 DEF Known
    <3>4. QED
      BY <3>2, <3>3
  <2>3. current' = InBackend' \/ FreshList' \/ (InBackend' = None /\ crossed')
    BY <1>1, <1>10, <2>2
  <2>4. QED
    BY <1>9, <2>3 DEF CurrentIsTrue
<1>16. ASSUME ~crossed, NEW r \in Slots, Deletes(r)
       PROVE  r = s /\ \A q \in Slots \ {s} : ops'[q] = Resting
  <2>1. r = s
    BY <1>3, <1>7, <1>16, OnlyDeletion DEF Untroubled
  <2>2. QED
    BY <1>3, <1>7, <1>16, <2>1 DEF Untroubled, DeletionIsAlone
<1>17. DeletionIsAlone'
  BY <1>1, <1>3, <1>16 DEF DeletionIsAlone
<1>18. ASSUME ~crossed PROVE EmptyIsExpected'
  <2>1. ~(stored = {} /\ shown # {})
    BY <1>7, <1>8, <1>16, <1>18 DEF Untroubled, EmptyIsExpected
  <2>2. InBackend' = None => current' = None
    BY <1>10, <1>14, <1>18
  <2>3. \A r \in Slots : /\ ops'[r].pc = "listed" => ops'[r].got = ops[r].got /\ ops[r].pc = "listed"
                         /\ ops'[r].pc = "resolved" => ops'[r].id = ops[r].id /\ ops[r].pc = "resolved"
                         /\ ops'[r].op = "switch" /\ ops'[r].pc = "served" =>
                               ops[r].op = "switch" /\ ops[r].pc = "served"
    BY <1>3
  <2>4. stored' = {} => \A r \in Slots : ops'[r].pc = "listed" => ops'[r].got = {}
    BY <1>1, <1>7, <1>18, <2>3 DEF Untroubled, EmptyIsExpected
  <2>5. InBackend' = None => \A r \in Slots :
            /\ ops'[r].pc = "resolved" => ops'[r].id = None
            /\ ~(ops'[r].op = "switch" /\ ops'[r].pc = "served")
    BY <1>7, <1>10, <1>18, <2>3 DEF Untroubled, EmptyIsExpected
  <2>6. QED
    BY <1>1, <2>1, <2>2, <2>4, <2>5 DEF EmptyIsExpected
<1>19. EmptyIsExpected'
  BY <1>1, <1>18 DEF EmptyIsExpected
<1>20. QED
  BY <1>12, <1>13, <1>15, <1>17, <1>19 DEF Untroubled

\* A deletion takes its flags back.  If it was alone nothing is left to expect.
LEMMA EndSafe ==
    ASSUME StoreInv, StoreBounds, NEW s \in Slots, End(s)
    PROVE  StoreInv'
<1>1. /\ ops[s].pc = "emit" /\ Set(s, Resting) /\ ~emptyList' /\ ~emptyCurrent'
      /\ emptyList' \in BOOLEAN /\ emptyCurrent' \in BOOLEAN
      /\ UNCHANGED <<stored, active, shown, current, loading, lister, resolver, crossed,
                     opsDone, mishaps>>
  BY DEF End, backend, view, bounds
<1>2. Resting \in Operation /\ SlotTyped(Resting) /\ Resting.pc = "idle" /\ Resting.op = "none"
  BY DEF Resting, Operation, SlotTyped
<1>3. /\ ops' \in [Slots -> Operation] /\ \A r \in Slots : SlotTyped(ops'[r])
      /\ ops'[s] = Resting /\ \A r \in Slots \ {s} : ops'[r] = ops[r]
  BY <1>1, <1>2, SlotSet DEF StoreInv
<1>4. StoreTypeOK'
  BY <1>1, <1>3 DEF StoreInv, StoreTypeOK
<1> SUFFICES ASSUME mishaps' = 0 PROVE Untroubled'
  BY <1>4 DEF StoreInv
<1>5. Untroubled
  BY <1>1 DEF StoreInv
<1>6. \A r \in Slots : (Lists(r)' <=> Lists(r)) /\ (Resolves(r)' <=> Resolves(r))
  <2>1. ~Lists(s) /\ ~Resolves(s) /\ ~Lists(s)' /\ ~Resolves(s)'
    BY <1>1, <1>2, <1>3 DEF Lists, Resolves
  <2>2. \A r \in Slots \ {s} : (Lists(r)' <=> Lists(r)) /\ (Resolves(r)' <=> Resolves(r))
    BY <1>1, <1>3 DEF Lists, Resolves
  <2>3. QED
    BY <2>1, <2>2
<1>7. /\ MoreToCome' <=> MoreToCome
      /\ FreshList' <=> FreshList
      /\ Forgotten' <=> Forgotten
      /\ InBackend' = InBackend
  BY <1>1, <1>2, <1>3, <1>6 DEF MoreToCome, FreshList, Forgotten, InBackend
<1>8. FlagsAreOwned'
  BY <1>1, <1>2, <1>3, <1>5, <1>6 DEF Untroubled, FlagsAreOwned
<1>9. ListIsTrue'
  BY <1>1, <1>2, <1>3, <1>5, <1>6, <1>7 DEF Untroubled, ListIsTrue
<1>10. CurrentIsTrue'
  <2>1. ~Resolves(s)
    BY <1>1 DEF Resolves
  <2>2. QED
    BY <1>1, <1>3, <1>5, <1>6, <1>7, <2>1 DEF Untroubled, CurrentIsTrue
<1>11. ASSUME ~crossed, NEW r \in Slots, Deletes(r) PROVE r = s
  <2>1. ops[s] # Resting
    BY <1>1, <1>2
  <2>2. QED
    BY <1>5, <1>11, <2>1, OnlyDeletion DEF Untroubled
<1>12. ~crossed' => \A r \in Slots : ~Deletes(r)'
  BY <1>1, <1>2, <1>3, <1>11 DEF Deletes
<1>13. DeletionIsAlone'
  BY <1>12 DEF DeletionIsAlone
<1>14. EmptyIsExpected'
  BY <1>1, <1>2, <1>3, <1>5, <1>7, <1>11 DEF Untroubled, EmptyIsExpected
<1>15. QED
  BY <1>8, <1>9, <1>10, <1>13, <1>14 DEF Untroubled

----------------------------------------------------------------------------
LEMMA StoreInitSafe == StoreBounds /\ StoreInit => StoreInv
<1> SUFFICES ASSUME StoreBounds, StoreInit PROVE StoreInv
  OBVIOUS
<1>1. /\ stored \subseteq Accounts /\ active \in Accounts \union {None}
      /\ shown = stored /\ current = InBackend
      /\ emptyList = FALSE /\ emptyCurrent = FALSE /\ loading = FALSE
      /\ lister = Nobody /\ resolver = Nobody /\ crossed = FALSE
      /\ opsDone = 0 /\ mishaps = 0 /\ ops = [s \in Slots |-> Resting]
  BY DEF StoreInit
<1>2. Resting \in Operation /\ SlotTyped(Resting) /\ Resting.pc = "idle" /\ Resting.op = "none"
  BY DEF Resting, Operation, SlotTyped
<1>3. \A s \in Slots : ops[s] = Resting
  BY <1>1
<1>4. StoreTypeOK
  <2>1. ops \in [Slots -> Operation] /\ \A s \in Slots : SlotTyped(ops[s])
    BY <1>1, <1>2, <1>3
  <2>2. current \in Accounts \union {None} /\ shown \subseteq Accounts
    BY <1>1 DEF InBackend
  <2>3. opsDone \in 0 .. MaxOps /\ mishaps \in 0 .. MaxOps
    BY <1>1 DEF StoreBounds
  <2>4. QED
    BY <1>1, <2>1, <2>2, <2>3 DEF StoreTypeOK
<1>5. FlagsAreOwned
  BY <1>1, <1>2, <1>3 DEF FlagsAreOwned
<1>6. ListIsTrue /\ CurrentIsTrue
  BY <1>1, <1>2, <1>3 DEF ListIsTrue, CurrentIsTrue, Lists, Resolves
<1>7. DeletionIsAlone /\ EmptyIsExpected
  BY <1>1, <1>2, <1>3 DEF DeletionIsAlone, EmptyIsExpected, Deletes, InBackend
<1>8. QED
  BY <1>4, <1>5, <1>6, <1>7 DEF StoreInv, Untroubled

LEMMA StoreInductive == StoreBounds /\ StoreInv /\ [StoreNext]_storeVars => StoreInv'
<1> SUFFICES ASSUME StoreBounds, StoreInv, [StoreNext]_storeVars PROVE StoreInv'
  OBVIOUS
<1>1. CASE UNCHANGED storeVars
  <2>1. UNCHANGED <<stored, active, shown, current, loading, emptyList, emptyCurrent, lister,
                    resolver, ops, crossed, opsDone, mishaps>>
    BY <1>1 DEF storeVars, backend, view, flags, bounds
  <2>2. StoreTypeOK'
    BY <2>1 DEF StoreInv, StoreTypeOK
  <2>3. mishaps = 0 => ListIsTrue' /\ CurrentIsTrue' /\ FlagsAreOwned'
    BY <2>1 DEF StoreInv, Untroubled, ListIsTrue, CurrentIsTrue, FlagsAreOwned, Lists,
                Resolves, Deletes, MoreToCome, FreshList, Forgotten, InBackend
  <2>4. mishaps = 0 => DeletionIsAlone' /\ EmptyIsExpected'
    BY <2>1 DEF StoreInv, Untroubled, DeletionIsAlone, EmptyIsExpected, Deletes, InBackend
  <2>5. QED
    BY <2>1, <2>2, <2>3, <2>4 DEF StoreInv, Untroubled
<1>2. ASSUME NEW s \in Slots, Show(s) PROVE StoreInv'
  BY <1>2, CallSafe DEF Show
<1>3. ASSUME NEW s \in Slots, NEW a \in Accounts, Import(s, a) \/ Switch(s, a) PROVE StoreInv'
  BY <1>3, CallSafe DEF Import, Switch
<1>4. ASSUME NEW s \in Slots, NEW S \in SUBSET Accounts, Delete(s, S) PROVE StoreInv'
  BY <1>4, DeleteSafe
<1>5. ASSUME NEW s \in Slots, Current(s) PROVE StoreInv'
  BY <1>5, CurrentSafe
<1>6. ASSUME NEW s \in Slots, StoreReplies(s) PROVE StoreInv'
  BY <1>6, ServeSafe, FailSafe, FetchAccountsSafe, ListSafe, LateSafe, IgnoredSafe, ListedSafe,
     ResolveSafe, ResolvedSafe, EndSafe
  DEF StoreReplies
<1>7. QED
  BY <1>1, <1>2, <1>3, <1>4, <1>5, <1>6 DEF StoreNext

THEOREM StoreInvariance == ASSUME StoreBounds PROVE StoreSpec => []StoreInv
<1>1. StoreInit => StoreInv
  BY StoreInitSafe
<1>2. StoreInv /\ [StoreNext]_storeVars => StoreInv'
  BY StoreInductive
<1>3. QED
  BY <1>1, <1>2, PTL DEF StoreSpec

\* Type correctness: an operation is at one of its steps, and what it has got are
\* accounts; no more goes wrong than the bound allows.
THEOREM StoreTypeCorrect == ASSUME StoreBounds PROVE StoreSpec => []StoreTypeOK
<1>1. StoreInv => StoreTypeOK
  BY DEF StoreInv
<1>2. QED
  BY StoreInvariance, <1>1, PTL

\* A window of createProviderAccountStore that waits for nothing shows the accounts
\* there are and the current one, whatever the order of the answers, unless the deletion
\* of the last accounts overlapped another operation.
THEOREM QuietWindow == ASSUME StoreBounds PROVE StoreSpec => []QuietWindowIsTrue
<1>1. StoreInv => QuietWindowIsTrue
  <2> SUFFICES ASSUME StoreInv, WindowRests, mishaps = 0
               PROVE  /\ ~loading /\ ~emptyList
                      /\ shown = stored \/ (stored = {} /\ crossed)
                      /\ current = InBackend \/ (InBackend = None /\ crossed)
    BY DEF QuietWindowIsTrue
  <2>1. \A s \in Slots : ops[s].pc = "idle" /\ ops[s].op = "none"
    BY DEF WindowRests, Resting
  <2>2. ~FreshList /\ \A s \in Slots : ~Lists(s) /\ ~Resolves(s) /\ ~Deletes(s)
    BY <2>1 DEF FreshList, MoreToCome, Lists, Resolves, Deletes
  <2>3. Forgotten => InBackend = None
    BY DEF Forgotten, InBackend
  <2>4. QED
    BY <2>2, <2>3
    DEF StoreInv, Untroubled, FlagsAreOwned, ListIsTrue, CurrentIsTrue, Forgotten
<1>2. QED
  BY StoreInvariance, <1>1, PTL

----------------------------------------------------------------------------
Ops == {"start", "given up", "peek", "replace", "cancel", "complete"}
Pcs == {"called", "ok", "polling", "error", "stuck"}

\* The commands that an attempt leads through.
Leads == {"start", "peek", "replace", "complete"}

CallsTyped ==
    /\ calls \subseteq [op : Ops, attempt : 0 .. MaxAttempts, login : 0 .. MaxAttempts,
                        pc : Pcs]
    /\ IsFiniteSet(calls)
    /\ \A c \in calls : /\ c.login <= issued
                        /\ c.op # "complete" => c.pc \in {"called", "ok"}

OneCallEach ==
    /\ \A c \in calls : c.op \in Leads => c.attempt \in 1 .. attempts
    /\ \A c, d \in calls :
          c.op \in Leads /\ d.op \in Leads /\ c.attempt = d.attempt => c = d

\* Commands that will put a login into the slot.  There is one attempt for each,
\* and one for each login there has been.
Unstarted(c) == c.op = "replace" \/ (c.op \in {"start", "given up"} /\ c.pc = "called")
StartsAreCounted == issued + Cardinality({c \in calls : Unstarted(c)}) <= attempts

PageIsInOrder ==
    /\ page.attempt <= attempts /\ page.session <= issued
    /\ ~(page.preparing /\ page.completing)
    /\ ~page.open => page.attempt = 0 /\ page.session = NoLogin /\ ~page.completing

CompletingIsTrue ==
    page.completing =>
        \E c \in calls : c.op = "complete" /\ c.attempt = page.attempt /\ c.login = page.session

PreparingIsTrue ==
    ~torn => /\ \A c \in calls : c.op = "replace" => c.attempt = page.attempt
             /\ page.preparing =>
                   \E c \in calls : c.op \in {"start", "peek"} /\ c.attempt = page.attempt

\* A poll that has brought an account has taken its login out of the slot.
CompletedIsGone ==
    \A c \in calls :
        c.op = "complete" /\ c.pc = "ok" /\ slot # NoLogin => c.login # slot

GivenUpIsKnown == ~givenUp => \A c \in calls : c.op \notin {"given up", "peek"}

Holds(c, l) ==
    \/ c.op = "replace"
    \/ c.op = "start" /\ (c.pc = "called" \/ c.login = l)
    \/ c.op = "cancel" /\ c.login = l

LoginIsHeld ==
    ~givenUp /\ slot \notin expired \union {NoLogin} =>
        \/ \E c \in calls : Holds(c, slot)
        \/ /\ page.session = slot
           /\ \A c \in calls : c.op = "start" => c.attempt # page.attempt

QoderIInv ==
    /\ QoderTypeOK /\ CallsTyped /\ OneCallEach /\ StartsAreCounted
    /\ PageIsInOrder /\ CompletingIsTrue /\ PreparingIsTrue
    /\ CompletedIsGone /\ GivenUpIsKnown /\ LoginIsHeld

----------------------------------------------------------------------------
(* Commands                                                                *)

CallSet == [op : Ops, attempt : 0 .. MaxAttempts, login : 0 .. MaxAttempts, pc : Pcs]

PageSet == [open : BOOLEAN, attempt : 0 .. MaxAttempts, session : Logins \union {NoLogin},
            url : BOOLEAN, failed : BOOLEAN, preparing : BOOLEAN, completing : BOOLEAN]

\* What is typed of the numbers.
LEMMA Numbers ==
    ASSUME QoderBounds, QoderIInv
    PROVE  /\ attempts \in Nat /\ issued \in Nat /\ slot \in Nat
           /\ MaxAttempts \in Nat /\ MaxFaults \in Nat
           /\ issued <= attempts /\ attempts <= MaxAttempts /\ slot <= issued
           /\ page \in PageSet /\ page.session \in Nat /\ page.attempt \in Nat
           /\ \A c \in calls : c \in CallSet /\ c.login \in Nat /\ c.attempt \in Nat
<1>1. MaxAttempts \in Nat /\ MaxFaults \in Nat
  BY DEF QoderBounds
<1>2. attempts \in 0 .. MaxAttempts /\ issued \in 0 .. attempts /\ slot \in 0 .. issued
  BY DEF QoderIInv, QoderTypeOK
<1>3. page \in PageSet
  BY DEF QoderIInv, QoderTypeOK, PageSet
<1>4. page.session \in Nat /\ page.attempt \in Nat
  BY <1>1, <1>3 DEF PageSet, Logins, NoLogin
<1>5. \A c \in calls : c \in CallSet
  BY DEF QoderIInv, CallsTyped, CallSet
<1>6. \A c \in calls : c.login \in Nat /\ c.attempt \in Nat
  BY <1>1, <1>5 DEF CallSet
<1>7. QED
  BY <1>1, <1>2, <1>3, <1>4, <1>5, <1>6

\* A known login is one that the page may hold.
LEMMA LoginTyped ==
    ASSUME QoderBounds, QoderIInv, NEW l \in Nat, l <= issued
    PROVE  l \in Logins \union {NoLogin} /\ l \in 0 .. MaxAttempts
BY Numbers DEF Logins, NoLogin

\* One command is replaced by others that carry on the same attempt.  The commands
\* that will issue a login do not grow in number, and those that do are used up.
LEMMA CallGoesOn ==
    ASSUME QoderBounds, QoderIInv, NEW c \in calls, NEW D,
           calls' = (calls \ {c}) \union D,
           attempts' = attempts, D \subseteq CallSet, IsFiniteSet(D),
           \A d \in D : d.login <= issued' /\ (d.op # "complete" => d.pc \in {"called", "ok"}),
           \A d \in D : d.op \in Leads => c.op \in Leads /\ d.attempt = c.attempt,
           \A d, e \in D : d.op \in Leads /\ e.op \in Leads => d = e,
           \/ /\ issued' = issued
              /\ \A d \in D : ~Unstarted(d)
           \/ /\ issued' = issued /\ Unstarted(c)
              /\ \A d, e \in D : Unstarted(d) /\ Unstarted(e) => d = e
           \/ /\ issued' = issued + 1 /\ Unstarted(c)
              /\ \A d \in D : ~Unstarted(d)
    PROVE  CallsTyped' /\ OneCallEach' /\ StartsAreCounted' /\ issued' \in 0 .. attempts'
<1> DEFINE U == {d \in calls : Unstarted(d)}
           V == {d \in D : Unstarted(d)}
           W == {d \in calls' : Unstarted(d)}
<1>1. /\ calls \subseteq CallSet /\ IsFiniteSet(calls)
      /\ \A d \in calls : d.login <= issued /\ d.login \in Nat
      /\ \A d \in calls : d.op # "complete" => d.pc \in {"called", "ok"}
      /\ issued \in Nat /\ attempts \in Nat /\ issued' \in Nat /\ issued <= issued'
  BY Numbers DEF QoderIInv, CallsTyped
<1>2. CallsTyped'
  <2>1. calls' \subseteq CallSet
    BY <1>1
  <2>2. IsFiniteSet(calls')
    BY <1>1, FS_RemoveElement, FS_Union
  <2>3. \A d \in calls' : /\ d.login <= issued'
                          /\ d.op # "complete" => d.pc \in {"called", "ok"}
    BY <1>1
  <2>4. QED
    BY <2>1, <2>2, <2>3 DEF CallsTyped, CallSet
<1>3. OneCallEach'
  BY DEF QoderIInv, OneCallEach
<1>4. StartsAreCounted'
  <2>1. /\ IsFiniteSet(U) /\ IsFiniteSet(U \ {c}) /\ Cardinality(U) \in Nat
        /\ Cardinality(U \ {c}) \in Nat
        /\ Cardinality(U \ {c}) = IF Unstarted(c) THEN Cardinality(U) - 1
                                  ELSE Cardinality(U)
    BY <1>1, FS_Subset, FS_RemoveElement, FS_CardinalityType
  <2>2. issued + Cardinality(U) <= attempts
    BY DEF QoderIInv, StartsAreCounted
  <2>3. W = (U \ {c}) \union V
    OBVIOUS
  <2> HIDE DEF U, V, W
  <2>4. CASE V = {}
    <3>1. Cardinality(W) = Cardinality(U \ {c})
      BY <2>3, <2>4
    <3>2. issued' = issued \/ (issued' = issued + 1 /\ Unstarted(c))
      OBVIOUS
    <3>3. issued' + Cardinality(W) <= attempts
      BY <1>1, <2>1, <2>2, <3>1, <3>2
    <3>4. QED
      BY <3>3 DEF StartsAreCounted, W
  <2>5. CASE V # {}
    <3>1. PICK u : V = {u}
      BY <2>5 DEF V
    <3>2. issued' = issued /\ Unstarted(c)
      BY <2>5 DEF V
    <3>3. W = (U \ {c}) \union {u}
      BY <2>3, <3>1
    <3>4. Cardinality(W) <= Cardinality(U \ {c}) + 1 /\ Cardinality(W) \in Nat
      <4> DEFINE R == U \ {c}
      <4>1. IsFiniteSet(R) /\ Cardinality(R) \in Nat
        BY <2>1
      <4> HIDE DEF R
      <4>2. Cardinality(R \union {u}) = IF u \in R THEN Cardinality(R) ELSE Cardinality(R) + 1
        BY <4>1, FS_AddElement
      <4>3. W = R \union {u}
        BY <3>3 DEF R
      <4>4. Cardinality(W) <= Cardinality(R) + 1 /\ Cardinality(W) \in Nat
        BY <4>1, <4>2, <4>3
      <4>5. QED
        BY <4>4 DEF R
    <3>5. Cardinality(W) <= Cardinality(U)
      <4>1. Cardinality(U \ {c}) = Cardinality(U) - 1
        BY <2>1, <3>2
      <4>2. Cardinality(U) \in Nat
        BY <2>1
      <4>3. QED
        BY <3>4, <4>1, <4>2
    <3>6. issued' + Cardinality(W) <= attempts
      BY <1>1, <2>1, <2>2, <3>2, <3>4, <3>5
    <3>7. QED
      BY <3>6 DEF StartsAreCounted, W
  <2>6. QED
    BY <2>4, <2>5
<1>5. issued' \in 0 .. attempts'
  <2>1. IsFiniteSet(W) /\ Cardinality(W) \in Nat
    BY <1>2, FS_Subset, FS_CardinalityType DEF CallsTyped
  <2>2. issued' + Cardinality(W) <= attempts'
    BY <1>4 DEF StartsAreCounted
  <2> HIDE DEF W
  <2>3. QED
    BY <1>1, <2>1, <2>2
<1>6. QED
  BY <1>2, <1>3, <1>4, <1>5

\* A command that only answers, or one that no attempt leads through, says nothing
\* new to the dialog.
LEMMA PageUndisturbed ==
    ASSUME QoderBounds, QoderIInv, NEW c \in calls, NEW D,
           calls' = (calls \ {c}) \union D,
           UNCHANGED <<page, attempts, torn>>, issued' \in Nat, issued <= issued',
           c.op \in Leads => \E d \in D : /\ d.op = c.op /\ d.attempt = c.attempt
                                          /\ c.op = "complete" => d.login = c.login,
           \A d \in D : d.op = "replace" => c.op = "replace" /\ d.attempt = c.attempt
    PROVE  PageIsInOrder' /\ CompletingIsTrue' /\ PreparingIsTrue'
<1>1. PageIsInOrder'
  BY Numbers DEF QoderIInv, PageIsInOrder
<1>2. CompletingIsTrue'
  <2> SUFFICES ASSUME page.completing
               PROVE  \E d \in calls' : /\ d.op = "complete" /\ d.attempt = page.attempt
                                        /\ d.login = page.session
    BY DEF CompletingIsTrue
  <2>1. PICK d \in calls : /\ d.op = "complete" /\ d.attempt = page.attempt
                           /\ d.login = page.session
    BY DEF QoderIInv, CompletingIsTrue
  <2>2. QED
    BY <2>1 DEF Leads
<1>3. PreparingIsTrue'
  <2> SUFFICES ASSUME ~torn
               PROVE  /\ \A d \in calls' : d.op = "replace" => d.attempt = page.attempt
                      /\ page.preparing => \E d \in calls' : /\ d.op \in {"start", "peek"}
                                                             /\ d.attempt = page.attempt
    BY DEF PreparingIsTrue
  <2>1. \A d \in calls' : d.op = "replace" => d.attempt = page.attempt
    BY DEF QoderIInv, PreparingIsTrue
  <2>2. ASSUME page.preparing
        PROVE  \E d \in calls' : d.op \in {"start", "peek"} /\ d.attempt = page.attempt
    <3>1. PICK d \in calls : d.op \in {"start", "peek"} /\ d.attempt = page.attempt
      BY <2>2 DEF QoderIInv, PreparingIsTrue
    <3>2. QED
      BY <3>1 DEF Leads
  <2>3. QED
    BY <2>1, <2>2
<1>4. QED
  BY <1>1, <1>2, <1>3

----------------------------------------------------------------------------
(* The dialog                                                              *)

\* A command that has just been sent.
LEMMA QoderCallTyped ==
    ASSUME NEW op \in Ops, NEW a \in 0 .. MaxAttempts, NEW l \in 0 .. MaxAttempts
    PROVE  /\ Command(op, a, l) \in CallSet
           /\ Command(op, a, l).op = op /\ Command(op, a, l).attempt = a
           /\ Command(op, a, l).login = l /\ Command(op, a, l).pc = "called"
<1>1. "called" \in Pcs
  BY DEF Pcs
<1>2. QED
  BY <1>1 DEF Command, CallSet

\* What Idle is.
LEMMA IdleFacts ==
    ASSUME QoderBounds
    PROVE  /\ Idle \in PageSet /\ Idle.attempt = 0 /\ Idle.session = NoLogin /\ ~Idle.open
           /\ ~Idle.preparing /\ ~Idle.completing
BY DEF QoderBounds, Idle, PageSet, Logins, NoLogin

LEMMA QoderInitIInv == ASSUME QoderBounds, QoderInit PROVE QoderIInv
<1>1. /\ page = Idle /\ calls = {} /\ attempts = 0 /\ issued = 0 /\ slot = NoLogin
      /\ expired = {}
  BY DEF QoderInit
<1>2. QoderTypeOK
  <2>1. page \in PageSet
    BY <1>1, IdleFacts
  <2>2. /\ attempts \in 0 .. MaxAttempts /\ issued \in 0 .. attempts /\ slot \in 0 .. issued
        /\ faults \in 0 .. MaxFaults
    BY <1>1 DEF QoderInit, QoderBounds, NoLogin
  <2>3. torn \in BOOLEAN /\ givenUp \in BOOLEAN
    BY DEF QoderInit
  <2>4. QED
    BY <1>1, <2>1, <2>2, <2>3 DEF QoderTypeOK, PageSet
<1>3. {c \in calls : Unstarted(c)} = {}
  BY <1>1
<1>4. CallsTyped /\ OneCallEach /\ StartsAreCounted
  BY <1>1, <1>3, FS_EmptySet DEF CallsTyped, OneCallEach, StartsAreCounted
<1>5. PageIsInOrder /\ CompletingIsTrue /\ PreparingIsTrue
  BY <1>1 DEF PageIsInOrder, CompletingIsTrue, PreparingIsTrue, Idle, NoLogin
<1>6. CompletedIsGone /\ GivenUpIsKnown /\ LoginIsHeld
  BY <1>1 DEF CompletedIsGone, GivenUpIsKnown, LoginIsHeld
<1>7. QED
  BY <1>2, <1>4, <1>5, <1>6 DEF QoderIInv

LEMMA OpenIInv == ASSUME QoderBounds, QoderIInv, Open PROVE QoderIInv'
<1>1. /\ page' = [page EXCEPT !.open = TRUE]
      /\ UNCHANGED <<calls, attempts, slot, issued, expired, faults, torn, givenUp>>
  BY DEF Open, slotVars, history
<1>2. /\ page' \in PageSet /\ page'.attempt = page.attempt /\ page'.session = page.session
      /\ page'.preparing = page.preparing /\ page'.completing = page.completing
      /\ page'.open
  BY <1>1, Numbers DEF PageSet
<1>3. QoderTypeOK'
  BY <1>1, <1>2 DEF QoderIInv, QoderTypeOK, PageSet
<1>4. CallsTyped' /\ OneCallEach' /\ StartsAreCounted' /\ CompletedIsGone' /\ GivenUpIsKnown'
  BY <1>1 DEF QoderIInv, CallsTyped, OneCallEach, StartsAreCounted, CompletedIsGone,
              GivenUpIsKnown
<1>5. PageIsInOrder' /\ CompletingIsTrue' /\ PreparingIsTrue' /\ LoginIsHeld'
  BY <1>1, <1>2 DEF QoderIInv, PageIsInOrder, CompletingIsTrue, PreparingIsTrue, LoginIsHeld
<1>6. QED
  BY <1>3, <1>4, <1>5 DEF QoderIInv

\* The cancels of a login.
LEMMA CancelsTyped ==
    ASSUME QoderBounds, QoderIInv, NEW l \in Nat, l <= issued
    PROVE  /\ Cancels(l) \subseteq CallSet /\ IsFiniteSet(Cancels(l))
           /\ \A d \in Cancels(l) : /\ d.op = "cancel" /\ d.login = l /\ d.pc = "called"
                                    /\ ~Unstarted(d) /\ d.op \notin Leads
           /\ l # NoLogin => \E d \in Cancels(l) : d.op = "cancel" /\ d.login = l
<1> DEFINE d == Command("cancel", 0, l)
<1>1. d \in CallSet /\ d.op = "cancel" /\ d.login = l /\ d.pc = "called"
  <2>1. "cancel" \in Ops /\ 0 \in 0 .. MaxAttempts /\ l \in 0 .. MaxAttempts
    BY LoginTyped, Numbers DEF Ops
  <2>2. QED
    BY <2>1, QoderCallTyped
<1>2. Cancels(l) = {} \/ Cancels(l) = {d}
  BY DEF Cancels
<1>3. l # NoLogin => Cancels(l) = {d}
  BY DEF Cancels
<1>4. IsFiniteSet({}) /\ IsFiniteSet({d})
  BY FS_EmptySet, FS_Singleton
<1> HIDE DEF d
<1>5. ~Unstarted(d) /\ d.op \notin Leads
  BY <1>1 DEF Unstarted, Leads
<1>6. QED
  BY <1>1, <1>2, <1>3, <1>4, <1>5

\* The login of a dialog that is closed goes from its hands into a cancel's.
LEMMA CloseIInv == ASSUME QoderBounds, QoderIInv, Close PROVE QoderIInv'
<1> DEFINE D == Cancels(page.session)
<1>1. /\ page' = Idle /\ calls' = calls \union D
      /\ torn' = (torn \/ \E c \in calls : c.op = "replace")
      /\ UNCHANGED <<attempts, slot, issued, expired, faults, givenUp>>
  BY DEF Close, Tear, slotVars
<1>2. /\ D \subseteq CallSet /\ IsFiniteSet(D)
      /\ \A d \in D : /\ d.op = "cancel" /\ d.login = page.session /\ d.pc = "called"
                      /\ ~Unstarted(d) /\ d.op \notin Leads
      /\ page.session # NoLogin => \E d \in D : d.op = "cancel" /\ d.login = page.session
  BY Numbers, CancelsTyped DEF QoderIInv, PageIsInOrder
<1> HIDE DEF D
<1>3. QoderTypeOK'
  BY <1>1, IdleFacts DEF QoderIInv, QoderTypeOK, PageSet
<1>4. CallsTyped'
  <2>1. IsFiniteSet(calls')
    BY <1>1, <1>2, FS_Union DEF QoderIInv, CallsTyped
  <2>2. QED
    BY <1>1, <1>2, <2>1 DEF QoderIInv, CallsTyped, CallSet, PageIsInOrder
<1>5. OneCallEach'
  BY <1>1, <1>2 DEF QoderIInv, OneCallEach
<1>6. StartsAreCounted'
  <2>1. {c \in calls' : Unstarted(c)} = {c \in calls : Unstarted(c)}
    BY <1>1, <1>2
  <2>2. QED
    BY <1>1, <2>1 DEF QoderIInv, StartsAreCounted
<1>7. PageIsInOrder' /\ CompletingIsTrue'
  BY <1>1, IdleFacts, Numbers DEF PageIsInOrder, CompletingIsTrue, NoLogin
<1>8. PreparingIsTrue'
  BY <1>1, <1>2, IdleFacts DEF PreparingIsTrue
<1>9. CompletedIsGone' /\ GivenUpIsKnown'
  BY <1>1, <1>2 DEF QoderIInv, CompletedIsGone, GivenUpIsKnown
<1>10. LoginIsHeld'
  <2> SUFFICES ASSUME ~givenUp, slot \notin expired \union {NoLogin}
               PROVE  \E c \in calls' : Holds(c, slot)
    BY <1>1 DEF LoginIsHeld
  <2>1. CASE \E c \in calls : Holds(c, slot)
    BY <1>1, <2>1
  <2>2. CASE page.session = slot
    BY <1>1, <1>2, <2>2 DEF Holds
  <2>3. QED
    BY <2>1, <2>2 DEF QoderIInv, LoginIsHeld
<1>11. QED
  BY <1>3, <1>4, <1>5, <1>6, <1>7, <1>8, <1>9, <1>10 DEF QoderIInv

\* A new attempt begins, with a command of its own that will issue a login.
LEMMA PrepareIInv == ASSUME QoderBounds, QoderIInv, Prepare PROVE QoderIInv'
<1>1. /\ page.open /\ ~page.preparing /\ ~page.completing
      /\ attempts < MaxAttempts /\ attempts' = attempts + 1
      /\ torn' = (torn \/ \E c \in calls : c.op = "replace")
      /\ UNCHANGED <<slot, issued, expired, faults, givenUp>>
  BY DEF Prepare, Tear, slotVars
<1>2. PICK d : /\ calls' = calls \union {d}
               /\ d \in CallSet /\ d.attempt = attempts + 1 /\ d.pc = "called"
               /\ \/ /\ page.session = NoLogin
                     /\ d.op = "start" /\ d.login = NoLogin
                     /\ page' = [Idle EXCEPT !.open = TRUE, !.attempt = attempts + 1,
                                             !.preparing = TRUE]
                  \/ /\ page.session # NoLogin
                     /\ d.op = "replace" /\ d.login = page.session
                     /\ page' = [page EXCEPT !.attempt = attempts + 1]
  <2>1. attempts + 1 \in 0 .. MaxAttempts /\ page.session \in 0 .. MaxAttempts
    BY <1>1, Numbers, LoginTyped DEF QoderIInv, PageIsInOrder
  <2>2. "start" \in Ops /\ "replace" \in Ops /\ NoLogin \in 0 .. MaxAttempts
    BY Numbers DEF Ops, NoLogin
  <2>3. CASE page.session = NoLogin
    <3>1. PICK d : d = Command("start", attempts + 1, NoLogin)
      OBVIOUS
    <3>2. /\ d \in CallSet /\ d.attempt = attempts + 1 /\ d.pc = "called"
          /\ d.op = "start" /\ d.login = NoLogin
      BY <2>1, <2>2, <3>1, QoderCallTyped
    <3>3. QED
      BY <2>3, <3>1, <3>2 DEF Prepare
  <2>4. CASE page.session # NoLogin
    <3>1. PICK d : d = Command("replace", attempts + 1, page.session)
      OBVIOUS
    <3>2. /\ d \in CallSet /\ d.attempt = attempts + 1 /\ d.pc = "called"
          /\ d.op = "replace" /\ d.login = page.session
      BY <2>1, <2>2, <3>1, QoderCallTyped
    <3>3. QED
      BY <2>4, <3>1, <3>2 DEF Prepare
  <2>5. QED
    BY <2>3, <2>4
<1>3. /\ page' \in PageSet /\ page'.open /\ page'.attempt = attempts + 1
      /\ ~page'.completing
      /\ page'.session \in Nat /\ page'.session <= issued
      /\ page'.preparing => d.op = "start"
  <2>1. attempts + 1 \in 0 .. MaxAttempts
    BY <1>1, Numbers
  <2>2. page \in PageSet /\ page.session \in Nat /\ page.session <= issued /\ issued \in Nat
    BY Numbers DEF QoderIInv, PageIsInOrder
  <2>3. CASE d.op = "start"
    <3>1. page' = [Idle EXCEPT !.open = TRUE, !.attempt = attempts + 1, !.preparing = TRUE]
      BY <1>2, <2>3
    <3>2. QED
      <4>1. /\ page' \in PageSet /\ page'.open /\ page'.attempt = attempts + 1
            /\ page'.completing = Idle.completing /\ page'.session = Idle.session
        BY <2>1, <3>1, IdleFacts DEF PageSet
      <4>2. NoLogin \in Nat /\ NoLogin <= issued
        BY <2>2 DEF NoLogin
      <4>3. QED
        BY <2>3, <4>1, <4>2, IdleFacts
  <2>4. CASE d.op = "replace"
    <3>1. page' = [page EXCEPT !.attempt = attempts + 1]
      BY <1>2, <2>4
    <3>2. QED
      BY <1>1, <2>1, <2>2, <3>1 DEF PageSet
  <2>5. QED
    BY <1>2, <2>3, <2>4
<1>4. QoderTypeOK'
  BY <1>1, <1>3, Numbers DEF QoderIInv, QoderTypeOK, PageSet
<1>5. CallsTyped'
  <2>1. IsFiniteSet(calls')
    BY <1>2, FS_AddElement DEF QoderIInv, CallsTyped
  <2>2. d.login <= issued /\ d.op # "complete" /\ d.pc = "called"
    BY <1>2, Numbers DEF QoderIInv, PageIsInOrder, NoLogin
  <2>3. QED
    BY <1>1, <1>2, <2>1, <2>2 DEF QoderIInv, CallsTyped, CallSet
<1>6. OneCallEach'
  <2>1. \A c \in calls : c.op \in Leads => c.attempt \in 1 .. attempts
    BY DEF QoderIInv, OneCallEach
  <2>2. attempts \in Nat /\ d.attempt = attempts + 1
    BY <1>2, Numbers
  <2>3. \A c \in calls' : c.op \in Leads => c.attempt \in 1 .. attempts'
    BY <1>1, <1>2, <2>1, <2>2
  <2>4. \A c \in calls : c.op \in Leads => c.attempt # d.attempt
    BY <2>1, <2>2
  <2>5. QED
    BY <1>2, <2>3, <2>4 DEF QoderIInv, OneCallEach
<1>7. StartsAreCounted'
  <2> DEFINE U == {c \in calls : Unstarted(c)}
             W == {c \in calls' : Unstarted(c)}
  <2>1. IsFiniteSet(U)
    BY FS_Subset DEF QoderIInv, CallsTyped
  <2>2. Unstarted(d)
    BY <1>2 DEF Unstarted
  <2>3. W = U \union {d}
    BY <1>2, <2>2
  <2>4. issued + Cardinality(U) <= attempts
    BY DEF QoderIInv, StartsAreCounted
  <2> HIDE DEF U, W
  <2>5. /\ Cardinality(U) \in Nat
        /\ Cardinality(W) = IF d \in U THEN Cardinality(U) ELSE Cardinality(U) + 1
    BY <2>1, <2>3, FS_AddElement, FS_CardinalityType
  <2>6. issued' + Cardinality(W) <= attempts'
    BY <1>1, <2>4, <2>5, Numbers
  <2>7. QED
    BY <2>6 DEF StartsAreCounted, W
<1>8. PageIsInOrder' /\ CompletingIsTrue'
  BY <1>1, <1>3, Numbers DEF PageIsInOrder, CompletingIsTrue
<1>9. PreparingIsTrue'
  BY <1>1, <1>2, <1>3 DEF PreparingIsTrue
<1>10. CompletedIsGone' /\ GivenUpIsKnown'
  BY <1>1, <1>2 DEF QoderIInv, CompletedIsGone, GivenUpIsKnown
<1>11. LoginIsHeld'
  <2>1. Holds(d, slot)
    BY <1>2 DEF Holds
  <2>2. QED
    BY <1>1, <1>2, <2>1 DEF LoginIsHeld
<1>12. QED
  BY <1>4, <1>5, <1>6, <1>7, <1>8, <1>9, <1>10, <1>11 DEF QoderIInv

\* A login that is shown early stays in the hands it was in.
LEMMA AdoptPendingIInv == ASSUME QoderBounds, QoderIInv, AdoptPending PROVE QoderIInv'
<1>1. /\ page.open /\ page.preparing
      /\ page' = [page EXCEPT !.url = TRUE, !.preparing = FALSE, !.failed = FALSE,
                              !.session = IF page.session = NoLogin THEN slot
                                          ELSE page.session]
      /\ UNCHANGED <<calls, attempts, slot, issued, expired, faults, torn, givenUp>>
  BY DEF AdoptPending, slotVars, history
<1> DEFINE s == IF page.session = NoLogin THEN slot ELSE page.session
<1>2. s \in Nat /\ s <= issued /\ s \in Logins \union {NoLogin}
  <2>1. s \in Nat /\ s <= issued
    BY Numbers DEF QoderIInv, PageIsInOrder
  <2>2. QED
    BY <2>1, LoginTyped
<1>3. /\ page' \in PageSet /\ page'.attempt = page.attempt /\ page'.session = s
      /\ ~page'.preparing /\ page'.completing = page.completing /\ page'.open = page.open
  <2>1. page' = [page EXCEPT !.url = TRUE, !.preparing = FALSE, !.failed = FALSE,
                             !.session = s]
    BY <1>1
  <2>2. page \in PageSet
    BY Numbers
  <2> HIDE DEF s
  <2>3. QED
    BY <1>2, <2>1, <2>2 DEF PageSet
<1>4. QoderTypeOK'
  BY <1>1, <1>3 DEF QoderIInv, QoderTypeOK, PageSet
<1>5. CallsTyped' /\ OneCallEach' /\ StartsAreCounted' /\ CompletedIsGone' /\ GivenUpIsKnown'
  BY <1>1 DEF QoderIInv, CallsTyped, OneCallEach, StartsAreCounted, CompletedIsGone,
              GivenUpIsKnown
<1>6. ~page.completing
  BY <1>1 DEF QoderIInv, PageIsInOrder
<1>7. PageIsInOrder' /\ CompletingIsTrue' /\ PreparingIsTrue'
  BY <1>1, <1>2, <1>3, <1>6
     DEF QoderIInv, PageIsInOrder, CompletingIsTrue, PreparingIsTrue
<1>8. LoginIsHeld'
  <2> SUFFICES ASSUME ~givenUp, slot \notin expired \union {NoLogin},
                      ~ \E c \in calls : Holds(c, slot)
               PROVE  /\ page'.session = slot
                      /\ \A c \in calls : c.op = "start" => c.attempt # page'.attempt
    BY <1>1 DEF LoginIsHeld
  <2>1. /\ page.session = slot
        /\ \A c \in calls : c.op = "start" => c.attempt # page.attempt
    BY DEF QoderIInv, LoginIsHeld
  <2>2. QED
    BY <1>3, <2>1
<1>9. QED
  BY <1>4, <1>5, <1>7, <1>8 DEF QoderIInv

\* The login of a command is known.
LEMMA OfCall ==
    ASSUME QoderBounds, QoderIInv, NEW c \in calls
    PROVE  /\ c \in CallSet /\ c.login \in Nat /\ c.login <= issued
           /\ c.login \in 0 .. MaxAttempts /\ c.login \in Logins \union {NoLogin}
           /\ c.attempt \in 0 .. MaxAttempts /\ c.attempt \in Nat
<1>1. c \in CallSet /\ c.login \in Nat /\ c.login <= issued /\ c.attempt \in Nat
  BY Numbers DEF QoderIInv, CallsTyped
<1>2. c.attempt \in 0 .. MaxAttempts
  BY <1>1 DEF CallSet
<1>3. QED
  BY <1>1, <1>2, LoginTyped

\* The cancel of the previous login is over and the start is sent.  Who tears
\* nothing finds the dialog in the attempt of the cancel.
LEMMA ReplacedIInv ==
    ASSUME QoderBounds, QoderIInv, NEW c \in calls, Replaced(c) PROVE QoderIInv'
<1> DEFINE d == Command("start", c.attempt, NoLogin)
<1>1. /\ c.op = "replace"
      /\ page' = [page EXCEPT !.session = NoLogin, !.url = FALSE,
                              !.failed = FALSE, !.preparing = TRUE, !.completing = FALSE]
      /\ calls' = (calls \ {c}) \union {d}
      /\ UNCHANGED <<attempts, slot, issued, expired, faults, torn, givenUp>>
  BY DEF Replaced, Replace, slotVars, history
<1>2. /\ d \in CallSet /\ d.op = "start" /\ d.attempt = c.attempt
      /\ d.login = NoLogin /\ d.pc = "called"
  <2>1. "start" \in Ops /\ NoLogin \in 0 .. MaxAttempts
    BY Numbers DEF Ops, NoLogin
  <2>2. QED
    BY <2>1, OfCall, QoderCallTyped
<1> HIDE DEF d
<1>3. /\ page' \in PageSet /\ page'.attempt = page.attempt /\ page'.session = NoLogin
      /\ page'.preparing /\ ~page'.completing /\ page'.open = page.open
  BY <1>1, Numbers DEF PageSet
<1>4. CallsTyped' /\ OneCallEach' /\ StartsAreCounted'
  <2>1. Unstarted(c) /\ c.op \in Leads /\ d.login <= issued
    BY <1>1, <1>2, Numbers DEF Unstarted, Leads, NoLogin
  <2>2. IsFiniteSet({d})
    BY FS_Singleton
  <2>3. QED
    BY <1>1, <1>2, <2>1, <2>2, CallGoesOn
<1>5. QoderTypeOK'
  BY <1>1, <1>3 DEF QoderIInv, QoderTypeOK, PageSet
<1>6. PageIsInOrder' /\ CompletingIsTrue'
  BY <1>1, <1>3, Numbers DEF QoderIInv, PageIsInOrder, CompletingIsTrue, NoLogin
<1>7. PreparingIsTrue'
  <2> SUFFICES ASSUME ~torn
               PROVE  /\ \A e \in calls' : e.op = "replace" => e.attempt = page.attempt
                      /\ \E e \in calls' : /\ e.op \in {"start", "peek"}
                                           /\ e.attempt = page.attempt
    BY <1>1, <1>3 DEF PreparingIsTrue
  <2>1. c.attempt = page.attempt
    BY <1>1 DEF QoderIInv, PreparingIsTrue
  <2>2. QED
    BY <1>1, <1>2, <2>1 DEF QoderIInv, PreparingIsTrue
<1>8. CompletedIsGone' /\ GivenUpIsKnown'
  BY <1>1, <1>2 DEF QoderIInv, CompletedIsGone, GivenUpIsKnown
<1>9. LoginIsHeld'
  <2>1. d \in calls' /\ Holds(d, slot)
    BY <1>1, <1>2 DEF Holds
  <2>2. QED
    BY <1>1, <2>1 DEF LoginIsHeld
<1>10. QED
  BY <1>4, <1>5, <1>6, <1>7, <1>8, <1>9 DEF QoderIInv

\* A start or a peek has found a login.  The dialog of its attempt takes it, and
\* no other start of this attempt could have put the login in the slot.
LEMMA AdoptIInv ==
    ASSUME QoderBounds, QoderIInv, NEW c \in calls, c.op \in {"start", "peek"}, c.pc = "ok",
           Adopt(c, c.login),
           UNCHANGED <<attempts, slot, issued, expired, faults, torn, givenUp>>
    PROVE  QoderIInv'
<1>1. /\ c.op \in Leads /\ c.attempt \in 1 .. attempts /\ ~Unstarted(c)
      /\ c.login \in Nat /\ c.login <= issued
      /\ c.login \in 0 .. MaxAttempts /\ c.login \in Logins \union {NoLogin}
      /\ c.attempt \in 0 .. MaxAttempts
  BY OfCall DEF QoderIInv, OneCallEach, Leads, Unstarted
<1>2. \A e \in calls : e.op \in {"start", "peek"} /\ e.attempt = c.attempt => e = c
  BY <1>1 DEF QoderIInv, OneCallEach, Leads
<1>3. CASE c.attempt = page.attempt
  <2> DEFINE d == Command("complete", c.attempt, c.login)
  <2>1. /\ page' = [page EXCEPT !.session = c.login, !.url = TRUE,
                                !.preparing = FALSE, !.completing = TRUE]
        /\ calls' = (calls \ {c}) \union {d}
    BY <1>3 DEF Adopt, Replace
  <2>2. /\ d \in CallSet /\ d.op = "complete" /\ d.attempt = c.attempt
        /\ d.login = c.login /\ d.pc = "called"
    <3>1. "complete" \in Ops
      BY DEF Ops
    <3>2. QED
      BY <1>1, <3>1, QoderCallTyped
  <2> HIDE DEF d
  <2>3. /\ page' \in PageSet /\ page'.attempt = page.attempt /\ page'.session = c.login
        /\ ~page'.preparing /\ page'.completing /\ page'.open = page.open
    BY <1>1, <2>1, Numbers DEF PageSet
  <2>4. CallsTyped' /\ OneCallEach' /\ StartsAreCounted'
    <3>1. IsFiniteSet({d}) /\ ~Unstarted(d)
      BY <2>2, FS_Singleton DEF Unstarted
    <3>2. QED
      BY <1>1, <2>1, <2>2, <3>1, CallGoesOn
  <2>5. QoderTypeOK'
    BY <2>3 DEF QoderIInv, QoderTypeOK, PageSet
  <2>6. PageIsInOrder'
    BY <1>1, <1>3, <2>3, Numbers DEF QoderIInv, PageIsInOrder
  <2>7. CompletingIsTrue'
    BY <1>3, <2>1, <2>2, <2>3 DEF CompletingIsTrue
  <2>8. PreparingIsTrue'
    BY <2>1, <2>2, <2>3 DEF QoderIInv, PreparingIsTrue
  <2>9. CompletedIsGone' /\ GivenUpIsKnown'
    BY <2>1, <2>2 DEF QoderIInv, CompletedIsGone, GivenUpIsKnown
  <2>10. LoginIsHeld'
    <3> SUFFICES ASSUME ~givenUp, slot \notin expired \union {NoLogin},
                        ~ \E e \in calls' : Holds(e, slot)
                 PROVE  /\ c.login = slot
                        /\ \A e \in calls' : e.op = "start" => e.attempt # page.attempt
      BY <2>3 DEF LoginIsHeld
    <3>1. \A e \in calls' : e.op = "start" => e.attempt # page.attempt
      BY <1>2, <1>3, <2>1, <2>2
    <3>2. c.op = "start"
      BY DEF QoderIInv, GivenUpIsKnown
    <3>3. Holds(c, slot)
      BY <1>3, <2>1, <3>2 DEF QoderIInv, LoginIsHeld
    <3>4. c.login = slot
      BY <3>2, <3>3 DEF Holds
    <3>5. QED
      BY <3>1, <3>4
  <2>11. QED
    BY <2>4, <2>5, <2>6, <2>7, <2>8, <2>9, <2>10 DEF QoderIInv
<1>4. CASE c.attempt # page.attempt
  <2> DEFINE D == Cancels(c.login)
  <2>1. page' = page /\ calls' = (calls \ {c}) \union D
    BY <1>4 DEF Adopt, Replace
  <2>2. /\ D \subseteq CallSet /\ IsFiniteSet(D)
        /\ \A d \in D : /\ d.op = "cancel" /\ d.login = c.login /\ d.pc = "called"
                        /\ ~Unstarted(d) /\ d.op \notin Leads
        /\ c.login # NoLogin => \E d \in D : d.op = "cancel" /\ d.login = c.login
    BY <1>1, CancelsTyped
  <2> HIDE DEF D
  <2>3. CallsTyped' /\ OneCallEach' /\ StartsAreCounted'
    BY <1>1, <2>1, <2>2, CallGoesOn
  <2>4. QoderTypeOK'
    BY <2>1 DEF QoderIInv, QoderTypeOK
  <2>5. PageIsInOrder'
    BY <2>1 DEF QoderIInv, PageIsInOrder
  <2>6. CompletingIsTrue'
    BY <2>1 DEF QoderIInv, CompletingIsTrue
  <2>7. PreparingIsTrue'
    BY <1>4, <2>1, <2>2 DEF QoderIInv, PreparingIsTrue
  <2>8. CompletedIsGone' /\ GivenUpIsKnown'
    BY <2>1, <2>2 DEF QoderIInv, CompletedIsGone, GivenUpIsKnown
  <2>9. LoginIsHeld'
    <3> SUFFICES ASSUME ~givenUp, slot \notin expired \union {NoLogin},
                        ~ \E e \in calls' : Holds(e, slot)
                 PROVE  /\ page.session = slot
                        /\ \A e \in calls' : e.op = "start" => e.attempt # page.attempt
      BY <2>1 DEF LoginIsHeld
    <3>1. c.login # slot
      BY <2>1, <2>2 DEF Holds
    <3>2. c.op = "start" /\ ~Holds(c, slot)
      BY <3>1 DEF QoderIInv, GivenUpIsKnown, Holds
    <3>3. ~ \E e \in calls : Holds(e, slot)
      BY <2>1, <3>2
    <3>4. /\ page.session = slot
          /\ \A e \in calls : e.op = "start" => e.attempt # page.attempt
      BY <3>3 DEF QoderIInv, LoginIsHeld
    <3>5. QED
      BY <2>1, <2>2, <3>4
  <2>10. QED
    BY <2>3, <2>4, <2>5, <2>6, <2>7, <2>8, <2>9 DEF QoderIInv
<1>5. QED
  BY <1>3, <1>4

\* Faults are bounded.
LEMMA FaultTyped ==
    ASSUME QoderBounds, QoderIInv
    PROVE  faults \in 0 .. MaxFaults /\ (Fault => faults' \in 0 .. MaxFaults)
<1>1. faults \in 0 .. MaxFaults
  BY DEF QoderIInv, QoderTypeOK
<1>2. MaxFaults \in Nat
  BY DEF QoderBounds
<1>3. QED
  BY <1>1, <1>2 DEF Fault

LEMMA StartReplyIInv ==
    ASSUME QoderBounds, QoderIInv, NEW c \in calls, StartReply(c) PROVE QoderIInv'
BY AdoptIInv DEF StartReply, slotVars, history

\* A peek that has found nothing ends the attempt.
LEMMA PeekReplyIInv ==
    ASSUME QoderBounds, QoderIInv, NEW c \in calls, PeekReply(c) PROVE QoderIInv'
<1>1. /\ c.op = "peek" /\ c.pc = "ok"
      /\ UNCHANGED <<attempts, slot, issued, expired, faults, torn, givenUp>>
  BY DEF PeekReply, slotVars, history
<1>2. CASE Adopt(c, c.login)
  BY <1>1, <1>2, AdoptIInv
<1>3. CASE /\ page' = IF c.attempt = page.attempt
                      THEN [page EXCEPT !.failed = TRUE, !.preparing = FALSE,
                                        !.completing = FALSE]
                      ELSE page
           /\ Replace(c, {})
  <2>1. calls' = calls \ {c}
    BY <1>3 DEF Replace
  <2>2. /\ page' \in PageSet /\ page'.attempt = page.attempt /\ page'.session = page.session
        /\ page'.open = page.open
        /\ c.attempt # page.attempt => page' = page
        /\ c.attempt = page.attempt => ~page'.preparing /\ ~page'.completing
    BY <1>3, Numbers DEF PageSet
  <2>3. CallsTyped' /\ OneCallEach' /\ StartsAreCounted'
    <3>1. calls' = (calls \ {c}) \union {} /\ IsFiniteSet({})
      BY <2>1, FS_EmptySet
    <3>2. QED
      BY <1>1, <3>1, CallGoesOn
  <2>4. QoderTypeOK'
    BY <1>1, <2>2 DEF QoderIInv, QoderTypeOK, PageSet
  <2>5. PageIsInOrder'
    BY <1>1, <2>2 DEF QoderIInv, PageIsInOrder
  <2>6. CompletingIsTrue'
    BY <1>1, <2>1, <2>2 DEF QoderIInv, CompletingIsTrue
  <2>7. PreparingIsTrue'
    BY <1>1, <2>1, <2>2 DEF QoderIInv, PreparingIsTrue
  <2>8. CompletedIsGone' /\ GivenUpIsKnown'
    BY <1>1, <2>1 DEF QoderIInv, CompletedIsGone, GivenUpIsKnown
  <2>9. LoginIsHeld'
    BY <1>1 DEF QoderIInv, GivenUpIsKnown, LoginIsHeld
  <2>10. QED
    BY <2>3, <2>4, <2>5, <2>6, <2>7, <2>8, <2>9 DEF QoderIInv
<1>4. QED
  BY <1>2, <1>3 DEF PeekReply

\* A start that is given up will issue its login all the same.  Its attempt goes on
\* with a peek if it is still the dialog's.
LEMMA StartTimesOutIInv ==
    ASSUME QoderBounds, QoderIInv, NEW c \in calls, StartTimesOut(c) PROVE QoderIInv'
<1> DEFINE d == [c EXCEPT !.op = "given up"]
           p == Command("peek", c.attempt, NoLogin)
           D == {d} \union (IF c.attempt = page.attempt THEN {p} ELSE {})
<1>1. /\ c.op = "start" /\ c.pc = "called" /\ givenUp' = TRUE
      /\ faults' = faults + 1 /\ faults < MaxFaults
      /\ calls' = (calls \ {c}) \union D
      /\ UNCHANGED <<page, attempts, slot, issued, expired, torn>>
  BY DEF StartTimesOut, Fault, Replace, slotVars
<1>2. /\ d \in CallSet /\ d.op = "given up" /\ d.attempt = c.attempt
      /\ d.login = c.login /\ d.pc = "called"
  <2>1. c \in CallSet /\ "given up" \in Ops
    BY OfCall DEF Ops
  <2>2. QED
    BY <1>1, <2>1 DEF CallSet
<1>3. /\ p \in CallSet /\ p.op = "peek" /\ p.attempt = c.attempt
      /\ p.login = NoLogin /\ p.pc = "called"
  <2>1. "peek" \in Ops /\ NoLogin \in 0 .. MaxAttempts
    BY Numbers DEF Ops, NoLogin
  <2>2. QED
    BY <2>1, OfCall, QoderCallTyped
<1>4. /\ IsFiniteSet(D) /\ d \in D /\ D \subseteq {d, p}
      /\ c.attempt = page.attempt => p \in D
  <2> HIDE DEF d, p
  <2>1. IsFiniteSet({d}) /\ IsFiniteSet({d, p})
    <3>1. IsFiniteSet({d})
      BY FS_Singleton
    <3>2. IsFiniteSet({d} \union {p}) /\ {d} \union {p} = {d, p}
      BY <3>1, FS_AddElement
    <3>3. QED
      BY <3>1, <3>2
  <2>2. D = {d} \/ D = {d, p}
    OBVIOUS
  <2>3. QED
    BY <2>1, <2>2
<1>5. /\ Unstarted(c) /\ Unstarted(d) /\ ~Unstarted(p)
      /\ c.op \in Leads /\ d.op \notin Leads
      /\ d.login <= issued /\ p.login <= issued
  <2> HIDE DEF d, p
  <2>1. c.login <= issued /\ NoLogin <= issued
    BY OfCall, Numbers DEF NoLogin
  <2>2. Unstarted(c) /\ Unstarted(d) /\ ~Unstarted(p)
    BY <1>1, <1>2, <1>3 DEF Unstarted
  <2>3. c.op \in Leads /\ d.op \notin Leads
    BY <1>1, <1>2 DEF Leads
  <2>4. QED
    BY <1>2, <1>3, <2>1, <2>2, <2>3
<1> HIDE DEF D, d, p
<1>6. CallsTyped' /\ OneCallEach' /\ StartsAreCounted'
  <2>1. \A e \in D : e = d \/ e = p
    BY <1>4
  <2>2. /\ D \subseteq CallSet
        /\ \A e \in D : /\ e.login <= issued'
                        /\ e.op # "complete" => e.pc \in {"called", "ok"}
        /\ \A e \in D : e.op \in Leads => c.op \in Leads /\ e.attempt = c.attempt
        /\ \A e, f \in D : e.op \in Leads /\ f.op \in Leads => e = f
        /\ \A e, f \in D : Unstarted(e) /\ Unstarted(f) => e = f
    BY <1>1, <1>2, <1>3, <1>5, <2>1
  <2>3. QED
    BY <1>1, <1>4, <1>5, <2>2, CallGoesOn
<1>7. QoderTypeOK'
  <2>1. faults' \in 0 .. MaxFaults
    BY FaultTyped DEF StartTimesOut
  <2>2. QED
    BY <1>1, <2>1 DEF QoderIInv, QoderTypeOK
<1>8. PageIsInOrder'
  BY <1>1 DEF QoderIInv, PageIsInOrder
<1>9. CompletingIsTrue'
  BY <1>1 DEF QoderIInv, CompletingIsTrue
<1>10. PreparingIsTrue'
  BY <1>1, <1>2, <1>3, <1>4 DEF QoderIInv, PreparingIsTrue
<1>11. CompletedIsGone' /\ GivenUpIsKnown' /\ LoginIsHeld'
  BY <1>1, <1>2, <1>3, <1>4 DEF QoderIInv, CompletedIsGone, GivenUpIsKnown, LoginIsHeld
<1>12. QED
  BY <1>6, <1>7, <1>8, <1>9, <1>10, <1>11 DEF QoderIInv

\* The wait for a login is over.  If the dialog lets the login go, it has been
\* taken out of the slot.
LEMMA CompleteReplyIInv ==
    ASSUME QoderBounds, QoderIInv, NEW c \in calls, CompleteReply(c) PROVE QoderIInv'
<1>1. /\ c.op = "complete" /\ calls' = calls \ {c}
      /\ UNCHANGED <<attempts, slot, issued, expired, torn, givenUp>>
  BY DEF CompleteReply, Replace, slotVars, history
<1>2. CallsTyped' /\ OneCallEach' /\ StartsAreCounted'
  <2>1. calls' = (calls \ {c}) \union {} /\ IsFiniteSet({})
    BY <1>1, FS_EmptySet
  <2>2. QED
    BY <1>1, <2>1, CallGoesOn
<1>3. CompletedIsGone' /\ GivenUpIsKnown'
  BY <1>1 DEF QoderIInv, CompletedIsGone, GivenUpIsKnown
<1>4. \A e \in calls : Holds(e, slot) => e \in calls'
  BY <1>1 DEF Holds
<1>5. CASE /\ c.attempt # page.attempt \/ c.login # page.session
           /\ UNCHANGED <<page, faults>>
  <2>1. QoderTypeOK' /\ PageIsInOrder'
    BY <1>1, <1>5 DEF QoderIInv, QoderTypeOK, PageIsInOrder
  <2>2. CompletingIsTrue' /\ PreparingIsTrue'
    BY <1>1, <1>5 DEF QoderIInv, CompletingIsTrue, PreparingIsTrue
  <2>3. LoginIsHeld'
    BY <1>1, <1>4, <1>5 DEF QoderIInv, LoginIsHeld
  <2>4. QED
    BY <1>2, <1>3, <2>1, <2>2, <2>3 DEF QoderIInv
<1>6. CASE /\ c.attempt = page.attempt /\ c.login = page.session
           /\ c.pc = "ok" /\ page' = Idle /\ UNCHANGED faults
  <2>1. QoderTypeOK'
    BY <1>1, <1>6, IdleFacts DEF QoderIInv, QoderTypeOK, PageSet
  <2>2. PageIsInOrder' /\ CompletingIsTrue'
    BY <1>6, IdleFacts, Numbers, <1>1 DEF PageIsInOrder, CompletingIsTrue, NoLogin
  <2>3. PreparingIsTrue'
    <3>1. ~torn => \A e \in calls : e.op # "replace"
      <4>1. \A e \in calls : e.op = "replace" => e.attempt # c.attempt
        BY <1>1 DEF QoderIInv, OneCallEach, Leads
      <4>2. QED
        BY <1>6, <4>1 DEF QoderIInv, PreparingIsTrue
    <3>2. QED
      BY <1>1, <1>6, <3>1, IdleFacts DEF PreparingIsTrue
  <2>4. LoginIsHeld'
    <3> SUFFICES ASSUME ~givenUp, slot \notin expired \union {NoLogin}
                 PROVE  \E e \in calls' : Holds(e, slot)
      BY <1>1 DEF LoginIsHeld
    <3>1. page.session # slot
      BY <1>1, <1>6 DEF QoderIInv, CompletedIsGone
    <3>2. QED
      BY <1>4, <3>1 DEF QoderIInv, LoginIsHeld
  <2>5. QED
    BY <1>2, <1>3, <2>1, <2>2, <2>3, <2>4 DEF QoderIInv
<1>7. CASE /\ c.attempt = page.attempt /\ c.login = page.session
           /\ faults' \in 0 .. MaxFaults
           /\ page' = [page EXCEPT !.failed = TRUE, !.completing = FALSE]
  <2>1. /\ page' \in PageSet /\ page'.attempt = page.attempt /\ page'.session = page.session
        /\ page'.open = page.open /\ page'.preparing = page.preparing
        /\ ~page'.completing
    BY <1>7, Numbers DEF PageSet
  <2>2. QoderTypeOK' /\ PageIsInOrder' /\ CompletingIsTrue'
    BY <1>1, <1>7, <2>1 DEF QoderIInv, QoderTypeOK, PageSet, PageIsInOrder, CompletingIsTrue
  <2>3. PreparingIsTrue'
    BY <1>1, <2>1 DEF QoderIInv, PreparingIsTrue
  <2>4. LoginIsHeld'
    BY <1>1, <1>4, <2>1 DEF QoderIInv, LoginIsHeld
  <2>5. QED
    BY <1>2, <1>3, <2>2, <2>3, <2>4 DEF QoderIInv
<1>8. faults \in 0 .. MaxFaults /\ (Fault => faults' \in 0 .. MaxFaults)
  BY FaultTyped
<1>9. QED
  BY <1>5, <1>6, <1>7, <1>8 DEF CompleteReply

LEMMA PageStepIInv == ASSUME QoderBounds, QoderIInv, PageStep PROVE QoderIInv'
BY PrepareIInv, AdoptPendingIInv, ReplacedIInv, StartReplyIInv, PeekReplyIInv,
   CompleteReplyIInv DEF PageStep

----------------------------------------------------------------------------
(* The backend                                                             *)

\* What all commands of the backend leave alone.
LEMMA BackendKeeps ==
    ASSUME QoderBounds, QoderIInv, NEW c \in calls, NEW D,
           calls' = (calls \ {c}) \union D,
           UNCHANGED <<page, attempts, torn, givenUp>>,
           issued \in Nat, issued' \in 0 .. attempts', issued <= issued',
           c.op \in Leads => \E d \in D : /\ d.op = c.op /\ d.attempt = c.attempt
                                          /\ c.op = "complete" => d.login = c.login,
           \A d \in D : d.op = c.op /\ d.attempt = c.attempt,
           slot' \in 0 .. issued', expired' = expired, faults' \in 0 .. MaxFaults
    PROVE  QoderTypeOK' /\ PageIsInOrder' /\ CompletingIsTrue' /\ PreparingIsTrue' /\ GivenUpIsKnown'
<1>1. PageIsInOrder' /\ CompletingIsTrue' /\ PreparingIsTrue'
  BY PageUndisturbed
<1>2. QoderTypeOK'
  <2>1. issued' \in Nat
    BY Numbers
  <2>2. expired' \subseteq 1 .. issued'
    BY <2>1 DEF QoderIInv, QoderTypeOK
  <2>3. QED
    BY <2>2 DEF QoderIInv, QoderTypeOK
<1>3. GivenUpIsKnown'
  BY DEF QoderIInv, GivenUpIsKnown
<1>4. QED
  BY <1>1, <1>2, <1>3

\* The slot keeps its login or loses it.
LEMMA SlotStays ==
    ASSUME QoderBounds, QoderIInv, issued' = issued, slot' = slot \/ slot' = NoLogin
    PROVE  issued \in Nat /\ issued <= issued' /\ slot' \in 0 .. issued'
<1>1. issued \in Nat /\ slot \in Nat /\ slot <= issued
  BY Numbers
<1>2. slot' = slot \/ slot' = 0
  BY DEF NoLogin
<1>3. QED
  BY <1>1, <1>2

\* A start puts its login into the slot, and holds it.
LEMMA StartIInv ==
    ASSUME QoderBounds, QoderIInv, NEW c \in calls, Start(c),
           UNCHANGED <<page, attempts, torn, givenUp, faults>>
    PROVE  QoderIInv'
<1> DEFINE l == issued + 1
           d == [c EXCEPT !.login = l, !.pc = "ok"]
           D == IF c.op = "start" THEN {d} ELSE {}
<1>1. /\ c.op \in {"start", "given up"} /\ c.pc = "called"
      /\ issued' = l /\ slot' = l /\ expired' = expired
      /\ calls' = (calls \ {c}) \union D
  BY DEF Start, Answered, Replace
<1>2. Unstarted(c)
  BY <1>1 DEF Unstarted
<1>3. l \in 0 .. MaxAttempts /\ l \in Nat /\ issued \in Nat /\ l > issued
  <2> DEFINE U == {e \in calls : Unstarted(e)}
  <2>1. IsFiniteSet(U) /\ Cardinality(U) \in Nat
    BY FS_Subset, FS_CardinalityType DEF QoderIInv, CallsTyped
  <2>2. U # {}
    BY <1>2
  <2> HIDE DEF U
  <2>3. Cardinality(U) # 0
    BY <2>1, <2>2, FS_EmptySet
  <2>4. issued + Cardinality(U) <= attempts
    BY DEF QoderIInv, StartsAreCounted, U
  <2>5. QED
    BY <2>1, <2>3, <2>4, Numbers
<1>4. /\ d \in CallSet /\ d.op = c.op /\ d.attempt = c.attempt
      /\ d.login = l /\ d.pc = "ok"
  <2>1. c \in CallSet /\ "ok" \in Pcs
    BY OfCall DEF Pcs
  <2> HIDE DEF l
  <2>2. QED
    BY <1>3, <2>1 DEF CallSet
<1>5. /\ IsFiniteSet(D) /\ \A e \in D : e = d
      /\ c.op = "start" => d \in D
      /\ c.op # "start" => D = {}
  BY FS_Singleton, FS_EmptySet
<1>6. /\ c.op # "replace" /\ c.op # "complete" /\ ~Unstarted(d)
      /\ c.op \in Leads => c.op = "start"
  BY <1>1, <1>4 DEF Unstarted, Leads
<1> HIDE DEF D, d
<1>7. CallsTyped' /\ OneCallEach' /\ StartsAreCounted' /\ issued' \in 0 .. attempts'
  <2>1. /\ D \subseteq CallSet
        /\ \A e \in D : /\ e.login <= issued'
                        /\ e.op # "complete" => e.pc \in {"called", "ok"}
        /\ \A e \in D : e.op \in Leads => c.op \in Leads /\ e.attempt = c.attempt
        /\ \A e, f \in D : e.op \in Leads /\ f.op \in Leads => e = f
        /\ \A e \in D : ~Unstarted(e)
    <3>1. d \in CallSet /\ d.login <= issued' /\ d.pc \in {"called", "ok"}
      <4>1. d.login = l /\ issued' = l /\ d.pc = "ok" /\ d \in CallSet
        BY <1>1, <1>4
      <4>2. l <= l
        BY <1>3
      <4> HIDE DEF l
      <4>3. QED
        BY <4>1, <4>2
    <3>2. D = {} \/ (D = {d} /\ c.op = "start")
      BY <1>5
    <3>3. d.op \in Leads => c.op \in Leads /\ d.attempt = c.attempt
      BY <1>4
    <3>4. ~Unstarted(d)
      BY <1>6
    <3> HIDE DEF l
    <3>5. QED
      BY <3>1, <3>2, <3>3, <3>4
  <2>2. QED
    BY <1>1, <1>2, <1>5, <2>1, CallGoesOn
<1>8. QoderTypeOK' /\ PageIsInOrder' /\ CompletingIsTrue' /\ PreparingIsTrue' /\ GivenUpIsKnown'
  <2>1. issued \in Nat /\ issued <= issued' /\ slot' \in 0 .. issued' /\ faults' \in 0 .. MaxFaults
    <3> HIDE DEF l
    <3>0. issued' = l /\ slot' = l /\ l \in Nat /\ issued \in Nat /\ l > issued
      BY <1>1, <1>3
    <3>1. issued <= issued'
      BY <3>0
    <3>2. slot' \in 0 .. issued'
      BY <3>0
    <3>3. faults' \in 0 .. MaxFaults
      BY FaultTyped
    <3>4. QED
      BY <1>3, <3>1, <3>2, <3>3
  <2>2. \A e \in D : e.op = c.op /\ e.attempt = c.attempt
    BY <1>4, <1>5
  <2>3. c.op \in Leads => \E e \in D : /\ e.op = c.op /\ e.attempt = c.attempt
                                       /\ c.op = "complete" => e.login = c.login
    <3> HIDE DEF l
    <3>1. c.op \in Leads => c.op = "start" /\ c.op # "complete" /\ d \in D
      BY <1>5, <1>6
    <3>2. QED
      BY <1>4, <3>1
  <2>4. QED
    BY <1>1, <1>7, <2>1, <2>2, <2>3, BackendKeeps
<1>9. CompletedIsGone'
  <2>1. \A e \in calls : e.login <= issued /\ e.login \in Nat
    BY OfCall
  <2>2. \A e \in calls : e.login # l
    BY <1>3, <2>1
  <2> HIDE DEF l
  <2>3. QED
    BY <1>1, <1>4, <1>5, <1>6, <2>2 DEF CompletedIsGone
<1>10. LoginIsHeld'
  <2> SUFFICES ASSUME ~givenUp PROVE \E e \in calls' : Holds(e, slot')
    BY <1>1 DEF LoginIsHeld
  <2>1. c.op = "start"
    BY <1>1 DEF QoderIInv, GivenUpIsKnown
  <2>2. d \in calls' /\ Holds(d, slot')
    BY <1>1, <1>4, <1>5, <2>1 DEF Holds
  <2>3. QED
    BY <2>2
<1>11. QED
  BY <1>7, <1>8, <1>9, <1>10 DEF QoderIInv

\* An answer that leaves the command's attempt, and the numbers, alone.
LEMMA AnsweredIInv ==
    ASSUME QoderBounds, QoderIInv, NEW c \in calls, c.op \notin {"start", "given up"},
           NEW l \in 0 .. MaxAttempts, l <= issued, NEW pc \in Pcs,
           c.op # "complete" => pc \in {"called", "ok"},
           c.op = "complete" => l = c.login,
           Answered(c, l, pc),
           UNCHANGED <<page, attempts, torn, givenUp, issued, expired>>,
           faults' \in 0 .. MaxFaults,
           slot' = slot \/ slot' = NoLogin,
           c.op = "complete" /\ pc = "ok" /\ slot' # NoLogin => c.login # slot',
           c.op = "cancel" => l = c.login
    PROVE  QoderIInv'
<1> DEFINE d == [c EXCEPT !.login = l, !.pc = pc]
<1>1. calls' = (calls \ {c}) \union {d}
  BY DEF Answered, Replace
<1>2. /\ d \in CallSet /\ d.op = c.op /\ d.attempt = c.attempt
      /\ d.login = l /\ d.pc = pc
  BY OfCall DEF CallSet
<1>3. IsFiniteSet({d}) /\ (Unstarted(d) => Unstarted(c))
  BY <1>2, FS_Singleton DEF Unstarted
<1> HIDE DEF d
<1>4. CallsTyped' /\ OneCallEach' /\ StartsAreCounted' /\ issued' \in 0 .. attempts'
  BY <1>1, <1>2, <1>3, CallGoesOn
<1>5. QoderTypeOK' /\ PageIsInOrder' /\ CompletingIsTrue' /\ PreparingIsTrue' /\ GivenUpIsKnown'
  <2>1. issued \in Nat /\ issued <= issued' /\ slot' \in 0 .. issued'
    BY SlotStays
  <2> DEFINE D == {d}
  <2>2. calls' = (calls \ {c}) \union D /\ expired' = expired
    BY <1>1
  <2>3. \A e \in D : e.op = c.op /\ e.attempt = c.attempt
    BY <1>2
  <2>4. c.op \in Leads => \E e \in D : /\ e.op = c.op /\ e.attempt = c.attempt
                                       /\ c.op = "complete" => e.login = c.login
    BY <1>2
  <2> HIDE DEF D
  <2>5. QED
    BY <1>4, <2>1, <2>2, <2>3, <2>4, BackendKeeps
<1>6. CompletedIsGone'
  BY <1>1, <1>2 DEF QoderIInv, CompletedIsGone
<1>7. LoginIsHeld'
  <2> SUFFICES ASSUME ~givenUp, slot' \notin expired \union {NoLogin},
                      ~ \E e \in calls' : Holds(e, slot')
               PROVE  /\ page.session = slot'
                      /\ \A e \in calls' : e.op = "start" => e.attempt # page.attempt
    BY DEF LoginIsHeld
  <2>1. slot' = slot
    OBVIOUS
  <2>2. Holds(c, slot) => Holds(d, slot)
    BY <1>2 DEF Holds
  <2>3. ~ \E e \in calls : Holds(e, slot)
    BY <1>1, <2>1, <2>2
  <2>4. QED
    BY <1>1, <1>2, <2>1, <2>3 DEF QoderIInv, LoginIsHeld
<1>8. QED
  BY <1>4, <1>5, <1>6, <1>7 DEF QoderIInv

LEMMA PeekIInv ==
    ASSUME QoderBounds, QoderIInv, NEW c \in calls, Peek(c),
           UNCHANGED <<page, attempts, torn, givenUp, faults>>
    PROVE  QoderIInv'
<1> DEFINE l == IF slot \in expired THEN NoLogin ELSE slot
<1>1. /\ c.op = "peek" /\ Answered(c, l, "ok") /\ UNCHANGED <<slot, issued, expired>>
  BY DEF Peek, slotVars
<1>2. l \in 0 .. MaxAttempts /\ l <= issued
  BY Numbers DEF NoLogin
<1>3. "ok" \in Pcs /\ faults' \in 0 .. MaxFaults
  BY FaultTyped DEF Pcs
<1> HIDE DEF l
<1>4. QED
  BY <1>1, <1>2, <1>3, AnsweredIInv

\* A cancel empties the slot if its own login is there.  One that precedes a start
\* holds the slot for that start.
LEMMA CancelIInv ==
    ASSUME QoderBounds, QoderIInv, NEW c \in calls, Cancel(c),
           UNCHANGED <<page, attempts, torn, givenUp, faults>>
    PROVE  QoderIInv'
<1>1. /\ c.op \in {"cancel", "replace"} /\ c.pc = "called"
      /\ slot' = IF slot = c.login THEN NoLogin ELSE slot
      /\ UNCHANGED <<issued, expired>>
  BY DEF Cancel, Clear
<1>2. faults' \in 0 .. MaxFaults /\ "ok" \in Pcs
  BY FaultTyped DEF Pcs
<1>3. CASE c.op = "replace"
  <2>1. Answered(c, c.login, "ok")
    BY <1>3 DEF Cancel
  <2>2. QED
    BY <1>1, <1>2, <1>3, <2>1, OfCall, AnsweredIInv
<1>4. CASE c.op = "cancel"
  <2>1. calls' = (calls \ {c}) \union {} /\ IsFiniteSet({})
    BY <1>4, FS_EmptySet DEF Cancel, Replace
  <2>2. CallsTyped' /\ OneCallEach' /\ StartsAreCounted' /\ issued' \in 0 .. attempts'
    BY <1>1, <2>1, CallGoesOn
  <2>3. QoderTypeOK' /\ PageIsInOrder' /\ CompletingIsTrue' /\ PreparingIsTrue' /\ GivenUpIsKnown'
    <3>1. slot' = slot \/ slot' = NoLogin
      BY <1>1
    <3>2. issued \in Nat /\ issued <= issued' /\ slot' \in 0 .. issued'
      BY <1>1, <3>1, SlotStays
    <3>3. c.op \notin Leads
      BY <1>4 DEF Leads
    <3> DEFINE D == {}
    <3>4. calls' = (calls \ {c}) \union D /\ expired' = expired /\ \A e \in D : FALSE
      BY <1>1, <2>1
    <3> HIDE DEF D
    <3>5. QED
      BY <1>2, <2>2, <3>1, <3>2, <3>3, <3>4, BackendKeeps
  <2>4. CompletedIsGone'
    BY <1>1, <2>1 DEF QoderIInv, CompletedIsGone
  <2>5. LoginIsHeld'
    <3> SUFFICES ASSUME ~givenUp, slot' \notin expired \union {NoLogin},
                        ~ \E e \in calls' : Holds(e, slot')
                 PROVE  /\ page.session = slot'
                        /\ \A e \in calls' : e.op = "start" => e.attempt # page.attempt
      BY <1>1 DEF LoginIsHeld
    <3>1. slot' = slot /\ slot # c.login
      BY <1>1
    <3>2. ~Holds(c, slot)
      BY <1>4, <3>1 DEF Holds
    <3>3. ~ \E e \in calls : Holds(e, slot)
      BY <2>1, <3>1, <3>2
    <3>4. QED
      BY <2>1, <3>1, <3>3 DEF QoderIInv, LoginIsHeld
  <2>6. QED
    BY <2>2, <2>3, <2>4, <2>5 DEF QoderIInv
<1>5. QED
  BY <1>1, <1>3, <1>4

LEMMA CheckIInv ==
    ASSUME QoderBounds, QoderIInv, NEW c \in calls, Check(c),
           UNCHANGED <<page, attempts, torn, givenUp, faults>>
    PROVE  QoderIInv'
<1> DEFINE pc == IF slot # c.login THEN "error"
                 ELSE IF slot \in expired THEN "stuck" ELSE "polling"
<1>1. /\ c.op = "complete" /\ Answered(c, c.login, pc)
      /\ UNCHANGED <<slot, issued, expired>>
  BY DEF Check, slotVars
<1>2. pc \in Pcs /\ pc # "ok"
  BY DEF Pcs
<1> HIDE DEF pc
<1>3. QED
  BY <1>1, <1>2, FaultTyped, OfCall, AnsweredIInv

\* A poll that brings an account takes its login out of the slot.
LEMMA PollIInv ==
    ASSUME QoderBounds, QoderIInv, NEW c \in calls, Poll(c),
           UNCHANGED <<page, attempts, torn, givenUp>>
    PROVE  QoderIInv'
<1>1. c.op = "complete" /\ UNCHANGED <<issued, expired>>
  BY DEF Poll, QoderIInv, CallsTyped
<1>2. {"called", "ok", "error"} \subseteq Pcs
  BY DEF Pcs
<1>3. c.login \in 0 .. MaxAttempts /\ c.login <= issued
  BY OfCall
<1>4. CASE Answered(c, c.login, "called") /\ UNCHANGED <<slot, faults>>
  BY <1>1, <1>2, <1>3, <1>4, FaultTyped, AnsweredIInv
<1>5. CASE Clear(c.login) /\ Answered(c, c.login, "ok") /\ UNCHANGED faults
  <2>1. slot' = IF slot = c.login THEN NoLogin ELSE slot
    BY <1>5 DEF Clear
  <2>2. QED
    BY <1>1, <1>2, <1>3, <1>5, <2>1, FaultTyped, AnsweredIInv
<1>6. CASE Fault /\ Answered(c, c.login, "error") /\ UNCHANGED slot
  BY <1>1, <1>2, <1>3, <1>6, FaultTyped, AnsweredIInv
<1>7. QED
  BY <1>4, <1>5, <1>6 DEF Poll

LEMMA ExpireIInv ==
    ASSUME QoderBounds, QoderIInv, Expire, UNCHANGED <<page, attempts, torn, givenUp>>
    PROVE  QoderIInv'
<1>1. PICK l \in Logins : /\ l = slot \/ \E c \in calls : c.login = l
                          /\ expired' = expired \union {l}
  BY DEF Expire
<1>2. UNCHANGED <<calls, slot, issued, faults, page, attempts, torn, givenUp>>
  BY DEF Expire
<1>3. l \in 1 .. issued
  <2>1. l \in Nat /\ l >= 1
    BY <1>1, Numbers DEF Logins
  <2>2. l <= issued
    BY <1>1, OfCall, Numbers
  <2>3. QED
    BY <2>1, <2>2, Numbers
<1>4. QoderTypeOK'
  BY <1>1, <1>2, <1>3 DEF QoderIInv, QoderTypeOK
<1>5. CallsTyped' /\ OneCallEach' /\ CompletedIsGone' /\ GivenUpIsKnown'
  <2>1. CallsTyped'
    BY <1>2 DEF QoderIInv, CallsTyped
  <2>2. OneCallEach'
    BY <1>2 DEF QoderIInv, OneCallEach
  <2>3. CompletedIsGone'
    BY <1>2 DEF QoderIInv, CompletedIsGone
  <2>4. GivenUpIsKnown'
    <3>1. GivenUpIsKnown /\ givenUp' = givenUp /\ calls' = calls
      BY <1>2 DEF QoderIInv
    <3>2. ~givenUp' => \A c \in calls' : c.op \notin {"given up", "peek"}
      BY ONLY <3>1, Zenon DEF GivenUpIsKnown
    <3>3. QED
      BY ONLY <3>2 DEF GivenUpIsKnown
  <2>5. QED
    BY <2>1, <2>2, <2>3, <2>4
<1>6. StartsAreCounted' /\ PageIsInOrder' /\ CompletingIsTrue' /\ PreparingIsTrue'
  BY <1>2 DEF QoderIInv, StartsAreCounted, PageIsInOrder, CompletingIsTrue, PreparingIsTrue
<1>7. LoginIsHeld'
  BY <1>1, <1>2 DEF QoderIInv, LoginIsHeld
<1>8. QED
  BY <1>4, <1>5, <1>6, <1>7 DEF QoderIInv

LEMMA BackendStepIInv == ASSUME QoderBounds, QoderIInv, BackendStep PROVE QoderIInv'
<1>1. UNCHANGED <<page, attempts, torn, givenUp>>
  BY DEF BackendStep, pageVars, history
<1>2. CASE Expire
  BY <1>1, <1>2, ExpireIInv
<1>3. ASSUME NEW c \in calls,
             (Start(c) \/ Peek(c) \/ Cancel(c) \/ Check(c)) /\ UNCHANGED faults
      PROVE  QoderIInv'
  BY <1>1, <1>3, StartIInv, PeekIInv, CancelIInv, CheckIInv
<1>4. ASSUME NEW c \in calls, Poll(c) PROVE QoderIInv'
  BY <1>1, <1>4, PollIInv
<1>5. QED
  BY <1>2, <1>3, <1>4 DEF BackendStep, CommandStep

----------------------------------------------------------------------------
(* Theorems                                                                *)

LEMMA QoderInductive == ASSUME QoderBounds, QoderIInv, [QoderNext]_vars PROVE QoderIInv'
<1>1. CASE UserStep
  BY <1>1, OpenIInv, CloseIInv DEF UserStep
<1>2. CASE PageStep
  BY <1>2, PageStepIInv
<1>3. CASE BackendStep
  BY <1>3, BackendStepIInv
<1>4. ASSUME NEW c \in calls, StartTimesOut(c) PROVE QoderIInv'
  BY <1>4, StartTimesOutIInv
<1>5. CASE UNCHANGED vars
  <2>1. UNCHANGED <<page, calls, attempts, slot, issued, expired, faults, torn, givenUp>>
    BY <1>5 DEF vars
  <2>2. QoderTypeOK' /\ CallsTyped' /\ OneCallEach' /\ StartsAreCounted'
    BY <2>1 DEF QoderIInv, QoderTypeOK, CallsTyped, OneCallEach, StartsAreCounted
  <2>3. PageIsInOrder' /\ CompletingIsTrue' /\ CompletedIsGone'
    BY <2>1 DEF QoderIInv, PageIsInOrder, CompletingIsTrue, CompletedIsGone
  <2>4. PreparingIsTrue'
    BY <2>1 DEF QoderIInv, PreparingIsTrue
  <2>5. GivenUpIsKnown'
    BY <2>1 DEF QoderIInv, GivenUpIsKnown
  <2>6. LoginIsHeld'
    BY <2>1 DEF QoderIInv, LoginIsHeld
  <2>7. QED
    BY <2>2, <2>3, <2>4, <2>5, <2>6 DEF QoderIInv
<1>6. QED
  BY <1>1, <1>2, <1>3, <1>4, <1>5 DEF QoderNext

LEMMA QoderInvariance == ASSUME QoderBounds PROVE QoderSpec => []QoderIInv
<1>1. QoderInit => QoderIInv
  BY QoderInitIInv
<1>2. QoderIInv /\ [QoderNext]_vars => QoderIInv'
  BY QoderInductive
<1>3. QED
  BY <1>1, <1>2, PTL DEF QoderSpec

\* What the dialog, the commands and the slot hold is of its type: no login is in
\* the slot or past its time that no start has issued, and there are never more
\* logins than attempts.
THEOREM QoderTypeCorrect == ASSUME QoderBounds PROVE QoderSpec => []QoderTypeOK
<1>1. QoderIInv => QoderTypeOK
  BY DEF QoderIInv
<1>2. QED
  BY <1>1, QoderInvariance, PTL

\* A dialog that says it is preparing, or waiting, has the command in flight that
\* will end that, unless a dialog was closed or an attempt made between the two
\* parts of another attempt.
THEOREM WorkGoesOn == ASSUME QoderBounds PROVE QoderSpec => []WorkInProgress
<1>1. QoderIInv => WorkInProgress
  <2> SUFFICES ASSUME QoderIInv, ~torn, page.open
               PROVE  /\ page.preparing =>
                           \E c \in calls : /\ c.attempt = page.attempt
                                           /\ c.op \in {"start", "peek", "replace"}
                      /\ page.completing =>
                           \E c \in calls : c.attempt = page.attempt /\ c.op = "complete"
    BY DEF WorkInProgress
  <2>1. page.preparing => \E c \in calls : /\ c.attempt = page.attempt
                                          /\ c.op \in {"start", "peek", "replace"}
    BY DEF QoderIInv, PreparingIsTrue
  <2>2. page.completing =>
            \E c \in calls : c.attempt = page.attempt /\ c.op = "complete"
    BY DEF QoderIInv, CompletingIsTrue
  <2>3. QED
    BY <2>1, <2>2
<1>2. QED
  BY <1>1, QoderInvariance, PTL

\* If no start was given up, a dialog that is closed leaves no login behind that
\* could still be completed, once its commands have been carried out: somebody
\* always holds the login that is in the slot, and the last to hold it cancels it.
THEOREM ClosedCancelled == ASSUME QoderBounds PROVE QoderSpec => []ClosedMeansCancelled
<1>1. ASSUME QoderBounds, QoderIInv PROVE ClosedMeansCancelled
  <2> SUFFICES ASSUME ~givenUp, ~page.open, \A c \in calls : c.op = "complete"
               PROVE  slot \in expired \union {NoLogin}
    BY DEF ClosedMeansCancelled
  <2>1. ~ \E c \in calls : Holds(c, slot)
    BY DEF Holds
  <2>2. page.session = NoLogin
    BY <1>1 DEF QoderIInv, PageIsInOrder
  <2>3. QED
    BY <1>1, <2>1, <2>2 DEF QoderIInv, LoginIsHeld
<1>2. QED
  BY <1>1, QoderInvariance, PTL
=============================================================================
