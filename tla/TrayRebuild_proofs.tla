------------------------- MODULE TrayRebuild_proofs -------------------------
(***************************************************************************)
(* For every set of platforms, callers and workers, and every number of    *)
(* changes: the safety properties of TrayRebuild.                          *)
(*                                                                         *)
(* The argument rests on IInv.  OneSlot (whoever claimed the slot is the   *)
(* only one between claim and release) is inductive by itself and carries  *)
(* the rest: since only one worker collects, its generation is the current *)
(* one when its snapshot is applied, so no snapshot is ever dropped, and   *)
(* `menu` was taken from an earlier snapshot than `seen`.                  *)
(* NothingForgotten and SomebodyServes together say where a request is:    *)
(* counted, with somebody about to serve it; or taken, by a worker whose   *)
(* snapshot will show it; or settled.                                      *)
(***************************************************************************)
EXTENDS TrayRebuild, TLAPS

\* A worker that has taken requests and not yet had its snapshot applied.
Serving(w) == worker[w].at \in {"collect", "submit", "wait"}

\* OneRebuilder, with its kinds of owner told apart.
OneSlot ==
    /\ \A v, w \in Workers : Rebuilding(v) /\ Rebuilding(w) => v = w
    /\ \A c, d \in Callers : caller[c] = "spawn" /\ caller[d] = "spawn" => c = d
    /\ \A c \in Callers, w \in Workers : ~(caller[c] = "spawn" /\ Rebuilding(w))
    /\ scheduled <=> \/ \E w \in Workers : Rebuilding(w)
                     \/ \E c \in Callers : caller[c] = "spawn"

\* The UI thread has at most one closure, that of a waiting worker.
QueueMatches ==
    queue = <<>> \/ \E w \in Workers : queue = <<w>> /\ worker[w].at = "wait"

\* A snapshot that is to be applied is complete and has the last generation.
SnapshotReady ==
    \A w \in Workers : worker[w].at \in {"submit", "wait"} =>
        worker[w].unread = {} /\ worker[w].gen = generation

\* What is shown is older than what is collected, and that than the data.
VersionsOrdered ==
    /\ \A p \in Platforms : asked[p] <= data[p] /\ menu[p] <= data[p]
    /\ \A w \in Workers : Serving(w) =>
        \A p \in Platforms \ worker[w].unread :
            menu[p] <= worker[w].seen[p] /\ worker[w].seen[p] <= data[p]

\* With the counter at zero, a change is settled or in a worker's hands.
NothingForgotten ==
    requests = 0 =>
        /\ \A w \in Workers : Serving(w) => worker[w].took = asked
        /\ \A p \in Platforms :
            \/ Settled(p)
            \/ \E w \in Workers :
                /\ Serving(w)
                /\ p \in worker[w].unread \/ asked[p] <= worker[w].seen[p]

\* With the counter above zero, somebody is going to look at it.
SomebodyServes ==
    requests # 0 => \/ \E c \in Callers : caller[c] \in {"claim", "spawn"}
                    \/ \E w \in Workers : worker[w].at # "idle"

IInv ==
    /\ TypeOK
    /\ OneSlot
    /\ QueueMatches
    /\ SnapshotReady
    /\ VersionsOrdered
    /\ NothingForgotten
    /\ SomebodyServes

----------------------------------------------------------------------------
\* The initial version and the state of an idle worker have their types.
LEMMA IdleTyped == None \in Version /\ Idle \in WorkerState
<1>1. None \in Version
  BY DEF None, Version
<1>2. QED
  BY <1>1 DEF Idle, WorkerState

\* Before the first change there is nothing to show and nobody rebuilds.
LEMMA InitIInv == Init => IInv
<1> SUFFICES ASSUME Init PROVE IInv
  OBVIOUS
<1> USE DEF Init
<1>1. TypeOK
  <2>1. queue \in Seq(Workers) /\ caller \in [Callers -> {"idle", "count", "claim", "spawn"}]
    OBVIOUS
  <2>2. QED
    BY <2>1, IdleTyped DEF TypeOK
<1>2. \A w \in Workers : worker[w].at = "idle"
  BY DEF Idle
<1>3. OneSlot /\ QueueMatches /\ SnapshotReady /\ SomebodyServes
  BY <1>2 DEF OneSlot, Rebuilding, QueueMatches, SnapshotReady, SomebodyServes
<1>4. VersionsOrdered /\ NothingForgotten
  BY <1>2 DEF VersionsOrdered, NothingForgotten, Serving, Settled, None
<1>5. QED
  BY <1>1, <1>3, <1>4 DEF IInv

\* The steps of callers preserve the invariant.
LEMMA ChangeIInv ==
    ASSUME NEW c \in Callers, NEW p \in Platforms, IInv, Change(c, p)
    PROVE  IInv'
<1> USE DEF IInv, Change, history
<1>1. TypeOK'
  BY DEF TypeOK, Version
<1>2. OneSlot' /\ QueueMatches' /\ SnapshotReady'
  BY DEF TypeOK, OneSlot, Rebuilding, QueueMatches, SnapshotReady
<1>3. VersionsOrdered'
  <2>1. \A q \in Platforms : data[q] \in Nat /\ data'[q] \in Nat /\ data[q] <= data'[q]
    BY DEF TypeOK, Version
  <2>2. \A q \in Platforms : asked[q] \in Nat /\ menu[q] \in Nat
    BY DEF TypeOK, Version
  <2>3. \A w \in Workers, q \in Platforms : worker[w].seen[q] \in Nat
    BY DEF TypeOK, WorkerState, Version
  <2>4. QED
    BY <2>1, <2>2, <2>3 DEF VersionsOrdered, Serving
<1>4. NothingForgotten' /\ SomebodyServes'
  BY DEF TypeOK, NothingForgotten, Serving, Settled, SomebodyServes
<1>5. QED
  BY <1>1, <1>2, <1>3, <1>4

LEMMA CallerIInv ==
    ASSUME NEW c \in Callers, IInv, CallerStep(c)
    PROVE  IInv'
<1>1. CASE CountRequest(c)
  <2> USE <1>1 DEF IInv, CountRequest
  <2>1. TypeOK'
    BY DEF TypeOK
  <2>2. OneSlot' /\ QueueMatches' /\ SnapshotReady'
    BY DEF TypeOK, OneSlot, Rebuilding, QueueMatches, SnapshotReady
  <2>3. VersionsOrdered'
    BY DEF TypeOK, Version, VersionsOrdered, Serving
  <2>4. NothingForgotten' /\ SomebodyServes'
    BY DEF TypeOK, NothingForgotten, SomebodyServes
  <2>5. QED
    BY <2>1, <2>2, <2>3, <2>4
<1>2. CASE Claim(c)
  <2> USE <1>2 DEF IInv, Claim, history
  <2>1. TypeOK'
    BY DEF TypeOK
  <2>2. OneSlot'
    BY DEF TypeOK, OneSlot, Rebuilding
  <2>3. QueueMatches' /\ SnapshotReady' /\ VersionsOrdered' /\ NothingForgotten'
    BY DEF QueueMatches, SnapshotReady, VersionsOrdered, NothingForgotten,
           Serving, Settled
  <2>4. SomebodyServes'
    BY DEF TypeOK, OneSlot, Rebuilding, SomebodyServes
  <2>5. QED
    BY <2>1, <2>2, <2>3, <2>4
<1>3. ASSUME NEW w \in Workers, Spawn(c, w)
      PROVE  IInv'
  <2> USE <1>3 DEF IInv, Spawn, history
  <2>1. TypeOK'
    BY IdleTyped DEF TypeOK, WorkerState
  <2>2. worker'[w].at = "sleep" /\ \A v \in Workers \ {w} : worker'[v] = worker[v]
    BY DEF TypeOK, Idle
  <2>3. OneSlot'
    BY <2>2 DEF TypeOK, OneSlot, Rebuilding
  <2>4. QueueMatches' /\ SnapshotReady' /\ VersionsOrdered'
    BY <2>2 DEF QueueMatches, SnapshotReady, VersionsOrdered, Serving
  <2>5. NothingForgotten' /\ SomebodyServes'
    BY <2>2 DEF NothingForgotten, Serving, Settled, SomebodyServes
  <2>6. QED
    BY <2>1, <2>3, <2>4, <2>5
<1>4. QED
  BY <1>1, <1>2, <1>3 DEF CallerStep

\* The steps of workers preserve it.
LEMMA TakeIInv ==
    ASSUME NEW w \in Workers, IInv, Take(w)
    PROVE  IInv'
<1> USE DEF IInv, Take, history
<1>1. TypeOK'
  BY IdleTyped DEF TypeOK, WorkerState
<1>2. /\ worker'[w].at = "collect"
      /\ worker'[w].unread = Platforms
      /\ worker'[w].took = asked
      /\ \A v \in Workers \ {w} : worker'[v] = worker[v]
  BY DEF TypeOK, Idle
<1>3. OneSlot'
  BY <1>2 DEF OneSlot, Rebuilding
<1>4. QueueMatches' /\ SnapshotReady'
  BY <1>2 DEF QueueMatches, SnapshotReady
<1>5. VersionsOrdered'
  BY <1>2 DEF VersionsOrdered, Serving
<1>6. NothingForgotten'
  BY <1>2 DEF NothingForgotten, Serving, OneSlot, Rebuilding
<1>7. SomebodyServes'
  BY DEF SomebodyServes
<1>8. QED
  BY <1>1, <1>3, <1>4, <1>5, <1>6, <1>7

LEMMA CollectIInv ==
    ASSUME NEW w \in Workers, NEW p \in Platforms, IInv, Collect(w, p)
    PROVE  IInv'
<1>1. /\ UNCHANGED <<data, menu, requests, scheduled, generation, caller, queue,
                     asked, given_up>>
      /\ worker[w].at = "collect" /\ worker[w] \in WorkerState
      /\ data \in Version
  BY DEF Collect, history, IInv, TypeOK
<1>2. worker' = [worker EXCEPT ![w] = [worker[w] EXCEPT
                    !.unread = worker[w].unread \ {p},
                    !.seen = [worker[w].seen EXCEPT ![p] = data[p]]]]
  BY DEF Collect, IInv, TypeOK, WorkerState
<1>3. worker'[w] \in WorkerState
  BY <1>1, <1>2 DEF WorkerState, Version, IInv, TypeOK
<1>4. /\ worker'[w].at = "collect"
      /\ worker'[w].unread = worker[w].unread \ {p}
      /\ worker'[w].took = worker[w].took
      /\ worker'[w].seen[p] = data[p]
      /\ \A q \in Platforms \ {p} : worker'[w].seen[q] = worker[w].seen[q]
      /\ \A v \in Workers \ {w} : worker'[v] = worker[v]
  BY <1>1, <1>2 DEF IInv, TypeOK, WorkerState, Version
<1>5. TypeOK'
  <2>1. worker' \in [Workers -> WorkerState]
    BY <1>2, <1>3, <1>4 DEF IInv, TypeOK
  <2>2. QED
    BY <1>1, <2>1 DEF IInv, TypeOK
<1>6. \A v \in Workers : worker'[v].at = worker[v].at
  BY <1>1, <1>4
<1>7. OneSlot' /\ QueueMatches' /\ SnapshotReady' /\ SomebodyServes'
  BY <1>1, <1>4, <1>6 DEF IInv, OneSlot, Rebuilding, QueueMatches, SnapshotReady,
                          SomebodyServes
<1>8. VersionsOrdered'
  <2>1. data[p] \in Nat /\ menu[p] <= data[p]
    BY <1>1 DEF Version, IInv, VersionsOrdered
  <2>2. \A q \in Platforms \ worker'[w].unread :
            menu[q] <= worker'[w].seen[q] /\ worker'[w].seen[q] <= data[q]
    BY <1>1, <1>4, <2>1 DEF IInv, VersionsOrdered, Serving
  <2>3. QED
    BY <1>1, <1>4, <2>2 DEF IInv, VersionsOrdered, Serving
<1>9. NothingForgotten'
  <2>1. \A q \in Platforms :
            q \in worker[w].unread \/ asked[q] <= worker[w].seen[q]
            => q \in worker'[w].unread \/ asked[q] <= worker'[w].seen[q]
    BY <1>1, <1>4 DEF IInv, VersionsOrdered
  <2>2. QED
    BY <1>1, <1>4, <1>6, <2>1 DEF IInv, NothingForgotten, Serving, Settled
<1>10. QED
  BY <1>5, <1>7, <1>8, <1>9 DEF IInv

LEMMA NumberIInv ==
    ASSUME NEW w \in Workers, IInv, Number(w)
    PROVE  IInv'
<1>1. /\ UNCHANGED <<data, menu, requests, scheduled, caller, queue, asked, given_up>>
      /\ worker[w].at = "collect" /\ worker[w].unread = {}
      /\ worker[w] \in WorkerState
      /\ generation' = generation + 1 /\ generation' \in Nat
  BY DEF Number, history, IInv, TypeOK
<1>2. worker' = [worker EXCEPT ![w] = [worker[w] EXCEPT
                    !.at = "submit", !.gen = generation']]
  BY DEF Number, IInv, TypeOK
<1>3. worker'[w] \in WorkerState
  BY <1>1, <1>2 DEF WorkerState, IInv, TypeOK
<1>4. /\ worker'[w].at = "submit" /\ worker'[w].gen = generation'
      /\ worker'[w].unread = {} /\ worker'[w].took = worker[w].took
      /\ worker'[w].seen = worker[w].seen
      /\ \A v \in Workers \ {w} : worker'[v] = worker[v]
  BY <1>1, <1>2 DEF IInv, TypeOK, WorkerState
<1>5. TypeOK'
  <2>1. worker' \in [Workers -> WorkerState]
    BY <1>2, <1>3, <1>4 DEF IInv, TypeOK
  <2>2. QED
    BY <1>1, <2>1 DEF IInv, TypeOK
<1>6. OneSlot' /\ QueueMatches' /\ SomebodyServes'
  BY <1>1, <1>4 DEF IInv, OneSlot, Rebuilding, QueueMatches, SomebodyServes
<1>7. SnapshotReady'
  BY <1>1, <1>4 DEF IInv, SnapshotReady, OneSlot, Rebuilding
<1>8. VersionsOrdered' /\ NothingForgotten'
  BY <1>1, <1>4 DEF IInv, VersionsOrdered, NothingForgotten, Settled, Serving
<1>9. QED
  BY <1>5, <1>6, <1>7, <1>8 DEF IInv

LEMMA SubmitIInv ==
    ASSUME NEW w \in Workers, IInv, Submit(w)
    PROVE  IInv'
<1>1. /\ UNCHANGED <<data, menu, requests, scheduled, generation, caller, asked,
                     given_up>>
      /\ worker[w].at = "submit" /\ worker[w] \in WorkerState
  BY DEF Submit, history, IInv, TypeOK
<1>2. worker' = [worker EXCEPT ![w] = [worker[w] EXCEPT !.at = "wait"]]
  BY DEF Submit, IInv, TypeOK
<1>3. worker'[w] \in WorkerState
  BY <1>1, <1>2 DEF WorkerState, IInv, TypeOK
<1>4. /\ worker'[w].at = "wait" /\ worker'[w].gen = worker[w].gen
      /\ worker'[w].unread = worker[w].unread
      /\ worker'[w].took = worker[w].took /\ worker'[w].seen = worker[w].seen
      /\ \A v \in Workers \ {w} : worker'[v] = worker[v]
  BY <1>1, <1>2 DEF IInv, TypeOK, WorkerState
<1>5. queue' = <<w>>
  <2>1. queue = <<>>
    BY <1>1 DEF IInv, QueueMatches, OneSlot, Rebuilding
  <2>2. QED
    BY <2>1 DEF Submit
<1>6. TypeOK'
  <2>1. worker' \in [Workers -> WorkerState] /\ queue' \in Seq(Workers)
    BY <1>2, <1>3, <1>4, <1>5 DEF IInv, TypeOK
  <2>2. QED
    BY <1>1, <2>1 DEF IInv, TypeOK
<1>7. OneSlot' /\ QueueMatches' /\ SomebodyServes'
  BY <1>1, <1>4, <1>5 DEF IInv, OneSlot, Rebuilding, QueueMatches, SomebodyServes
<1>8. SnapshotReady' /\ VersionsOrdered' /\ NothingForgotten'
  BY <1>1, <1>4 DEF IInv, SnapshotReady, VersionsOrdered, NothingForgotten,
                    Settled, Serving
<1>9. QED
  BY <1>6, <1>7, <1>8 DEF IInv

\* A worker that gets its answer has shown its snapshot or given up what it
\* took.
LEMMA AnswerIInv ==
    ASSUME NEW w \in Workers, IInv,
           worker[w].at \in {"submit", "wait"},
           worker' = [worker EXCEPT ![w] = [Idle EXCEPT !.at = "release"]],
           queue' = <<>>,
           UNCHANGED <<data, requests, scheduled, generation, caller, asked>>,
           \/ menu' = worker[w].seen /\ UNCHANGED given_up
           \/ UNCHANGED menu /\ given_up' = worker[w].took
    PROVE  IInv'
<1>1. worker[w] \in WorkerState /\ Serving(w) /\ worker[w].unread = {}
  BY DEF IInv, TypeOK, SnapshotReady, Serving
<1>2. worker'[w].at = "release" /\ \A v \in Workers \ {w} : worker'[v] = worker[v]
  BY DEF IInv, TypeOK, Idle
<1>3. \A v \in Workers : ~Serving(v)'
  BY <1>1, <1>2 DEF IInv, OneSlot, Rebuilding, Serving
<1>4. TypeOK'
  <2>1. worker' \in [Workers -> WorkerState]
    BY IdleTyped DEF IInv, TypeOK, WorkerState
  <2>2. menu' \in Version /\ given_up' \in Version
    BY <1>1 DEF IInv, TypeOK, WorkerState
  <2>3. queue' \in Seq(Workers)
    OBVIOUS
  <2>4. QED
    BY <2>1, <2>2, <2>3 DEF IInv, TypeOK
<1>5. OneSlot'
  BY <1>1, <1>2 DEF IInv, OneSlot, Rebuilding, Serving
<1>6. QueueMatches' /\ SnapshotReady' /\ SomebodyServes'
  BY <1>2, <1>3 DEF IInv, QueueMatches, SnapshotReady, Serving, SomebodyServes
<1>7. VersionsOrdered'
  BY <1>1, <1>3 DEF IInv, VersionsOrdered, Serving
<1>8. NothingForgotten'
  <2> SUFFICES ASSUME requests = 0, NEW p \in Platforms
               PROVE  Settled(p)'
    BY <1>3 DEF NothingForgotten, Serving
  <2>1. CASE UNCHANGED menu /\ given_up' = worker[w].took
    <3>1. given_up' = asked /\ asked[p] \in Nat
      BY <1>1, <2>1 DEF IInv, NothingForgotten, TypeOK, Version
    <3>2. QED
      BY <3>1 DEF Settled
  <2>2. CASE menu' = worker[w].seen /\ UNCHANGED given_up
    <3>1. asked[p] \in Nat /\ menu[p] \in Nat /\ worker[w].seen[p] \in Nat
      BY <1>1 DEF IInv, TypeOK, WorkerState, Version
    <3>2. menu[p] <= worker[w].seen[p]
      BY <1>1 DEF IInv, VersionsOrdered
    <3>3. Settled(p) \/ asked[p] <= worker[w].seen[p]
      BY <1>1 DEF IInv, NothingForgotten, OneSlot, Rebuilding, Serving
    <3>4. QED
      BY <2>2, <3>1, <3>2, <3>3 DEF Settled
  <2>3. QED
    BY <2>1, <2>2
<1>9. QED
  BY <1>4, <1>5, <1>6, <1>7, <1>8 DEF IInv

\* What the UI thread has first is the snapshot of the one waiting worker.
LEMMA HeadWaits ==
    ASSUME IInv, queue # <<>>
    PROVE  /\ Head(queue) \in Workers
           /\ worker[Head(queue)].at = "wait"
           /\ ~IsStale(Head(queue))
           /\ Tail(queue) = <<>>
<1>1. PICK w \in Workers : queue = <<w>> /\ worker[w].at = "wait"
  BY DEF IInv, QueueMatches
<1>2. Head(queue) = w /\ Tail(queue) = <<>>
  BY <1>1
<1>3. QED
  BY <1>1, <1>2 DEF IInv, SnapshotReady, IsStale

LEMMA UIIInv ==
    ASSUME IInv, UIStep
    PROVE  IInv'
<1>1. queue # <<>>
  BY DEF UIStep, Apply, ApplyFails, Answer
<1>2. QED
  BY <1>1, HeadWaits, AnswerIInv DEF UIStep, Apply, ApplyFails, Answer

LEMMA SubmitFailsIInv ==
    ASSUME NEW w \in Workers, IInv, SubmitFails(w)
    PROVE  IInv'
<1>1. queue = <<>>
  BY DEF SubmitFails, IInv, QueueMatches, OneSlot, Rebuilding
<1>2. QED
  BY <1>1, AnswerIInv DEF SubmitFails

\* Steps that only move a worker that holds no snapshot keep all that is said
\* of snapshots.
LEMMA MoveIInv ==
    ASSUME NEW w \in Workers, IInv,
           NEW l \in {"idle", "sleep", "recheck", "reclaim"},
           worker[w].at \in {"release", "recheck", "reclaim"},
           worker' = [worker EXCEPT ![w].at = l],
           scheduled' \in BOOLEAN, OneSlot', SomebodyServes',
           UNCHANGED <<data, menu, requests, generation, caller, queue, asked, given_up>>
    PROVE  IInv'
<1>1. worker' = [worker EXCEPT ![w] = [worker[w] EXCEPT !.at = l]]
  BY DEF IInv, TypeOK
<1>2. [worker[w] EXCEPT !.at = l] \in WorkerState
  <2>1. worker[w] \in WorkerState
    BY DEF IInv, TypeOK
  <2>2. QED
    BY <2>1 DEF WorkerState
<1>3. worker'[w].at = l /\ \A v \in Workers \ {w} : worker'[v] = worker[v]
  BY <1>1 DEF IInv, TypeOK, WorkerState
<1>4. TypeOK'
  <2>1. worker' \in [Workers -> WorkerState]
    BY <1>1, <1>2 DEF IInv, TypeOK
  <2>2. QED
    BY <2>1 DEF IInv, TypeOK
<1>5. \A v \in Workers : Serving(v)' => Serving(v) /\ worker'[v] = worker[v]
  BY <1>3 DEF Serving
<1>6. \A v \in Workers : Serving(v) => Serving(v)' /\ worker'[v] = worker[v]
  BY <1>3 DEF Serving
<1>7. QueueMatches' /\ SnapshotReady'
  BY <1>3 DEF IInv, QueueMatches, SnapshotReady
<1>8. VersionsOrdered'
  BY <1>5 DEF IInv, VersionsOrdered
<1>9. NothingForgotten'
  BY <1>5, <1>6 DEF IInv, NothingForgotten, Settled
<1>10. QED
  BY <1>4, <1>7, <1>8, <1>9 DEF IInv

LEMMA RetireIInv ==
    ASSUME NEW w \in Workers, IInv, Release(w) \/ Recheck(w) \/ Reclaim(w)
    PROVE  IInv'
<1>1. \A v \in Workers \ {w} : worker'[v] = worker[v]
  BY DEF Release, Recheck, Reclaim, IInv, TypeOK
<1>2. CASE Release(w)
  <2>1. worker'[w].at = "recheck"
    BY <1>2 DEF Release, IInv, TypeOK, WorkerState
  <2>2. OneSlot' /\ SomebodyServes'
    BY <1>1, <1>2, <2>1 DEF Release, IInv, OneSlot, Rebuilding, SomebodyServes
  <2>3. QED
    BY <1>2, <2>2, MoveIInv DEF Release, history
<1>3. CASE Recheck(w)
  <2>1. worker'[w].at = IF requests = 0 THEN "idle" ELSE "reclaim"
    BY <1>3 DEF Recheck, IInv, TypeOK, WorkerState
  <2>2. OneSlot' /\ SomebodyServes'
    BY <1>1, <1>3, <2>1 DEF Recheck, IInv, OneSlot, Rebuilding, SomebodyServes
  <2>3. QED
    BY <1>3, <2>2, MoveIInv DEF Recheck, history, IInv, TypeOK
<1>4. CASE Reclaim(w)
  <2>1. worker'[w].at = IF scheduled THEN "idle" ELSE "sleep"
    BY <1>4 DEF Reclaim, IInv, TypeOK, WorkerState
  <2>2. OneSlot' /\ SomebodyServes'
    BY <1>1, <1>4, <2>1 DEF Reclaim, IInv, TypeOK, OneSlot, Rebuilding, SomebodyServes
  <2>3. QED
    BY <1>4, <2>2, MoveIInv DEF Reclaim, history
<1>5. QED
  BY <1>2, <1>3, <1>4

----------------------------------------------------------------------------
\* A step that changes nothing preserves the invariant.
LEMMA StutterIInv == IInv /\ UNCHANGED vars => IInv'
BY DEF vars, IInv, TypeOK, OneSlot, Rebuilding, QueueMatches, SnapshotReady,
       VersionsOrdered, Serving, NothingForgotten, Settled, SomebodyServes

\* IInv is inductive.
LEMMA Inductive == IInv /\ [Next]_vars => IInv'
<1> SUFFICES ASSUME IInv, [Next]_vars PROVE IInv'
  OBVIOUS
<1>1. ASSUME NEW c \in Callers, NEW p \in Platforms, Change(c, p) PROVE IInv'
  BY <1>1, ChangeIInv
<1>2. ASSUME NEW c \in Callers, CallerStep(c) PROVE IInv'
  BY <1>2, CallerIInv
<1>3. ASSUME NEW w \in Workers, WorkerStep(w) PROVE IInv'
  BY <1>3, TakeIInv, CollectIInv, NumberIInv, SubmitIInv, SubmitFailsIInv,
     RetireIInv DEF WorkerStep
<1>4. CASE UIStep
  BY <1>4, UIIInv
<1>5. CASE UNCHANGED vars
  BY <1>5, StutterIInv
<1>6. QED
  BY <1>1, <1>2, <1>3, <1>4, <1>5 DEF Next

\* The invariant holds in every reachable state.
THEOREM Invariance == Spec => []IInv
BY InitIInv, Inductive, PTL DEF Spec

\* Every variable keeps its type.
THEOREM TypeCorrect == Spec => []TypeOK
<1>1. IInv => TypeOK
  BY DEF IInv
<1>2. QED
  BY Invariance, <1>1, PTL

\* The slot taken by update_tray_menu and by a worker that goes on has one
\* owner, so rebuilds never overlap.
THEOREM RebuildsDoNotOverlap == Spec => []OneRebuilder
<1>1. IInv => OneRebuilder
  BY DEF IInv, OneSlot, OneRebuilder, Owners
<1>2. QED
  BY Invariance, <1>1, PTL

\* When update_tray_menu has returned everywhere and the workers are gone, no
\* request is left over.
THEOREM NoRequestIsLost == Spec => []QuietMenuIsCurrent
<1>1. IInv => QuietMenuIsCurrent
  BY DEF IInv, NothingForgotten, SomebodyServes, Serving, QuietMenuIsCurrent
<1>2. QED
  BY Invariance, <1>1, PTL

\* No snapshot is dropped as stale: while the slot has one owner, the
\* generation counter is a second defence that never acts.
THEOREM NoSnapshotIsDropped ==
    Spec => [](queue # <<>> => ~IsStale(Head(queue)))
<1>1. IInv => (queue # <<>> => ~IsStale(Head(queue)))
  BY HeadWaits
<1>2. QED
  BY Invariance, <1>1, PTL

\* What the apply on the UI thread puts into the menu is never older than what
\* is there.
THEOREM MenuIsMonotonic == Spec => MenuNeverGoesBack
<1>1. ASSUME IInv, [Next]_vars
      PROVE  [\A p \in Platforms : menu[p] <= menu'[p]]_vars
  <2>1. CASE UIStep
    <3>1. queue # <<>>
      BY <2>1 DEF UIStep, Apply, ApplyFails, Answer
    <3>2. PICK w \in Workers : Head(queue) = w /\ worker[w].at = "wait"
      BY <1>1, <3>1, HeadWaits
    <3>3. \A p \in Platforms : menu[p] <= worker[w].seen[p] /\ menu[p] \in Nat
      BY <1>1, <3>2 DEF IInv, SnapshotReady, VersionsOrdered, Serving, TypeOK, Version
    <3>4. menu' = menu \/ menu' = worker[w].seen
      BY <2>1, <3>2 DEF UIStep, Apply, ApplyFails
    <3>5. QED
      BY <3>3, <3>4
  <2>2. CASE UNCHANGED menu
    BY <1>1, <2>2 DEF IInv, TypeOK, Version
  <2>3. CASE Next /\ ~UIStep
    BY <2>2, <2>3 DEF Next, Change, CallerStep, CountRequest, Claim, Spawn,
       WorkerStep, Take, Number, Submit, SubmitFails, Release, Recheck, Reclaim,
       Collect
  <2>4. QED
    BY <1>1, <2>1, <2>2, <2>3 DEF vars
<1>2. QED
  BY Invariance, <1>1, PTL DEF Spec, MenuNeverGoesBack
=============================================================================
