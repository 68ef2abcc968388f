----------------------- MODULE DeferredRewrite_proofs -----------------------
(***************************************************************************)
(* For every finite set of accounts, every number of loaders, every        *)
(* capacity of the queue and every number of edits and faults: the safety  *)
(* properties of DeferredRewrite, and that rewrites come to an end.        *)
(*                                                                         *)
(* Keys are accounted for by EachKeyOnce, in which the queue is injective  *)
(* rather than counted.  That a rewrite is needed when it happens          *)
(* (SourcesWantRewriting) holds although the job is old, since a content   *)
(* that has been replaced never comes back: every write draws a stamp that *)
(* no source has (StampsAreFresh).  Each rewrite therefore ends a need     *)
(* that was there at the start or came from a rotation (NeedsAreCounted),  *)
(* which also bounds the stamps.                                           *)
(***************************************************************************)
EXTENDS DeferredRewrite, FiniteSetTheorems, SequenceTheorems, TLAPS

\* KeysAccountedFor, with the queue told apart by position.
EachKeyOnce ==
    /\ pending = Queued \union Sending \union Holding
    /\ Queued \intersect Sending = {}
    /\ Holding \intersect (Queued \union Sending) = {}
    /\ \A i, j \in DOMAIN queue : queue[i].key = queue[j].key => i = j
    /\ \A l, m \in Loaders :
         loader[l].at = "send" /\ loader[m].at = "send" /\ l # m
           => loader[l].key # loader[m].key

\* The jobs there are, in a loader's hands, in the queue and in the worker's.
Sources ==
    {[key |-> loader[l].key, src |-> loader[l].src] :
        l \in {m \in Loaders : loader[m].at # "idle"}}
    \union {queue[i] : i \in DOMAIN queue}
    \union (IF job = NoJob THEN {} ELSE {job})

\* No content is younger than the last write.
StampsAreFresh ==
    /\ \A a \in Accounts : file[a] # Absent => file[a].stamp <= stamp
    /\ \A s \in Sources : s.src.stamp <= stamp

\* A job that would still find its content finds it in need.
SourcesWantRewriting ==
    \A s \in Sources : file[s.key] = s.src => NeedsRewrite(s.key)

Needy == {a \in Accounts : NeedsRewrite(a)}

\* Every write is an edit or has ended a need.
NeedsAreCounted == stamp + Cardinality(Needy) <= edits + Cardinality(Accounts)

IInv ==
    /\ TypeOK
    /\ EachKeyOnce
    /\ StampsAreFresh
    /\ SourcesWantRewriting
    /\ NeedsAreCounted

----------------------------------------------------------------------------
\* A sequence after an element has joined at its end.
LEMMA AppendedElement ==
    ASSUME NEW S, NEW s \in Seq(S), NEW e \in S
    PROVE  /\ Append(s, e) \in Seq(S)
           /\ DOMAIN Append(s, e) = (DOMAIN s) \union {Len(s) + 1}
           /\ Append(s, e)[Len(s) + 1] = e
           /\ \A i \in DOMAIN s : Append(s, e)[i] = s[i]
<1>1. Len(s) \in Nat /\ DOMAIN s = 1 .. Len(s)
  BY LenProperties
<1>2. Append(s, e) \in Seq(S) /\ Len(Append(s, e)) = Len(s) + 1
  OBVIOUS
<1>3. DOMAIN Append(s, e) = 1 .. (Len(s) + 1)
  BY <1>2, LenProperties
<1>4. QED
  BY <1>1, <1>2, <1>3

\* The bounds are numbers.
LEMMA BoundsTyped == Cardinality(Accounts) \in Nat /\ MaxStamp \in Nat
BY FS_CardinalityType, AccountsFinite, BoundsAreNat DEF MaxStamp

\* Some of the accounts are finitely many, and no more than all.
LEMMA SomeAccounts ==
    ASSUME NEW S \in SUBSET Accounts
    PROVE  /\ IsFiniteSet(S)
           /\ Cardinality(S) \in Nat
           /\ Cardinality(S) <= Cardinality(Accounts)
BY FS_Subset, FS_CardinalityType, AccountsFinite

\* The counted needs bound the stamps: there is room for the next write.
LEMMA StampBound ==
    ASSUME NEW n \in Nat, NEW S \in SUBSET Accounts, NEW e \in 0 .. MaxEdits,
           n + Cardinality(S) <= e + Cardinality(Accounts)
    PROVE  n \in 0 .. MaxStamp
BY SomeAccounts, BoundsTyped, BoundsAreNat DEF MaxStamp

\* What the loaders, the queue and the worker hold are jobs.
LEMMA SourcesTyped == TypeOK => Sources \subseteq Job
<1> SUFFICES ASSUME TypeOK PROVE Sources \subseteq Job
  OBVIOUS
<1>1. \A l \in Loaders : loader[l].at # "idle" =>
         [key |-> loader[l].key, src |-> loader[l].src] \in Job
  BY DEF TypeOK, LoaderState, Job
<1>2. \A i \in DOMAIN queue : queue[i] \in Job
  BY DEF TypeOK
<1>3. job # NoJob => job \in Job
  BY DEF TypeOK
<1>4. QED
  BY <1>1, <1>2, <1>3 DEF Sources

\* Nobody has loaded anything at the start.
LEMMA InitIInv == Init => IInv
<1> SUFFICES ASSUME Init PROVE IInv
  OBVIOUS
<1> USE DEF Init
<1>1. Sources = {}
  BY DEF Sources
<1>2. TypeOK
  <2>1. file \in [Accounts -> Content \union {Absent}]
    BY BoundsTyped DEF Content
  <2>2. loader \in [Loaders -> LoaderState]
    BY DEF LoaderState
  <2>3. queue \in Seq(Job)
    OBVIOUS
  <2>4. stamp \in 0 .. MaxStamp /\ edits \in 0 .. MaxEdits /\ faults \in 0 .. MaxFaults
    BY BoundsTyped, BoundsAreNat
  <2>5. QED
    BY <2>1, <2>2, <2>3, <2>4 DEF TypeOK
<1>3. EachKeyOnce
  BY DEF EachKeyOnce, Queued, Sending, Holding
<1>4. StampsAreFresh
  <2>1. \A a \in Accounts : file[a] # Absent => file[a].stamp = 0
    OBVIOUS
  <2>2. QED
    BY <1>1, <2>1 DEF StampsAreFresh
<1>5. SourcesWantRewriting
  BY <1>1 DEF SourcesWantRewriting
<1>6. NeedsAreCounted
  BY SomeAccounts, BoundsTyped DEF NeedsAreCounted, Needy
<1>7. QED
  BY <1>2, <1>3, <1>4, <1>5, <1>6 DEF IInv

\* A step that leaves the files alone and makes no new job keeps what is
\* known of jobs and needs.
LEMMA FilesKept ==
    ASSUME IInv, UNCHANGED <<file, aged, stamp, edits>>,
           Sources' \subseteq Sources
    PROVE  StampsAreFresh' /\ SourcesWantRewriting' /\ NeedsAreCounted'
<1> USE DEF IInv
<1>1. StampsAreFresh'
  BY DEF StampsAreFresh
<1>2. SourcesWantRewriting'
  BY DEF SourcesWantRewriting, NeedsRewrite
<1>3. NeedsAreCounted'
  BY DEF NeedsAreCounted, Needy, NeedsRewrite
<1>4. QED
  BY <1>1, <1>2, <1>3

\* A loader's job is typed, and it is one of the sources.
LEMMA LoadIInv ==
    ASSUME NEW l \in Loaders, IInv, Load(l)
    PROVE  IInv'
<1> USE DEF IInv, Load
<1>1. PICK a \in Accounts :
        /\ NeedsRewrite(a)
        /\ loader' = [loader EXCEPT ![l] =
                        [at |-> "insert", key |-> a, src |-> file[a]]]
  OBVIOUS
<1>2. file[a] \in Content
  BY <1>1 DEF NeedsRewrite, TypeOK
<1>3. TypeOK'
  <2>1. [at |-> "insert", key |-> a, src |-> file[a]] \in LoaderState
    BY <1>2 DEF LoaderState
  <2>2. loader' \in [Loaders -> LoaderState]
    BY <1>1, <2>1 DEF TypeOK
  <2>3. QED
    BY <2>2 DEF TypeOK
<1>4. EachKeyOnce'
  <2>1. Sending' = Sending
    BY <1>1 DEF TypeOK, Sending
  <2>2. \A m \in Loaders : loader'[m].at = "send" => loader'[m] = loader[m]
    BY <1>1 DEF TypeOK
  <2>3. QED
    BY <2>1, <2>2 DEF EachKeyOnce, Queued, Holding
<1>5. Sources' \subseteq Sources \union {[key |-> a, src |-> file[a]]}
  BY <1>1 DEF TypeOK, Sources
<1>6. StampsAreFresh'
  BY <1>1, <1>5 DEF StampsAreFresh, NeedsRewrite
<1>7. SourcesWantRewriting'
  BY <1>1, <1>5 DEF SourcesWantRewriting, NeedsRewrite
<1>8. NeedsAreCounted'
  BY DEF NeedsAreCounted, Needy, NeedsRewrite
<1>9. QED
  BY <1>3, <1>4, <1>6, <1>7, <1>8

LEMMA InsertIInv ==
    ASSUME NEW l \in Loaders, IInv, Insert(l)
    PROVE  IInv'
<1> USE DEF Insert
<1> DEFINE k == loader[l].key
<1>1. loader[l].at = "insert" /\ k \in Accounts /\ loader[l].src \in Content
  BY DEF IInv, TypeOK, LoaderState
<1>2. CASE k \in pending
  <2>1. TypeOK'
    BY <1>1, <1>2 DEF IInv, TypeOK, LoaderState
  <2>2. Sending' = Sending
    BY <1>1, <1>2 DEF IInv, TypeOK, Sending
  <2>3. \A m \in Loaders : loader'[m].at = "send" => loader'[m] = loader[m]
    BY <1>1, <1>2 DEF IInv, TypeOK
  <2>4. EachKeyOnce'
    BY <1>2, <2>2, <2>3 DEF IInv, EachKeyOnce, Queued, Holding
  <2>5. Sources' \subseteq Sources
    BY <1>1, <1>2 DEF IInv, TypeOK, Sources
  <2>6. QED
    BY <2>1, <2>4, <2>5, FilesKept DEF IInv
<1>3. CASE k \notin pending
  <2>1. /\ pending' = pending \union {k}
        /\ loader' = [loader EXCEPT ![l].at = "send"]
    BY <1>3
  <2>2. TypeOK'
    <3>1. [loader[l] EXCEPT !.at = "send"] \in LoaderState
      BY <1>1 DEF IInv, TypeOK, LoaderState
    <3>2. loader' \in [Loaders -> LoaderState]
      BY <2>1, <3>1 DEF IInv, TypeOK
    <3>3. QED
      BY <1>1, <2>1, <3>2 DEF IInv, TypeOK
  <2>3. /\ loader'[l].at = "send" /\ loader'[l].key = k
        /\ loader'[l].src = loader[l].src
        /\ \A m \in Loaders : m # l => loader'[m] = loader[m]
    BY <1>1, <2>1 DEF IInv, TypeOK, LoaderState
  <2>4. Sending' = Sending \union {k}
    BY <1>1, <2>3 DEF Sending
  <2>5. Queued' = Queued /\ Holding' = Holding
    BY DEF Queued, Holding
  <2>6. k \notin Queued /\ k \notin Sending /\ k \notin Holding
    BY <1>3 DEF IInv, EachKeyOnce
  <2>7. \A m \in Loaders : loader[m].at = "send" => loader[m].key # k
    BY <2>6 DEF Sending
  <2>8. EachKeyOnce'
    BY <1>1, <2>1, <2>3, <2>4, <2>5, <2>6, <2>7 DEF IInv, EachKeyOnce
  <2>9. Sources' \subseteq Sources
    BY <1>1, <2>3 DEF Sources
  <2>10. QED
    BY <2>2, <2>8, <2>9, FilesKept DEF IInv
<1>4. QED
  BY <1>2, <1>3

\* The sender's key goes on into the queue with its job, or is given back.
LEMMA SendIInv ==
    ASSUME NEW l \in Loaders, IInv, Send(l)
    PROVE  IInv'
<1> USE DEF Send
<1> DEFINE k == loader[l].key
           j == [key |-> k, src |-> loader[l].src]
<1>1. loader[l].at = "send" /\ k \in Accounts /\ j \in Job
  BY DEF IInv, TypeOK, LoaderState, Job
<1>2. loader'[l].at = "idle" /\ \A m \in Loaders : m # l => loader'[m] = loader[m]
  BY DEF IInv, TypeOK
<1>3. loader' \in [Loaders -> LoaderState]
  BY DEF IInv, TypeOK, LoaderState
<1>4. Sending' = Sending \ {k}
  BY <1>1, <1>2 DEF IInv, EachKeyOnce, Sending
<1>5. Holding' = Holding /\ k \in Sending
  BY <1>1 DEF Holding, Sending
<1>6. CASE Len(queue) < Capacity
  <2>1. /\ queue' = Append(queue, j)
        /\ pending' = pending
        /\ queue' \in Seq(Job)
        /\ DOMAIN queue' = (DOMAIN queue) \union {Len(queue) + 1}
        /\ queue'[Len(queue) + 1] = j
        /\ \A i \in DOMAIN queue : queue'[i] = queue[i]
    <3>1. queue' = Append(queue, j) /\ pending' = pending
      BY <1>6
    <3>2. queue \in Seq(Job)
      BY DEF IInv, TypeOK
    <3> HIDE DEF j
    <3>3. QED
      BY <1>1, <3>1, <3>2, AppendedElement
  <2>2. Queued' = Queued \union {k}
    BY <2>1 DEF Queued
  <2>3. \A i \in DOMAIN queue : queue[i].key # k
    BY <1>5 DEF IInv, EachKeyOnce, Queued
  <2>4. TypeOK'
    BY <1>3, <2>1 DEF IInv, TypeOK
  <2>5. EachKeyOnce'
    <3>1. pending' = Queued' \union Sending' \union Holding'
      BY <1>4, <1>5, <2>1, <2>2 DEF IInv, EachKeyOnce
    <3>2. /\ Queued' \intersect Sending' = {}
          /\ Holding' \intersect (Queued' \union Sending') = {}
      BY <1>4, <1>5, <2>2 DEF IInv, EachKeyOnce
    <3>3. \A h, i \in DOMAIN queue' : queue'[h].key = queue'[i].key => h = i
      BY <2>1, <2>3 DEF IInv, EachKeyOnce
    <3>4. \A m, n \in Loaders :
            loader'[m].at = "send" /\ loader'[n].at = "send" /\ m # n
              => loader'[m].key # loader'[n].key
      BY <1>2 DEF IInv, EachKeyOnce
    <3>5. QED
      BY <3>1, <3>2, <3>3, <3>4 DEF EachKeyOnce
  <2>6. Sources' \subseteq Sources
    BY <1>1, <1>2, <2>1 DEF Sources
  <2>7. QED
    BY <2>4, <2>5, <2>6, FilesKept DEF IInv
<1>7. CASE ~(Len(queue) < Capacity)
  <2>1. queue' = queue /\ pending' = pending \ {k}
    BY <1>7
  <2>2. Queued' = Queued
    BY <2>1 DEF Queued
  <2>3. TypeOK'
    BY <1>3, <2>1 DEF IInv, TypeOK
  <2>4. EachKeyOnce'
    BY <1>2, <1>4, <1>5, <2>1, <2>2 DEF IInv, EachKeyOnce
  <2>5. Sources' \subseteq Sources
    BY <1>2, <2>1 DEF Sources
  <2>6. QED
    BY <2>3, <2>4, <2>5, FilesKept DEF IInv
<1>8. QED
  BY <1>6, <1>7

\* The worker's key was in the queue, and is nowhere else.
LEMMA ReceiveIInv ==
    ASSUME IInv, Receive
    PROVE  IInv'
<1> USE DEF Receive
<1>1. /\ queue \in Seq(Job) /\ queue # <<>>
      /\ job' = queue[1] /\ job' \in Job /\ job' # NoJob
      /\ queue' \in Seq(Job)
      /\ Len(queue) \in Nat \ {0}
      /\ DOMAIN queue = 1 .. Len(queue)
      /\ DOMAIN queue' = 1 .. (Len(queue) - 1)
      /\ \A i \in DOMAIN queue' : queue'[i] = queue[i + 1]
  BY HeadTailProperties, SpecialValues, EmptySeq DEF IInv, TypeOK
<1>2. \A i \in DOMAIN queue' : i + 1 \in DOMAIN queue /\ i + 1 # 1
  BY <1>1
<1>3. \A i \in DOMAIN queue : i # 1 => i - 1 \in DOMAIN queue' /\ (i - 1) + 1 = i
  BY <1>1
<1>4. 1 \in DOMAIN queue
  BY <1>1
<1>5. \A i \in DOMAIN queue : i # 1 => queue[i].key # queue[1].key
  BY <1>4 DEF IInv, EachKeyOnce
<1>6. Queued' = Queued \ {queue[1].key}
  <2>1. \A x \in Queued' : x \in Queued \ {queue[1].key}
    BY <1>1, <1>2, <1>5 DEF Queued
  <2>2. \A x \in Queued : x # queue[1].key => x \in Queued'
    BY <1>1, <1>3 DEF Queued
  <2>3. QED
    BY <2>1, <2>2
<1>7. Holding' = {queue[1].key} /\ Holding = {} /\ queue[1].key \in Queued
  BY <1>1, <1>4 DEF Holding, Queued
<1>8. Sending' = Sending
  BY DEF Sending
<1>9. TypeOK'
  BY <1>1 DEF IInv, TypeOK
<1>10. EachKeyOnce'
  <2>1. \A h, i \in DOMAIN queue' : queue'[h].key = queue'[i].key => h = i
    <3> SUFFICES ASSUME NEW h \in DOMAIN queue', NEW i \in DOMAIN queue',
                        queue'[h].key = queue'[i].key
                 PROVE  h = i
      OBVIOUS
    <3>1. h + 1 = i + 1
      BY <1>1, <1>2 DEF IInv, EachKeyOnce
    <3>2. QED
      BY <1>1, <3>1
  <2>2. QED
    BY <1>6, <1>7, <1>8, <2>1 DEF IInv, EachKeyOnce
<1>11. Sources' \subseteq Sources
  BY <1>1, <1>2, <1>4 DEF Sources
<1>12. QED
  BY <1>9, <1>10, <1>11, FilesKept DEF IInv

\* The key of a finished job is released; no other holder has it.
LEMMA ReleaseIInv ==
    ASSUME IInv, Release
    PROVE  IInv'
<1> USE DEF Release
<1>1. Holding = {job.key} /\ Holding' = {}
  BY DEF Holding
<1>2. Queued' = Queued /\ Sending' = Sending
  BY DEF Queued, Sending
<1>3. TypeOK'
  BY DEF IInv, TypeOK
<1>4. EachKeyOnce'
  BY <1>1, <1>2 DEF IInv, EachKeyOnce
<1>5. Sources' \subseteq Sources
  BY DEF Sources
<1>6. QED
  BY <1>3, <1>4, <1>5, FilesKept DEF IInv

LEMMA FailJobIInv ==
    ASSUME IInv, FailJob
    PROVE  IInv'
<1> USE DEF FailJob
<1>1. TypeOK'
  BY BoundsAreNat DEF IInv, TypeOK
<1>2. EachKeyOnce'
  BY DEF IInv, EachKeyOnce, Queued, Sending, Holding
<1>3. Sources' = Sources
  BY DEF Sources
<1>4. QED
  BY <1>1, <1>2, <1>3, FilesKept DEF IInv

LEMMA CrashIInv ==
    ASSUME IInv, Crash
    PROVE  IInv'
<1> USE DEF Crash
<1>1. TypeOK'
  <2>1. loader' \in [Loaders -> LoaderState]
    BY DEF LoaderState
  <2>2. queue' \in Seq(Job)
    OBVIOUS
  <2>3. faults' \in 0 .. MaxFaults
    BY BoundsAreNat DEF IInv, TypeOK
  <2>4. QED
    BY <2>1, <2>2, <2>3 DEF IInv, TypeOK
<1>2. EachKeyOnce'
  BY DEF EachKeyOnce, Queued, Sending, Holding
<1>3. Sources' = {}
  BY DEF Sources
<1>4. QED
  BY <1>1, <1>2, <1>3, FilesKept DEF IInv

\* A step that writes, deletes or ages files leaves the keys alone.
LEMMA KeysKept ==
    ASSUME EachKeyOnce, UNCHANGED <<pending, queue, job, loader>>
    PROVE  EachKeyOnce' /\ Sources' = Sources
BY DEF EachKeyOnce, Queued, Sending, Holding, Sources

\* The worker's rewrite is of a file that still wanted it, and ends that need.
LEMMA RunJobIInv ==
    ASSUME IInv, RunJob
    PROVE  IInv'
<1> USE DEF RunJob
<1>1. job \in Job /\ job.key \in Accounts /\ job.src \in Content /\ job \in Sources
  BY DEF IInv, TypeOK, Job, Sources
<1>2. EachKeyOnce' /\ Sources' = Sources
  BY KeysKept DEF IInv
<1>3. CASE Unchanged(job.key, job.src)
  <2> DEFINE new == [data |-> job.src.data, stamp |-> stamp + 1, plain |-> FALSE]
  <2>1. /\ stamp' = stamp + 1
        /\ file' = [file EXCEPT ![job.key] = new]
        /\ aged' = aged \ {job.key}
    BY <1>3
  <2>2. job.key \in Needy
    BY <1>1, <1>3 DEF IInv, SourcesWantRewriting, Unchanged, Needy
  <2>3. /\ file'[job.key] = new
        /\ \A a \in Accounts : a # job.key => file'[a] = file[a]
    BY <1>1, <2>1 DEF IInv, TypeOK
  <2>4. Needy' = Needy \ {job.key}
    BY <1>1, <2>1, <2>3 DEF Needy, NeedsRewrite
  <2>5. Needy \in SUBSET Accounts /\ Needy' \in SUBSET Accounts
    BY DEF Needy
  <2>6. Cardinality(Needy') = Cardinality(Needy) - 1 /\ Cardinality(Needy) \in Nat
    BY <2>2, <2>4, <2>5, SomeAccounts, FS_RemoveElement
  <2>7. stamp \in Nat /\ edits \in 0 .. MaxEdits
    BY DEF IInv, TypeOK
  <2>8. NeedsAreCounted'
    BY <2>1, <2>6, <2>7, BoundsTyped, BoundsAreNat DEF IInv, NeedsAreCounted
  <2>9. TypeOK'
    <3>1. stamp' \in 0 .. MaxStamp
      BY <2>1, <2>5, <2>7, <2>8, StampBound DEF NeedsAreCounted
    <3>2. new \in Content
      BY <1>1, <2>1, <3>1 DEF Content
    <3>3. file' \in [Accounts -> Content \union {Absent}]
      BY <1>1, <2>1, <3>2 DEF IInv, TypeOK
    <3>4. QED
      BY <2>1, <3>1, <3>3 DEF IInv, TypeOK
  <2>10. StampsAreFresh'
    <3>1. \A a \in Accounts : file[a] # Absent => file[a].stamp \in Nat
      BY DEF IInv, TypeOK, Content
    <3>2. \A s \in Sources : s.src.stamp \in Nat
      BY SourcesTyped DEF IInv, Job, Content
    <3>3. QED
      BY <1>2, <2>1, <2>3, <2>7, <3>1, <3>2 DEF IInv, StampsAreFresh
  <2>11. SourcesWantRewriting'
    <3>1. \A s \in Sources : s.key \in Accounts /\ s.src.stamp \in Nat
      BY SourcesTyped DEF IInv, Job, Content
    <3>2. \A s \in Sources : s.src # new
      BY <2>7, <3>1 DEF IInv, StampsAreFresh
    <3>3. QED
      BY <1>2, <2>1, <2>3, <3>1, <3>2 DEF IInv, SourcesWantRewriting, NeedsRewrite
  <2>12. QED
    BY <1>2, <2>8, <2>9, <2>10, <2>11 DEF IInv
<1>4. CASE ~Unchanged(job.key, job.src)
  <2>1. UNCHANGED <<file, aged, stamp, edits>>
    BY <1>4
  <2>2. TypeOK'
    BY <2>1 DEF IInv, TypeOK
  <2>3. QED
    BY <1>2, <2>1, <2>2, FilesKept DEF IInv
<1>5. QED
  BY <1>3, <1>4

\* A save is an edit; what it writes is younger than every source.
LEMMA SaveIInv ==
    ASSUME NEW a \in Accounts, IInv, Save(a)
    PROVE  IInv'
<1> USE DEF Save
<1> DEFINE new == [data |-> stamp + 1, stamp |-> stamp + 1, plain |-> FALSE]
<1>1. EachKeyOnce' /\ Sources' = Sources
  BY KeysKept DEF IInv
<1>2. /\ file'[a] = new
      /\ \A b \in Accounts : b # a => file'[b] = file[b]
  BY DEF IInv, TypeOK
<1>3. Needy' = Needy \ {a}
  BY <1>2 DEF Needy, NeedsRewrite
<1>4. Needy \in SUBSET Accounts /\ Needy' \in SUBSET Accounts
  BY DEF Needy
<1>5. Cardinality(Needy') <= Cardinality(Needy) /\ Cardinality(Needy') \in Nat
      /\ Cardinality(Needy) \in Nat
  BY <1>3, <1>4, SomeAccounts, FS_RemoveElement
<1>6. stamp \in Nat /\ edits' \in 0 .. MaxEdits /\ edits \in Nat
  BY BoundsAreNat DEF IInv, TypeOK
<1>7. NeedsAreCounted'
  BY <1>5, <1>6, BoundsTyped DEF IInv, NeedsAreCounted
<1>8. TypeOK'
  <2>1. stamp' \in 0 .. MaxStamp
    BY <1>4, <1>6, <1>7, StampBound DEF NeedsAreCounted
  <2>2. new \in Content
    BY <2>1 DEF Content
  <2>3. file' \in [Accounts -> Content \union {Absent}]
    BY <2>2 DEF IInv, TypeOK
  <2>4. QED
    BY <1>6, <2>1, <2>3 DEF IInv, TypeOK
<1>9. StampsAreFresh'
  <2>1. \A b \in Accounts : file[b] # Absent => file[b].stamp \in Nat
    BY DEF IInv, TypeOK, Content
  <2>2. \A s \in Sources : s.src.stamp \in Nat
    BY SourcesTyped DEF IInv, Job, Content
  <2>3. QED
    BY <1>1, <1>2, <1>6, <2>1, <2>2 DEF IInv, StampsAreFresh
<1>10. SourcesWantRewriting'
  <2>1. \A s \in Sources : s.key \in Accounts /\ s.src.stamp \in Nat
    BY SourcesTyped DEF IInv, Job, Content
  <2>2. \A s \in Sources : s.src # new
    BY <1>6, <2>1 DEF IInv, StampsAreFresh
  <2>3. QED
    BY <1>1, <1>2, <2>1, <2>2 DEF IInv, SourcesWantRewriting, NeedsRewrite
<1>11. QED
  BY <1>1, <1>7, <1>8, <1>9, <1>10 DEF IInv

\* No job has an absent file for its source.
LEMMA DeleteIInv ==
    ASSUME NEW a \in Accounts, IInv, Delete(a)
    PROVE  IInv'
<1> USE DEF Delete
<1>1. EachKeyOnce' /\ Sources' = Sources
  BY KeysKept DEF IInv
<1>2. /\ file'[a] = Absent
      /\ \A b \in Accounts : b # a => file'[b] = file[b]
  BY DEF IInv, TypeOK
<1>3. Needy' = Needy \ {a}
  BY <1>2 DEF Needy, NeedsRewrite
<1>4. Cardinality(Needy') <= Cardinality(Needy) /\ Cardinality(Needy') \in Nat
      /\ Cardinality(Needy) \in Nat
  <2>1. Needy \in SUBSET Accounts
    BY DEF Needy
  <2>2. QED
    BY <1>3, <2>1, SomeAccounts, FS_RemoveElement
<1>5. NeedsAreCounted'
  BY <1>4, BoundsTyped, BoundsAreNat DEF IInv, NeedsAreCounted, TypeOK
<1>6. TypeOK'
  BY DEF IInv, TypeOK
<1>7. StampsAreFresh'
  BY <1>1, <1>2 DEF IInv, StampsAreFresh
<1>8. SourcesWantRewriting'
  <2>1. \A s \in Sources : s.key \in Accounts /\ s.src # Absent
    BY SourcesTyped, SpecialValues DEF IInv, Job
  <2>2. QED
    BY <1>1, <1>2, <2>1 DEF IInv, SourcesWantRewriting, NeedsRewrite
<1>9. QED
  BY <1>1, <1>5, <1>6, <1>7, <1>8 DEF IInv

\* A rotation coming due is an edit, and makes one more need.
LEMMA AgeIInv ==
    ASSUME NEW a \in Accounts, IInv, Age(a)
    PROVE  IInv'
<1> USE DEF Age
<1>1. EachKeyOnce' /\ Sources' = Sources
  BY KeysKept DEF IInv
<1>2. Needy' = Needy \union {a}
  BY DEF Needy, NeedsRewrite
<1>3. /\ Cardinality(Needy') <= Cardinality(Needy) + 1
      /\ Cardinality(Needy) \in Nat
      /\ Cardinality(Needy') \in Nat
  <2>1. Needy \in SUBSET Accounts /\ Needy' \in SUBSET Accounts
    BY DEF Needy
  <2>2. QED
    BY <1>2, <2>1, SomeAccounts, FS_AddElement
<1>4. stamp \in Nat /\ edits' \in 0 .. MaxEdits /\ edits \in Nat
  BY BoundsAreNat DEF IInv, TypeOK
<1>5. NeedsAreCounted'
  BY <1>3, <1>4, BoundsTyped DEF IInv, NeedsAreCounted
<1>6. TypeOK'
  BY <1>4 DEF IInv, TypeOK
<1>7. StampsAreFresh'
  BY <1>1 DEF IInv, StampsAreFresh
<1>8. SourcesWantRewriting'
  BY <1>1 DEF IInv, SourcesWantRewriting, NeedsRewrite
<1>9. QED
  BY <1>1, <1>5, <1>6, <1>7, <1>8 DEF IInv

LEMMA StutterIInv ==
    ASSUME IInv, UNCHANGED vars
    PROVE  IInv'
<1> USE DEF vars
<1>1. TypeOK'
  BY DEF IInv, TypeOK
<1>2. EachKeyOnce' /\ Sources' = Sources
  BY KeysKept DEF IInv
<1>3. QED
  BY <1>1, <1>2, FilesKept DEF IInv

LEMMA Inductive == IInv /\ [Next]_vars => IInv'
<1> SUFFICES ASSUME IInv, [Next]_vars PROVE IInv'
  OBVIOUS
<1>1. CASE \E l \in Loaders : Load(l) \/ Insert(l) \/ Send(l)
  BY <1>1, LoadIInv, InsertIInv, SendIInv
<1>2. CASE Worker
  BY <1>2, ReceiveIInv, RunJobIInv, FailJobIInv, ReleaseIInv DEF Worker
<1>3. CASE \E a \in Accounts : Save(a) \/ Delete(a) \/ Age(a)
  BY <1>3, SaveIInv, DeleteIInv, AgeIInv
<1>4. CASE Crash
  BY <1>4, CrashIInv
<1>5. CASE UNCHANGED vars
  BY <1>5, StutterIInv
<1>6. QED
  BY <1>1, <1>2, <1>3, <1>4, <1>5 DEF Next

THEOREM Invariance == Spec => []IInv
BY InitIInv, Inductive, PTL DEF Spec

----------------------------------------------------------------------------
\* Every reachable state is a state of the types: in particular the stamps
\* of all contents, and with them the number of rewrites, stay within the
\* edits and the accounts.
THEOREM TypeCorrect == Spec => []TypeOK
<1>1. IInv => TypeOK
  BY DEF IInv
<1>2. QED
  BY Invariance, <1>1, PTL

\* An injective queue has as many keys as jobs.
LEMMA QueueCounted == TypeOK /\ EachKeyOnce => Cardinality(Queued) = Len(queue)
<1> SUFFICES ASSUME TypeOK, EachKeyOnce PROVE Cardinality(Queued) = Len(queue)
  OBVIOUS
<1> DEFINE f == [i \in 1 .. Len(queue) |-> queue[i].key]
<1>1. Len(queue) \in Nat /\ DOMAIN queue = 1 .. Len(queue)
  BY LenProperties DEF TypeOK
<1>2. f \in Bijection(1 .. Len(queue), Queued)
  <2>1. f \in Injection(1 .. Len(queue), Queued)
    BY <1>1 DEF Injection, IsInjective, Queued, EachKeyOnce
  <2>2. f \in Surjection(1 .. Len(queue), Queued)
    BY <1>1 DEF Surjection, Queued
  <2>3. QED
    BY <2>1, <2>2 DEF Bijection
<1>3. IsFiniteSet(1 .. Len(queue)) /\ Cardinality(1 .. Len(queue)) = Len(queue)
  <2> DEFINE n == Len(queue)
  <2>1. n \in Nat /\ n \in Int /\ 1 \in Int
    BY <1>1
  <2> HIDE DEF n
  <2>2. IsFiniteSet(1 .. n) /\ Cardinality(1 .. n) = IF 1 > n THEN 0 ELSE n - 1 + 1
    BY <2>1, FS_Interval
  <2>3. IsFiniteSet(1 .. n) /\ Cardinality(1 .. n) = n
    BY <2>1, <2>2
  <2>4. QED
    BY <2>3 DEF n
<1>4. ExistsBijection(1 .. Len(queue), Queued)
  BY <1>2 DEF ExistsBijection
<1>5. QED
  BY <1>3, <1>4, FS_Bijection

\* PENDING_KEYS holds exactly the keys that some job or sender releases, each
\* of them once (schedule_keyed, remove_pending_key and the worker's loop).
THEOREM KeysAccounted == Spec => []KeysAccountedFor
<1>1. IInv => KeysAccountedFor
  BY QueueCounted DEF IInv, EachKeyOnce, KeysAccountedFor
<1>2. QED
  BY Invariance, <1>1, PTL

\* A migration leaves every account as it was, whatever was saved or deleted
\* since the job's loader read it.
THEOREM MigrationKeeps == Spec => MigrationKeepsAccounts
<1>1. ASSUME IInv, [Next]_vars, ~ran, ran'
      PROVE  \A a \in Accounts :
               /\ (file[a] = Absent) <=> (file'[a] = Absent)
               /\ file[a] # Absent => file'[a].data = file[a].data
  <2>1. RunJob \/ FailJob
    BY <1>1 DEF Next, vars, Load, Insert, Send, Worker, Receive, Release,
                Save, Delete, Age, Crash
  <2>2. CASE FailJob
    BY <2>2 DEF FailJob
  <2>3. CASE RunJob /\ ~Unchanged(job.key, job.src)
    BY <2>3 DEF RunJob
  <2>4. CASE RunJob /\ Unchanged(job.key, job.src)
    <3> DEFINE new == [data |-> job.src.data, stamp |-> stamp + 1, plain |-> FALSE]
    <3>1. job \in Job /\ job.key \in Accounts /\ job.src \in Content
      BY <1>1, <2>4 DEF RunJob, IInv, TypeOK, Job
    <3>2. file[job.key] = job.src /\ file[job.key] # Absent
      BY <2>4, <3>1, SpecialValues DEF Unchanged
    <3>3. /\ file'[job.key] = new
          /\ \A a \in Accounts : a # job.key => file'[a] = file[a]
      BY <1>1, <2>4, <3>1 DEF RunJob, IInv, TypeOK
    <3>4. new # Absent
      <4>1. file' \in [Accounts -> Content \union {Absent}] /\ stamp + 1 \in 0 .. MaxStamp
        BY <1>1, <2>4, Inductive DEF RunJob, IInv, TypeOK
      <4>2. new \in Content
        BY <3>1, <4>1 DEF Content
      <4>3. QED
        BY <4>2, SpecialValues
    <3>5. QED
      BY <3>2, <3>3, <3>4
  <2>5. QED
    BY <2>1, <2>2, <2>3, <2>4
<1>2. IInv /\ [Next]_vars =>
        [~ran /\ ran' =>
           \A a \in Accounts :
             /\ (file[a] = Absent) <=> (file'[a] = Absent)
             /\ file[a] # Absent => file'[a].data = file[a].data]_vars
  BY <1>1
<1>3. QED
  BY Invariance, <1>2, PTL DEF Spec, MigrationKeepsAccounts

\* The worker compares contents only and never asks again whether a rewrite
\* is wanted; it is nevertheless, whenever the rewrite takes effect.
RewritesAreWanted ==
    [][~ran /\ ran' =>
         \A a \in Accounts : file'[a] # file[a] => NeedsRewrite(a)]_vars

THEOREM RewritesWanted == Spec => RewritesAreWanted
<1>1. ASSUME IInv, [Next]_vars, ~ran, ran'
      PROVE  \A a \in Accounts : file'[a] # file[a] => NeedsRewrite(a)
  <2>1. RunJob \/ FailJob
    BY <1>1 DEF Next, vars, Load, Insert, Send, Worker, Receive, Release,
                Save, Delete, Age, Crash
  <2>2. CASE FailJob
    BY <2>2 DEF FailJob
  <2>3. CASE RunJob /\ ~Unchanged(job.key, job.src)
    BY <2>3 DEF RunJob
  <2>4. CASE RunJob /\ Unchanged(job.key, job.src)
    <3>1. job \in Sources /\ job.key \in Accounts
      BY <1>1, <2>4 DEF RunJob, IInv, TypeOK, Job, Sources
    <3>2. NeedsRewrite(job.key)
      BY <1>1, <2>4, <3>1 DEF Unchanged, IInv, SourcesWantRewriting
    <3>3. \A a \in Accounts : a # job.key => file'[a] = file[a]
      BY <1>1, <2>4, <3>1 DEF RunJob, IInv, TypeOK
    <3>4. QED
      BY <3>2, <3>3
  <2>5. QED
    BY <2>1, <2>2, <2>3, <2>4
<1>2. IInv /\ [Next]_vars =>
        [~ran /\ ran' =>
           \A a \in Accounts : file'[a] # file[a] => NeedsRewrite(a)]_vars
  BY <1>1
<1>3. QED
  BY Invariance, <1>2, PTL DEF Spec, RewritesAreWanted
=============================================================================
