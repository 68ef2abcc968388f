------------------------- MODULE AtomicFile_proofs -------------------------
(***************************************************************************)
(* For every set of threads and contents: the type invariant and the       *)
(* safety properties of AtomicFile, and that it implements LinearFile.     *)
(*                                                                         *)
(* The argument rests on IInv.  Its centre is LockHeld: a thread between   *)
(* the verification of a condition (or the copy to the .bak) and the       *)
(* rename holds the path lock, so no other thread of the program can       *)
(* change main or bak in between; only the outside world can, and what it  *)
(* leaves is Foreign content or a rotten .bak.                             *)
(***************************************************************************)
EXTENDS AtomicFile, TLAPS

\* The constants' assumptions, as one fact.
LEMMA Constants ==
    /\ Json \intersect Alien = {}
    /\ {Junk, Rot, Absent} \intersect Contents = {}
    /\ Junk # Rot /\ Junk # Absent /\ Rot # Absent
    /\ NoThread \notin Threads
    /\ BackupMayFail \in BOOLEAN
BY ContentsDistinct, NoThreadIsNoThread, BackupMayFailIsBoolean

\* The files an earlier run left, no thread in a call: the invariant holds.
LEMMA InitIInv == Init => IInv
<1> SUFFICES ASSUME Init PROVE IInv
  OBVIOUS
<1>1. TypeOK
  BY DEF Init, TypeOK, Idle, Contents
<1>2. LockHeld
  BY NoThreadIsNoThread DEF Init, LockHeld, Critical
<1>3. CallFitsPlace
  BY DEF Init, CallFitsPlace, Idle
<1>4. ConditionHolds
  BY DEF Init, ConditionHolds
<1>5. StoredCovers /\ BackupUsable
  BY Constants DEF Init, StoredCovers, BackupUsable, Contents
<1>6. QED
  BY <1>1, <1>2, <1>3, <1>4, <1>5 DEF IInv

\* A call that starts (Enter) touches its own thread's pc and call only.
LEMMA EnterIInv ==
    ASSUME NEW t \in Threads, IInv,
           NEW op \in Ops, NEW seen \in Contents \union {Junk, Absent},
           NEW arg \in Contents \union {Absent}, NEW l \in {"probe", "wait"},
           op \in {"write", "bytes", "cas"} => arg \in Json,
           op \in {"cas", "removeIf"} => seen # Absent,
           l = "probe" => op = "restore",
           Enter(t, op, seen, arg, l)
    PROVE  IInv'
<1> USE DEF IInv, Enter, Goto
<1>1. TypeOK'
  BY DEF TypeOK
<1>2. LockHeld'
  BY DEF LockHeld, Critical, TypeOK
<1>3. CallFitsPlace'
  BY DEF CallFitsPlace, TypeOK, Idle, Ops
<1>4. ConditionHolds'
  BY DEF ConditionHolds, TypeOK
<1>5. StoredCovers' /\ BackupUsable'
  BY DEF StoredCovers, BackupUsable
<1>6. QED
  BY <1>1, <1>2, <1>3, <1>4, <1>5

\* Every step of a thread preserves the invariant.
LEMMA StepIInv ==
    ASSUME NEW t \in Threads, IInv, Step(t)
    PROVE  IInv'
<1> USE Constants
<1>1. CASE CallWrite(t)
  BY <1>1, EnterIInv DEF CallWrite, Ops, Contents
<1>2. CASE CallWriteBytes(t)
  BY <1>2, EnterIInv DEF CallWriteBytes, Ops, Contents
<1>3. CASE CallCas(t)
  BY <1>3, EnterIInv DEF CallCas, Ops, Contents
<1>4. CASE CallRemove(t)
  BY <1>4, EnterIInv DEF CallRemove, Ops
<1>5. CASE CallRemoveIf(t)
  BY <1>5, EnterIInv DEF CallRemoveIf, Ops, IInv, TypeOK
<1>6. CASE CallParse(t)
  BY <1>6, EnterIInv DEF CallParse, Ops, IInv, TypeOK, Foreign, Contents
<1>7. CASE ProbeBackup(t)
  <2> USE <1>7 DEF IInv, ProbeBackup, Goto
  <2>1. TypeOK'
    BY DEF TypeOK, Idle
  <2>2. LockHeld'
    BY DEF LockHeld, Critical, TypeOK
  <2>3. CallFitsPlace'
    BY DEF CallFitsPlace, TypeOK, Idle, Ops
  <2>4. ConditionHolds' /\ StoredCovers' /\ BackupUsable'
    BY DEF ConditionHolds, TypeOK, StoredCovers, BackupUsable
  <2>5. QED
    BY <2>1, <2>2, <2>3, <2>4
<1>8. CASE Acquire(t)
  <2> USE <1>8 DEF IInv, Acquire, Goto
  <2>1. TypeOK'
    BY DEF TypeOK
  <2>2. LockHeld'
    BY DEF LockHeld, Critical, TypeOK
  <2>3. CallFitsPlace'
    BY DEF CallFitsPlace, TypeOK, Idle
  <2>4. ConditionHolds' /\ StoredCovers' /\ BackupUsable'
    BY DEF ConditionHolds, TypeOK, StoredCovers, BackupUsable
  <2>5. QED
    BY <2>1, <2>2, <2>3, <2>4
<1>9. CASE Locked(t)
  <2> USE <1>9 DEF IInv, Locked, Goto, Return, ConditionMatches
  <2>1. TypeOK'
    BY DEF TypeOK, Idle, Safe
  <2>2. LockHeld'
    BY DEF LockHeld, Critical, TypeOK
  <2>3. CallFitsPlace'
    BY DEF CallFitsPlace, TypeOK, Idle, Ops, Safe, BackupUsable
  <2>4. ConditionHolds'
    BY DEF ConditionHolds, TypeOK, Idle
  <2>5. StoredCovers' /\ BackupUsable'
    BY DEF StoredCovers, BackupUsable
  <2>6. QED
    BY <2>1, <2>2, <2>3, <2>4, <2>5
<1>10. CASE BackUp(t)
  <2> USE <1>10 DEF IInv, BackUp, Goto
  <2>1. TypeOK'
    BY DEF TypeOK, Safe
  <2>2. LockHeld'
    BY DEF LockHeld, Critical, TypeOK
  <2>3. CallFitsPlace'
    BY DEF CallFitsPlace, TypeOK, Idle
  <2>4. ConditionHolds'
    BY DEF ConditionHolds, TypeOK
  <2>5. StoredCovers' /\ BackupUsable'
    BY DEF StoredCovers, BackupUsable, Safe
  <2>6. QED
    BY <2>1, <2>2, <2>3, <2>4, <2>5
<1>11. CASE Rename(t)
  <2> USE <1>11 DEF IInv, Rename, Goto, Return
  <2>1. call[t].arg \in Contents
    BY DEF CallFitsPlace, TypeOK, Contents
  <2>2. TypeOK'
    BY <2>1 DEF TypeOK, Idle
  <2>3. LockHeld'
    BY DEF LockHeld, Critical, TypeOK
  <2>4. CallFitsPlace'
    BY DEF CallFitsPlace, TypeOK, Idle
  <2>5. ConditionHolds'
    BY DEF ConditionHolds, TypeOK, LockHeld, Critical, Idle
  <2>6. StoredCovers' /\ BackupUsable'
    BY DEF StoredCovers, BackupUsable
  <2>7. QED
    BY <2>2, <2>3, <2>4, <2>5, <2>6
<1>12. CASE Unlink(t)
  <2> USE <1>12 DEF IInv, Unlink, Goto, Return
  <2>1. TypeOK'
    BY DEF TypeOK, Idle
  <2>2. LockHeld'
    BY DEF LockHeld, Critical, TypeOK
  <2>3. CallFitsPlace'
    BY DEF CallFitsPlace, TypeOK, Idle
  <2>4. ConditionHolds'
    BY DEF ConditionHolds, TypeOK, LockHeld, Critical, Idle
  <2>5. StoredCovers' /\ BackupUsable'
    BY DEF StoredCovers, BackupUsable
  <2>6. QED
    BY <2>1, <2>2, <2>3, <2>4, <2>5
<1>13. CASE Fail(t)
  <2> USE <1>13 DEF IInv, Fail, Goto, Return
  <2>1. TypeOK'
    BY DEF TypeOK, Idle
  <2>2. LockHeld'
    BY DEF LockHeld, Critical, TypeOK
  <2>3. CallFitsPlace'
    BY DEF CallFitsPlace, TypeOK, Idle
  <2>4. ConditionHolds' /\ StoredCovers' /\ BackupUsable'
    BY DEF ConditionHolds, TypeOK, StoredCovers, BackupUsable
  <2>5. QED
    BY <2>1, <2>2, <2>3, <2>4
<1>14. CASE Reread(t)
  <2> USE <1>14 DEF IInv, Reread, Goto
  <2>1. TypeOK'
    BY DEF TypeOK, Idle
  <2>2. LockHeld'
    BY DEF LockHeld, Critical, TypeOK
  <2>3. CallFitsPlace'
    BY DEF CallFitsPlace, TypeOK, Idle
  <2>4. ConditionHolds' /\ StoredCovers' /\ BackupUsable'
    BY DEF ConditionHolds, TypeOK, StoredCovers, BackupUsable
  <2>5. QED
    BY <2>1, <2>2, <2>3, <2>4
<1>15. QED
  BY <1>1, <1>2, <1>3, <1>4, <1>5, <1>6, <1>7, <1>8, <1>9, <1>10, <1>11,
     <1>12, <1>13, <1>14 DEF Step

\* So does whatever the outside world does to the files, and a crash.
LEMMA EnvironmentIInv ==
    ASSUME IInv, Interfere \/ Crash \/ UNCHANGED vars
    PROVE  IInv'
<1> USE Constants DEF IInv
<1>1. CASE Interfere
  <2> USE <1>1 DEF Interfere, Foreign
  <2>1. TypeOK'
    BY DEF TypeOK, Contents
  <2>2. LockHeld'
    BY DEF LockHeld, Critical
  <2>3. CallFitsPlace'
    BY DEF CallFitsPlace
  <2>4. ConditionHolds'
    BY DEF ConditionHolds
  <2>5. StoredCovers' /\ BackupUsable'
    BY DEF StoredCovers, BackupUsable
  <2>6. QED
    BY <2>1, <2>2, <2>3, <2>4, <2>5
<1>2. CASE Crash
  <2> USE <1>2 DEF Crash
  <2>1. TypeOK'
    BY DEF TypeOK, Idle
  <2>2. LockHeld'
    BY DEF LockHeld, Critical
  <2>3. CallFitsPlace'
    BY DEF CallFitsPlace, Idle
  <2>4. ConditionHolds' /\ StoredCovers' /\ BackupUsable'
    BY DEF ConditionHolds, StoredCovers, BackupUsable
  <2>5. QED
    BY <2>1, <2>2, <2>3, <2>4
<1>3. CASE UNCHANGED vars
  BY <1>3 DEF vars, TypeOK, LockHeld, CallFitsPlace, ConditionHolds,
              StoredCovers, BackupUsable, Critical
<1>4. QED
  BY <1>1, <1>2, <1>3

\* The inductive invariant holds in every reachable state.
THEOREM Invariance == Spec => []IInv
<1>1. Init => IInv
  BY InitIInv
<1>2. IInv /\ [Next]_vars => IInv'
  BY StepIInv, EnvironmentIInv DEF Next
<1>3. QED
  BY <1>1, <1>2, PTL DEF Spec

\* Every variable keeps its type, for any number of threads and contents.
THEOREM TypeCorrect == Spec => []TypeOK
<1>1. IInv => TypeOK
  BY DEF IInv
<1>2. QED
  BY <1>1, Invariance, PTL

\* The .bak is never anything but a well-formed former content of the path.
THEOREM BackupsAreUsable == Spec => []BackupUsable
<1>1. IInv => BackupUsable
  BY DEF IInv
<1>2. QED
  BY <1>1, Invariance, PTL

---------------------------------------------------------------------------
\* A conditional write or delete replaces only the content it was bound to
\* (or foreign content), for any number of threads.
THEOREM ConditionalWritesAreSafe == Spec => ConditionalNeverClobbers
<1> DEFINE Kept(t) ==
      call[t].op \in {"cas", "removeIf"} /\ pc[t] # pc'[t] /\ main' # main
        => main \in ({call[t].seen} \union Foreign) \ {Absent}
<1>1. ASSUME IInv, [Next]_vars, NEW t \in Threads
      PROVE  Kept(t)
  <2> SUFFICES ASSUME call[t].op \in {"cas", "removeIf"}, pc[t] # pc'[t],
                      main' # main
               PROVE  main \in ({call[t].seen} \union Foreign) \ {Absent}
    OBVIOUS
  <2> USE <1>1 DEF IInv
  <2>1. ASSUME NEW u \in Threads, Step(u), u # t
        PROVE  FALSE
    BY <2>1 DEF TypeOK, Step, CallWrite, CallWriteBytes, CallCas, CallRemove,
         CallRemoveIf, CallParse, Enter, ProbeBackup, Acquire, Locked, BackUp,
         Rename, Unlink, Fail, Reread, Return, Goto
  <2>2. CASE Step(t)
    <3>1. Rename(t) \/ Unlink(t)
      BY <2>2 DEF Step, CallWrite, CallWriteBytes, CallCas, CallRemove,
           CallRemoveIf, CallParse, Enter, ProbeBackup, Acquire, Locked,
           BackUp, Fail, Reread
    <3>2. pc[t] \in {"rename", "unlink"}
      BY <3>1 DEF Rename, Unlink
    <3>3. main \in {call[t].seen} \union Foreign
      BY <3>2 DEF ConditionHolds
    <3>4. call[t].seen # Absent /\ Absent \notin Foreign
      BY Constants DEF CallFitsPlace, Foreign, Contents
    <3>5. QED
      BY <3>3, <3>4
  <2>3. ~ Interfere /\ ~ Crash /\ ~ UNCHANGED vars
    BY DEF Interfere, Crash, vars
  <2>4. QED
    BY <2>1, <2>2, <2>3 DEF Next
<1>2. IInv /\ [Next]_vars
        => [\A t \in Threads : Kept(t)]_vars
  BY <1>1
<1>3. QED
  BY <1>2, Invariance, PTL DEF Spec, ConditionalNeverClobbers

\* Where the copy to the .bak succeeds, a string write never loses the
\* content it replaces.
THEOREM PreviousIsKept ==
    ASSUME BackupMayFail = FALSE
    PROVE  Spec => []PreviousKept
<1>1. Init => PreviousKept
  BY DEF Init, PreviousKept
<1>2. ASSUME IInv, PreviousKept, [Next]_vars
      PROVE  PreviousKept'
  <2> USE <1>2, Constants DEF IInv, PreviousKept
  <2>1. ASSUME NEW t \in Threads, Step(t)
        PROVE  PreviousKept'
    <3> SUFFICES ASSUME NEW u \in Threads, pc'[u] = "rename",
                        call'[u].op \in {"write", "cas"}, main' \in Json
                 PROVE  bak' \in {main', Rot}
      OBVIOUS
    <3>1. CASE u # t
      <4>1. pc[u] = "rename" /\ call[u] = call'[u]
        BY <2>1, <3>1 DEF TypeOK, Step, CallWrite, CallWriteBytes, CallCas,
             CallRemove, CallRemoveIf, CallParse, Enter, ProbeBackup, Acquire,
             Locked, BackUp, Rename, Unlink, Fail, Reread, Return, Goto
      <4>2. ~ BackUp(t) /\ ~ Rename(t) /\ ~ Unlink(t)
        BY <3>1, <4>1 DEF LockHeld, Critical, BackUp, Rename, Unlink
      <4>3. UNCHANGED <<main, bak>>
        BY <2>1, <4>2 DEF Step, CallWrite, CallWriteBytes, CallCas,
             CallRemove, CallRemoveIf, CallParse, Enter, ProbeBackup, Acquire,
             Locked, Fail, Reread
      <4>4. QED
        BY <4>1, <4>3
    <3>2. CASE u = t
      <4>1. pc[t] # "rename"
        BY <2>1, <3>2 DEF TypeOK, Step, CallWrite, CallWriteBytes, CallCas,
             CallRemove, CallRemoveIf, CallParse, Enter, ProbeBackup, Acquire,
             Locked, BackUp, Rename, Unlink, Fail, Reread, Return, Goto
      <4>2. BackUp(t)
        BY <2>1, <3>2, <4>1 DEF TypeOK, Step, CallWrite, CallWriteBytes,
             CallCas, CallRemove, CallRemoveIf, CallParse, Enter, ProbeBackup,
             Acquire, Locked, Rename, Unlink, Fail, Reread, Return, Goto
      <4>3. QED
        BY <4>2 DEF BackUp, Safe, Contents
    <3>3. QED
      BY <3>1, <3>2
  <2>2. CASE Interfere
    BY <2>2 DEF Interfere, Foreign, Contents
  <2>3. CASE Crash
    BY <2>3 DEF Crash
  <2>4. CASE UNCHANGED vars
    BY <2>4 DEF vars
  <2>5. QED
    BY <2>1, <2>2, <2>3, <2>4 DEF Next
<1>3. QED
  BY <1>1, <1>2, Invariance, PTL DEF Spec

---------------------------------------------------------------------------
\* The refinement mapping of AtomicFile!Linear, by name.
AbsCall == [t \in Threads |->
              IF call[t].op = "restore" THEN [call[t] EXCEPT !.arg = Absent]
                                        ELSE call[t]]

LEMMA InitRefines == Init => Linear!Init
BY Constants DEF Init, Linear!Init, Linear!Idle, Idle, Contents, Foreign

\* A step of one thread is a step of LinearFile by the same thread, or a
\* stutter: the effect is at the rename or the unlink.
LEMMA StepRefines ==
    ASSUME NEW t \in Threads, IInv, Step(t)
    PROVE  [Linear!Next]_(Linear!linearVars)
<1> USE Constants DEF IInv, Linear!linearVars
<1>0. ASSUME NEW op \in Ops, NEW seen \in Contents \union {Junk, Absent},
             NEW arg \in Json \union {Absent}, NEW l \in {"probe", "wait"},
             op = "restore" => arg = Absent,
             Enter(t, op, seen, arg, l)
      PROVE  Linear!Next
  <2>1. AbsCall[t] = Linear!Idle
    BY <1>0 DEF Enter, CallFitsPlace, Idle, Linear!Idle, AbsCall
  <2>2. AbsCall' = [AbsCall EXCEPT ![t] = [op |-> op, seen |-> seen, arg |-> arg]]
    <3> DEFINE new == [op |-> op, seen |-> seen, arg |-> arg]
    <3>1. call' = [call EXCEPT ![t] = new]
      BY <1>0 DEF Enter
    <3>2. op = "restore" => [new EXCEPT !.arg = Absent] = new
      BY <1>0
    <3>3. new.op = op
      OBVIOUS
    <3> HIDE DEF new
    <3>4. AbsCall'[t] = new
      BY <3>1, <3>2, <3>3 DEF TypeOK, AbsCall
    <3>5. QED
      BY <3>1, <3>4 DEF TypeOK, AbsCall, new
  <2>3. Linear!Invoke(t)
    <3>1. op \in {"write", "bytes", "cas", "remove", "removeIf", "restore"}
      BY DEF Ops
    <3>2. seen \in Json \union Foreign \union {Absent}
      BY DEF Contents, Foreign
    <3>3. UNCHANGED <<main, stored>>
      BY <1>0 DEF Enter
    <3>4. \E o \in {"write", "bytes", "cas", "remove", "removeIf", "restore"},
             s \in Json \union Foreign \union {Absent}, a \in Json \union {Absent} :
                AbsCall' = [AbsCall EXCEPT ![t] = [op |-> o, seen |-> s, arg |-> a]]
      BY <2>2, <3>1, <3>2, Zenon
    <3>5. QED
      BY <2>1, <3>3, <3>4, Zenon DEF Linear!Invoke, AbsCall
  <2>4. QED
    BY <2>3 DEF Linear!Next
<1>1. ASSUME call' = [call EXCEPT ![t] = Idle], pc[t] # "idle",
             UNCHANGED <<main, stored>>
      PROVE  Linear!Next
  <2>1. AbsCall[t] # Linear!Idle
    BY <1>1 DEF CallFitsPlace, Idle, Linear!Idle, AbsCall
  <2>2. AbsCall' = [AbsCall EXCEPT ![t] = Linear!Idle]
    BY <1>1 DEF TypeOK, AbsCall, Idle, Linear!Idle
  <2>3. Linear!GiveUp(t)
    BY <1>1, <2>1, <2>2 DEF Linear!GiveUp, Linear!Return, AbsCall
  <2>4. QED
    BY <2>3 DEF Linear!Next
<1>2. ASSUME UNCHANGED <<main, stored, call>>
      PROVE  UNCHANGED Linear!linearVars
  BY <1>2
<1>3. CASE CallWrite(t) \/ CallWriteBytes(t) \/ CallCas(t) \/ CallRemove(t)
             \/ CallRemoveIf(t) \/ CallParse(t)
  BY <1>0, <1>3 DEF CallWrite, CallWriteBytes, CallCas, CallRemove,
       CallRemoveIf, CallParse, Ops, Contents, TypeOK, Foreign
<1>4. CASE ProbeBackup(t)
  BY <1>1, <1>2, <1>4 DEF ProbeBackup
<1>5. CASE Acquire(t) \/ BackUp(t)
  BY <1>2, <1>5 DEF Acquire, BackUp
<1>6. CASE Locked(t)
  <2>1. ASSUME call[t].op = "restore", call' = [call EXCEPT ![t].arg = bak],
               UNCHANGED <<main, stored>>
        PROVE  UNCHANGED Linear!linearVars
    BY <2>1 DEF TypeOK
  <2>2. QED
    BY <1>1, <1>2, <1>6, <2>1 DEF Locked, Return
<1>7. CASE Rename(t)
  <2> USE <1>7 DEF Rename
  <2>1. CASE call[t].op = "restore"
    <3>1. Linear!RollBack(t)
      BY <2>1 DEF Linear!RollBack, Linear!Install, CallFitsPlace, AbsCall, TypeOK
    <3>2. QED
      BY <3>1 DEF Linear!Next
  <2>2. CASE call[t].op # "restore"
    <3>1. AbsCall[t] = call[t]
      BY <2>2 DEF AbsCall
    <3>2. AbsCall' = [AbsCall EXCEPT ![t] = Linear!Idle]
      <4>1. call' = [call EXCEPT ![t] = Idle] /\ Idle = Linear!Idle
        BY <2>2 DEF Return, Idle, Linear!Idle
      <4>2. Idle.op # "restore"
        BY DEF Idle
      <4>3. QED
        BY <4>1, <4>2 DEF TypeOK, AbsCall
    <3>3. CASE call[t].op \in {"write", "bytes"}
      <4>1. Linear!Put(t)
        BY <2>2, <3>1, <3>2, <3>3
           DEF Linear!Put, Linear!Install, Linear!Return, AbsCall
      <4>2. QED
        BY <4>1 DEF Linear!Next
    <3>4. CASE call[t].op = "cas"
      <4>1. main \in {call[t].seen} \union Foreign /\ main # Absent
        BY <3>4 DEF ConditionHolds, CallFitsPlace, Foreign, Contents
      <4>2. Linear!CompareAndPut(t)
        BY <2>2, <3>1, <3>2, <3>4, <4>1
           DEF Linear!CompareAndPut, Linear!Install, Linear!Return, AbsCall
      <4>3. QED
        BY <4>2 DEF Linear!Next
    <3>5. QED
      BY <2>2, <3>3, <3>4 DEF CallFitsPlace
  <2>3. QED
    BY <2>1, <2>2
<1>8. CASE Unlink(t)
  <2>1. call[t].op \in {"remove", "removeIf"}
    BY <1>8 DEF Unlink, CallFitsPlace
  <2>2. AbsCall[t] = call[t]
    BY <2>1 DEF AbsCall
  <2>3. AbsCall' = [AbsCall EXCEPT ![t] = Linear!Idle]
    BY <1>8 DEF Unlink, Return, TypeOK, AbsCall, Idle, Linear!Idle
  <2>4. call[t].op = "removeIf" => main \in {call[t].seen} \union Foreign
    BY <1>8 DEF Unlink, ConditionHolds
  <2>5. Linear!Delete(t)
    BY <1>8, <2>1, <2>2, <2>3, <2>4 DEF Unlink, Linear!Delete, Linear!Return, AbsCall
  <2>6. QED
    BY <2>5 DEF Linear!Next
<1>9. CASE Fail(t) \/ Reread(t)
  BY <1>1, <1>9 DEF Fail, Reread, Return
<1>10. QED
  BY <1>3, <1>4, <1>5, <1>6, <1>7, <1>8, <1>9 DEF Step

\* AtomicFile implements the linearizable file: for any number of threads,
\* every call takes effect at one instant, and a crash at any point leaves a
\* file that some sequence of whole calls explains.
THEOREM Refinement == Spec => ImplementsLinearFile
<1>1. Init => Linear!Init
  BY InitRefines
<1>2. ASSUME IInv, [Next]_vars
      PROVE  [Linear!Next]_(Linear!linearVars)
  <2> USE <1>2 DEF Linear!linearVars
  <2>1. CASE \E t \in Threads : Step(t)
    BY <2>1, StepRefines
  <2>2. CASE Interfere
    <3>1. Linear!Interfere \/ UNCHANGED Linear!linearVars
      BY <2>2 DEF Interfere, Linear!Interfere, Linear!Install
    <3>2. QED
      BY <3>1 DEF Linear!Next
  <2>3. CASE Crash
    <3>1. Linear!Crash
      BY <2>3 DEF Crash, Linear!Crash, Linear!Idle, Idle
    <3>2. QED
      BY <3>1 DEF Linear!Next
  <2>4. CASE UNCHANGED vars
    BY <2>4 DEF vars
  <2>5. QED
    BY <2>1, <2>2, <2>3, <2>4 DEF Next
<1>3. QED
  BY <1>1, <1>2, Invariance, PTL DEF Spec, ImplementsLinearFile, Linear!Spec
===========================================================================
