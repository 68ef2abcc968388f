---------------------------- MODULE LinearFile ----------------------------
(***************************************************************************)
(* What atomic_write.rs promises its callers about one path: every call    *)
(* takes effect at one instant between its start and its return, a         *)
(* conditional call takes effect only on the content it was bound to, and  *)
(* a crash leaves the file as some completed call left it.  The .bak file, *)
(* the per-path lock and the order of the system calls do not appear.      *)
(*                                                                         *)
(* Two things outside the program's control are part of the promise: the   *)
(* outside world may replace the file by damaged or foreign content, and a *)
(* reader that cannot parse the file may roll it back to a content it held *)
(* before.                                                                 *)
(***************************************************************************)
CONSTANTS
    Threads,    \* threads of the process
    Json,       \* contents the reader's type accepts
    Foreign,    \* contents an outside party may leave in the file
    Absent      \* the file does not exist

VARIABLES
    file,       \* content of the path
    past,       \* contents the path has held, foreign ones included
    call        \* call[t]: the operation thread t is executing

linearVars == <<file, past, call>>

Idle == [op |-> "none", seen |-> Absent, arg |-> Absent]

Init ==
    /\ past \subseteq Json \union Foreign
    /\ file \in past \union {Absent}
    /\ call = [t \in Threads |-> Idle]

\* Installing a content makes it part of the file's past.
Install(c) ==
    /\ file' = c
    /\ past' = past \union {c}

Return(t) == call' = [call EXCEPT ![t] = Idle]

Invoke(t) ==
    /\ call[t] = Idle
    /\ \E o \in {"write", "bytes", "cas", "remove", "removeIf", "restore"},
          s \in Json \union Foreign \union {Absent}, a \in Json \union {Absent} :
            call' = [call EXCEPT ![t] = [op |-> o, seen |-> s, arg |-> a]]
    /\ UNCHANGED <<file, past>>

\* An unconditional write.
Put(t) ==
    /\ call[t].op \in {"write", "bytes"}
    /\ Install(call[t].arg)
    /\ Return(t)

\* A conditional write: only over the content it was bound to.  The last
\* comparison is not a cross-process primitive, so foreign content that
\* arrived after it is overwritten too.
CompareAndPut(t) ==
    /\ call[t].op = "cas"
    /\ file \in {call[t].seen} \union Foreign
    /\ file # Absent
    /\ Install(call[t].arg)
    /\ Return(t)

Delete(t) ==
    /\ \/ call[t].op = "remove"
       \/ call[t].op = "removeIf" /\ file \in {call[t].seen} \union Foreign
    /\ file' = Absent
    /\ Return(t)
    /\ UNCHANGED past

\* A reader rolls the file back to an earlier content.
RollBack(t) ==
    /\ call[t].op = "restore"
    /\ \E c \in past : Install(c)
    /\ UNCHANGED call

\* A call ends without an effect: an I/O error, a stale condition, a
\* reader that has its answer.
GiveUp(t) ==
    /\ call[t] # Idle
    /\ Return(t)
    /\ UNCHANGED <<file, past>>

Interfere ==
    /\ \E c \in Foreign : Install(c)
    /\ UNCHANGED call

Crash ==
    /\ call' = [t \in Threads |-> Idle]
    /\ UNCHANGED <<file, past>>

Next ==
    \/ \E t \in Threads :
         \/ Invoke(t) \/ Put(t) \/ CompareAndPut(t)
         \/ Delete(t) \/ RollBack(t) \/ GiveUp(t)
    \/ Interfere
    \/ Crash

Spec == Init /\ [][Next]_linearVars
===========================================================================
