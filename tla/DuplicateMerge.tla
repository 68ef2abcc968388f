--------------------------- MODULE DuplicateMerge --------------------------
(***************************************************************************)
(* The merge of AccountIdentity on its own: an arbitrary list of stored    *)
(* accounts is normalised, and normalised again, as two listings in a row  *)
(* do (normalize_account_index of codebuddy_account.rs).                   *)
(***************************************************************************)
EXTENDS AccountIdentity

CONSTANTS
    MaxAccounts,    \* length of the list
    MaxUsed         \* last_used is in 0 .. MaxUsed

MergeBounds == MaxAccounts \in Nat /\ MaxUsed \in Nat

VARIABLES
    before,     \* the list as loaded
    now,        \* the list as it is
    runs        \* how often it has been normalised

vars == <<before, now, runs>>

Account == [id: 1 .. MaxAccounts, uid: Uids \union {None},
            email: Emails \union {None}, used: 0 .. MaxUsed]

\* The account at each place has its own id.
Lists(n) ==
    {[i \in 1 .. n |-> [id |-> i, uid |-> who[i].uid, email |-> who[i].email,
                        used |-> used[i]]] :
       who \in [1 .. n -> Identity], used \in [1 .. n -> 0 .. MaxUsed]}

Init ==
    /\ \E n \in 0 .. MaxAccounts : before \in Lists(n)
    /\ now = before
    /\ runs = 0

Normalize ==
    /\ runs < 2
    /\ now' = Normalized(now)
    /\ runs' = runs + 1
    /\ UNCHANGED before

Next == Normalize

Spec == Init /\ [][Next]_vars
----------------------------------------------------------------------------
TypeOK ==
    /\ Len(now) <= Len(before)
    /\ \A i \in DOMAIN now : now[i] \in Account
    /\ Cardinality(IdsOf(now)) = Len(now)

\* The merge of a list has no duplicates left (a filled gap does not make
\* the survivor a duplicate of an account outside its group), so a second
\* listing rewrites and deletes nothing.
OneRunIsEnough == [][runs = 1 => now' = now]_vars

\* Every email and every uid that was stored is still stored after a merge
\* of accounts of one user: nothing is lost when a group has one uid and one
\* email at most.
NothingKnownIsLost ==
    \A g \in Groups(before) :
      LET members == {before[i] : i \in g}
          uids == {m.uid : m \in members} \ {None}
          emails == {m.email : m \in members} \ {None}
      IN  runs > 0 /\ Cardinality(uids) <= 1 /\ Cardinality(emails) <= 1 =>
            \E k \in DOMAIN now :
              /\ now[k].id \in {m.id : m \in members}
              /\ uids = {now[k].uid} \ {None}
              /\ emails = {now[k].email} \ {None}

\* CHANGELOG.md:86: accounts of different users coexist.  Two stored accounts
\* with different uids are never merged into one.
DifferentUsersStayApart ==
    \A i, j \in DOMAIN before :
      Conflict(before[i].uid, before[j].uid) =>
        {before[i].uid, before[j].uid} \subseteq
          {now[k].uid : k \in DOMAIN now}
============================================================================
