-------------------------- MODULE AccountIdentity --------------------------
(***************************************************************************)
(* Who an account belongs to, as src-tauri/src/modules/codebuddy_account.rs*)
(* decides it (codebuddy_cn_account.rs and workbuddy_account.rs repeat the *)
(* code): the match of a login against a stored account, the test for      *)
(* duplicates, and the merge of a list of accounts.                        *)
(*                                                                         *)
(* An account is [id, uid, email, used]: uid and email are normalised      *)
(* (lower case; an email without '@' counts as none), used is last_used.   *)
(* The other fields follow the account they are in.  A tie of last_used is *)
(* broken here by the place in the list only; the code first compares      *)
(* created_at.                                                             *)
(***************************************************************************)
EXTENDS Naturals, Sequences, SequencesExt, FiniteSetsExt

CONSTANTS Uids, Emails, None

ASSUME NoneIsNobody == None \notin Uids \union Emails

Identity == [uid: Uids \union {None}, email: Emails \union {None}]

Same(x, y) == x # None /\ x = y

Conflict(x, y) == x # None /\ y # None /\ x # y

\* account_matches_payload_identity: an equal uid decides; an equal email
\* does unless the uids differ.
Matches(existing, incoming) ==
    \/ Same(existing.uid, incoming.uid)
    \/ /\ Same(existing.email, incoming.email)
       /\ ~Conflict(existing.uid, incoming.uid)

\* Mutant: an equal email decides, whatever the uids.
AreDuplicates_EmailDecides(l, r) == Same(l.uid, r.uid) \/ Same(l.email, r.email)

\* accounts_are_duplicates
AreDuplicates(l, r) ==
    /\ ~Conflict(l.uid, r.uid)
    /\ ~Conflict(l.email, r.email)
    /\ Same(l.uid, r.uid) \/ Same(l.email, r.email)

\* Mutant: the second account of a pair joins the first one alone, not
\* everything it was joined to before.
Join_RootOnly(blocks, pair) ==
    LET of(i) == CHOOSE b \in blocks : i \in b
        joined == of(pair[1]) \union {pair[2]}
    IN  ({b \ joined : b \in blocks} \ {{}}) \union {joined}

\* union of the two sets a pair of duplicates is in.
Join(blocks, pair) ==
    LET joined == UNION {b \in blocks : pair[1] \in b \/ pair[2] \in b}
    IN  {b \in blocks : b \intersect joined = {}} \union {joined}

\* The groups union-find makes of the positions of a list of accounts.
Groups(accounts) ==
    LET Positions == DOMAIN accounts
        Pairs == {p \in Positions \X Positions :
                    /\ p[1] < p[2]
                    /\ AreDuplicates(accounts[p[1]], accounts[p[2]])}
    IN  FoldSet(LAMBDA p, blocks : Join(blocks, p), {{i} : i \in Positions},
                Pairs)

\* choose_primary_account_index: the last of the most recently used.
Primary(accounts, group) ==
    Max({i \in group :
           \A j \in group : accounts[j].used <= accounts[i].used})

\* Mutant: the duplicates are dropped without filling the survivor's gaps.
MergeInto_KeepOwn(primary, duplicate) == primary

\* merge_duplicate_account: the primary's gaps are filled.
MergeInto(primary, duplicate) ==
    [primary EXCEPT
       !.uid = IF @ = None THEN duplicate.uid ELSE @,
       !.email = IF @ = None THEN duplicate.email ELSE @]

Merged(accounts, group) ==
    LET p == Primary(accounts, group)
    IN  FoldLeft(MergeInto, accounts[p],
                 [k \in 1 .. Cardinality(group \ {p}) |->
                    accounts[SetToSortSeq(group \ {p}, <)[k]]])

\* Mutant: without `processed` each member of a group yields its survivor.
Normalized_PerMember(accounts) ==
    [k \in DOMAIN accounts |->
       Merged(accounts, CHOOSE g \in Groups(accounts) : k \in g)]

\* The list normalize_account_index makes of the accounts it loaded: one
\* account for each group, at the place of the group's first member.
Normalized(accounts) ==
    LET groups == Groups(accounts)
        firsts == SetToSortSeq({Min(g) : g \in groups}, <)
    IN  [k \in DOMAIN firsts |->
           Merged(accounts, CHOOSE g \in groups : Min(g) = firsts[k])]

IdsOf(accounts) == {accounts[i].id : i \in DOMAIN accounts}

\* removed_ids
MergedAway(accounts) == IdsOf(accounts) \ IdsOf(Normalized(accounts))
============================================================================
