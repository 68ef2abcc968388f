------------------------- MODULE AccountStore_proofs -------------------------
(***************************************************************************)
(* For any threads, users and number of calls and faults: in a store whose *)
(* listing only reads (Plain), an index names only stored accounts, an     *)
(* account added stays, one removed stays away, and a listing returns what *)
(* was there all the while, but for what the properties themselves except. *)
(*                                                                         *)
(* A call that holds the index lock is alone with the files, so each of    *)
(* its steps can rely on what the one before it saw or wrote (Stage).  A   *)
(* listing is never alone: it relies on the order of the writes.  If it    *)
(* finds the index empty, missing or unreadable it may rebuild it without  *)
(* the lock; from then on nothing is known of the index any more           *)
(* (Rebuilt), and of the detail files as much as before.                   *)
(***************************************************************************)
EXTENDS AccountStore, FiniteSetTheorems, SequenceTheorems, WellFoundedInduction, TLAPS

\* A store without listings, or whose listing only reads (qoder, trae).
Plain(u) == "list" \in u.kinds => ~u.merges

\* Refreshes write back what they read without the lock: beside removals they bring
\* removed accounts back.
RefreshesRaceRemovals(u) == {"refresh", "remove"} \subseteq u.kinds

\* A call is at a step of its kind; a listing writes the index only to rebuild it.
Allowed(c) ==
    c.at # "idle" =>
      /\ c.kind \in use.kinds
      /\ c.kind = "list" =>
           /\ c.at \in {"index", "collect", "backup", "resave", "details", "plan"}
           /\ c.plan = << >>
           /\ c.at \in {"backup", "resave"} => Rebuilt
      /\ c.kind # "list" => c.at # "details" /\ c.account \in Account

Locking(c) == c.at \notin {"idle", "await", "lock"} /\ c.kind # "list"

DetailsAreTheirs == \A id \in Present : details[id].id = id

\* The list holds every account owned and not hidden, and none but those stored
\* or in more.
Tells(list, more) ==
    \/ Rebuilt
    \/ /\ owned \ hidden \subseteq IdsOf(list)
       /\ IdsOf(list) \subseteq Present \union more

\* Detail file, then index.
SavesInOrder(c) ==
    LET id == c.account.id
    IN  /\ c.kind \in {"add", "import"} => id \notin gone
        /\ \/ /\ Len(c.plan) = 2
              /\ c.plan[1] = SaveOf(c.account) /\ c.plan[2].do = "index"
              /\ Tells(c.plan[2].list, {id}) /\ id \in IdsOf(c.plan[2].list)
           \/ /\ Len(c.plan) = 1
              /\ c.plan[1].do = "index"
              /\ Tells(c.plan[1].list, {}) /\ id \in IdsOf(c.plan[1].list)
              /\ id \in Present
           \/ Len(c.plan) = 0 /\ id \in Present /\ (Rebuilt \/ id \in Listed)

\* Index, then detail file.
RemovesInOrder(c) ==
    LET id == c.account.id
    IN  /\ id \notin owned
        /\ \/ /\ Len(c.plan) = 2
              /\ c.plan[1].do = "index" /\ c.plan[2] = DeleteOf(id)
              /\ Tells(c.plan[1].list, {}) /\ id \notin IdsOf(c.plan[1].list)
           \/ /\ Len(c.plan) = 1 /\ c.plan[1] = DeleteOf(id)
              /\ Rebuilt \/ id \notin Listed
           \/ Len(c.plan) = 0 /\ id \notin Present /\ (Rebuilt \/ id \notin Listed)

\* What the holder of the lock relies on, step by step.
Stage(c) ==
    /\ c.at \in {"collect", "backup", "resave"} => Rebuilt \/ index \in {Missing, << >>}
    /\ c.at \in {"backup", "resave", "decide"} => Tells(c.list, {})
    /\ c.at = "plan" /\ c.kind = "remove" => RemovesInOrder(c)
    /\ c.at = "plan" /\ c.kind # "remove" => SavesInOrder(c)

\* What was there all the while is still to be read, or has been.
Fed(c, ids) ==
    /\ c.at = "details" =>
         Rebuilt \/ ids \subseteq ToSet(c.todo) \union IdsOf(c.seen)
    /\ c.at = "plan" /\ c.kind = "list" => Rebuilt \/ ids \subseteq IdsOf(c.seen)

CallsAreSound ==
    \A t \in Threads :
      /\ Allowed(call[t])
      /\ Locking(call[t]) <=> lock = t
      /\ lock = t => Stage(call[t])
      /\ due[t] \subseteq owned \ hidden /\ Fed(call[t], due[t])

FilesAreSound ==
    /\ DetailsAreTheirs /\ NoDangling /\ AddedStayListed
    /\ gone # {} => "remove" \in use.kinds
    /\ ~RefreshesRaceRemovals(use) => RemovedStayRemoved

Safe == TypeOK /\ CallsAreSound /\ FilesAreSound

IInv == Plain(use) => Safe

----------------------------------------------------------------------------
(* Lists                                                                   *)

\* A set of numbers has a least one.
LEMMA LeastNumber ==
    ASSUME NEW S \in SUBSET Nat, S # {}
    PROVE  \E x \in S : \A y \in S : x <= y
<1> DEFINE less == {p \in Nat \X Nat : p[1] < p[2]}
<1>1. IsWellFoundedOn(less, Nat)
  BY NatLessThanWellFounded DEF OpToRel
<1>2. \E x \in S : \A y \in S : <<y, x>> \notin less
  BY <1>1, WFMin
<1>3. \A x, y \in Nat : <<y, x>> \notin less => x <= y
  <2> SUFFICES ASSUME NEW x \in Nat, NEW y \in Nat, y < x PROVE <<y, x>> \in less
    OBVIOUS
  <2>1. /\ <<y, x>> \in Nat \X Nat
        /\ <<y, x>>[1] = y /\ <<y, x>>[2] = x
    OBVIOUS
  <2>2. QED
    BY <2>1
<1> HIDE DEF less
<1>4. QED
  BY <1>2, <1>3

\* One step of retain.
Step(rest, entry, id) == IF entry.id = id THEN rest ELSE Append(rest, entry)

\* kept, as a function on the numbers up to n, is retain's run over n entries.
Runs(kept, list, id, n) ==
    /\ kept \in [0 .. n -> Seq(Entry)]
    /\ kept[0] = << >>
    /\ \A m \in 1 .. n : kept[m] = Step(kept[m - 1], list[m], id)

\* There is such a run: from a least n without one, the one for n - 1 goes on.
LEMMA RetainRuns ==
    ASSUME NEW list \in Seq(Entry), NEW id
    PROVE  \E kept : Runs(kept, list, id, Len(list))
<1> DEFINE bad == {n \in 0 .. Len(list) : ~\E kept : Runs(kept, list, id, n)}
<1>1. SUFFICES ASSUME bad # {} PROVE FALSE
  OBVIOUS
<1>2. PICK n \in bad : \A m \in bad : n <= m
  <2>1. bad \in SUBSET Nat
    OBVIOUS
  <2> HIDE DEF bad
  <2>2. QED
    BY <1>1, <2>1, LeastNumber
<1>3. Runs([m \in 0 .. 0 |-> << >>], list, id, 0)
  BY DEF Runs
<1>4. n # 0
  BY <1>2, <1>3
<1>5. PICK kept : Runs(kept, list, id, n - 1)
  BY <1>2, <1>4
<1> DEFINE more == [m \in 0 .. n |-> IF m = n THEN Step(kept[n - 1], list[n], id)
                                              ELSE kept[m]]
<1>6. Step(kept[n - 1], list[n], id) \in Seq(Entry)
  BY <1>2, <1>4, <1>5, AppendProperties DEF Runs, Step
<1>7. more \in [0 .. n -> Seq(Entry)] /\ more[0] = << >>
  BY <1>2, <1>4, <1>5, <1>6 DEF Runs
<1>8. ASSUME NEW m \in 1 .. n PROVE more[m] = Step(more[m - 1], list[m], id)
  <2>1. m \in 0 .. n /\ m - 1 \in 0 .. n /\ m - 1 # n
    BY <1>2, <1>8
  <2>2. more[m - 1] = kept[m - 1]
    BY <2>1
  <2>3. CASE m = n
    BY <2>1, <2>2, <2>3
  <2>4. CASE m # n
    BY <2>1, <2>2, <2>4, <1>2, <1>5, <1>8 DEF Runs
  <2>5. QED
    BY <2>3, <2>4
<1> HIDE DEF more
<1>9. Runs(more, list, id, n)
  BY <1>7, <1>8 DEF Runs
<1>10. QED
  BY <1>2, <1>9

\* Appending an entry adds its id, and nothing else.
LEMMA IdsAppended ==
    ASSUME NEW list \in Seq(Entry), NEW e \in Entry
    PROVE  IdsOf(Append(list, e)) = IdsOf(list) \union {e.id}
<1> DEFINE longer == Append(list, e)
<1>1. /\ Len(list) \in Nat /\ DOMAIN list = 1 .. Len(list)
      /\ DOMAIN longer = 1 .. (Len(list) + 1)
      /\ \A i \in 1 .. Len(list) : longer[i] = list[i]
      /\ longer[Len(list) + 1] = e
  BY AppendProperties
<1> HIDE DEF longer
<1>2. DOMAIN longer = DOMAIN list \union {Len(list) + 1}
  BY <1>1
<1>3. \A i \in DOMAIN list : longer[i] = list[i]
  BY <1>1
<1>4. IdsOf(longer) = {longer[i].id : i \in DOMAIN list} \union {longer[Len(list) + 1].id}
  BY <1>2 DEF IdsOf
<1>5. {longer[i].id : i \in DOMAIN list} = IdsOf(list)
  BY <1>3 DEF IdsOf
<1>6. QED
  BY <1>1, <1>4, <1>5 DEF longer

\* Without takes away what it says, and nothing else.
LEMMA WithoutTakes ==
    ASSUME NEW list \in Seq(Entry), NEW id
    PROVE  /\ Without(list, id) \in Seq(Entry)
           /\ IdsOf(Without(list, id)) = IdsOf(list) \ {id}
<1> DEFINE Kept(f) == [n \in 0 .. Len(list) |->
                         IF n = 0 THEN << >>
                         ELSE IF list[n].id = id THEN f[n - 1]
                              ELSE Append(f[n - 1], list[n])]
           kept == CHOOSE f : f = Kept(f)
<1>1. \E f : f = Kept(f)
  <2>1. PICK f : Runs(f, list, id, Len(list))
    BY RetainRuns
  <2>2. ASSUME NEW n \in 0 .. Len(list) PROVE f[n] = Kept(f)[n]
    <3>1. CASE n = 0
      BY <2>1, <3>1 DEF Runs
    <3>2. CASE n # 0
      <4>1. n \in 1 .. Len(list)
        BY <3>2
      <4>2. f[n] = Step(f[n - 1], list[n], id)
        BY <2>1, <4>1 DEF Runs
      <4>3. QED
        BY <3>2, <4>1, <4>2 DEF Step
    <3>3. QED
      BY <3>1, <3>2
  <2>3. f = Kept(f)
    BY <2>1, <2>2 DEF Runs
  <2>4. QED
    BY <2>3
<1>2. kept = Kept(kept)
  BY <1>1
<1> DEFINE of(n) == {list[i].id : i \in 1 .. n} \ {id}
           bad == {n \in 0 .. Len(list) :
                     ~(kept[n] \in Seq(Entry) /\ IdsOf(kept[n]) = of(n))}
<1>3. Without(list, id) = kept[Len(list)]
  BY DEF Without
<1> HIDE DEF kept
<1>4. ASSUME bad # {} PROVE FALSE
  <2>1. PICK n \in bad : \A m \in bad : n <= m
    <3>1. bad \in SUBSET Nat
      OBVIOUS
    <3> HIDE DEF bad
    <3>2. QED
      BY <1>4, <3>1, LeastNumber
  <2>2. CASE n = 0
    <3>1. kept[0] = << >>
      BY <1>2
    <3>2. kept[0] \in Seq(Entry) /\ IdsOf(kept[0]) = {} /\ of(0) = {}
      BY <3>1 DEF IdsOf
    <3>3. QED
      BY <2>1, <2>2, <3>2
  <2>3. CASE n # 0
    <3>1. n \in 1 .. Len(list) /\ n - 1 \in 0 .. Len(list) /\ n - 1 \notin bad
      <4>1. n \in 0 .. Len(list)
        BY <2>1
      <4>2. n \in 1 .. Len(list) /\ n - 1 \in 0 .. Len(list) /\ ~(n <= n - 1)
        BY <2>3, <4>1
      <4> HIDE DEF bad
      <4>3. QED
        BY <2>1, <4>2
    <3>2. kept[n - 1] \in Seq(Entry) /\ IdsOf(kept[n - 1]) = of(n - 1)
      BY <3>1
    <3>3. of(n) = of(n - 1) \union ({list[n].id} \ {id})
      <4>1. 1 .. n = 1 .. (n - 1) \union {n}
        BY <3>1
      <4>2. {list[i].id : i \in 1 .. n} = {list[i].id : i \in 1 .. (n - 1)} \union {list[n].id}
        BY <4>1
      <4>3. QED
        BY <4>2
    <3>4. kept[n] = IF list[n].id = id THEN kept[n - 1] ELSE Append(kept[n - 1], list[n])
      BY <1>2, <2>1, <2>3
    <3>5. list[n] \in Entry
      BY <3>1
    <3> HIDE DEF of, bad
    <3>6. CASE list[n].id = id
      BY <3>2, <3>3, <3>4, <3>6, <2>1 DEF bad
    <3>7. CASE list[n].id # id
      <4>1. /\ kept[n] \in Seq(Entry) /\ Len(kept[n]) = Len(kept[n - 1]) + 1
            /\ \A i \in 1 .. Len(kept[n - 1]) : kept[n][i] = kept[n - 1][i]
            /\ kept[n][Len(kept[n - 1]) + 1] = list[n]
        BY <3>2, <3>4, <3>5, <3>7, AppendProperties
      <4>2. IdsOf(kept[n]) = IdsOf(kept[n - 1]) \union {list[n].id}
        BY <3>2, <3>4, <3>5, <3>7, IdsAppended
      <4>3. QED
        BY <3>2, <3>3, <3>7, <4>1, <4>2, <2>1 DEF bad
    <3>8. QED
      BY <3>6, <3>7
  <2>4. QED
    BY <2>2, <2>3
<1>5. Len(list) \in 0 .. Len(list) /\ DOMAIN list = 1 .. Len(list)
  OBVIOUS
<1>6. kept[Len(list)] \in Seq(Entry) /\ IdsOf(kept[Len(list)]) = of(Len(list))
  BY <1>4, <1>5
<1>7. of(Len(list)) = IdsOf(list) \ {id}
  BY <1>5 DEF IdsOf
<1>8. QED
  BY <1>3, <1>6, <1>7

\* refresh_summary adds the account, and nothing else.
LEMMA SummaryRefreshed ==
    ASSUME NEW list \in Seq(Entry), NEW a \in Account
    PROVE  /\ RefreshSummary(list, a) \in Seq(Entry)
           /\ IdsOf(RefreshSummary(list, a)) = IdsOf(list) \union {a.id}
<1>1. Summary(a) \in Entry /\ Summary(a).id = a.id
  BY DEF Summary, Entry, Account
<1>2. /\ DOMAIN list = 1 .. Len(list) /\ Len(list) \in Nat
      /\ \A i \in 1 .. Len(list) : list[i] \in Entry
  OBVIOUS
<1>3. CASE a.id \in IdsOf(list)
  <2> DEFINE new == [i \in DOMAIN list |-> IF list[i].id = a.id THEN Summary(a) ELSE list[i]]
  <2>1. RefreshSummary(list, a) = new
    BY <1>3 DEF RefreshSummary
  <2>2. \A i \in 1 .. Len(list) : new[i] \in Entry /\ new[i].id = list[i].id
    BY <1>1, <1>2
  <2>3. new \in Seq(Entry) /\ DOMAIN new = DOMAIN list
    BY <1>2, <2>2, IsASeq
  <2> HIDE DEF new
  <2>4. IdsOf(new) = IdsOf(list)
    BY <1>2, <2>2, <2>3 DEF IdsOf
  <2>5. QED
    BY <1>3, <2>1, <2>3, <2>4
<1>4. CASE a.id \notin IdsOf(list)
  <2> DEFINE new == Append(list, Summary(a))
  <2>1. /\ new \in Seq(Entry) /\ Len(new) = Len(list) + 1
        /\ \A i \in 1 .. Len(list) : new[i] = list[i]
        /\ new[Len(list) + 1] = Summary(a)
    BY <1>1, AppendProperties
  <2>2. RefreshSummary(list, a) = new
    BY <1>4 DEF RefreshSummary
  <2> HIDE DEF new
  <2>3. DOMAIN new = 1 .. Len(list) \union {Len(list) + 1}
    BY <1>2, <2>1
  <2>4. IdsOf(new) = IdsOf(list) \union {a.id}
    BY <1>1, <1>2, <2>1, <2>3 DEF IdsOf
  <2>5. QED
    BY <2>1, <2>2, <2>4
<1>5. QED
  BY <1>3, <1>4

\* A rebuilt index holds each account found, and no other.
LEMMA RebuiltIndex ==
    ASSUME StoreBounds, TypeOK, DetailsAreTheirs, NEW found \in SUBSET Present,
           NEW list \in ByRecency({Summary(details[id]) : id \in found})
    PROVE  list \in Seq(Entry) /\ IdsOf(list) = found
<1> DEFINE entries == {Summary(details[id]) : id \in found}
<1>1. IsFiniteSet(found)
  <2>1. IsFiniteSet(Ids) /\ found \subseteq Ids
    BY DEF StoreBounds, Ids, Present
  <2>2. QED
    BY <2>1, FS_Subset
<1>2. IsFiniteSet(entries)
  <2> DEFINE f == [id \in found |-> Summary(details[id])]
  <2>1. f \in Surjection(found, entries)
    BY DEF Surjection
  <2> HIDE DEF f, entries
  <2>2. QED
    BY <1>1, <2>1, FS_Surjection
<1>3. \A id \in found : Summary(details[id]) \in Entry /\ Summary(details[id]).id = id
  BY DEF Present, TypeOK, DetailsAreTheirs, Summary, Entry, Account
<1>4. entries \subseteq Entry
  BY <1>3
<1>5. Cardinality(entries) \in Nat
  BY <1>2, FS_CardinalityType
<1>6. list \in [1 .. Cardinality(entries) -> entries] /\ ToSet(list) = entries
  BY DEF ByRecency
<1>7. list \in Seq(Entry)
  <2> HIDE DEF entries
  <2>1. list \in [1 .. Cardinality(entries) -> Entry]
    BY <1>4, <1>6
  <2>2. QED
    BY <1>5, <2>1, SeqDef
<1>8. IdsOf(list) = {e.id : e \in entries}
  BY <1>6 DEF IdsOf, ToSet
<1>9. {e.id : e \in entries} = found
  BY <1>3
<1>10. QED
  BY <1>7, <1>8, <1>9

\* A login yields an account, under the id of a stored one or its own.
LEMMA UpsertedIsAnAccount ==
    ASSUME StoreBounds, TypeOK, NEW list \in Seq(Entry), NEW p \in Account,
           NEW searched, NEW reread
    PROVE  Upserted(list, p, searched, reread) \in Account
<1> DEFINE matching == {i \in DOMAIN list : /\ list[i].id \in searched
                                           /\ Matches(details[list[i].id], p)}
           id == IF matching # {} THEN list[Min(matching)].id ELSE p.id
           email == IF p.email = None /\ reread /\ details[id] # Missing
                    THEN details[id].email ELSE p.email
<1>1. Upserted(list, p, searched, reread) = [id |-> id, uid |-> p.uid, email |-> email, used |-> clock]
  BY DEF Upserted
<1>2. matching # {} => Min(matching) \in DOMAIN list
  <2> SUFFICES ASSUME matching # {} PROVE Min(matching) \in matching
    OBVIOUS
  <2>1. matching \in SUBSET Nat
    OBVIOUS
  <2> HIDE DEF matching
  <2>2. \E x \in matching : \A y \in matching : x <= y
    BY <2>1, LeastNumber
  <2>3. QED
    BY <2>2 DEF Min
<1> HIDE DEF matching
<1>3. id \in Ids
  <2>1. \A i \in DOMAIN list : list[i].id \in Ids
    <3>1. \A i \in 1 .. Len(list) : list[i] \in Entry
      OBVIOUS
    <3>2. DOMAIN list = 1 .. Len(list)
      OBVIOUS
    <3>3. QED
      BY <3>1, <3>2 DEF Entry
  <2>2. p.id \in Ids
    BY DEF Account
  <2>3. QED
    BY <1>2, <2>1, <2>2
<1> HIDE DEF id
<1>4. email \in Emails \union {None}
  BY <1>3 DEF TypeOK, Account
<1> HIDE DEF email
<1>5. p.uid \in Uids \union {None} /\ clock \in 0 .. MaxCalls
  BY DEF TypeOK, Account
<1>6. QED
  BY <1>1, <1>3, <1>4, <1>5 DEF Account

----------------------------------------------------------------------------
(* The beginning, and steps in general                                     *)

LEMMA InitIInv == ASSUME StoreBounds, MissingIsNoFile, UsesAreUses, Init PROVE IInv
<1> SUFFICES ASSUME Plain(use) PROVE Safe
  BY DEF IInv
<1> DEFINE accounts == use.initial
<1>1. use \in Use /\ accounts \in Seq(Account)
  BY DEF Init, UsesAreUses, Use
<1>2. /\ DOMAIN accounts = 1 .. Len(accounts) /\ Len(accounts) \in Nat
      /\ \A i \in DOMAIN accounts : accounts[i] \in Account
  BY <1>1
<1>3. \A id \in IdsOf(accounts) :
        LET a == CHOOSE a \in ToSet(accounts) : a.id = id
        IN  a \in Account /\ a.id = id
  <2>1. \A id \in IdsOf(accounts) : \E a \in ToSet(accounts) : a.id = id
    BY <1>2 DEF IdsOf, ToSet
  <2>2. ToSet(accounts) \subseteq Account
    BY <1>2 DEF ToSet
  <2>3. QED
    BY <2>1, <2>2
<1>4. index = Summaries(accounts)
  BY DEF Init
<1>5. index \in Seq(Entry) /\ IdsOf(index) = IdsOf(accounts) /\ DOMAIN index = DOMAIN accounts
  <2>1. \A i \in DOMAIN accounts : Summary(accounts[i]) \in Entry
    BY <1>2 DEF Summary, Entry, Account
  <2>2. index \in [1 .. Len(accounts) -> Entry]
    BY <1>2, <1>4, <2>1 DEF Summaries
  <2>3. IdsOf(index) = IdsOf(accounts)
    <3>1. DOMAIN index = DOMAIN accounts /\ \A i \in DOMAIN accounts : index[i].id = accounts[i].id
      BY <1>4 DEF Summaries, Summary
    <3> HIDE DEF accounts
    <3>2. QED
      BY <3>1 DEF IdsOf
  <2>4. QED
    BY <1>2, <2>2, <2>3, SeqDef
<1>6. IdsOf(accounts) \subseteq Ids
  BY <1>2 DEF IdsOf, Account
<1>7. /\ details \in [Ids -> Account \union {Missing}] /\ Present = IdsOf(accounts)
      /\ \A id \in Present : details[id].id = id
  <2>1. Missing \notin Account
    BY DEF MissingIsNoFile
  <2> HIDE DEF accounts
  <2>2. details = [id \in Ids |-> IF id \in IdsOf(accounts)
                                  THEN CHOOSE a \in ToSet(accounts) : a.id = id
                                  ELSE Missing]
    BY DEF Init, accounts
  <2>3. \A id \in Ids : details[id] = IF id \in IdsOf(accounts)
                                     THEN CHOOSE a \in ToSet(accounts) : a.id = id
                                     ELSE Missing
    BY <2>2
  <2>4. \A id \in IdsOf(accounts) : details[id] \in Account /\ details[id].id = id
    BY <1>3, <1>6, <2>3
  <2>5. \A id \in Ids \ IdsOf(accounts) : details[id] = Missing
    BY <2>3
  <2>6. \A id \in Ids : details[id] \in Account \union {Missing}
    BY <2>4, <2>5
  <2>7. details \in [Ids -> Account \union {Missing}]
    BY <2>2, <2>6
  <2>8. \A id \in IdsOf(accounts) : details[id] # Missing
    BY <2>1, <2>4
  <2>9. Present = IdsOf(accounts)
    BY <1>6, <2>5, <2>8 DEF Present
  <2>10. QED
    BY <2>4, <2>7, <2>9
<1>8. Listed = IdsOf(accounts)
  BY <1>5 DEF Listed, MissingIsNoFile
<1>9. TypeOK
  <2>1. call \in [Threads -> Call \union {Idle}] /\ due \in [Threads -> SUBSET Ids]
    BY DEF Init
  <2>2. owned \subseteq Ids /\ gone \subseteq Ids /\ hidden \subseteq Ids /\ mishaps \subseteq Mishaps
    BY <1>6 DEF Init
  <2>3. clock \in 0 .. MaxCalls /\ faults \in 0 .. MaxFaults
    BY DEF Init, StoreBounds
  <2>4. QED
    BY <1>5, <1>7, <2>1, <2>2, <2>3 DEF Init, TypeOK
<1>10. CallsAreSound
  <2> SUFFICES ASSUME NEW t \in Threads
               PROVE  /\ Allowed(call[t]) /\ ~Locking(call[t]) /\ lock # t
                      /\ due[t] \subseteq owned \ hidden /\ Fed(call[t], due[t])
    BY DEF CallsAreSound
  <2>1. call[t].at = "idle" /\ due[t] = {} /\ lock # t
    BY DEF Init, Idle, StoreBounds
  <2>2. QED
    BY <2>1 DEF Allowed, Locking, Fed
<1>11. FilesAreSound
  BY <1>7, <1>8
  DEF Init, FilesAreSound, DetailsAreTheirs, NoDangling, AddedStayListed, RemovedStayRemoved
<1>12. QED
  BY <1>9, <1>10, <1>11 DEF Safe

\* A step of one call that leaves the detail files and what is owned alone.
LEMMA StepBeside ==
    ASSUME Safe, TypeOK', NEW t \in Threads,
           UNCHANGED <<use, details, owned, gone>>,
           Rebuilt => Rebuilt', index' = index \/ Rebuilt', hidden \subseteq hidden',
           \A u \in Threads \ {t} : call'[u] = call[u] /\ due'[u] \subseteq due[u],
           \A u \in Threads : due'[u] \subseteq owned \ hidden',
           \A u \in Threads \ {t} : lock' = u <=> lock = u,
           Allowed(call[t])', (Locking(call[t]) <=> lock = t)',
           (lock = t => Stage(call[t]))', Fed(call[t], due[t])'
    PROVE  Safe'
<1>1. CallsAreSound'
  <2> SUFFICES ASSUME NEW u \in Threads
               PROVE  (/\ Allowed(call[u])
                       /\ Locking(call[u]) <=> lock = u
                       /\ lock = u => Stage(call[u])
                       /\ due[u] \subseteq owned \ hidden /\ Fed(call[u], due[u]))'
    BY DEF CallsAreSound
  <2>1. CASE u = t
    BY <2>1
  <2>2. CASE u # t
    <3>1. call'[u] = call[u] /\ due'[u] \subseteq due[u] /\ (lock' = u <=> lock = u)
      BY <2>2
    <3>2. /\ Allowed(call[u])
          /\ Locking(call[u]) <=> lock = u
          /\ lock = u => Stage(call[u])
          /\ Fed(call[u], due[u])
      BY DEF Safe, CallsAreSound
    <3>3. Allowed(call[u])' /\ (Locking(call[u]) <=> lock = u)'
      BY <3>1, <3>2 DEF Allowed, Locking
    <3>4. Fed(call[u], due[u])'
      BY <3>1, <3>2 DEF Fed
    <3>5. (lock = u => Stage(call[u]))'
      BY <3>1, <3>2
      DEF Stage, SavesInOrder, RemovesInOrder, Tells, Present, Listed
    <3>6. QED
      BY <3>1, <3>3, <3>4, <3>5
  <2>3. QED
    BY <2>1, <2>2
<1>2. FilesAreSound'
  BY DEF Safe, FilesAreSound, DetailsAreTheirs, NoDangling, AddedStayListed,
         RemovedStayRemoved, Present, Listed, RefreshesRaceRemovals
<1>3. QED
  BY <1>1, <1>2 DEF Safe

\* A step of the call that holds the lock.
LEMMA StepOfHolder ==
    ASSUME Safe, TypeOK', FilesAreSound', NEW t \in Threads, lock = t,
           use' = use, Rebuilt => Rebuilt', lock' \in {t, NoThread},
           \A u \in Threads \ {t} : call'[u] = call[u],
           \A u \in Threads : due'[u] \subseteq due[u] /\ due'[u] \subseteq owned' \ hidden',
           Allowed(call[t])', (Locking(call[t]) <=> lock = t)',
           (lock = t => Stage(call[t]))', call'[t].at # "details",
           call'[t].at # "idle" => call'[t].kind # "list",
           StoreBounds
    PROVE  Safe'
<1>1. CallsAreSound'
  <2> SUFFICES ASSUME NEW u \in Threads
               PROVE  (/\ Allowed(call[u])
                       /\ Locking(call[u]) <=> lock = u
                       /\ lock = u => Stage(call[u])
                       /\ due[u] \subseteq owned \ hidden /\ Fed(call[u], due[u]))'
    BY DEF CallsAreSound
  <2>1. CASE u = t
    <3>1. Fed(call[t], due[t])'
      BY DEF Fed
    <3>2. QED
      BY <2>1, <3>1
  <2>2. CASE u # t
    <3>1. call'[u] = call[u] /\ due'[u] \subseteq due[u] /\ lock # u /\ lock' # u
      BY <2>2 DEF StoreBounds
    <3>2. Allowed(call[u]) /\ ~Locking(call[u]) /\ Fed(call[u], due[u])
      BY <3>1 DEF Safe, CallsAreSound
    <3>3. Allowed(call[u])' /\ ~Locking(call[u])' /\ Fed(call[u], due[u])'
      BY <3>1, <3>2 DEF Allowed, Locking, Fed
    <3>4. QED
      BY <3>1, <3>3
  <2>3. QED
    BY <2>1, <2>2
<1>2. QED
  BY <1>1 DEF Safe

\* A call that has begun has all its fields.
LEMMA BegunCall ==
    ASSUME TypeOK, NEW t \in Threads, call[t].at # "idle"
    PROVE  /\ call[t] \in Call
           /\ call[t].kind \in Kinds /\ call[t].account \in Account \union {Missing}
           /\ call[t].list \in Seq(Entry) /\ call[t].todo \in Seq(Ids)
           /\ call[t].seen \in Seq(Account) /\ call[t].plan \in Seq(FileOp)
<1>1. call[t] \in Call \union {Idle} /\ call[t] # Idle
  BY DEF TypeOK, Idle
<1>2. QED
  BY <1>1 DEF Call

----------------------------------------------------------------------------
(* Calls begin                                                             *)

LEMMA BeginSafe ==
    ASSUME Safe, StoreBounds, NEW t \in Threads, NEW kind \in Kinds, NEW account \in Account \union {Missing},
           NEW at \in {"await", "lock", "index"}, Begin(t, kind, account, at),
           UNCHANGED <<owned, gone, hidden, mishaps>>,
           kind = "list" => at = "index" /\ due' = [due EXCEPT ![t] = owned \ hidden],
           kind # "list" => at \in {"await", "lock"} /\ account \in Account /\ due' = due
    PROVE  Safe'
<1> DEFINE c == [at |-> at, kind |-> kind, account |-> account, list |-> << >>,
                 todo |-> << >>, seen |-> << >>, plan |-> << >>]
<1>1. c \in Call
  BY EmptySeq DEF Call
<1>2. call' = [call EXCEPT ![t] = c] /\ call[t] = Idle /\ kind \in use.kinds
  BY DEF Begin
<1>3. call'[t] = c
  BY <1>2 DEF Safe, TypeOK
<1>4. lock # t
  <2>1. ~Locking(call[t])
    BY <1>2 DEF Locking, Idle
  <2>2. QED
    BY <2>1 DEF Safe, CallsAreSound
<1>5. TypeOK'
  <2>1. call' \in [Threads -> Call \union {Idle}]
    BY <1>1, <1>2 DEF Safe, TypeOK
  <2>2. due' \in [Threads -> SUBSET Ids]
    BY DEF Safe, TypeOK
  <2>3. clock' \in 0 .. MaxCalls
    BY DEF Safe, TypeOK, Begin, StoreBounds
  <2> HIDE DEF c
  <2>4. QED
    BY <2>1, <2>2, <2>3 DEF Safe, TypeOK, Begin, files
<1>6. /\ \A u \in Threads : due'[u] \subseteq owned \ hidden
      /\ \A u \in Threads \ {t} : due'[u] = due[u]
  BY DEF Safe, TypeOK, CallsAreSound
<1>7. Allowed(c)' /\ (Locking(c) <=> lock = t)' /\ Fed(c, due[t])'
  BY <1>2, <1>4 DEF Begin, files, Allowed, Locking, Fed
<1>8. Allowed(call[t])' /\ (Locking(call[t]) <=> lock = t)' /\ Fed(call[t], due[t])'
  BY <1>3, <1>7 DEF Allowed, Locking, Fed
<1> HIDE DEF c
<1>9. /\ UNCHANGED <<use, index, details, lock>> /\ Rebuilt' = Rebuilt
      /\ \A u \in Threads \ {t} : call'[u] = call[u]
  BY <1>2 DEF Begin, files, Safe, TypeOK, Rebuilt
<1>10. QED
  BY <1>4, <1>5, <1>6, <1>8, <1>9, StepBeside

\* A listing is owed what is owned when it begins.
LEMMA BeginListSafe ==
    ASSUME Safe, StoreBounds, NEW t \in Threads, BeginList(t) PROVE Safe'
BY BeginSafe DEF BeginList, Kinds

\* A login names its account.
LEMMA NewAccountIsOne ==
    ASSUME TypeOK, UsesAreUses, NEW p \in use.payloads
    PROVE  NewAccount(p, clock) \in Account
<1>1. p \in Login
  BY DEF TypeOK, UsesAreUses, Use
<1>2. GeneratedId(p) \in Ids
  BY <1>1 DEF Login, Identity, GeneratedId, Ids
<1>3. QED
  BY <1>1, <1>2 DEF TypeOK, NewAccount, Login, Identity, Account

LEMMA BeginAddSafe ==
    ASSUME Safe, StoreBounds, UsesAreUses, NEW t \in Threads, BeginAdd(t) PROVE Safe'
<1>1. PICK p \in use.payloads : Begin(t, "add", NewAccount(p, clock), "lock")
  BY DEF BeginAdd
<1>2. NewAccount(p, clock) \in Account
  BY NewAccountIsOne DEF Safe
<1>3. QED
  BY <1>1, <1>2, BeginSafe DEF BeginAdd, ghosts, Kinds

LEMMA BeginImportSafe ==
    ASSUME Safe, StoreBounds, UsesAreUses, NEW t \in Threads, BeginImport(t) PROVE Safe'
<1>1. PICK p \in use.payloads : Begin(t, "import", NewAccount(p, clock), "lock")
  BY DEF BeginImport
<1>2. NewAccount(p, clock) \in Account
  BY NewAccountIsOne DEF Safe
<1>3. QED
  BY <1>1, <1>2, BeginSafe DEF BeginImport, ghosts, Kinds

LEMMA BeginRefreshSafe ==
    ASSUME Safe, StoreBounds, NEW t \in Threads, BeginRefresh(t) PROVE Safe'
<1>1. PICK id \in Present : Begin(t, "refresh", details[id], "await")
  BY DEF BeginRefresh
<1>2. details[id] \in Account
  BY DEF Safe, TypeOK, Present
<1>3. QED
  BY <1>1, <1>2, BeginSafe DEF BeginRefresh, ghosts, Kinds

LEMMA BeginRemoveSafe ==
    ASSUME Safe, StoreBounds, UsesAreUses, NEW t \in Threads, BeginRemove(t) PROVE Safe'
<1>1. PICK id \in use.removable \intersect (Present \union Listed) :
        Begin(t, "remove", [id |-> id, uid |-> None, email |-> None, used |-> 0], "lock")
  BY DEF BeginRemove
<1>2. [id |-> id, uid |-> None, email |-> None, used |-> 0] \in Account
  <2>1. id \in Ids
    BY DEF Safe, TypeOK, UsesAreUses, Use
  <2>2. QED
    BY <2>1 DEF StoreBounds, Account
<1>3. QED
  BY <1>1, <1>2, BeginSafe DEF BeginRemove, ghosts, Kinds

LEMMA AnswerSafe ==
    ASSUME Safe, NEW t \in Threads, Answer(t) PROVE Safe'
<1> DEFINE c == [call[t] EXCEPT !.at = "lock", !.account.used = clock]
<1>1. call[t].at = "await" /\ call' = [call EXCEPT ![t] = c]
  BY DEF Answer
<1>2. call[t] \in Call /\ call'[t] = c
  BY <1>1, BegunCall DEF Safe, TypeOK
<1>3. call[t].kind # "list" /\ call[t].account \in Account /\ lock # t /\ Allowed(call[t])
  BY <1>1 DEF Safe, CallsAreSound, Allowed, Locking
<1>4. c \in Call /\ c.at = "lock" /\ c.kind = call[t].kind
      /\ c.account \in Account /\ c.account.id = call[t].account.id
  BY <1>2, <1>3 DEF Call, Account, Safe, TypeOK
<1> HIDE DEF c
<1>5. TypeOK'
  BY <1>1, <1>4 DEF Safe, TypeOK, Answer, files, ghosts
<1>6. Allowed(call[t])' /\ ~Locking(call[t])' /\ Fed(call[t], due[t])'
  BY <1>1, <1>2, <1>3, <1>4 DEF Allowed, Locking, Fed, Answer, files
<1>7. /\ UNCHANGED <<use, index, details, owned, gone, hidden, lock, due>>
      /\ \A u \in Threads \ {t} : call'[u] = call[u]
      /\ \A u \in Threads : due[u] \subseteq owned \ hidden
      /\ Rebuilt' = Rebuilt
  BY <1>1 DEF Answer, files, ghosts, Safe, TypeOK, CallsAreSound, Rebuilt
<1>8. QED
  BY <1>3, <1>5, <1>6, <1>7, StepBeside

LEMMA AcquireSafe ==
    ASSUME Safe, StoreBounds, NEW t \in Threads, Acquire(t) PROVE Safe'
<1> DEFINE c == [call[t] EXCEPT !.at = "index"]
<1>1. call[t].at = "lock" /\ call' = [call EXCEPT ![t] = c] /\ lock = NoThread /\ lock' = t
  BY DEF Acquire
<1>2. call[t] \in Call /\ call'[t] = c
  BY <1>1, BegunCall DEF Safe, TypeOK
<1>3. call[t].kind # "list" /\ Allowed(call[t])
  BY <1>1 DEF Safe, CallsAreSound, Allowed
<1>4. c \in Call /\ c.at = "index" /\ c.kind = call[t].kind /\ c.account = call[t].account
  BY <1>2 DEF Call
<1> HIDE DEF c
<1>5. TypeOK'
  BY <1>1, <1>4 DEF Safe, TypeOK, Acquire, files, ghosts
<1>6. Allowed(call[t])' /\ Locking(call[t])' /\ Fed(call[t], due[t])' /\ Stage(call[t])'
  BY <1>1, <1>2, <1>3, <1>4 DEF Allowed, Locking, Fed, Stage, Acquire, files
<1>7. /\ UNCHANGED <<use, index, details, owned, gone, hidden, due>>
      /\ \A u \in Threads \ {t} : call'[u] = call[u]
      /\ \A u \in Threads : due[u] \subseteq owned \ hidden
      /\ Rebuilt' = Rebuilt
  BY <1>1 DEF Acquire, files, ghosts, Safe, TypeOK, CallsAreSound, Rebuilt
<1>8. \A u \in Threads \ {t} : lock' = u <=> lock = u
  BY <1>1 DEF StoreBounds
<1>9. QED
  BY <1>1, <1>5, <1>6, <1>7, <1>8, StepBeside

----------------------------------------------------------------------------
(* The index is read, or rebuilt                                           *)

LEMMA GoesOn ==
    ASSUME TypeOK, NEW t \in Threads, call[t].at # "idle", NEW list \in Seq(Entry), GoOn(t, list)
    PROVE  /\ call' \in [Threads -> Call \union {Idle}]
           /\ \A u \in Threads \ {t} : call'[u] = call[u]
           /\ call'[t].kind = call[t].kind /\ call'[t].account = call[t].account
           /\ call'[t].plan = call[t].plan
           /\ call[t].kind = "list" =>
                call'[t].at = "details" /\ ToSet(call'[t].todo) = IdsOf(list)
           /\ call[t].kind # "list" => call'[t].at = "decide" /\ call'[t].list = list
<1>1. call \in [Threads -> Call \union {Idle}] /\ call[t] \in Call
  BY BegunCall DEF TypeOK
<1>2. CASE call[t].kind = "list"
  <2> DEFINE todo == [i \in DOMAIN list |-> list[i].id]
             c == [call[t] EXCEPT !.at = "details", !.list = list, !.todo = todo]
  <2>1. call' = [call EXCEPT ![t] = c]
    BY <1>2 DEF GoOn
  <2>2. todo \in Seq(Ids) /\ ToSet(todo) = IdsOf(list)
    <3>1. /\ DOMAIN list = 1 .. Len(list) /\ Len(list) \in Nat
          /\ \A i \in DOMAIN list : list[i].id \in Ids
      <4>1. \A i \in 1 .. Len(list) : list[i] \in Entry
        OBVIOUS
      <4>2. QED
        BY <4>1 DEF Entry
    <3>2. todo \in [1 .. Len(list) -> Ids]
      BY <3>1
    <3>3. QED
      BY <3>1, <3>2, SeqDef DEF ToSet, IdsOf
  <2> HIDE DEF todo
  <2>3. /\ c \in Call /\ c.at = "details" /\ c.todo = todo /\ c.kind = call[t].kind
        /\ c.account = call[t].account /\ c.plan = call[t].plan
    BY <1>1, <2>2 DEF Call
  <2> HIDE DEF c
  <2>4. QED
    BY <1>1, <1>2, <2>1, <2>2, <2>3
<1>3. CASE call[t].kind # "list"
  <2> DEFINE c == [call[t] EXCEPT !.at = "decide", !.list = list]
  <2>1. call' = [call EXCEPT ![t] = c]
    BY <1>3 DEF GoOn
  <2>2. /\ c \in Call /\ c.at = "decide" /\ c.list = list /\ c.kind = call[t].kind
        /\ c.account = call[t].account /\ c.plan = call[t].plan
    BY <1>1 DEF Call
  <2> HIDE DEF c
  <2>3. QED
    BY <1>1, <1>3, <2>1, <2>2
<1>4. QED
  BY <1>2, <1>3

\* The index may be written by who knows of all accounts.
LEMMA IndexWritten ==
    ASSUME MissingIsNoFile, Safe, UNCHANGED <<use, details, owned, gone, hidden>>,
           Rebuilt' = Rebuilt, NEW list \in Seq(Entry), index' = list, Tells(list, {})
    PROVE  FilesAreSound'
<1>1. Listed' = IdsOf(list) /\ Present' = Present
  BY DEF MissingIsNoFile, Listed, Present
<1>2. Rebuilt \/ (owned \ hidden \subseteq IdsOf(list) /\ IdsOf(list) \subseteq Present)
  BY DEF Tells
<1>3. QED
  BY <1>1, <1>2
  DEF Safe, FilesAreSound, DetailsAreTheirs, NoDangling, AddedStayListed, RemovedStayRemoved,
      RefreshesRaceRemovals

\* What holds of a call that reads the index or the detail files.
LEMMA Reader ==
    ASSUME Safe, NEW t \in Threads,
           call[t].at \in {"index", "collect", "backup", "resave", "details"}
    PROVE  /\ call[t] \in Call /\ Allowed(call[t])
           /\ call[t].kind # "list" <=> lock = t
           /\ lock = t => Stage(call[t])
           /\ owned \subseteq Present
           /\ \A u \in Threads : due[u] \subseteq owned \ hidden
BY BegunCall DEF Safe, CallsAreSound, Locking, FilesAreSound, AddedStayListed

LEMMA ReadIndexSafe ==
    ASSUME Safe, Plain(use), NEW t \in Threads, ReadIndex(t) PROVE Safe'
<1>1. /\ call[t].at = "index"
      /\ UNCHANGED <<use, index, details, owned, gone, hidden, lock, due, clock, faults, mishaps>>
      /\ Rebuilt' = Rebuilt
  BY DEF ReadIndex, files, ghosts, Rebuilt
<1>2. /\ call[t] \in Call /\ Allowed(call[t])
      /\ call[t].kind # "list" <=> lock = t
      /\ \A u \in Threads : due[u] \subseteq owned \ hidden
  BY <1>1, Reader
<1>3. CASE index \in {Missing, << >>}
  <2> DEFINE c == [call[t] EXCEPT !.at = "collect"]
  <2>1. call' = [call EXCEPT ![t] = c]
    BY <1>3 DEF ReadIndex
  <2>2. /\ c \in Call /\ c.at = "collect" /\ c.kind = call[t].kind
        /\ c.account = call[t].account /\ c.plan = call[t].plan
    BY <1>2 DEF Call
  <2> HIDE DEF c
  <2>3. TypeOK'
    BY <1>1, <2>1, <2>2 DEF Safe, TypeOK
  <2>4. call'[t] = c /\ \A u \in Threads \ {t} : call'[u] = call[u]
    BY <2>1 DEF Safe, TypeOK
  <2>5. Allowed(call[t])' /\ (Locking(call[t]) <=> lock = t)'
    BY <1>1, <1>2, <2>2, <2>4 DEF Allowed, Locking
  <2>6. Stage(call[t])' /\ Fed(call[t], due[t])'
    BY <1>1, <1>3, <2>2, <2>4 DEF Stage, Fed
  <2>7. QED
    BY <1>1, <1>2, <2>3, <2>4, <2>5, <2>6, StepBeside
<1>4. CASE index \notin {Missing, << >>}
  <2>1. GoOn(t, index) /\ index \in Seq(Entry)
    BY <1>4 DEF ReadIndex, Safe, TypeOK
  <2>2. /\ call' \in [Threads -> Call \union {Idle}]
        /\ \A u \in Threads \ {t} : call'[u] = call[u]
        /\ call'[t].kind = call[t].kind /\ call'[t].account = call[t].account
        /\ call'[t].plan = call[t].plan
        /\ call[t].kind = "list" =>
             call'[t].at = "details" /\ ToSet(call'[t].todo) = IdsOf(index)
        /\ call[t].kind # "list" => call'[t].at = "decide" /\ call'[t].list = index
    BY <1>1, <2>1, GoesOn DEF Safe
  <2>3. TypeOK'
    BY <1>1, <2>2 DEF Safe, TypeOK
  <2>4. Rebuilt \/ (owned \ hidden \subseteq IdsOf(index) /\ IdsOf(index) \subseteq Present)
    BY <1>4 DEF Listed, Safe, FilesAreSound, NoDangling, AddedStayListed, Plain
  <2>5. Tells(index, {})'
    BY <1>1, <2>4 DEF Tells, Present
  <2>6. Allowed(call[t])' /\ (Locking(call[t]) <=> lock = t)'
    BY <1>1, <1>2, <2>2 DEF Allowed, Locking
  <2>7. Fed(call[t], due[t])'
    BY <1>1, <1>2, <2>2, <2>4 DEF Fed
  <2>8. (lock = t => Stage(call[t]))'
    BY <1>1, <1>2, <2>2, <2>5 DEF Stage
  <2>9. QED
    BY <1>1, <1>2, <2>2, <2>3, <2>6, <2>7, <2>8, StepBeside
<1>5. QED
  BY <1>3, <1>4

\* A call that goes on without the accounts found missing has hidden them.
LEMMA GoesOnWithNone ==
    ASSUME Safe, StoreBounds, NEW t \in Threads, call[t].at \in {"index", "collect"},
           GoOn(t, << >>), UNCHANGED <<use, index, details, owned, gone, lock, clock>>,
           Rebuilt' = Rebuilt, mishaps' \subseteq Mishaps, faults' \in 0 .. MaxFaults,
           call[t].kind = "list" => \E ids : Present \subseteq ids /\ Overlook(t, ids),
           call[t].kind # "list" => Hide(Present)
    PROVE  Safe'
<1>1. /\ call[t] \in Call /\ Allowed(call[t])
      /\ call[t].kind # "list" <=> lock = t
      /\ owned \subseteq Present
      /\ \A u \in Threads : due[u] \subseteq owned \ hidden
  BY Reader
<1>2. << >> \in Seq(Entry)
  BY EmptySeq
<1>3. /\ call' \in [Threads -> Call \union {Idle}]
      /\ \A u \in Threads \ {t} : call'[u] = call[u]
      /\ call'[t].kind = call[t].kind /\ call'[t].account = call[t].account
      /\ call'[t].plan = call[t].plan
      /\ call[t].kind = "list" => call'[t].at = "details"
      /\ call[t].kind # "list" => call'[t].at = "decide" /\ call'[t].list = << >>
  BY <1>2, GoesOn DEF Safe
<1>4. /\ hidden' \subseteq Ids /\ hidden \subseteq hidden'
      /\ due' \in [Threads -> SUBSET Ids]
      /\ \A u \in Threads : due'[u] \subseteq due[u] /\ due'[u] \subseteq owned \ hidden'
      /\ due'[t] = {}
      /\ call[t].kind # "list" => owned \ hidden' = {}
  <2>1. CASE call[t].kind = "list"
    <3>1. PICK ids : Present \subseteq ids /\ Overlook(t, ids)
      BY <2>1
    <3>2. hidden' = hidden /\ due' = [due EXCEPT ![t] = @ \ ids]
      BY <3>1 DEF Overlook
    <3>3. QED
      BY <1>1, <2>1, <3>1, <3>2 DEF Safe, TypeOK
  <2>2. CASE call[t].kind # "list"
    <3>1. hidden' = hidden \union Present /\ due' = [u \in Threads |-> due[u] \ Present]
      BY <2>2 DEF Hide
    <3>2. Present \subseteq Ids
      BY DEF Present
    <3>3. QED
      BY <1>1, <3>1, <3>2 DEF Safe, TypeOK
  <2>3. QED
    BY <2>1, <2>2
<1>5. TypeOK'
  BY <1>3, <1>4 DEF Safe, TypeOK
<1>6. Allowed(call[t])' /\ (Locking(call[t]) <=> lock = t)'
  BY <1>1, <1>3 DEF Allowed, Locking
<1>7. Fed(call[t], due[t])'
  BY <1>4 DEF Fed
<1>8. (lock = t => Stage(call[t]))'
  <2>1. call[t].kind # "list" => Tells(call[t].list, {})'
    BY <1>3, <1>4 DEF Tells, IdsOf
  <2>2. QED
    BY <1>1, <1>3, <2>1 DEF Stage
<1>9. QED
  BY <1>3, <1>4, <1>5, <1>6, <1>7, <1>8, StepBeside

LEMMA ReadIndexFailsSafe ==
    ASSUME Safe, StoreBounds, NEW t \in Threads, ReadIndexFails(t) PROVE Safe'
<1>1. /\ call[t].at = "index"
      /\ UNCHANGED <<use, index, details, owned, gone, lock, clock, mishaps>>
      /\ Rebuilt' = Rebuilt /\ mishaps' \subseteq Mishaps /\ faults' \in 0 .. MaxFaults
  BY DEF ReadIndexFails, Fault, files, Rebuilt, Safe, TypeOK, StoreBounds
<1>2. CASE /\ call[t].kind = "list"
           /\ call' = [call EXCEPT ![t].at = "collect"]
           /\ UNCHANGED <<due, hidden>>
  <2>1. /\ call[t] \in Call /\ Allowed(call[t]) /\ lock # t
        /\ \A u \in Threads : due[u] \subseteq owned \ hidden
    BY <1>1, <1>2, Reader
  <2> DEFINE c == [call[t] EXCEPT !.at = "collect"]
  <2>2. /\ c \in Call /\ c.at = "collect" /\ c.kind = "list" /\ c.plan = call[t].plan
    BY <1>2, <2>1 DEF Call
  <2>3. call' = [call EXCEPT ![t] = c]
    BY <1>2
  <2> HIDE DEF c
  <2>4. call'[t] = c /\ \A u \in Threads \ {t} : call'[u] = call[u]
    BY <2>3 DEF Safe, TypeOK
  <2>5. TypeOK'
    BY <1>1, <1>2, <2>2, <2>3 DEF Safe, TypeOK
  <2>6. Allowed(call[t])' /\ ~Locking(call[t])' /\ Fed(call[t], due[t])'
    BY <1>1, <1>2, <2>1, <2>2, <2>4 DEF Allowed, Locking, Fed
  <2>7. QED
    BY <1>1, <1>2, <2>1, <2>4, <2>5, <2>6, StepBeside
<1>3. CASE /\ GoOn(t, << >>)
           /\ IF call[t].kind = "list" THEN Overlook(t, Ids) ELSE Hide(Present)
  <2>1. Present \subseteq Ids
    BY DEF Present
  <2>2. QED
    BY <1>1, <1>3, <2>1, GoesOnWithNone
<1>4. QED
  BY <1>2, <1>3 DEF ReadIndexFails

\* The index is to be rebuilt from what was found; the rest is hidden.
LEMMA CollectSafe ==
    ASSUME Safe, StoreBounds, NEW t \in Threads, Collect(t) PROVE Safe'
<1>1. PICK found \in SUBSET Present :
        /\ IF found = Present THEN UNCHANGED faults ELSE Fault
        /\ IF found = {}
           THEN GoOn(t, << >>)
           ELSE \E list \in ByRecency({Summary(details[id]) : id \in found}) :
                  call' = [call EXCEPT ![t].at = "backup", ![t].list = list]
        /\ IF found = {} /\ call[t].kind = "list"
           THEN Overlook(t, Present)
           ELSE Hide(Present \ found)
        /\ mishaps' = IF found # {} /\ call[t].kind = "list"
                      THEN mishaps \union {"rebuilt"} ELSE mishaps
  BY DEF Collect
<1>2. /\ call[t].at = "collect"
      /\ UNCHANGED <<use, index, details, owned, gone, lock, clock>>
  BY DEF Collect, files
<1>3. /\ faults' \in 0 .. MaxFaults /\ mishaps' \subseteq Mishaps
      /\ Rebuilt => Rebuilt'
      /\ ~(found # {} /\ call[t].kind = "list") => Rebuilt' = Rebuilt
      /\ found # {} /\ call[t].kind = "list" => Rebuilt'
  BY <1>1 DEF Fault, Mishaps, Rebuilt, Safe, TypeOK, StoreBounds
<1>4. /\ call[t] \in Call /\ Allowed(call[t])
      /\ call[t].kind # "list" <=> lock = t
      /\ lock = t => Stage(call[t])
      /\ owned \subseteq Present
      /\ \A u \in Threads : due[u] \subseteq owned \ hidden
  BY <1>2, Reader
<1>5. CASE found = {}
  <2>1. Present \ found = Present
    BY <1>5
  <2>2. QED
    BY <1>1, <1>2, <1>3, <1>5, <2>1, GoesOnWithNone
<1>6. CASE found # {}
  <2>1. PICK list \in ByRecency({Summary(details[id]) : id \in found}) :
          call' = [call EXCEPT ![t].at = "backup", ![t].list = list]
    BY <1>1, <1>6
  <2>2. list \in Seq(Entry) /\ IdsOf(list) = found
    BY RebuiltIndex DEF Safe, FilesAreSound
  <2> DEFINE c == [call[t] EXCEPT !.at = "backup", !.list = list]
  <2>3. call' = [call EXCEPT ![t] = c]
    BY <2>1
  <2>4. /\ c \in Call /\ c.at = "backup" /\ c.list = list
        /\ c.kind = call[t].kind /\ c.account = call[t].account /\ c.plan = call[t].plan
    BY <1>4, <2>2 DEF Call
  <2> HIDE DEF c
  <2>5. call'[t] = c /\ \A u \in Threads \ {t} : call'[u] = call[u]
    BY <2>3 DEF Safe, TypeOK
  <2>6. /\ hidden' = hidden \union (Present \ found)
        /\ due' = [u \in Threads |-> due[u] \ (Present \ found)]
    BY <1>1, <1>6 DEF Hide
  <2>7. /\ hidden' \subseteq Ids /\ due' \in [Threads -> SUBSET Ids]
        /\ \A u \in Threads : due'[u] \subseteq due[u] /\ due'[u] \subseteq owned \ hidden'
        /\ owned \ hidden' \subseteq found
    BY <1>4, <2>6 DEF Safe, TypeOK, Present
  <2>8. TypeOK'
    BY <1>2, <1>3, <2>3, <2>4, <2>7 DEF Safe, TypeOK
  <2>9. Tells(call[t].list, {})'
    BY <1>2, <2>2, <2>4, <2>5, <2>7 DEF Tells, Present
  <2>10. Allowed(call[t])' /\ (Locking(call[t]) <=> lock = t)' /\ Fed(call[t], due[t])'
    BY <1>2, <1>3, <1>4, <1>6, <2>4, <2>5 DEF Allowed, Locking, Fed
  <2>11. (lock = t => Stage(call[t]))'
    BY <1>2, <1>3, <1>4, <2>4, <2>5, <2>9 DEF Stage
  <2>12. QED
    BY <1>2, <1>3, <2>5, <2>6, <2>7, <2>8, <2>10, <2>11, StepBeside
<1>7. QED
  BY <1>5, <1>6

LEMMA BackupSafe ==
    ASSUME Safe, StoreBounds, MissingIsNoFile, NEW t \in Threads, Backup(t) PROVE Safe'
<1>1. /\ call[t].at = "backup"
      /\ UNCHANGED <<use, details, owned, gone, hidden, lock, due, clock, mishaps>>
      /\ faults' \in 0 .. MaxFaults /\ index' \in {index, Missing} /\ Rebuilt' = Rebuilt
  BY DEF Safe, TypeOK, Backup, ghosts, StoreBounds, Rebuilt
<1>2. /\ call[t] \in Call /\ Allowed(call[t])
      /\ call[t].kind # "list" <=> lock = t
      /\ lock = t => Stage(call[t])
      /\ \A u \in Threads : due[u] \subseteq owned \ hidden
  BY <1>1, Reader
<1> DEFINE c == [call[t] EXCEPT !.at = "resave"]
<1>3. call' = [call EXCEPT ![t] = c]
  BY DEF Backup
<1>4. /\ c \in Call /\ c.at = "resave" /\ c.list = call[t].list
      /\ c.kind = call[t].kind /\ c.account = call[t].account /\ c.plan = call[t].plan
  BY <1>2 DEF Call
<1> HIDE DEF c
<1>5. call'[t] = c /\ \A u \in Threads \ {t} : call'[u] = call[u]
  BY <1>3 DEF Safe, TypeOK
<1>6. TypeOK'
  BY <1>1, <1>3, <1>4 DEF Safe, TypeOK
<1>7. Allowed(call[t])' /\ (Locking(call[t]) <=> lock = t)' /\ Fed(call[t], due[t])'
  BY <1>1, <1>2, <1>4, <1>5 DEF Allowed, Locking, Fed
<1>8. CASE call[t].kind = "list"
  <2>1. Rebuilt /\ lock # t
    BY <1>1, <1>2, <1>8 DEF Allowed
  <2>2. QED
    BY <1>1, <1>2, <1>5, <1>6, <1>7, <2>1, StepBeside
<1>9. CASE call[t].kind # "list"
  <2>1. lock = t /\ (Rebuilt \/ index' \in {Missing, << >>}) /\ Tells(call[t].list, {})
    BY <1>1, <1>2, <1>9 DEF Stage
  <2>2. Tells(call[t].list, {})'
    BY <1>1, <1>4, <1>5, <2>1 DEF Tells, Present
  <2>3. Stage(call[t])'
    BY <1>1, <1>4, <1>5, <2>1, <2>2 DEF Stage
  <2>4. FilesAreSound'
    <3>1. Present' = Present /\ (Rebuilt' \/ Listed' = {})
      BY <1>1, <2>1 DEF Listed, Present, IdsOf
    <3>2. QED
      BY <1>1, <2>1, <3>1
      DEF Safe, FilesAreSound, DetailsAreTheirs, NoDangling, AddedStayListed,
          RemovedStayRemoved, RefreshesRaceRemovals
  <2>5. QED
    BY <1>1, <1>2, <1>4, <1>5, <1>6, <1>7, <1>9, <2>1, <2>3, <2>4, StepOfHolder
<1>10. QED
  BY <1>8, <1>9

LEMMA ResaveSafe ==
    ASSUME Safe, StoreBounds, MissingIsNoFile, NEW t \in Threads, Resave(t) PROVE Safe'
<1>1. /\ call[t].at = "resave" /\ call[t].list \in Seq(Entry)
      /\ UNCHANGED <<use, details, owned, gone, hidden, lock, due, clock, mishaps>>
      /\ faults' \in 0 .. MaxFaults /\ index' \in {index, call[t].list} /\ Rebuilt' = Rebuilt
  BY BegunCall DEF Safe, TypeOK, Resave, ghosts, StoreBounds, Rebuilt
<1>2. /\ call[t] \in Call /\ Allowed(call[t])
      /\ call[t].kind # "list" <=> lock = t
      /\ lock = t => Stage(call[t])
      /\ \A u \in Threads : due[u] \subseteq owned \ hidden
  BY <1>1, Reader
<1>3. /\ call' \in [Threads -> Call \union {Idle}]
      /\ \A u \in Threads \ {t} : call'[u] = call[u]
      /\ call'[t].kind = call[t].kind /\ call'[t].account = call[t].account
      /\ call'[t].plan = call[t].plan
      /\ call[t].kind = "list" => call'[t].at = "details"
      /\ call[t].kind # "list" => call'[t].at = "decide" /\ call'[t].list = call[t].list
  BY <1>1, GoesOn DEF Safe, Resave
<1>4. TypeOK'
  BY <1>1, <1>3 DEF Safe, TypeOK
<1>5. Allowed(call[t])' /\ (Locking(call[t]) <=> lock = t)'
  BY <1>1, <1>2, <1>3 DEF Allowed, Locking
<1>6. CASE call[t].kind = "list"
  <2>1. Rebuilt /\ lock # t
    BY <1>1, <1>2, <1>6 DEF Allowed
  <2>2. Fed(call[t], due[t])'
    BY <1>1, <2>1 DEF Fed
  <2>3. QED
    BY <1>1, <1>2, <1>3, <1>4, <1>5, <2>1, <2>2, StepBeside
<1>7. CASE call[t].kind # "list"
  <2>1. lock = t /\ Tells(call[t].list, {})
    BY <1>1, <1>2, <1>7 DEF Stage
  <2>2. Tells(call[t].list, {})'
    BY <1>1, <1>3, <1>7, <2>1 DEF Tells, Present
  <2>3. Stage(call[t])'
    BY <1>3, <1>7, <2>2 DEF Stage
  <2>4. FilesAreSound'
    <3>1. CASE index' = call[t].list
      BY <1>1, <2>1, <3>1, IndexWritten
    <3>2. CASE index' = index
      BY <1>1, <3>2
      DEF Safe, FilesAreSound, DetailsAreTheirs, NoDangling, AddedStayListed,
          RemovedStayRemoved, RefreshesRaceRemovals, Present, Listed
    <3>3. QED
      BY <1>1, <3>1, <3>2
  <2>5. QED
    BY <1>1, <1>2, <1>3, <1>4, <1>5, <1>7, <2>1, <2>3, <2>4, StepOfHolder
<1>8. QED
  BY <1>6, <1>7

----------------------------------------------------------------------------
(* A listing reads                                                         *)

\* The ids to read are the first one and the rest.
LEMMA HeadAndTail ==
    ASSUME NEW todo \in Seq(Ids), todo # << >>
    PROVE  /\ Head(todo) \in Ids /\ Tail(todo) \in Seq(Ids)
           /\ ToSet(todo) = {Head(todo)} \union ToSet(Tail(todo))
<1> DEFINE id == Head(todo)
           rest == Tail(todo)
<1>1. id \in Ids /\ rest \in Seq(Ids)
  BY HeadTailProperties
<1>2. /\ Len(rest) = Len(todo) - 1 /\ \A i \in 1 .. Len(rest) : rest[i] = todo[i + 1]
      /\ todo[1] = id /\ Len(todo) \in Nat /\ Len(todo) >= 1
      /\ DOMAIN todo = 1 .. Len(todo) /\ DOMAIN rest = 1 .. Len(rest)
  BY <1>1, HeadTailProperties, EmptySeq
<1> HIDE DEF rest, id
<1>3. \A i \in 1 .. Len(todo) : i = 1 \/ (i - 1 \in 1 .. Len(rest) /\ rest[i - 1] = todo[i])
  BY <1>2
<1>4. \A i \in 1 .. Len(rest) : i + 1 \in 1 .. Len(todo)
  BY <1>2
<1>5. ToSet(todo) \subseteq {id} \union ToSet(rest)
  BY <1>2, <1>3 DEF ToSet
<1>6. {id} \union ToSet(rest) \subseteq ToSet(todo)
  <2>1. id \in ToSet(todo)
    BY <1>2 DEF ToSet
  <2>2. ASSUME NEW i \in DOMAIN rest PROVE rest[i] \in ToSet(todo)
    BY <1>2, <1>4, <2>2 DEF ToSet
  <2>3. QED
    BY <2>1, <2>2 DEF ToSet
<1>7. ToSet(todo) = {id} \union ToSet(rest)
  BY <1>5, <1>6
<1>8. QED
  BY <1>1, <1>7 DEF id, rest

\* A listing goes on to the next file, having read this one or overlooked it.
LEMMA NextDetail ==
    ASSUME Safe, NEW t \in Threads, call[t].at = "details", call[t].todo # << >>,
           UNCHANGED <<use, index, details, owned, gone, hidden, lock, clock, mishaps>>,
           faults' \in 0 .. MaxFaults,
           NEW seen \in Seq(Account), IdsOf(call[t].seen) \subseteq IdsOf(seen),
           call' = [call EXCEPT ![t] = [call[t] EXCEPT !.todo = Tail(call[t].todo),
                                                       !.seen = seen]],
           due' \in [Threads -> SUBSET Ids], \A u \in Threads : due'[u] \subseteq due[u],
           Head(call[t].todo) \in due'[t] => Head(call[t].todo) \in IdsOf(seen)
    PROVE  Safe'
<1> DEFINE id == Head(call[t].todo)
           rest == Tail(call[t].todo)
           c == [call[t] EXCEPT !.todo = rest, !.seen = seen]
<1>1. /\ call[t] \in Call /\ Allowed(call[t]) /\ call[t].kind = "list" /\ lock # t
      /\ \A u \in Threads : due[u] \subseteq owned \ hidden
  BY Reader DEF Allowed
<1>2. Rebuilt \/ due[t] \subseteq ToSet(call[t].todo) \union IdsOf(call[t].seen)
  BY DEF Safe, CallsAreSound, Fed
<1>3. rest \in Seq(Ids) /\ ToSet(call[t].todo) = {id} \union ToSet(rest)
  <2>1. call[t].todo \in Seq(Ids)
    BY <1>1 DEF Call
  <2>2. QED
    BY <2>1, HeadAndTail
<1> HIDE DEF id, rest
<1>4. /\ c \in Call /\ c.at = "details" /\ c.kind = "list" /\ c.plan = call[t].plan
      /\ c.todo = rest /\ c.seen = seen
  BY <1>1, <1>3 DEF Call
<1>5. call' = [call EXCEPT ![t] = c]
  BY DEF rest
<1> HIDE DEF c
<1>6. call'[t] = c /\ \A u \in Threads \ {t} : call'[u] = call[u]
  BY <1>5 DEF Safe, TypeOK
<1>7. TypeOK'
  BY <1>4, <1>5 DEF Safe, TypeOK
<1>8. Rebuilt' = Rebuilt
  BY DEF Rebuilt
<1>9. Fed(call[t], due[t])'
  <2>1. due'[t] \subseteq due[t] /\ (id \in due'[t] => id \in IdsOf(seen))
    BY DEF id
  <2>2. Rebuilt \/ due'[t] \subseteq ToSet(rest) \union IdsOf(seen)
    BY <1>2, <1>3, <2>1
  <2>3. QED
    BY <1>4, <1>6, <1>8, <2>2 DEF Fed
<1>10. Allowed(call[t])' /\ ~Locking(call[t])'
  BY <1>1, <1>4, <1>6 DEF Allowed, Locking
<1>11. QED
  BY <1>1, <1>6, <1>7, <1>8, <1>9, <1>10, StepBeside

\* What is to be read is read, or it is not there; what is owned is.
LEMMA ReadDetailSafe ==
    ASSUME Safe, NEW t \in Threads, ReadDetail(t) PROVE Safe'
<1> DEFINE id == Head(call[t].todo)
           seen == IF details[id] = Missing THEN call[t].seen
                   ELSE Append(call[t].seen, details[id])
<1>1. /\ call[t].at = "details" /\ call[t].todo # << >>
      /\ call[t].todo \in Seq(Ids) /\ call[t].seen \in Seq(Account)
      /\ UNCHANGED <<use, index, details, owned, gone, hidden, lock, due, clock, faults, mishaps>>
      /\ call' = [call EXCEPT ![t] = [call[t] EXCEPT !.todo = Tail(call[t].todo),
                                                     !.seen = seen]]
  BY BegunCall DEF Safe, TypeOK, ReadDetail, files, ghosts
<1>2. id \in Ids /\ due[t] \subseteq Present
  BY <1>1, HeadAndTail, Reader
<1>3. /\ seen \in Seq(Account) /\ IdsOf(call[t].seen) \subseteq IdsOf(seen)
      /\ id \in Present => id \in IdsOf(seen)
  <2>1. CASE details[id] = Missing
    BY <1>1, <2>1 DEF Present
  <2>2. CASE details[id] # Missing
    <3>1. details[id] \in Account /\ details[id].id = id
      BY <1>2, <2>2 DEF Safe, TypeOK, FilesAreSound, DetailsAreTheirs, Present
    <3>2. /\ seen \in Seq(Account) /\ Len(seen) = Len(call[t].seen) + 1
          /\ \A i \in 1 .. Len(call[t].seen) : seen[i] = call[t].seen[i]
          /\ seen[Len(call[t].seen) + 1] = details[id]
      BY <1>1, <2>2, <3>1, AppendProperties
    <3> HIDE DEF seen, id
    <3>3. /\ DOMAIN seen = 1 .. Len(seen) /\ DOMAIN call[t].seen = 1 .. Len(call[t].seen)
          /\ Len(call[t].seen) \in Nat
      BY <1>1, <3>2
    <3>4. QED
      BY <3>1, <3>2, <3>3 DEF IdsOf
  <2>3. QED
    BY <2>1, <2>2
<1>4. /\ faults' \in 0 .. MaxFaults /\ due' \in [Threads -> SUBSET Ids]
      /\ \A u \in Threads : due'[u] \subseteq due[u]
      /\ id \in due'[t] => id \in IdsOf(seen)
  BY <1>1, <1>2, <1>3 DEF Safe, TypeOK
<1> HIDE DEF seen
<1>5. QED
  BY <1>1, <1>3, <1>4, NextDetail

\* A file that cannot be read is no longer owed.
LEMMA ReadDetailFailsSafe ==
    ASSUME Safe, StoreBounds, Plain(use), NEW t \in Threads, ReadDetailFails(t)
    PROVE  Safe'
<1> DEFINE id == Head(call[t].todo)
           seen == call[t].seen
<1>1. /\ call[t].at = "details" /\ call[t] \in Call /\ call[t].todo # << >>
      /\ seen \in Seq(Account)
      /\ UNCHANGED <<use, index, details, owned, gone, lock, clock, mishaps>>
      /\ faults' \in 0 .. MaxFaults
  BY BegunCall DEF Safe, TypeOK, ReadDetailFails, Fault, files, StoreBounds
<1>2. ~use.merges /\ \A u \in Threads : due[u] \subseteq Present
  BY <1>1, Reader DEF Plain, Allowed
<1>3. call' = [call EXCEPT ![t] = [call[t] EXCEPT !.todo = Tail(call[t].todo),
                                                  !.seen = seen]]
  <2>1. [call[t] EXCEPT !.todo = Tail(call[t].todo), !.seen = seen]
          = [call[t] EXCEPT !.todo = Tail(call[t].todo)]
    BY <1>1 DEF Call
  <2>2. QED
    BY <2>1 DEF ReadDetailFails
<1>4. hidden' = hidden /\ due' = [due EXCEPT ![t] = @ \ ({id} \intersect Present)]
  BY <1>2 DEF ReadDetailFails, Overlook
<1>5. /\ due' \in [Threads -> SUBSET Ids] /\ \A u \in Threads : due'[u] \subseteq due[u]
      /\ id \notin due'[t]
  BY <1>2, <1>4 DEF Safe, TypeOK
<1>6. IdsOf(call[t].seen) \subseteq IdsOf(seen)
  OBVIOUS
<1> HIDE DEF seen
<1>7. QED
  BY <1>1, <1>3, <1>4, <1>5, <1>6, NextDetail

\* A listing that does not merge has nothing to write.
LEMMA NormalizeSafe ==
    ASSUME Safe, Plain(use), NEW t \in Threads, Normalize(t) PROVE Safe'
<1>1. /\ call[t].at = "details" /\ call[t].todo = << >>
      /\ UNCHANGED <<use, index, details, gone, hidden, lock, clock, faults>>
  BY DEF Normalize, files
<1>2. /\ call[t] \in Call /\ Allowed(call[t]) /\ lock # t /\ call[t].kind = "list"
      /\ \A u \in Threads : due[u] \subseteq owned \ hidden
      /\ Rebuilt \/ due[t] \subseteq ToSet(call[t].todo) \union IdsOf(call[t].seen)
  BY <1>1, Reader DEF Safe, CallsAreSound, Allowed, Fed
<1>3. ~use.merges
  BY <1>1, <1>2 DEF Plain, Allowed
<1> DEFINE c == [call[t] EXCEPT !.at = "plan", !.plan = << >>]
<1>4. call' = [call EXCEPT ![t] = c] /\ owned' = owned /\ mishaps' = mishaps
      /\ due' = [u \in Threads |-> due[u] \ {}]
  BY <1>3 DEF Normalize
<1>5. due' = due /\ Rebuilt' = Rebuilt
  BY <1>4 DEF Safe, TypeOK, Rebuilt
<1>6. c \in Call /\ c.at = "plan" /\ c.plan = << >> /\ c.kind = "list" /\ c.seen = call[t].seen
  BY <1>1, <1>2, EmptySeq DEF Call
<1> HIDE DEF c
<1>7. call'[t] = c /\ \A u \in Threads \ {t} : call'[u] = call[u]
  BY <1>4 DEF Safe, TypeOK
<1>8. TypeOK'
  BY <1>1, <1>4, <1>5, <1>6 DEF Safe, TypeOK
<1>9. Fed(call[t], due[t])'
  BY <1>1, <1>2, <1>5, <1>6, <1>7 DEF Fed, ToSet
<1>10. Allowed(call[t])' /\ ~Locking(call[t])'
  BY <1>1, <1>2, <1>6, <1>7 DEF Allowed, Locking
<1>11. QED
  BY <1>1, <1>2, <1>4, <1>5, <1>7, <1>8, <1>9, <1>10, StepBeside

----------------------------------------------------------------------------
(* The calls that hold the lock                                            *)

\* What a removal is going to write.
LEMMA RemovingWrites ==
    ASSUME NEW list \in Seq(Entry), NEW id \in Ids
    PROVE  /\ Removing(list, id) \in Seq(FileOp) /\ Len(Removing(list, id)) = 2
           /\ Removing(list, id)[1].do = "index" /\ Removing(list, id)[2] = DeleteOf(id)
           /\ IdsOf(Removing(list, id)[1].list) = IdsOf(list) \ {id}
<1>1. Without(list, id) \in Seq(Entry) /\ IdsOf(Without(list, id)) = IdsOf(list) \ {id}
  BY WithoutTakes
<1>2. IndexOf(Without(list, id)) \in FileOp /\ DeleteOf(id) \in FileOp
  BY <1>1 DEF FileOp, IndexOf, DeleteOf
<1>3. Removing(list, id) = <<IndexOf(Without(list, id)), DeleteOf(id)>>
  BY DEF Removing
<1>4. /\ IndexOf(Without(list, id)).do = "index"
      /\ IndexOf(Without(list, id)).list = Without(list, id)
  BY DEF IndexOf
<1>5. QED
  BY <1>1, <1>2, <1>3, <1>4

\* What a call that saves an account is going to write.
LEMMA SavingWrites ==
    ASSUME NEW list \in Seq(Entry), NEW a \in Account
    PROVE  /\ Saving(list, a) \in Seq(FileOp) /\ Len(Saving(list, a)) = 2
           /\ Saving(list, a)[1] = SaveOf(a) /\ Saving(list, a)[2].do = "index"
           /\ IdsOf(Saving(list, a)[2].list) = IdsOf(list) \union {a.id}
<1> DEFINE L == RefreshSummary(list, a)
<1>1. L \in Seq(Entry) /\ IdsOf(L) = IdsOf(list) \union {a.id}
  BY SummaryRefreshed
<1>2. Saving(list, a) = <<SaveOf(a), IndexOf(L)>>
  BY DEF Saving
<1> HIDE DEF L
<1>3. IndexOf(L) \in FileOp /\ SaveOf(a) \in FileOp
  BY <1>1 DEF FileOp, IndexOf, SaveOf
<1>4. IndexOf(L).do = "index" /\ IndexOf(L).list = L
  BY DEF IndexOf
<1>5. QED
  BY <1>1, <1>2, <1>3, <1>4

\* From then on the account counts as removed, or no longer does.
LEMMA DecideSafe ==
    ASSUME Safe, StoreBounds, NEW t \in Threads, Decide(t) PROVE Safe'
<1>1. /\ call[t].at = "decide" /\ call[t] \in Call /\ call[t].list \in Seq(Entry)
      /\ UNCHANGED <<use, index, details, lock, clock, hidden, mishaps>> /\ Rebuilt' = Rebuilt
  BY BegunCall DEF Safe, TypeOK, Decide, files, Rebuilt
<1>2. /\ Allowed(call[t]) /\ call[t].kind # "list" /\ lock = t /\ Tells(call[t].list, {})
      /\ \A u \in Threads : due[u] \subseteq owned \ hidden
      /\ call[t].account \in Account
  BY <1>1 DEF Safe, CallsAreSound, Locking, Allowed, Stage
<1>3. PICK account :
        /\ account \in Account /\ faults' \in 0 .. MaxFaults
        /\ call[t].kind = "remove" => account = call[t].account
        /\ call' = [call EXCEPT ![t].at = "plan", ![t].account = account,
                      ![t].plan = IF call[t].kind = "remove"
                                  THEN Removing(call[t].list, account.id)
                                  ELSE Saving(call[t].list, account)]
        /\ IF call[t].kind = "remove"
           THEN /\ owned' = owned \ {account.id}
                /\ due' = [u \in Threads |-> due[u] \ {account.id}]
                /\ UNCHANGED gone
           ELSE /\ gone' = IF call[t].kind \in {"add", "import"}
                           THEN gone \ {account.id} ELSE gone
                /\ UNCHANGED <<owned, due>>
  <2> DEFINE A(searched, reread) ==
               IF call[t].kind = "add"
               THEN Upserted(call[t].list, call[t].account, searched, reread)
               ELSE call[t].account
  <2>1. ASSUME NEW searched, NEW reread PROVE A(searched, reread) \in Account
    BY <1>1, <1>2, UpsertedIsAnAccount DEF Safe
  <2>2. PICK searched \in SUBSET Present, reread \in BOOLEAN :
          /\ \/ searched = Present /\ reread /\ UNCHANGED faults
             \/ call[t].kind = "add" /\ ~(searched = Present /\ reread) /\ Fault
          /\ call' = [call EXCEPT ![t].at = "plan", ![t].account = A(searched, reread),
                        ![t].plan = IF call[t].kind = "remove"
                                    THEN Removing(call[t].list, A(searched, reread).id)
                                    ELSE Saving(call[t].list, A(searched, reread))]
          /\ IF call[t].kind = "remove"
             THEN /\ owned' = owned \ {A(searched, reread).id}
                  /\ due' = [u \in Threads |-> due[u] \ {A(searched, reread).id}]
                  /\ UNCHANGED gone
             ELSE /\ gone' = IF call[t].kind \in {"add", "import"}
                             THEN gone \ {A(searched, reread).id} ELSE gone
                  /\ UNCHANGED <<owned, due>>
    BY Zenon DEF Decide
  <2>3. faults' \in 0 .. MaxFaults
    BY <2>2 DEF Fault, Safe, TypeOK, StoreBounds
  <2>4. call[t].kind = "remove" => A(searched, reread) = call[t].account
    OBVIOUS
  <2> HIDE DEF A
  <2>5. QED
    BY <2>1, <2>2, <2>3, <2>4
<1> DEFINE plan == IF call[t].kind = "remove" THEN Removing(call[t].list, account.id)
                   ELSE Saving(call[t].list, account)
           c == [call[t] EXCEPT !.at = "plan", !.account = account, !.plan = plan]
<1>4. account.id \in Ids
  BY <1>3 DEF Account
<1>5. call' = [call EXCEPT ![t] = c]
  BY <1>3
<1>6. plan \in Seq(FileOp)
  BY <1>1, <1>3, <1>4, RemovingWrites, SavingWrites
<1>7. c \in Call /\ c.at = "plan" /\ c.account = account /\ c.plan = plan /\ c.kind = call[t].kind
  <2> HIDE DEF plan
  <2>1. QED
    BY <1>1, <1>3, <1>6 DEF Call
<1> HIDE DEF c
<1>8. call'[t] = c /\ \A u \in Threads \ {t} : call'[u] = call[u]
  BY <1>5 DEF Safe, TypeOK
<1>9. TypeOK'
  <2>1. call' \in [Threads -> Call \union {Idle}]
    BY <1>5, <1>7 DEF Safe, TypeOK
  <2>2. owned' \subseteq Ids /\ gone' \subseteq Ids /\ due' \in [Threads -> SUBSET Ids]
    BY <1>3 DEF Safe, TypeOK
  <2>3. QED
    BY <1>1, <1>3, <2>1, <2>2 DEF Safe, TypeOK
<1>10. \A u \in Threads : due'[u] \subseteq due[u] /\ due'[u] \subseteq owned' \ hidden'
  BY <1>1, <1>2, <1>3
<1>11. Allowed(call[t])' /\ Locking(call[t])'
  BY <1>1, <1>2, <1>3, <1>7, <1>8 DEF Allowed, Locking
<1>12. Present' = Present /\ Listed' = Listed
  BY <1>1 DEF Present, Listed
<1>13. FilesAreSound'
  <2>1. owned' \subseteq owned /\ gone' \subseteq gone
    BY <1>3
  <2>2. QED
    BY <1>1, <1>12, <2>1
    DEF Safe, FilesAreSound, DetailsAreTheirs, NoDangling, AddedStayListed, RemovedStayRemoved,
        RefreshesRaceRemovals
<1>14. Stage(call[t])'
  <2>1. CASE call[t].kind = "remove"
    <3>1. /\ Len(plan) = 2 /\ plan[1].do = "index" /\ plan[2] = DeleteOf(account.id)
          /\ IdsOf(plan[1].list) = IdsOf(call[t].list) \ {account.id}
      BY <1>1, <1>4, <2>1, RemovingWrites
    <3> HIDE DEF plan
    <3>2. owned' = owned \ {account.id}
      BY <1>3, <2>1
    <3>3. Rebuilt \/ (/\ owned' \ hidden \subseteq IdsOf(plan[1].list)
                     /\ IdsOf(plan[1].list) \subseteq Present)
      BY <1>2, <3>1, <3>2 DEF Tells
    <3>4. Tells(call[t].plan[1].list, {})'
      BY <1>1, <1>7, <1>8, <1>12, <3>3 DEF Tells
    <3>5. RemovesInOrder(call[t])'
      BY <1>7, <1>8, <2>1, <3>1, <3>2, <3>4 DEF RemovesInOrder, DeleteOf
    <3>6. QED
      BY <1>7, <1>8, <2>1, <3>5 DEF Stage
  <2>2. CASE call[t].kind # "remove"
    <3>1. /\ Len(plan) = 2 /\ plan[1] = SaveOf(account) /\ plan[2].do = "index"
          /\ IdsOf(plan[2].list) = IdsOf(call[t].list) \union {account.id}
      BY <1>1, <1>3, <2>2, SavingWrites
    <3> HIDE DEF plan
    <3>2. owned' = owned /\ (call[t].kind \in {"add", "import"} => account.id \notin gone')
      BY <1>3, <2>2
    <3>3. Rebuilt \/ (/\ owned' \ hidden \subseteq IdsOf(plan[2].list)
                     /\ IdsOf(plan[2].list) \subseteq Present \union {account.id})
      BY <1>2, <3>1, <3>2 DEF Tells
    <3>4. Tells(call[t].plan[2].list, {call[t].account.id})'
      BY <1>1, <1>7, <1>8, <1>12, <3>3 DEF Tells
    <3>5. SavesInOrder(call[t])'
      BY <1>7, <1>8, <2>2, <3>1, <3>2, <3>4 DEF SavesInOrder, SaveOf
    <3>6. QED
      BY <1>7, <1>8, <2>2, <3>5 DEF Stage
  <2>3. QED
    BY <2>1, <2>2
<1>15. QED
  BY <1>1, <1>2, <1>7, <1>8, <1>9, <1>10, <1>11, <1>13, <1>14, StepOfHolder

----------------------------------------------------------------------------
(* Writes                                                                  *)

\* An operation of a plan has its fields.
LEMMA Operations ==
    ASSUME NEW op \in FileOp
    PROVE  /\ op.do = "index" => op.list \in Seq(Entry)
           /\ op.do \in {"save", "delete", "index"}
BY DEF FileOp

LEMMA RestOfPlan ==
    ASSUME NEW plan \in Seq(FileOp), plan # << >>
    PROVE  /\ Len(plan) \in Nat /\ Len(plan) > 0
           /\ Head(plan) = plan[1] /\ plan[1] \in FileOp
           /\ Tail(plan) \in Seq(FileOp) /\ Len(Tail(plan)) = Len(plan) - 1
           /\ \A i \in 1 .. Len(plan) - 1 : Tail(plan)[i] = plan[i + 1]
<1>1. Len(plan) \in Nat \ {0}
  BY EmptySeq
<1>2. /\ Tail(plan) \in Seq(FileOp) /\ Len(Tail(plan)) = Len(plan) - 1
      /\ \A i \in 1 .. Len(Tail(plan)) : Tail(plan)[i] = plan[i + 1]
      /\ Head(plan) \in FileOp
  BY HeadTailProperties
<1>3. Head(plan) = plan[1]
  OBVIOUS
<1>4. QED
  BY <1>1, <1>2, <1>3

\* A detail file may be written by who adds an account that does not count as removed,
LEMMA DetailSaved ==
    ASSUME MissingIsNoFile, Safe, UNCHANGED <<use, index, owned, gone, hidden>>,
           Rebuilt' = Rebuilt, NEW a \in Account,
           details' = [details EXCEPT ![a.id] = a],
           ~RefreshesRaceRemovals(use) => a.id \notin gone
    PROVE  FilesAreSound' /\ Present' = Present \union {a.id} /\ Listed' = Listed
<1>1. a.id \in Ids /\ a # Missing
  BY DEF Account, MissingIsNoFile
<1>2. details'[a.id] = a /\ \A id \in Ids \ {a.id} : details'[id] = details[id]
  BY <1>1 DEF Safe, TypeOK
<1>3. Present' = Present \union {a.id} /\ Listed' = Listed
  BY <1>1, <1>2 DEF Present, Listed
<1>4. DetailsAreTheirs'
  BY <1>2, <1>3 DEF Safe, FilesAreSound, DetailsAreTheirs, Present
<1>5. QED
  BY <1>3, <1>4
  DEF Safe, FilesAreSound, NoDangling, AddedStayListed, RemovedStayRemoved,
      RefreshesRaceRemovals

\* and deleted by who removes one that the index no longer names.
LEMMA DetailDeleted ==
    ASSUME Safe, UNCHANGED <<use, index, owned, gone, hidden>>, Rebuilt' = Rebuilt,
           NEW id \in Ids \ owned, Rebuilt \/ id \notin Listed,
           details' = [details EXCEPT ![id] = Missing]
    PROVE  FilesAreSound' /\ Present' = Present \ {id} /\ Listed' = Listed
<1>1. details'[id] = Missing /\ \A i \in Ids \ {id} : details'[i] = details[i]
  BY DEF Safe, TypeOK
<1>2. Present' = Present \ {id} /\ Listed' = Listed
  BY <1>1 DEF Present, Listed
<1>3. DetailsAreTheirs'
  BY <1>1, <1>2 DEF Safe, FilesAreSound, DetailsAreTheirs, Present
<1>4. QED
  BY <1>2, <1>3
  DEF Safe, FilesAreSound, NoDangling, AddedStayListed, RemovedStayRemoved,
      RefreshesRaceRemovals

LEMMA WriteSafe ==
    ASSUME Safe, StoreBounds, MissingIsNoFile, NEW t \in Threads, Write(t) PROVE Safe'
<1> DEFINE plan == call[t].plan
           rest == Tail(plan)
           id == call[t].account.id
           c == [call[t] EXCEPT !.plan = rest]
<1>1. /\ call[t].at = "plan" /\ call[t] \in Call /\ plan \in Seq(FileOp) /\ plan # << >>
      /\ UNCHANGED <<use, lock, clock, faults, owned, gone, due, hidden>>
      /\ Rebuilt' = Rebuilt /\ mishaps' \subseteq Mishaps
  BY BegunCall DEF Safe, TypeOK, Write, Rebuilt, Mishaps
<1>2. /\ Allowed(call[t]) /\ call[t].kind # "list" /\ lock = t
      /\ \A u \in Threads : due[u] \subseteq owned \ hidden
      /\ call[t].account \in Account /\ call[t].kind \in use.kinds
  BY <1>1 DEF Safe, CallsAreSound, Locking, Allowed
<1>3. /\ call[t].kind = "remove" => RemovesInOrder(call[t])
      /\ call[t].kind # "remove" => SavesInOrder(call[t])
  BY <1>1, <1>2 DEF Safe, CallsAreSound, Stage
<1>4. /\ Len(plan) \in Nat /\ Len(plan) > 0
      /\ Head(plan) = plan[1] /\ plan[1] \in FileOp
      /\ rest \in Seq(FileOp) /\ Len(rest) = Len(plan) - 1
      /\ \A i \in 1 .. Len(plan) - 1 : rest[i] = plan[i + 1]
  BY <1>1, RestOfPlan
<1>5. call' = [call EXCEPT ![t] = c]
  BY DEF Write
<1> HIDE DEF rest
<1>6. c \in Call /\ c.at = "plan" /\ c.account = call[t].account /\ c.plan = rest
      /\ c.kind = call[t].kind
  BY <1>1, <1>4 DEF Call
<1> HIDE DEF c
<1>7. call'[t] = c /\ \A u \in Threads \ {t} : call'[u] = call[u]
  BY <1>5 DEF Safe, TypeOK
<1>8. /\ index' = IF plan[1].do = "index" THEN plan[1].list ELSE index
      /\ plan[1].do = "save" =>
           details' = [details EXCEPT ![plan[1].account.id] = plan[1].account]
      /\ plan[1].do = "delete" => details' = [details EXCEPT ![plan[1].id] = Missing]
      /\ plan[1].do = "index" => details' = details
  BY <1>4 DEF Write
<1>9. id \in Ids
  BY <1>2 DEF Account
<1> HIDE DEF plan
<1>10. TypeOK'
  <2>1. call' \in [Threads -> Call \union {Idle}]
    BY <1>5, <1>6 DEF Safe, TypeOK
  <2>2. index' \in Seq(Entry) \union {Missing}
    BY <1>4, <1>8, Operations DEF Safe, TypeOK
  <2>3. details' \in [Ids -> Account \union {Missing}]
    <3>1. CASE plan[1].do = "save"
      <4>1. plan[1].account \in Account /\ plan[1].account.id \in Ids
        BY <1>4, <3>1 DEF FileOp, Account
      <4>2. QED
        BY <1>8, <3>1, <4>1 DEF Safe, TypeOK
    <3>2. CASE plan[1].do = "delete"
      BY <1>8, <3>2 DEF Safe, TypeOK
    <3>3. CASE plan[1].do = "index"
      BY <1>8, <3>3 DEF Safe, TypeOK
    <3>4. QED
      BY <1>4, <3>1, <3>2, <3>3, Operations
  <2>4. QED
    BY <1>1, <2>1, <2>2, <2>3 DEF Safe, TypeOK
<1>11. Allowed(call[t])' /\ Locking(call[t])'
  BY <1>1, <1>2, <1>6, <1>7 DEF Allowed, Locking
<1>12. FilesAreSound' /\ Stage(call[t])'
  <2>1. CASE plan[1].do = "index" /\ Tells(plan[1].list, {})
    <3>1. /\ plan[1].list \in Seq(Entry) /\ index' = plan[1].list /\ details' = details
          /\ Listed' = IdsOf(plan[1].list) /\ Present' = Present
      BY <1>4, <1>8, <2>1, Operations DEF MissingIsNoFile, Listed, Present
    <3>2. FilesAreSound'
      BY <1>1, <2>1, <3>1, IndexWritten
    <3>3. CASE call[t].kind = "remove"
      <4>1. /\ id \notin owned /\ Len(plan) = 2 /\ plan[2] = DeleteOf(id)
            /\ id \notin IdsOf(plan[1].list)
        BY <1>3, <1>4, <2>1, <3>3 DEF RemovesInOrder, DeleteOf, plan
      <4>2. Len(rest) = 1 /\ rest[1] = DeleteOf(id)
        BY <1>4, <4>1
      <4>3. RemovesInOrder(call[t])'
        BY <1>1, <1>6, <1>7, <3>1, <4>1, <4>2 DEF RemovesInOrder, DeleteOf
      <4>4. QED
        BY <1>6, <1>7, <3>2, <3>3, <4>3 DEF Stage
    <3>4. CASE call[t].kind # "remove"
      <4>1. /\ call[t].kind \in {"add", "import"} => id \notin gone
            /\ Len(plan) = 1 /\ id \in IdsOf(plan[1].list) /\ id \in Present
        BY <1>3, <1>4, <2>1, <3>4 DEF SavesInOrder, SaveOf, plan
      <4>2. Len(rest) = 0
        BY <1>4, <4>1
      <4>3. SavesInOrder(call[t])'
        BY <1>1, <1>6, <1>7, <3>1, <4>1, <4>2 DEF SavesInOrder
      <4>4. QED
        BY <1>6, <1>7, <3>2, <3>4, <4>3 DEF Stage
    <3>5. QED
      BY <3>3, <3>4
  <2>2. CASE call[t].kind = "remove" /\ plan[1] = DeleteOf(id)
    <3>1. id \notin owned /\ Len(plan) = 1 /\ (Rebuilt \/ id \notin Listed)
      BY <1>3, <1>4, <2>2 DEF RemovesInOrder, DeleteOf, plan
    <3>2. index' = index /\ details' = [details EXCEPT ![id] = Missing]
      BY <1>8, <2>2 DEF DeleteOf
    <3>3. FilesAreSound' /\ Present' = Present \ {id} /\ Listed' = Listed
      BY <1>1, <1>9, <3>1, <3>2, DetailDeleted
    <3>4. Len(rest) = 0
      BY <1>4, <3>1
    <3>5. RemovesInOrder(call[t])'
      BY <1>1, <1>6, <1>7, <3>1, <3>3, <3>4 DEF RemovesInOrder
    <3>6. QED
      BY <1>6, <1>7, <2>2, <3>3, <3>5 DEF Stage
  <2>3. CASE call[t].kind # "remove" /\ plan[1] = SaveOf(call[t].account)
    <3>1. /\ call[t].kind \in {"add", "import"} => id \notin gone
          /\ Len(plan) = 2 /\ plan[2].do = "index" /\ Tells(plan[2].list, {id})
          /\ id \in IdsOf(plan[2].list)
      BY <1>3, <1>4, <2>3 DEF SavesInOrder, SaveOf, plan
    <3>2. index' = index /\ details' = [details EXCEPT ![id] = call[t].account]
      BY <1>8, <2>3 DEF SaveOf
    <3>3. ~RefreshesRaceRemovals(use) => id \notin gone
      <4>1. call[t].kind \in {"add", "import", "refresh"}
        BY <1>1, <1>2, <2>3 DEF Call, Kinds
      <4>2. CASE call[t].kind = "refresh"
        BY <1>2, <4>2 DEF RefreshesRaceRemovals, Safe, FilesAreSound
      <4>3. QED
        BY <3>1, <4>1, <4>2
    <3>4. FilesAreSound' /\ Present' = Present \union {id} /\ Listed' = Listed
      BY <1>1, <1>2, <3>2, <3>3, DetailSaved
    <3>5. Len(rest) = 1 /\ rest[1] = plan[2]
      BY <1>4, <3>1
    <3>6. call'[t].plan = rest /\ Tells(call[t].plan[1].list, {})'
      BY <1>1, <1>6, <1>7, <3>1, <3>4, <3>5 DEF Tells
    <3>7. SavesInOrder(call[t])'
      BY <1>1, <1>4, <1>6, <1>7, <3>1, <3>4, <3>5, <3>6 DEF SavesInOrder
    <3>8. QED
      BY <1>6, <1>7, <2>3, <3>4, <3>7 DEF Stage
  <2>4. CASE call[t].kind = "remove"
    <3>1. \/ plan[1].do = "index" /\ Tells(plan[1].list, {})
          \/ plan[1] = DeleteOf(id)
      BY <1>3, <1>4, <2>4 DEF RemovesInOrder, plan
    <3>2. QED
      BY <2>1, <2>2, <2>4, <3>1
  <2>5. CASE call[t].kind # "remove"
    <3>1. \/ plan[1].do = "index" /\ Tells(plan[1].list, {})
          \/ plan[1] = SaveOf(call[t].account)
      BY <1>3, <1>4, <2>5 DEF SavesInOrder, plan
    <3>2. QED
      BY <2>1, <2>3, <2>5, <3>1
  <2>6. QED
    BY <2>4, <2>5
<1>13. QED
  BY <1>1, <1>2, <1>6, <1>7, <1>10, <1>11, <1>12, StepOfHolder

----------------------------------------------------------------------------
(* Calls end                                                               *)

LEMMA WriteFailsSafe ==
    ASSUME Safe, StoreBounds, NEW t \in Threads, WriteFails(t) PROVE Safe'
<1>1. /\ call[t].at = "plan" /\ call[t].plan # << >>
      /\ UNCHANGED <<use, index, details, clock, owned, gone, due, hidden>>
      /\ faults' \in 0 .. MaxFaults
  BY DEF WriteFails, Fault, files, Safe, TypeOK, StoreBounds
<1>2. call[t].kind # "list" /\ lock = t /\ \A u \in Threads : due[u] \subseteq owned \ hidden
  BY <1>1 DEF Safe, CallsAreSound, Allowed, Locking
<1>3. call' = [call EXCEPT ![t] = Idle] /\ lock' = NoThread /\ mishaps' = mishaps
      /\ Rebuilt' = Rebuilt
  BY <1>2 DEF WriteFails, Unlock, Rebuilt
<1>4. call'[t] = Idle /\ \A u \in Threads \ {t} : call'[u] = call[u]
  BY <1>3 DEF Safe, TypeOK
<1>5. TypeOK'
  BY <1>1, <1>3 DEF Safe, TypeOK
<1>6. Allowed(call[t])' /\ ~Locking(call[t])' /\ lock' # t /\ call'[t].at = "idle"
  BY <1>3, <1>4 DEF Allowed, Locking, Idle, StoreBounds
<1>7. FilesAreSound'
  BY <1>1, <1>3
  DEF Safe, FilesAreSound, DetailsAreTheirs, NoDangling, AddedStayListed,
      RemovedStayRemoved, RefreshesRaceRemovals, Present, Listed
<1>8. QED
  BY <1>1, <1>2, <1>3, <1>4, <1>5, <1>6, <1>7, StepOfHolder

\* A call that returns has done what it says.
LEMMA ReturnSafe ==
    ASSUME Safe, StoreBounds, NEW t \in Threads, Return(t) PROVE Safe'
<1> DEFINE id == call[t].account.id
<1>1. /\ call[t].at = "plan" /\ call[t] \in Call /\ call[t].plan = << >>
      /\ UNCHANGED <<use, index, details, clock, faults, mishaps>> /\ Rebuilt' = Rebuilt
      /\ call' = [call EXCEPT ![t] = Idle] /\ due' = [due EXCEPT ![t] = {}]
  BY BegunCall DEF Return, files, Safe, TypeOK, Rebuilt
<1>2. /\ Allowed(call[t]) /\ call[t].kind \in use.kinds
      /\ \A u \in Threads : due[u] \subseteq owned \ hidden
      /\ call[t].kind # "list" <=> lock = t
      /\ lock = t => Stage(call[t])
  BY <1>1 DEF Safe, CallsAreSound, Allowed, Locking
<1>3. call'[t] = Idle /\ \A u \in Threads \ {t} : call'[u] = call[u]
  BY <1>1 DEF Safe, TypeOK
<1>4. due'[t] = {} /\ \A u \in Threads \ {t} : due'[u] = due[u]
  BY <1>1 DEF Safe, TypeOK
<1>5. call[t].kind # "list" => call[t].account \in Account /\ id \in Ids
  BY <1>1, <1>2 DEF Allowed, Account
<1>6. /\ owned' = IF call[t].kind \in {"add", "import"} THEN owned \union {id} ELSE owned
      /\ hidden' = IF call[t].kind \in {"add", "import"} THEN hidden \ {id} ELSE hidden
      /\ gone' = IF call[t].kind = "remove" THEN gone \union {id} ELSE gone
  BY DEF Return
<1>7. lock' = IF lock = t THEN NoThread ELSE lock
  BY DEF Return, Unlock
<1>8. TypeOK'
  <2>1. call' \in [Threads -> Call \union {Idle}] /\ due' \in [Threads -> SUBSET Ids]
    BY <1>1 DEF Safe, TypeOK
  <2>2. /\ owned' \subseteq Ids /\ gone' \subseteq Ids /\ hidden' \subseteq Ids
        /\ lock' \in Threads \union {NoThread}
    BY <1>5, <1>6, <1>7 DEF Safe, TypeOK
  <2>3. QED
    BY <1>1, <2>1, <2>2 DEF Safe, TypeOK
<1>9. /\ Allowed(call[t])' /\ ~Locking(call[t])' /\ lock' # t /\ call'[t].at = "idle"
      /\ Fed(call[t], due[t])'
  BY <1>3, <1>7 DEF Allowed, Locking, Fed, Idle, StoreBounds
<1>10. CASE call[t].kind = "list"
  <2>1. owned' = owned /\ gone' = gone /\ hidden' = hidden /\ lock # t /\ lock' = lock
    BY <1>2, <1>6, <1>7, <1>10
  <2>2. \A u \in Threads : due'[u] \subseteq owned \ hidden'
    BY <1>2, <1>4, <2>1
  <2>3. QED
    BY <1>1, <1>3, <1>4, <1>8, <1>9, <2>1, <2>2, StepBeside
<1>11. CASE call[t].kind # "list"
  <2>1. lock = t /\ Stage(call[t]) /\ owned \subseteq owned' /\ hidden' \subseteq hidden
    BY <1>2, <1>6, <1>11
  <2>2. FilesAreSound'
    <3>1. Present' = Present /\ Listed' = Listed
      BY <1>1 DEF Present, Listed
    <3>2. call[t].kind \in {"add", "import"} => id \in Present /\ (Rebuilt \/ id \in Listed)
      BY <1>1, <2>1 DEF Stage, SavesInOrder
    <3>3. call[t].kind = "remove" => id \notin Present /\ (Rebuilt \/ id \notin Listed)
      BY <1>1, <2>1 DEF Stage, RemovesInOrder
    <3>4. AddedStayListed'
      BY <1>1, <1>6, <3>1, <3>2 DEF Safe, FilesAreSound, AddedStayListed
    <3>5. ~RefreshesRaceRemovals(use) => RemovedStayRemoved'
      BY <1>1, <1>6, <3>1, <3>3 DEF Safe, FilesAreSound, RemovedStayRemoved
    <3>6. gone' # {} => "remove" \in use.kinds
      BY <1>2, <1>6 DEF Safe, FilesAreSound
    <3>7. QED
      BY <1>1, <3>1, <3>4, <3>5, <3>6
      DEF Safe, FilesAreSound, DetailsAreTheirs, NoDangling, RefreshesRaceRemovals
  <2>3. \A u \in Threads : due'[u] \subseteq due[u] /\ due'[u] \subseteq owned' \ hidden'
    BY <1>2, <1>4, <2>1
  <2>4. QED
    BY <1>1, <1>3, <1>7, <1>8, <1>9, <2>1, <2>2, <2>3, StepOfHolder
<1>12. QED
  BY <1>10, <1>11

\* The files are as they were, wherever the calls had come to.
LEMMA CrashSafe ==
    ASSUME Safe, StoreBounds, Crash PROVE Safe'
<1>1. /\ UNCHANGED <<use, index, details, clock, owned, gone, hidden, mishaps>>
      /\ Rebuilt' = Rebuilt /\ lock' = NoThread
      /\ call' = [t \in Threads |-> Idle] /\ due' = [t \in Threads |-> {}]
      /\ faults' \in 0 .. MaxFaults
  BY DEF Crash, files, Safe, TypeOK, StoreBounds, Rebuilt
<1>2. TypeOK'
  BY <1>1 DEF Safe, TypeOK
<1>3. CallsAreSound'
  <2> SUFFICES ASSUME NEW t \in Threads
               PROVE  (/\ Allowed(call[t]) /\ ~Locking(call[t]) /\ lock # t
                       /\ due[t] \subseteq owned \ hidden /\ Fed(call[t], due[t]))'
    BY DEF CallsAreSound
  <2>1. call'[t].at = "idle" /\ due'[t] = {} /\ lock' # t
    BY <1>1 DEF Idle, StoreBounds
  <2>2. QED
    BY <2>1 DEF Allowed, Locking, Fed
<1>4. FilesAreSound'
  BY <1>1
  DEF Safe, FilesAreSound, DetailsAreTheirs, NoDangling, AddedStayListed,
      RemovedStayRemoved, RefreshesRaceRemovals, Present, Listed
<1>5. QED
  BY <1>2, <1>3, <1>4 DEF Safe

----------------------------------------------------------------------------
(* The theorems                                                            *)

\* Every step keeps a plain store safe.
LEMMA Inductive == IInv /\ [Next]_vars => IInv'
<1> SUFFICES ASSUME IInv, [Next]_vars, Plain(use)' PROVE Safe'
  BY DEF IInv
<1> USE StoreBounds, MissingIsNoFile, UsesAreUses
<1>1. use' = use
  <2>1. CASE UNCHANGED vars \/ Crash
    BY <2>1 DEF vars, files, Crash
  <2>2. ASSUME NEW t \in Threads,
               \/ BeginList(t) \/ BeginAdd(t) \/ BeginImport(t)
               \/ BeginRefresh(t) \/ BeginRemove(t)
        PROVE  use' = use
    BY <2>2 DEF files, BeginList, BeginAdd, BeginImport, BeginRefresh, BeginRemove, Begin
  <2>3. ASSUME NEW t \in Threads,
               Answer(t) \/ Acquire(t) \/ ReadIndex(t) \/ ReadIndexFails(t) \/ Collect(t)
        PROVE  use' = use
    BY <2>3 DEF files, Answer, Acquire, ReadIndex, ReadIndexFails, Collect
  <2>4. ASSUME NEW t \in Threads,
               Backup(t) \/ Resave(t) \/ Decide(t) \/ ReadDetail(t) \/ ReadDetailFails(t)
        PROVE  use' = use
    BY <2>4 DEF files, Backup, Resave, Decide, ReadDetail, ReadDetailFails
  <2>5. ASSUME NEW t \in Threads, Normalize(t) \/ Write(t) \/ WriteFails(t) \/ Return(t)
        PROVE  use' = use
    BY <2>5 DEF files, Normalize, Write, WriteFails, Return
  <2>6. QED
    BY <2>1, <2>2, <2>3, <2>4, <2>5 DEF Next
<1>2. Plain(use) /\ Safe
  BY <1>1 DEF IInv, Plain
<1>3. CASE UNCHANGED vars
  <2>1. TypeOK'
    BY <1>2, <1>3 DEF vars, ghosts, Safe, TypeOK
  <2>2. CallsAreSound'
    <3>1. ASSUME NEW c PROVE Stage(c)' = Stage(c) /\ Allowed(c)' = Allowed(c)
      BY <1>3
      DEF vars, ghosts, Allowed, Stage, SavesInOrder, RemovesInOrder, Tells, Rebuilt,
          Present, Listed
    <3>2. QED
      BY <1>2, <1>3, <3>1 DEF vars, ghosts, Safe, CallsAreSound, Locking, Fed, Rebuilt
  <2>3. FilesAreSound'
    BY <1>2, <1>3
    DEF vars, ghosts, Safe, FilesAreSound, DetailsAreTheirs, NoDangling, AddedStayListed,
        RemovedStayRemoved, RefreshesRaceRemovals, Rebuilt, Present, Listed
  <2>4. QED
    BY <2>1, <2>2, <2>3 DEF Safe
<1>4. CASE Crash
  BY <1>2, <1>4, CrashSafe
<1>5. ASSUME NEW t \in Threads,
             \/ BeginList(t) \/ BeginAdd(t) \/ BeginImport(t)
             \/ BeginRefresh(t) \/ BeginRemove(t)
             \/ Answer(t) \/ Acquire(t)
      PROVE  Safe'
  BY <1>2, <1>5, BeginListSafe, BeginAddSafe, BeginImportSafe, BeginRefreshSafe,
     BeginRemoveSafe, AnswerSafe, AcquireSafe
<1>6. ASSUME NEW t \in Threads,
             \/ ReadIndex(t) \/ ReadIndexFails(t) \/ Collect(t) \/ Backup(t) \/ Resave(t)
             \/ Decide(t) \/ ReadDetail(t) \/ ReadDetailFails(t) \/ Normalize(t)
      PROVE  Safe'
  BY <1>2, <1>6, ReadIndexSafe, ReadIndexFailsSafe, CollectSafe, BackupSafe, ResaveSafe,
     DecideSafe, ReadDetailSafe, ReadDetailFailsSafe, NormalizeSafe
<1>7. ASSUME NEW t \in Threads, Write(t) \/ WriteFails(t) \/ Return(t) PROVE Safe'
  BY <1>2, <1>7, WriteSafe, WriteFailsSafe, ReturnSafe
<1>8. QED
  BY <1>3, <1>4, <1>5, <1>6, <1>7 DEF Next

\* In every state of a plain store, the whole of what the argument needs.
THEOREM Invariance == Spec => []IInv
<1>1. Init => IInv
  BY StoreBounds, MissingIsNoFile, UsesAreUses, InitIInv
<1>2. QED
  BY <1>1, Inductive, PTL DEF Spec

\* Type correctness: index and detail files hold entries and accounts, a call has
\* the fields of its kind, and what it is going to write are file operations.
THEOREM TypeCorrect == Spec => [](Plain(use) => TypeOK)
<1>1. IInv => (Plain(use) => TypeOK)
  BY DEF IInv, Safe
<1>2. QED
  BY Invariance, <1>1, PTL

\* The order in which upsert_account_record and remove_account write their two
\* files keeps the index from naming an account that is not stored, at every instant,
\* whatever read or write fails and whenever the process dies, until a listing
\* rebuilds the index without the lock.
THEOREM NoEntryDangles == Spec => [](Plain(use) => NoDangling)
<1>1. IInv => (Plain(use) => NoDangling)
  BY DEF IInv, Safe, FilesAreSound
<1>2. QED
  BY Invariance, <1>1, PTL

\* An account whose upsert_account has returned stays stored until its removal,
\* through failed reads and writes, crashes and rebuilds of the index.  It stays
\* listed, too, but for what a failed read hid from a call that then wrote the index,
\* and for a listing that rebuilds the index without the lock.
THEOREM AddedStay == Spec => [](Plain(use) => AddedStayListed)
<1>1. IInv => (Plain(use) => AddedStayListed)
  BY DEF IInv, Safe, FilesAreSound
<1>2. QED
  BY Invariance, <1>1, PTL

\* An account whose remove_account has returned is not stored again by itself, nor
\* listed again by a rebuild of the index under the lock, unless refreshes race
\* removals.
THEOREM RemovedStayAway ==
    Spec => [](Plain(use) /\ ~RefreshesRaceRemovals(use) => RemovedStayRemoved)
<1>1. IInv => (Plain(use) /\ ~RefreshesRaceRemovals(use) => RemovedStayRemoved)
  BY DEF IInv, Safe, FilesAreSound
<1>2. QED
  BY Invariance, <1>1, PTL

\* list_accounts, which takes no lock, returns every account that was there all
\* the while and that no failed read hid, whatever is added, refreshed or removed
\* beside it, unless a listing rebuilds the index.
THEOREM ListsAreComplete == Spec => [](Plain(use) => ListSeesOwned)
<1>1. IInv => (Plain(use) => ListSeesOwned)
  BY DEF IInv, Safe, CallsAreSound, Fed, ListSeesOwned
<1>2. QED
  BY Invariance, <1>1, PTL
=============================================================================
