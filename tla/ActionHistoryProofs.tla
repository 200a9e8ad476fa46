------------------------- MODULE ActionHistoryProofs -------------------------
(***************************************************************************)
(* Any number of runs, with any times, and a client with any query: both   *)
(* stores give the same pages, and paging shows what it should.            *)
(*                                                                         *)
(* The list of a finite set of runs is found by rank: a run comes after as *)
(* many runs of the set as are newer, which makes the list unique.         *)
(***************************************************************************)
EXTENDS ActionHistory, ActionLifecycleProofs, FiniteSetTheorems, SequenceTheorems

(* Runs that can be listed. *)
Listable(S) ==
  /\ IsFiniteSet(S)
  /\ \A r \in S : r \in Nat /\ createdAt[r] \in Nat

IsNewestFirst(list, S) ==
  /\ list \in [1 .. Cardinality(S) -> S]
  /\ \A r \in S : \E i \in DOMAIN list : list[i] = r
  /\ \A i, j \in DOMAIN list : i < j => Newer(list[i], list[j])

UpTo(S, r) == {s \in S : s = r \/ Newer(s, r)}

-----------------------------------------------------------------------------
LEMMA NewerIsAnOrder ==
  ASSUME NEW S, Listable(S)
  PROVE  /\ \A a \in S : ~Newer(a, a)
         /\ \A a, b \in S : a = b \/ Newer(a, b) \/ Newer(b, a)
         /\ \A a, b, c \in S : Newer(a, b) /\ Newer(b, c) => Newer(a, c)
BY DEF Listable, Newer

LEMMA Ranks ==
  ASSUME NEW S, Listable(S)
  PROVE  /\ Cardinality(S) \in Nat
         /\ \A a \in S : Cardinality(UpTo(S, a)) \in 1 .. Cardinality(S)
         /\ \A a, b \in S : Newer(a, b) => Cardinality(UpTo(S, a)) < Cardinality(UpTo(S, b))
<1>1. IsFiniteSet(S) /\ Cardinality(S) \in Nat
  BY FS_CardinalityType DEF Listable
<1>2. ASSUME NEW a \in S
      PROVE  /\ IsFiniteSet(UpTo(S, a)) /\ Cardinality(UpTo(S, a)) \in Nat
             /\ Cardinality(UpTo(S, a)) \in 1 .. Cardinality(S)
  <2>1. UpTo(S, a) \in SUBSET S /\ a \in UpTo(S, a)
    BY DEF UpTo
  <2>2. IsFiniteSet(UpTo(S, a)) /\ Cardinality(UpTo(S, a)) <= Cardinality(S)
    BY <1>1, <2>1, FS_Subset
  <2>3. Cardinality(UpTo(S, a)) \in Nat /\ Cardinality(UpTo(S, a)) # 0
    BY <2>1, <2>2, FS_CardinalityType, FS_EmptySet
  <2> QED
    BY <1>1, <2>2, <2>3
<1>3. ASSUME NEW a \in S, NEW b \in S, Newer(a, b)
      PROVE  Cardinality(UpTo(S, a)) < Cardinality(UpTo(S, b))
  <2>1. UpTo(S, a) \in SUBSET UpTo(S, b) /\ b \in UpTo(S, b) /\ b \notin UpTo(S, a)
    BY <1>3, NewerIsAnOrder DEF UpTo
  <2>2. /\ Cardinality(UpTo(S, a)) <= Cardinality(UpTo(S, b))
        /\ Cardinality(UpTo(S, a)) # Cardinality(UpTo(S, b))
    BY <1>2, <2>1, FS_Subset
  <2> QED
    BY <1>2, <2>2
<1> QED
  BY <1>1, <1>2, <1>3

LEMMA ListExists ==
  ASSUME NEW S, Listable(S)
  PROVE  \E list : IsNewestFirst(list, S)
<1> DEFINE n == Cardinality(S)
           rank == [r \in S |-> Cardinality(UpTo(S, r))]
           list == [i \in 1 .. n |-> CHOOSE r \in S : rank[r] = i]
<1>1. n \in Nat /\ IsFiniteSet(1 .. n) /\ Cardinality(1 .. n) = n /\ IsFiniteSet(S)
  BY Ranks, FS_Interval DEF Listable
<1>2. \A a, b \in S : a # b => rank[a] # rank[b]
  BY Ranks, NewerIsAnOrder
<1>3. rank \in Injection(S, 1 .. n)
  BY <1>2, Ranks DEF Injection, IsInjective
<1>4. rank \in Surjection(S, 1 .. n)
  BY <1>1, <1>3, FS_Injection
<1>5. \A i \in 1 .. n : list[i] \in S /\ rank[list[i]] = i
  BY <1>4 DEF Surjection
<1>6. \A r \in S : rank[r] \in 1 .. n /\ list[rank[r]] = r
  BY <1>2, <1>3, <1>5 DEF Injection
<1>7. \A i, j \in 1 .. n : i < j => Newer(list[i], list[j])
  <2> SUFFICES ASSUME NEW i \in 1 .. n, NEW j \in 1 .. n, i < j,
                      ~Newer(list[i], list[j])
               PROVE  FALSE
    OBVIOUS
  <2>1. list[i] # list[j]
    BY <1>5
  <2>2. Newer(list[j], list[i])
    BY <1>5, <2>1, NewerIsAnOrder
  <2>3. rank[list[j]] < rank[list[i]]
    BY <1>5, <2>2, Ranks
  <2> QED
    BY <1>5, <2>3
<1>8. IsNewestFirst(list, S)
  BY <1>5, <1>6, <1>7 DEF IsNewestFirst
<1> HIDE DEF list
<1> QED
  BY <1>8

(* The place of a run is its rank, so there is one list.                   *)
LEMMA PlaceIsRank ==
  ASSUME NEW S, Listable(S), NEW list, IsNewestFirst(list, S),
         NEW i \in 1 .. Cardinality(S)
  PROVE  Cardinality(UpTo(S, list[i])) = i
<1>1. i \in Nat /\ Cardinality(S) \in Nat
  BY Ranks
<1> DEFINE f == [k \in 1 .. i |-> list[k]]
<1>2. \A k \in 1 .. i : k \in 1 .. Cardinality(S) /\ list[k] \in S
  BY <1>1 DEF IsNewestFirst
<1>3. \A k \in 1 .. i : f[k] \in UpTo(S, list[i])
  BY <1>1, <1>2 DEF IsNewestFirst, UpTo
<1>4. \A k, l \in 1 .. i : k # l => f[k] # f[l]
  <2> SUFFICES ASSUME NEW k \in 1 .. i, NEW l \in 1 .. i, k < l PROVE list[k] # list[l]
    BY <1>1
  <2> QED
    BY <1>2, NewerIsAnOrder DEF IsNewestFirst
<1>5. \A r \in UpTo(S, list[i]) : \E k \in 1 .. i : f[k] = r
  <2> SUFFICES ASSUME NEW r \in UpTo(S, list[i]) PROVE \E k \in 1 .. i : list[k] = r
    OBVIOUS
  <2>1. PICK k \in 1 .. Cardinality(S) : list[k] = r
    BY DEF UpTo, IsNewestFirst
  <2>2. CASE k <= i
    BY <1>1, <2>1, <2>2
  <2>3. CASE i < k
    <3>1. Newer(list[i], r) /\ list[i] \in S /\ r \in S
      BY <1>1, <2>1, <2>3 DEF IsNewestFirst, UpTo
    <3>2. r = list[i] \/ Newer(r, list[i])
      BY DEF UpTo
    <3> QED
      BY <3>1, <3>2, NewerIsAnOrder
  <2> QED
    BY <1>1, <2>2, <2>3
<1>6. f \in Bijection(1 .. i, UpTo(S, list[i]))
  BY <1>3, <1>4, <1>5 DEF Bijection, Injection, Surjection, IsInjective
<1>7. ExistsBijection(1 .. i, UpTo(S, list[i]))
  BY <1>6 DEF ExistsBijection
<1> QED
  BY <1>1, <1>7, FS_CountingElements

LEMMA OneList ==
  ASSUME NEW S, Listable(S), NEW list, IsNewestFirst(list, S),
         NEW other, IsNewestFirst(other, S)
  PROVE  list = other
<1>1. ASSUME NEW i \in 1 .. Cardinality(S) PROVE list[i] = other[i]
  <2>1. list[i] \in S
    BY DEF IsNewestFirst
  <2>2. PICK j \in 1 .. Cardinality(S) : other[j] = list[i]
    BY <2>1 DEF IsNewestFirst
  <2>3. Cardinality(UpTo(S, list[i])) = i /\ Cardinality(UpTo(S, list[i])) = j
    BY <2>2, PlaceIsRank
  <2> QED
    BY <2>2, <2>3
<1>2. /\ list = [i \in 1 .. Cardinality(S) |-> list[i]]
      /\ other = [i \in 1 .. Cardinality(S) |-> other[i]]
  BY DEF IsNewestFirst
<1> QED
  BY <1>1, <1>2

(* What a list of the runs of a set is, for both stores.                   *)
LEMMA NewestFirstIsSorted ==
  ASSUME NEW S, Listable(S)
  PROVE  IsNewestFirst(NewestFirst(S), S)
<1> DEFINE n == Cardinality(S)
<1>1. n \in Nat /\ IsFiniteSet(S) /\ IsFiniteSet(1 .. n) /\ Cardinality(1 .. n) = n
  BY Ranks, FS_Interval DEF Listable
<1>2. PICK list : IsNewestFirst(list, S)
  BY ListExists
<1> DEFINE found == NewestFirst(S)
<1>3. /\ found \in [1 .. n -> S]
      /\ \A i, j \in DOMAIN found : i < j => Newer(found[i], found[j])
  BY <1>2 DEF NewestFirst, IsNewestFirst
<1>4. \A i, j \in 1 .. n : i # j => found[i] # found[j]
  <2> SUFFICES ASSUME NEW i \in 1 .. n, NEW j \in 1 .. n, i < j PROVE found[i] # found[j]
    BY <1>1
  <2> QED
    BY <1>3, NewerIsAnOrder
<1>5. found \in Injection(1 .. n, S)
  BY <1>3, <1>4 DEF Injection, IsInjective
<1>6. found \in Surjection(1 .. n, S)
  BY <1>1, <1>5, FS_Injection
<1> QED
  BY <1>3, <1>6 DEF IsNewestFirst, Surjection

-----------------------------------------------------------------------------
(* Pages. *)

LEMMA PartIsListable ==
  ASSUME NEW S, Listable(S), NEW T \in SUBSET S
  PROVE  Listable(T)
BY FS_Subset DEF Listable

(* The list cut after a run is the list of the runs after it.              *)
LEMMA RestOfList ==
  ASSUME NEW S, Listable(S), NEW i \in 1 .. Cardinality(S)
  PROVE  LET list == NewestFirst(S)
         IN  SubSeq(list, i + 1, Len(list))
               = NewestFirst({r \in S : AfterBound(r, {list[i]})})
<1> DEFINE n == Cardinality(S)
           list == NewestFirst(S)
           After == {r \in S : AfterBound(r, {list[i]})}
           rest == SubSeq(list, i + 1, n)
<1>1. IsNewestFirst(list, S) /\ n \in Nat /\ i \in Nat
  BY NewestFirstIsSorted, Ranks
<1> HIDE DEF list
<1>2. Len(list) = n /\ \A k \in 1 .. n : list[k] \in S
  BY <1>1 DEF IsNewestFirst
<1>3. After = {r \in S : Newer(list[i], r)}
  BY <1>2 DEF AfterBound, Newer, Listable
<1>4. Listable(After)
  BY PartIsListable
<1> HIDE DEF After
<1>5. rest = [k \in 1 .. n - i |-> list[i + k]]
  BY <1>1, <1>2
<1> HIDE DEF rest
<1>6. \A k \in 1 .. n - i : i + k \in 1 .. n /\ rest[k] = list[i + k]
  <2>1. \A k \in 1 .. n - i : i + k \in 1 .. n
    BY <1>1
  <2> QED
    BY <1>5, <2>1
<1>7. \A k \in 1 .. n - i : rest[k] \in After
  BY <1>1, <1>2, <1>3, <1>6 DEF IsNewestFirst
<1>8. \A r \in After : \E k \in 1 .. n - i : rest[k] = r
  <2> SUFFICES ASSUME NEW r \in After PROVE \E k \in 1 .. n - i : rest[k] = r
    OBVIOUS
  <2>1. PICK j \in 1 .. n : list[j] = r
    BY <1>1, <1>3 DEF IsNewestFirst
  <2>2. i < j
    <3> SUFFICES ASSUME j <= i PROVE FALSE
      BY <1>1
    <3>1. list[j] = list[i] \/ Newer(list[j], list[i])
      BY <1>1 DEF IsNewestFirst
    <3> QED
      BY <1>2, <1>3, <2>1, <3>1, NewerIsAnOrder
  <2>3. j - i \in 1 .. n - i /\ i + (j - i) = j
    BY <1>1, <2>2
  <2> QED
    BY <1>6, <2>1, <2>3
<1>9. \A k, l \in 1 .. n - i : k < l => Newer(rest[k], rest[l])
  BY <1>1, <1>6 DEF IsNewestFirst
<1>10. Cardinality(After) = n - i
  <2>1. n - i \in Nat
    BY <1>1
  <2>2. \A k, l \in 1 .. n - i : k # l => rest[k] # rest[l]
    <3>1. \A k, l \in 1 .. n - i : k < l => rest[k] # rest[l]
      BY <1>4, <1>7, <1>9, NewerIsAnOrder
    <3>2. \A k, l \in 1 .. n - i : k # l => k < l \/ l < k
      BY <2>1
    <3> QED
      BY <3>1, <3>2
  <2>3. rest \in [1 .. n - i -> After]
    BY <1>5, <1>6, <1>7
  <2>4. rest \in Bijection(1 .. n - i, After)
    BY <1>8, <2>2, <2>3 DEF Bijection, Injection, Surjection, IsInjective
  <2>5. ExistsBijection(1 .. n - i, After)
    BY <2>4 DEF ExistsBijection
  <2> QED
    BY <2>1, <2>5, FS_CountingElements
<1>11. IsNewestFirst(rest, After)
  <2>1. rest \in [1 .. n - i -> After] /\ DOMAIN rest = 1 .. n - i
    BY <1>5, <1>6, <1>7
  <2> QED
    BY <1>8, <1>9, <1>10, <2>1 DEF IsNewestFirst
<1>12. rest = NewestFirst(After)
  BY <1>4, <1>11, NewestFirstIsSorted, OneList
<1> QED
  BY <1>2, <1>12 DEF list, After, rest

(* The memory store cuts the list where the PostgreSQL store filters it.   *)
LEMMA CutIsFilter ==
  ASSUME NEW S, Listable(S), NEW cursor, \A a, b \in cursor : a = b
  PROVE  AfterIndex(NewestFirst(S), cursor)
           = NewestFirst({r \in S : AfterBound(r, cursor \cap S)})
<1> DEFINE list == NewestFirst(S)
<1>1. IsNewestFirst(list, S) /\ Cardinality(S) \in Nat
  BY NewestFirstIsSorted, Ranks
<1>2. RunsOf(list) = S
  BY <1>1 DEF IsNewestFirst, RunsOf
<1>3. CASE cursor # {} /\ cursor \subseteq S
  <2>1. PICK c \in S : cursor = {c}
    BY <1>3
  <2>2. \E i \in DOMAIN list : cursor = {list[i]}
    BY <1>1, <2>1 DEF IsNewestFirst
  <2> DEFINE i == CHOOSE i \in DOMAIN list : cursor = {list[i]}
  <2>3. i \in 1 .. Cardinality(S) /\ cursor = {list[i]}
    BY <1>1, <2>2 DEF IsNewestFirst
  <2>4. AfterIndex(list, cursor) = SubSeq(list, i + 1, Len(list))
    BY <1>2, <1>3 DEF AfterIndex
  <2>5. cursor \cap S = {list[i]}
    BY <1>3, <2>3
  <2> HIDE DEF i
  <2>6. {r \in S : AfterBound(r, cursor \cap S)} = {r \in S : AfterBound(r, {list[i]})}
    BY <2>5
  <2>7. SubSeq(list, i + 1, Len(list)) = NewestFirst({r \in S : AfterBound(r, {list[i]})})
    BY <2>3, RestOfList
  <2> QED
    BY <2>4, <2>6, <2>7
<1>4. CASE ~(cursor # {} /\ cursor \subseteq S)
  <2>1. cursor \cap S = {}
    BY <1>4
  <2>2. {r \in S : AfterBound(r, cursor \cap S)} = S
    BY <2>1 DEF AfterBound
  <2>3. AfterIndex(list, cursor) = list
    BY <1>2, <1>4 DEF AfterIndex
  <2> QED
    BY <2>2, <2>3
<1> QED
  BY <1>3, <1>4

(* What a page shows: the newest runs, and all there are if it is empty.   *)
LEMMA PageOfList ==
  ASSUME NEW S, Listable(S), NEW limit,
         \A m, n \in limit : n \in Nat /\ n > 0 /\ m = n
  PROVE  LET page == FirstOf(NewestFirst(S), limit)
         IN  /\ RunsOf(page) \subseteq S
             /\ page = <<>> => S = {}
             /\ page # <<>> =>
                  /\ Last(page) \in RunsOf(page)
                  /\ \A r \in RunsOf(page) : r = Last(page) \/ Newer(r, Last(page))
                  /\ \A r \in S \ RunsOf(page) : Newer(Last(page), r)
<1> DEFINE size == Cardinality(S)
           list == NewestFirst(S)
           page == FirstOf(list, limit)
<1>1. IsNewestFirst(list, S) /\ size \in Nat
  BY NewestFirstIsSorted, Ranks
<1> HIDE DEF list
<1>2. list \in [1 .. size -> S] /\ Len(list) = size
  BY <1>1 DEF IsNewestFirst
<1>3. PICK k \in 0 .. size : /\ page \in [1 .. k -> S]
                             /\ k = 0 => size = 0
                             /\ \A i \in 1 .. k : i \in 1 .. size /\ page[i] = list[i]
  <2>1. CASE \E k \in limit : k < Len(list)
    <3>1. PICK k \in limit : k < Len(list)
      BY <2>1
    <3>2. (CHOOSE l \in limit : TRUE) = k
      BY <3>1
    <3>3. page = SubSeq(list, 1, k)
      BY <2>1, <3>2 DEF FirstOf
    <3>4. k \in 0 .. size /\ k > 0 /\ \A i \in 1 .. k : i \in 1 .. size
      BY <1>1, <1>2, <3>1
    <3>5. SubSeq(list, 1, k) = [i \in 1 .. k |-> list[i]]
      BY <1>1, <1>2, <3>4
    <3>6. page \in [1 .. k -> S] /\ \A i \in 1 .. k : page[i] = list[i]
      BY <1>2, <3>3, <3>4, <3>5
    <3> QED
      BY <3>4, <3>6
  <2>2. CASE ~\E k \in limit : k < Len(list)
    <3>1. page = list
      BY <2>2 DEF FirstOf
    <3> QED
      BY <1>1, <1>2, <3>1
  <2> QED
    BY <2>1, <2>2
<1> HIDE DEF page
<1>4. k \in Nat /\ Len(page) = k
  BY <1>1, <1>3
<1>5. RunsOf(page) = {list[i] : i \in 1 .. k}
  BY <1>3, <1>4 DEF RunsOf
<1>6. RunsOf(page) \subseteq S
  BY <1>2, <1>3, <1>5
<1>7. ASSUME page = <<>> PROVE S = {}
  <2>1. size = 0
    BY <1>3, <1>4, <1>7
  <2> QED
    BY <2>1, FS_EmptySet DEF Listable
<1>8. ASSUME page # <<>>
      PROVE  /\ Last(page) \in RunsOf(page)
             /\ \A r \in RunsOf(page) : r = Last(page) \/ Newer(r, Last(page))
             /\ \A r \in S \ RunsOf(page) : Newer(Last(page), r)
  <2>1. k > 0
    <3> SUFFICES ASSUME k = 0 PROVE FALSE
      BY <1>4
    <3>1. page \in Seq(S) /\ Len(page) = 0
      BY <1>2, <1>3, <1>4
    <3> QED
      BY <1>8, <3>1, EmptySeq
  <2>2. k \in 1 .. k /\ Last(page) = list[k]
    BY <1>3, <1>4, <2>1 DEF Last
  <2>3. Last(page) \in RunsOf(page)
    BY <1>5, <2>2
  <2>4. \A i \in 1 .. k : list[i] = list[k] \/ Newer(list[i], list[k])
    BY <1>1, <1>3, <2>2 DEF IsNewestFirst
  <2>5. ASSUME NEW r \in S \ RunsOf(page) PROVE Newer(list[k], r)
    <3>1. PICK i \in 1 .. size : list[i] = r
      BY <1>1, <1>2 DEF IsNewestFirst
    <3>2. k < i
      BY <1>1, <1>4, <1>5, <3>1
    <3> QED
      BY <1>1, <1>2, <1>4, <2>2, <3>1, <3>2 DEF IsNewestFirst
  <2> QED
    BY <1>5, <2>2, <2>3, <2>4, <2>5
<1> QED
  BY <1>6, <1>7, <1>8 DEF page, list
-----------------------------------------------------------------------------
(* The audit trail that is read is the one the runtimes implement. *)

LEMMA HistorySteps == [HistoryNext]_historyVars => [Next]_runs
<1> SUFFICES ASSUME [HistoryNext]_historyVars PROVE [Next]_runs
  OBVIOUS
<1>1. CASE UNCHANGED historyVars
  BY <1>1 DEF historyVars
<1>2. ASSUME NEW id \in Identifiers, NEW claim \in {{}} \cup {{k} : k \in Claims},
             NEW time \in Times, CreateRun(id, claim, time)
      PROVE  Next
  <2>1. TRUE \in BOOLEAN /\ Claim(id, claim, TRUE)
    BY <1>2 DEF CreateRun
  <2> QED
    BY <2>1 DEF Next
<1>3. ASSUME NEW id \in Identifiers, Settle(id)
      PROVE  Next
  <2>1. Complete(id, FALSE) \/ Fail(id) \/ StartUndo(id) \/ Undo(id) \/ RefuseUndo(id)
    BY <1>3 DEF Settle
  <2> QED
    BY <2>1 DEF Next
<1>4. CASE ReadHistory
  BY <1>4 DEF ReadHistory, ReadMemory, ReadCursor, SelectPage, Receive
<1> QED
  BY <1>1, <1>2, <1>3, <1>4 DEF HistoryNext

(* Paging reads the audit trail and never touches it: creating, settling   *)
(* and reading are steps of ActionLifecycle, or none.                      *)
THEOREM HistoryRefines == HistorySpec => Spec
<1>1. HistoryInit => Init
  BY DEF HistoryInit
<1> QED
  BY <1>1, HistorySteps, PTL DEF HistorySpec, Spec

(* No run vanishes from the history and a final status stays.              *)
THEOREM HistoryIsKeptWhilePaging == HistorySpec => HistoryIsKept
BY HistoryRefines, HistoryKept

-----------------------------------------------------------------------------
(* The client. *)

Cursors == {{}} \cup {{r} : r \in Identifiers}

Reader == [store : {"memory", "postgres"}, query : Queries,
           stage : {"asking", "selecting", "done"}, cursor : Cursors,
           bound : Cursors, shown : SUBSET Identifiers, repeated : BOOLEAN,
           lost : SUBSET Identifiers]

HistoryTypeOK ==
  /\ TypeOK
  /\ IsFiniteSet(DOMAIN runs)
  /\ createdAt \in [DOMAIN runs -> Times]
  /\ reader \in Reader

InScope(r, query) == query.scope # {} => query.scope = {ScopeOf[r]}

(* The phases of a run only go on. *)
Order == [pending |-> 0, completed |-> 1, failed |-> 1, undoing |-> 2,
          undone |-> 3, undo_failed |-> 3]

HasLeft(r, query) ==
  \E p \in query.phase : Order[p] < Order[runs[r].phase]

(* What was shown exists, matched when it was shown, and is not after the  *)
(* cursor, unless the cursor was ignored at some time.                     *)
ShownInv ==
  /\ reader.cursor \subseteq reader.shown /\ reader.shown \subseteq DOMAIN runs
  /\ reader.cursor = {} => reader.shown = {} /\ expected = {}
  /\ \A r \in reader.shown : InScope(r, reader.query)
  /\ reader.lost # {} \/ \A c \in reader.cursor, r \in reader.shown : r = c \/ Newer(r, c)
  /\ reader.stage = "selecting" =>
       /\ reader.bound \subseteq reader.cursor
       /\ reader.cursor \subseteq reader.bound \cup reader.lost

(* What is expected and was not shown comes after the cursor.              *)
ExpectedInv ==
  /\ expected \subseteq Matching(reader.query)
  /\ \A r \in expected \ reader.shown, c \in reader.cursor : Newer(c, r)

(* What was shown matches, or has left the status for good, as every run   *)
(* whose cursor was ignored has.                                           *)
LeftInv ==
  /\ \A r \in reader.shown : Matches(r, reader.query) \/ HasLeft(r, reader.query)
  /\ \A r \in reader.lost : r \in reader.shown /\ HasLeft(r, reader.query)

HistoryInv ==
  /\ HistoryTypeOK
  /\ ShownInv
  /\ ExpectedInv
  /\ LeftInv
  /\ NoRunTwice
  /\ NothingMissed

LEMMA RunsAreListable ==
  ASSUME HistoryTypeOK, NEW S \in SUBSET DOMAIN runs
  PROVE  Listable(S)
<1>1. IsFiniteSet(S)
  BY FS_Subset DEF HistoryTypeOK
<1>2. \A r \in S : r \in Nat /\ createdAt[r] \in Nat
  BY HistoryAssumption DEF HistoryTypeOK, TypeOK
<1> QED
  BY <1>1, <1>2 DEF Listable

LEMMA PagesAgree ==
  ASSUME HistoryTypeOK, NEW query \in Queries, NEW cursor \in Cursors
  PROVE  MemoryPage(query, cursor) = PostgresPage(query, Bound(query, cursor))
<1>1. Listable(Matching(query))
  BY RunsAreListable DEF Matching
<1>2. \A a, b \in cursor : a = b
  BY DEF Cursors
<1> QED
  BY <1>1, <1>2, CutIsFilter DEF MemoryPage, PostgresPage, Bound

(* A step of PagingGoesOn.                                                 *)
Advances ==
  reader' # reader /\ reader'.stage = "asking" =>
    \A c \in reader.cursor, next \in reader'.cursor :
      \/ Newer(c, next)
      \/ c \in reader'.lost /\ next \notin reader'.lost

LEMMA LeftDoesNotMatch ==
  ASSUME HistoryTypeOK, NEW query \in Queries, NEW r, HasLeft(r, query)
  PROVE  ~Matches(r, query) /\ query.phase # {}
<1>1. PICK p \in query.phase : Order[p] < Order[runs[r].phase]
  BY DEF HasLeft
<1>2. query.phase = {p} /\ p \in Phase
  BY <1>1, HistoryAssumption
<1>3. Order[p] \in Nat
  BY <1>2 DEF Order, Phase
<1>4. runs[r].phase # p
  BY <1>1, <1>3
<1> QED
  BY <1>2, <1>4 DEF Matches

(* A page of the runs after a part of the cursor is received.              *)
LEMMA ReceiveKeeps ==
  ASSUME HistoryInv, NEW bound \in SUBSET reader.cursor, NEW lost \in SUBSET reader.cursor,
         reader.stage # "done",
         Receive(PostgresPage(reader.query, bound), lost),
         \A r \in lost : HasLeft(r, reader.query),
         reader.cursor \subseteq bound \cup reader.lost \cup lost,
         TypeOK'
  PROVE  HistoryInv' /\ Advances
<1> DEFINE query == reader.query
           cursor == reader.cursor
           S == {r \in Matching(query) : AfterBound(r, bound)}
           page == PostgresPage(query, bound)
           found == RunsOf(page)
<1>1. /\ HistoryTypeOK /\ TypeOK /\ reader \in Reader /\ query \in Queries /\ cursor \in Cursors
      /\ ShownInv /\ ExpectedInv /\ NoRunTwice /\ LeftInv
  BY DEF HistoryInv, HistoryTypeOK, Reader
<1>2. /\ Listable(S) /\ \A m, n \in query.limit : n \in Nat /\ n > 0 /\ m = n
  <2>1. S \in SUBSET DOMAIN runs
    BY DEF Matching
  <2> QED
    BY <1>1, <2>1, RunsAreListable, HistoryAssumption
<1>3. /\ found \subseteq S
      /\ page = <<>> => S = {}
      /\ page # <<>> =>
           /\ Last(page) \in found
           /\ \A r \in found : r = Last(page) \/ Newer(r, Last(page))
           /\ \A r \in S \ found : Newer(Last(page), r)
  <2>1. page = FirstOf(NewestFirst(S), query.limit)
    BY DEF PostgresPage
  <2> HIDE DEF page, S
  <2> QED
    BY <1>2, <2>1, PageOfList
<1> HIDE DEF page
<1>4. /\ reader' = [reader EXCEPT
             !.stage = IF page = <<>> THEN "done" ELSE "asking",
             !.cursor = IF page = <<>> THEN cursor ELSE {Last(page)},
             !.bound = {},
             !.shown = reader.shown \cup found,
             !.repeated = reader.repeated \/ found \cap reader.shown # {},
             !.lost = reader.lost \cup lost]
      /\ expected' = IF cursor = {} THEN Matching(query) ELSE expected
      /\ runs' = runs /\ createdAt' = createdAt
  BY DEF Receive, page
<1>5. S \subseteq Matching(query) /\ Matching(query) \subseteq DOMAIN runs
      /\ DOMAIN runs \subseteq Identifiers
      /\ \A r \in Matching(query) : InScope(r, query)
  BY <1>1 DEF Matching, Matches, InScope, TypeOK
<1> HIDE DEF found
<1>6. /\ reader'.store = reader.store /\ reader'.query = query
      /\ reader'.stage = (IF page = <<>> THEN "done" ELSE "asking")
      /\ reader'.cursor = (IF page = <<>> THEN cursor ELSE {Last(page)})
      /\ reader'.bound = {}
      /\ reader'.shown = reader.shown \cup found
      /\ reader'.repeated = (reader.repeated \/ found \cap reader.shown # {})
      /\ reader'.lost = reader.lost \cup lost
  BY <1>1, <1>4 DEF Reader
<1>7. reader' \in Reader
  <2>1. reader'.cursor \in Cursors /\ {} \in Cursors
    BY <1>1, <1>3, <1>5, <1>6 DEF Cursors
  <2>2. reader'.shown \in SUBSET Identifiers
    BY <1>1, <1>3, <1>5, <1>6 DEF Reader
  <2>3. reader'.lost \in SUBSET Identifiers
    BY <1>1, <1>6 DEF Reader, Cursors
  <2> QED
    BY <1>1, <1>4, <1>6, <2>1, <2>2, <2>3 DEF Reader
<1>8. HistoryTypeOK'
  BY <1>1, <1>4, <1>7 DEF HistoryTypeOK
<1>9. \A c, r : Newer(c, r)' <=> Newer(c, r)
  BY <1>4 DEF Newer
<1>10. \A q : Matching(q)' = Matching(q)
  BY <1>4 DEF Matching, Matches
<1>11. /\ cursor = {} => bound = {}
       /\ bound = {} => S = Matching(query)
       /\ \A c \in bound : \A r \in S : Newer(c, r)
  BY <1>2 DEF AfterBound, Newer, Listable
<1>12. \A a, b \in cursor : a = b
  BY <1>1 DEF Cursors
<1>13. reader'.repeated => reader'.lost # {}
  <2> SUFFICES ASSUME reader.lost = {}, lost = {}, found \cap reader.shown # {}
               PROVE  FALSE
    BY <1>1, <1>6 DEF NoRunTwice
  <2>1. PICK r \in found : r \in reader.shown
    OBVIOUS
  <2>2. PICK c \in cursor : TRUE
    BY <1>1, <2>1 DEF ShownInv
  <2>3. bound = cursor /\ Newer(c, r) /\ (r = c \/ Newer(r, c))
    BY <1>1, <1>3, <1>11, <2>1, <2>2 DEF ShownInv
  <2>4. c \in DOMAIN runs /\ r \in DOMAIN runs /\ Listable(DOMAIN runs)
    BY <1>1, <2>1, <2>2, RunsAreListable DEF ShownInv
  <2> QED
    BY <2>3, <2>4, NewerIsAnOrder
<1>14. NoRunTwice'
  <2>1. lost # {} => query.phase # {}
    BY <1>1, LeftDoesNotMatch
  <2> QED
    BY <1>1, <1>6, <1>13, <2>1 DEF NoRunTwice
<1>15. ShownInv'
  <2>1. reader'.cursor \subseteq reader'.shown /\ reader'.shown \subseteq DOMAIN runs'
    BY <1>1, <1>3, <1>4, <1>5, <1>6 DEF ShownInv
  <2>2. reader'.cursor = {} => reader'.shown = {} /\ expected' = {}
    BY <1>1, <1>3, <1>4, <1>6, <1>11 DEF ShownInv
  <2>3. \A r \in reader'.shown : InScope(r, reader'.query)
    BY <1>1, <1>3, <1>5, <1>6 DEF ShownInv
  <2>4. reader'.lost # {} \/ \A c \in reader'.cursor, r \in reader'.shown : r = c \/ Newer(r, c)
    <3> SUFFICES ASSUME reader.lost = {}, lost = {},
                        NEW c \in reader'.cursor, NEW r \in reader'.shown
                 PROVE  r = c \/ Newer(r, c)
      BY <1>6
    <3>1. CASE page = <<>>
      <4>1. found = {} /\ c \in cursor /\ r \in reader.shown
        BY <1>3, <1>6, <3>1
      <4> QED
        BY <1>1, <4>1 DEF ShownInv
    <3>2. CASE page # <<>>
      <4>1. c = Last(page)
        BY <1>6, <3>2
      <4>2. CASE r \in found
        BY <1>3, <3>2, <4>1, <4>2
      <4>3. CASE r \in reader.shown
        <5>1. PICK b \in cursor : TRUE
          BY <1>1, <4>3 DEF ShownInv
        <5>2. bound = cursor /\ Newer(b, c) /\ (r = b \/ Newer(r, b))
          BY <1>1, <1>3, <1>11, <3>2, <4>1, <4>3, <5>1 DEF ShownInv
        <5>3. /\ c \in DOMAIN runs /\ b \in DOMAIN runs /\ r \in DOMAIN runs
              /\ Listable(DOMAIN runs)
          BY <1>1, <1>3, <1>5, <3>2, <4>1, <4>3, <5>1, RunsAreListable DEF ShownInv
        <5> QED
          BY <5>2, <5>3, NewerIsAnOrder
      <4> QED
        BY <1>6, <4>2, <4>3
    <3> QED
      BY <3>1, <3>2
  <2>5. reader'.stage # "selecting"
    BY <1>6
  <2> QED
    BY <1>9, <2>1, <2>2, <2>3, <2>4, <2>5 DEF ShownInv, InScope
<1>16. ASSUME NEW r \in expected' \ reader'.shown
       PROVE  r \in S \ found
  <2>1. r \in Matching(query) /\ r \notin found /\ r \notin reader.shown
    BY <1>1, <1>4, <1>6 DEF ExpectedInv
  <2>2. CASE bound = {}
    BY <1>11, <2>1, <2>2
  <2>3. CASE bound # {}
    <3>1. cursor # {} /\ \A c \in bound : Newer(c, r)
      BY <1>1, <1>4, <2>1, <2>3 DEF ExpectedInv
    <3>2. AfterBound(r, bound)
      BY <3>1 DEF AfterBound, Newer
    <3> QED
      BY <2>1, <3>2
  <2> QED
    BY <2>2, <2>3
<1>17. ExpectedInv'
  <2>1. expected' \subseteq Matching(query)
    BY <1>1, <1>4 DEF ExpectedInv
  <2>2. ASSUME NEW r \in expected' \ reader'.shown, NEW c \in reader'.cursor
        PROVE  Newer(c, r)
    <3>1. page # <<>> /\ r \in S \ found
      BY <1>3, <1>16
    <3> QED
      BY <1>3, <1>6, <3>1
  <2>3. Matching(reader.query)' = Matching(query)
    BY <1>6, <1>10
  <2> QED
    BY <1>9, <2>1, <2>2, <2>3 DEF ExpectedInv
<1>18. NothingMissed'
  BY <1>3, <1>6, <1>16 DEF NothingMissed
<1>19. \A r : /\ Matches(r, reader.query)' <=> Matches(r, query)
              /\ HasLeft(r, reader.query)' <=> HasLeft(r, query)
  BY <1>4, <1>6 DEF Matches, HasLeft
<1>20. LeftInv'
  <2>1. \A r \in reader'.shown : Matches(r, query) \/ HasLeft(r, query)
    BY <1>1, <1>3, <1>5, <1>6 DEF LeftInv, Matching
  <2>2. \A r \in reader'.lost : r \in reader'.shown /\ HasLeft(r, query)
    BY <1>1, <1>6 DEF LeftInv, ShownInv
  <2> QED
    BY <1>19, <2>1, <2>2 DEF LeftInv
<1>21. Advances
  <2> SUFFICES ASSUME reader'.stage = "asking",
                      NEW c \in cursor, NEW next \in reader'.cursor, ~Newer(c, next)
               PROVE  c \in reader'.lost /\ next \notin reader'.lost
    BY DEF Advances
  <2>1. page # <<>> /\ next \in found
    BY <1>3, <1>6
  <2>2. next \in S /\ Matches(next, query)
    BY <1>3, <1>5, <2>1 DEF Matching
  <2>3. c \notin bound
    BY <1>11, <2>2
  <2>4. c \in reader'.lost
    BY <1>6, <2>3
  <2>5. next \notin reader'.lost
    BY <1>1, <1>6, <2>2, LeftDoesNotMatch DEF LeftInv
  <2> QED
    BY <2>4, <2>5
<1> QED
  BY <1>8, <1>14, <1>15, <1>17, <1>18, <1>20, <1>21 DEF HistoryInv

(* A cursor is ignored because its run has left the status for good.       *)
LEMMA LostHasLeft ==
  ASSUME HistoryInv
  PROVE  \A r \in LostCursor : HasLeft(r, reader.query)
<1> SUFFICES ASSUME NEW r \in LostCursor PROVE HasLeft(r, reader.query)
  OBVIOUS
<1>1. r \in reader.cursor /\ r \notin Matching(reader.query)
  BY DEF LostCursor, Bound
<1>2. r \in reader.shown /\ r \in DOMAIN runs
  BY <1>1 DEF HistoryInv, ShownInv
<1> QED
  BY <1>1, <1>2 DEF HistoryInv, LeftInv, Matching

LEMMA ReadKeeps ==
  ASSUME HistoryInv, ReadHistory, TypeOK'
  PROVE  HistoryInv' /\ Advances
<1>1. /\ reader \in Reader /\ reader.query \in Queries /\ reader.cursor \in Cursors
      /\ HistoryTypeOK
  BY DEF HistoryInv, HistoryTypeOK, Reader
<1> DEFINE query == reader.query
           cursor == reader.cursor
           bound == Bound(query, cursor)
<1>2. bound \in SUBSET cursor /\ bound \in Cursors
  BY <1>1 DEF Bound, Cursors
<1>3. LostCursor \in SUBSET cursor /\ cursor \subseteq bound \cup LostCursor
  BY DEF LostCursor
<1>4. \A r \in LostCursor : HasLeft(r, query)
  BY LostHasLeft
<1> HIDE DEF bound
<1>5. CASE ReadMemory
  <2>1. reader.stage # "done" /\ Receive(MemoryPage(query, cursor), LostCursor)
    BY <1>5 DEF ReadMemory
  <2>2. MemoryPage(query, cursor) = PostgresPage(query, bound)
    BY <1>1, PagesAgree DEF bound
  <2>3. Receive(PostgresPage(query, bound), LostCursor)
    BY <2>1, <2>2
  <2>4. cursor \subseteq bound \cup reader.lost \cup LostCursor
    BY <1>3
  <2> HIDE DEF query, cursor
  <2> QED
    BY <1>2, <1>3, <1>4, <2>1, <2>3, <2>4, ReceiveKeeps DEF query, cursor
<1>6. CASE SelectPage
  <2>1. reader.stage = "selecting" /\ Receive(PostgresPage(query, reader.bound), {})
    BY <1>6 DEF SelectPage
  <2>2. /\ reader.bound \in SUBSET cursor
        /\ cursor \subseteq reader.bound \cup reader.lost
    BY <2>1 DEF HistoryInv, ShownInv
  <2>3. /\ {} \in SUBSET cursor /\ \A r \in {} : HasLeft(r, query)
        /\ cursor \subseteq reader.bound \cup reader.lost \cup {}
    BY <2>2
  <2> QED
    BY <2>1, <2>2, <2>3, ReceiveKeeps
<1>7. CASE ReadCursor
  <2>1. /\ reader.stage = "asking" /\ UNCHANGED <<runs, createdAt, expected>>
        /\ reader' = [reader EXCEPT !.stage = "selecting", !.bound = bound,
                                    !.lost = reader.lost \cup LostCursor]
    BY <1>7 DEF ReadCursor, bound
  <2>2. reader.lost \cup LostCursor \in SUBSET Identifiers
    BY <1>1, <1>3 DEF Reader, Cursors
  <2>3. /\ reader' \in Reader /\ reader'.query = query /\ reader'.cursor = cursor
        /\ reader'.stage = "selecting" /\ reader'.bound = bound
        /\ reader'.shown = reader.shown /\ reader'.repeated = reader.repeated
        /\ reader'.lost = reader.lost \cup LostCursor
    BY <1>1, <1>2, <2>1, <2>2 DEF Reader
  <2>4. \A c, r : Newer(c, r)' <=> Newer(c, r)
    BY <2>1 DEF Newer
  <2>5. Matching(reader.query)' = Matching(query)
    BY <2>1, <2>3 DEF Matching, Matches
  <2>6. \A r : /\ Matches(r, reader.query)' <=> Matches(r, query)
               /\ HasLeft(r, reader.query)' <=> HasLeft(r, query)
    BY <2>1, <2>3 DEF Matches, HasLeft
  <2>7. HistoryTypeOK'
    BY <1>1, <2>1, <2>3 DEF HistoryTypeOK
  <2>8. ShownInv'
    <3>1. cursor \subseteq bound \cup (reader.lost \cup LostCursor)
      BY <1>3
    <3>2. ShownInv
      BY DEF HistoryInv
    <3> QED
      BY <1>2, <2>1, <2>3, <2>4, <3>1, <3>2 DEF ShownInv, InScope
  <2>9. ExpectedInv'
    BY <2>1, <2>3, <2>4, <2>5 DEF HistoryInv, ExpectedInv
  <2>10. LeftInv'
    <3>1. LostCursor \subseteq reader.shown
      BY <1>3 DEF HistoryInv, ShownInv
    <3>2. LeftInv
      BY DEF HistoryInv
    <3> QED
      BY <1>4, <2>3, <2>6, <3>1, <3>2 DEF LeftInv
  <2>11. NoRunTwice' /\ NothingMissed'
    <3>1. LostCursor # {} => query.phase # {}
      BY <1>1, <1>4, LeftDoesNotMatch
    <3>2. NoRunTwice
      BY DEF HistoryInv
    <3> QED
      BY <2>3, <3>1, <3>2 DEF NoRunTwice, NothingMissed
  <2>12. Advances
    BY <2>3 DEF Advances
  <2> QED
    BY <2>7, <2>8, <2>9, <2>10, <2>11, <2>12 DEF HistoryInv
<1> QED
  BY <1>5, <1>6, <1>7 DEF ReadHistory

GoesOn(old, new) == new = old \/ Order[old] < Order[new]

(* A run that has left the status does not come back, and one that matches *)
(* leaves it for good.                                                     *)
LEMMA LeftStays ==
  ASSUME HistoryTypeOK, TypeOK', NEW query \in Queries,
         NEW r \in DOMAIN runs, r \in DOMAIN runs', GoesOn(runs[r].phase, runs'[r].phase)
  PROVE  /\ HasLeft(r, query) => HasLeft(r, query)'
         /\ Matches(r, query) => Matches(r, query)' \/ HasLeft(r, query)'
<1>1. runs[r].phase \in Phase /\ runs'[r].phase \in Phase
  BY DEF HistoryTypeOK, TypeOK, Run
<1>2. \A p \in Phase : Order[p] \in Nat
  BY DEF Order, Phase
<1>3. \A p \in query.phase : p \in Phase /\ query.phase = {p}
  BY HistoryAssumption
<1>4. PICK new : new = runs'[r].phase
  OBVIOUS
<1>5. ASSUME HasLeft(r, query) PROVE HasLeft(r, query)'
  <2>1. PICK p \in query.phase : Order[p] < Order[runs[r].phase]
    BY <1>5 DEF HasLeft
  <2>2. Order[p] < Order[new]
    BY <1>1, <1>2, <1>3, <1>4, <2>1 DEF GoesOn
  <2> QED
    BY <1>4, <2>2 DEF HasLeft
<1>6. ASSUME Matches(r, query) PROVE Matches(r, query)' \/ HasLeft(r, query)'
  <2>1. CASE new = runs[r].phase \/ query.phase = {}
    BY <1>4, <1>6, <2>1 DEF Matches
  <2>2. CASE new # runs[r].phase /\ query.phase # {}
    <3>1. Order[runs[r].phase] < Order[new] /\ runs[r].phase \in query.phase
      BY <1>4, <1>6, <2>2 DEF GoesOn, Matches
    <3> QED
      BY <1>4, <3>1 DEF HasLeft
  <2> QED
    BY <2>1, <2>2
<1> QED
  BY <1>5, <1>6

(* Runs are created and settled between the pages: none moves in the list. *)
LEMMA AuditKeeps ==
  ASSUME HistoryInv, TypeOK', UNCHANGED reader,
         DOMAIN runs \subseteq DOMAIN runs', IsFiniteSet(DOMAIN runs'),
         createdAt' \in [DOMAIN runs' -> Times],
         \A r \in DOMAIN runs : createdAt'[r] = createdAt[r],
         \A r \in DOMAIN runs : GoesOn(runs[r].phase, runs'[r].phase),
         expected' \subseteq expected, expected' \subseteq Matching(reader.query)'
  PROVE  HistoryInv'
<1>1. \A c, r \in DOMAIN runs : Newer(c, r)' <=> Newer(c, r)
  BY DEF Newer
<1>2. reader.shown \subseteq DOMAIN runs /\ reader.cursor \subseteq DOMAIN runs
      /\ expected \subseteq DOMAIN runs
  BY DEF HistoryInv, ShownInv, ExpectedInv, Matching
<1>3. HistoryTypeOK'
  BY DEF HistoryInv, HistoryTypeOK
<1>4. ShownInv'
  <2>1. ShownInv
    BY DEF HistoryInv
  <2>2. \A r : InScope(r, reader.query)' <=> InScope(r, reader.query)
    BY DEF InScope
  <2>3. expected = {} => expected' = {}
    OBVIOUS
  <2> QED
    BY <1>1, <1>2, <2>1, <2>2, <2>3 DEF ShownInv
<1>5. ExpectedInv'
  BY <1>1, <1>2 DEF HistoryInv, ExpectedInv
<1>6. NoRunTwice' /\ NothingMissed'
  BY DEF HistoryInv, NoRunTwice, NothingMissed
<1>7. LeftInv'
  <2>1. HistoryTypeOK /\ LeftInv /\ reader.query \in Queries
    BY DEF HistoryInv, HistoryTypeOK, Reader
  <2>2. PICK query : query = reader.query /\ query = reader'.query
    OBVIOUS
  <2>3. \A r \in reader.shown :
          /\ HasLeft(r, query) => HasLeft(r, query)'
          /\ Matches(r, query) => Matches(r, query)' \/ HasLeft(r, query)'
    BY <1>2, <2>1, <2>2, LeftStays
  <2>4. \A r : /\ Matches(r, query)' <=> Matches(r, reader.query)'
               /\ HasLeft(r, query)' <=> HasLeft(r, reader.query)'
    BY <2>2 DEF Matches, HasLeft
  <2> QED
    BY <2>1, <2>2, <2>3, <2>4 DEF LeftInv
<1> QED
  BY <1>3, <1>4, <1>5, <1>6, <1>7 DEF HistoryInv

LEMMA CreateKeeps ==
  ASSUME HistoryInv, TypeOK', NEW id \in Identifiers,
         NEW claim \in {{}} \cup {{k} : k \in Claims}, NEW time \in Times,
         CreateRun(id, claim, time)
  PROVE  HistoryInv'
<1>1. /\ id \notin DOMAIN runs /\ DOMAIN runs' = DOMAIN runs \cup {id}
      /\ \A r \in DOMAIN runs : runs'[r] = runs[r]
      /\ createdAt' = [r \in DOMAIN runs' |-> IF r = id THEN time ELSE createdAt[r]]
      /\ UNCHANGED <<reader, expected>>
  BY DEF CreateRun, Claim
<1>2. HistoryTypeOK /\ expected \subseteq Matching(reader.query)
  BY DEF HistoryInv, ExpectedInv
<1>3. IsFiniteSet(DOMAIN runs')
  BY <1>1, <1>2, FS_AddElement DEF HistoryTypeOK
<1>4. createdAt' \in [DOMAIN runs' -> Times]
      /\ \A r \in DOMAIN runs : createdAt'[r] = createdAt[r]
  BY <1>1, <1>2 DEF HistoryTypeOK
<1>5. expected' \subseteq Matching(reader.query)'
  BY <1>1, <1>2 DEF Matching, Matches
<1>6. \A r \in DOMAIN runs : GoesOn(runs[r].phase, runs'[r].phase)
  BY <1>1 DEF GoesOn
<1> QED
  BY <1>1, <1>3, <1>4, <1>5, <1>6, AuditKeeps

LEMMA SettleKeeps ==
  ASSUME HistoryInv, TypeOK', NEW id \in Identifiers, Settle(id)
  PROVE  HistoryInv'
<1>1. DOMAIN runs' = DOMAIN runs
  BY DEF Settle, Complete, Fail, StartUndo, Undo, RefuseUndo
<1>2. /\ UNCHANGED <<createdAt, reader>>
      /\ expected' = {r \in expected : Matches(r, reader.query)'}
  BY DEF Settle
<1>3. HistoryTypeOK /\ expected \subseteq DOMAIN runs
  BY DEF HistoryInv, ExpectedInv, Matching
<1>4. expected' \subseteq Matching(reader.query)'
  BY <1>1, <1>2, <1>3 DEF Matching
<1>5. \A r \in DOMAIN runs : GoesOn(runs[r].phase, runs'[r].phase)
  BY <1>3 DEF HistoryTypeOK, TypeOK, Run, GoesOn, Order,
              Settle, Complete, Fail, StartUndo, Undo, RefuseUndo
<1> QED
  BY <1>1, <1>2, <1>3, <1>4, <1>5, AuditKeeps DEF HistoryTypeOK

LEMMA HistoryIsInvariant == HistorySpec => []HistoryInv
<1>1. HistoryInit => HistoryInv
  <2> SUFFICES ASSUME HistoryInit PROVE HistoryInv
    OBVIOUS
  <2>1. /\ DOMAIN runs = {} /\ createdAt = [r \in {} |-> r] /\ expected = {}
        /\ reader \in Reader /\ reader.cursor = {} /\ reader.shown = {}
        /\ reader.stage = "asking" /\ ~reader.repeated /\ reader.lost = {}
    BY DEF HistoryInit, Init, Reader, Cursors
  <2>2. HistoryTypeOK
    BY <2>1, FS_EmptySet DEF HistoryTypeOK, TypeOK, HistoryInit, Init
  <2>3. ShownInv /\ ExpectedInv /\ LeftInv
    BY <2>1 DEF ShownInv, ExpectedInv, LeftInv
  <2> QED
    BY <2>1, <2>2, <2>3 DEF HistoryInv, NoRunTwice, NothingMissed
<1>2. HistoryInv /\ [HistoryNext]_historyVars /\ TypeOK' => HistoryInv'
  <2> SUFFICES ASSUME HistoryInv, [HistoryNext]_historyVars, TypeOK' PROVE HistoryInv'
    OBVIOUS
  <2>1. CASE UNCHANGED historyVars
    <3>1. UNCHANGED <<runs, createdAt, reader, expected>>
      BY <2>1 DEF historyVars
    <3>2. Matching(reader.query)' = Matching(reader.query)
      BY <3>1 DEF Matching, Matches
    <3>3. HistoryTypeOK /\ ExpectedInv
      BY DEF HistoryInv
    <3>4. \A r \in DOMAIN runs : GoesOn(runs[r].phase, runs'[r].phase)
      BY <3>1 DEF GoesOn
    <3> QED
      BY <3>1, <3>2, <3>3, <3>4, AuditKeeps DEF HistoryTypeOK, ExpectedInv
  <2> QED
    BY <2>1, CreateKeeps, SettleKeeps, ReadKeeps DEF HistoryNext
<1>3. HistorySpec => []TypeOK
  BY HistoryRefines, TypeCorrect, PTL
<1> QED
  BY <1>1, <1>2, <1>3, PTL DEF HistorySpec

(* One client code runs over either store, for any filters, cursor, limit  *)
(* and times: cutting the sorted list at the cursor and selecting by time  *)
(* and identifier give the same page.                                      *)
THEOREM StoresGiveTheSamePages == HistorySpec => []StoresAgree
<1>1. HistoryInv => StoresAgree
  BY PagesAgree DEF HistoryInv, StoresAgree, Cursors
<1> QED
  BY <1>1, HistoryIsInvariant, PTL

(* No client is shown a run twice unless it filters by status and its      *)
(* cursor has left that status.                                            *)
THEOREM NoRunIsShownTwice == HistorySpec => []NoRunTwice
<1>1. HistoryInv => NoRunTwice
  BY DEF HistoryInv
<1> QED
  BY <1>1, HistoryIsInvariant, PTL

(* A client that reached the end was shown every run that matched from its *)
(* first page on, also when a cursor was ignored in between.               *)
THEOREM NothingIsMissed == HistorySpec => []NothingMissed
<1>1. HistoryInv => NothingMissed
  BY DEF HistoryInv
<1> QED
  BY <1>1, HistoryIsInvariant, PTL
(* Every page leads a client on, unless its cursor has left the status it  *)
(* asks for; and no run sends it back a second time.                       *)
THEOREM PagesLeadOn == HistorySpec => PagingGoesOn
<1>1. HistoryInv /\ [HistoryNext]_historyVars /\ TypeOK' => [Advances]_historyVars
  <2> SUFFICES ASSUME HistoryInv, HistoryNext, TypeOK' PROVE Advances
    OBVIOUS
  <2>1. CASE ReadHistory
    BY <2>1, ReadKeeps
  <2>2. CASE ~ReadHistory
    <3>1. UNCHANGED reader
      BY <2>2 DEF HistoryNext, CreateRun, Settle
    <3> QED
      BY <3>1 DEF Advances
  <2> QED
    BY <2>1, <2>2
<1>2. HistorySpec => []TypeOK
  BY HistoryRefines, TypeCorrect, PTL
<1>3. HistorySpec => [][Advances]_historyVars
  BY <1>1, <1>2, HistoryIsInvariant, PTL DEF HistorySpec
<1> QED
  BY <1>3 DEF PagingGoesOn, Advances
=============================================================================
