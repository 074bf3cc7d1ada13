--------------------------- MODULE DailyDataProofs --------------------------
(***************************************************************************)
(* Theorems about the writers of prices: the history backfill              *)
(* (HistoryBackfill), the batches of a day (DailyBatch) and the refreshes  *)
(* of adjusted prices (QfqRefresh), and about the issues they raise        *)
(* (QualityIssues), for any number of symbols, workers, attempts and       *)
(* commands: no symbol is lost, what a job, a batch or a run reports at    *)
(* its end is true, only validated prices are stored, and an issue is      *)
(* decided once.                                                           *)
(*                                                                         *)
(* A checkpoint is sound when its counts add up to the frozen universe and *)
(* its failures are symbols before its cursor.  Every worker carries a     *)
(* sound one, also one that lost its lease, and what it counts as done is  *)
(* stored: so the row is sound whoever reports last.  A result that counts *)
(* is that of a whole run, because a worker that stopped at a safe point   *)
(* has lost its lease by then.                                             *)
(*                                                                         *)
(* A handler about to activate adjusted prices carries a window that       *)
(* passed the validation and the gate of its own run, whatever the other   *)
(* handlers did since; and a run that has ended lets none of them end it   *)
(* again.  Who holds the row of an issue is alone, and what he is about to *)
(* commit is what he read, changed as he was asked.                        *)
(***************************************************************************)
EXTENDS MCDailyData, FiniteSetTheorems, SequenceTheorems, TLAPS

-----------------------------------------------------------------------------
(* Lists of different symbols.                                              *)

LEMMA FrozenList ==
  /\ Frozen \in Lists /\ Frozen # <<>> /\ Len(Frozen) \in Nat
  /\ Frozen \in Seq(All)
<1>1. Frozen \in Seq(All) /\ Frozen # <<>>
  BY HistoryBackfillAssumption DEF All, Elements
<1>2. Len(Frozen) \in Nat /\ Frozen \in [1 .. Len(Frozen) -> All] /\ Len(Frozen) \in 0 .. Len(Frozen)
  BY <1>1
<1>3. \A k, m \in 1 .. Len(Frozen) : Frozen[k] = Frozen[m] => k = m
  BY HistoryBackfillAssumption
<1> QED BY <1>1, <1>2, <1>3 DEF Lists

LEMMA ListParts ==
  ASSUME NEW s \in Lists
  PROVE  /\ s \in Seq(All) /\ Len(s) \in Count /\ Len(s) \in Nat
         /\ s \in [1 .. Len(s) -> All] /\ DOMAIN s = 1 .. Len(s)
         /\ \A k, m \in 1 .. Len(s) : s[k] = s[m] => k = m
         /\ Elements(s) \subseteq All
         /\ Elements(s) = {s[n] : n \in 1 .. Len(s)}
<1>1. PICK n \in 0 .. Len(Frozen) :
        s \in [1 .. n -> All] /\ \A k, m \in 1 .. n : s[k] = s[m] => k = m
  BY DEF Lists
<1>2. n \in Nat
  BY <1>1, FrozenList
<1>3. s \in Seq(All) /\ Len(s) = n
  BY <1>1, <1>2
<1> QED BY <1>1, <1>2, <1>3 DEF Count, Elements

LEMMA ListIntro ==
  ASSUME NEW s \in Seq(All), Len(s) <= Len(Frozen),
         \A k, m \in 1 .. Len(s) : s[k] = s[m] => k = m
  PROVE  s \in Lists
<1>1. Len(s) \in 0 .. Len(Frozen) /\ s \in [1 .. Len(s) -> All]
  BY FrozenList
<1> QED BY <1>1 DEF Lists

LEMMA EmptyList == <<>> \in Lists
<1>1. <<>> \in Seq(All) /\ Len(<<>>) = 0 /\ Len(Frozen) \in Nat /\ 1 .. 0 = {}
  BY FrozenList
<1>2. Len(<<>>) <= Len(Frozen) /\ 1 .. Len(<<>>) = {}
  BY <1>1
<1>3. \A k, m \in 1 .. Len(<<>>) : <<>>[k] = <<>>[m] => k = m
  BY <1>2
<1> QED BY <1>1, <1>2, <1>3, ListIntro

\* An interval of a list has as many elements as positions.
LEMMA CountPart ==
  ASSUME NEW s \in Lists, NEW a \in 1 .. Len(s) + 1, NEW b \in 0 .. Len(s), a <= b + 1
  PROVE  /\ IsFiniteSet({s[n] : n \in a .. b})
         /\ Cardinality({s[n] : n \in a .. b}) = b - a + 1
<1> DEFINE T == {s[n] : n \in a .. b}
           f == [n \in a .. b |-> s[n]]
<1>1. a \in Int /\ b \in Int /\ a .. b \subseteq 1 .. Len(s)
  BY ListParts
<1>2. IsFiniteSet(a .. b) /\ Cardinality(a .. b) = b - a + 1
  <2>1. IsFiniteSet(a .. b) /\ Cardinality(a .. b) = IF a > b THEN 0 ELSE b - a + 1
    BY <1>1, FS_Interval
  <2> QED BY <1>1, <2>1
<1>3. f \in Bijection(a .. b, T)
  <2>1. f \in [a .. b -> T]
    OBVIOUS
  <2>2. \A k, m \in a .. b : f[k] = f[m] => k = m
    BY <1>1, ListParts
  <2>3. \A t \in T : \E k \in a .. b : f[k] = t
    OBVIOUS
  <2> QED BY <2>1, <2>2, <2>3 DEF Bijection, Injection, Surjection, IsInjective
<1>4. ExistsBijection(a .. b, T)
  BY <1>3 DEF ExistsBijection
<1> QED BY <1>2, <1>4, FS_Bijection

LEMMA CountList ==
  ASSUME NEW s \in Lists
  PROVE  IsFiniteSet(Elements(s)) /\ Cardinality(Elements(s)) = Len(s)
<1>1. Len(s) \in Nat /\ Elements(s) = {s[n] : n \in 1 .. Len(s)}
  BY ListParts
<1> DEFINE n == Len(s)
<1>2. n \in Nat /\ 1 \in 1 .. n + 1 /\ n \in 0 .. n /\ 1 <= n + 1 /\ n - 1 + 1 = n
  BY <1>1
<1>3. IsFiniteSet({s[k] : k \in 1 .. n}) /\ Cardinality({s[k] : k \in 1 .. n}) = n - 1 + 1
  BY <1>2, CountPart
<1> QED BY <1>1, <1>2, <1>3

\* The elements of a part of a list.
LEMMA PartElements ==
  ASSUME NEW s \in Lists, NEW a \in 1 .. Len(s) + 1, NEW b \in 0 .. Len(s), a <= b + 1
  PROVE  /\ Elements(SubSeq(s, a, b)) = {s[n] : n \in a .. b}
         /\ Len(SubSeq(s, a, b)) = b - a + 1
         /\ Elements(SubSeq(s, a, b)) \subseteq Elements(s)
<1>1. s \in Seq(All) /\ Len(s) \in Nat /\ a \in Nat \ {0} /\ b \in Nat
      /\ Elements(s) = {s[n] : n \in 1 .. Len(s)} /\ a .. b \subseteq 1 .. Len(s)
  BY ListParts
<1> DEFINE q == SubSeq(s, a, b)
<1>2. q \in Seq(All) /\ Len(q) = b - a + 1 /\ \A i \in 1 .. b - a + 1 : q[i] = s[a + i - 1]
  <2>1. Len(q) = IF a <= b THEN b - a + 1 ELSE 0
    BY <1>1, SubSeqProperties
  <2> QED BY <1>1, <2>1, SubSeqProperties
<1> HIDE DEF q
<1>3. DOMAIN q = 1 .. b - a + 1
  BY <1>2
<1>4. \A n \in a .. b : n - a + 1 \in 1 .. b - a + 1 /\ a + (n - a + 1) - 1 = n
  BY <1>1
<1>5. \A i \in 1 .. b - a + 1 : a + i - 1 \in a .. b
  BY <1>1
<1>6. Elements(q) \subseteq {s[n] : n \in a .. b}
  BY <1>2, <1>3, <1>5 DEF Elements
<1>7. {s[n] : n \in a .. b} \subseteq Elements(q)
  <2> SUFFICES ASSUME NEW n \in a .. b PROVE s[n] \in Elements(q)
    OBVIOUS
  <2>1. q[n - a + 1] = s[n]
    BY <1>2, <1>4
  <2> QED BY <1>3, <1>4, <2>1 DEF Elements
<1> QED BY <1>1, <1>2, <1>6, <1>7 DEF q

-----------------------------------------------------------------------------
(* Checkpoints.                                                             *)

\* The counts add up to the frozen universe; what failed lies before the cursor.
Sound(c) ==
  /\ c \in Checkpoints
  /\ c.original_total = Len(Frozen)
  /\ c.base_succeeded + Len(Selected(c)) = Len(Frozen)
  /\ c.cursor <= Len(Selected(c))
  /\ c.succeeded + Len(c.failures) = c.cursor
  /\ \A s \in Elements(c.failures) : \E n \in 1 .. c.cursor : Selected(c)[n] = s

LEMMA SelectedList ==
  ASSUME NEW c \in Checkpoints
  PROVE  /\ Selected(c) \in Lists /\ Selected(c) # <<>> /\ c.failures \in Lists
         /\ c.cursor \in Nat /\ c.succeeded \in Nat /\ c.base_succeeded \in Nat
BY FrozenList DEF Checkpoints, Selected, Count

LEMMA RemainingPart ==
  ASSUME NEW c, Sound(c)
  PROVE  Remaining(c) = {Selected(c)[n] : n \in c.cursor + 1 .. Len(Selected(c))}
<1> DEFINE L == Selected(c)
<1>1. L \in Lists /\ Len(L) \in Nat /\ c.cursor \in Nat /\ c.cursor <= Len(L)
  BY SelectedList, ListParts DEF Sound
<1>2. c.cursor + 1 \in 1 .. Len(L) + 1 /\ Len(L) \in 0 .. Len(L) /\ c.cursor + 1 <= Len(L) + 1
  BY <1>1
<1> QED BY <1>1, <1>2, PartElements DEF Remaining

\* A sound checkpoint can be restored, and counts every symbol once.
LEMMA SoundCounts ==
  ASSUME NEW c, Sound(c)
  PROVE  /\ Restorable(c)
         /\ c.base_succeeded + c.succeeded = Cardinality(Done(c))
<1> DEFINE L == Selected(c)
           R == Remaining(c)
           F == Elements(c.failures)
<1>1. /\ L \in Lists /\ c.failures \in Lists /\ c \in Checkpoints
      /\ c.cursor \in Nat /\ c.succeeded \in Nat /\ c.base_succeeded \in Nat
      /\ Len(L) \in Nat /\ Len(c.failures) \in Nat /\ c.cursor <= Len(L)
      /\ c.base_succeeded + Len(L) = Len(Frozen) /\ Len(Frozen) \in Nat
      /\ c.succeeded + Len(c.failures) = c.cursor
  BY SelectedList, ListParts, FrozenList DEF Sound
<1>2. Restorable(c)
  <2>1. c.retry_items \in Lists
    BY <1>1 DEF Checkpoints
  <2> QED BY <1>1, <2>1, ListParts DEF Restorable, Sound
<1>3. R = {L[n] : n \in c.cursor + 1 .. Len(L)}
  BY RemainingPart
<1>4. IsFiniteSet(R) /\ Cardinality(R) = Len(L) - c.cursor
  <2> DEFINE k == c.cursor
             b == Len(L)
             a == k + 1
  <2>3. k \in Nat /\ b \in Nat /\ k <= b
    BY <1>1
  <2> HIDE DEF k, b, L
  <2>4. a \in 1 .. b + 1 /\ b \in 0 .. b /\ a <= b + 1 /\ b - a + 1 = b - k
    BY <2>3
  <2>1. a \in 1 .. Len(L) + 1 /\ b \in 0 .. Len(L) /\ a <= b + 1 /\ b - a + 1 = Len(L) - c.cursor
    BY <2>4 DEF b, k
  <2> HIDE DEF a
  <2>2. IsFiniteSet({L[n] : n \in a .. b}) /\ Cardinality({L[n] : n \in a .. b}) = b - a + 1
    BY <1>1, <2>1, CountPart
  <2> QED BY <1>3, <2>1, <2>2 DEF a, b, k
<1>5. IsFiniteSet(F) /\ Cardinality(F) = Len(c.failures) /\ F \subseteq All
  BY <1>1, CountList, ListParts
<1>6. R \subseteq All
  BY <1>1, <1>3, ListParts
<1>7. R \cap F = {}
  <2> SUFFICES ASSUME NEW s \in R, s \in F PROVE FALSE
    OBVIOUS
  <2>1. PICK n \in c.cursor + 1 .. Len(L) : s = L[n]
    BY <1>3
  <2>2. PICK m \in 1 .. c.cursor : L[m] = s
    BY DEF Sound
  <2>3. n \in 1 .. Len(L) /\ m \in 1 .. Len(L) /\ n # m
    BY <1>1
  <2> QED BY <1>1, <2>1, <2>2, <2>3, ListParts
<1>8. IsFiniteSet(R \cup F)
      /\ Cardinality(R \cup F) = Cardinality(R) + Cardinality(F)
  <2>1. Cardinality(R \cap F) = 0
    BY <1>7, FS_EmptySet
  <2>2. Cardinality(R \cup F) = Cardinality(R) + Cardinality(F) - Cardinality(R \cap F)
        /\ IsFiniteSet(R \cup F)
    BY <1>4, <1>5, FS_Union
  <2> QED BY <1>1, <1>4, <1>5, <2>1, <2>2
<1>9. IsFiniteSet(All) /\ Cardinality(All) = Len(Frozen)
  BY FrozenList, CountList DEF All
<1>10. Cardinality(Done(c)) = Cardinality(All) - Cardinality(R \cup F)
  <2>1. All \cap (R \cup F) = R \cup F
    BY <1>5, <1>6
  <2>2. Cardinality(All \ (R \cup F)) = Cardinality(All) - Cardinality(All \cap (R \cup F))
    BY <1>9, FS_Difference
  <2> QED BY <2>1, <2>2 DEF Done
<1>11. c.base_succeeded + c.succeeded = Cardinality(Done(c))
  <2> DEFINE n == Len(Frozen)
             l == Len(L)
             f == Len(c.failures)
  <2>1. n \in Nat /\ l \in Nat /\ f \in Nat /\ c.base_succeeded + l = n /\ c.succeeded + f = c.cursor
        /\ c.cursor \in Nat /\ c.succeeded \in Nat /\ c.base_succeeded \in Nat
    BY <1>1
  <2>2. Cardinality(Done(c)) = n - ((l - c.cursor) + f)
    BY <1>4, <1>5, <1>8, <1>9, <1>10
  <2> HIDE DEF n, l, f
  <2> QED BY <2>1, <2>2
<1> QED BY <1>2, <1>11

LEMMA ConcatList ==
  ASSUME NEW s \in Lists, NEW t \in Lists, Elements(s) \cap Elements(t) = {},
         Len(s) + Len(t) <= Len(Frozen)
  PROVE  s \o t \in Lists /\ Elements(s \o t) = Elements(s) \cup Elements(t)
<1> DEFINE q == s \o t
           m == Len(s)
           n == Len(t)
<1>1. /\ s \in Seq(All) /\ t \in Seq(All) /\ m \in Nat /\ n \in Nat
      /\ \A i, j \in 1 .. m : s[i] = s[j] => i = j
      /\ \A i, j \in 1 .. n : t[i] = t[j] => i = j
      /\ Elements(s) = {s[i] : i \in 1 .. m} /\ Elements(t) = {t[i] : i \in 1 .. n}
  BY ListParts
<1>2. q \in Seq(All) /\ Len(q) = m + n
      /\ \A i \in 1 .. m + n : q[i] = IF i <= m THEN s[i] ELSE t[i - m]
  BY <1>1, ConcatProperties
<1> HIDE DEF q, m, n
<1>3. \A i \in 1 .. m : i \in 1 .. m + n /\ q[i] = s[i]
  BY <1>1, <1>2
<1>4. \A i \in 1 .. m + n : i > m => i - m \in 1 .. n /\ q[i] = t[i - m]
  BY <1>1, <1>2
<1>5. \A i \in 1 .. n : i + m \in 1 .. m + n /\ q[i + m] = t[i]
  BY <1>1, <1>2
<1>6. \A i \in 1 .. m + n : i <= m => i \in 1 .. m
  BY <1>1
<1>7. ASSUME NEW i \in 1 .. m + n, NEW j \in 1 .. m + n, q[i] = q[j]
      PROVE  i = j
  <2>1. CASE i <= m /\ j <= m
    BY <1>1, <1>3, <1>6, <1>7, <2>1
  <2>2. CASE i > m /\ j > m
    <3>1. i - m = j - m
      BY <1>1, <1>4, <1>7, <2>2
    <3> QED BY <1>1, <3>1
  <2>3. CASE i <= m /\ j > m
    <3>1. q[i] \in Elements(s) /\ q[j] \in Elements(t)
      BY <1>1, <1>3, <1>4, <1>6, <2>3, SMTT(30)
    <3> QED BY <1>7, <3>1
  <2>4. CASE i > m /\ j <= m
    <3>1. q[j] \in Elements(s) /\ q[i] \in Elements(t)
      BY <1>1, <1>3, <1>4, <1>6, <2>4
    <3> QED BY <1>7, <3>1
  <2> QED BY <1>1, <2>1, <2>2, <2>3, <2>4
<1>8. q \in Lists
  <2>1. Len(q) <= Len(Frozen)
    BY <1>2 DEF m, n
  <2> QED BY <1>2, <1>7, <2>1, ListIntro
<1>9. Elements(q) = {q[i] : i \in 1 .. m + n}
  BY <1>2, <1>8, ListParts
<1>10. Elements(q) = Elements(s) \cup Elements(t)
  <2>1. Elements(q) \subseteq Elements(s) \cup Elements(t)
    BY <1>1, <1>3, <1>4, <1>6, <1>9
  <2>2. Elements(s) \subseteq Elements(q)
    BY <1>1, <1>3, <1>9
  <2>3. Elements(t) \subseteq Elements(q)
    <3> SUFFICES ASSUME NEW i \in 1 .. n PROVE t[i] \in Elements(q)
      BY <1>1
    <3> DEFINE j == i + m
    <3>1. j \in 1 .. m + n /\ q[j] = t[i]
      BY <1>5
    <3> HIDE DEF j
    <3> QED BY <1>9, <3>1
  <2> QED BY <2>1, <2>2, <2>3
<1> QED BY <1>8, <1>10 DEF q

LEMMA GroupPart ==
  ASSUME NEW c, Sound(c)
  PROVE  /\ GroupEnd(c) \in c.cursor .. Len(Selected(c))
         /\ Elements(Group(c)) = {Selected(c)[n] : n \in c.cursor + 1 .. GroupEnd(c)}
         /\ Len(Group(c)) = GroupEnd(c) - c.cursor
         /\ Cardinality(Elements(Group(c))) = GroupEnd(c) - c.cursor
         /\ IsFiniteSet(Elements(Group(c))) /\ Elements(Group(c)) \subseteq All
<1> DEFINE L == Selected(c)
           k == c.cursor
           e == GroupEnd(c)
           a == k + 1
           l == Len(L)
<1>1. L \in Lists /\ l \in Nat /\ k \in Nat /\ k <= l /\ Concurrency \in Nat \ {0}
  BY SelectedList, ListParts, HistoryBackfillAssumption DEF Sound
<1>2. e = IF k + Concurrency < l THEN k + Concurrency ELSE l
  BY DEF GroupEnd
<1>3. Group(c) = SubSeq(L, a, e)
  BY DEF Group
<1> HIDE DEF k, e, l, L
<1>4. e \in k .. l /\ e \in Nat /\ a \in 1 .. l + 1 /\ e \in 0 .. l /\ a <= e + 1 /\ e - a + 1 = e - k
  BY <1>1, <1>2
<1> HIDE DEF a
<1>5. /\ Elements(Group(c)) = {L[n] : n \in a .. e}
      /\ Len(Group(c)) = e - k
  BY <1>1, <1>3, <1>4, PartElements DEF l
<1>6. IsFiniteSet(Elements(Group(c))) /\ Cardinality(Elements(Group(c))) = e - k
  BY <1>1, <1>4, <1>5, CountPart DEF l
<1>7. Elements(Group(c)) \subseteq All
  BY <1>1, <1>3, <1>4, PartElements, ListParts DEF l
<1> QED BY <1>4, <1>5, <1>6, <1>7 DEF k, e, l, L, a

\* A group keeps a checkpoint sound; what it adds to the symbols that are done has
\* been stored.
LEMMA AdvanceSound ==
  ASSUME NEW c, Sound(c), NEW good \in SUBSET Elements(Group(c)),
         NEW bad \in Failing(Group(c), good)
  PROVE  Sound(Advanced(c, bad)) /\ Done(Advanced(c, bad)) \subseteq Done(c) \cup good
<1> DEFINE L == Selected(c)
           d == Advanced(c, bad)
           k == c.cursor
           e == GroupEnd(c)
           F == c.failures
           G == Elements(Group(c))
<1>1. /\ c \in Checkpoints /\ L \in Lists /\ F \in Lists /\ Len(L) \in Nat /\ Len(L) <= Len(Frozen)
      /\ Len(Frozen) \in Nat /\ k \in Nat /\ c.succeeded \in Nat /\ Len(F) \in Nat
      /\ c.succeeded + Len(F) = k /\ k <= Len(L) /\ Len(L) \in Count
  BY SelectedList, ListParts, FrozenList DEF Sound, Count
<1>2. /\ e \in k .. Len(L) /\ G = {L[n] : n \in k + 1 .. e} /\ Len(Group(c)) = e - k
      /\ IsFiniteSet(G) /\ Cardinality(G) = e - k /\ G \subseteq All
  BY GroupPart
<1>3. bad \in Lists /\ Elements(bad) = G \ good /\ Len(bad) \in Nat
  BY ListParts DEF Failing
<1>4. Len(bad) <= e - k
  <2>1. Cardinality(Elements(bad)) = Len(bad)
    BY <1>3, CountList
  <2>2. Cardinality(Elements(bad)) <= Cardinality(G)
    BY <1>2, <1>3, FS_Subset
  <2> QED BY <1>2, <2>1, <2>2
<1>5. Elements(F) \cap Elements(bad) = {}
  <2> SUFFICES ASSUME NEW s \in Elements(F), s \in Elements(bad) PROVE FALSE
    OBVIOUS
  <2>1. PICK m \in 1 .. k : L[m] = s
    BY DEF Sound
  <2>2. PICK n \in k + 1 .. e : L[n] = s
    BY <1>2, <1>3
  <2>3. m \in 1 .. Len(L) /\ n \in 1 .. Len(L) /\ m # n
    BY <1>1, <1>2
  <2> QED BY <1>1, <2>1, <2>2, <2>3, ListParts
<1>6. F \o bad \in Lists /\ Elements(F \o bad) = Elements(F) \cup Elements(bad)
      /\ Len(F \o bad) = Len(F) + Len(bad)
  <2>1. Len(F) + Len(bad) <= Len(Frozen)
    BY <1>1, <1>2, <1>3, <1>4
  <2>2. F \o bad \in Lists /\ Elements(F \o bad) = Elements(F) \cup Elements(bad)
    BY <1>1, <1>3, <1>5, <2>1, ConcatList
  <2>3. F \in Seq(All) /\ bad \in Seq(All)
    BY <1>1, <1>3, ListParts
  <2> QED BY <2>2, <2>3, ConcatProperties
<1>7. /\ d.cursor = e /\ d.succeeded = c.succeeded + (e - k) - Len(bad) /\ d.failures = F \o bad
      /\ d.retry_items = c.retry_items /\ d.base_succeeded = c.base_succeeded
      /\ d.original_total = c.original_total
      /\ d = [c EXCEPT !.cursor = e, !.succeeded = c.succeeded + (e - k) - Len(bad),
                       !.failures = F \o bad]
  BY <1>1, <1>2 DEF Advanced, Checkpoints
<1>8. Selected(d) = L
  BY <1>7 DEF Selected
<1>9. /\ e \in Count /\ c.succeeded + (e - k) - Len(bad) \in Count
      /\ c.succeeded + (e - k) - Len(bad) + (Len(F) + Len(bad)) = e
  <2> DEFINE s == c.succeeded
             f == Len(F)
             b == Len(bad)
             l == Len(L)
  <2>1. /\ s \in Nat /\ f \in Nat /\ b \in Nat /\ k \in Nat /\ l \in Nat /\ Len(Frozen) \in Nat
        /\ e \in k .. l /\ b <= e - k /\ s + f = k /\ l <= Len(Frozen)
    BY <1>1, <1>2, <1>3, <1>4
  <2> HIDE DEF s, f, b, l, k, e
  <2>2. /\ e \in 0 .. Len(Frozen) /\ s + (e - k) - b \in 0 .. Len(Frozen)
        /\ s + (e - k) - b + (f + b) = e
    BY <2>1
  <2> QED BY <2>2 DEF s, f, b, Count
<1>10. d \in Checkpoints
  BY <1>1, <1>6, <1>7, <1>9 DEF Checkpoints
<1> HIDE DEF d
<1>11. \A s \in Elements(d.failures) : \E n \in 1 .. d.cursor : L[n] = s
  <2> SUFFICES ASSUME NEW s \in Elements(F) \cup Elements(bad)
               PROVE  \E n \in 1 .. e : L[n] = s
    BY <1>6, <1>7
  <2>1. CASE s \in Elements(F)
    <3>1. PICK n \in 1 .. k : L[n] = s
      BY <2>1 DEF Sound
    <3>2. n \in 1 .. e
      BY <1>1, <1>2
    <3> QED BY <3>1, <3>2
  <2>2. CASE s \in Elements(bad)
    <3>1. PICK n \in k + 1 .. e : L[n] = s
      BY <1>2, <1>3, <2>2
    <3>2. n \in 1 .. e
      BY <1>1, <1>2
    <3> QED BY <3>1, <3>2
  <2> QED BY <2>1, <2>2
<1>12. Sound(d)
  <2>1. d.succeeded + Len(d.failures) = d.cursor /\ d.cursor <= Len(L)
    BY <1>2, <1>6, <1>7, <1>9
  <2> QED BY <1>7, <1>8, <1>10, <1>11, <2>1 DEF Sound
<1>13. Done(d) \subseteq Done(c) \cup good
  <2> SUFFICES ASSUME NEW s \in Done(d), s \notin Done(c) PROVE s \in good
    OBVIOUS
  <2>1. Remaining(c) = {L[n] : n \in k + 1 .. Len(L)}
        /\ Remaining(d) = {L[n] : n \in e + 1 .. Len(L)}
    <3>1. Remaining(c) = {L[n] : n \in k + 1 .. Len(L)}
      BY RemainingPart
    <3>2. Remaining(d) = {Selected(d)[n] : n \in d.cursor + 1 .. Len(Selected(d))}
      BY <1>12, RemainingPart
    <3> QED BY <1>7, <1>8, <3>1, <3>2
  <2>2. s \in All /\ s \notin Remaining(d) /\ s \notin Elements(F) /\ s \notin Elements(bad)
    BY <1>6, <1>7 DEF Done
  <2>3. PICK n \in k + 1 .. Len(L) : s = L[n]
    BY <2>1, <2>2 DEF Done
  <2>4. n \in k + 1 .. e
    BY <1>1, <1>2, <2>1, <2>2, <2>3
  <2> QED BY <1>2, <1>3, <2>2, <2>3, <2>4
<1> QED BY <1>12, <1>13 DEF d

LEMMA NewSound == Sound(NewCheckpoint) /\ Done(NewCheckpoint) = {}
<1> DEFINE c == NewCheckpoint
           n == Len(Frozen)
<1>1. n \in Nat /\ Frozen \in Lists /\ <<>> \in Lists /\ Elements(<<>>) = {} /\ Len(<<>>) = 0
  <2>1. <<>> \in Seq(All) /\ Len(<<>>) = 0 /\ DOMAIN <<>> = {}
    BY EmptySeq
  <2>2. n \in Nat /\ 0 <= n /\ 1 .. 0 = {}
    BY FrozenList
  <2>3. <<>> \in Lists
    BY <2>1, <2>2, ListIntro
  <2> QED BY <2>1, <2>2, <2>3, FrozenList DEF Elements
<1>2. /\ c.cursor = 0 /\ c.succeeded = 0 /\ c.failures = <<>> /\ c.retry_items = <<>>
      /\ c.base_succeeded = 0 /\ c.original_total = n /\ Selected(c) = Frozen
  BY DEF NewCheckpoint, Selected
<1>3. c \in Checkpoints
  BY <1>1 DEF NewCheckpoint, Checkpoints, Count
<1> HIDE DEF c
<1>4. Sound(c)
  <2>1. \A s \in Elements(c.failures) : FALSE
    BY <1>1, <1>2
  <2>2. 0 + n = n /\ 0 <= n /\ 0 + 0 = 0
    BY <1>1
  <2> HIDE DEF n
  <2> QED BY <1>1, <1>2, <1>3, <2>1, <2>2 DEF Sound, n
<1>5. Remaining(c) = {Frozen[k] : k \in 1 .. n}
  BY <1>1, <1>2, <1>4, RemainingPart
<1>6. Done(c) = {}
  BY <1>1, <1>5, ListParts DEF Done, All
<1> QED BY <1>4, <1>6 DEF c

\* What the data of a result tell is true: they name what failed, or nothing.
Accounted(d, bars) ==
  /\ d \in Summaries
  /\ d.failed_items # <<>> =>
       /\ d.total = Len(Frozen) /\ d.succeeded + Len(d.failed_items) = Len(Frozen)
       /\ All \ Elements(d.failed_items) \subseteq bars

LEMMA RetrySound ==
  ASSUME NEW d, NEW bars, Accounted(d, bars)
  PROVE  /\ Sound(CheckpointOfRetry[d]) /\ Done(CheckpointOfRetry[d]) \subseteq bars
         /\ d.failed_items # <<>> => CheckpointOfRetry[d] # NewCheckpoint
<1>1. CASE d.failed_items = <<>>
  <2>1. CheckpointOfRetry[d] = NewCheckpoint
    BY <1>1 DEF CheckpointOfRetry, Accounted
  <2> QED BY <1>1, <2>1, NewSound
<1>2. CASE d.failed_items # <<>>
  <2> DEFINE c == CheckpointOfRetry[d]
             L == d.failed_items
  <2>1. /\ c = [cursor |-> 0, succeeded |-> 0, failures |-> <<>>, retry_items |-> L,
                base_succeeded |-> d.succeeded, original_total |-> d.total]
        /\ d \in Summaries /\ L \in Lists
    BY <1>2 DEF CheckpointOfRetry, Accounted, Summaries
  <2>2. /\ c.cursor = 0 /\ c.succeeded = 0 /\ c.failures = <<>> /\ c.retry_items = L
        /\ c.base_succeeded = d.succeeded /\ c.original_total = d.total /\ Selected(c) = L
    BY <1>2, <2>1 DEF Selected
  <2>3. <<>> \in Lists /\ Elements(<<>>) = {} /\ Len(<<>>) = 0 /\ 0 \in Count
        /\ NewCheckpoint.retry_items = <<>>
    BY NewSound, FrozenList DEF Sound, NewCheckpoint, Checkpoints, Elements, Count
  <2>4. c \in Checkpoints
    BY <2>1, <2>3 DEF Checkpoints, Summaries
  <2> HIDE DEF c
  <2>5. Sound(c)
    <3>1. d.total = Len(Frozen) /\ d.succeeded + Len(L) = Len(Frozen) /\ Len(L) \in Nat
      BY <1>2, <2>1, ListParts DEF Accounted
    <3>2. 0 <= Len(L) /\ 0 + 0 = 0
      BY <3>1
    <3>3. \A s \in Elements(c.failures) : FALSE
      BY <2>2, <2>3
    <3> HIDE DEF L
    <3> QED BY <2>2, <2>3, <2>4, <3>1, <3>2, <3>3 DEF Sound
  <2>6. Remaining(c) = {L[k] : k \in 1 .. Len(L)}
    <3>1. Remaining(c) = {Selected(c)[n] : n \in c.cursor + 1 .. Len(Selected(c))}
      BY <2>5, RemainingPart
    <3> QED BY <2>2, <3>1
  <2>7. Done(c) = All \ Elements(L)
    BY <2>1, <2>2, <2>3, <2>6, ListParts DEF Done
  <2>8. Done(c) \subseteq bars
    BY <1>2, <2>7 DEF Accounted
  <2> QED BY <1>2, <2>2, <2>3, <2>5, <2>8 DEF c
<1> QED BY <1>1, <1>2

-----------------------------------------------------------------------------
(* The row of the job.                                                      *)

RowSound(r, bars) ==
  /\ r \in Row
  /\ Sound(r.checkpoint) /\ Done(r.checkpoint) \subseteq bars
  /\ Accounted(r.summary, bars)
  /\ r.status = "SUCCEEDED" => bars = All
  /\ r.status = "PARTIAL" => r.summary.failed_items # <<>>

\* No lease that had ended counts again.
Ends(r, s) == \A token : Active(s, token) => Active(r, token)

LEMMA FinishedSound ==
  ASSUME NEW r, NEW bars, NEW status \in Status, RowSound(r, bars),
         status = "SUCCEEDED" => bars = All,
         status = "PARTIAL" => r.summary.failed_items # <<>>,
         status # "RUNNING"
  PROVE  RowSound(Finished(r, status), bars) /\ \A token : ~Active(Finished(r, status), token)
<1>1. Finished(r, status) \in Row
  <2>1. r \in Row /\ r.version + 1 \in Nat /\ 0 \in 0 .. 1 /\ 0 \in 0 .. 0
    BY DEF RowSound, Row
  <2> QED BY <2>1 DEF Row, Finished, NoToken
<1>2. /\ Finished(r, status).status = status /\ Finished(r, status).checkpoint = r.checkpoint
      /\ Finished(r, status).summary = r.summary
  BY DEF RowSound, Row, Finished
<1> QED BY <1>1, <1>2 DEF RowSound, Active

LEMMA RequeuedSound ==
  ASSUME NEW r, NEW bars, RowSound(r, bars)
  PROVE  RowSound(Requeued(r, 0), bars) /\ \A token : ~Active(Requeued(r, 0), token)
<1>1. Requeued(r, 0) \in Row
  <2>1. r \in Row /\ r.version + 1 \in Nat /\ 0 \in 0 .. 1 /\ 0 \in 0 .. 0
    BY DEF RowSound, Row
  <2> QED BY <2>1 DEF Row, Requeued, NoToken, Status
<1>2. /\ Requeued(r, 0).status = "PENDING" /\ Requeued(r, 0).checkpoint = r.checkpoint
      /\ Requeued(r, 0).summary = r.summary
  BY DEF RowSound, Row, Requeued
<1> QED BY <1>1, <1>2 DEF RowSound, Active

LEMMA HonourSound ==
  ASSUME NEW r, NEW bars, NEW otherwise, RowSound(r, bars), RowSound(otherwise, bars)
  PROVE  /\ RowSound(HonourControl(r, otherwise), bars)
         /\ \A token : Active(HonourControl(r, otherwise), token) => Active(otherwise, token)
<1>1. r.cancel_requested \in BOOLEAN /\ r.pause_requested \in BOOLEAN
      /\ {"CANCELED", "PAUSED"} \subseteq Status
  BY DEF RowSound, Row, Status, Terminal
<1>2. CASE r.cancel_requested
  <2>1. HonourControl(r, otherwise) = Finished(r, "CANCELED")
    BY <1>2 DEF HonourControl
  <2> QED BY <1>1, <2>1, FinishedSound
<1>3. CASE ~r.cancel_requested /\ r.pause_requested
  <2>1. HonourControl(r, otherwise) = Finished(r, "PAUSED")
    BY <1>3 DEF HonourControl
  <2> QED BY <1>1, <2>1, FinishedSound
<1>4. CASE ~r.cancel_requested /\ ~r.pause_requested
  <2>1. HonourControl(r, otherwise) = otherwise
    BY <1>4 DEF HonourControl
  <2> QED BY <2>1
<1> QED BY <1>1, <1>2, <1>3, <1>4

\* A row like a sound one is sound, with a sound checkpoint and true data of its own.
LEMMA SoundAgain ==
  ASSUME NEW r, NEW bars, RowSound(r, bars), NEW s \in Row,
         s.status \in {"PENDING", "RUNNING", "PAUSED"} \/ (s.status = r.status /\ s.summary = r.summary),
         Sound(s.checkpoint) /\ Done(s.checkpoint) \subseteq bars,
         Accounted(s.summary, bars)
  PROVE  RowSound(s, bars)
BY DEF RowSound

LEMMA ReportedSound ==
  ASSUME NEW r, NEW bars, RowSound(r, bars), r.status = "RUNNING",
         NEW c, Sound(c), Done(c) \subseteq bars, NEW pause \in BOOLEAN
  PROVE  /\ RowSound(Reported(r, c, pause), bars)
         /\ \A token : Active(Reported(r, c, pause), token) =>
              /\ r.lease_token = token /\ ~pause
              /\ Reported(r, c, pause).status \notin {"PAUSED", "CANCELED"}
<1> DEFINE saved == [r EXCEPT !.checkpoint = c, !.lease = 1,
                              !.pause_requested = @ \/ pause, !.version = @ + 1]
<1>1. /\ r \in Row /\ r.version + 1 \in Nat /\ 1 \in 0 .. 1 /\ c \in Checkpoints
      /\ (r.pause_requested \/ pause) \in BOOLEAN
  BY DEF RowSound, Row, Sound
<1>2. saved \in Row
  BY <1>1 DEF Row
<1>3. /\ saved.status = "RUNNING" /\ saved.checkpoint = c /\ saved.summary = r.summary
      /\ saved.lease_token = r.lease_token /\ (pause => saved.pause_requested)
  BY <1>1 DEF Row
<1>4. Reported(r, c, pause) = HonourControl(saved, saved)
  BY DEF Reported
<1> HIDE DEF saved
<1>5. RowSound(saved, bars)
  BY <1>2, <1>3, SoundAgain DEF RowSound
<1>6. RowSound(Reported(r, c, pause), bars)
      /\ \A token : Active(Reported(r, c, pause), token) => Active(saved, token)
  BY <1>4, <1>5, HonourSound
<1>7. pause => \A token : ~Active(Reported(r, c, pause), token)
  <2> SUFFICES ASSUME pause PROVE \A token : ~Active(HonourControl(saved, saved), token)
    BY <1>4
  <2>1. saved.cancel_requested \in BOOLEAN /\ saved.pause_requested
        /\ {"CANCELED", "PAUSED"} \subseteq Status
    BY <1>2, <1>3 DEF Row, Status, Terminal
  <2>2. HonourControl(saved, saved) = Finished(saved, "CANCELED")
        \/ HonourControl(saved, saved) = Finished(saved, "PAUSED")
    BY <2>1 DEF HonourControl
  <2> QED BY <1>5, <2>1, <2>2, FinishedSound
<1> QED BY <1>3, <1>6, <1>7 DEF Active

LEMMA CompletedSound ==
  ASSUME NEW r, NEW bars, RowSound(r, bars), NEW result \in Result,
         r.status = "RUNNING", Accounted(result.data, bars),
         result.partial => result.data.failed_items # <<>>,
         ~result.partial => bars = All
  PROVE  RowSound(Completed(r, result), bars) /\ \A token : ~Active(Completed(r, result), token)
<1> DEFINE saved == [r EXCEPT !.summary = result.data]
           status == IF result.partial THEN "PARTIAL" ELSE "SUCCEEDED"
<1>1. r \in Row /\ result.data \in Summaries
  BY DEF RowSound, Accounted
<1>2. /\ saved \in Row /\ saved.status = "RUNNING" /\ saved.checkpoint = r.checkpoint
      /\ saved.summary = result.data
  BY <1>1 DEF Row
<1>3. Completed(r, result) = HonourControl(saved, Finished(saved, status))
  BY DEF Completed
<1> HIDE DEF saved
<1>4. RowSound(saved, bars)
  BY <1>2, SoundAgain DEF RowSound
<1>5. /\ status \in Status /\ status # "RUNNING"
      /\ status = "SUCCEEDED" => bars = All
      /\ status = "PARTIAL" => saved.summary.failed_items # <<>>
  BY <1>2 DEF Status, Terminal
<1> HIDE DEF status
<1>6. RowSound(Finished(saved, status), bars) /\ \A token : ~Active(Finished(saved, status), token)
  BY <1>4, <1>5, FinishedSound
<1> QED BY <1>3, <1>4, <1>6, HonourSound

LEMMA FailedSound ==
  ASSUME NEW r, NEW bars, RowSound(r, bars), NEW result, r.status = "RUNNING",
         Accounted(result.data, bars)
  PROVE  RowSound(Failed(r, result), bars) /\ \A token : ~Active(Failed(r, result), token)
<1> DEFINE saved == [r EXCEPT !.summary = result.data]
           otherwise == IF result.retryable /\ r.attempt_count < r.max_attempts
                        THEN Requeued(saved, 0) ELSE Finished(saved, "FAILED")
<1>1. r \in Row /\ result.data \in Summaries
  BY DEF RowSound, Accounted
<1>2. /\ saved \in Row /\ saved.status = "RUNNING" /\ saved.checkpoint = r.checkpoint
      /\ saved.summary = result.data
  BY <1>1 DEF Row
<1>3. Failed(r, result) = HonourControl(saved, otherwise)
  BY DEF Failed
<1> HIDE DEF saved
<1>4. RowSound(saved, bars)
  BY <1>2, SoundAgain DEF RowSound
<1>5. RowSound(otherwise, bars) /\ \A token : ~Active(otherwise, token)
  <2>1. "FAILED" \in Status
    BY DEF Status, Terminal
  <2> QED BY <1>4, <2>1, FinishedSound, RequeuedSound
<1> HIDE DEF otherwise
<1> QED BY <1>3, <1>4, <1>5, HonourSound

LEMMA RecoveredSound ==
  ASSUME NEW r, NEW bars, RowSound(r, bars)
  PROVE  RowSound(Recovered(r), bars) /\ \A token : ~Active(Recovered(r), token)
<1> DEFINE more == [r EXCEPT !.recovery_count = @ + 1,
                             !.max_attempts = AtLeast(@, r.attempt_count + 1)]
           otherwise == IF r.recovery_count < r.max_recoveries
                        THEN Requeued(more, 0) ELSE Finished(r, "FAILED")
<1>1. r \in Row /\ r.recovery_count + 1 \in Nat /\ AtLeast(r.max_attempts, r.attempt_count + 1) \in Nat
  BY DEF RowSound, Row, AtLeast
<1>2. /\ more \in Row /\ more.status = r.status /\ more.checkpoint = r.checkpoint
      /\ more.summary = r.summary
  BY <1>1 DEF Row
<1>3. Recovered(r) = HonourControl(r, otherwise)
  BY DEF Recovered
<1> HIDE DEF more
<1>4. RowSound(more, bars)
  BY <1>2, SoundAgain DEF RowSound
<1>5. RowSound(otherwise, bars) /\ \A token : ~Active(otherwise, token)
  <2>1. "FAILED" \in Status
    BY DEF Status, Terminal
  <2> QED BY <1>4, <2>1, FinishedSound, RequeuedSound
<1> HIDE DEF otherwise
<1>6. /\ RowSound(HonourControl(r, otherwise), bars)
      /\ \A token : Active(HonourControl(r, otherwise), token) => Active(otherwise, token)
  BY <1>5, HonourSound
<1> QED BY <1>3, <1>5, <1>6

LEMMA ClaimedSound ==
  ASSUME NEW r, NEW bars, RowSound(r, bars), NEW t \in Nat
  PROVE  /\ RowSound(Claimed(r, t), bars)
         /\ \A token : Active(Claimed(r, t), token) => token = t
<1> DEFINE s == Claimed(r, t)
<1>1. s \in Row
  <2>1. r \in Row /\ r.version + 1 \in Nat /\ r.attempt_count + 1 \in Nat /\ 1 \in 0 .. 1
    BY DEF RowSound, Row
  <2> QED BY <2>1 DEF Row, Claimed, Status
<1>2. s.status = "RUNNING" /\ s.lease_token = t /\ s.checkpoint = r.checkpoint
      /\ s.summary = r.summary
  BY DEF RowSound, Row, Claimed
<1> HIDE DEF s
<1>3. RowSound(s, bars)
  BY <1>1, <1>2, SoundAgain DEF RowSound
<1> QED BY <1>2, <1>3 DEF Active, s

LEMMA TickedSound ==
  ASSUME NEW r, NEW bars, RowSound(r, bars)
  PROVE  RowSound(Ticked(r), bars) /\ Ends(r, Ticked(r))
<1> DEFINE s == Ticked(r)
<1>1. s \in Row
  <2>1. r \in Row /\ CountDown(r.lease) \in 0 .. 1 /\ CountDown(r.due) \in 0 .. 0
    BY DEF RowSound, Row, CountDown
  <2> QED BY <2>1 DEF Row, Ticked
<1>2. s.status = r.status /\ s.lease_token = r.lease_token /\ s.checkpoint = r.checkpoint
      /\ s.summary = r.summary /\ s.lease = CountDown(r.lease)
  BY DEF RowSound, Row, Ticked
<1>3. s.lease > 0 => r.lease > 0
  BY <1>2 DEF CountDown, RowSound, Row
<1> HIDE DEF s
<1>4. RowSound(s, bars)
  BY <1>1, <1>2, SoundAgain DEF RowSound
<1> QED BY <1>2, <1>3, <1>4 DEF Ends, Active, s

LEMMA CommandedSound ==
  ASSUME NEW r, NEW bars, RowSound(r, bars), NEW action \in Action, Allowed(r, action)
  PROVE  RowSound(Commanded(r, action), bars) /\ Ends(r, Commanded(r, action))
<1>1. ASSUME NEW s, RowSound(s, bars), Ends(r, s)
      PROVE  /\ RowSound([s EXCEPT !.version = @ + 1], bars)
             /\ Ends(r, [s EXCEPT !.version = @ + 1])
  <2> DEFINE v == [s EXCEPT !.version = @ + 1]
  <2>1. s \in Row /\ s.version + 1 \in Nat
    BY <1>1 DEF RowSound, Row
  <2>2. /\ v \in Row /\ v.status = s.status /\ v.checkpoint = s.checkpoint /\ v.summary = s.summary
        /\ v.lease_token = s.lease_token /\ v.lease = s.lease
    BY <2>1 DEF Row
  <2> HIDE DEF v
  <2>3. RowSound(v, bars) /\ Ends(r, v)
    BY <1>1, <2>2 DEF RowSound, Ends, Active
  <2> QED BY <2>3 DEF v
<1>2. /\ r \in Row /\ AtLeast(r.max_attempts, r.attempt_count + 1) \in Nat /\ 0 \in 0 .. 0
      /\ {"PENDING", "PAUSED"} \subseteq Status
  BY DEF RowSound, Row, AtLeast, Status
<1>3. CASE action = "pause"
  <2>1. Commanded(r, action) = [PauseCommand(r) EXCEPT !.version = @ + 1]
    BY <1>3 DEF Commanded
  <2> DEFINE s == PauseCommand(r)
  <2>2. s \in Row
    BY <1>2 DEF PauseCommand, Row
  <2>3. /\ s.checkpoint = r.checkpoint /\ s.summary = r.summary
        /\ s.lease_token = r.lease_token /\ s.lease = r.lease
        /\ s.status = "PAUSED" \/ (s.status = r.status /\ r.status = "RUNNING")
    BY <1>2, <1>3 DEF PauseCommand, Row, Allowed
  <2> HIDE DEF s
  <2>4. RowSound(s, bars) /\ Ends(r, s)
    BY <2>2, <2>3, SoundAgain DEF RowSound, Ends, Active
  <2> QED BY <1>1, <2>1, <2>4 DEF s
<1>4. CASE action = "resume"
  <2>1. Commanded(r, action) = [ResumeCommand(r) EXCEPT !.version = @ + 1]
    BY <1>4 DEF Commanded
  <2> DEFINE s == ResumeCommand(r)
  <2>2. s \in Row
    BY <1>2 DEF ResumeCommand, Row
  <2>3. s.checkpoint = r.checkpoint /\ s.summary = r.summary /\ s.status = "PENDING"
    BY <1>2 DEF ResumeCommand, Row
  <2> HIDE DEF s
  <2>4. RowSound(s, bars) /\ Ends(r, s)
    BY <2>2, <2>3, SoundAgain DEF RowSound, Ends, Active
  <2> QED BY <1>1, <2>1, <2>4 DEF s
<1>5. CASE action = "cancel"
  <2>1. Commanded(r, action) = [CancelCommand(r) EXCEPT !.version = @ + 1]
    BY <1>5 DEF Commanded
  <2>2. RowSound(CancelCommand(r), bars) /\ Ends(r, CancelCommand(r))
    <3>1. CASE r.status = "RUNNING"
      <4> DEFINE s == [r EXCEPT !.cancel_requested = TRUE]
      <4>1. s \in Row /\ s.checkpoint = r.checkpoint /\ s.summary = r.summary
            /\ s.status = "RUNNING" /\ s.lease_token = r.lease_token /\ s.lease = r.lease
        BY <1>2, <3>1 DEF Row
      <4>2. CancelCommand(r) = s
        BY <3>1 DEF CancelCommand
      <4> HIDE DEF s
      <4>3. RowSound(s, bars) /\ Ends(r, s)
        BY <3>1, <4>1, SoundAgain DEF RowSound, Ends, Active
      <4> QED BY <4>2, <4>3
    <3>2. CASE r.status # "RUNNING"
      <4>1. CancelCommand(r) = Finished(r, "CANCELED") /\ "CANCELED" \in Status
        BY <3>2 DEF CancelCommand, Status, Terminal
      <4> QED BY <4>1, FinishedSound DEF Ends
    <3> QED BY <3>1, <3>2
  <2> QED BY <1>1, <2>1, <2>2
<1>6. CASE action = "retry"
  <2>1. Commanded(r, action) = [RetryCommand(r) EXCEPT !.version = @ + 1]
    BY <1>6 DEF Commanded
  <2> DEFINE s == RetryCommand(r)
             c == IF HasFailedItems(r) THEN CheckpointOfRetry[r.summary] ELSE r.checkpoint
  <2>2. Sound(c) /\ Done(c) \subseteq bars /\ c \in Checkpoints
    <3>1. Accounted(r.summary, bars) /\ Sound(r.checkpoint) /\ Done(r.checkpoint) \subseteq bars
      BY DEF RowSound
    <3>2. Sound(CheckpointOfRetry[r.summary]) /\ Done(CheckpointOfRetry[r.summary]) \subseteq bars
      BY <3>1, RetrySound
    <3>3. Sound(c) /\ Done(c) \subseteq bars
      BY <3>1, <3>2
    <3> QED BY <3>3 DEF Sound
  <2> HIDE DEF c
  <2>3. s = [r EXCEPT !.status = "PENDING", !.due = 0, !.terminal = FALSE,
                      !.max_attempts = AtLeast(@, r.attempt_count + 1), !.checkpoint = c]
    BY <1>2 DEF RetryCommand, c, Row
  <2>4. s \in Row
    BY <1>2, <2>2, <2>3 DEF Row
  <2>5. s.checkpoint = c /\ s.summary = r.summary /\ s.status = "PENDING"
    BY <1>2, <2>3 DEF Row
  <2> HIDE DEF s
  <2>6. RowSound(s, bars) /\ Ends(r, s)
    BY <2>2, <2>4, <2>5, SoundAgain DEF RowSound, Ends, Active
  <2> QED BY <1>1, <2>1, <2>6 DEF s
<1> QED BY <1>3, <1>4, <1>5, <1>6 DEF Action

LEMMA MoreBars ==
  ASSUME NEW r, NEW bars, RowSound(r, bars), NEW more \in SUBSET All, bars \subseteq more
  PROVE  RowSound(r, more)
BY DEF RowSound, Accounted

-----------------------------------------------------------------------------
(* The backfill.                                                            *)

\* What a handler returns is the result of a whole run, or a failure without data.
Told(result, c) ==
  \/ ~result.success /\ result.data = NoSummary
  \/ c.cursor = Len(Selected(c)) /\ result = FinalResult(c)

Carries(w) ==
  /\ Sound(worker[w].local) /\ Done(worker[w].local) \subseteq stored
  /\ worker[w].pc = "commit" /\ Holds(w) => Told(worker[w].result, worker[w].local)

BackfillInv ==
  /\ TypeOK
  /\ RowSound(row, stored)
  /\ \A w \in Worker : Carries(w)

Execution(token) == [pc: PC, token: 0 .. token, local: Checkpoints, result: Result]

LEMMA FinalTold ==
  ASSUME NEW c, Sound(c), NEW bars \in SUBSET All, Done(c) \subseteq bars,
         c.cursor = Len(Selected(c))
  PROVE  /\ FinalResult(c) \in Result
         /\ Accounted(FinalResult(c).data, bars)
         /\ FinalResult(c).success =>
              /\ FinalResult(c).partial => FinalResult(c).data.failed_items # <<>>
              /\ ~FinalResult(c).partial => bars = All
<1> DEFINE n == c.base_succeeded + c.succeeded
           F == c.failures
<1>1. /\ c \in Checkpoints /\ F \in Lists /\ Len(F) \in Nat /\ Len(Frozen) \in Nat
      /\ c.base_succeeded \in Nat /\ c.succeeded \in Nat
      /\ c.base_succeeded + c.cursor = Len(Frozen) /\ c.succeeded + Len(F) = c.cursor
      /\ c.original_total = Len(Frozen) /\ c.cursor \in Nat
  BY SelectedList, ListParts, FrozenList DEF Sound
<1>2. n \in Nat /\ n + Len(F) = Len(Frozen) /\ n \in Count /\ Len(Frozen) \in Count
  BY <1>1, SMTT(30) DEF Count
<1>3. Done(c) = All \ Elements(F)
  <2>1. Remaining(c) = {Selected(c)[k] : k \in c.cursor + 1 .. c.cursor}
    BY RemainingPart
  <2>2. c.cursor + 1 .. c.cursor = {}
    BY <1>1
  <2> QED BY <2>1, <2>2 DEF Done
<1> HIDE DEF n
<1>4. FinalResult(c) = [success |-> F = <<>> \/ n > 0, partial |-> F # <<>> /\ n > 0,
                        retryable |-> FALSE,
                        data |-> [total |-> Len(Frozen), succeeded |-> n, failed_items |-> F]]
  BY <1>1 DEF FinalResult, n
<1>5. FinalResult(c) \in Result
  <2>1. [total |-> Len(Frozen), succeeded |-> n, failed_items |-> F] \in Summaries
    BY <1>1, <1>2 DEF Summaries
  <2>2. (F = <<>> \/ n > 0) \in BOOLEAN /\ (F # <<>> /\ n > 0) \in BOOLEAN
    OBVIOUS
  <2> QED BY <1>4, <2>1, <2>2 DEF Result
<1>6. Accounted(FinalResult(c).data, bars)
  BY <1>1, <1>2, <1>3, <1>4 DEF Accounted, Summaries
<1>7. F = <<>> => bars = All
  <2>1. Elements(<<>>) = {}
    BY DEF Elements
  <2> QED BY <1>3, <2>1
<1>8. /\ FinalResult(c).success = (F = <<>> \/ n > 0)
      /\ FinalResult(c).partial = (F # <<>> /\ n > 0)
      /\ FinalResult(c).data.failed_items = F
  BY <1>4
<1>9. FinalResult(c).success =>
        /\ FinalResult(c).partial => FinalResult(c).data.failed_items # <<>>
        /\ ~FinalResult(c).partial => bars = All
  BY <1>7, <1>8
<1> QED BY <1>5, <1>6, <1>9

LEMMA StepKeeps ==
  ASSUME BackfillInv, NEW w \in Worker, NEW new \in Execution(issued'),
         worker' = [worker EXCEPT ![w] = new], issued' \in Nat, issued <= issued',
         commands' = commands, stored \subseteq stored', stored' \subseteq All,
         RowSound(row', stored'),
         \A token \in 0 .. issued : Active(row', token) => Active(row, token),
         Sound(new.local), Done(new.local) \subseteq stored',
         new.pc = "commit" /\ Active(row', new.token) => Told(new.result, new.local)
  PROVE  BackfillInv'
<1>1. /\ issued \in Nat /\ worker \in [Worker -> Execution(issued)]
      /\ commands \in 0 .. MaxCommands
  BY DEF BackfillInv, TypeOK, Execution
<1>2. Execution(issued) \subseteq Execution(issued')
  <2>1. 0 .. issued \subseteq 0 .. issued'
    BY <1>1
  <2> QED BY <2>1 DEF Execution
<1>3. worker' \in [Worker -> Execution(issued')]
      /\ \A v \in Worker : worker'[v] = IF v = w THEN new ELSE worker[v]
  BY <1>1, <1>2
<1>4. TypeOK'
  BY <1>1, <1>3 DEF TypeOK, Execution, RowSound
<1>5. ASSUME NEW v \in Worker PROVE Carries(v)'
  <2>1. CASE v = w
    BY <1>3, <2>1 DEF Carries, Holds
  <2>2. CASE v # w
    <3>1. worker'[v] = worker[v] /\ worker[v].token \in 0 .. issued /\ Carries(v)
      BY <1>1, <1>3, <2>2 DEF BackfillInv, Execution
    <3>2. Active(row', worker[v].token) => Active(row, worker[v].token)
      BY <3>1
    <3> QED BY <3>1, <3>2 DEF Carries, Holds
  <2> QED BY <2>1, <2>2
<1> QED BY <1>4, <1>5 DEF BackfillInv

LEMMA BackfillStart == Init => BackfillInv
<1> SUFFICES ASSUME Init PROVE BackfillInv
  OBVIOUS
<1>1. Sound(NewCheckpoint) /\ Done(NewCheckpoint) = {} /\ NewCheckpoint \in Checkpoints
  BY NewSound DEF Sound
<1>2. <<>> \in Lists /\ NoSummary \in Summaries /\ NoSummary.failed_items = <<>>
  BY FrozenList, EmptyList DEF NoSummary, Summaries, Count
<1>3. Accounted(NoSummary, {})
  BY <1>2 DEF Accounted
<1>4. row \in Row /\ row.checkpoint = NewCheckpoint /\ row.summary = NoSummary
      /\ row.status = "PENDING"
  <2>1. row = Submitted(Absent(MaxAttempts, MaxRecoveries))
    BY DEF Init
  <2> DEFINE a == Absent(MaxAttempts, MaxRecoveries)
  <2>2. a \in Row /\ a.checkpoint = NewCheckpoint /\ a.summary = NoSummary
    BY <1>1, <1>2, HistoryBackfillAssumption DEF Row, Absent, Status, Terminal, NoToken
  <2> HIDE DEF a
  <2>3. row = [a EXCEPT !.status = "PENDING"]
    BY <2>1 DEF Submitted, a
  <2> QED BY <2>2, <2>3 DEF Row, Status
<1>5. RowSound(row, stored)
  BY <1>1, <1>3, <1>4 DEF RowSound, Init
<1>6. Idle \in Execution(0)
  BY <1>1, <1>2 DEF Idle, Execution, PC, NoToken, Failure, Result
<1>7. TypeOK
  BY <1>4, <1>6, HistoryBackfillAssumption DEF Init, TypeOK, Execution
<1>8. ASSUME NEW w \in Worker PROVE Carries(w)
  <2>1. worker[w] = Idle /\ stored = {}
    BY DEF Init
  <2> QED BY <1>1, <2>1 DEF Carries, Idle
<1> QED BY <1>5, <1>7, <1>8 DEF BackfillInv

\* A worker that is idle, and one whose handler failed.
LEMMA IdleSound ==
  /\ Sound(Idle.local) /\ Done(Idle.local) = {} /\ Idle.pc = "idle"
  /\ \A token \in Nat : Idle \in Execution(token)
  /\ \A retryable \in BOOLEAN : Failure(retryable) \in Result
<1>1. Sound(NewCheckpoint) /\ Done(NewCheckpoint) = {} /\ NewCheckpoint \in Checkpoints
  BY NewSound DEF Sound
<1>4. NoSummary \in Summaries
  BY FrozenList, EmptyList DEF NoSummary, Summaries, Count
<1>5. \A retryable \in BOOLEAN : Failure(retryable) \in Result
  BY <1>4 DEF Failure, Result
<1>6. \A token \in Nat : Idle \in Execution(token)
  <2> SUFFICES ASSUME NEW token \in Nat PROVE Idle \in Execution(token)
    OBVIOUS
  <2>1. 0 \in 0 .. token
    OBVIOUS
  <2>2. Failure(FALSE) \in Result
    BY <1>5
  <2> QED BY <1>1, <2>1, <2>2 DEF Idle, Execution, PC, NoToken
<1> QED BY <1>1, <1>5, <1>6 DEF Idle

\* What is known of a worker.
LEMMA WorkerParts ==
  ASSUME BackfillInv, NEW w \in Worker
  PROVE  /\ worker[w] \in Execution(issued) /\ issued \in Nat
         /\ Sound(worker[w].local) /\ Done(worker[w].local) \subseteq stored
         /\ RowSound(row, stored) /\ row.status \in Status /\ stored \subseteq All
         /\ worker \in [Worker -> Execution(issued)]
BY DEF BackfillInv, TypeOK, Carries, Execution, RowSound, Row

\* The steps of a worker that change no row.
LEMMA WorkerStep ==
  ASSUME BackfillInv, NEW w \in Worker, NEW new \in Execution(issued),
         worker' = [worker EXCEPT ![w] = new],
         UNCHANGED <<row, issued, commands>>, stored \subseteq stored', stored' \subseteq All,
         Sound(new.local), Done(new.local) \subseteq stored',
         new.pc = "commit" /\ Active(row, new.token) => Told(new.result, new.local)
  PROVE  BackfillInv'
<1>1. RowSound(row', stored')
  BY WorkerParts, MoreBars
<1>2. issued' \in Nat /\ issued <= issued' /\ new \in Execution(issued')
  BY WorkerParts
<1>3. \A token : Active(row', token) => Active(row, token)
  OBVIOUS
<1> QED BY <1>1, <1>2, <1>3, StepKeeps

LEMMA ClaimStep ==
  ASSUME BackfillInv, NEW w \in Worker, Claim(w)
  PROVE  BackfillInv'
<1> DEFINE new == [pc |-> IF Restorable(row.checkpoint) THEN "loop" ELSE "commit",
                   token |-> issued + 1, local |-> row.checkpoint,
                   result |-> Failure(FALSE)]
<1>1. /\ row' = Claimed(row, issued + 1) /\ issued' = issued + 1
      /\ worker' = [worker EXCEPT ![w] = new] /\ stored' = stored /\ commands' = commands
  BY DEF Claim
<1>2. issued \in Nat /\ RowSound(row, stored) /\ stored \subseteq All
  BY WorkerParts
<1>3. issued' \in Nat /\ issued <= issued' /\ issued + 1 \notin 0 .. issued
      /\ issued + 1 \in 0 .. issued'
  BY <1>1, <1>2
<1>4. RowSound(row', stored') /\ \A token : Active(row', token) => token = issued + 1
  BY <1>1, <1>2, <1>3, ClaimedSound
<1>5. Sound(row.checkpoint) /\ Done(row.checkpoint) \subseteq stored /\ row.checkpoint \in Checkpoints
  BY <1>2 DEF RowSound, Sound
<1>6. new \in Execution(issued')
  BY <1>3, <1>5, IdleSound DEF Execution, PC
<1>7. new.pc = "loop" /\ new.local = row.checkpoint
  BY <1>5, SoundCounts
<1> HIDE DEF new
<1>8. \A token \in 0 .. issued : ~Active(row', token)
  BY <1>3, <1>4
<1> QED BY <1>1, <1>2, <1>3, <1>4, <1>5, <1>6, <1>7, <1>8, StepKeeps

LEMMA StoppedTyped ==
  ASSUME NEW c, Sound(c)
  PROVE  StoppedResult(c) \in Result
<1>1. /\ c \in Checkpoints /\ c.failures \in Lists /\ Len(c.failures) \in Nat
      /\ c.base_succeeded \in Nat /\ c.cursor \in Nat /\ c.succeeded \in Nat
      /\ Len(Selected(c)) \in Nat /\ Len(Frozen) \in Nat /\ c.original_total \in Count
  BY SelectedList, ListParts, FrozenList DEF Sound, Checkpoints
<1>2. c.base_succeeded + c.cursor - Len(c.failures) = c.base_succeeded + c.succeeded
      /\ c.base_succeeded + c.succeeded \in Count
  <2> DEFINE f == Len(c.failures)
             l == Len(Selected(c))
             n == Len(Frozen)
  <2>1. f \in Nat /\ l \in Nat /\ n \in Nat /\ c.base_succeeded + l = n /\ c.cursor <= l
        /\ c.succeeded + f = c.cursor
    BY <1>1 DEF Sound
  <2> HIDE DEF f, l, n
  <2> DEFINE b == c.base_succeeded
             k == c.cursor
             s == c.succeeded
  <2>3. b \in Nat /\ k \in Nat /\ s \in Nat /\ b + l = n /\ k <= l /\ s + f = k
    BY <1>1, <2>1
  <2> HIDE DEF b, k, s
  <2>4. b + k - f = b + s /\ b + s \in 0 .. n
    BY <2>1, <2>3
  <2>2. c.base_succeeded + c.cursor - f = c.base_succeeded + c.succeeded
        /\ c.base_succeeded + c.succeeded \in 0 .. n
    BY <2>4 DEF b, k, s
  <2> QED BY <2>2 DEF f, n, Count
<1> QED BY <1>1, <1>2 DEF StoppedResult, Result, Summaries

\* A report: the row is that of the report or unchanged, and a worker that
\* stops on its answer no longer holds the lease.
LEMMA ReportStep ==
  ASSUME BackfillInv, NEW w \in Worker, NEW next \in PC \ {"commit"}, Report(w, next)
  PROVE  BackfillInv'
<1> DEFINE c == worker[w].local
           answer == IF Holds(w) THEN Reported(row, c, FALSE) ELSE row
           stops == Holds(w) /\ answer.status \in {"PAUSED", "CANCELED"}
           new == IF stops THEN [worker[w] EXCEPT !.pc = "commit", !.result = StoppedResult(c)]
                  ELSE [worker[w] EXCEPT !.pc = next]
<1>1. /\ row' = answer /\ issued' = issued /\ stored' = stored /\ commands' = commands
      /\ worker' = [worker EXCEPT ![w] = new]
  <2>1. stops => worker' = [worker EXCEPT ![w].pc = "commit", ![w].result = StoppedResult(c)]
    BY DEF Report, Leave
  <2>2. ~stops => worker' = [worker EXCEPT ![w].pc = next]
    BY DEF Report, Goto
  <2>3. worker \in [Worker -> Execution(issued)]
    BY WorkerParts
  <2> QED BY <2>1, <2>2, <2>3 DEF Report
<1>2. /\ worker[w] \in Execution(issued) /\ issued \in Nat /\ Sound(c) /\ Done(c) \subseteq stored
      /\ RowSound(row, stored) /\ stored \subseteq All
  BY WorkerParts
<1>3. /\ RowSound(row', stored')
      /\ \A token : Active(row', token) => Active(row, token)
      /\ stops => \A token : ~Active(row', token)
  <2>1. CASE Holds(w)
    <3>1. row.status = "RUNNING" /\ row.lease > 0 /\ row' = Reported(row, c, FALSE)
      BY <1>1, <2>1 DEF Holds, Active
    <3>2. /\ RowSound(row', stored')
          /\ \A token : Active(row', token) =>
               row.lease_token = token /\ row'.status \notin {"PAUSED", "CANCELED"}
      BY <1>1, <1>2, <3>1, ReportedSound, ZenonT(30)
    <3> QED BY <1>1, <3>1, <3>2 DEF Active
  <2>2. CASE ~Holds(w)
    BY <1>1, <1>2, <2>2
  <2> QED BY <2>1, <2>2
<1>4. new \in Execution(issued) /\ new.local = c /\ new.token = worker[w].token
      /\ (new.pc = "commit" => stops)
  <2>1. StoppedResult(c) \in Result
    BY <1>2, StoppedTyped
  <2> QED BY <1>2, <2>1 DEF Execution, PC
<1> HIDE DEF new, stops, answer
<1>5. issued' \in Nat /\ issued <= issued' /\ new \in Execution(issued')
  BY <1>1, <1>2, <1>4
<1>6. Sound(new.local) /\ Done(new.local) \subseteq stored' /\ stored' \subseteq All
      /\ stored \subseteq stored'
  BY <1>1, <1>2, <1>4
<1>7. new.pc = "commit" => ~Active(row', new.token)
  BY <1>3, <1>4
<1> QED BY <1>1, <1>3, <1>5, <1>6, <1>7, StepKeeps

LEMMA FinishStep ==
  ASSUME BackfillInv, NEW w \in Worker, Finish(w)
  PROVE  BackfillInv'
<1> DEFINE c == worker[w].local
           new == [worker[w] EXCEPT !.pc = "commit", !.result = FinalResult(c)]
<1>1. /\ worker[w] \in Execution(issued) /\ Sound(c) /\ Done(c) \subseteq stored
      /\ stored \subseteq All /\ worker \in [Worker -> Execution(issued)]
  BY WorkerParts
<1>2. c.cursor = Len(Selected(c)) /\ UNCHANGED <<row, issued, stored, commands>>
      /\ worker' = [worker EXCEPT ![w] = new]
  BY <1>1 DEF Finish, Leave
<1>3. FinalResult(c) \in Result
  BY <1>1, <1>2, FinalTold
<1>4. new \in Execution(issued) /\ new.local = c /\ new.result = FinalResult(c)
  BY <1>1, <1>3 DEF Execution, PC
<1>5. Told(new.result, new.local)
  BY <1>2, <1>4 DEF Told
<1> HIDE DEF new
<1> QED BY <1>1, <1>2, <1>4, <1>5, WorkerStep

LEMMA DiskStep ==
  ASSUME BackfillInv, NEW w \in Worker, DiskSafe(w) \/ DiskUnsafe(w)
  PROVE  BackfillInv'
<1> DEFINE c == worker[w].local
<1>1. /\ worker[w] \in Execution(issued) /\ issued \in Nat /\ Sound(c) /\ Done(c) \subseteq stored
      /\ RowSound(row, stored) /\ stored \subseteq All /\ worker \in [Worker -> Execution(issued)]
  BY WorkerParts
<1>2. CASE DiskSafe(w)
  <2> DEFINE new == [worker[w] EXCEPT !.pc = "group"]
  <2>1. worker' = [worker EXCEPT ![w] = new] /\ UNCHANGED <<row, issued, stored, commands>>
    BY <1>1, <1>2 DEF DiskSafe, Goto
  <2>2. new \in Execution(issued) /\ new.local = c /\ new.pc = "group"
    BY <1>1 DEF Execution, PC
  <2> HIDE DEF new
  <2> QED BY <1>1, <2>1, <2>2, WorkerStep
<1>3. CASE DiskUnsafe(w)
  <2> DEFINE new == [worker[w] EXCEPT !.pc = "commit", !.result = StoppedResult(c)]
  <2>1. /\ worker' = [worker EXCEPT ![w] = new] /\ UNCHANGED <<issued, stored, commands>>
        /\ row' = IF Holds(w) THEN Reported(row, c, TRUE) ELSE row
    BY <1>1, <1>3 DEF DiskUnsafe, Leave
  <2>2. new \in Execution(issued) /\ new.local = c /\ new.token = worker[w].token
    BY <1>1, StoppedTyped DEF Execution, PC
  <2> HIDE DEF new
  <2>3. RowSound(row', stored') /\ \A token : Active(row', token) => Active(row, token)
    <3>1. CASE Holds(w)
      <4>1. row.status = "RUNNING"
        BY <3>1 DEF Holds, Active
      <4> QED BY <1>1, <2>1, <3>1, <4>1, ReportedSound
    <3>2. CASE ~Holds(w)
      BY <1>1, <2>1, <3>2
    <3> QED BY <3>1, <3>2
  <2>4. ~Active(row', new.token)
    <3>1. CASE Holds(w)
      <4>1. row.status = "RUNNING"
        BY <3>1 DEF Holds, Active
      <4> QED BY <1>1, <2>1, <3>1, <4>1, ReportedSound
    <3>2. CASE ~Holds(w)
      BY <2>1, <2>2, <3>2 DEF Holds
    <3> QED BY <3>1, <3>2
  <2>5. issued' \in Nat /\ issued <= issued' /\ new \in Execution(issued')
        /\ Sound(new.local) /\ Done(new.local) \subseteq stored' /\ stored' \subseteq All
        /\ stored \subseteq stored' /\ commands' = commands
    BY <1>1, <2>1, <2>2
  <2> QED BY <2>1, <2>3, <2>4, <2>5, StepKeeps
<1> QED BY <1>2, <1>3

LEMMA GroupStep ==
  ASSUME BackfillInv, NEW w \in Worker, ProcessGroup(w)
  PROVE  BackfillInv'
<1> DEFINE c == worker[w].local
<1>1. /\ worker[w] \in Execution(issued) /\ Sound(c) /\ Done(c) \subseteq stored
      /\ stored \subseteq All /\ worker \in [Worker -> Execution(issued)]
  BY WorkerParts
<1>2. PICK good \in SUBSET Elements(Group(c)) : \E bad \in Failing(Group(c), good) :
        /\ stored' = stored \cup good
        /\ worker' = [worker EXCEPT ![w].pc = "after", ![w].local = Advanced(c, bad)]
  BY DEF ProcessGroup
<1>3. PICK bad \in Failing(Group(c), good) :
        worker' = [worker EXCEPT ![w].pc = "after", ![w].local = Advanced(c, bad)]
  BY <1>2
<1> DEFINE d == Advanced(c, bad)
           new == [worker[w] EXCEPT !.pc = "after", !.local = d]
<1>4. Sound(d) /\ Done(d) \subseteq Done(c) \cup good
  BY <1>1, AdvanceSound
<1>5. stored' = stored \cup good /\ good \subseteq All
  BY <1>1, <1>2, GroupPart
<1> HIDE DEF d
<1>6. worker' = [worker EXCEPT ![w] = new] /\ UNCHANGED <<row, issued, commands>>
  BY <1>1, <1>3 DEF ProcessGroup, d
<1>7. new \in Execution(issued) /\ new.local = d /\ new.pc = "after"
  BY <1>1, <1>4 DEF Execution, PC, Sound
<1> HIDE DEF new
<1> QED BY <1>1, <1>4, <1>5, <1>6, <1>7, WorkerStep

LEMMA InterruptStep ==
  ASSUME BackfillInv, NEW w \in Worker, Interrupt(w)
  PROVE  BackfillInv'
<1> DEFINE c == worker[w].local
<1>1. /\ worker[w] \in Execution(issued) /\ Sound(c) /\ Done(c) \subseteq stored
      /\ stored \subseteq All /\ worker \in [Worker -> Execution(issued)]
  BY WorkerParts
<1>2. PICK retryable \in BOOLEAN : Leave(w, Failure(retryable))
  BY DEF Interrupt
<1> DEFINE new == [worker[w] EXCEPT !.pc = "commit", !.result = Failure(retryable)]
<1>3. stored \subseteq stored' /\ stored' \subseteq All
  <2>1. PICK good \in SUBSET IF worker[w].pc = "group" THEN Elements(Group(c)) ELSE {} :
          stored' = stored \cup good
    BY DEF Interrupt
  <2>2. good \subseteq Elements(Group(c)) /\ Elements(Group(c)) \subseteq All
    BY <1>1, GroupPart
  <2> QED BY <1>1, <2>1, <2>2
<1>4. worker' = [worker EXCEPT ![w] = new] /\ UNCHANGED <<row, issued, commands>>
  BY <1>1, <1>2 DEF Interrupt, Leave
<1>5. new \in Execution(issued) /\ new.local = c /\ new.result = Failure(retryable)
  BY <1>1, IdleSound DEF Execution, PC
<1>6. Told(new.result, new.local)
  BY <1>5 DEF Told, Failure
<1> HIDE DEF new
<1> QED BY <1>1, <1>3, <1>4, <1>5, <1>6, WorkerStep

\* The result is committed while the lease counts, or refused.
LEMMA CommitStep ==
  ASSUME BackfillInv, NEW w \in Worker, Commit(w)
  PROVE  BackfillInv'
<1> DEFINE c == worker[w].local
           r == worker[w].result
<1>1. /\ worker[w] \in Execution(issued) /\ issued \in Nat /\ Sound(c) /\ Done(c) \subseteq stored
      /\ RowSound(row, stored) /\ stored \subseteq All
  BY WorkerParts
<1>2. /\ worker[w].pc = "commit" /\ UNCHANGED <<issued, stored, commands>>
      /\ worker' = [worker EXCEPT ![w] = Idle]
      /\ \/ Holds(w) /\ r.success /\ row' = Completed(row, r)
         \/ Holds(w) /\ ~r.success /\ row' = Failed(row, r)
         \/ row' = row
  BY DEF Commit
<1>3. Holds(w) => row.status = "RUNNING" /\ Told(r, c)
  BY <1>2 DEF BackfillInv, Carries, Holds, Active
<1>4. r \in Result
  BY <1>1 DEF Execution
<1>5. RowSound(row', stored') /\ \A token : Active(row', token) => Active(row, token)
  <2>1. CASE Holds(w) /\ r.success /\ row' = Completed(row, r)
    <3>1. c.cursor = Len(Selected(c)) /\ r = FinalResult(c)
      BY <1>3, <2>1 DEF Told
    <3>2. /\ Accounted(r.data, stored)
          /\ r.partial => r.data.failed_items # <<>>
          /\ ~r.partial => stored = All
      BY <1>1, <2>1, <3>1, FinalTold
    <3>3. RowSound(Completed(row, r), stored) /\ \A token : ~Active(Completed(row, r), token)
      BY <1>1, <1>3, <1>4, <2>1, <3>2, CompletedSound
    <3> QED BY <1>2, <2>1, <3>3
  <2>2. CASE Holds(w) /\ ~r.success /\ row' = Failed(row, r)
    <3>1. Accounted(r.data, stored)
      <4>1. CASE r.data = NoSummary
        BY <1>4, <4>1 DEF Accounted, NoSummary, Result
      <4>2. CASE c.cursor = Len(Selected(c)) /\ r = FinalResult(c)
        BY <1>1, <4>2, FinalTold
      <4> QED BY <1>3, <2>2, <4>1, <4>2 DEF Told
    <3>2. RowSound(Failed(row, r), stored) /\ \A token : ~Active(Failed(row, r), token)
      BY <1>1, <1>3, <2>2, <3>1, FailedSound
    <3> QED BY <1>2, <2>2, <3>2
  <2>3. CASE row' = row
    BY <1>1, <1>2, <2>3
  <2> QED BY <1>2, <2>1, <2>2, <2>3
<1>6. Idle \in Execution(issued') /\ Sound(Idle.local) /\ Done(Idle.local) \subseteq stored'
      /\ Idle.pc = "idle"
  BY <1>1, <1>2, IdleSound
<1>7. issued' \in Nat /\ issued <= issued' /\ stored' \subseteq All /\ stored \subseteq stored'
      /\ commands' = commands
  BY <1>1, <1>2
<1> QED BY <1>2, <1>5, <1>6, <1>7, StepKeeps

LEMMA CrashStep ==
  ASSUME BackfillInv, NEW w \in Worker, Crash(w)
  PROVE  BackfillInv'
<1>1. issued \in Nat /\ stored \subseteq All
  BY WorkerParts
<1>2. Idle \in Execution(issued) /\ Sound(Idle.local) /\ Done(Idle.local) = {} /\ Idle.pc = "idle"
  BY <1>1, IdleSound
<1> QED BY <1>1, <1>2, WorkerStep DEF Crash

\* Recovery, commands and time change the row alone.
LEMMA RowStep ==
  ASSUME BackfillInv, UNCHANGED <<issued, worker, stored>>,
         commands' \in 0 .. MaxCommands, RowSound(row', stored), Ends(row, row')
  PROVE  BackfillInv'
<1>1. TypeOK'
  BY DEF BackfillInv, TypeOK, RowSound
<1>2. ASSUME NEW w \in Worker PROVE Carries(w)'
  BY DEF BackfillInv, Carries, Holds, Ends
<1> QED BY <1>1, <1>2 DEF BackfillInv

LEMMA BackfillStep == BackfillInv /\ [Next]_vars => BackfillInv'
<1> SUFFICES ASSUME BackfillInv, [Next]_vars PROVE BackfillInv'
  OBVIOUS
<1>1. RowSound(row, stored) /\ commands \in 0 .. MaxCommands /\ MaxCommands \in Nat
  BY HistoryBackfillAssumption DEF BackfillInv, TypeOK
<1>2. ASSUME NEW w \in Worker, ReportBefore(w) \/ ReportAfter(w) PROVE BackfillInv'
  BY <1>2, ReportStep DEF ReportBefore, ReportAfter, PC
<1>3. CASE Recover
  BY <1>1, <1>3, RecoveredSound, RowStep DEF Recover, Ends
<1>4. ASSUME NEW action \in Action, Command(action) PROVE BackfillInv'
  <2>1. commands' \in 0 .. MaxCommands
    BY <1>1, <1>4 DEF Command
  <2>2. RowSound(row', stored) /\ Ends(row, row')
    BY <1>1, <1>4, CommandedSound DEF Command
  <2> QED BY <1>4, <2>1, <2>2, RowStep DEF Command
<1>5. CASE LeaseEnds
  BY <1>1, <1>5, TickedSound, RowStep DEF LeaseEnds
<1>6. CASE UNCHANGED vars
  BY <1>1, <1>6, RowStep DEF vars, Ends
<1> QED
  BY <1>2, <1>3, <1>4, <1>5, <1>6, ClaimStep, FinishStep, DiskStep, GroupStep, InterruptStep,
     CommitStep, CrashStep DEF Next

LEMMA BackfillAlways == Spec => []BackfillInv
<1>1. Init => BackfillInv
  BY BackfillStart
<1>2. BackfillInv /\ [Next]_vars => BackfillInv'
  BY BackfillStep
<1> QED BY <1>1, <1>2, PTL DEF Spec

LEMMA InvProgress == BackfillInv => ProgressSound
<1> SUFFICES ASSUME BackfillInv PROVE ProgressSound
  OBVIOUS
<1>1. RowSound(row, stored) /\ stored \subseteq All
  BY DEF BackfillInv, TypeOK
<1>2. Restorable(row.checkpoint)
      /\ row.checkpoint.base_succeeded + row.checkpoint.succeeded
           = Cardinality(Done(row.checkpoint))
  BY <1>1, SoundCounts DEF RowSound
<1>3. ASSUME row.status = "PARTIAL"
      PROVE  /\ All \ Elements(row.summary.failed_items) \subseteq stored
             /\ row.summary.succeeded + Len(row.summary.failed_items) = Len(Frozen)
             /\ Allowed(row, "retry")
  <2>1. row.summary.failed_items # <<>> /\ Accounted(row.summary, stored)
    BY <1>1, <1>3 DEF RowSound
  <2>2. CheckpointOfRetry[row.summary] # NewCheckpoint
    BY <2>1, RetrySound
  <2>3. Allowed(row, "retry")
    BY <1>3, <2>2 DEF Allowed, HasFailedItems
  <2> QED BY <2>1, <2>3 DEF Accounted
<1>4. row.status = "SUCCEEDED" => stored = All
  BY <1>1 DEF RowSound
<1> QED
  BY <1>2, <1>3, <1>4 DEF ProgressSound, CheckpointRestorable, CountedOnce, ResultTrue

(***************************************************************************)
(* Whatever attempts, lost leases, pauses and retries of failed items came *)
(* before, the saved checkpoint can be restored and counts every symbol    *)
(* once, and the result of the job is true (__call__,                      *)
(* _restore_history_state and the retry of PostgresJobService.command).    *)
(***************************************************************************)
THEOREM Progress == Spec => []ProgressSound
<1>1. BackfillInv => ProgressSound
  BY InvProgress
<1> QED BY <1>1, BackfillAlways, PTL

(***************************************************************************)
(* What the saved checkpoint no longer selects and does not list as failed *)
(* has been stored, for any number of symbols and overlapping workers (the *)
(* group, then its report, in __call__).                                   *)
(***************************************************************************)
THEOREM NoSymbolLost == Spec => []NothingLost
<1>1. BackfillInv => NothingLost
  BY DEF BackfillInv, RowSound, NothingLost
<1> QED BY <1>1, BackfillAlways, PTL

-----------------------------------------------------------------------------
(* The batches of a day.                                                    *)
(*                                                                          *)
(* The one moment that matters is between the reading and the writing of    *)
(* the bars of a commit: the batch is locked, so its stages stay, and every *)
(* ready symbol is among the rows to write or had a bar, which no one takes *)
(* away.  A stage counts as missing only when its absence is known, and as  *)
(* valid only when its value has passed.                                    *)

BatchStatus == {"NONE", "PENDING", "FETCHING", "VALIDATING"} \cup Daily!Terminal
StageStatus == {"NONE", "FETCHED", "MISSING", "FAILED", "VALID", "INVALID"}
Stages == [status: StageStatus, value: Daily!Value \cup {None}, copied: BOOLEAN]
Bars == [value: Good \cup {None}, version: Nat, revisions: Nat]
TaskFields == {"pc", "job", "saved", "next", "retried", "groups", "copied", "todo",
               "rows", "locked"}

\* A stage tells no more than is known.
StageTrue(j, s, g) ==
  /\ g.status = "VALID" => g.value \in Good
  /\ g.status = "MISSING" => Daily!Absent(j, s)

TaskTyped(t) ==
  /\ DOMAIN t = TaskFields /\ t = [x \in TaskFields |-> t[x]]
  /\ t.job \in Daily!Job
  /\ t.copied \subseteq Daily!Symbol \X (Good \cup {None})

\* What a worker is about to write.
CommitCovers(w) ==
  LET j == collector[w].job
      rows == collector[w].rows
  IN  /\ batch[j] \notin Daily!Terminal
      /\ \A s \in DOMAIN rows : rows[s].value \in Good /\ rows[s].version \in Nat \ {0}
                               /\ rows[s].revised \in BOOLEAN
      /\ \A s \in Daily!Symbol : Daily!Ready(Daily!Validated(stage[j][s])) =>
           s \in DOMAIN rows \/ bar[s].version > 0

HistoryTrue ==
  history.symbol # 0 =>
    /\ history.symbol \in Daily!Symbol /\ history.value \in Good
    /\ history.seen \in Bars

DailyInv ==
  /\ batch \in [Daily!Job -> BatchStatus]
  /\ stage \in [Daily!Job -> [Daily!Symbol -> Stages]]
  /\ bar \in [Daily!Symbol -> Bars]
  /\ collector = [w \in Collector |-> collector[w]]
  /\ \A w \in Collector : collector[w] = Daily!Idle \/ TaskTyped(collector[w])
  /\ \A j \in Daily!Job : \A s \in Daily!Symbol : StageTrue(j, s, stage[j][s])
  /\ HistoryTrue
  /\ \A w \in Collector : Daily!Committing(w) => CommitCovers(w)
  /\ \A v, w \in Collector :
       Daily!Committing(v) /\ Daily!Committing(w) /\ collector[v].job = collector[w].job => v = w
  /\ Daily!BatchTruth

\* The parts of DailyInv that concern one worker, one batch.
LEMMA BatchParts ==
  ASSUME DailyInv
  PROVE  /\ batch \in [Daily!Job -> BatchStatus]
         /\ stage \in [Daily!Job -> [Daily!Symbol -> Stages]]
         /\ bar \in [Daily!Symbol -> Bars] /\ HistoryTrue
         /\ \A j \in Daily!Job : \A s \in Daily!Symbol : StageTrue(j, s, stage[j][s])
         /\ \A w \in Collector : ~Daily!At(w, "idle") => TaskTyped(collector[w])
BY DEF DailyInv, Daily!At, Daily!Idle

LEMMA DailyStart == Daily!Init => DailyInv
<1> SUFFICES ASSUME Daily!Init PROVE DailyInv
  OBVIOUS
<1>1. /\ batch \in [Daily!Job -> BatchStatus]
      /\ \A j \in Daily!Job : batch[j] = "NONE"
  BY DEF Daily!Init, BatchStatus
<1>2. Daily!NoStage \in Stages /\ Daily!NoStage.status = "NONE"
  BY DEF Daily!NoStage, Stages, StageStatus
<1>3. stage \in [Daily!Job -> [Daily!Symbol -> Stages]]
      /\ \A j \in Daily!Job : \A s \in Daily!Symbol : stage[j][s] = Daily!NoStage
  BY <1>2 DEF Daily!Init
<1>4. bar \in [Daily!Symbol -> Bars]
  BY DEF Daily!Init, Daily!NoBar, Bars
<1>5. collector = [w \in Collector |-> collector[w]]
      /\ \A w \in Collector : collector[w] = Daily!Idle /\ ~Daily!Committing(w)
  BY DEF Daily!Init, Daily!Committing, Daily!At, Daily!Idle
<1>6. HistoryTrue
  BY DEF Daily!Init, HistoryTrue, Daily!NoStore
<1>7. Daily!BatchTruth
  BY <1>1 DEF Daily!BatchTruth
<1>8. \A j \in Daily!Job : \A s \in Daily!Symbol : StageTrue(j, s, stage[j][s])
  BY <1>2, <1>3 DEF StageTrue
<1> QED BY <1>1, <1>3, <1>4, <1>5, <1>6, <1>7, <1>8 DEF DailyInv

\* The end of a batch stays, as EndsForGood has it.
EndsKept ==
  \A j \in Daily!Job : batch[j] \in Daily!Terminal => batch'[j] = batch[j] /\ stage'[j] = stage[j]

\* How a step of a worker that commits nothing treats a batch: it leaves the
\* batch alone, or stages and validates it while no one commits it.
Staged(j) ==
  \/ batch'[j] = batch[j] /\ stage'[j] = stage[j]
  \/ /\ batch[j] \notin Daily!Terminal /\ batch'[j] \notin Daily!Terminal
     /\ stage'[j] = stage[j] \/ Daily!Free(j)

LEMMA StageStep ==
  ASSUME DailyInv, NEW w \in Collector, NEW new,
         new = Daily!Idle \/ (TaskTyped(new) /\ new.pc # "committing"),
         collector' = [collector EXCEPT ![w] = new],
         UNCHANGED <<bar, history>>,
         batch' \in [Daily!Job -> BatchStatus],
         stage' \in [Daily!Job -> [Daily!Symbol -> Stages]],
         \A j \in Daily!Job : \A s \in Daily!Symbol : StageTrue(j, s, stage'[j][s]),
         \A j \in Daily!Job : Staged(j)
  PROVE  DailyInv' /\ EndsKept
<1>1. /\ collector' = [v \in Collector |-> collector'[v]]
      /\ \A v \in Collector : collector'[v] = IF v = w THEN new ELSE collector[v]
  BY DEF DailyInv
<1>2. \A v \in Collector : (collector[v] = Daily!Idle \/ TaskTyped(collector[v]))'
  BY <1>1 DEF DailyInv, TaskTyped, Daily!Idle
<1>3. ASSUME NEW v \in Collector, Daily!Committing(v)'
      PROVE  v # w /\ collector'[v] = collector[v] /\ Daily!Committing(v)
  BY <1>1, <1>3 DEF Daily!Committing, Daily!At, Daily!Idle
<1>4. ASSUME NEW v \in Collector, Daily!Committing(v)'
      PROVE  CommitCovers(v)'
  <2>1. CommitCovers(v) /\ Daily!Committing(v) /\ collector'[v] = collector[v]
    BY <1>3, <1>4 DEF DailyInv
  <2> DEFINE j == collector[v].job
  <2>2. j \in Daily!Job
    <3>1. ~Daily!At(v, "idle")
      BY <2>1 DEF Daily!Committing, Daily!At
    <3> QED BY <3>1, BatchParts DEF TaskTyped
  <2>3. ~Daily!Free(j)
    BY <2>1 DEF Daily!Free, Daily!JobOf
  <2>4. stage'[j] = stage[j] /\ batch'[j] \notin Daily!Terminal
    BY <2>1, <2>2, <2>3 DEF Staged, CommitCovers
  <2> QED BY <2>1, <2>4 DEF CommitCovers
<1>5. Daily!BatchTruth'
  <2> SUFFICES ASSUME NEW j \in Daily!Job, batch'[j] = "SUCCEEDED", NEW s \in Daily!Symbol
               PROVE  bar[s].version > 0 \/ (Daily!Absent(j, s) /\ stage'[j][s].status = "MISSING")
    BY DEF Daily!BatchTruth, Daily!Absent
  <2>1. batch[j] = "SUCCEEDED" /\ stage'[j] = stage[j]
    BY DEF Staged, Daily!Terminal
  <2> QED BY <2>1 DEF DailyInv, Daily!BatchTruth
<1>6. \A v, u \in Collector :
        Daily!Committing(v)' /\ Daily!Committing(u)' /\ collector'[v].job = collector'[u].job => v = u
  BY <1>3 DEF DailyInv
<1>7. (\A j \in Daily!Job : \A s \in Daily!Symbol : StageTrue(j, s, stage[j][s]))'
  BY DEF StageTrue, Daily!Absent
<1>8. HistoryTrue'
  BY DEF DailyInv, HistoryTrue
<1>9. EndsKept
  BY DEF EndsKept, Staged
<1>10. bar' \in [Daily!Symbol -> Bars]
  BY DEF DailyInv
<1> QED BY <1>1, <1>2, <1>4, <1>5, <1>6, <1>7, <1>8, <1>9, <1>10 DEF DailyInv

\* A task at its next step.
LEMMA TaskStep ==
  ASSUME NEW t, TaskTyped(t), NEW p
  PROVE  /\ TaskTyped([t EXCEPT !.pc = p])
         /\ [t EXCEPT !.pc = p].pc = p
         /\ [t EXCEPT !.pc = p].job = t.job
BY DEF TaskTyped, TaskFields

\* A step that only moves a worker, to another point or to rest.
LEMMA MoveStep ==
  ASSUME DailyInv, NEW w \in Collector, NEW new,
         new = Daily!Idle \/ (TaskTyped(new) /\ new.pc # "committing"),
         collector' = [collector EXCEPT ![w] = new],
         UNCHANGED <<bar, history, batch, stage>>
  PROVE  DailyInv' /\ EndsKept
BY BatchParts, StageStep DEF Staged

\* Stages that are staged while the batch is open and no one commits it.
LEMMA StagingStep ==
  ASSUME DailyInv, NEW w \in Collector, NEW new, TaskTyped(new), new.pc # "committing",
         collector' = [collector EXCEPT ![w] = new],
         UNCHANGED <<bar, history>>, NEW j \in Daily!Job, Daily!Free(j), Daily!MayStage(j),
         NEW staged, Daily!StageMany(j, staged),
         \A s \in Daily!Symbol : s \in DOMAIN staged =>
           staged[s] \in Stages /\ StageTrue(j, s, staged[s])
  PROVE  DailyInv' /\ EndsKept
<1> DEFINE onward == [s \in Daily!Symbol |-> IF s \in DOMAIN staged THEN staged[s] ELSE stage[j][s]]
<1>1. stage' = [stage EXCEPT ![j] = onward] /\ batch' = [batch EXCEPT ![j] = "FETCHING"]
  BY DEF Daily!StageMany
<1>2. onward \in [Daily!Symbol -> Stages] /\ \A s \in Daily!Symbol : StageTrue(j, s, onward[s])
  BY BatchParts
<1> HIDE DEF onward
<1>3. /\ stage' \in [Daily!Job -> [Daily!Symbol -> Stages]]
      /\ \A i \in Daily!Job : \A s \in Daily!Symbol : StageTrue(i, s, stage'[i][s])
      /\ \A i \in Daily!Job : i # j => stage'[i] = stage[i]
  BY <1>1, <1>2, BatchParts
<1>4. batch' \in [Daily!Job -> BatchStatus]
      /\ \A i \in Daily!Job : batch'[i] = IF i = j THEN "FETCHING" ELSE batch[i]
  BY <1>1, BatchParts DEF BatchStatus
<1>5. \A i \in Daily!Job : Staged(i)
  BY <1>3, <1>4 DEF Staged, Daily!MayStage, Daily!Terminal
<1> QED BY <1>3, <1>4, <1>5, StageStep

LEMMA ResultTrueStage ==
  ASSUME NEW j \in Daily!Job, NEW s, NEW g \in Daily!Results(j, s)
  PROVE  g \in Stages /\ StageTrue(j, s, g)
<1>1. CASE g = Daily!FailedStage(j, s)
  <2>1. g = [status |-> IF Daily!Absent(j, s) THEN "MISSING" ELSE "FAILED",
             value |-> None, copied |-> FALSE]
    BY <1>1 DEF Daily!FailedStage, Daily!NoStage
  <2> QED BY <2>1 DEF Stages, StageStatus, StageTrue
<1>2. CASE g \in {Daily!FetchedStage(v) : v \in Daily!Value}
  <2>1. PICK v \in Daily!Value : g = [status |-> "FETCHED", value |-> v, copied |-> FALSE]
    BY <1>2 DEF Daily!FetchedStage
  <2> QED BY <2>1 DEF Stages, StageStatus, StageTrue
<1> QED BY <1>1, <1>2 DEF Daily!Results

LEMMA ValidatedTrue ==
  ASSUME NEW j, NEW s, NEW g \in Stages, StageTrue(j, s, g)
  PROVE  /\ Daily!Validated(g) \in Stages /\ StageTrue(j, s, Daily!Validated(g))
         /\ Daily!Ready(Daily!Validated(g)) => Daily!Validated(g).value \in Good
         /\ Daily!Validated(g).status = "MISSING" => g.status = "MISSING"
         /\ g.status = "MISSING" => Daily!Validated(g).status = "MISSING"
<1>1. CASE g.status # "FETCHED"
  BY <1>1 DEF Daily!Validated, Daily!Ready, StageTrue
<1>2. CASE g.status = "FETCHED"
  <2> DEFINE st == IF g.value \in Good THEN "VALID" ELSE "INVALID"
  <2>1. Daily!Validated(g) = [g EXCEPT !.status = st]
    BY <1>2 DEF Daily!Validated
  <2>2. /\ Daily!Validated(g) \in Stages /\ Daily!Validated(g).status = st
        /\ Daily!Validated(g).value = g.value
    BY <2>1 DEF Stages, StageStatus
  <2> QED BY <1>2, <2>2 DEF Daily!Ready, StageTrue
<1> QED BY <1>1, <1>2

LEMMA ValidatedStagesTrue ==
  ASSUME DailyInv, NEW j \in Daily!Job
  PROVE  /\ Daily!ValidatedStages(j) \in [Daily!Symbol -> Stages]
         /\ \A s \in Daily!Symbol :
              /\ Daily!ValidatedStages(j)[s] = Daily!Validated(stage[j][s])
              /\ StageTrue(j, s, Daily!ValidatedStages(j)[s])
<1>1. \A s \in Daily!Symbol : stage[j][s] \in Stages /\ StageTrue(j, s, stage[j][s])
  BY BatchParts
<1> QED BY <1>1, ValidatedTrue DEF Daily!ValidatedStages

\* One lemma for each kind of step of a worker.
LEMMA ClaimsJob ==
  ASSUME DailyInv, NEW w \in Collector, NEW j \in Daily!Job, Daily!Claim(w, j)
  PROVE  DailyInv' /\ EndsKept
<1> DEFINE new == Daily!Task(j)
<1>1. TaskTyped(new) /\ new.pc # "committing"
  BY DEF Daily!Task, TaskTyped, TaskFields
<1>2. collector' = [collector EXCEPT ![w] = new] /\ UNCHANGED <<bar, history, batch, stage>>
  BY DEF Daily!Claim, Daily!Go
<1> HIDE DEF new
<1> QED BY <1>1, <1>2, MoveStep

LEMMA Moves ==
  ASSUME DailyInv, NEW w \in Collector,
         \/ Daily!Start(w) \/ Daily!Announce(w) \/ Daily!Look(w) \/ Daily!Report(w)
         \/ Daily!RetryScope(w) \/ Daily!ReportRetry(w)
  PROVE  DailyInv' /\ EndsKept
<1> DEFINE t == collector[w]
<1>1. TaskTyped(t)
  BY BatchParts DEF Daily!Start, Daily!Announce, Daily!Look, Daily!Report, Daily!RetryScope,
                    Daily!ReportRetry, Daily!At
<1>2. UNCHANGED <<bar, history, batch, stage>>
  BY DEF Daily!Start, Daily!Announce, Daily!Look, Daily!Report, Daily!RetryScope,
         Daily!ReportRetry
<1>3. SUFFICES \E new : /\ TaskTyped(new) /\ new.pc # "committing"
                        /\ collector' = [collector EXCEPT ![w] = new]
  BY <1>2, MoveStep
<1>4. CASE Daily!Start(w)
  <2> DEFINE next == CASE batch[t.job] \in Daily!Terminal -> "finish"
                       [] batch[t.job] = "NONE" -> "create"
                       [] OTHER -> IF t.saved THEN "collect" ELSE "announce"
             first == IF t.saved THEN "look" ELSE "announce"
             groups == [i \in Daily!Symbol |-> i]
  <2>1. next # "committing" /\ first # "committing"
    OBVIOUS
  <2>2. \/ collector' = [collector EXCEPT ![w] = [t EXCEPT !.pc = first]]
        \/ collector' = [collector EXCEPT ![w] = [t EXCEPT !.pc = next, !.groups = groups]]
    BY <1>4 DEF Daily!Start, Daily!To, Daily!Go, Daily!JobOf
  <2> HIDE DEF next, first, groups
  <2>3. /\ TaskTyped([t EXCEPT !.pc = first]) /\ [t EXCEPT !.pc = first].pc = first
        /\ TaskTyped([t EXCEPT !.pc = next, !.groups = groups])
        /\ [t EXCEPT !.pc = next, !.groups = groups].pc = next
    BY <1>1 DEF TaskTyped, TaskFields
  <2> QED BY <2>1, <2>2, <2>3
<1>5. CASE Daily!Announce(w)
  <2> DEFINE next == IF t.job = "recovery" THEN "look" ELSE "collect"
  <2>1. next # "committing" /\ collector' = [collector EXCEPT ![w] = [t EXCEPT !.pc = next]]
    BY <1>5 DEF Daily!Announce, Daily!To, Daily!Go, Daily!JobOf
  <2> HIDE DEF next
  <2> QED BY <1>1, <2>1, TaskStep
<1>6. CASE Daily!Look(w)
  <2> DEFINE network == {s \in Daily!Symbol : bar[s].version = 0}
             next == IF batch[t.job] = "NONE" THEN "create" ELSE "copy"
             copied == {<<s, bar[s].value>> : s \in Daily!Symbol \ network}
  <2>1. PICK groups :
          \/ collector' = [collector EXCEPT ![w] = [t EXCEPT !.pc = "finish"]]
          \/ collector' = [collector EXCEPT ![w] =
               [t EXCEPT !.pc = next, !.groups = groups, !.copied = copied]]
    BY <1>6 DEF Daily!Look, Daily!To, Daily!Go, Daily!JobOf
  <2>2. next # "committing"
    OBVIOUS
  <2>3. copied \subseteq Daily!Symbol \X (Good \cup {None})
    BY BatchParts DEF Bars
  <2> HIDE DEF next, copied
  <2> DEFINE new == [t EXCEPT !.pc = next, !.groups = groups, !.copied = copied]
  <2>4. TaskTyped(new) /\ new.pc = next
    <3>1. /\ DOMAIN new = TaskFields /\ new = [x \in TaskFields |-> new[x]]
          /\ new.job = t.job /\ new.copied = copied /\ new.pc = next
      BY <1>1 DEF TaskTyped, TaskFields
    <3> HIDE DEF new
    <3> QED BY <1>1, <2>3, <3>1 DEF TaskTyped
  <2>5. TaskTyped([t EXCEPT !.pc = "finish"]) /\ [t EXCEPT !.pc = "finish"].pc = "finish"
    BY <1>1, TaskStep
  <2> HIDE DEF new
  <2> QED BY <2>1, <2>2, <2>4, <2>5 DEF new
<1>7. CASE Daily!Report(w)
  <2> DEFINE new == [t EXCEPT !.pc = "collect", !.next = @ + 1]
  <2>1. collector' = [collector EXCEPT ![w] = new]
    BY <1>7 DEF Daily!Report, Daily!Go
  <2>2. TaskTyped(new) /\ new.pc = "collect"
    BY <1>1 DEF TaskTyped, TaskFields
  <2> QED BY <2>1, <2>2
<1>8. CASE Daily!RetryScope(w)
  <2>1. PICK again :
          collector' = [collector EXCEPT ![w] =
            [t EXCEPT !.pc = IF again = {} THEN "commit" ELSE "retry", !.todo = again]]
    BY <1>8 DEF Daily!RetryScope, Daily!Go
  <2> DEFINE next == IF again = {} THEN "commit" ELSE "retry"
             new == [t EXCEPT !.pc = next, !.todo = again]
  <2>2. TaskTyped(new) /\ new.pc = next /\ next # "committing"
    BY <1>1 DEF TaskTyped, TaskFields
  <2> QED BY <2>1, <2>2
<1>9. CASE Daily!ReportRetry(w)
  <2>1. collector' = [collector EXCEPT ![w] = [t EXCEPT !.pc = "commit"]]
    BY <1>9 DEF Daily!ReportRetry, Daily!To, Daily!Go
  <2>2. TaskTyped([t EXCEPT !.pc = "commit"]) /\ [t EXCEPT !.pc = "commit"].pc = "commit"
    BY <1>1, TaskStep
  <2> QED BY <2>1, <2>2
<1> QED BY <1>4, <1>5, <1>6, <1>7, <1>8, <1>9

LEMMA Rests ==
  ASSUME DailyInv, NEW w \in Collector, Daily!Finish(w) \/ Daily!Crash(w)
  PROVE  DailyInv' /\ EndsKept
<1>1. UNCHANGED <<bar, history, batch, stage>>
      /\ collector' = [collector EXCEPT ![w] = Daily!Idle]
  BY DEF Daily!Finish, Daily!Crash, Daily!Go
<1> QED BY <1>1, MoveStep

\* The batch is created, once.
LEMMA Creates ==
  ASSUME DailyInv, NEW w \in Collector, Daily!Create(w)
  PROVE  DailyInv' /\ EndsKept
<1> DEFINE t == collector[w]
           j == t.job
           next == IF j = "recovery" THEN "copy" ELSE "announce"
<1>1. TaskTyped(t) /\ j \in Daily!Job
  BY BatchParts DEF Daily!Create, Daily!At, TaskTyped
<1>2. UNCHANGED <<bar, history, stage>>
  BY DEF Daily!Create
<1>3. CASE batch[j] = "NONE"
  <2>1. batch' = [batch EXCEPT ![j] = "PENDING"] /\ next # "committing"
        /\ collector' = [collector EXCEPT ![w] = [t EXCEPT !.pc = next]]
    BY <1>3 DEF Daily!Create, Daily!To, Daily!Go, Daily!JobOf
  <2> HIDE DEF next
  <2>2. batch' \in [Daily!Job -> BatchStatus]
        /\ \A i \in Daily!Job : batch'[i] = IF i = j THEN "PENDING" ELSE batch[i]
    BY <1>1, <2>1, BatchParts DEF BatchStatus
  <2>3. \A i \in Daily!Job : Staged(i)
    BY <1>2, <1>3, <2>2 DEF Staged, Daily!Terminal
  <2>4. TaskTyped([t EXCEPT !.pc = next]) /\ [t EXCEPT !.pc = next].pc = next
    BY <1>1, TaskStep
  <2>5. stage' = stage
    BY <1>2
  <2> QED BY <1>2, <2>1, <2>2, <2>3, <2>4, <2>5, BatchParts, StageStep
<1>4. CASE batch[j] # "NONE"
  <2>1. UNCHANGED batch /\ collector' = [collector EXCEPT ![w] = [t EXCEPT !.pc = "fail"]]
    BY <1>4 DEF Daily!Create, Daily!To, Daily!Go, Daily!JobOf
  <2>2. TaskTyped([t EXCEPT !.pc = "fail"]) /\ [t EXCEPT !.pc = "fail"].pc = "fail"
    BY <1>1, TaskStep
  <2> QED BY <1>2, <2>1, <2>2, MoveStep
<1> QED BY <1>3, <1>4

LEMMA Copies ==
  ASSUME DailyInv, NEW w \in Collector, Daily!Copy(w)
  PROVE  DailyInv' /\ EndsKept
<1> DEFINE t == collector[w]
           j == t.job
           symbols == {c[1] : c \in t.copied}
           value(s) == (CHOOSE c \in t.copied : c[1] = s)[2]
           staged == [s \in symbols |-> [status |-> "FETCHED", copied |-> TRUE, value |-> value(s)]]
           next == IF \/ symbols # {} /\ ~Daily!MayStage(j)
                      \/ t.next > Len(t.groups) THEN "fail" ELSE "collect"
<1>1. TaskTyped(t) /\ j \in Daily!Job
  BY BatchParts DEF Daily!Copy, Daily!At, TaskTyped
<1>2. /\ UNCHANGED <<bar, history>> /\ Daily!Free(j) /\ next # "committing"
      /\ collector' = [collector EXCEPT ![w] = [t EXCEPT !.pc = next]]
      /\ \/ UNCHANGED <<batch, stage>>
         \/ Daily!MayStage(j) /\ Daily!StageMany(j, staged)
  BY DEF Daily!Copy, Daily!To, Daily!Go, Daily!JobOf
<1>3. ASSUME NEW s \in symbols
      PROVE  staged[s] \in Stages /\ StageTrue(j, s, staged[s])
  <2>1. \E c \in t.copied : c[1] = s
    OBVIOUS
  <2>2. (CHOOSE c \in t.copied : c[1] = s) \in t.copied
    BY <2>1
  <2>3. value(s) \in Good \cup {None}
    BY <1>1, <2>2 DEF TaskTyped
  <2> HIDE DEF value
  <2>4. staged[s] = [status |-> "FETCHED", copied |-> TRUE, value |-> value(s)]
    OBVIOUS
  <2> QED BY <2>3, <2>4 DEF Stages, StageStatus, StageTrue, Daily!Value
<1>4. DOMAIN staged = symbols
  OBVIOUS
<1> HIDE DEF next, staged, symbols
<1>5. TaskTyped([t EXCEPT !.pc = next]) /\ [t EXCEPT !.pc = next].pc = next
  BY <1>1, TaskStep
<1>6. CASE UNCHANGED <<batch, stage>>
  BY <1>2, <1>5, <1>6, MoveStep
<1>7. CASE Daily!MayStage(j) /\ Daily!StageMany(j, staged)
  BY <1>1, <1>2, <1>3, <1>4, <1>5, <1>7, StagingStep
<1> QED BY <1>2, <1>6, <1>7

LEMMA Collects ==
  ASSUME DailyInv, NEW w \in Collector, Daily!Collect(w)
  PROVE  DailyInv' /\ EndsKept
<1> DEFINE t == collector[w]
           j == t.job
           s == t.groups[t.next + 1]
<1>1. TaskTyped(t) /\ j \in Daily!Job
  BY BatchParts DEF Daily!Collect, Daily!At, TaskTyped
<1>2. PICK next \in {"report", "fail"} :
        /\ UNCHANGED <<bar, history>> /\ Daily!Free(j)
        /\ collector' = [collector EXCEPT ![w] = [t EXCEPT !.pc = next]]
        /\ \/ UNCHANGED <<batch, stage>>
           \/ Daily!MayStage(j) /\ \E g \in Daily!Results(j, s) :
                Daily!StageMany(j, [x \in {s} |-> g])
  BY DEF Daily!Collect, Daily!To, Daily!Go, Daily!JobOf
<1>3. TaskTyped([t EXCEPT !.pc = next]) /\ [t EXCEPT !.pc = next].pc = next
      /\ next # "committing"
  BY <1>1, TaskStep
<1>4. CASE UNCHANGED <<batch, stage>>
  BY <1>2, <1>3, <1>4, MoveStep
<1>5. ASSUME Daily!MayStage(j), NEW g \in Daily!Results(j, s),
             Daily!StageMany(j, [x \in {s} |-> g])
      PROVE  DailyInv' /\ EndsKept
  <2> DEFINE staged == [x \in {s} |-> g]
  <2>1. g \in Stages /\ StageTrue(j, s, g)
    BY <1>1, ResultTrueStage
  <2>2. \A x : x \in DOMAIN staged => staged[x] \in Stages /\ StageTrue(j, x, staged[x])
    BY <2>1
  <2>3. Daily!StageMany(j, staged)
    BY <1>5
  <2> HIDE DEF staged
  <2> QED BY <1>1, <1>2, <1>3, <1>5, <2>2, <2>3, StagingStep
<1> QED BY <1>2, <1>4, <1>5

LEMMA Retries ==
  ASSUME DailyInv, NEW w \in Collector, Daily!Retry(w)
  PROVE  DailyInv' /\ EndsKept
<1> DEFINE t == collector[w]
           j == t.job
<1>1. TaskTyped(t) /\ j \in Daily!Job
  BY BatchParts DEF Daily!Retry, Daily!At, TaskTyped
<1>2. PICK next \in {"retried", "commit", "fail"} :
        /\ UNCHANGED <<bar, history>>
        /\ collector' = [collector EXCEPT ![w] = [t EXCEPT !.pc = next]]
        /\ \/ UNCHANGED <<batch, stage>>
           \/ Daily!Free(j) /\ Daily!MayStage(j) /\ \E new \in [t.todo -> UNION {Daily!Results(j, s) : s \in Daily!Symbol}] :
                (\A s \in t.todo : new[s] \in Daily!Results(j, s)) /\ Daily!StageMany(j, new)
  BY DEF Daily!Retry, Daily!To, Daily!Go, Daily!JobOf
<1>3. TaskTyped([t EXCEPT !.pc = next]) /\ [t EXCEPT !.pc = next].pc = next
      /\ next # "committing"
  BY <1>1, TaskStep
<1>4. CASE UNCHANGED <<batch, stage>>
  BY <1>2, <1>3, <1>4, MoveStep
<1>5. ASSUME Daily!Free(j), Daily!MayStage(j),
             NEW new \in [t.todo -> UNION {Daily!Results(j, s) : s \in Daily!Symbol}],
             \A s \in t.todo : new[s] \in Daily!Results(j, s), Daily!StageMany(j, new)
      PROVE  DailyInv' /\ EndsKept
  <2>1. \A s : s \in DOMAIN new => new[s] \in Stages /\ StageTrue(j, s, new[s])
    BY <1>1, <1>5, ResultTrueStage
  <2> QED BY <1>1, <1>2, <1>3, <1>5, <2>1, StagingStep
<1> QED BY <1>2, <1>4, <1>5

LEMMA Validates ==
  ASSUME DailyInv, NEW w \in Collector, Daily!Validate(w)
  PROVE  DailyInv' /\ EndsKept
<1> DEFINE t == collector[w]
           j == t.job
<1>1. TaskTyped(t) /\ j \in Daily!Job
  BY BatchParts DEF Daily!Validate, Daily!At, TaskTyped
<1>2. /\ UNCHANGED <<bar, history>> /\ Daily!Free(j)
      /\ collector' = [collector EXCEPT ![w] = [t EXCEPT !.pc = "validated"]]
  BY DEF Daily!Validate, Daily!To, Daily!Go, Daily!JobOf
<1>3. TaskTyped([t EXCEPT !.pc = "validated"]) /\ [t EXCEPT !.pc = "validated"].pc = "validated"
  BY <1>1, TaskStep
<1>4. CASE batch[j] \in Daily!Terminal
  <2>1. UNCHANGED <<batch, stage>>
    BY <1>4 DEF Daily!Validate, Daily!JobOf
  <2> QED BY <1>2, <1>3, <2>1, MoveStep
<1>5. CASE batch[j] \notin Daily!Terminal
  <2> DEFINE now == Daily!ValidatedStages(j)
  <2>1. batch' = [batch EXCEPT ![j] = "VALIDATING"] /\ stage' = [stage EXCEPT ![j] = now]
    BY <1>5 DEF Daily!Validate, Daily!JobOf
  <2>2. now \in [Daily!Symbol -> Stages] /\ \A s \in Daily!Symbol : StageTrue(j, s, now[s])
    BY <1>1, ValidatedStagesTrue
  <2> HIDE DEF now
  <2>3. /\ stage' \in [Daily!Job -> [Daily!Symbol -> Stages]]
        /\ \A i \in Daily!Job : \A s \in Daily!Symbol : StageTrue(i, s, stage'[i][s])
        /\ \A i \in Daily!Job : i # j => stage'[i] = stage[i]
    BY <2>1, <2>2, BatchParts
  <2>4. batch' \in [Daily!Job -> BatchStatus]
        /\ \A i \in Daily!Job : batch'[i] = IF i = j THEN "VALIDATING" ELSE batch[i]
    BY <2>1, BatchParts DEF BatchStatus
  <2>5. \A i \in Daily!Job : Staged(i)
    BY <1>2, <1>5, <2>3, <2>4 DEF Staged, Daily!Terminal
  <2> QED BY <1>2, <1>3, <2>3, <2>4, <2>5, StageStep
<1> QED BY <1>4, <1>5

\* The commit reads the bars and locks those that exist.
LEMMA Commits ==
  ASSUME DailyInv, NEW w \in Collector, Daily!Commit(w)
  PROVE  DailyInv' /\ EndsKept
<1> DEFINE t == collector[w]
           j == t.job
           now == Daily!ValidatedStages(j)
           ready == {s \in Daily!Symbol : Daily!Ready(now[s])}
           changed == {s \in ready : Daily!Changed(now[s], bar[s])}
           rows == [s \in changed |-> Daily!RowOf(now[s].value, bar[s])]
           locked == {s \in ready : bar[s].version > 0}
           new == [t EXCEPT !.pc = "committing", !.rows = rows, !.locked = locked]
<1>1. TaskTyped(t) /\ j \in Daily!Job
  BY BatchParts DEF Daily!Commit, Daily!At, TaskTyped
<1>2. UNCHANGED <<batch, stage, bar, history>> /\ Daily!Free(j)
  BY DEF Daily!Commit, Daily!JobOf
<1>3. CASE batch[j] \in Daily!Terminal
  <2>1. collector' = [collector EXCEPT ![w] = [t EXCEPT !.pc = "finish"]]
    BY <1>3 DEF Daily!Commit, Daily!To, Daily!Go, Daily!JobOf
  <2>2. TaskTyped([t EXCEPT !.pc = "finish"]) /\ [t EXCEPT !.pc = "finish"].pc = "finish"
    BY <1>1, TaskStep
  <2> QED BY <1>2, <2>1, <2>2, MoveStep
<1>4. CASE batch[j] \notin Daily!Terminal
  <2>1. collector' = [collector EXCEPT ![w] = new]
    BY <1>4 DEF Daily!Commit, Daily!Go, Daily!JobOf
  <2>2. \A s \in Daily!Symbol :
          /\ now[s] = Daily!Validated(stage[j][s]) /\ bar[s] \in Bars
          /\ Daily!Ready(now[s]) => now[s].value \in Good
    BY <1>1, ValidatedStagesTrue, ValidatedTrue, BatchParts
  <2>3. \A s \in changed : rows[s].value \in Good /\ rows[s].version \in Nat \ {0}
                           /\ rows[s].revised \in BOOLEAN
    <3> SUFFICES ASSUME NEW s \in changed
                 PROVE  rows[s].value \in Good /\ rows[s].version \in Nat \ {0}
                        /\ rows[s].revised \in BOOLEAN
      OBVIOUS
    <3>1. bar[s].version \in Nat /\ now[s].value \in Good
      BY <2>2 DEF Bars
    <3>2. rows[s] = [value |-> now[s].value, version |-> bar[s].version + 1,
                     revised |-> bar[s].version > 0]
      BY DEF Daily!RowOf
    <3>3. (bar[s].version > 0) \in BOOLEAN /\ bar[s].version + 1 \in Nat \ {0}
      BY <3>1
    <3>4. /\ rows[s].value = now[s].value /\ rows[s].version = bar[s].version + 1
          /\ rows[s].revised = (bar[s].version > 0)
      BY <3>2
    <3> QED BY <3>1, <3>3, <3>4
  <2>4. \A s \in Daily!Symbol : Daily!Ready(Daily!Validated(stage[j][s])) =>
          s \in changed \/ bar[s].version > 0
    <3> SUFFICES ASSUME NEW s \in Daily!Symbol, Daily!Ready(Daily!Validated(stage[j][s])),
                        ~(bar[s].version > 0)
                 PROVE  s \in changed
      OBVIOUS
    <3>1. bar[s].version = 0
      BY <2>2 DEF Bars
    <3> QED BY <2>2, <3>1 DEF Daily!Changed
  <2>5. DOMAIN rows = changed
    OBVIOUS
  <2> HIDE DEF rows, changed, ready, locked, now
  <2>6. TaskTyped(new) /\ new.pc = "committing" /\ new.rows = rows /\ new.job = j
    BY <1>1 DEF TaskTyped, TaskFields
  <2> HIDE DEF new
  <2>7. /\ collector' = [v \in Collector |-> collector'[v]]
        /\ \A v \in Collector : collector'[v] = IF v = w THEN new ELSE collector[v]
    BY <2>1 DEF DailyInv
  <2>8. \A v \in Collector : (collector[v] = Daily!Idle \/ TaskTyped(collector[v]))'
    BY <2>6, <2>7 DEF DailyInv, TaskTyped, Daily!Idle
  <2>9. ASSUME NEW v \in Collector, Daily!Committing(v)'
        PROVE  CommitCovers(v)'
    <3>1. CASE v = w
      BY <1>2, <1>4, <2>3, <2>4, <2>5, <2>6, <2>7, <3>1 DEF CommitCovers
    <3>2. CASE v # w
      <4>1. collector'[v] = collector[v] /\ Daily!Committing(v)
        BY <2>7, <2>9, <3>2 DEF Daily!Committing, Daily!At
      <4> QED BY <1>2, <4>1 DEF DailyInv, CommitCovers
    <3> QED BY <3>1, <3>2
  <2>10. ASSUME NEW v \in Collector, NEW u \in Collector, Daily!Committing(v)',
                Daily!Committing(u)', collector'[v].job = collector'[u].job
         PROVE  v = u
    <3>1. \A x \in Collector \ {w} : Daily!Committing(x)' => Daily!Committing(x) /\ collector'[x] = collector[x]
      BY <2>7 DEF Daily!Committing, Daily!At
    <3>2. \A x \in Collector \ {w} : Daily!Committing(x) => collector[x].job # j
      BY <1>2 DEF Daily!Free, Daily!JobOf
    <3>3. collector'[w].job = j
      BY <2>6, <2>7
    <3> QED BY <2>10, <3>1, <3>2, <3>3 DEF DailyInv
  <2>11. Daily!BatchTruth' /\ HistoryTrue'
    BY <1>2 DEF DailyInv, Daily!BatchTruth, Daily!Absent, HistoryTrue
  <2>12. EndsKept
    BY <1>2 DEF EndsKept
  <2>13. (\A i \in Daily!Job : \A s \in Daily!Symbol : StageTrue(i, s, stage[i][s]))'
    BY <1>2 DEF DailyInv, StageTrue, Daily!Absent
  <2> QED BY <1>2, <2>7, <2>8, <2>9, <2>10, <2>11, <2>12, <2>13 DEF DailyInv
<1> QED BY <1>3, <1>4

\* Bars that only gain: every bar that existed still does.
LEMMA CoversMoreBars ==
  ASSUME DailyInv, NEW v \in Collector, CommitCovers(v),
         collector'[v] = collector[v], stage'[collector[v].job] = stage[collector[v].job],
         batch'[collector[v].job] = batch[collector[v].job],
         \A s \in Daily!Symbol : bar[s].version > 0 => bar'[s].version > 0
  PROVE  CommitCovers(v)'
BY DEF CommitCovers

\* The commit writes what it has read.
LEMMA WritesBars ==
  ASSUME DailyInv, NEW w \in Collector, Daily!Committed(w)
  PROVE  DailyInv' /\ EndsKept
<1> DEFINE t == collector[w]
           j == t.job
           rows == t.rows
           now == Daily!ValidatedStages(j)
           ready == {s \in Daily!Symbol : Daily!Ready(Daily!Validated(stage[j][s]))}
           new == [t EXCEPT !.pc = "finish", !.rows = <<>>, !.locked = {}]
<1>1. TaskTyped(t) /\ j \in Daily!Job /\ Daily!Committing(w) /\ CommitCovers(w)
  BY BatchParts DEF Daily!Committed, Daily!Committing, Daily!At, TaskTyped, DailyInv
<1>2. /\ stage' = [stage EXCEPT ![j] = now]
      /\ bar' = [s \in Daily!Symbol |-> IF s \in DOMAIN rows THEN Daily!Upserted(s, rows[s])
                                        ELSE bar[s]]
      /\ batch' = [batch EXCEPT ![j] = Daily!CommitStatus(j, ready)]
      /\ collector' = [collector EXCEPT ![w] = new] /\ history' = history
  BY DEF Daily!Committed, Daily!Go, Daily!JobOf
<1>3. TaskTyped(new) /\ new.pc = "finish"
  BY <1>1 DEF TaskTyped, TaskFields
<1> HIDE DEF new
<1>4. /\ bar' \in [Daily!Symbol -> Bars]
      /\ \A s \in Daily!Symbol : bar[s].version > 0 \/ s \in DOMAIN rows => bar'[s].version > 0
  <2> SUFFICES ASSUME NEW s \in Daily!Symbol
               PROVE  /\ (IF s \in DOMAIN rows THEN Daily!Upserted(s, rows[s]) ELSE bar[s]) \in Bars
                      /\ bar[s].version > 0 \/ s \in DOMAIN rows =>
                           (IF s \in DOMAIN rows THEN Daily!Upserted(s, rows[s]) ELSE bar[s]).version > 0
    BY <1>2
  <2>1. CASE s \in DOMAIN rows
    <3>1. rows[s].value \in Good /\ rows[s].version \in Nat \ {0} /\ bar[s].revisions \in Nat
      BY <1>1, <2>1, BatchParts DEF CommitCovers, Bars
    <3>2. Daily!Upserted(s, rows[s]) =
            [value |-> rows[s].value, version |-> rows[s].version,
             revisions |-> bar[s].revisions + (IF rows[s].revised THEN 1 ELSE 0)]
      BY DEF Daily!Upserted
    <3>3. bar[s].revisions + (IF rows[s].revised THEN 1 ELSE 0) \in Nat
      BY <3>1
    <3> QED BY <2>1, <3>1, <3>2, <3>3 DEF Bars
  <2>2. CASE s \notin DOMAIN rows
    BY <2>2, BatchParts
  <2> QED BY <2>1, <2>2
<1>5. /\ collector' = [v \in Collector |-> collector'[v]]
      /\ \A v \in Collector : collector'[v] = IF v = w THEN new ELSE collector[v]
  BY <1>2 DEF DailyInv
<1>6. \A v \in Collector : (collector[v] = Daily!Idle \/ TaskTyped(collector[v]))'
  BY <1>3, <1>5 DEF DailyInv, TaskTyped, Daily!Idle
<1>7. now \in [Daily!Symbol -> Stages]
      /\ \A s \in Daily!Symbol : now[s] = Daily!Validated(stage[j][s]) /\ StageTrue(j, s, now[s])
  BY <1>1, ValidatedStagesTrue
<1> HIDE DEF now
<1>8. /\ stage' \in [Daily!Job -> [Daily!Symbol -> Stages]]
      /\ stage'[j] = now /\ \A i \in Daily!Job : i # j => stage'[i] = stage[i]
      /\ \A i \in Daily!Job : \A s \in Daily!Symbol : StageTrue(i, s, stage'[i][s])
  BY <1>1, <1>2, <1>7, BatchParts
<1>9. Daily!CommitStatus(j, ready) \in Daily!Terminal
  BY DEF Daily!CommitStatus, Daily!Terminal
<1>10. /\ batch' \in [Daily!Job -> BatchStatus] /\ batch'[j] = Daily!CommitStatus(j, ready)
       /\ \A i \in Daily!Job : i # j => batch'[i] = batch[i]
  BY <1>1, <1>2, <1>9, BatchParts DEF BatchStatus
<1>11. ASSUME NEW v \in Collector, Daily!Committing(v)'
       PROVE  v # w /\ collector'[v] = collector[v] /\ Daily!Committing(v) /\ collector[v].job # j
              /\ collector[v].job \in Daily!Job
  <2>1. v # w /\ collector'[v] = collector[v] /\ Daily!Committing(v)
    BY <1>3, <1>5, <1>11 DEF Daily!Committing, Daily!At
  <2>2. collector[v].job # j
    BY <1>1, <2>1 DEF DailyInv
  <2>3. ~Daily!At(v, "idle")
    BY <2>1 DEF Daily!Committing, Daily!At
  <2> QED BY <2>1, <2>2, <2>3, BatchParts DEF TaskTyped
<1>12. ASSUME NEW v \in Collector, Daily!Committing(v)' PROVE CommitCovers(v)'
  <2>1. CommitCovers(v)
    BY <1>11, <1>12 DEF DailyInv
  <2> QED BY <1>4, <1>8, <1>10, <1>11, <1>12, <2>1, CoversMoreBars
<1>13. \A v, u \in Collector :
         Daily!Committing(v)' /\ Daily!Committing(u)' /\ collector'[v].job = collector'[u].job => v = u
  BY <1>11 DEF DailyInv
<1>14. Daily!BatchTruth'
  <2> SUFFICES ASSUME NEW i \in Daily!Job, batch'[i] = "SUCCEEDED", NEW s \in Daily!Symbol
               PROVE  bar'[s].version > 0 \/ (Daily!Absent(i, s) /\ stage'[i][s].status = "MISSING")
    BY DEF Daily!BatchTruth, Daily!Absent
  <2>1. CASE i # j
    <3>1. bar[s].version > 0 \/ (Daily!Absent(i, s) /\ stage[i][s].status = "MISSING")
      BY <1>10, <2>1 DEF DailyInv, Daily!BatchTruth
    <3> QED BY <1>4, <1>8, <2>1, <3>1
  <2>2. CASE i = j
    <3>1. Daily!CommitStatus(j, ready) = "SUCCEEDED"
      BY <1>10, <2>2
    <3>2. {x \in Daily!Symbol \ ready : stage[j][x].status # "MISSING"} = {}
      BY <3>1 DEF Daily!CommitStatus
    <3>3. CASE s \in ready
      BY <1>1, <1>4, <3>3 DEF CommitCovers
    <3>4. CASE s \notin ready
      <4>1. stage[j][s].status = "MISSING" /\ stage[j][s] \in Stages /\ StageTrue(j, s, stage[j][s])
        BY <1>1, <3>2, <3>4, BatchParts
      <4>2. now[s].status = "MISSING" /\ StageTrue(j, s, now[s])
        BY <1>7, <4>1, ValidatedTrue
      <4> QED BY <1>8, <2>2, <4>2 DEF StageTrue
    <3> QED BY <3>3, <3>4
  <2> QED BY <2>1, <2>2
<1>15. EndsKept
  BY <1>1, <1>8, <1>10 DEF EndsKept, CommitCovers
<1>16. HistoryTrue' /\ (\A i \in Daily!Job : \A s \in Daily!Symbol : StageTrue(i, s, stage[i][s]))'
  BY <1>2, <1>8 DEF DailyInv, HistoryTrue, StageTrue, Daily!Absent
<1> QED BY <1>4, <1>5, <1>6, <1>8, <1>10, <1>12, <1>13, <1>14, <1>15, <1>16 DEF DailyInv

\* A backfill reads a bar, and writes.
LEMMA HistorySteps ==
  ASSUME DailyInv, (\E s \in Daily!Symbol : Daily!HistoryReads(s)) \/ Daily!HistoryWrites
  PROVE  DailyInv' /\ EndsKept
<1>1. UNCHANGED <<batch, stage, collector>>
  BY DEF Daily!HistoryReads, Daily!HistoryWrites
<1>2. /\ bar' \in [Daily!Symbol -> Bars] /\ HistoryTrue'
      /\ \A s \in Daily!Symbol : bar[s].version > 0 => bar'[s].version > 0
  <2>1. CASE \E s \in Daily!Symbol : Daily!HistoryReads(s)
    <3>1. PICK s \in Daily!Symbol : Daily!HistoryReads(s)
      BY <2>1
    <3>2. PICK v \in Good : history' = [symbol |-> s, value |-> v, seen |-> bar[s],
                                        count |-> history.count + 1]
      BY <3>1 DEF Daily!HistoryReads
    <3>3. bar[s] \in Bars /\ bar' = bar
      BY <3>1, BatchParts DEF Daily!HistoryReads
    <3> QED BY <3>2, <3>3, BatchParts DEF HistoryTrue
  <2>2. CASE Daily!HistoryWrites
    <3> DEFINE s == history.symbol
               r == Daily!RowOf(history.value, history.seen)
    <3>1. s \in Daily!Symbol /\ history.value \in Good /\ history.seen \in Bars
      BY <2>2, BatchParts DEF Daily!HistoryWrites, HistoryTrue
    <3>2. HistoryTrue'
      <4>1. history' = [symbol |-> 0, value |-> None, seen |-> Daily!NoBar, count |-> history.count]
        BY <2>2 DEF Daily!HistoryWrites, Daily!NoStore
      <4> QED BY <4>1 DEF HistoryTrue
    <3>3. r.value \in Good /\ r.version \in Nat \ {0}
      BY <3>1 DEF Daily!RowOf, Bars
    <3>4. Daily!Upserted(s, r) \in Bars /\ Daily!Upserted(s, r).version > 0
      <4>1. bar[s].revisions \in Nat
        BY <3>1, BatchParts DEF Bars
      <4>2. bar[s].revisions + (IF r.revised THEN 1 ELSE 0) \in Nat
        BY <4>1
      <4> HIDE DEF r
      <4>3. Daily!Upserted(s, r) = [value |-> r.value, version |-> r.version,
                                    revisions |-> bar[s].revisions + (IF r.revised THEN 1 ELSE 0)]
        BY DEF Daily!Upserted
      <4> QED BY <3>3, <4>2, <4>3 DEF Bars
    <3>5. bar' = bar \/ bar' = [bar EXCEPT ![s] = Daily!Upserted(s, r)]
      BY <2>2 DEF Daily!HistoryWrites
    <3> HIDE DEF s, r
    <3> QED BY <3>1, <3>2, <3>4, <3>5, BatchParts
  <2> QED BY <2>1, <2>2
<1>3. \A w \in Collector : (Daily!Committing(w) => CommitCovers(w))'
  <2> SUFFICES ASSUME NEW w \in Collector, Daily!Committing(w)' PROVE CommitCovers(w)'
    OBVIOUS
  <2>1. CommitCovers(w)
    BY <1>1 DEF DailyInv, Daily!Committing, Daily!At
  <2> QED BY <1>1, <1>2, <2>1, CoversMoreBars
<1>4. Daily!BatchTruth'
  BY <1>1, <1>2 DEF DailyInv, Daily!BatchTruth, Daily!Absent
<1>5. EndsKept
  BY <1>1 DEF EndsKept
<1>6. /\ (collector = [w \in Collector |-> collector[w]])'
      /\ (\A w \in Collector : collector[w] = Daily!Idle \/ TaskTyped(collector[w]))'
      /\ (\A j \in Daily!Job : \A s \in Daily!Symbol : StageTrue(j, s, stage[j][s]))'
      /\ (\A v, w \in Collector : Daily!Committing(v) /\ Daily!Committing(w)
            /\ collector[v].job = collector[w].job => v = w)'
  BY <1>1 DEF DailyInv, TaskTyped, StageTrue, Daily!Absent, Daily!Committing, Daily!At, Daily!Idle
<1> QED BY <1>1, <1>2, <1>3, <1>4, <1>5, <1>6 DEF DailyInv

LEMMA DailyStep == DailyInv /\ [Daily!Next]_(Daily!vars) => DailyInv' /\ EndsKept
<1> SUFFICES ASSUME DailyInv, [Daily!Next]_(Daily!vars) PROVE DailyInv' /\ EndsKept
  OBVIOUS
<1>1. CASE UNCHANGED Daily!vars
  <2>1. UNCHANGED <<batch, stage, bar, collector, history>>
    BY <1>1 DEF Daily!vars
  <2>2. DailyInv'
    BY <2>1 DEF DailyInv, TaskTyped, StageTrue, HistoryTrue, CommitCovers, Daily!Absent,
                Daily!Committing, Daily!At, Daily!Idle, Daily!BatchTruth
  <2> QED BY <2>1, <2>2 DEF EndsKept
<1>2. ASSUME NEW w \in Collector, Daily!Step(w) PROVE DailyInv' /\ EndsKept
  BY <1>2, Moves, Rests, Creates, Copies, Collects, Retries, Validates, Commits, WritesBars
     DEF Daily!Step
<1> QED BY <1>1, <1>2, ClaimsJob, Rests, HistorySteps DEF Daily!Next

LEMMA DailyAlways == Daily!Spec => []DailyInv
<1>1. Daily!Init => DailyInv
  BY DailyStart
<1>2. DailyInv /\ [Daily!Next]_(Daily!vars) => DailyInv'
  BY DailyStep
<1> QED BY <1>1, <1>2, PTL DEF Daily!Spec

(***************************************************************************)
(* A batch that succeeded has a bar for every symbol whose absence is not  *)
(* known, and nothing that failed validation is in the store: overlapping  *)
(* workers, backfills between the reading and the writing of a commit, and *)
(* stages staged again after their validation do not break it              *)
(* (DailyDataService.validate and commit).                                 *)
(***************************************************************************)
THEOREM Batches == Daily!Spec => [](Daily!BatchTruth /\ Daily!OnlyValidated)
<1>1. DailyInv => Daily!BatchTruth /\ Daily!OnlyValidated
  BY DEF DailyInv, Daily!OnlyValidated, Bars
<1> QED BY <1>1, DailyAlways, PTL

(***************************************************************************)
(* A batch that has ended keeps its status and its stages, whatever a      *)
(* worker that lost its lease still brings (stage_many, validate and       *)
(* _commit_stages ask for the status of the locked batch).                 *)
(***************************************************************************)
THEOREM BatchesEnd == Daily!Spec => Daily!EndsForGood
<1>1. DailyInv /\ [Daily!Next]_(Daily!vars) => EndsKept
  BY DailyStep
<1>3. DailyInv /\ [Daily!Next]_(Daily!vars) =>
        [\A j \in Daily!Job : batch[j] \in Daily!Terminal =>
           batch'[j] = batch[j] /\ stage'[j] = stage[j]]_(Daily!vars)
  BY <1>1 DEF EndsKept
<1> QED BY <1>3, DailyAlways, PTL DEF Daily!Spec, Daily!EndsForGood

-----------------------------------------------------------------------------
(* The adjusted prices of a security.                                       *)

Prices == [asOf : Date \cup {0}, content : Good,
           lifecycle : {"CURRENT", "SUPERSEDED"}, fresh : BOOLEAN]
RunStatus == {"none"} \cup Adjusted!Active \cup Adjusted!Terminal
Runs == [status : RunStatus, asOf : Date \cup {0}, input : Nat, activated : Nat]
Ended == [by : Key \cup {"import"}, version : Nat]
HandlerPC == {"idle", "fetch", "validate", "gate", "activate", "fail"}
Handlers == [pc : HandlerPC, run : Key \cup {"none"}, window : Good \cup {Bad},
             seen : Nat, code : {"none", "FAILED", "TIMED_OUT"}]

AdjustedTyped ==
  /\ revision \in [Date -> Nat]
  /\ dataset \in Seq(Prices)
  /\ run \in [Key -> Runs]
  /\ \A k \in Key : run[k].status # "none" => run[k].asOf \in Date
  /\ handler \in [Collector -> Handlers]
  /\ ends \in Seq(Ended)
  /\ told \subseteq [run : Key, good : BOOLEAN]

\* A handler works on a run that was submitted, and what it is about to
\* activate has passed the validation and the gate of that run.
HandlerSound(w, runs, past) ==
  /\ w.pc # "idle" => w.run \in Key /\ runs[w.run].status # "none"
  /\ w.pc = "gate" => w.window \in Good
  /\ w.pc = "activate" => /\ w.window \in Good
                          /\ [run |-> w.run, window |-> w.window, seen |-> w.seen] \in past
  /\ w.pc = "fail" => w.code \in {"FAILED", "TIMED_OUT"}
HandlersSound == \A h \in Collector : HandlerSound(handler[h], run, gated)

EndsKnown == \A n \in DOMAIN ends : ends[n].version <= Len(dataset)

AdjustedInv == /\ AdjustedTyped /\ HandlersSound /\ EndsKnown
               /\ Adjusted!CurrentTrue /\ Adjusted!RunsTrue /\ Adjusted!AnswersTrue

LEMMA PricesWritten ==
  ASSUME NEW p \in Prices, NEW b \in BOOLEAN
  PROVE  /\ [p EXCEPT !.fresh = b] \in Prices
         /\ [p EXCEPT !.fresh = b].asOf = p.asOf /\ [p EXCEPT !.fresh = b].content = p.content
         /\ [p EXCEPT !.fresh = b].lifecycle = p.lifecycle /\ [p EXCEPT !.fresh = b].fresh = b
         /\ [p EXCEPT !.lifecycle = "SUPERSEDED"] \in Prices
         /\ [p EXCEPT !.lifecycle = "SUPERSEDED"].asOf = p.asOf
         /\ [p EXCEPT !.lifecycle = "SUPERSEDED"].content = p.content
         /\ [p EXCEPT !.lifecycle = "SUPERSEDED"].lifecycle = "SUPERSEDED"
BY DEF Prices

\* One version more, or none, and the last is that of d and x.
LastOne(s, d, x) ==
  /\ s \in Seq(Prices) /\ Len(s) \in Nat /\ Len(s) > 0
  /\ Len(dataset) \in Nat /\ (Len(s) = Len(dataset) \/ Len(s) = Len(dataset) + 1)
  /\ \A v \in DOMAIN s : s[v].lifecycle = "CURRENT" <=> v = Len(s)
  /\ s[Len(s)].fresh = TRUE /\ s[Len(s)].asOf = d /\ s[Len(s)].content = x
Keeps(s) ==
  \A v \in DOMAIN dataset : v \in DOMAIN s /\ s[v].asOf = dataset[v].asOf
                            /\ s[v].content = dataset[v].content

\* What is stored becomes the last version, is current and fresh, and leaves
\* the prices of every version before.
LEMMA StoredLast ==
  ASSUME dataset \in Seq(Prices), NEW d \in Date \cup {0}, NEW x \in Good,
         \A v \in DOMAIN dataset : dataset[v].lifecycle = "CURRENT" <=> v = Len(dataset),
         NEW s, s = Adjusted!Stored(d, x)
  PROVE  LastOne(s, d, x) /\ Keeps(s)
<1> DEFINE L == Len(dataset)
           same == dataset # <<>> /\ dataset[L].asOf = d /\ dataset[L].content = x
           old == [v \in DOMAIN dataset |-> [dataset[v] EXCEPT !.lifecycle = "SUPERSEDED"]]
           new == [asOf |-> d, content |-> x, lifecycle |-> "CURRENT", fresh |-> TRUE]
<1>1. /\ L \in Nat /\ DOMAIN dataset = 1 .. L /\ dataset \in [1 .. L -> Prices]
  OBVIOUS
<1>2. CASE same
  <2>1. L \in 1 .. L
    BY <1>1, <1>2
  <2>2. Adjusted!Stored(d, x) = [dataset EXCEPT ![L].fresh = TRUE]
    BY <1>2 DEF Adjusted!Stored
  <2> DEFINE p == [dataset[L] EXCEPT !.fresh = TRUE]
  <2>3. s = [dataset EXCEPT ![L] = p]
    BY <2>2
  <2>4. /\ DOMAIN s = 1 .. L
        /\ \A v \in 1 .. L : /\ s[v] \in Prices /\ s[v].lifecycle = dataset[v].lifecycle
                             /\ s[v].asOf = dataset[v].asOf /\ s[v].content = dataset[v].content
                             /\ v = L => s[v].fresh = TRUE
    <3>1. dataset[L] \in Prices
      BY <1>1, <2>1
    <3>2. /\ p \in Prices /\ p.lifecycle = dataset[L].lifecycle /\ p.fresh = TRUE
          /\ p.asOf = dataset[L].asOf /\ p.content = dataset[L].content
      BY <3>1, PricesWritten, Zenon
    <3> HIDE DEF p
    <3> QED BY <1>1, <2>1, <2>3, <3>2
  <2> HIDE DEF p
  <2>5. s \in Seq(Prices) /\ Len(s) = L
    <3>1. s \in [1 .. L -> Prices]
      BY <1>1, <2>3, <2>4
    <3> QED BY <1>1, <3>1
  <2>6. \A v \in DOMAIN s : s[v].lifecycle = "CURRENT" <=> v = Len(s)
    BY <1>1, <2>4, <2>5
  <2>8. s[L].fresh = TRUE /\ s[L].asOf = d /\ s[L].content = x
    BY <1>2, <2>1, <2>4
  <2>9. \A v \in DOMAIN dataset : v \in DOMAIN s /\ s[v].asOf = dataset[v].asOf
                                  /\ s[v].content = dataset[v].content
    BY <1>1, <2>4, Zenon
  <2>10. /\ Len(s) \in Nat /\ Len(s) > 0 /\ L \in Nat /\ (Len(s) = L \/ Len(s) = L + 1)
    <3>1. L \in Nat /\ L > 0 /\ Len(s) = L
      BY <1>1, <2>5, <2>1
    <3> HIDE DEF L
    <3> QED BY <3>1
  <2>11. s[Len(s)].fresh = TRUE /\ s[Len(s)].asOf = d /\ s[Len(s)].content = x
    BY <2>5, <2>8
  <2> QED BY <2>5, <2>6, <2>9, <2>10, <2>11, Zenon DEF LastOne, Keeps
<1>3. CASE ~same
  <2>1. Adjusted!Stored(d, x) = Append(old, new)
    BY <1>3 DEF Adjusted!Stored
  <2>2. /\ DOMAIN old = 1 .. L
        /\ \A v \in 1 .. L : /\ old[v] \in Prices /\ old[v].lifecycle = "SUPERSEDED"
                             /\ old[v].asOf = dataset[v].asOf /\ old[v].content = dataset[v].content
    <3>1. \A v \in 1 .. L : old[v] = [dataset[v] EXCEPT !.lifecycle = "SUPERSEDED"]
      BY <1>1
    <3>2. \A v \in 1 .. L : dataset[v] \in Prices
      BY <1>1
    <3> QED BY <1>1, <3>1, <3>2, PricesWritten, Zenon
  <2>3. old \in Seq(Prices) /\ Len(old) = L
    BY <1>1, <2>2
  <2>4. new \in Prices /\ new.lifecycle = "CURRENT" /\ new.fresh = TRUE /\ new.asOf = d /\ new.content = x
    BY DEF Prices
  <2> HIDE DEF old, new
  <2>5. /\ s \in Seq(Prices) /\ Len(s) = L + 1 /\ DOMAIN s = 1 .. L + 1
        /\ s[L + 1] = new /\ \A v \in 1 .. L : s[v] = old[v]
    BY <1>1, <2>1, <2>3, <2>4
  <2>6. \A v \in DOMAIN s : s[v].lifecycle = "CURRENT" <=> v = Len(s)
    BY <1>1, <2>2, <2>4, <2>5
  <2> QED BY <1>1, <2>2, <2>4, <2>5, <2>6 DEF LastOne, Keeps
<1> QED BY <1>2, <1>3

-----------------------------------------------------------------------------
(* What the steps of adjusted prices have in common.                        *)

\* The attempts that have ended explain the versions up to m, and no other.
UpTo(es, m) == \A n \in DOMAIN es : es[n].version <= m
Explained(es, m) == \A v \in 1 .. m : \E n \in DOMAIN es : es[n].version = v

LEMMA Appended ==
  ASSUME NEW S, NEW es \in Seq(S), NEW e \in S
  PROVE  /\ Append(es, e) \in Seq(S) /\ Len(es) \in Nat /\ DOMAIN es = 1 .. Len(es)
         /\ Len(Append(es, e)) = Len(es) + 1 /\ DOMAIN Append(es, e) = 1 .. Len(es) + 1
         /\ Append(es, e)[Len(es) + 1] = e
         /\ \A n \in 1 .. Len(es) : Append(es, e)[n] = es[n]
OBVIOUS

LEMMA VersionEnded ==
  ASSUME NEW es \in Seq(Ended), NEW by \in Key \cup {"import"}, NEW m \in Nat, NEW k \in Nat,
         k > 0, k = m \/ k = m + 1, UpTo(es, m), Explained(es, m)
  PROVE  LET t == Append(es, [by |-> by, version |-> k]) IN
         t \in Seq(Ended) /\ UpTo(t, k) /\ Explained(t, k) /\ t[Len(t)].version = k
<1> DEFINE e == [by |-> by, version |-> k]
           t == Append(es, e)
<1>0. e \in Ended /\ e.version = k
  BY DEF Ended
<1> HIDE DEF e
<1>1. /\ t \in Seq(Ended) /\ Len(es) \in Nat /\ DOMAIN es = 1 .. Len(es)
      /\ Len(t) = Len(es) + 1 /\ DOMAIN t = 1 .. Len(es) + 1
      /\ t[Len(es) + 1] = e /\ \A n \in 1 .. Len(es) : t[n] = es[n]
  <2>1. e \in Ended
    BY <1>0
  <2> QED BY <2>1, Appended
<1> HIDE DEF t
<1>2. \A n \in 1 .. Len(es) : es[n].version \in Nat /\ es[n].version <= m
  <2>1. \A n \in 1 .. Len(es) : es[n] \in Ended
    BY <1>1
  <2>2. \A n \in 1 .. Len(es) : es[n].version \in Nat
    BY <2>1 DEF Ended
  <2>3. \A n \in 1 .. Len(es) : es[n].version <= m
    BY <1>1, Zenon DEF UpTo
  <2> QED BY <2>2, <2>3, Zenon
<1>3. ASSUME NEW n \in DOMAIN t PROVE t[n].version <= k
  <2>1. CASE n \in 1 .. Len(es)
    <3>1. t[n].version \in Nat /\ t[n].version <= m
      BY <2>1, <1>1, <1>2
    <3> QED BY <3>1
  <2>2. CASE n = Len(es) + 1
    <3>1. t[n].version = k
      BY <2>2, <1>0, <1>1
    <3> QED BY <3>1
  <2> QED BY <2>1, <2>2, <1>1
<1>4. ASSUME NEW v \in 1 .. k PROVE \E n \in DOMAIN t : t[n].version = v
  <2>1. CASE v = k
    <3>1. Len(es) + 1 \in DOMAIN t /\ t[Len(es) + 1].version = v
      BY <2>1, <1>0, <1>1
    <3> QED BY <3>1
  <2>2. CASE v # k
    <3>1. v \in 1 .. m
      BY <2>2
    <3>2. PICK n \in DOMAIN es : es[n].version = v
      BY <3>1 DEF Explained
    <3>3. n \in DOMAIN t /\ t[n].version = v
      BY <3>2, <1>1
    <3> QED BY <3>3
  <2> QED BY <2>1, <2>2
<1>5. t[Len(t)].version = k
  BY <1>0, <1>1
<1> QED BY <1>1, <1>3, <1>4, <1>5, Zenon DEF t, e, UpTo, Explained

\* Prices that are stored, by whoever, are what readers then find.
LEMMA StoreKeeps ==
  ASSUME AdjustedInv, NEW d \in Date \cup {0}, NEW x \in Good, NEW by \in Key \cup {"import"},
         dataset' = Adjusted!Stored(d, x), Adjusted!Ends(by, Len(dataset'))
  PROVE  /\ dataset' \in Seq(Prices) /\ ends' \in Seq(Ended) /\ EndsKnown' /\ Adjusted!CurrentTrue'
         /\ Len(dataset') \in DOMAIN dataset' /\ Len(dataset') \in Nat /\ Len(dataset') > 0
         /\ dataset'[Len(dataset')].asOf = d /\ dataset'[Len(dataset')].content = x
         /\ \A v \in DOMAIN dataset : v \in DOMAIN dataset' /\ dataset'[v].asOf = dataset[v].asOf
                                      /\ dataset'[v].content = dataset[v].content
<1>1. dataset \in Seq(Prices) /\ ends \in Seq(Ended)
  BY Zenon DEF AdjustedInv, AdjustedTyped
<1>2. \A v \in DOMAIN dataset : dataset[v].lifecycle = "CURRENT" <=> v = Len(dataset)
  BY Zenon DEF AdjustedInv, Adjusted!CurrentTrue, Adjusted!Current
<1>3. Len(dataset) \in Nat /\ DOMAIN dataset = 1 .. Len(dataset)
  BY <1>1
<1>4. UpTo(ends, Len(dataset)) /\ Explained(ends, Len(dataset))
  BY <1>3, Zenon DEF AdjustedInv, EndsKnown, Adjusted!CurrentTrue, Adjusted!Current, UpTo, Explained
<1>5. LastOne(dataset', d, x) /\ Keeps(dataset')
  BY <1>1, <1>2, StoredLast
<1>6. /\ dataset' \in Seq(Prices) /\ Len(dataset') \in Nat /\ Len(dataset') > 0
      /\ (Len(dataset') = Len(dataset) \/ Len(dataset') = Len(dataset) + 1)
  BY <1>5, Zenon DEF LastOne
<1>7. /\ \A v \in DOMAIN dataset' : dataset'[v].lifecycle = "CURRENT" <=> v = Len(dataset')
      /\ dataset'[Len(dataset')].fresh = TRUE
      /\ dataset'[Len(dataset')].asOf = d /\ dataset'[Len(dataset')].content = x
  BY <1>5, Zenon DEF LastOne
<1>8. ends' = Append(ends, [by |-> by, version |-> Len(dataset')])
  BY DEF Adjusted!Ends
<1>9. /\ ends' \in Seq(Ended) /\ UpTo(ends', Len(dataset')) /\ Explained(ends', Len(dataset'))
      /\ ends'[Len(ends')].version = Len(dataset')
  BY <1>1, <1>3, <1>4, <1>6, <1>8, VersionEnded, ZenonT(30)
<1>10. DOMAIN dataset' = 1 .. Len(dataset')
  BY <1>6
<1>11. Len(dataset') \in DOMAIN dataset' /\ ends'[Len(ends')].version > 0
  <2>1. Len(dataset') > 0 /\ Len(dataset') \in 1 .. Len(dataset')
    BY <1>6
  <2> QED BY <2>1, <1>9, <1>10, Zenon
<1>12. EndsKnown'
  BY <1>9, Zenon DEF EndsKnown, UpTo
<1>13. Adjusted!CurrentTrue'
  BY <1>7, <1>9, <1>10, <1>11, Zenon DEF Adjusted!CurrentTrue, Adjusted!Current, Explained
<1> QED BY <1>5, <1>6, <1>7, <1>9, <1>11, <1>12, <1>13, Zenon DEF Keeps

\* What RunsTrue says of one run.
RunTrue(k) ==
  /\ \A m, n \in DOMAIN ends : ends[m].by = k /\ ends[n].by = k => m = n
  /\ \A n \in DOMAIN ends : ends[n].by = k =>
       /\ run[k].status \in {"SUCCEEDED", "FAILED", "TIMED_OUT"}
       /\ ends[n].version = run[k].activated
  /\ run[k].status = "SUCCEEDED" =>
       /\ run[k].activated \in DOMAIN dataset
       /\ dataset[run[k].activated].asOf = run[k].asOf
       /\ [run |-> k, window |-> dataset[run[k].activated].content, seen |-> run[k].input] \in gated
  /\ run[k].status # "SUCCEEDED" => run[k].activated = 0

LEMMA RunTrueAll == Adjusted!RunsTrue <=> \A k \in Key : RunTrue(k)
BY Zenon DEF Adjusted!RunsTrue, RunTrue

\* A step that stores nothing and ends no run by success or failure.
LEMMA RunsMoved ==
  ASSUME AdjustedInv, UNCHANGED <<dataset, ends>>, gated \subseteq gated',
         \A k \in Key : \/ run'[k] = run[k]
                        \/ /\ run[k].status \notin {"SUCCEEDED", "FAILED", "TIMED_OUT"}
                           /\ run'[k].status # "SUCCEEDED"
                           /\ run'[k].activated = run[k].activated
  PROVE  EndsKnown' /\ Adjusted!CurrentTrue' /\ Adjusted!RunsTrue'
<1>1. EndsKnown' /\ Adjusted!CurrentTrue'
  BY DEF AdjustedInv, EndsKnown, Adjusted!CurrentTrue, Adjusted!Current
<1>2. ASSUME NEW k \in Key
      PROVE  RunTrue(k)'
  <2>1. RunTrue(k)
    BY RunTrueAll, Zenon DEF AdjustedInv
  <2>2. CASE run'[k] = run[k]
    <3>1. \A n \in DOMAIN ends' : ends'[n].by = k =>
            run'[k].status \in {"SUCCEEDED", "FAILED", "TIMED_OUT"} /\ ends'[n].version = run'[k].activated
      BY <2>1, <2>2, Zenon DEF RunTrue
    <3>2. run'[k].status = "SUCCEEDED" =>
            /\ run'[k].activated \in DOMAIN dataset'
            /\ dataset'[run'[k].activated].asOf = run'[k].asOf
            /\ [run |-> k, window |-> dataset'[run'[k].activated].content, seen |-> run'[k].input] \in gated'
      BY <2>1, <2>2, Zenon DEF RunTrue
    <3> QED BY <2>1, <2>2, <3>1, <3>2, Zenon DEF RunTrue
  <2>3. CASE /\ run[k].status \notin {"SUCCEEDED", "FAILED", "TIMED_OUT"}
             /\ run'[k].status # "SUCCEEDED" /\ run'[k].activated = run[k].activated
    <3>1. \A n \in DOMAIN ends : ends[n].by # k
      BY <2>1, <2>3, Zenon DEF RunTrue
    <3>2. run[k].status # "SUCCEEDED"
      BY <2>3
    <3>3. run'[k].activated = 0
      BY <2>1, <2>3, <3>2, Zenon DEF RunTrue
    <3> QED BY <2>3, <3>1, <3>3, Zenon DEF RunTrue
  <2> QED BY <2>2, <2>3, Zenon
<1>3. (\A k \in Key : RunTrue(k))' => Adjusted!RunsTrue'
  BY Zenon DEF Adjusted!RunsTrue, RunTrue
<1> QED BY <1>1, <1>2, <1>3, Zenon

\* A step of one handler leaves the others sound.
LEMMA HandlersKeep ==
  ASSUME AdjustedInv, NEW h \in Collector, NEW w \in Handlers,
         handler' = [handler EXCEPT ![h] = w], HandlerSound(w, run', gated'),
         gated \subseteq gated',
         \A k \in Key : run[k].status # "none" => run'[k].status # "none"
  PROVE  handler' \in [Collector -> Handlers] /\ HandlersSound'
<1>1. handler \in [Collector -> Handlers]
  BY DEF AdjustedInv, AdjustedTyped
<1>2. handler' \in [Collector -> Handlers]
  BY <1>1
<1>3. ASSUME NEW g \in Collector PROVE HandlerSound(handler'[g], run', gated')
  <2>1. CASE g = h
    BY <2>1, <1>1
  <2>2. CASE g # h
    <3>1. handler'[g] = handler[g] /\ HandlerSound(handler[g], run, gated)
      BY <2>2, <1>1 DEF AdjustedInv, HandlersSound
    <3> QED BY <3>1, Zenon DEF HandlerSound
  <2> QED BY <2>1, <2>2
<1> QED BY <1>2, <1>3 DEF HandlersSound

\* Runs that have ended stay so, and an answer is how its run has ended.
LEMMA AnswersKeep ==
  ASSUME AdjustedInv,
         \A k \in Key : run[k].status \in Adjusted!Terminal => run'[k].status = run[k].status,
         \/ told' = told
         \/ \E k \in Key, good \in BOOLEAN :
              /\ Adjusted!Answer(k, good)
              /\ run'[k].status \in IF good THEN {"SUCCEEDED"} ELSE Adjusted!Failed
  PROVE  told' \subseteq [run : Key, good : BOOLEAN] /\ Adjusted!AnswersTrue'
<1>1. ASSUME NEW a \in told
      PROVE  /\ a \in [run : Key, good : BOOLEAN]
             /\ run'[a.run].status \in IF a.good THEN {"SUCCEEDED"} ELSE Adjusted!Failed
  <2>1. a.run \in Key /\ run[a.run].status \in IF a.good THEN {"SUCCEEDED"} ELSE Adjusted!Failed
    BY DEF AdjustedInv, AdjustedTyped, Adjusted!AnswersTrue
  <2>2. run[a.run].status \in Adjusted!Terminal
    BY <2>1 DEF Adjusted!Terminal
  <2> QED BY <2>1, <2>2 DEF AdjustedInv, AdjustedTyped
<1>2. CASE told' = told
  BY <1>1, <1>2, Zenon DEF Adjusted!AnswersTrue
<1>3. ASSUME NEW k \in Key, NEW good \in BOOLEAN, Adjusted!Answer(k, good),
             run'[k].status \in IF good THEN {"SUCCEEDED"} ELSE Adjusted!Failed
      PROVE  told' \subseteq [run : Key, good : BOOLEAN] /\ Adjusted!AnswersTrue'
  <2>1. \A a \in told' : a \in told \/ a = [run |-> k, good |-> good]
    BY <1>3 DEF Adjusted!Answer
  <2>2. [run |-> k, good |-> good] \in [run : Key, good : BOOLEAN]
    OBVIOUS
  <2>3. \A a \in told' : /\ a \in [run : Key, good : BOOLEAN]
                         /\ run'[a.run].status \in IF a.good THEN {"SUCCEEDED"} ELSE Adjusted!Failed
    BY <1>1, <1>3, <2>1, <2>2
  <2> QED BY <2>3, Zenon DEF Adjusted!AnswersTrue
<1> QED BY <1>2, <1>3

\* A step of a handler that stores nothing and does not end its run, unless as
\* superseded.
LEMMA HandlerStep ==
  ASSUME AdjustedInv, UNCHANGED <<revision, dataset, ends>>,
         NEW h \in Collector, NEW w \in Handlers,
         handler' = [handler EXCEPT ![h] = w], HandlerSound(w, run', gated'),
         gated \subseteq gated', run' \in [Key -> Runs],
         \A k \in Key : \/ run'[k] = run[k]
                        \/ /\ run[k].status \in Adjusted!Active
                           /\ run'[k].status \in Adjusted!Active \cup {"SUPERSEDED"}
                           /\ run'[k].asOf = run[k].asOf /\ run'[k].activated = run[k].activated,
         \/ told' = told
         \/ \E k \in Key, good \in BOOLEAN :
              /\ Adjusted!Answer(k, good)
              /\ run'[k].status \in IF good THEN {"SUCCEEDED"} ELSE Adjusted!Failed
  PROVE  AdjustedInv'
<1>1. ASSUME NEW k \in Key
      PROVE  /\ \/ run'[k] = run[k]
                \/ /\ run[k].status \notin {"SUCCEEDED", "FAILED", "TIMED_OUT"}
                   /\ run'[k].status # "SUCCEEDED" /\ run'[k].activated = run[k].activated
             /\ run[k].status # "none" => run'[k].status # "none"
             /\ run[k].status \in Adjusted!Terminal => run'[k].status = run[k].status
             /\ run'[k].status # "none" => run'[k].asOf \in Date
  <2>1. run[k].status # "none" => run[k].asOf \in Date
    BY DEF AdjustedInv, AdjustedTyped
  <2>2. CASE run'[k] = run[k]
    BY <2>1, <2>2
  <2>3. CASE run'[k] # run[k]
    <3>1. /\ run[k].status \in Adjusted!Active
          /\ run'[k].status \in Adjusted!Active \cup {"SUPERSEDED"}
          /\ run'[k].asOf = run[k].asOf /\ run'[k].activated = run[k].activated
      BY <2>3
    <3> QED BY <2>1, <3>1 DEF Adjusted!Active, Adjusted!Terminal, Adjusted!Failed
  <2> QED BY <2>2, <2>3
<1>2. EndsKnown' /\ Adjusted!CurrentTrue' /\ Adjusted!RunsTrue'
  BY <1>1, RunsMoved
<1>3. handler' \in [Collector -> Handlers] /\ HandlersSound'
  BY <1>1, HandlersKeep
<1>4. told' \subseteq [run : Key, good : BOOLEAN] /\ Adjusted!AnswersTrue'
  BY <1>1, AnswersKeep
<1>5. AdjustedTyped'
  BY <1>1, <1>3, <1>4, Zenon DEF AdjustedInv, AdjustedTyped
<1> QED BY <1>2, <1>3, <1>4, <1>5, Zenon DEF AdjustedInv

LEMMA IdleHandler ==
  ASSUME NEW runs, NEW past
  PROVE  Adjusted!Idle \in Handlers /\ HandlerSound(Adjusted!Idle, runs, past)
BY DEF Adjusted!Idle, Handlers, HandlerPC, HandlerSound

LEMMA HandlerFacts ==
  ASSUME AdjustedInv, NEW h \in Collector
  PROVE  /\ handler \in [Collector -> Handlers] /\ handler[h] \in Handlers
         /\ HandlerSound(handler[h], run, gated)
         /\ run \in [Key -> Runs] /\ revision \in [Date -> Nat]
         /\ \A k \in Key : run[k] \in Runs /\ (run[k].status # "none" => run[k].asOf \in Date)
BY DEF AdjustedInv, AdjustedTyped, HandlersSound

\* Advancing a run moves it, if at all, among the states of a run at work.
LEMMA AdvanceKeeps ==
  ASSUME run \in [Key -> Runs], NEW k \in Key,
         NEW expected \in Adjusted!Active, NEW target \in Adjusted!Active,
         run' = Adjusted!Advanced(k, expected, target)
  PROVE  /\ run' \in [Key -> Runs]
         /\ \A j \in Key : /\ \/ run'[j] = run[j]
                              \/ /\ run[j].status \in Adjusted!Active
                                 /\ run'[j].status \in Adjusted!Active \cup {"SUPERSEDED"}
                                 /\ run'[j].asOf = run[j].asOf /\ run'[j].activated = run[j].activated
                           /\ run[j].status # "none" => run'[j].status # "none"
<1>1. CASE run[k].status = expected
  <2> DEFINE r == [run[k] EXCEPT !.status = target]
  <2>1. run' = [run EXCEPT ![k] = r]
    BY <1>1 DEF Adjusted!Advanced
  <2>2. run[k] \in Runs
    OBVIOUS
  <2>3. /\ r \in Runs /\ r.status = target /\ r.asOf = run[k].asOf /\ r.activated = run[k].activated
    BY <2>2 DEF Runs, RunStatus
  <2> HIDE DEF r
  <2>4. target # "none"
    BY DEF Adjusted!Active
  <2> QED BY <1>1, <2>1, <2>3, <2>4
<1>2. CASE run[k].status # expected
  BY <1>2 DEF Adjusted!Advanced
<1> QED BY <1>1, <1>2

LEMMA BeginKeeps ==
  ASSUME AdjustedInv, NEW h \in Collector, NEW k \in Key, Adjusted!Begin(h, k)
  PROVE  AdjustedInv'
<1> DEFINE w == [Adjusted!Idle EXCEPT !.pc = "fetch", !.run = k]
<1>1. handler' = [handler EXCEPT ![h] = w] /\ UNCHANGED <<revision, dataset, ends, gated, told>>
  BY DEF Adjusted!Begin
<1>2. w \in Handlers /\ w.pc = "fetch" /\ w.run = k
  BY DEF Adjusted!Idle, Handlers, HandlerPC
<1> HIDE DEF w
<1>3. run \in [Key -> Runs] /\ run[k].status \in Adjusted!Active /\ run[k].status # "none"
  BY HandlerFacts DEF Adjusted!Begin, Adjusted!Active
<1>4. run' = Adjusted!Advanced(k, "PENDING", "FETCHING") /\ {"PENDING", "FETCHING"} \subseteq Adjusted!Active
  BY DEF Adjusted!Begin, Adjusted!Active
<1>5. /\ run' \in [Key -> Runs]
      /\ \A j \in Key : /\ \/ run'[j] = run[j]
                           \/ /\ run[j].status \in Adjusted!Active
                              /\ run'[j].status \in Adjusted!Active \cup {"SUPERSEDED"}
                              /\ run'[j].asOf = run[j].asOf /\ run'[j].activated = run[j].activated
                        /\ run[j].status # "none" => run'[j].status # "none"
  BY <1>3, <1>4, AdvanceKeeps
<1>6. HandlerSound(w, run', gated')
  BY <1>2, <1>3, <1>5 DEF HandlerSound
<1> QED BY <1>1, <1>2, <1>5, <1>6, HandlerStep

LEMMA FetchKeeps ==
  ASSUME AdjustedInv, NEW h \in Collector, NEW x \in Good \cup {Bad}, Adjusted!Fetch(h, x)
  PROVE  AdjustedInv'
<1> DEFINE w == [handler[h] EXCEPT !.pc = "validate", !.window = x]
<1>0. handler \in [Collector -> Handlers] /\ handler[h] \in Handlers /\ HandlerSound(handler[h], run, gated)
      /\ run \in [Key -> Runs]
  BY HandlerFacts
<1>1. handler' = [handler EXCEPT ![h] = w] /\ UNCHANGED <<revision, dataset, run, ends, gated, told>>
  BY <1>0 DEF Adjusted!Fetch
<1>2. w \in Handlers /\ w.pc = "validate" /\ w.run = handler[h].run
  BY <1>0 DEF Handlers, HandlerPC
<1> HIDE DEF w
<1>3. HandlerSound(w, run', gated')
  BY <1>0, <1>1, <1>2 DEF HandlerSound, Adjusted!Fetch
<1> QED BY <1>0, <1>1, <1>2, <1>3, HandlerStep

LEMMA FetchFailsKeeps ==
  ASSUME AdjustedInv, NEW h \in Collector, NEW code \in {"FAILED", "TIMED_OUT"},
         Adjusted!FetchFails(h, code)
  PROVE  AdjustedInv'
<1> DEFINE w == [handler[h] EXCEPT !.pc = "fail", !.code = code]
<1>0. handler \in [Collector -> Handlers] /\ handler[h] \in Handlers /\ HandlerSound(handler[h], run, gated)
      /\ run \in [Key -> Runs]
  BY HandlerFacts
<1>1. handler' = [handler EXCEPT ![h] = w] /\ UNCHANGED <<revision, dataset, run, ends, gated, told>>
  BY <1>0 DEF Adjusted!FetchFails
<1>2. w \in Handlers /\ w.pc = "fail" /\ w.run = handler[h].run /\ w.code = code
  BY <1>0 DEF Handlers, HandlerPC
<1> HIDE DEF w
<1>3. HandlerSound(w, run', gated')
  BY <1>0, <1>1, <1>2 DEF HandlerSound, Adjusted!FetchFails
<1> QED BY <1>0, <1>1, <1>2, <1>3, HandlerStep

LEMMA ValidateKeeps ==
  ASSUME AdjustedInv, NEW h \in Collector, Adjusted!Validate(h)
  PROVE  AdjustedInv'
<1> DEFINE k == handler[h].run
           w == IF handler[h].window = Bad
                THEN [handler[h] EXCEPT !.pc = "fail", !.code = "FAILED"]
                ELSE [handler[h] EXCEPT !.pc = "gate"]
<1>0. handler \in [Collector -> Handlers] /\ handler[h] \in Handlers /\ HandlerSound(handler[h], run, gated)
      /\ run \in [Key -> Runs]
  BY HandlerFacts
<1>1. handler' = [handler EXCEPT ![h] = w] /\ UNCHANGED <<revision, dataset, ends, gated, told>>
  BY <1>0 DEF Adjusted!Validate
<1>2. /\ w \in Handlers /\ w.run = k
      /\ \/ w.pc = "fail" /\ w.code = "FAILED"
         \/ w.pc = "gate" /\ w.window \in Good
  <2>1. CASE handler[h].window = Bad
    BY <2>1, <1>0 DEF Handlers, HandlerPC
  <2>2. CASE handler[h].window # Bad
    BY <2>2, <1>0 DEF Handlers, HandlerPC
  <2> QED BY <2>1, <2>2
<1> HIDE DEF w
<1>3. k \in Key /\ run[k].status # "none"
  BY <1>0 DEF HandlerSound, Adjusted!Validate
<1>4. run' = Adjusted!Advanced(k, "FETCHING", "VALIDATING") /\ {"FETCHING", "VALIDATING"} \subseteq Adjusted!Active
  BY DEF Adjusted!Validate, Adjusted!Active
<1>5. /\ run' \in [Key -> Runs]
      /\ \A j \in Key : /\ \/ run'[j] = run[j]
                           \/ /\ run[j].status \in Adjusted!Active
                              /\ run'[j].status \in Adjusted!Active \cup {"SUPERSEDED"}
                              /\ run'[j].asOf = run[j].asOf /\ run'[j].activated = run[j].activated
                        /\ run[j].status # "none" => run'[j].status # "none"
  BY <1>0, <1>3, <1>4, AdvanceKeeps
<1>6. HandlerSound(w, run', gated')
  BY <1>2, <1>3, <1>5 DEF HandlerSound
<1> QED BY <1>1, <1>2, <1>5, <1>6, HandlerStep

LEMMA GateKeeps ==
  ASSUME AdjustedInv, NEW h \in Collector, Adjusted!Gate(h)
  PROVE  AdjustedInv'
<1> DEFINE k == handler[h].run
           v == revision[run[k].asOf]
           w == [handler[h] EXCEPT !.pc = "activate", !.seen = v]
<1>0. /\ handler \in [Collector -> Handlers] /\ handler[h] \in Handlers
      /\ HandlerSound(handler[h], run, gated)
      /\ run \in [Key -> Runs] /\ revision \in [Date -> Nat]
  BY HandlerFacts
<1>1. k \in Key /\ run[k].status # "none" /\ handler[h].window \in Good
  BY <1>0 DEF HandlerSound, Adjusted!Gate
<1>2. run[k].asOf \in Date
  BY <1>1, HandlerFacts
<1>3. v \in Nat
  BY <1>0, <1>2
<1>4. /\ handler' = [handler EXCEPT ![h] = w] /\ UNCHANGED <<revision, dataset, run, ends, told>>
      /\ gated' = gated \cup {[run |-> k, window |-> handler[h].window, seen |-> v]}
  BY <1>0 DEF Adjusted!Gate
<1> HIDE DEF v
<1>5. /\ w \in Handlers /\ w.pc = "activate" /\ w.run = k /\ w.window = handler[h].window
      /\ w.seen = v
  BY <1>0, <1>3 DEF Handlers, HandlerPC
<1> HIDE DEF w, k
<1>6. HandlerSound(w, run', gated')
  BY <1>1, <1>4, <1>5 DEF HandlerSound
<1>7. gated \subseteq gated'
  BY <1>4
<1> QED BY <1>0, <1>4, <1>5, <1>6, <1>7, HandlerStep

LEMMA SupersedeKeeps ==
  ASSUME AdjustedInv, NEW h \in Collector, Adjusted!Supersede(h)
  PROVE  AdjustedInv'
<1> DEFINE k == handler[h].run
           r == [run[k] EXCEPT !.status = "SUPERSEDED"]
<1>0. HandlerSound(handler[h], run, gated) /\ run \in [Key -> Runs]
  BY HandlerFacts
<1>1. k \in Key /\ run[k].status = "VALIDATING"
  BY <1>0 DEF HandlerSound, Adjusted!Supersede
<1>2. run' = [run EXCEPT ![k] = r]
  BY <1>0, <1>1 DEF Adjusted!Supersede
<1>3. run[k] \in Runs
  BY <1>0, <1>1
<1>4. r \in Runs /\ r.status = "SUPERSEDED" /\ r.asOf = run[k].asOf /\ r.activated = run[k].activated
  BY <1>3 DEF Runs, RunStatus, Adjusted!Terminal, Adjusted!Failed
<1> HIDE DEF r
<1>5. /\ run' \in [Key -> Runs] /\ run'[k] = r /\ \A j \in Key : j # k => run'[j] = run[j]
  BY <1>0, <1>1, <1>2, <1>4
<1>6. run[k].status \in Adjusted!Active /\ "SUPERSEDED" \in Adjusted!Failed
  BY <1>1 DEF Adjusted!Active, Adjusted!Failed
<1>7. \A j \in Key : \/ run'[j] = run[j]
                     \/ /\ run[j].status \in Adjusted!Active
                        /\ run'[j].status \in Adjusted!Active \cup {"SUPERSEDED"}
                        /\ run'[j].asOf = run[j].asOf /\ run'[j].activated = run[j].activated
  BY <1>4, <1>5, <1>6
<1>8. /\ handler' = [handler EXCEPT ![h] = Adjusted!Idle]
      /\ UNCHANGED <<revision, dataset, ends, gated>> /\ Adjusted!Answer(k, FALSE)
  BY DEF Adjusted!Supersede, Adjusted!Stop
<1>9. \E j \in Key, good \in BOOLEAN :
        /\ Adjusted!Answer(j, good)
        /\ run'[j].status \in IF good THEN {"SUCCEEDED"} ELSE Adjusted!Failed
  <2>1. run'[k].status \in IF FALSE THEN {"SUCCEEDED"} ELSE Adjusted!Failed
    BY <1>4, <1>5, <1>6
  <2> HIDE DEF k
  <2> QED BY <2>1, <1>1, <1>8
<1>10. Adjusted!Idle \in Handlers /\ HandlerSound(Adjusted!Idle, run', gated') /\ gated \subseteq gated'
  BY <1>8, IdleHandler
<1> QED BY <1>5, <1>7, <1>8, <1>9, <1>10, HandlerStep

LEMMA LateKeeps ==
  ASSUME AdjustedInv, NEW h \in Collector, Adjusted!Late(h)
  PROVE  AdjustedInv'
<1> DEFINE k == handler[h].run
<1>0. HandlerSound(handler[h], run, gated) /\ run \in [Key -> Runs]
  BY HandlerFacts
<1>1. k \in Key
  BY <1>0 DEF HandlerSound, Adjusted!Late
<1>2. /\ handler' = [handler EXCEPT ![h] = Adjusted!Idle]
      /\ UNCHANGED <<revision, dataset, run, ends, gated>>
  BY DEF Adjusted!Late, Adjusted!Stop
<1>3. \/ told' = told
      \/ \E j \in Key, good \in BOOLEAN :
           /\ Adjusted!Answer(j, good)
           /\ run'[j].status \in IF good THEN {"SUCCEEDED"} ELSE Adjusted!Failed
  <2>1. CASE run[k].status = "SUCCEEDED" /\ Adjusted!Answer(k, TRUE)
    <3>1. run'[k].status \in IF TRUE THEN {"SUCCEEDED"} ELSE Adjusted!Failed
      BY <2>1, <1>2
    <3> HIDE DEF k
    <3> QED BY <2>1, <3>1, <1>1
  <2>2. CASE run[k].status \in Adjusted!Failed /\ Adjusted!Answer(k, FALSE)
    <3>1. run'[k].status \in IF FALSE THEN {"SUCCEEDED"} ELSE Adjusted!Failed
      BY <2>2, <1>2
    <3> HIDE DEF k
    <3> QED BY <2>2, <3>1, <1>1
  <2> QED BY <2>1, <2>2 DEF Adjusted!Late
<1>4. Adjusted!Idle \in Handlers /\ HandlerSound(Adjusted!Idle, run', gated')
  BY IdleHandler
<1> QED BY <1>0, <1>2, <1>3, <1>4, HandlerStep

LEMMA CrashKeeps ==
  ASSUME AdjustedInv, NEW h \in Collector, Adjusted!Crash(h)
  PROVE  AdjustedInv'
<1>1. /\ handler' = [handler EXCEPT ![h] = Adjusted!Idle]
      /\ UNCHANGED <<revision, dataset, run, ends, gated, told>>
  BY DEF Adjusted!Crash, Adjusted!Stop
<1>2. Adjusted!Idle \in Handlers /\ HandlerSound(Adjusted!Idle, run', gated')
  BY IdleHandler
<1> QED BY <1>1, <1>2, HandlerFacts, HandlerStep

\* A step of nobody's handler leaves them as they are.
LEMMA OutsideStep ==
  ASSUME AdjustedInv, UNCHANGED <<handler, gated>>,
         \A k \in Key : run[k].status # "none" => run'[k].status # "none"
  PROVE  HandlersSound'
BY DEF AdjustedInv, HandlersSound, HandlerSound

LEMMA ReviseKeeps ==
  ASSUME AdjustedInv, NEW d \in Date, Adjusted!Revise(d)
  PROVE  AdjustedInv'
<1>1. revision' \in [Date -> Nat]
  BY DEF AdjustedInv, AdjustedTyped, Adjusted!Revise
<1>2. UNCHANGED <<dataset, run, handler, gated, ends, told>>
  BY DEF Adjusted!Revise
<1> QED BY <1>1, <1>2, Zenon DEF AdjustedInv, AdjustedTyped, HandlersSound, HandlerSound, EndsKnown,
                                 Adjusted!CurrentTrue, Adjusted!Current, Adjusted!RunsTrue, Adjusted!AnswersTrue

LEMMA ReplayKeeps ==
  ASSUME AdjustedInv, NEW h \in Collector, NEW k \in Key, Adjusted!Replay(h, k)
  PROVE  AdjustedInv'
<1>1. UNCHANGED <<revision, dataset, run, handler, gated, ends>>
  BY DEF Adjusted!Replay
<1>2. run'[k].status \in IF run[k].status = "SUCCEEDED" THEN {"SUCCEEDED"} ELSE Adjusted!Failed
  BY <1>1 DEF Adjusted!Replay, Adjusted!Terminal
<1>3. told' \subseteq [run : Key, good : BOOLEAN] /\ Adjusted!AnswersTrue'
  BY <1>1, <1>2, AnswersKeep DEF Adjusted!Replay
<1>4. EndsKnown' /\ Adjusted!CurrentTrue' /\ Adjusted!RunsTrue'
  BY <1>1, RunsMoved
<1>5. HandlersSound'
  BY <1>1, OutsideStep
<1> QED BY <1>1, <1>3, <1>4, <1>5, Zenon DEF AdjustedInv, AdjustedTyped

LEMMA SubmitKeeps ==
  ASSUME AdjustedInv, NEW k \in Key, NEW d \in Date, NEW input \in 1 .. revision[d],
         Adjusted!Submit(k, d, input)
  PROVE  AdjustedInv'
<1> DEFINE r == [Adjusted!NoRun EXCEPT !.status = "PENDING", !.asOf = d, !.input = input]
<1>1. UNCHANGED <<revision, dataset, handler, gated, ends, told>> /\ run' = [run EXCEPT ![k] = r]
  BY DEF Adjusted!Submit
<1>2. /\ run \in [Key -> Runs] /\ revision[d] \in Nat
      /\ run[k].status = "none" /\ run[k].activated = 0
  BY DEF AdjustedInv, AdjustedTyped, Adjusted!Submit, Adjusted!NoRun
<1>3. input \in Nat
  BY <1>2
<1>4. r \in Runs /\ r.status = "PENDING" /\ r.asOf = d /\ r.activated = 0
  BY <1>3 DEF Runs, RunStatus, Adjusted!NoRun, Adjusted!Active
<1> HIDE DEF r
<1>5. run' \in [Key -> Runs] /\ run'[k] = r /\ \A j \in Key : j # k => run'[j] = run[j]
  BY <1>1, <1>2, <1>4
<1>6. ASSUME NEW j \in Key
      PROVE  /\ \/ run'[j] = run[j]
                \/ /\ run[j].status \notin {"SUCCEEDED", "FAILED", "TIMED_OUT"}
                   /\ run'[j].status # "SUCCEEDED" /\ run'[j].activated = run[j].activated
             /\ run[j].status # "none" => run'[j].status # "none"
             /\ run[j].status \in Adjusted!Terminal => run'[j].status = run[j].status
             /\ run'[j].status # "none" => run'[j].asOf \in Date
  <2>1. run[j].status # "none" => run[j].asOf \in Date
    BY DEF AdjustedInv, AdjustedTyped
  <2>2. CASE j = k
    BY <2>2, <1>2, <1>4, <1>5 DEF Adjusted!Terminal, Adjusted!Failed
  <2>3. CASE j # k
    BY <2>1, <2>3, <1>5, Zenon
  <2> QED BY <2>2, <2>3
<1>7. EndsKnown' /\ Adjusted!CurrentTrue' /\ Adjusted!RunsTrue'
  BY <1>1, <1>6, RunsMoved
<1>8. told' \subseteq [run : Key, good : BOOLEAN] /\ Adjusted!AnswersTrue'
  BY <1>1, <1>6, AnswersKeep
<1>9. HandlersSound'
  BY <1>1, <1>6, OutsideStep
<1> QED BY <1>1, <1>5, <1>6, <1>7, <1>8, <1>9, Zenon DEF AdjustedInv, AdjustedTyped

\* What another attempt stores or fails to store is nothing to a run.
LEMMA OthersRun ==
  ASSUME NEW k \in Key, RunTrue(k), ends \in Seq(Ended), NEW e \in Ended, e.by # k,
         ends' = Append(ends, e), Keeps(dataset'), gated' = gated, run'[k] = run[k]
  PROVE  RunTrue(k)'
<1>1. /\ Len(ends) \in Nat /\ DOMAIN ends = 1 .. Len(ends) /\ DOMAIN ends' = 1 .. Len(ends) + 1
      /\ ends'[Len(ends) + 1] = e /\ \A n \in 1 .. Len(ends) : ends'[n] = ends[n]
  BY Appended
<1>2. ASSUME NEW n \in DOMAIN ends', ends'[n].by = k
      PROVE  n \in DOMAIN ends /\ ends'[n] = ends[n]
  <2>1. n = Len(ends) + 1 \/ n \in 1 .. Len(ends)
    BY <1>1
  <2>2. n # Len(ends) + 1
    BY <1>1, <1>2
  <2> QED BY <1>1, <2>1, <2>2, Zenon
<1>3. \A m, n \in DOMAIN ends' : ends'[m].by = k /\ ends'[n].by = k => m = n
  BY <1>2, Zenon DEF RunTrue
<1>4. \A n \in DOMAIN ends' : ends'[n].by = k =>
        run'[k].status \in {"SUCCEEDED", "FAILED", "TIMED_OUT"} /\ ends'[n].version = run'[k].activated
  BY <1>2, Zenon DEF RunTrue
<1>5. run'[k].status = "SUCCEEDED" =>
        /\ run'[k].activated \in DOMAIN dataset'
        /\ dataset'[run'[k].activated].asOf = run'[k].asOf
        /\ [run |-> k, window |-> dataset'[run'[k].activated].content, seen |-> run'[k].input] \in gated'
  BY Zenon DEF RunTrue, Keeps
<1>6. run'[k].status # "SUCCEEDED" => run'[k].activated = 0
  BY Zenon DEF RunTrue
<1> QED BY <1>3, <1>4, <1>5, <1>6, Zenon DEF RunTrue

\* A run at work has ended nothing yet, and the end it now finds is its only one.
LEMMA OwnRun ==
  ASSUME NEW k \in Key, RunTrue(k), run[k].status \in Adjusted!Active,
         ends \in Seq(Ended), NEW e \in Ended, e.by = k, ends' = Append(ends, e),
         run'[k].status \in {"SUCCEEDED", "FAILED", "TIMED_OUT"}, run'[k].activated = e.version,
         run'[k].status = "SUCCEEDED" =>
           /\ run'[k].activated \in DOMAIN dataset'
           /\ dataset'[run'[k].activated].asOf = run'[k].asOf
           /\ [run |-> k, window |-> dataset'[run'[k].activated].content, seen |-> run'[k].input] \in gated',
         run'[k].status # "SUCCEEDED" => run'[k].activated = 0
  PROVE  RunTrue(k)'
<1>1. /\ Len(ends) \in Nat /\ DOMAIN ends = 1 .. Len(ends) /\ DOMAIN ends' = 1 .. Len(ends) + 1
      /\ ends'[Len(ends) + 1] = e /\ \A n \in 1 .. Len(ends) : ends'[n] = ends[n]
  BY Appended
<1>2. ASSUME NEW n \in DOMAIN ends', ends'[n].by = k
      PROVE  n = Len(ends) + 1 /\ ends'[n] = e
  <2>1. run[k].status \notin {"SUCCEEDED", "FAILED", "TIMED_OUT"}
    BY DEF Adjusted!Active
  <2>2. \A i \in DOMAIN ends : ends[i].by # k
    BY <2>1, Zenon DEF RunTrue
  <2>3. n \notin 1 .. Len(ends)
    BY <1>1, <1>2, <2>2
  <2>4. n = Len(ends) + 1
    BY <1>1, <2>3
  <2> QED BY <1>1, <2>4
<1>3. \A m, n \in DOMAIN ends' : ends'[m].by = k /\ ends'[n].by = k => m = n
  BY <1>2, Zenon
<1>4. \A n \in DOMAIN ends' : ends'[n].by = k =>
        run'[k].status \in {"SUCCEEDED", "FAILED", "TIMED_OUT"} /\ ends'[n].version = run'[k].activated
  BY <1>2, Zenon
<1> QED BY <1>3, <1>4, Zenon DEF RunTrue

LEMMA ImportKeeps ==
  ASSUME AdjustedInv, NEW d \in Date, NEW x \in Good, Adjusted!Import(d, x)
  PROVE  AdjustedInv'
<1>1. /\ dataset' = Adjusted!Stored(d, x) /\ Adjusted!Ends("import", Len(dataset'))
      /\ UNCHANGED <<revision, run, handler, gated, told>>
  BY DEF Adjusted!Import
<1>2. /\ dataset' \in Seq(Prices) /\ ends' \in Seq(Ended) /\ EndsKnown' /\ Adjusted!CurrentTrue'
      /\ Len(dataset') \in Nat
      /\ \A v \in DOMAIN dataset : v \in DOMAIN dataset' /\ dataset'[v].asOf = dataset[v].asOf
                                   /\ dataset'[v].content = dataset[v].content
  BY <1>1, StoreKeeps
<1> DEFINE e == [by |-> "import", version |-> Len(dataset')]
<1>3. e \in Ended /\ e.by = "import" /\ ends' = Append(ends, e)
  BY <1>1, <1>2 DEF Adjusted!Ends, Ended
<1> HIDE DEF e
<1>4. Keeps(dataset') /\ ends \in Seq(Ended)
  BY <1>2, Zenon DEF Keeps, AdjustedInv, AdjustedTyped
<1>5. ASSUME NEW k \in Key PROVE RunTrue(k)'
  <2>1. e.by # k
    BY <1>3, DailyDataAssumption
  <2>2. RunTrue(k)
    BY RunTrueAll DEF AdjustedInv
  <2>3. gated' = gated /\ run'[k] = run[k]
    BY <1>1
  <2> QED BY <1>3, <1>4, <2>1, <2>2, <2>3, OthersRun
<1>6. Adjusted!RunsTrue'
  BY <1>5, Zenon DEF Adjusted!RunsTrue, RunTrue
<1>7. HandlersSound'
  BY <1>1, OutsideStep
<1>8. Adjusted!AnswersTrue'
  BY <1>1 DEF AdjustedInv, Adjusted!AnswersTrue
<1>9. AdjustedTyped'
  BY <1>1, <1>2, Zenon DEF AdjustedInv, AdjustedTyped
<1> QED BY <1>2, <1>6, <1>7, <1>8, <1>9, Zenon DEF AdjustedInv

\* A handler that ends its run by what it has stored, or failed to store.
LEMMA EndKeeps ==
  ASSUME AdjustedInv, NEW h \in Collector, NEW k \in Key, NEW good \in BOOLEAN, NEW version \in Nat,
         run[k].status \in Adjusted!Active, run' = [run EXCEPT ![k] = run'[k]], run'[k] \in Runs,
         run'[k].status \in IF good THEN {"SUCCEEDED"} ELSE {"FAILED", "TIMED_OUT"},
         run'[k].asOf = run[k].asOf, run'[k].activated = version,
         Adjusted!Ends(k, version), Adjusted!Answer(k, good), Adjusted!Stop(h),
         UNCHANGED <<revision, gated>>,
         dataset' \in Seq(Prices), ends' \in Seq(Ended), Keeps(dataset'), EndsKnown',
         Adjusted!CurrentTrue',
         good => /\ version \in DOMAIN dataset' /\ dataset'[version].asOf = run'[k].asOf
                 /\ [run |-> k, window |-> dataset'[version].content, seen |-> run'[k].input] \in gated',
         ~good => version = 0
  PROVE  AdjustedInv'
<1> DEFINE e == [by |-> k, version |-> version]
<1>1. e \in Ended /\ e.by = k /\ e.version = version /\ ends' = Append(ends, e)
  BY DEF Adjusted!Ends, Ended
<1> HIDE DEF e
<1>2. /\ run \in [Key -> Runs] /\ ends \in Seq(Ended)
      /\ run[k].status # "none" => run[k].asOf \in Date
  BY DEF AdjustedInv, AdjustedTyped
<1>3. /\ run' \in [Key -> Runs] /\ \A j \in Key : j # k => run'[j] = run[j]
  BY <1>2
<1>4. /\ run[k].status \in Adjusted!Active /\ run[k].status \notin Adjusted!Terminal
      /\ run[k].status # "none"
      /\ run'[k].status \in {"SUCCEEDED", "FAILED", "TIMED_OUT"}
      /\ run'[k].status = "SUCCEEDED" <=> good
      /\ run'[k].status \in IF good THEN {"SUCCEEDED"} ELSE Adjusted!Failed
      /\ run'[k].status # "none"
  BY DEF Adjusted!Active, Adjusted!Terminal, Adjusted!Failed
<1>5. ASSUME NEW j \in Key PROVE RunTrue(j)'
  <2>1. RunTrue(j)
    BY RunTrueAll DEF AdjustedInv
  <2>2. CASE j = k
    BY <2>1, <2>2, <1>1, <1>2, <1>4, OwnRun
  <2>3. CASE j # k
    BY <2>1, <2>3, <1>1, <1>2, <1>3, OthersRun
  <2> QED BY <2>2, <2>3
<1>6. Adjusted!RunsTrue'
  BY <1>5, Zenon DEF Adjusted!RunsTrue, RunTrue
<1>7. \A j \in Key : /\ run[j].status \in Adjusted!Terminal => run'[j].status = run[j].status
                     /\ run[j].status # "none" => run'[j].status # "none"
                     /\ run'[j].status # "none" => run'[j].asOf \in Date
  BY <1>2, <1>3, <1>4, Zenon DEF AdjustedInv, AdjustedTyped
<1>8. told' \subseteq [run : Key, good : BOOLEAN] /\ Adjusted!AnswersTrue'
  BY <1>4, <1>7, AnswersKeep
<1>9. handler' \in [Collector -> Handlers] /\ HandlersSound'
  <2>1. handler' = [handler EXCEPT ![h] = Adjusted!Idle]
    BY DEF Adjusted!Stop
  <2> QED BY <1>7, <2>1, IdleHandler, HandlersKeep
<1>10. AdjustedTyped'
  BY <1>3, <1>7, <1>8, <1>9, Zenon DEF AdjustedInv, AdjustedTyped
<1> QED BY <1>6, <1>8, <1>9, <1>10, Zenon DEF AdjustedInv

LEMMA ActivateKeeps ==
  ASSUME AdjustedInv, NEW h \in Collector, Adjusted!Activate(h)
  PROVE  AdjustedInv'
<1> DEFINE k == handler[h].run
           x == handler[h].window
           m == Len(dataset')
<1>0. HandlerSound(handler[h], run, gated) /\ run \in [Key -> Runs]
  BY HandlerFacts
<1>1. /\ k \in Key /\ x \in Good /\ run[k].status = "VALIDATING"
      /\ [run |-> k, window |-> x, seen |-> run[k].input] \in gated
  <2>1. handler[h].pc = "activate" /\ run[k].status = "VALIDATING" /\ handler[h].seen = run[k].input
    BY DEF Adjusted!Activate
  <2> QED BY <1>0, <2>1 DEF HandlerSound
<1>2. run[k] \in Runs
  BY <1>0, <1>1
<1>3. run[k].asOf \in Date \cup {0}
  BY <1>2 DEF Runs
<1>4. /\ dataset' = Adjusted!Stored(run[k].asOf, x)
      /\ run' = [run EXCEPT ![k] = [run[k] EXCEPT !.status = "SUCCEEDED", !.activated = m]]
      /\ Adjusted!Ends(k, m) /\ Adjusted!Answer(k, TRUE) /\ Adjusted!Stop(h)
      /\ UNCHANGED <<revision, gated>>
  BY <1>0, <1>1 DEF Adjusted!Activate
<1>5. /\ dataset' \in Seq(Prices) /\ ends' \in Seq(Ended) /\ EndsKnown' /\ Adjusted!CurrentTrue'
      /\ m \in DOMAIN dataset' /\ m \in Nat
      /\ dataset'[m].asOf = run[k].asOf /\ dataset'[m].content = x
      /\ \A v \in DOMAIN dataset : v \in DOMAIN dataset' /\ dataset'[v].asOf = dataset[v].asOf
                                   /\ dataset'[v].content = dataset[v].content
  <2> HIDE DEF k, x
  <2> QED BY <1>1, <1>3, <1>4, StoreKeeps
<1> HIDE DEF m, k, x
<1> DEFINE r == [run[k] EXCEPT !.status = "SUCCEEDED", !.activated = m]
<1>6. /\ r \in Runs /\ r.status = "SUCCEEDED" /\ r.activated = m
      /\ r.asOf = run[k].asOf /\ r.input = run[k].input
  BY <1>2, <1>5 DEF Runs, RunStatus, Adjusted!Terminal
<1> HIDE DEF r
<1>7. run' = [run EXCEPT ![k] = r] /\ run'[k] = r
  BY <1>0, <1>1, <1>4 DEF r
<1>8. Keeps(dataset')
  BY <1>5, Zenon DEF Keeps
<1>9. run[k].status \in Adjusted!Active
  BY <1>1 DEF Adjusted!Active
<1>10. /\ run'[k].status \in IF TRUE THEN {"SUCCEEDED"} ELSE {"FAILED", "TIMED_OUT"}
       /\ m \in DOMAIN dataset' /\ dataset'[m].asOf = run'[k].asOf
       /\ [run |-> k, window |-> dataset'[m].content, seen |-> run'[k].input] \in gated'
  BY <1>1, <1>4, <1>5, <1>6, <1>7
<1>11. run' = [run EXCEPT ![k] = run'[k]] /\ run'[k] \in Runs /\ run'[k].asOf = run[k].asOf
       /\ run'[k].activated = m
  BY <1>6, <1>7
<1> QED BY <1>1, <1>4, <1>5, <1>8, <1>9, <1>10, <1>11, EndKeeps

\* Prices that are current stay so, and are stale.
LEMMA FailedPrices ==
  ASSUME AdjustedInv, NEW k \in Key, Adjusted!Ends(k, 0),
         dataset' = [v \in DOMAIN dataset |->
                       IF v \in Adjusted!Current THEN [dataset[v] EXCEPT !.fresh = FALSE] ELSE dataset[v]]
  PROVE  /\ dataset' \in Seq(Prices) /\ ends' \in Seq(Ended) /\ Keeps(dataset') /\ EndsKnown'
         /\ Adjusted!CurrentTrue'
<1>1. dataset \in Seq(Prices) /\ ends \in Seq(Ended)
  BY Zenon DEF AdjustedInv, AdjustedTyped
<1>2. Len(dataset) \in Nat /\ DOMAIN dataset = 1 .. Len(dataset) /\ \A v \in DOMAIN dataset : dataset[v] \in Prices
  BY <1>1
<1>3. ASSUME NEW v \in DOMAIN dataset
      PROVE  /\ dataset'[v] \in Prices /\ dataset'[v].lifecycle = dataset[v].lifecycle
             /\ dataset'[v].asOf = dataset[v].asOf /\ dataset'[v].content = dataset[v].content
             /\ dataset[v].lifecycle = "CURRENT" => dataset'[v].fresh = FALSE
  <2>1. dataset[v] \in Prices
    BY <1>2
  <2>2. CASE dataset[v].lifecycle = "CURRENT"
    <3>1. dataset'[v] = [dataset[v] EXCEPT !.fresh = FALSE]
      BY <2>2 DEF Adjusted!Current
    <3> QED BY <2>1, <3>1, PricesWritten, Zenon
  <2>3. CASE dataset[v].lifecycle # "CURRENT"
    BY <2>1, <2>3 DEF Adjusted!Current
  <2> QED BY <2>2, <2>3
<1>4. DOMAIN dataset' = DOMAIN dataset
  OBVIOUS
<1>5. dataset' \in Seq(Prices) /\ Len(dataset') = Len(dataset)
  <2>1. dataset' \in [1 .. Len(dataset) -> Prices]
    BY <1>2, <1>3
  <2> QED BY <1>2, <2>1
<1>6. Keeps(dataset')
  BY <1>3, <1>4, Zenon DEF Keeps
<1> DEFINE e == [by |-> k, version |-> 0]
<1>7. e \in Ended /\ e.version = 0 /\ ends' = Append(ends, e)
  BY DEF Adjusted!Ends, Ended
<1> HIDE DEF e
<1>8. /\ Len(ends) \in Nat /\ DOMAIN ends = 1 .. Len(ends) /\ ends' \in Seq(Ended)
      /\ Len(ends') = Len(ends) + 1 /\ DOMAIN ends' = 1 .. Len(ends) + 1
      /\ ends'[Len(ends) + 1] = e /\ \A n \in 1 .. Len(ends) : ends'[n] = ends[n]
  BY <1>1, <1>7, Appended
<1>9. EndsKnown'
  <2>1. ASSUME NEW n \in DOMAIN ends' PROVE ends'[n].version <= Len(dataset')
    <3>1. CASE n \in 1 .. Len(ends)
      <4>1. ends[n].version <= Len(dataset)
        BY <1>8, <3>1, Zenon DEF AdjustedInv, EndsKnown
      <4> QED BY <4>1, <3>1, <1>5, <1>8
    <3>2. CASE n = Len(ends) + 1
      <4>1. ends'[n].version = 0 /\ Len(dataset') \in Nat
        BY <3>2, <1>2, <1>5, <1>7, <1>8
      <4> QED BY <4>1
    <3> QED BY <3>1, <3>2, <1>8
  <2> QED BY <2>1, Zenon DEF EndsKnown
<1>10. \A v \in DOMAIN dataset' : dataset'[v].lifecycle = "CURRENT" <=> v = Len(dataset')
  BY <1>3, <1>4, <1>5, Zenon DEF AdjustedInv, Adjusted!CurrentTrue, Adjusted!Current
<1>11. dataset' # <<>> => (dataset'[Len(dataset')].fresh <=> ends'[Len(ends')].version > 0)
  <2> SUFFICES ASSUME dataset' # <<>>
               PROVE  dataset'[Len(dataset')].fresh <=> ends'[Len(ends')].version > 0
    OBVIOUS
  <2>1. Len(dataset) \in DOMAIN dataset
    BY <1>2, <1>5
  <2>2. dataset[Len(dataset)].lifecycle = "CURRENT"
    BY <2>1, Zenon DEF AdjustedInv, Adjusted!CurrentTrue, Adjusted!Current
  <2>3. dataset'[Len(dataset')].fresh = FALSE
    BY <2>1, <2>2, <1>3, <1>5
  <2>4. ends'[Len(ends')].version = 0
    BY <1>7, <1>8
  <2>5. ~(ends'[Len(ends')].version > 0)
    BY <2>4
  <2> QED BY <2>3, <2>5, Zenon
<1>12. \A v \in DOMAIN dataset' : \E n \in DOMAIN ends' : ends'[n].version = v
  <2> TAKE v \in DOMAIN dataset'
  <2>1. PICK n \in DOMAIN ends : ends[n].version = v
    BY <1>4, Zenon DEF AdjustedInv, Adjusted!CurrentTrue, Adjusted!Current
  <2>2. n \in DOMAIN ends' /\ ends'[n] = ends[n]
    BY <2>1, <1>8
  <2> QED BY <2>1, <2>2, Zenon
<1> QED BY <1>5, <1>6, <1>8, <1>9, <1>10, <1>11, <1>12, Zenon DEF Adjusted!CurrentTrue, Adjusted!Current

LEMMA FailKeeps ==
  ASSUME AdjustedInv, NEW h \in Collector, Adjusted!Fail(h)
  PROVE  AdjustedInv'
<1> DEFINE k == handler[h].run
           r == [run[k] EXCEPT !.status = handler[h].code]
<1>0. HandlerSound(handler[h], run, gated) /\ run \in [Key -> Runs]
  BY HandlerFacts
<1>1. /\ k \in Key /\ handler[h].code \in {"FAILED", "TIMED_OUT"} /\ run[k].status \in Adjusted!Active
  BY <1>0 DEF HandlerSound, Adjusted!Fail
<1>2. run[k] \in Runs /\ run[k].activated = 0
  <2>1. RunTrue(k) /\ run[k].status # "SUCCEEDED"
    BY <1>1, RunTrueAll DEF AdjustedInv, Adjusted!Active
  <2>2. run[k].activated = 0
    BY <2>1, Zenon DEF RunTrue
  <2> QED BY <1>0, <1>1, <2>2
<1>3. /\ run' = [run EXCEPT ![k] = r]
      /\ Adjusted!Ends(k, 0) /\ Adjusted!Answer(k, FALSE) /\ Adjusted!Stop(h)
      /\ UNCHANGED <<revision, gated>>
  BY <1>0, <1>1 DEF Adjusted!Fail
<1>4. dataset' = [v \in DOMAIN dataset |->
                    IF v \in Adjusted!Current THEN [dataset[v] EXCEPT !.fresh = FALSE] ELSE dataset[v]]
  BY DEF Adjusted!Fail
<1>5. /\ dataset' \in Seq(Prices) /\ ends' \in Seq(Ended) /\ Keeps(dataset') /\ EndsKnown'
      /\ Adjusted!CurrentTrue'
  BY <1>1, <1>3, <1>4, FailedPrices, Zenon
<1>6. /\ r \in Runs /\ r.status = handler[h].code /\ r.activated = 0 /\ r.asOf = run[k].asOf
  BY <1>1, <1>2 DEF Runs, RunStatus, Adjusted!Terminal, Adjusted!Failed
<1> HIDE DEF r
<1>7. run'[k] = r
  BY <1>0, <1>1, <1>3
<1>8. /\ run'[k].status \in IF FALSE THEN {"SUCCEEDED"} ELSE {"FAILED", "TIMED_OUT"}
      /\ run' = [run EXCEPT ![k] = run'[k]] /\ run'[k] \in Runs
      /\ run'[k].asOf = run[k].asOf /\ run'[k].activated = 0
  BY <1>1, <1>3, <1>6, <1>7
<1> HIDE DEF k
<1>9. 0 \in Nat
  OBVIOUS
<1>10. gated' = gated /\ revision' = revision
  BY <1>3
<1> QED BY <1>1, <1>3, <1>5, <1>8, <1>9, <1>10, EndKeeps

LEMMA AdjustedInit ==
  ASSUME Adjusted!QfqInit
  PROVE  AdjustedInv
<1>1. /\ revision = [d \in Date |-> 0] /\ dataset = <<>> /\ run = [k \in Key |-> Adjusted!NoRun]
      /\ handler = [h \in Collector |-> Adjusted!Idle]
      /\ gated = {} /\ ends = <<>> /\ told = {} /\ starts = 0
  BY DEF Adjusted!QfqInit
<1>2. dataset \in Seq(Prices) /\ ends \in Seq(Ended) /\ DOMAIN dataset = {} /\ DOMAIN ends = {}
  BY <1>1
<1>3. Adjusted!NoRun \in Runs /\ Adjusted!NoRun.status = "none" /\ Adjusted!NoRun.activated = 0
  BY DEF Adjusted!NoRun, Runs, RunStatus
<1>4. \A k \in Key : run[k] = Adjusted!NoRun
  BY <1>1
<1>5. run \in [Key -> Runs] /\ revision \in [Date -> Nat] /\ told \subseteq [run : Key, good : BOOLEAN]
  BY <1>1, <1>3
<1>6. handler \in [Collector -> Handlers] /\ HandlersSound
  <2>1. \A h \in Collector : handler[h] = Adjusted!Idle
    BY <1>1
  <2>2. Adjusted!Idle \in Handlers /\ HandlerSound(Adjusted!Idle, run, gated)
    BY IdleHandler
  <2> QED BY <1>1, <2>1, <2>2 DEF HandlersSound
<1>7. AdjustedTyped
  BY <1>2, <1>3, <1>4, <1>5, <1>6, Zenon DEF AdjustedTyped
<1>8. EndsKnown /\ Adjusted!CurrentTrue
  BY <1>1, <1>2, Zenon DEF EndsKnown, Adjusted!CurrentTrue, Adjusted!Current
<1>9. Adjusted!RunsTrue
  <2>1. ASSUME NEW k \in Key PROVE RunTrue(k)
    <3>1. run[k].status = "none" /\ run[k].activated = 0
      BY <1>3, <1>4
    <3>2. "none" # "SUCCEEDED"
      OBVIOUS
    <3> QED BY <1>2, <3>1, <3>2, Zenon DEF RunTrue
  <2> QED BY <2>1, RunTrueAll
<1>10. Adjusted!AnswersTrue
  BY <1>1 DEF Adjusted!AnswersTrue
<1> QED BY <1>6, <1>7, <1>8, <1>9, <1>10, Zenon DEF AdjustedInv

LEMMA AdjustedNext ==
  ASSUME AdjustedInv, [Adjusted!QfqNext]_Adjusted!qfqVars
  PROVE  AdjustedInv'
<1>1. CASE UNCHANGED Adjusted!qfqVars
  BY <1>1, Zenon DEF Adjusted!qfqVars, AdjustedInv, AdjustedTyped, HandlersSound, HandlerSound, EndsKnown,
                     Adjusted!CurrentTrue, Adjusted!Current, Adjusted!RunsTrue, Adjusted!AnswersTrue
<1>2. CASE \E d \in Date : Adjusted!Revise(d)
  BY <1>2, ReviseKeeps
<1>3. CASE \E k \in Key, d \in Date : \E input \in 1 .. revision[d] : Adjusted!Submit(k, d, input)
  BY <1>3, SubmitKeeps
<1>4. CASE \E d \in Date, x \in Good : Adjusted!Import(d, x)
  BY <1>4, ImportKeeps
<1>5. CASE \E h \in Collector, k \in Key : Adjusted!Begin(h, k) \/ Adjusted!Replay(h, k)
  BY <1>5, BeginKeeps, ReplayKeeps
<1>6. CASE \E h \in Collector, x \in Good \cup {Bad} : Adjusted!Fetch(h, x)
  BY <1>6, FetchKeeps
<1>7. CASE \E h \in Collector, code \in {"FAILED", "TIMED_OUT"} : Adjusted!FetchFails(h, code)
  BY <1>7, FetchFailsKeeps
<1>8. CASE \E h \in Collector :
             \/ Adjusted!Validate(h) \/ Adjusted!Gate(h) \/ Adjusted!Activate(h)
             \/ Adjusted!Supersede(h) \/ Adjusted!Late(h) \/ Adjusted!Fail(h) \/ Adjusted!Crash(h)
  BY <1>8, ValidateKeeps, GateKeeps, ActivateKeeps, SupersedeKeeps, LateKeeps, FailKeeps, CrashKeeps
<1> QED BY <1>1, <1>2, <1>3, <1>4, <1>5, <1>6, <1>7, <1>8 DEF Adjusted!QfqNext

(***************************************************************************)
(* Whatever handlers of the refreshes of a security overlap or die, and    *)
(* whatever is imported and revised between their steps, what readers find *)
(* is the last that was stored and says whether an attempt has failed      *)
(* since; a run that succeeded names prices that passed its own validation *)
(* and gate; and every answer is how its run has ended (QfqRefreshService, *)
(* qfq_refresh).                                                           *)
(***************************************************************************)
THEOREM AdjustedPrices == Adjusted!QfqSpec => []Adjusted!PricesSound
<1>1. Adjusted!QfqSpec => []AdjustedInv
  <2>1. Adjusted!QfqInit => AdjustedInv
    BY AdjustedInit
  <2>2. AdjustedInv /\ [Adjusted!QfqNext]_Adjusted!qfqVars => AdjustedInv'
    BY AdjustedNext
  <2> QED BY <2>1, <2>2, PTL DEF Adjusted!QfqSpec
<1>2. AdjustedInv => Adjusted!PricesSound
  BY DEF AdjustedInv, Adjusted!PricesSound
<1> QED BY <1>1, <1>2, PTL

-----------------------------------------------------------------------------
(* A quality issue.                                                         *)

Issue == [status : {"NONE", "OPEN", "REVIEW_REQUIRED", "RESOLVED", "INVALIDATED"},
          severity : Issues!Severity, count : Nat, sources : SUBSET Source,
          actor : Actor \cup {None}, reason : Reason \cup {None}, selected : Source \cup {None}]

IssueTyped ==
  /\ issue \in Issue /\ audit \subseteq Issues!Command
  /\ reported \in [count : Nat, worst : Issues!Severity]
  /\ caller = [p \in Collector |-> caller[p]]

\* What is about to be committed of a report, and of a decision, over the row.
ReportSound(c, was) ==
  /\ c.severity \in Issues!Severity /\ c.row \in Issue
  /\ ~Issues!Terminal(was) /\ ~Issues!Terminal(c.row)
  /\ c.row.count = was.count + 1 /\ c.row.severity = Issues!Worse(was.severity, c.severity)

DecisionSound(c, was) ==
  /\ c.row \in Issue /\ c.first \in BOOLEAN
  /\ c.first => /\ ~Issues!Terminal(was) /\ Issues!Terminal(c.row)
                /\ Issues!SameResolution(c.row, c.command)
                /\ c.row.count = was.count /\ c.row.severity = was.severity
                /\ c.row.status = "RESOLVED" => c.row.selected \in c.row.sources
  /\ ~c.first => /\ c.row = was
                 /\ \/ c.command.action = "REFETCH"
                    \/ Issues!Terminal(was) /\ Issues!SameResolution(was, c.command)

StepSound(c, was, log) ==
  /\ c.pc \in {"asking", "answered", "deciding"} => c.command \in Issues!Command
  /\ c.pc = "reporting" => ReportSound(c, was)
  /\ c.pc = "deciding" => DecisionSound(c, was)
  /\ c.pc = "answered" => \E a \in log : Issues!Replays(a, c.command)

Holding == {"reporting", "deciding"}

IssueInv ==
  /\ IssueTyped
  /\ \A p, q \in Collector : caller[p].pc \in Holding /\ caller[q].pc \in Holding => p = q
  /\ \A p \in Collector : StepSound(caller[p], issue, audit)
  /\ Issues!IssueSound

LEMMA CallerGoes ==
  ASSUME IssueTyped, NEW p \in Collector, NEW step, Issues!Go(p, step)
  PROVE  /\ caller' = [q \in Collector |-> caller'[q]]
         /\ caller'[p] = step /\ \A q \in Collector \ {p} : caller'[q] = caller[q]
BY DEF IssueTyped, Issues!Go

\* A step that changes nothing but what its caller holds.
LEMMA HeldKeeps ==
  ASSUME IssueInv, NEW p \in Collector, NEW step, Issues!Go(p, step),
         UNCHANGED <<issue, resolved, audit, reported>>,
         StepSound(step, issue, audit), step.pc \in Holding => Issues!Free(p)
  PROVE  IssueInv'
<1>1. /\ caller' = [q \in Collector |-> caller'[q]]
      /\ caller'[p] = step /\ \A q \in Collector \ {p} : caller'[q] = caller[q]
  BY CallerGoes DEF IssueInv
<1>2. IssueTyped'
  BY <1>1, Zenon DEF IssueInv, IssueTyped
<1>3. ASSUME NEW q \in Collector, NEW r \in Collector,
             caller'[q].pc \in Holding, caller'[r].pc \in Holding
      PROVE  q = r
  <2>1. \A s \in Collector \ {p} : step.pc \in Holding => caller'[s].pc \notin Holding
    BY <1>1 DEF Issues!Free, Holding
  <2> QED BY <1>1, <1>3, <2>1, Zenon DEF IssueInv
<1>4. ASSUME NEW q \in Collector PROVE StepSound(caller'[q], issue', audit')
  BY <1>1, Zenon DEF IssueInv
<1>5. Issues!IssueSound'
  <2>1. \A q \in Collector : caller'[q].pc = "answered" =>
          \E a \in audit : Issues!Replays(a, caller'[q].command)
    BY <1>4, Zenon DEF StepSound
  <2> QED BY <2>1, Zenon DEF IssueInv, Issues!IssueSound, Issues!At, Issues!Settled
<1> QED BY <1>2, <1>3, <1>4, <1>5, Zenon DEF IssueInv

LEMMA IssueInit ==
  ASSUME Issues!Init PROVE IssueInv
<1>1. issue \in Issue /\ issue.count = 0 /\ issue.severity = 0 /\ issue.status = "NONE"
  BY DEF Issues!Init, Issues!Absent, Issue, Issues!Severity
<1>2. IssueTyped
  BY <1>1 DEF Issues!Init, IssueTyped, Issues!Severity
<1>3. \A p \in Collector : caller[p].pc = "idle"
  BY DEF Issues!Init, Issues!Idle
<1>4. \A p \in Collector : StepSound(caller[p], issue, audit)
  BY <1>3 DEF StepSound
<1>5. ~Issues!Terminal(issue) /\ audit = {} /\ resolved = {}
  BY <1>1 DEF Issues!Terminal, Issues!Init
<1>6. Issues!IssueSound
  BY <1>1, <1>3, <1>5 DEF Issues!Init, Issues!IssueSound, Issues!At
<1> QED BY <1>2, <1>3, <1>4, <1>6 DEF IssueInv, Holding

\* The row as a report amends it.
LEMMA Amended ==
  ASSUME NEW was \in Issue, ~Issues!Terminal(was),
         NEW status \in {"OPEN", "REVIEW_REQUIRED"} \cup {was.status},
         NEW severity \in Issues!Severity, NEW sources \in SUBSET Source, NEW c,
         c = [pc |-> "reporting", severity |-> severity,
              row |-> [was EXCEPT !.status = status, !.severity = Issues!Worse(@, severity),
                                  !.count = @ + 1, !.sources = sources]]
  PROVE  c.pc = "reporting" /\ ReportSound(c, was)
<1> DEFINE new == [was EXCEPT !.status = status, !.severity = Issues!Worse(@, severity),
                              !.count = @ + 1, !.sources = sources]
<1>1. Issues!Worse(was.severity, severity) \in Issues!Severity /\ was.count + 1 \in Nat
  BY DEF Issues!Worse, Issue
<1>2. /\ new \in Issue /\ new.status = status /\ new.count = was.count + 1
      /\ new.severity = Issues!Worse(was.severity, severity)
  BY <1>1 DEF Issue
<1>3. ~Issues!Terminal(new)
  BY <1>2 DEF Issues!Terminal
<1> HIDE DEF new
<1>4. c.pc = "reporting" /\ c.severity = severity /\ c.row = new
  BY DEF new
<1> QED BY <1>2, <1>3, <1>4 DEF ReportSound

LEMMA ReportingKeeps ==
  ASSUME IssueInv, NEW p \in Collector, Issues!Free(p), ~Issues!Terminal(issue),
         NEW status \in {"OPEN", "REVIEW_REQUIRED"} \cup {issue.status},
         Issues!Reporting(p, issue, status), UNCHANGED <<issue, resolved, audit, reported>>
  PROVE  IssueInv'
<1>1. PICK severity \in Issues!Severity, sources \in SUBSET Source :
        Issues!Go(p, [pc |-> "reporting", severity |-> severity,
           row |-> [issue EXCEPT !.status = status, !.severity = Issues!Worse(@, severity),
                                 !.count = @ + 1, !.sources = sources]])
  BY Zenon DEF Issues!Reporting
<1> DEFINE step == [pc |-> "reporting", severity |-> severity,
           row |-> [issue EXCEPT !.status = status, !.severity = Issues!Worse(@, severity),
                                 !.count = @ + 1, !.sources = sources]]
<1>2. step.pc = "reporting" /\ ReportSound(step, issue)
  <2>1. issue \in Issue
    BY DEF IssueInv, IssueTyped
  <2> QED BY <2>1, Amended
<1>3. Issues!Go(p, step)
  BY <1>1
<1> HIDE DEF step
<1>4. StepSound(step, issue, audit)
  BY <1>2 DEF StepSound
<1> QED BY <1>3, <1>4, HeldKeeps

LEMMA ReportsKeep ==
  ASSUME IssueInv, NEW p \in Collector, Issues!Report(p) \/ Issues!Claim(p) \/ Issues!Amend(p)
  PROVE  IssueInv'
<1>1. ASSUME NEW pc \in {"idle", "missing", "found"}, Issues!Go(p, [pc |-> pc]),
             UNCHANGED <<issue, resolved, audit, reported>>
      PROVE  IssueInv'
  <2> DEFINE step == [pc |-> pc]
  <2>1. step.pc = pc /\ step.pc \notin {"asking", "answered", "reporting", "deciding"}
    BY <1>1
  <2>2. Issues!Go(p, step)
    BY <1>1
  <2> HIDE DEF step
  <2>3. StepSound(step, issue, audit) /\ step.pc \notin Holding
    BY <2>1 DEF StepSound, Holding
  <2> QED BY <1>1, <2>2, <2>3, HeldKeeps
<1>2. CASE Issues!Report(p)
  <2>1. UNCHANGED <<issue, resolved, audit, reported>>
    BY <1>2 DEF Issues!Report
  <2>2. Issues!Go(p, [pc |-> "missing"]) \/ Issues!Go(p, [pc |-> "found"])
    BY <1>2 DEF Issues!Report
  <2> QED BY <1>1, <2>1, <2>2
<1>3. CASE Issues!Claim(p)
  <2>1. UNCHANGED <<issue, resolved, audit, reported>>
    BY <1>3 DEF Issues!Claim
  <2>2. CASE Issues!Go(p, [pc |-> "found"])
    BY <1>1, <2>1, <2>2
  <2>3. CASE /\ issue = Issues!Absent /\ Issues!Free(p)
             /\ \E status \in {"OPEN", "REVIEW_REQUIRED"} : Issues!Reporting(p, Issues!Absent, status)
    <3>1. ~Issues!Terminal(issue)
      BY <2>3 DEF Issues!Absent, Issues!Terminal
    <3>2. PICK status \in {"OPEN", "REVIEW_REQUIRED"} : Issues!Reporting(p, issue, status)
      BY <2>3, Zenon
    <3> QED BY <2>1, <2>3, <3>1, <3>2, ReportingKeeps
  <2> QED BY <1>3, <2>2, <2>3, Zenon DEF Issues!Claim
<1>4. CASE Issues!Amend(p)
  <2>1. UNCHANGED <<issue, resolved, audit, reported>> /\ Issues!Free(p)
    BY <1>4 DEF Issues!Amend
  <2>2. CASE Issues!Terminal(issue)
    <3>1. Issues!Go(p, [pc |-> "idle"])
      BY <1>4, <2>2, Zenon DEF Issues!Amend, Issues!Idle
    <3> QED BY <1>1, <2>1, <3>1
  <2>3. CASE ~Issues!Terminal(issue)
    <3>1. Issues!Reporting(p, issue, issue.status)
      BY <1>4, <2>3, Zenon DEF Issues!Amend
    <3> QED BY <2>1, <2>3, <3>1, ReportingKeeps
  <2> QED BY <2>2, <2>3
<1> QED BY <1>2, <1>3, <1>4

LEMMA CommitReport ==
  ASSUME IssueInv, NEW p \in Collector, Issues!Commit(p)
  PROVE  IssueInv'
<1> DEFINE c == caller[p]
<1>1. /\ issue' = c.row /\ resolved' = resolved /\ audit' = audit
      /\ reported' = [count |-> reported.count + 1,
                      worst |-> Issues!Worse(reported.worst, c.severity)]
      /\ c.pc = "reporting" /\ ReportSound(c, issue)
  BY DEF Issues!Commit, Issues!At, IssueInv, StepSound
<1>2. /\ caller' = [q \in Collector |-> caller'[q]]
      /\ caller'[p] = Issues!Idle /\ \A q \in Collector \ {p} : caller'[q] = caller[q]
  BY CallerGoes DEF IssueInv, Issues!Commit
<1>3. caller'[p].pc = "idle"
  BY <1>2 DEF Issues!Idle
<1>4. \A q \in Collector : caller'[q].pc \notin Holding
  BY <1>1, <1>2, <1>3 DEF IssueInv, Holding
<1>5. /\ issue.count = reported.count /\ issue.severity = reported.worst
      /\ reported.count \in Nat /\ reported.worst \in Issues!Severity
      /\ ~Issues!Terminal(issue) /\ resolved = {}
  BY <1>1 DEF IssueInv, IssueTyped, Issues!IssueSound, ReportSound
<1>6. /\ c.row \in Issue /\ ~Issues!Terminal(c.row) /\ c.severity \in Issues!Severity
      /\ c.row.count = issue.count + 1
      /\ c.row.severity = Issues!Worse(issue.severity, c.severity)
  BY <1>1 DEF ReportSound
<1>7. IssueTyped'
  <2>1. reported' \in [count : Nat, worst : Issues!Severity]
    BY <1>1, <1>5, <1>6 DEF Issues!Worse
  <2> QED BY <1>1, <1>2, <1>6, <2>1 DEF IssueInv, IssueTyped
<1>8. ASSUME NEW q \in Collector PROVE StepSound(caller'[q], issue', audit')
  <2>1. CASE q = p
    BY <1>3, <2>1 DEF StepSound
  <2>2. CASE q # p
    <3>1. caller'[q] = caller[q] /\ StepSound(caller[q], issue, audit)
      BY <1>2, <2>2 DEF IssueInv
    <3> QED BY <1>1, <1>4, <3>1 DEF StepSound, Holding
  <2> QED BY <2>1, <2>2
<1>9. Issues!IssueSound'
  <2>1. issue'.count = reported'.count /\ issue'.severity = reported'.worst
    BY <1>1, <1>5, <1>6
  <2>2. issue'.status # "RESOLVED" /\ ~Issues!Terminal(issue')
    BY <1>1, <1>6 DEF Issues!Terminal
  <2>3. \A a \in audit : a.action = "REFETCH"
    BY <1>5 DEF IssueInv, Issues!IssueSound, Issues!Settled, Issues!Terminal
  <2>4. \A q \in Collector : caller'[q].pc = "answered" =>
          \E a \in audit' : Issues!Replays(a, caller'[q].command)
    BY <1>8 DEF StepSound
  <2>5. \A a, b \in audit : a.key = b.key => a = b
    BY DEF IssueInv, Issues!IssueSound
  <2> HIDE DEF c
  <2> QED BY <1>1, <1>5, <2>1, <2>2, <2>3, <2>4, <2>5 DEF Issues!IssueSound, Issues!At, Issues!Terminal
<1> QED BY <1>4, <1>7, <1>8, <1>9 DEF IssueInv

LEMMA AskKeeps ==
  ASSUME IssueInv, NEW p \in Collector, Issues!Ask(p)
  PROVE  IssueInv'
<1>1. PICK c \in Issues!Command :
        \/ Issues!Go(p, [pc |-> "asking", command |-> c])
        \/ /\ \E a \in audit : Issues!Replays(a, c)
           /\ Issues!Go(p, [pc |-> "answered", command |-> c])
  BY DEF Issues!Ask
<1>2. UNCHANGED <<issue, resolved, audit, reported>>
  BY DEF Issues!Ask
<1>3. PICK pc \in {"asking", "answered"} :
        /\ Issues!Go(p, [pc |-> pc, command |-> c])
        /\ pc = "answered" => \E a \in audit : Issues!Replays(a, c)
  BY <1>1
<1> DEFINE step == [pc |-> pc, command |-> c]
<1>4. Issues!Go(p, step) /\ step.pc = pc /\ step.command = c
  BY <1>3
<1> HIDE DEF step
<1>5. StepSound(step, issue, audit) /\ step.pc \notin Holding
  BY <1>3, <1>4 DEF StepSound, Holding
<1> QED BY <1>2, <1>4, <1>5, HeldKeeps

LEMMA LeavesKeep ==
  ASSUME IssueInv, NEW p \in Collector, Issues!Go(p, Issues!Idle),
         UNCHANGED <<issue, resolved, audit, reported>>
  PROVE  IssueInv'
<1>1. Issues!Idle.pc = "idle"
  BY DEF Issues!Idle
<1>2. StepSound(Issues!Idle, issue, audit) /\ Issues!Idle.pc \notin Holding
  BY <1>1 DEF StepSound, Holding
<1> QED BY <1>2, HeldKeeps

\* The row as a command decides it.
LEMMA Decided ==
  ASSUME IssueTyped, ~Issues!Terminal(issue), NEW c \in Issues!Command, NEW new,
         \/ c.action = "INVALIDATE"
         \/ c.action = "SELECT_SOURCE" /\ c.selected \in issue.sources,
         new = [issue EXCEPT
             !.status = IF c.action = "INVALIDATE" THEN "INVALIDATED" ELSE "RESOLVED",
             !.actor = c.actor, !.reason = c.reason, !.selected = c.selected]
  PROVE  /\ new \in Issue /\ Issues!Terminal(new) /\ Issues!SameResolution(new, c)
         /\ new.count = issue.count /\ new.severity = issue.severity
         /\ new.status = "RESOLVED" => new.selected \in new.sources
<1>1. /\ c.actor \in Actor /\ c.reason \in Reason /\ c.selected \in Source \cup {None}
      /\ issue \in Issue
  BY DEF Issues!Command, IssueTyped
<1> DEFINE status == IF c.action = "INVALIDATE" THEN "INVALIDATED" ELSE "RESOLVED"
<1>2. status \in {"INVALIDATED", "RESOLVED"} /\ (status = "RESOLVED" <=> c.action # "INVALIDATE")
  OBVIOUS
<1> HIDE DEF status
<1>3. new = [issue EXCEPT !.status = status, !.actor = c.actor, !.reason = c.reason,
                          !.selected = c.selected]
  BY DEF status
<1>4. /\ new \in Issue /\ new.status = status /\ new.actor = c.actor /\ new.reason = c.reason
      /\ new.selected = c.selected /\ new.count = issue.count /\ new.severity = issue.severity
      /\ new.sources = issue.sources
  BY <1>1, <1>2, <1>3 DEF Issue
<1>5. new.status = "RESOLVED" => c.action = "SELECT_SOURCE" /\ c.selected \in issue.sources
  BY <1>2, <1>4
<1>6. new.status # "RESOLVED" => c.action = "INVALIDATE"
  BY <1>2, <1>4
<1> QED BY <1>2, <1>4, <1>5, <1>6 DEF Issues!Terminal, Issues!SameResolution, Issues!ActionOf

LEMMA DecideKeeps ==
  ASSUME IssueInv, NEW p \in Collector, Issues!Decide(p)
  PROVE  IssueInv'
<1> DEFINE c == caller[p].command
           Step(next, first) == [pc |-> "deciding", command |-> c, row |-> next, first |-> first]
<1>1. /\ UNCHANGED <<issue, resolved, audit, reported>> /\ Issues!Free(p)
      /\ c \in Issues!Command /\ IssueTyped /\ issue \in Issue
  BY DEF Issues!Decide, Issues!At, IssueInv, IssueTyped, StepSound
<1>2. ASSUME NEW next, NEW first \in BOOLEAN, Issues!Go(p, Step(next, first)),
             DecisionSound(Step(next, first), issue)
      PROVE  IssueInv'
  <2> DEFINE step == Step(next, first)
  <2>1. step.pc = "deciding" /\ step.command = c
    OBVIOUS
  <2>2. Issues!Go(p, step) /\ DecisionSound(step, issue)
    BY <1>2
  <2> HIDE DEF step
  <2>3. StepSound(step, issue, audit)
    BY <1>1, <2>1, <2>2 DEF StepSound
  <2> QED BY <1>1, <2>2, <2>3, HeldKeeps
<1>3. ASSUME Issues!Go(p, Step(issue, FALSE)),
             \/ c.action = "REFETCH"
             \/ Issues!Terminal(issue) /\ Issues!SameResolution(issue, c)
      PROVE  IssueInv'
  <2>1. DecisionSound(Step(issue, FALSE), issue)
    BY <1>1, <1>3 DEF DecisionSound
  <2> QED BY <1>2, <1>3, <2>1
<1>4. ASSUME Issues!Go(p, Issues!Idle)
      PROVE  IssueInv'
  BY <1>1, <1>4, LeavesKeep
<1>5. ASSUME NEW new, ~Issues!Terminal(issue),
             \/ c.action = "INVALIDATE"
             \/ c.action = "SELECT_SOURCE" /\ c.selected \in issue.sources,
             new = [issue EXCEPT
               !.status = IF c.action = "INVALIDATE" THEN "INVALIDATED" ELSE "RESOLVED",
               !.actor = c.actor, !.reason = c.reason, !.selected = c.selected],
             Issues!Go(p, Step(new, TRUE))
      PROVE  IssueInv'
  <2>1. /\ new \in Issue /\ Issues!Terminal(new) /\ Issues!SameResolution(new, c)
        /\ new.count = issue.count /\ new.severity = issue.severity
        /\ new.status = "RESOLVED" => new.selected \in new.sources
    BY <1>1, <1>5, Decided
  <2> DEFINE step == Step(new, TRUE)
  <2>2. step.row = new /\ step.first = TRUE /\ step.command = c
    OBVIOUS
  <2> HIDE DEF step
  <2>3. DecisionSound(step, issue)
    BY <1>5, <2>1, <2>2 DEF DecisionSound
  <2> QED BY <1>2, <1>5, <2>3 DEF step
<1> QED BY <1>3, <1>4, <1>5 DEF Issues!Decide

As(r, a) ==
  /\ r.status = (IF a.action = "INVALIDATE" THEN "INVALIDATED" ELSE "RESOLVED")
  /\ r.actor = a.actor /\ r.reason = a.reason /\ r.selected = a.selected

\* An issue with the same resolution as a command is decided as it asks.
LEMMA DecidedAsAsked ==
  ASSUME NEW r, NEW a \in Issues!Command, Issues!Terminal(r), Issues!SameResolution(r, a)
  PROVE  As(r, a)
BY DEF Issues!Command, Issues!Terminal, Issues!SameResolution, Issues!ActionOf, As

LEMMA ConfirmKeeps ==
  ASSUME IssueInv, NEW p \in Collector, Issues!Confirm(p)
  PROVE  IssueInv'
<1> DEFINE c == caller[p]
<1>1. CASE Issues!Used(c.command.key)
  BY <1>1, LeavesKeep DEF Issues!Confirm
<1>2. CASE ~Issues!Used(c.command.key)
  <2>1. /\ issue' = c.row /\ audit' = audit \cup {c.command} /\ reported' = reported
        /\ resolved' = IF c.first THEN resolved \cup {c.row} ELSE resolved
        /\ Issues!Go(p, [pc |-> "answered", command |-> c.command])
        /\ c.pc = "deciding"
    BY <1>2 DEF Issues!Confirm, Issues!At
  <2>2. DecisionSound(c, issue) /\ c.command \in Issues!Command
    BY <2>1 DEF IssueInv, StepSound
  <2> DEFINE step == [pc |-> "answered", command |-> c.command]
  <2>3. /\ caller' = [q \in Collector |-> caller'[q]]
        /\ caller'[p] = step /\ \A q \in Collector \ {p} : caller'[q] = caller[q]
    BY <2>1, CallerGoes DEF IssueInv
  <2>4. caller'[p].pc = "answered" /\ caller'[p].command = c.command
    BY <2>3
  <2> HIDE DEF step
  <2>5. \A q \in Collector : caller'[q].pc \notin Holding
    BY <2>1, <2>3, <2>4 DEF IssueInv, Holding
  <2>6. Issues!Replays(c.command, c.command) /\ c.command \in audit' /\ audit \subseteq audit'
    BY <2>1 DEF Issues!Replays
  <2>7. IssueTyped'
    BY <2>1, <2>2, <2>3 DEF IssueInv, IssueTyped, DecisionSound
  <2>8. ASSUME NEW q \in Collector PROVE StepSound(caller'[q], issue', audit')
    <3>1. CASE q = p
      BY <2>2, <2>4, <2>6, <3>1 DEF StepSound
    <3>2. CASE q # p
      <4>1. caller'[q] = caller[q] /\ StepSound(caller[q], issue, audit)
        BY <2>3, <3>2 DEF IssueInv
      <4> QED BY <2>5, <2>6, <4>1 DEF StepSound, Holding
    <3> QED BY <3>1, <3>2
  <2>9. /\ issue.count = reported.count /\ issue.severity = reported.worst
        /\ resolved = IF Issues!Terminal(issue) THEN {issue} ELSE {}
        /\ issue.status = "RESOLVED" => issue.selected \in issue.sources
        /\ \A a \in audit : a.action # "REFETCH" => As(issue, a)
        /\ \A a, b \in audit : a.key = b.key => a = b
    BY DEF IssueInv, Issues!IssueSound, Issues!Settled, As
  <2>10. /\ issue'.count = reported'.count /\ issue'.severity = reported'.worst
         /\ issue'.status = "RESOLVED" => issue'.selected \in issue'.sources
    BY <2>1, <2>2, <2>9 DEF DecisionSound
  <2>11. resolved' = IF Issues!Terminal(issue') THEN {issue'} ELSE {}
    BY <2>1, <2>2, <2>9 DEF DecisionSound
  <2>12. ASSUME NEW a \in audit', a.action # "REFETCH"
         PROVE  As(issue', a)
    <3>1. CASE c.first
      <4>1. a = c.command
        <5>1. ~Issues!Terminal(issue)
          BY <2>2, <3>1 DEF DecisionSound
        <5>2. \A b \in audit : b.action = "REFETCH"
          BY <2>9, <5>1 DEF As, Issues!Terminal
        <5> QED BY <2>1, <2>12, <5>2
      <4>2. Issues!Terminal(issue') /\ Issues!SameResolution(issue', a)
        BY <2>1, <2>2, <3>1, <4>1 DEF DecisionSound
      <4> QED BY <2>2, <2>12, <4>1, <4>2, DecidedAsAsked
    <3>2. CASE ~c.first /\ a \in audit
      BY <2>1, <2>2, <2>9, <2>12, <3>2 DEF DecisionSound
    <3>3. CASE ~c.first /\ a = c.command
      <4>1. Issues!Terminal(issue') /\ Issues!SameResolution(issue', a)
        BY <2>1, <2>2, <2>12, <3>3 DEF DecisionSound
      <4> QED BY <2>2, <2>12, <3>3, <4>1, DecidedAsAsked
    <3> QED BY <2>1, <2>12, <3>1, <3>2, <3>3
  <2>13. \A a, b \in audit' : a.key = b.key => a = b
    BY <1>2, <2>1, <2>9 DEF Issues!Used
  <2>14. \A q \in Collector : caller'[q].pc = "answered" =>
          \E a \in audit' : Issues!Replays(a, caller'[q].command)
    BY <2>8 DEF StepSound
  <2>15. Issues!IssueSound'
    BY <2>10, <2>11, <2>12, <2>13, <2>14, Zenon DEF Issues!IssueSound, Issues!Settled, Issues!At, As
  <2> QED BY <2>5, <2>7, <2>8, <2>15 DEF IssueInv
<1> QED BY <1>1, <1>2

LEMMA IssueNext ==
  ASSUME IssueInv, [Issues!Next]_Issues!vars
  PROVE  IssueInv'
<1>1. CASE UNCHANGED Issues!vars
  BY <1>1, Zenon DEF Issues!vars, IssueInv, IssueTyped, Issues!IssueSound, Issues!Settled, Issues!At
<1>2. ASSUME NEW p \in Collector,
             \/ Issues!Report(p) \/ Issues!Claim(p) \/ Issues!Amend(p) \/ Issues!Commit(p)
             \/ Issues!Ask(p) \/ Issues!Decide(p) \/ Issues!Confirm(p)
      PROVE  IssueInv'
  BY <1>2, ReportsKeep, CommitReport, AskKeeps, DecideKeeps, ConfirmKeeps
<1>3. ASSUME NEW p \in Collector, Issues!Leave(p) \/ Issues!Fail(p)
      PROVE  IssueInv'
  BY <1>3, LeavesKeep DEF Issues!Leave, Issues!Fail
<1> QED BY <1>1, <1>2, <1>3 DEF Issues!Next

(***************************************************************************)
(* However reports and decisions of an issue overlap, fail and are         *)
(* repeated, no report is lost before the decision, the issue is decided   *)
(* once and stays so, and who was told that it was done as he asked was    *)
(* told the truth (QualityIssueService, QualityIssueApplication).          *)
(***************************************************************************)
THEOREM Quality == Issues!Spec => []Issues!IssueSound
<1>1. Issues!Spec => []IssueInv
  <2>1. Issues!Init => IssueInv
    BY IssueInit
  <2>2. IssueInv /\ [Issues!Next]_Issues!vars => IssueInv'
    BY IssueNext
  <2> QED BY <2>1, <2>2, PTL DEF Issues!Spec
<1>2. IssueInv => Issues!IssueSound
  BY DEF IssueInv
<1> QED BY <1>1, <1>2, PTL

(***************************************************************************)
(* What is stored of prices agrees with what is told of it, whichever of   *)
(* the writers moves.                                                      *)
(***************************************************************************)
THEOREM StoredTruth == DailyDataSpec => []StoredSound
<1>1. DailyDataInit => Daily!Init /\ Adjusted!QfqInit /\ Issues!Init
  BY DEF DailyDataInit
<1>2. [DailyDataNext]_<<vars, daily, adjusted, issues, kind>> =>
        /\ [Daily!Next]_Daily!vars /\ [Adjusted!QfqNext]_Adjusted!qfqVars
        /\ [Issues!Next]_Issues!vars
  BY DEF DailyDataNext, daily, adjusted, issues, Daily!vars, Adjusted!qfqVars, Issues!vars
<1>3. DailyDataSpec => Daily!Spec /\ Adjusted!QfqSpec /\ Issues!Spec
  BY <1>1, <1>2, PTL DEF DailyDataSpec, Daily!Spec, Adjusted!QfqSpec, Issues!Spec
<1>4. Daily!BatchTruth /\ Daily!OnlyValidated /\ Adjusted!PricesSound /\ Issues!IssueSound =>
        StoredSound
  BY DEF StoredSound
<1> QED BY <1>3, <1>4, Batches, AdjustedPrices, Quality, PTL

=============================================================================
