--------------------------- MODULE CandleStoreProofs ---------------------------
(* Theorems about CandleStore, for any windows, pages, targets and budgets. *)
EXTENDS CandleStore, FiniteSetTheorems, TLAPS

(* What a run of an ingestion holds was asked for, read and closed by now, in
   this order: the clock is the oldest of the three. *)
RunInOrder(run) ==
    /\ run.at # "rest" => run.clock <= now
    /\ run.at \in {"read", "write"} => run.clock <= run.snapshot /\ run.snapshot <= now
    /\ run.at = "write" => run.next <= run.last /\ run.last < now

RunsInOrder == \A w \in Writer : RunInOrder(ingest[w])

FillInOrder ==
    /\ fill.at \in {"asked", "read"} => fill.clock <= now
    /\ fill.at = "read" => fill.clock <= fill.snapshot
    /\ fill.at \in {"read", "write"} => fill.snapshot <= now
    /\ fill.at = "write" => \A b \in fill.page : b < fill.snapshot /\ b \notin malformed

(* What is stored had closed when it came. *)
StoredHadClosed == \A b \in Bar : row[b] # "none" => b < now /\ row[b] # "early"

(* A backfill stays within its budget, the page in its hands included. *)
WithinBudget ==
    /\ fill.written <= Budget
    /\ fill.at = "write" => fill.written + Cardinality(fill.page) <= Budget

Filling == fill.at \in {"loop", "asked", "read", "write"}

(* A run that has a top found a stored bar, and the cursor of a page is one, or
   past the last bar: then the page is the first thing the run asks for. *)
CursorIsStored ==
    /\ fill.at = "loop" /\ fill.top # None => \E b \in Bar : row[b] # "none"
    /\ fill.at \in {"asked", "read", "write"} =>
        /\ fill.oldest # None => row[fill.oldest] # "none"
        /\ fill.at # "write" /\ fill.oldest # None => fill.oldest < fill.clock
        /\ fill.at # "write" /\ fill.oldest = None => fill.top = None

(* A page reaches up to the cursor, or to the top it has set, without a hole. *)
PageIsWhole ==
    fill.at = "write" =>
        \A c \in fill.page, b \in Bar :
            c < b /\ b < fill.oldest /\ b < fill.top => b \in fill.page \/ b \in malformed

(* From the bottom of the series up to the top of the run, every bar is
   accounted for. *)
SolidBelowTop ==
    Filling \/ fill.at = "target_reached" =>
        \A b, c \in Bar : row[b] # "none" /\ b <= c /\ c < fill.top => Accounted(c)

(* A run that reached its target has stored a bar at or below it. *)
BottomAtTarget ==
    fill.at = "target_reached" /\ fill.top # None =>
        \E b \in Bar : row[b] # "none" /\ b <= Target

IInv ==
    /\ TypeOK
    /\ RunsInOrder
    /\ FillInOrder
    /\ StoredHadClosed
    /\ WithinBudget
    /\ CursorIsStored
    /\ PageIsWhole
    /\ SolidBelowTop
    /\ BottomAtTarget

(***************************************************************************)
(* Lemmas about the operators.                                             *)
(***************************************************************************)

(* Some naturals have a least one: the intervals below them are finite sets,
   which strict inclusion orders well. *)
LEMMA LeastNatural ==
    ASSUME NEW S \in SUBSET Nat, S # {}
    PROVE  \E b \in S : \A c \in S : b <= c
<1> DEFINE Below(n) == 0..n
           T == {Below(n) : n \in S}
<1>1. IsWellFoundedOn(StrictSubsetOrdering(Nat), FiniteSubsetsOf(Nat))
  BY FS_StrictSubsetOrderingWellFounded
<1>2. T \subseteq FiniteSubsetsOf(Nat)
  <2>1. \A n \in Nat : IsFiniteSet(0..n) /\ 0..n \in SUBSET Nat
    BY FS_Interval
  <2>2. \A n \in Nat : Below(n) \in FiniteSubsetsOf(Nat)
    BY <2>1 DEF FiniteSubsetsOf
  <2> HIDE DEF Below
  <2> QED BY <2>2
<1>3. T # {}
  OBVIOUS
<1>4. \E x \in T : \A y \in T : <<y, x>> \notin StrictSubsetOrdering(Nat)
  <2> HIDE DEF T
  <2> QED BY <1>1, <1>2, <1>3, WFMin
<1>5. PICK b \in S : \A c \in S : <<Below(c), Below(b)>> \notin StrictSubsetOrdering(Nat)
  BY <1>4
<1>6. ASSUME NEW c \in S, c < b PROVE FALSE
  <2>1. Below(c) \in SUBSET Nat /\ Below(b) \in SUBSET Nat
    OBVIOUS
  <2>2. Below(c) \subseteq Below(b) /\ b \in Below(b) /\ b \notin Below(c)
    BY <1>6
  <2>3. <<Below(c), Below(b)>> \in StrictSubsetOrdering(Nat)
    BY <2>1, <2>2 DEF StrictSubsetOrdering
  <2> QED BY <1>5, <2>3
<1> QED BY <1>6

LEMMA MinOfTwo ==
    ASSUME NEW a \in Nat, NEW b \in Nat
    PROVE  Min({a, b}) = IF a <= b THEN a ELSE b
BY DEF Min

(* The largest and the smallest of some bars. *)
LEMMA MinOfBars ==
    ASSUME NEW S \in SUBSET Bar, S # {}
    PROVE  Min(S) \in S /\ \A b \in S : Min(S) <= b
<1>1. S \in SUBSET Nat
    BY StoreAssumption DEF Bar
<1>2. \E b \in S : \A c \in S : b <= c
    BY <1>1, LeastNatural
<1> QED
    BY <1>2 DEF Min

LEMMA MaxOfBars ==
    ASSUME NEW S \in SUBSET Bar, S # {}
    PROVE  Max(S) \in S /\ \A b \in S : b <= Max(S)
<1> DEFINE Down == {n \in Nat : \E b \in S : n = LastBar - b}
<1>1. Down \in SUBSET Nat /\ Down # {}
    <2>1. \A b \in S : b \in Nat /\ LastBar - b \in Nat
        BY StoreAssumption DEF Bar
    <2>2. PICK b \in S : TRUE
        OBVIOUS
    <2>3. LastBar - b \in Down
        BY <2>1
    <2> QED
        BY <2>3
<1>2. PICK n \in Down : \A m \in Down : n <= m
    BY <1>1, LeastNatural
<1>3. PICK b \in S : n = LastBar - b
    BY <1>2
<1>4. \A c \in S : c <= b
    <2> SUFFICES ASSUME NEW c \in S PROVE c <= b
        OBVIOUS
    <2>1. c \in Nat /\ b \in Nat /\ LastBar - c \in Nat
        BY StoreAssumption DEF Bar
    <2>2. LastBar - b <= LastBar - c
        BY <1>2, <1>3, <2>1
    <2> QED
        BY <2>1, <2>2, StoreAssumption
<1>5. \A c \in S : c \in Nat
    BY StoreAssumption DEF Bar
<1>6. \E x \in S : \A y \in S : x >= y
    BY <1>4, <1>5
<1>7. Max(S) \in S /\ \A y \in S : Max(S) >= y
    BY <1>6 DEF Max
<1> QED
    BY <1>5, <1>7

(* The bottom of a series is its lowest stored bar, when it has one. *)
LEMMA OldestIsLowest ==
    ASSUME NEW rows \in [Bar -> Row]
    PROVE  /\ Oldest(rows) \in Bar \cup {None}
           /\ Oldest(rows) = None => \A b \in Bar : rows[b] = "none"
           /\ Oldest(rows) # None => rows[Oldest(rows)] # "none"
           /\ \A b \in Bar : rows[b] # "none" => Oldest(rows) <= b
<1> DEFINE Stored == {b \in Bar : rows[b] # "none"}
<1>1. CASE Stored = {}
    BY <1>1, StoreAssumption DEF Oldest, None, Bar
<1>2. CASE Stored # {}
    <2>1. Stored \in SUBSET Nat
        BY StoreAssumption DEF Bar
    <2>2. PICK b \in Stored : \A c \in Stored : b <= c
        BY <1>2, <2>1, LeastNatural
    <2>3. \E d \in Bar : rows[d] # "none" /\ \A c \in Bar : rows[c] # "none" => d <= c
        BY <2>2
    <2>4. /\ Oldest(rows) \in Bar /\ rows[Oldest(rows)] # "none"
          /\ \A c \in Bar : rows[c] # "none" => Oldest(rows) <= c
        BY <2>2, <2>3 DEF Oldest
    <2>5. None \notin Bar
        BY StoreAssumption DEF None, Bar
    <2> QED
        BY <2>4, <2>5
<1> QED
    BY <1>1, <1>2

(* The newest n bars below a bar are at most n, next to each other. *)
LEMMA NewestAreNext ==
    ASSUME NEW n \in Nat, NEW below \in Bar \cup {None}, NEW snapshot \in Bar
    PROVE  LET bars == Newest(n, below, snapshot) IN
           /\ bars \in SUBSET Bar
           /\ IsFiniteSet(bars) /\ Cardinality(bars) <= n
           /\ \A b \in bars : b < below /\ b <= snapshot
           /\ \A c \in bars, b \in Bar : c < b /\ b < below /\ b <= snapshot => b \in bars
<1> DEFINE end == IF below <= snapshot + 1 THEN below ELSE snapshot + 1
           bars == Newest(n, below, snapshot)
<1>1. below \in Nat /\ snapshot \in Nat /\ end \in Nat
    BY StoreAssumption DEF Bar, None
<1>2. Min({below, snapshot + 1}) = end
    BY <1>1, MinOfTwo
<1>3. bars = {b \in Bar : b < below /\ b <= snapshot /\ b + n >= end}
    BY <1>2 DEF Newest
<1>4. bars \in SUBSET ((end - n)..(end - 1))
    BY <1>1, <1>3, StoreAssumption DEF Bar
<1>5. IsFiniteSet((end - n)..(end - 1)) /\ Cardinality((end - n)..(end - 1)) <= n
    <2>1. PICK lo \in Int, hi \in Int : lo = end - n /\ hi = end - 1
        BY <1>1
    <2>2. IsFiniteSet(lo..hi) /\ Cardinality(lo..hi) = IF lo > hi THEN 0 ELSE hi - lo + 1
        BY FS_Interval
    <2>3. hi - lo + 1 = n /\ n \in Nat
        BY <1>1, <2>1
    <2>4. Cardinality(lo..hi) <= n
        BY <2>2, <2>3
    <2> QED
        BY <2>1, <2>2, <2>4
<1>6. IsFiniteSet(bars) /\ Cardinality(bars) <= n
    <2> HIDE DEF end, bars
    <2>1. IsFiniteSet(bars) /\ Cardinality(bars) <= Cardinality((end - n)..(end - 1))
        BY <1>4, <1>5, FS_Subset
    <2>2. Cardinality(bars) \in Nat /\ Cardinality((end - n)..(end - 1)) \in Nat
        BY <1>5, <2>1, FS_CardinalityType
    <2> QED
        BY <1>5, <2>1, <2>2
<1> QED
    BY <1>1, <1>3, <1>6, StoreAssumption DEF Bar

(* A finished row stays as it is, and a snapshot of a bar that had ended is
   final. *)
LEMMA PutKeeps ==
    ASSUME NEW old \in Row \ {"early"}, NEW new \in {"forming", "final"}
    PROVE  /\ Put(old, new) \in {"forming", "final"}
           /\ old = "final" => Put(old, new) = "final"
BY DEF Put, Row

LEMMA InitIInv == Init => IInv
BY StoreAssumption DEF Init, IInv, TypeOK, RunsInOrder, RunInOrder, FillInOrder,
    StoredHadClosed, WithinBudget, CursorIsStored, PageIsWhole, SolidBelowTop,
    BottomAtTarget, Filling, Resting, Runs, Fills, Bar, None, Row
(***************************************************************************)
(* The ingestion.                                                          *)
(***************************************************************************)

(* A step that touches neither the rows, nor the backfill, nor the clock. *)
LEMMA OnlyRuns ==
    ASSUME IInv, ingest' \in [Writer -> Runs], RunsInOrder',
           UNCHANGED <<now, malformed, row, fill, jumped>>
    PROVE  IInv'
BY DEF IInv, TypeOK, FillInOrder, StoredHadClosed, WithinBudget, CursorIsStored,
    PageIsWhole, SolidBelowTop, BottomAtTarget, Filling, Accounted

(* The fields of a run. *)
LEMMA RunFields ==
    ASSUME NEW run \in Runs
    PROVE  /\ run.at \in {"rest", "asked", "read", "write"}
           /\ run.at = "rest" <=> run = Resting
           /\ run.at # "rest" => run.clock \in Bar
           /\ run.at \in {"read", "write"} => run.snapshot \in Bar
           /\ run.at = "write" => /\ run.next \in Bar /\ run.last \in Bar
                                  /\ run = Writing(run.clock, run.snapshot, run.next, run.last)
BY DEF Runs, Resting, Asked, Read, Writing

LEMMA BeginsInv ==
    ASSUME IInv, NEW w \in Writer, IngestBegins(w)
    PROVE  IInv'
<1>1. ingest' \in [Writer -> Runs]
    BY DEF IInv, TypeOK, IngestBegins, Runs
<1>2. RunsInOrder'
    BY StoreAssumption DEF IInv, TypeOK, IngestBegins, RunsInOrder, RunInOrder, Asked, Bar
<1> QED
    BY <1>1, <1>2, OnlyRuns DEF IngestBegins

LEMMA VenueReadsInv ==
    ASSUME IInv, NEW w \in Writer, VenueReads(w)
    PROVE  IInv'
<1>1. ingest' \in [Writer -> Runs]
    BY RunFields DEF IInv, TypeOK, VenueReads, Runs
<1>2. RunsInOrder'
    BY StoreAssumption, RunFields DEF IInv, TypeOK, VenueReads, RunsInOrder, RunInOrder, Read, Bar
<1> QED
    BY <1>1, <1>2, OnlyRuns DEF VenueReads

LEMMA ReceivesInv ==
    ASSUME IInv, NEW w \in Writer, IngestReceives(w)
    PROVE  IInv'
<1> DEFINE run == ingest[w]
           bars == Newest(Limit, None, run.snapshot)
           kept == bars \ Dropped(bars, now)
<1>1. run \in Runs /\ run.at = "read" /\ run.clock \in Bar /\ run.snapshot \in Bar
    BY RunFields DEF IInv, TypeOK, IngestReceives
<1>2. kept \in SUBSET Bar /\ \A b \in kept : b < now
    <2>1. now \in Nat
        BY StoreAssumption DEF IInv, TypeOK, Bar
    <2>2. bars \in SUBSET Bar
        BY DEF Newest
    <2>3. bars \in SUBSET Nat
        BY <2>2, StoreAssumption DEF Bar
    <2> HIDE DEF bars
    <2>4. kept \subseteq bars
        OBVIOUS
    <2>5. \A b \in kept : now >= b + 1
        BY DEF Dropped, IsClosed
    <2> HIDE DEF kept
    <2> SUFFICES ASSUME NEW b \in kept PROVE b \in Bar /\ b < now
        OBVIOUS
    <2>6. b \in Nat /\ now >= b + 1
        BY <2>3, <2>4, <2>5
    <2> QED
        BY <2>1, <2>2, <2>4, <2>6
<1>3. kept # {} => /\ Min(kept) \in Bar /\ Max(kept) \in Bar
                   /\ Min(kept) <= Max(kept) /\ Max(kept) < now
    BY <1>2, MinOfBars, MaxOfBars
<1>4. \/ ingest' = [ingest EXCEPT ![w] = Resting]
      \/ /\ kept # {}
         /\ ingest' = [ingest EXCEPT ![w] =
                         Writing(run.clock, run.snapshot, Min(kept), Max(kept))]
    BY DEF IngestReceives
<1> HIDE DEF kept
<1>5. ingest' \in [Writer -> Runs]
    BY <1>1, <1>3, <1>4 DEF IInv, TypeOK, Runs
<1>6. RunsInOrder'
    BY <1>1, <1>3, <1>4 DEF IInv, TypeOK, IngestReceives, RunsInOrder, RunInOrder,
        Writing, Resting
<1> QED
    BY <1>5, <1>6, OnlyRuns DEF IngestReceives

LEMMA IngestFailsInv ==
    ASSUME IInv, NEW w \in Writer, IngestFails(w)
    PROVE  IInv'
<1>1. ingest' \in [Writer -> Runs]
    BY DEF IInv, TypeOK, IngestFails, Runs
<1>2. RunsInOrder'
    BY DEF IInv, TypeOK, IngestFails, RunsInOrder, RunInOrder, Resting
<1> QED
    BY <1>1, <1>2, OnlyRuns DEF IngestFails

LEMMA TickInv ==
    ASSUME IInv, Tick
    PROVE  IInv'
<1>1. now \in Nat /\ now' = now + 1 /\ now' \in Bar
    BY StoreAssumption DEF IInv, TypeOK, Tick, Bar
<1>2. TypeOK' /\ WithinBudget' /\ CursorIsStored' /\ PageIsWhole' /\ SolidBelowTop'
      /\ BottomAtTarget'
    BY <1>1 DEF IInv, TypeOK, Tick, WithinBudget, CursorIsStored, PageIsWhole,
        SolidBelowTop, BottomAtTarget, Filling, Accounted
<1>3. RunsInOrder'
    BY <1>1, RunFields, StoreAssumption DEF IInv, TypeOK, Tick, RunsInOrder, RunInOrder, Bar
<1>4. FillInOrder'
    BY <1>1, StoreAssumption DEF IInv, TypeOK, Tick, FillInOrder, Fills, Bar
<1>5. StoredHadClosed'
    BY <1>1, StoreAssumption DEF IInv, TypeOK, Tick, StoredHadClosed, Bar
<1> QED
    BY <1>2, <1>3, <1>4, <1>5 DEF IInv
(* What is stored stays stored, and as closed as it was. *)
RowsGrow ==
    /\ row' \in [Bar -> Row]
    /\ \A b \in Bar : row[b] # "none" => row'[b] # "none"
    /\ \A b \in Bar : row[b] = "final" => row'[b] = "final"

(* What an upsert or a page writes of a bar whose row is in order. *)
LEMMA CandleIsNotEarly ==
    ASSUME NEW b \in Nat, NEW clock \in Nat, NEW snapshot \in Nat, clock <= snapshot
    PROVE  Candle(b, snapshot, IsClosed(b, clock)) \in {"forming", "final"}
BY DEF Candle, IsClosed

LEMMA UpsertWrites ==
    ASSUME IInv, NEW w \in Writer, Upsert(w)
    PROVE  LET b == ingest[w].next IN
           /\ b \in Bar /\ b < now
           /\ RowsGrow
           /\ b \notin malformed => row'[b] \in {"forming", "final"}
           /\ \A c \in Bar : c # b \/ b \in malformed => row'[c] = row[c]
<1> DEFINE run == ingest[w]
           b == run.next
           candle == Candle(b, run.snapshot, IsClosed(b, run.clock))
<1>1. run \in Runs /\ run.at = "write" /\ RunInOrder(run)
    BY DEF IInv, TypeOK, Upsert, RunsInOrder
<1>2. b \in Bar /\ run.last \in Bar /\ run.clock \in Bar /\ run.snapshot \in Bar
    BY <1>1, RunFields
<1>3. b < now /\ run.clock <= run.snapshot
    BY <1>1, <1>2, StoreAssumption DEF RunInOrder, IInv, TypeOK, Bar
<1>4. candle \in {"forming", "final"}
    BY <1>2, <1>3, CandleIsNotEarly, StoreAssumption DEF Bar
<1>5. row \in [Bar -> Row \ {"early"}]
    BY DEF IInv, TypeOK, StoredHadClosed, Row
<1>6. row' = IF b \in malformed THEN row ELSE [row EXCEPT ![b] = Put(row[b], candle)]
    BY DEF Upsert
<1> HIDE DEF candle
<1>7. /\ Put(row[b], candle) \in {"forming", "final"}
      /\ row[b] = "final" => Put(row[b], candle) = "final"
    BY <1>2, <1>4, <1>5, PutKeeps
<1> HIDE DEF b
<1>8. RowsGrow
    BY <1>2, <1>5, <1>6, <1>7 DEF RowsGrow, Row
<1>9. /\ b \notin malformed => row'[b] \in {"forming", "final"}
      /\ \A c \in Bar : c # b \/ b \in malformed => row'[c] = row[c]
    BY <1>2, <1>5, <1>6, <1>7
<1> QED
    BY <1>2, <1>3, <1>8, <1>9 DEF b

LEMMA UpsertInv ==
    ASSUME IInv, NEW w \in Writer, Upsert(w)
    PROVE  IInv'
<1> DEFINE run == ingest[w]
           b == run.next
<1>1. run \in Runs /\ run.at = "write" /\ RunInOrder(run)
    BY DEF IInv, TypeOK, Upsert, RunsInOrder
<1>2. /\ b \in Bar /\ run.last \in Bar /\ run.clock \in Bar /\ run.snapshot \in Bar
      /\ run = Writing(run.clock, run.snapshot, b, run.last)
    BY <1>1, RunFields
<1>3. /\ b < now /\ RowsGrow
      /\ b \notin malformed => row'[b] \in {"forming", "final"}
      /\ \A c \in Bar : c # b \/ b \in malformed => row'[c] = row[c]
    BY UpsertWrites
<1>4. ingest' = [ingest EXCEPT ![w] =
                   IF b \in malformed \/ b = run.last THEN Resting
                   ELSE Writing(run.clock, run.snapshot, b + 1, run.last)]
    <2>1. PICK k, s, n, l : run = Writing(k, s, n, l)
        BY <1>2
    <2>2. [run EXCEPT !.next = b + 1] = Writing(run.clock, run.snapshot, b + 1, run.last)
        BY <2>1 DEF Writing
    <2> QED
        BY <2>2 DEF Upsert
<1>5. b # run.last => b + 1 \in Bar /\ b + 1 <= run.last
    BY <1>1, <1>2, StoreAssumption DEF RunInOrder, Bar
<1>6. ingest' \in [Writer -> Runs]
    BY <1>2, <1>4, <1>5 DEF IInv, TypeOK, Runs
<1>7. RunsInOrder'
    BY <1>1, <1>2, <1>4, <1>5 DEF IInv, TypeOK, Upsert, RunsInOrder, RunInOrder,
        Resting, Writing
<1>8. jumped' = jumped \cup IF b \in malformed THEN {} ELSE b + 1 .. Oldest(row) - 1
    BY DEF Upsert
<1>9. Oldest(row) \in Bar \cup {None}
    BY OldestIsLowest DEF IInv, TypeOK
<1>10. b + 1 .. Oldest(row) - 1 \in SUBSET Bar
    BY <1>2, <1>9, StoreAssumption DEF Bar, None
<1>11. UNCHANGED <<now, malformed, fill>>
    BY DEF Upsert
<1> HIDE DEF b
<1>12. TypeOK'
    BY <1>2, <1>3, <1>6, <1>8, <1>10, <1>11 DEF IInv, TypeOK, RowsGrow
<1>13. StoredHadClosed'
    <2> SUFFICES ASSUME NEW c \in Bar, row'[c] # "none"
                 PROVE  c < now /\ row'[c] # "early"
        BY <1>11 DEF StoredHadClosed
    <2>1. CASE c = b /\ b \notin malformed
        BY <1>3, <2>1
    <2>2. CASE c # b \/ b \in malformed
        <3>1. row'[c] = row[c]
            BY <1>3, <2>2
        <3> QED
            BY <3>1 DEF IInv, StoredHadClosed
    <2> QED
        BY <2>1, <2>2
<1>14. FillInOrder' /\ WithinBudget' /\ PageIsWhole'
    BY <1>11 DEF IInv, FillInOrder, WithinBudget, PageIsWhole
<1>15. CursorIsStored'
    <2>1. fill.at \in {"asked", "read", "write"} => fill.oldest \in Bar \cup {None}
        BY DEF IInv, TypeOK, Fills
    <2> QED
        BY <1>3, <1>11, <2>1 DEF IInv, CursorIsStored, RowsGrow
<1>16. SolidBelowTop'
    <2> SUFFICES ASSUME Filling \/ fill.at = "target_reached",
                        NEW d \in Bar, NEW c \in Bar,
                        row'[d] # "none", d <= c, c < fill.top
                 PROVE  Accounted(c)'
        BY <1>11 DEF SolidBelowTop, Filling
    <2>1. Accounted(c) => Accounted(c)'
        BY <1>3, <1>8, <1>11 DEF Accounted, RowsGrow
    <2>2. CASE row[d] # "none"
        BY <2>1, <2>2 DEF IInv, SolidBelowTop
    <2>3. CASE row[d] = "none"
        <3>1. d = b /\ b \notin malformed
            BY <1>3, <2>3
        <3>2. CASE c < Oldest(row)
            <4>1. c = b \/ c \in b + 1 .. Oldest(row) - 1
                BY <1>2, <1>9, <3>1, <3>2, StoreAssumption DEF Bar, None
            <4> QED
                BY <1>3, <1>8, <3>1, <4>1 DEF Accounted
        <3>3. CASE Oldest(row) <= c
            <4>1. Oldest(row) # None
                BY <1>9, <3>3, StoreAssumption DEF Bar, None
            <4>2. Oldest(row) \in Bar /\ row[Oldest(row)] # "none"
                BY <1>9, <4>1, OldestIsLowest DEF IInv, TypeOK
            <4> QED
                BY <2>1, <3>3, <4>2 DEF IInv, SolidBelowTop
        <3> QED
            BY <1>9, <3>2, <3>3, StoreAssumption DEF Bar, None
    <2> QED
        BY <2>2, <2>3
<1>17. BottomAtTarget'
    BY <1>3, <1>11 DEF IInv, BottomAtTarget, RowsGrow
<1> QED
    BY <1>7, <1>12, <1>13, <1>14, <1>15, <1>16, <1>17 DEF IInv
(***************************************************************************)
(* The backfill.                                                           *)
(***************************************************************************)

(* A step that touches neither the rows, nor the ingestion, nor the clock. *)
LEMMA OnlyFill ==
    ASSUME IInv, fill' \in Fills,
           (FillInOrder /\ WithinBudget /\ CursorIsStored /\ PageIsWhole
                /\ SolidBelowTop /\ BottomAtTarget)',
           UNCHANGED <<now, malformed, row, ingest, jumped>>
    PROVE  IInv'
BY DEF IInv, TypeOK, RunsInOrder, RunInOrder, StoredHadClosed

(* The fields of the backfill. *)
LEMMA FillFields ==
    ASSUME TypeOK
    PROVE  /\ fill.top \in Bar \cup {None} /\ fill.written \in Nat
           /\ fill.at \in {"asked", "read", "write"} =>
                fill.oldest \in Bar \cup {None} /\ fill.snapshot \in Bar
           /\ fill.at \in {"asked", "read"} => fill.clock \in Bar
           /\ fill.at = "write" => fill.page \in SUBSET Bar
BY StoreAssumption DEF TypeOK, Fills

(* A run that is over, for any reason but that its target is reached. *)
LEMMA RunOver ==
    ASSUME IInv, NEW reason \in {"rest", "no_more_bars", "budget_exhausted"},
           fill' = Over(reason), UNCHANGED <<now, malformed, row, ingest, jumped>>
    PROVE  IInv'
<1>1. fill.top \in Bar \cup {None} /\ fill.written \in 0..Budget
    BY FillFields, StoreAssumption DEF IInv, WithinBudget
<1>2. fill' \in Fills
    BY <1>1, StoreAssumption DEF Over, Fills
<1>3. fill'.at = reason /\ fill'.written = fill.written
    BY DEF Over
<1> QED
    BY <1>1, <1>2, <1>3, OnlyFill, StoreAssumption DEF FillInOrder, WithinBudget,
        CursorIsStored, PageIsWhole, SolidBelowTop, BottomAtTarget, Filling

LEMMA FillFailsInv ==
    ASSUME IInv, FillFails
    PROVE  IInv'
BY RunOver DEF FillFails

LEMMA FillBeginsInv ==
    ASSUME IInv, FillBegins
    PROVE  IInv'
<1>1. /\ Oldest(row) \in Bar \cup {None}
      /\ \A b \in Bar : row[b] # "none" => Oldest(row) <= b
    BY OldestIsLowest DEF IInv, TypeOK
<1>2. fill'.at = "loop" /\ fill'.top = Oldest(row) /\ fill'.written = 0
    BY DEF FillBegins
<1>3. fill' \in Fills
    BY <1>1, StoreAssumption DEF FillBegins, Fills
<1>4. SolidBelowTop'
    <2> SUFFICES ASSUME NEW b \in Bar, NEW c \in Bar, row'[b] # "none", b <= c,
                        c < fill'.top
                 PROVE  FALSE
        BY DEF SolidBelowTop
    <2>1. b < Oldest(row) /\ row[b] # "none"
        BY <1>1, <1>2, StoreAssumption DEF FillBegins, Bar, None
    <2> QED
        BY <1>1, <2>1, StoreAssumption DEF Bar, None
<1>5. Oldest(row) # None => \E b \in Bar : row[b] # "none"
    BY <1>1, OldestIsLowest DEF IInv, TypeOK
<1>6. (FillInOrder /\ WithinBudget /\ CursorIsStored /\ PageIsWhole /\ BottomAtTarget)'
    BY <1>2, <1>5, StoreAssumption DEF FillBegins, FillInOrder, WithinBudget, CursorIsStored, PageIsWhole,
        BottomAtTarget
<1> QED
    BY <1>3, <1>4, <1>6, OnlyFill DEF FillBegins

(* While the series is empty the run has no top. *)
LEMMA FillAsksInv ==
    ASSUME IInv, FillAsks
    PROVE  IInv'
<1> DEFINE oldest == Oldest(row)
<1>1. /\ oldest \in Bar \cup {None}
      /\ oldest # None => oldest \in Bar /\ row[oldest] # "none"
      /\ oldest = None => \A b \in Bar : row[b] = "none"
    BY OldestIsLowest DEF IInv, TypeOK
<1>2. fill.top \in Bar \cup {None} /\ fill.written \in 0..Budget
    BY FillFields, StoreAssumption DEF IInv, WithinBudget
<1>3. CASE fill' = Over("budget_exhausted")
    BY <1>3, RunOver DEF FillAsks
<1>4. CASE oldest # None /\ oldest <= Target /\ fill' = Over("target_reached")
    <2>1. fill'.at = "target_reached" /\ fill'.top = fill.top /\ fill'.written = fill.written
        BY <1>4 DEF Over
    <2>2. fill' \in Fills
        BY <1>2, <1>4, StoreAssumption DEF Over, Fills
    <2>3. SolidBelowTop'
        BY <2>1 DEF IInv, FillAsks, SolidBelowTop, Filling, Accounted
    <2>4. (FillInOrder /\ WithinBudget /\ CursorIsStored /\ PageIsWhole /\ BottomAtTarget)'
        BY <1>1, <1>2, <1>4, <2>1, StoreAssumption DEF FillAsks, FillInOrder, WithinBudget,
            CursorIsStored, PageIsWhole, BottomAtTarget
    <2> QED
        BY <2>2, <2>3, <2>4, OnlyFill DEF FillAsks
<1>5. CASE fill' = [at |-> "asked", top |-> fill.top, written |-> fill.written,
                    oldest |-> oldest, clock |-> now, snapshot |-> now]
    <2>1. /\ fill'.at = "asked" /\ fill'.top = fill.top /\ fill'.written = fill.written
          /\ fill'.oldest = oldest /\ fill'.clock = now /\ fill'.snapshot = now
        BY <1>5
    <2>2. fill' \in Fills
        BY <1>1, <1>2, <1>5 DEF Fills, IInv, TypeOK
    <2>3. SolidBelowTop'
        BY <2>1 DEF IInv, FillAsks, SolidBelowTop, Filling, Accounted
    <2>4. CursorIsStored'
        BY <1>1, <1>2, <2>1 DEF FillAsks, CursorIsStored, IInv, StoredHadClosed
    <2>5. (FillInOrder /\ WithinBudget /\ PageIsWhole /\ BottomAtTarget)'
        BY <1>2, <2>1, StoreAssumption DEF FillAsks, FillInOrder, WithinBudget,
            PageIsWhole, BottomAtTarget, IInv, TypeOK, Bar
    <2> QED
        BY <2>2, <2>3, <2>4, <2>5, OnlyFill DEF FillAsks
<1> QED
    BY <1>3, <1>4, <1>5 DEF FillAsks
LEMMA VenuePagesInv ==
    ASSUME IInv, VenuePages
    PROVE  IInv'
<1>1. /\ fill.at = "asked" /\ fill.oldest \in Bar \cup {None} /\ fill.clock \in Bar
      /\ fill.top \in Bar \cup {None} /\ fill.written \in 0..Budget
    BY FillFields, StoreAssumption DEF IInv, WithinBudget, VenuePages
<1>2. fill' = [fill EXCEPT !.at = "read", !.snapshot = now]
    BY DEF VenuePages
<1>3. fill \in [at : {"asked", "read"}, top : Bar \cup {None}, written : 0..Budget,
                oldest : Bar \cup {None}, clock : Bar, snapshot : Bar]
    BY <1>1 DEF IInv, TypeOK, Fills
<1>4. /\ fill'.at = "read" /\ fill'.top = fill.top /\ fill'.written = fill.written
      /\ fill'.oldest = fill.oldest /\ fill'.clock = fill.clock /\ fill'.snapshot = now
    BY <1>2, <1>3
<1>5. fill' \in Fills
    BY <1>2, <1>3 DEF IInv, TypeOK, Fills
<1>6. SolidBelowTop'
    BY <1>1, <1>4 DEF IInv, VenuePages, SolidBelowTop, Filling, Accounted
<1>7. (FillInOrder /\ WithinBudget /\ CursorIsStored /\ PageIsWhole /\ BottomAtTarget)'
    BY <1>1, <1>4, StoreAssumption DEF VenuePages, FillInOrder, WithinBudget,
        CursorIsStored, PageIsWhole, BottomAtTarget, IInv, TypeOK, Bar
<1> QED
    BY <1>5, <1>6, <1>7, OnlyFill DEF VenuePages

(* A page that is kept ends at the cursor, or at the newest bar that has ended,
   and what is dropped from it are bars above its end or below the target. *)
LEMMA FillReceivesInv ==
    ASSUME IInv, FillReceives
    PROVE  IInv'
<1> DEFINE size == Min({PageSize, Budget - fill.written})
           bars == Newest(size, fill.oldest, fill.snapshot)
           page == bars \ Dropped(bars, now)
           top == IF fill.top = None THEN Max(page) + 1 ELSE fill.top
           usable == {b \in page : b >= Target} \ malformed
<1>1. /\ fill.at = "read" /\ fill.oldest \in Bar \cup {None} /\ fill.clock \in Bar
      /\ fill.top \in Bar \cup {None} /\ fill.written \in 0..Budget /\ fill.snapshot \in Bar
    BY FillFields, StoreAssumption DEF IInv, WithinBudget, FillReceives
<1>2. \/ fill' = Over("rest") \/ fill' = Over("no_more_bars")
      \/ /\ page # {} /\ \A b \in page : IsClosed(b, fill.clock)
         /\ fill' = [at |-> "write", top |-> top, written |-> fill.written,
                     oldest |-> fill.oldest, snapshot |-> fill.snapshot, page |-> usable]
    BY DEF FillReceives
<1>3. CASE fill' = Over("rest") \/ fill' = Over("no_more_bars")
    BY <1>3, RunOver DEF FillReceives
<1>4. CASE /\ page # {} /\ \A b \in page : IsClosed(b, fill.clock)
           /\ fill' = [at |-> "write", top |-> top, written |-> fill.written,
                       oldest |-> fill.oldest, snapshot |-> fill.snapshot, page |-> usable]
    <2>1. size \in Nat /\ fill.written + size <= Budget
        BY <1>1, MinOfTwo, StoreAssumption
    <2>2. /\ bars \in SUBSET Bar /\ IsFiniteSet(bars) /\ Cardinality(bars) <= size
          /\ \A b \in bars : b < fill.oldest /\ b <= fill.snapshot
          /\ \A c \in bars, b \in Bar :
                c < b /\ b < fill.oldest /\ b <= fill.snapshot => b \in bars
        <3> HIDE DEF size
        <3> QED
            BY <1>1, <2>1, NewestAreNext
    <2>3. now \in Nat /\ fill.clock <= fill.snapshot /\ fill.snapshot <= now
        BY <1>1, StoreAssumption DEF IInv, TypeOK, FillInOrder, Bar
    <2> HIDE DEF bars, size
    <2>4. page \in SUBSET Bar /\ page = {b \in bars : IsClosed(b, now)}
        BY <2>2 DEF Dropped
    <2> HIDE DEF page
    <2>5. \A b \in page : b \in Nat /\ b < fill.clock /\ b < now
        <3> SUFFICES ASSUME NEW b \in page PROVE b \in Nat /\ b < fill.clock /\ b < now
            OBVIOUS
        <3>1. b \in Nat /\ IsClosed(b, fill.clock) /\ IsClosed(b, now)
            BY <1>4, <2>4, StoreAssumption DEF Bar
        <3> QED
            BY <1>1, <2>3, <3>1, StoreAssumption DEF IsClosed, Bar
    <2>6. /\ Max(page) \in page /\ \A b \in page : b <= Max(page)
        BY <1>4, <2>4, MaxOfBars
    <2>7. top \in Bar \cup {None}
        BY <1>1, <2>4, <2>6, StoreAssumption DEF Bar, None
    <2>8. usable \in SUBSET page /\ usable \in SUBSET Bar
        BY <2>4
    <2>9. fill.written + Cardinality(usable) <= Budget
        <3>1. usable \in SUBSET bars
            BY <2>4, <2>8
        <3> HIDE DEF usable
        <3>2. Cardinality(usable) <= Cardinality(bars) /\ IsFiniteSet(usable)
            BY <2>2, <3>1, FS_Subset
        <3>3. Cardinality(usable) \in Nat /\ Cardinality(bars) \in Nat
            BY <2>2, <3>2, FS_CardinalityType
        <3> QED
            BY <1>1, <2>1, <2>2, <3>2, <3>3, StoreAssumption
    <2>10. \A c \in usable, b \in Bar :
              c < b /\ b < fill.oldest /\ b < top => b \in usable \/ b \in malformed
        <3> SUFFICES ASSUME NEW c \in usable, NEW b \in Bar,
                            c < b, b < fill.oldest, b < top, b \notin malformed
                     PROVE  b \in usable
            OBVIOUS
        <3>1. b \in Nat /\ c \in bars /\ c \in Nat /\ c >= Target
            BY <2>4, <2>5, <2>8, StoreAssumption DEF Bar
        <3>2. b < fill.clock
            <4>1. CASE fill.oldest # None
                BY <1>1, <3>1, <4>1, StoreAssumption DEF IInv, CursorIsStored, Bar, None
            <4>2. CASE fill.oldest = None
                <5>1. fill.top = None
                    BY <1>1, <4>2 DEF IInv, CursorIsStored
                <5>2. Max(page) \in Nat /\ b < Max(page) + 1
                    BY <2>5, <2>6, <5>1
                <5>3. b <= Max(page)
                    BY <3>1, <5>2
                <5> QED
                    BY <1>1, <2>5, <2>6, <3>1, <5>2, <5>3, StoreAssumption DEF Bar
            <4> QED
                BY <4>1, <4>2
        <3>3. b <= fill.snapshot /\ IsClosed(b, now)
            BY <1>1, <2>3, <3>1, <3>2, StoreAssumption DEF IsClosed, Bar
        <3>4. b \in page
            BY <2>2, <2>4, <3>1, <3>3
        <3> QED
            BY <3>1, <3>4, StoreAssumption
    <2>11. /\ fill'.at = "write" /\ fill'.top = top /\ fill'.written = fill.written
           /\ fill'.oldest = fill.oldest /\ fill'.snapshot = fill.snapshot
           /\ fill'.page = usable
        BY <1>4
    <2>12. fill' \in Fills
        BY <1>1, <1>4, <2>7, <2>8 DEF Fills
    <2>13. UNCHANGED <<now, malformed, row, ingest, jumped>>
        BY DEF FillReceives
    <2>14. SolidBelowTop'
        <3> SUFFICES ASSUME NEW b \in Bar, NEW c \in Bar, row[b] # "none", b <= c, c < top
                     PROVE  Accounted(c)
            BY <2>11, <2>13 DEF SolidBelowTop, Accounted
        <3>1. c < fill.top
            BY <1>1, StoreAssumption DEF Bar, None
        <3> QED
            BY <1>1, <3>1 DEF IInv, SolidBelowTop, Filling
    <2>15. FillInOrder'
        BY <1>1, <2>3, <2>5, <2>8, <2>11, <2>13, StoreAssumption DEF FillInOrder, Bar
    <2> HIDE DEF usable, top
    <2>16. (WithinBudget /\ CursorIsStored /\ PageIsWhole /\ BottomAtTarget)'
        BY <1>1, <2>9, <2>10, <2>11, <2>13, StoreAssumption DEF IInv, WithinBudget,
            CursorIsStored, PageIsWhole, BottomAtTarget
    <2> QED
        BY <2>12, <2>13, <2>14, <2>15, <2>16, OnlyFill
<1> QED
    BY <1>2, <1>3, <1>4
(* A page that is written joins the bars above it. *)
LEMMA FillWritesInv ==
    ASSUME IInv, FillWrites
    PROVE  IInv'
<1> DEFINE after == Oldest(row')
<1>1. /\ fill.at = "write" /\ fill.oldest \in Bar \cup {None} /\ fill.top \in Bar \cup {None}
      /\ fill.snapshot \in Bar /\ fill.page \in SUBSET Bar /\ fill.written \in Nat
      /\ \A b \in fill.page : b < fill.snapshot /\ b \notin malformed
      /\ fill.snapshot <= now /\ now \in Nat
    BY FillFields, StoreAssumption DEF IInv, TypeOK, FillWrites, FillInOrder, Bar
<1>2. \A b \in fill.page : Candle(b, fill.snapshot, TRUE) = "final"
    BY <1>1, StoreAssumption DEF Candle, IsClosed, Bar
<1>3. row \in [Bar -> Row \ {"early"}]
    BY DEF IInv, TypeOK, StoredHadClosed, Row
<1>4. row' = [b \in Bar |-> IF b \in fill.page THEN "final" ELSE row[b]]
    <2>1. \A b \in fill.page : Put(row[b], Candle(b, fill.snapshot, TRUE)) = "final"
        BY <1>2 DEF Put
    <2> QED
        BY <2>1 DEF FillWrites
<1>5. RowsGrow /\ row' \in [Bar -> Row \ {"early"}]
    BY <1>3, <1>4 DEF RowsGrow, Row
<1>6. /\ after \in Bar \cup {None}
      /\ after # None => after \in Bar /\ row'[after] # "none"
      /\ after = None => \A b \in Bar : row'[b] = "none"
    BY <1>5, OldestIsLowest DEF RowsGrow
<1>7. UNCHANGED <<now, malformed, ingest, jumped>>
    BY DEF FillWrites
<1>8. PICK ended \in {"target_reached", "no_more_bars", "loop"} :
         /\ fill' = [Over(ended) EXCEPT !.written = @ + Cardinality(fill.page)]
         /\ ended = "target_reached" => after # None /\ after <= Target
         /\ ended = "loop" => after # fill.oldest
    BY DEF FillWrites
<1> HIDE DEF after
<1>9. /\ fill'.at = ended /\ fill'.top = fill.top
      /\ fill'.written = fill.written + Cardinality(fill.page)
      /\ fill' = [at |-> ended, top |-> fill.top,
                  written |-> fill.written + Cardinality(fill.page)]
    BY <1>8 DEF Over
<1>10. Cardinality(fill.page) \in Nat /\ fill.written + Cardinality(fill.page) <= Budget
    <2>1. Bar \in SUBSET (0..LastBar) /\ IsFiniteSet(0..LastBar)
        BY FS_Interval, StoreAssumption DEF Bar
    <2>2. IsFiniteSet(fill.page)
        BY <1>1, <2>1, FS_Subset
    <2> QED
        BY <1>1, <2>2, FS_CardinalityType DEF IInv, WithinBudget
<1>11. fill' \in Fills
    BY <1>1, <1>9, <1>10, StoreAssumption DEF Fills
<1>12. TypeOK'
    BY <1>1, <1>4, <1>5, <1>7, <1>11 DEF IInv, TypeOK, RowsGrow
<1>13. RunsInOrder' /\ FillInOrder' /\ WithinBudget' /\ PageIsWhole'
    BY <1>7, <1>8, <1>9, <1>10 DEF IInv, RunsInOrder, RunInOrder, FillInOrder, WithinBudget,
        PageIsWhole
<1>14. StoredHadClosed'
    <2> SUFFICES ASSUME NEW b \in Bar, row'[b] # "none" PROVE b < now /\ row'[b] # "early"
        BY <1>7 DEF StoredHadClosed
    <2>1. CASE b \in fill.page
        BY <1>1, <1>4, <2>1, StoreAssumption DEF Bar
    <2>2. CASE b \notin fill.page
        BY <1>4, <2>2 DEF IInv, StoredHadClosed
    <2> QED
        BY <2>1, <2>2
<1>15. CursorIsStored'
    <2> SUFFICES ASSUME ended = "loop", fill.top # None
                 PROVE  \E b \in Bar : row'[b] # "none"
        BY <1>8, <1>9 DEF CursorIsStored
    <2>1. CASE after # None
        BY <1>6, <2>1
    <2>2. CASE after = None
        <3>1. fill.oldest \in Bar
            BY <1>1, <1>8, <2>2
        <3> QED
            BY <1>1, <1>5, <3>1, StoreAssumption DEF IInv, CursorIsStored, RowsGrow, Bar, None
    <2> QED
        BY <2>1, <2>2
<1>16. SolidBelowTop'
    <2> SUFFICES ASSUME NEW b \in Bar, NEW c \in Bar, row'[b] # "none", b <= c, c < fill.top
                 PROVE  Accounted(c)'
        BY <1>9 DEF SolidBelowTop
    <2>1. Accounted(c) => Accounted(c)'
        BY <1>5, <1>7 DEF Accounted, RowsGrow
    <2>2. \A d \in Bar : row[d] # "none" /\ d <= c => Accounted(c)
        BY <1>1 DEF IInv, SolidBelowTop, Filling
    <2>3. CASE row[b] # "none"
        BY <2>1, <2>2, <2>3
    <2>4. CASE row[b] = "none"
        <3>1. b \in fill.page
            BY <1>4, <2>4
        <3>2. CASE c < fill.oldest
            <4>1. c \in fill.page \/ c \in malformed
                BY <1>1, <3>1, <3>2, StoreAssumption DEF IInv, PageIsWhole, Bar
            <4> QED
                BY <1>4, <1>7, <4>1 DEF Accounted
        <3>3. CASE fill.oldest <= c
            <4>1. fill.oldest \in Bar /\ row[fill.oldest] # "none"
                BY <1>1, <3>3, StoreAssumption DEF IInv, CursorIsStored, Bar, None
            <4> QED
                BY <2>1, <2>2, <3>3, <4>1
        <3> QED
            BY <1>1, <3>2, <3>3, StoreAssumption DEF Bar, None
    <2> QED
        BY <2>3, <2>4
<1>17. BottomAtTarget'
    BY <1>6, <1>8, <1>9 DEF BottomAtTarget
<1> QED
    BY <1>12, <1>13, <1>14, <1>15, <1>16, <1>17 DEF IInv

(* Every step keeps the invariant. *)
LEMMA NextIInv ==
    ASSUME IInv, [Next]_vars
    PROVE  IInv'
<1>1. CASE UNCHANGED vars
    BY <1>1 DEF vars, IInv, TypeOK, RunsInOrder, RunInOrder, FillInOrder, StoredHadClosed,
        WithinBudget, CursorIsStored, PageIsWhole, SolidBelowTop, BottomAtTarget, Filling,
        Accounted
<1>2. CASE Tick
    BY <1>2, TickInv
<1>3. ASSUME NEW w \in Writer,
             \/ IngestBegins(w) \/ VenueReads(w) \/ IngestReceives(w)
             \/ Upsert(w) \/ IngestFails(w)
      PROVE  IInv'
    BY <1>3, BeginsInv, VenueReadsInv, ReceivesInv, UpsertInv, IngestFailsInv
<1>4. CASE FillBegins \/ FillGoesOn \/ FillFails
    BY <1>4, FillBeginsInv, FillAsksInv, VenuePagesInv, FillReceivesInv, FillWritesInv,
        FillFailsInv DEF FillGoesOn
<1> QED
    BY <1>1, <1>2, <1>3, <1>4 DEF Next

(* The invariant holds in every state: runs and pages in the order of their
   clocks, a budget that is kept, and bars that are all accounted for from the
   bottom of the series up to where a backfill began. *)
THEOREM InductiveInvariant == Spec => []IInv
<1>1. IInv /\ [Next]_vars => IInv'
    BY NextIInv
<1> QED
    BY InitIInv, <1>1, PTL DEF Spec

(* Every variable keeps its type, and a bar the table refuses has no row. *)
THEOREM TypeCorrect == Spec => []TypeOK
<1>1. IInv => TypeOK
    BY DEF IInv
<1> QED
    BY <1>1, InductiveInvariant, PTL

(* A backfill that reached its target has left out no bar from the target to
   the bars it found, wherever it was interrupted and whoever wrote meanwhile. *)
THEOREM NoHoleLeft == Spec => []BackfillLeavesNoHole
<1>1. IInv => BackfillLeavesNoHole
    <2> SUFFICES ASSUME IInv, fill.at = "target_reached", fill.top # None,
                        NEW b \in Target..fill.top - 1
                 PROVE  Accounted(b)
        BY DEF BackfillLeavesNoHole
    <2>1. fill.top \in Bar
        BY FillFields DEF IInv
    <2>2. b \in Bar /\ b < fill.top /\ Target <= b
        BY <2>1, StoreAssumption DEF Bar
    <2>3. PICK d \in Bar : row[d] # "none" /\ d <= Target
        BY DEF IInv, BottomAtTarget
    <2>4. d <= b
        BY <2>2, <2>3, StoreAssumption DEF Bar
    <2> QED
        BY <2>2, <2>3, <2>4 DEF IInv, SolidBelowTop
<1> QED
    BY <1>1, InductiveInvariant, PTL

(* No step stores a snapshot of a bar that was still moving as a closed row, or
   takes a finished row back. *)
THEOREM FinishedStaysFinished == Spec => ClosedRowsAreFinal
<1> DEFINE Step == \A b \in Bar :
                      /\ row'[b] # "early"
                      /\ row[b] = "final" => row'[b] = "final"
<1>1. IInv /\ IInv' /\ [Next]_vars => Step
    <2> SUFFICES ASSUME IInv, IInv', [Next]_vars, NEW b \in Bar
                 PROVE  /\ row'[b] # "early"
                        /\ row[b] = "final" => row'[b] = "final"
        OBVIOUS
    <2>1. /\ row'[b] # "none" => b < now' /\ row'[b] # "early"
          /\ now' \in Nat /\ b \in Nat
        BY StoreAssumption DEF IInv, TypeOK, StoredHadClosed, Bar
    <2>2. row[b] = "final" => row'[b] = "final"
        <3>1. CASE row' = row
            BY <3>1
        <3>2. CASE \E w \in Writer : Upsert(w)
            BY <3>2, UpsertWrites DEF RowsGrow
        <3>3. CASE FillWrites
            <4>1. b \in fill.page => b < fill.snapshot /\ fill.snapshot \in Bar
                BY <3>3, FillFields DEF IInv, FillWrites, FillInOrder
            <4>2. b \in fill.page => Put(row[b], Candle(b, fill.snapshot, TRUE)) = "final"
                BY <2>1, <4>1, StoreAssumption DEF Put, Candle, IsClosed, Bar
            <4> QED
                BY <3>3, <4>2 DEF FillWrites
        <3> QED
            BY <3>1, <3>2, <3>3 DEF Next, vars, Tick, IngestBegins, VenueReads, IngestReceives,
                IngestFails, FillBegins, FillGoesOn, FillAsks, VenuePages, FillReceives, FillFails
    <2> QED
        BY <2>1, <2>2
<1>2. [Next]_vars /\ IInv /\ IInv' => [Step]_vars
    BY <1>1
<1> QED
    BY <1>2, InductiveInvariant, PTL DEF Spec, ClosedRowsAreFinal

===============================================================================
